-------------------------- MODULE CRLCheckerProofs --------------------------
(***************************************************************************)
(* Proofs about the CRL check for any calls, URLs, certificates and any    *)
(* number of published CRLs.                                               *)
(***************************************************************************)
EXTENDS CRLChecker, TLAPS

InMonitorCRL == {"wantLM", "parse", "putCRL", "putLM"}
InMonitorLM  == {"parse", "putCRL", "putLM"}
Answered     == {"compare", "unbox", "body", "wantCrl", "wantLM", "parse", "putCRL",
                 "putLM", "get"}
Storing      == {"wantCrl", "wantLM", "parse", "putCRL", "putLM"}

\* A call owns a monitor exactly between entering and leaving it.
OwnersRight ==
    \A c \in Calls : /\ crlOwner = c <=> pc[c] \in InMonitorCRL
                     /\ lmOwner = c <=> pc[c] \in InMonitorLM

PublishedNonEmpty == \A u \in URLs : Len(published[u]) >= 1

\* Past "locate" the URL is known, and past "open" the date is that of the answer.
AnswerDated ==
    \A c \in Calls :
        /\ pc[c] \in Running \ {"locate"} => url[c] \in URLs
        /\ pc[c] \in Storing => conn[c] # 0
        /\ pc[c] \in Answered =>
              /\ conn[c] <= Len(published[url[c]])
              /\ now[c] = IF conn[c] = 0 THEN NoDate ELSE published[url[c]][conn[c]].stamp

Agree(u) == IF crl[u] = 0 THEN lastModified[u] = Absent
            ELSE lastModified[u] = published[u][crl[u]].stamp

\* The maps disagree about u at most while some call is between its two puts.
AgreeUnlessHalfWritten ==
    \A u \in URLs :
        /\ crl[u] <= Len(published[u])
        /\ lastModified[u] # Absent => crl[u] # 0
        /\ (\A c \in Calls : ~(pc[c] = "putLM" /\ url[c] = u)) => Agree(u)

HalfWritten == \A c \in Calls : pc[c] = "putLM" => crl[url[c]] = conn[c]

\* A CRL is taken from the cache only by the last step of a call, and it is one
\* the server published.
TakenPublished ==
    \A c \in Calls :
        local[c] # 0 => pc[c] = "done" /\ url[c] \in URLs /\ local[c] <= Len(published[url[c]])

\* Two running calls on one URL have been recorded as overlapping, and a call
\* that was not overlapped finds in the cache what its own answer was dated.
OverlapsRecorded ==
    \A c, d \in Calls :
        (c # d /\ pc[c] \in Running /\ pc[d] \in Running /\ url[c] = url[d]) => c \in overlapped

UndisturbedHit ==
    \A c \in Calls : (pc[c] = "get" /\ c \notin overlapped) => lastModified[url[c]] = now[c]

IInv ==
    /\ TypeOK
    /\ OwnersRight
    /\ PublishedNonEmpty
    /\ AnswerDated
    /\ AgreeUnlessHalfWritten
    /\ HalfWritten
    /\ CRLThereWhenReturned
    /\ ValidRestsOnCRL
    /\ RefusalHasReason
    /\ TakenPublished
    /\ OverlapsRecorded
    /\ UndisturbedHit
    /\ UndisturbedIsCurrent

-----------------------------------------------------------------------------
(***************************************************************************)
(* Type correctness.                                                       *)
(***************************************************************************)
LEMMA InitType == Init => TypeOK
  <1> SUFFICES ASSUME Init PROVE TypeOK
    OBVIOUS
  <1> DEFINE Item == [stamp : Nat, revoked : SUBSET Certs]
  <1> DEFINE First == [stamp : {NoDate, 1}, revoked : Revocations]
  <1>1. First \subseteq Item
    BY ListsType DEF NoDate
  <1>2. published \in [URLs -> {<<i>> : i \in First}]
    BY DEF Init
  <1>3. published \in [URLs -> Seq(Item)]
    <2>1. ASSUME NEW u \in URLs PROVE published[u] \in Seq(Item)
      <3> HIDE DEF First, Item
      <3>1. published[u] \in {<<i>> : i \in First}
        BY <1>2
      <3>2. PICK i \in First : published[u] = <<i>>
        BY <3>1
      <3> QED
        BY <1>1, <3>2
    <2> HIDE DEF First, Item
    <2> QED
      BY <1>2, <2>1
  <1>4. verdict \in [Calls -> [valid : BOOLEAN, errors : 0..2]]
    BY DEF Init, NewDetails
  <1>5. /\ crl = [u \in URLs |-> 0]
        /\ lastModified = [u \in URLs |-> Absent]
        /\ crlOwner = NoCall /\ lmOwner = NoCall
        /\ pc = [c \in Calls |-> "idle"]
        /\ url = [c \in Calls |-> NoURL]
        /\ cert \in [Calls -> Certs]
        /\ conn = [c \in Calls |-> 0] /\ now = [c \in Calls |-> NoDate]
        /\ local = [c \in Calls |-> 0]
        /\ overlapped = {}
    BY DEF Init
  <1> QED
    BY <1>3, <1>4, <1>5 DEF TypeOK, NoDate, Absent, Running

\* Each server starts with one CRL.
LEMMA InitLen == Init => \A u \in URLs : Len(published[u]) = 1
  <1> SUFFICES ASSUME Init, NEW u \in URLs PROVE Len(published[u]) = 1
    OBVIOUS
  <1>1. published[u] \in {<<i>> : i \in [stamp : {NoDate, 1}, revoked : Revocations]}
    BY DEF Init
  <1> QED
    BY <1>1

\* Publishing a CRL leaves the earlier ones in their places.
LEMMA AppendKeeps ==
  ASSUME NEW S, NEW s \in Seq(S), NEW e \in S
  PROVE  /\ Append(s, e) \in Seq(S)
         /\ Len(Append(s, e)) = Len(s) + 1
         /\ \A v \in 1..Len(s) : Append(s, e)[v] = s[v]
  OBVIOUS

\* The date of the CRL published last is a number.
LEMMA LastStamp ==
  ASSUME TypeOK, PublishedNonEmpty, NEW u \in URLs
  PROVE  published[u][Len(published[u])].stamp \in Nat
  <1> DEFINE Item == [stamp : Nat, revoked : SUBSET Certs]
  <1>1. published[u] \in Seq(Item)
    BY DEF TypeOK
  <1>2. Len(published[u]) \in Nat /\ Len(published[u]) >= 1
    BY <1>1 DEF PublishedNonEmpty
  <1>3. published[u][Len(published[u])] \in Item
    <2> HIDE DEF Item
    <2> QED
      BY <1>1, <1>2
  <1> QED
    BY <1>3

\* The number of CRLs published at a URL is a number.
LEMMA LenIsNat ==
  ASSUME TypeOK, NEW u \in URLs
  PROVE  Len(published[u]) \in Nat
  <1> DEFINE Item == [stamp : Nat, revoked : SUBSET Certs]
  <1>1. published[u] \in Seq(Item)
    BY DEF TypeOK
  <1> HIDE DEF Item
  <1> QED
    BY <1>1

\* Publishing keeps the types and withdraws nothing.
LEMMA PublishType ==
  ASSUME TypeOK, PublishedNonEmpty, NEW u \in URLs, Publish(u)
  PROVE  /\ TypeOK'
         /\ \A w \in URLs : /\ Len(published'[w]) >= Len(published[w])
                            /\ \A v \in 1..Len(published[w]) : published'[w][v] = published[w][v]

  <1> DEFINE Item == [stamp : Nat, revoked : SUBSET Certs]
  <1>1. PICK revoked \in SUBSET Certs, d \in Nat :
            published' = [published EXCEPT ![u] = Append(@, Issue(d, revoked))]
    <2>1. PICK revoked \in Revocations,
               d \in {published[u][Len(published[u])].stamp, published[u][Len(published[u])].stamp + 1} :
               published' = [published EXCEPT ![u] = Append(@, Issue(d, revoked))]
      BY DEF Publish
    <2>2. d \in Nat
      BY LastStamp
    <2> QED
      BY <2>1, <2>2, ListsType
  <1>2. Issue(d, revoked) \in Item
    BY DEF Issue
  <1>3. published[u] \in Seq(Item)
    BY DEF TypeOK
  <1>4. Append(published[u], Issue(d, revoked)) \in Seq(Item)
    BY <1>2, <1>3
  <1>5. published' \in [URLs -> Seq(Item)]
    BY <1>1, <1>4 DEF TypeOK
  <1>6. \A w \in URLs : published'[w] = IF w = u THEN Append(published[u], Issue(d, revoked)) ELSE published[w]
    BY <1>1 DEF TypeOK
  <1>7. ASSUME NEW w \in URLs
        PROVE  /\ Len(published'[w]) >= Len(published[w])
               /\ \A v \in 1..Len(published[w]) : published'[w][v] = published[w][v]
    <2>0. published[w] \in Seq(Item)
      BY DEF TypeOK
    <2>1. CASE w = u
      <3>1. published'[w] = Append(published[w], Issue(d, revoked))
        BY <1>6, <2>1
      <3>2. Len(published[w]) \in Nat
        BY <2>0
      <3> HIDE DEF Item
      <3> QED
        BY <1>2, <2>0, <3>1, <3>2, AppendKeeps
    <2>2. CASE w # u
      BY <1>6, <2>0, <2>2
    <2> QED
      BY <2>1, <2>2
  <1>8. TypeOK'
    BY <1>5 DEF TypeOK, Publish, cache, monitors, request, answer
  <1> QED
    BY <1>7, <1>8

\* The caches are empty and no call runs at the start.
LEMMA InitInv == Init => IInv
  <1> SUFFICES ASSUME Init PROVE IInv
    OBVIOUS
  <1>1. TypeOK
    BY InitType
  <1>2. \A u \in URLs : Len(published[u]) = 1
    BY InitLen
  <1>3. \A c \in Calls : pc[c] = "idle"
    BY DEF Init
  <1>4. OwnersRight
    BY <1>3, NamesDiffer DEF Init, OwnersRight, InMonitorCRL, InMonitorLM
  <1>5. PublishedNonEmpty
    BY <1>2 DEF PublishedNonEmpty
  <1>6. AnswerDated /\ HalfWritten /\ TakenPublished /\ OverlapsRecorded /\ UndisturbedHit
    BY <1>3 DEF Init, AnswerDated, Running, Storing, Answered, HalfWritten, TakenPublished,
      OverlapsRecorded, UndisturbedHit
  <1>7. CRLThereWhenReturned /\ ValidRestsOnCRL /\ RefusalHasReason /\ UndisturbedIsCurrent
    BY <1>3 DEF CRLThereWhenReturned, ValidRestsOnCRL, RefusalHasReason, UndisturbedIsCurrent
  <1>8. AgreeUnlessHalfWritten
    BY <1>2 DEF Init, AgreeUnlessHalfWritten, Agree, Absent
  <1> QED
    BY <1>1, <1>4, <1>5, <1>6, <1>7, <1>8 DEF IInv

-----------------------------------------------------------------------------
(***************************************************************************)
(* Two kinds of step many actions share: a call refuses, or it moves on    *)
(* without touching anything but its own place.                            *)
(***************************************************************************)
LEMMA RefuseKeeps ==
  ASSUME IInv, NEW c \in Calls, NEW n \in 1..2,
         pc[c] \in {"locate", "unbox", "body", "parse"},
         pc' = [pc EXCEPT ![c] = "done"],
         verdict' = [verdict EXCEPT ![c] = [valid |-> FALSE, errors |-> n]],
         \/ pc[c] = "parse" /\ Leave
         \/ pc[c] # "parse" /\ UNCHANGED monitors,
         UNCHANGED <<published, cache, request, answer, local>>
  PROVE  IInv'
  <1> USE DEF IInv, TypeOK, Reply, Leave, Goto, monitors, cache, request, answer, Running, InMonitorCRL, InMonitorLM, Answered, Storing
  <1>1. TypeOK'
    <2>1. verdict' \in [Calls -> [valid : BOOLEAN, errors : 0..2]]
      <3>1. [valid |-> FALSE, errors |-> n] \in [valid : BOOLEAN, errors : 0..2]
        OBVIOUS
      <3> QED
        BY <3>1
    <2> QED
      BY <2>1
  <1>2. OwnersRight'
    BY NamesDiffer DEF OwnersRight
  <1>3. PublishedNonEmpty'
    BY <1>1 DEF PublishedNonEmpty
  <1>4. AnswerDated'
    BY <1>1 DEF AnswerDated
  <1>5. AgreeUnlessHalfWritten'
    BY <1>1 DEF AgreeUnlessHalfWritten, AnswerDated, OwnersRight, HalfWritten, Agree, Absent
  <1>6. HalfWritten'
    BY <1>1 DEF HalfWritten, OwnersRight
  <1>7. CRLThereWhenReturned'
    BY <1>1 DEF CRLThereWhenReturned
  <1>8. ValidRestsOnCRL'
    BY <1>1 DEF ValidRestsOnCRL
  <1>9. RefusalHasReason'
    <2>1. verdict'[c].errors = n /\ n # 0
      OBVIOUS
    <2> QED
      BY <2>1 DEF RefusalHasReason
  <1>10. TakenPublished'
    BY <1>1 DEF TakenPublished
  <1>11. OverlapsRecorded'
    BY <1>1 DEF OverlapsRecorded
  <1>12. UndisturbedHit'
    BY <1>1 DEF UndisturbedHit
  <1>13. UndisturbedIsCurrent'
    BY <1>1 DEF UndisturbedIsCurrent, TakenPublished
  <1> QED
    BY <1>1, <1>2, <1>3, <1>4, <1>5, <1>6, <1>7, <1>8, <1>9, <1>10, <1>11, <1>12, <1>13

\* A step that only moves a call on, outside its monitors, keeps the invariant.
LEMMA AdvanceKeeps ==
  ASSUME IInv, NEW c \in Calls, NEW to,
         \/ pc[c] = "locate" /\ to = "open" /\ url[c] # NoURL
         \/ pc[c] = "compare" /\ to \in {"body", "unbox"}
         \/ pc[c] = "unbox" /\ to = "body"
         \/ pc[c] = "unbox" /\ to = "get" /\ lastModified[url[c]] = now[c]
         \/ pc[c] = "body" /\ to = "wantCrl" /\ conn[c] # 0
         \/ pc[c] = "parse" /\ to = "putCRL",
         Goto(c, to),
         UNCHANGED <<published, cache, monitors, request, answer, local, verdict>>
  PROVE  IInv'
  <1> USE DEF IInv, TypeOK, Goto, monitors, cache, request, answer, Running, InMonitorCRL, InMonitorLM, Answered, Storing
  <1>1. TypeOK'
    BY NamesDiffer
  <1>2. OwnersRight'
    BY NamesDiffer DEF OwnersRight
  <1>3. PublishedNonEmpty'
    BY <1>1 DEF PublishedNonEmpty
  <1>4. AnswerDated'
    BY <1>1 DEF AnswerDated
  <1>5. AgreeUnlessHalfWritten'
    BY <1>1 DEF AgreeUnlessHalfWritten, AnswerDated, OwnersRight, HalfWritten, Agree, Absent
  <1>6. HalfWritten'
    BY <1>1 DEF HalfWritten, OwnersRight
  <1>7. CRLThereWhenReturned'
    BY <1>1 DEF CRLThereWhenReturned, AnswerDated, AgreeUnlessHalfWritten, Absent
  <1>8. ValidRestsOnCRL'
    BY <1>1 DEF ValidRestsOnCRL
  <1>9. RefusalHasReason'
    BY <1>1 DEF RefusalHasReason
  <1>10. TakenPublished'
    BY <1>1 DEF TakenPublished
  <1>11. OverlapsRecorded'
    BY <1>1 DEF OverlapsRecorded
  <1>12. UndisturbedHit'
    BY <1>1 DEF UndisturbedHit
  <1>13. UndisturbedIsCurrent'
    BY <1>1 DEF UndisturbedIsCurrent
  <1> QED
    BY <1>1, <1>2, <1>3, <1>4, <1>5, <1>6, <1>7, <1>8, <1>9, <1>10, <1>11, <1>12, <1>13

\* Reading the distribution point finds a URL or refuses.
LEMMA LocateKeeps ==
  ASSUME IInv, NEW c \in Calls, Locate(c)
  PROVE  IInv'
  <1> USE DEF Locate, cache, monitors, request, answer
  <1>1. CASE url[c] # NoURL /\ Goto(c, "open") /\ UNCHANGED verdict
    BY <1>1, AdvanceKeeps
  <1>2. CASE \E n \in {1, 2} : Reply(c, FALSE, n)
    <2>1. PICK n \in {1, 2} : Reply(c, FALSE, n)
      BY <1>2
    <2>2. /\ pc' = [pc EXCEPT ![c] = "done"]
          /\ verdict' = [verdict EXCEPT ![c] = [valid |-> FALSE, errors |-> n]]
      BY <2>1 DEF Reply, Goto
    <2>3. n \in 1..2
      OBVIOUS
    <2>4. pc[c] = "locate" /\ UNCHANGED <<published, cache, monitors, request, answer, local>>
      OBVIOUS
    <2> HIDE DEF Locate, cache, monitors, request, answer
    <2> QED
      BY <2>2, <2>3, <2>4, RefuseKeeps
  <1> QED
    BY <1>1, <1>2

\* The first read of the cached date decides nothing yet.
LEMMA CompareKeeps ==
  ASSUME IInv, NEW c \in Calls, Compare(c)
  PROVE  IInv'
  BY AdvanceKeeps DEF Compare

\* Asking for the body goes on only with an answer.
LEMMA GetInputStreamKeeps ==
  ASSUME IInv, NEW c \in Calls, GetInputStream(c)
  PROVE  IInv'
  <1> USE DEF GetInputStream, cache, monitors, request, answer
  <1>0. pc[c] = "body"
    OBVIOUS
  <1>1. CASE Throw(c) /\ UNCHANGED monitors
    <2>1. /\ pc' = [pc EXCEPT ![c] = "done"]
          /\ verdict' = [verdict EXCEPT ![c] = [valid |-> FALSE, errors |-> 1]]
      BY <1>1 DEF Throw, Reply, Goto
    <2>2. UNCHANGED <<published, cache, request, answer, local>>
      OBVIOUS
    <2>3. 1 \in 1..2
      OBVIOUS
    <2> HIDE DEF GetInputStream, cache, monitors, request, answer
    <2> QED
      BY <1>0, <1>1, <2>1, <2>2, <2>3, RefuseKeeps
  <1>2. CASE conn[c] # 0 /\ Goto(c, "wantCrl") /\ UNCHANGED verdict
    BY <1>0, <1>2, AdvanceKeeps
  <1> QED
    BY <1>1, <1>2

\* A call goes on to the cached CRL only if the date it read is that of its answer.
LEMMA UnboxKeeps ==
  ASSUME IInv, NEW c \in Calls, Unbox(c)
  PROVE  IInv'
  <1> USE DEF Unbox, cache, monitors, request, answer
  <1>0. pc[c] = "unbox"
    OBVIOUS
  <1>1. CASE Throw(c) /\ UNCHANGED monitors
    <2>1. /\ pc' = [pc EXCEPT ![c] = "done"]
          /\ verdict' = [verdict EXCEPT ![c] = [valid |-> FALSE, errors |-> 1]]
      BY <1>1 DEF Throw, Reply, Goto
    <2>2. UNCHANGED <<published, cache, request, answer, local>>
      OBVIOUS
    <2>3. 1 \in 1..2
      OBVIOUS
    <2> HIDE DEF Unbox, cache, monitors, request, answer
    <2> QED
      BY <1>0, <1>1, <2>1, <2>2, <2>3, RefuseKeeps
  <1>2. ASSUME NEW cached \in ReadLM(url[c]), cached # Absent,
               Goto(c, IF now[c] # cached THEN "body" ELSE "get"), UNCHANGED verdict
        PROVE  IInv'
    <2>1. cached = lastModified[url[c]]
      BY <1>2 DEF ReadLM
    <2>2. CASE now[c] # cached
      BY <1>0, <1>2, <2>2, AdvanceKeeps
    <2>3. CASE now[c] = cached
      BY <1>0, <1>2, <2>1, <2>3, AdvanceKeeps
    <2> QED
      BY <2>2, <2>3
  <1> QED
    BY <1>1, <1>2

\* A body that breaks leaves both maps as they were and gives both monitors back.
LEMMA ParseKeeps ==
  ASSUME IInv, NEW c \in Calls, Parse(c)
  PROVE  IInv'
  <1> USE DEF Parse, cache, monitors, request, answer
  <1>0. pc[c] = "parse"
    OBVIOUS
  <1>1. CASE Throw(c) /\ Leave
    <2>1. /\ pc' = [pc EXCEPT ![c] = "done"]
          /\ verdict' = [verdict EXCEPT ![c] = [valid |-> FALSE, errors |-> 1]]
      BY <1>1 DEF Throw, Reply, Goto
    <2>2. UNCHANGED <<published, cache, request, answer, local>>
      OBVIOUS
    <2>3. 1 \in 1..2
      OBVIOUS
    <2> HIDE DEF Parse, cache, monitors, request, answer
    <2> QED
      BY <1>0, <1>1, <2>1, <2>2, <2>3, RefuseKeeps
  <1>2. CASE Goto(c, "putCRL") /\ UNCHANGED <<monitors, verdict>>
    BY <1>0, <1>2, AdvanceKeeps
  <1> QED
    BY <1>1, <1>2

\* The date is that of the answer, or 0 without one.
LEMMA OpenKeeps ==
  ASSUME IInv, NEW c \in Calls, Open(c)
  PROVE  IInv'
  <1> USE DEF IInv, TypeOK, Open, Goto, monitors, cache, request, answer, Running, InMonitorCRL, InMonitorLM, Answered, Storing
  <1>0. PICK n \in 0..Len(published[url[c]]) :
            /\ conn' = [conn EXCEPT ![c] = n]
            /\ now' = [now EXCEPT ![c] = IF n = 0 THEN NoDate ELSE published[url[c]][n].stamp]
            /\ n # 0 => published[url[c]][n].stamp \in Nat
    <2>0. url[c] \in URLs
      BY DEF AnswerDated
    <2>1. published[url[c]][Len(published[url[c]])].stamp \in Nat
      BY <2>0, LastStamp
    <2>2. Len(published[url[c]]) \in Nat /\ Len(published[url[c]]) >= 1
      BY <2>0 DEF PublishedNonEmpty
    <2>3. CASE conn' = [conn EXCEPT ![c] = 0] /\ now' = [now EXCEPT ![c] = NoDate]
      <3> WITNESS 0 \in 0..Len(published[url[c]])
      <3> QED
        BY <2>3
    <2>4. CASE /\ conn' = [conn EXCEPT ![c] = Len(published[url[c]])]
               /\ now' = [now EXCEPT ![c] = published[url[c]][conn'[c]].stamp]
      <3>1. conn'[c] = Len(published[url[c]])
        BY <2>4
      <3>2. now' = [now EXCEPT ![c] = published[url[c]][Len(published[url[c]])].stamp]
        BY <2>4, <3>1
      <3>3. Len(published[url[c]]) # 0
        BY <2>2
      <3> Len(published[url[c]]) \in 0..Len(published[url[c]])
        BY <2>2
      <3> WITNESS Len(published[url[c]]) \in 0..Len(published[url[c]])
      <3> QED
        BY <2>1, <2>4, <3>2, <3>3
    <2> QED
      BY <2>3, <2>4
  <1>1. TypeOK'
    <2>1. conn' \in [Calls -> Nat] /\ now' \in [Calls -> Nat]
      BY <1>0 DEF NoDate
    <2> QED
      BY <2>1
  <1>2. OwnersRight'
    BY NamesDiffer DEF OwnersRight
  <1>3. PublishedNonEmpty'
    BY <1>1 DEF PublishedNonEmpty
  <1>4. AnswerDated'
    BY <1>0, <1>1 DEF AnswerDated
  <1>5. AgreeUnlessHalfWritten'
    BY <1>1 DEF AgreeUnlessHalfWritten, AnswerDated, OwnersRight, HalfWritten, Agree, Absent
  <1>6. HalfWritten'
    BY <1>1 DEF HalfWritten, OwnersRight
  <1>7. CRLThereWhenReturned'
    BY <1>1 DEF CRLThereWhenReturned
  <1>8. ValidRestsOnCRL'
    BY <1>1 DEF ValidRestsOnCRL
  <1>9. RefusalHasReason'
    BY <1>1 DEF RefusalHasReason
  <1>10. TakenPublished'
    BY <1>1 DEF TakenPublished
  <1>11. OverlapsRecorded'
    BY <1>1 DEF OverlapsRecorded
  <1>12. UndisturbedHit'
    BY <1>1 DEF UndisturbedHit
  <1>13. UndisturbedIsCurrent'
    BY <1>1 DEF UndisturbedIsCurrent
  <1> QED
    BY <1>1, <1>2, <1>3, <1>4, <1>5, <1>6, <1>7, <1>8, <1>9, <1>10, <1>11, <1>12, <1>13

\* Entering synchronized (crl).
LEMMA EnterCRLKeeps ==
  ASSUME IInv, NEW c \in Calls, EnterCRL(c)
  PROVE  IInv'
  <1> USE DEF IInv, TypeOK, EnterCRL, Goto, monitors, cache, request, answer, Running, InMonitorCRL, InMonitorLM, Answered, Storing
  <1>1. TypeOK'
    BY NamesDiffer
  <1>2. OwnersRight'
    BY NamesDiffer DEF OwnersRight
  <1>3. PublishedNonEmpty'
    BY <1>1 DEF PublishedNonEmpty
  <1>4. AnswerDated'
    BY <1>1 DEF AnswerDated
  <1>5. AgreeUnlessHalfWritten'
    BY <1>1 DEF AgreeUnlessHalfWritten, AnswerDated, OwnersRight, HalfWritten, Agree, Absent
  <1>6. HalfWritten'
    BY <1>1 DEF HalfWritten, OwnersRight
  <1>7. CRLThereWhenReturned'
    BY <1>1 DEF CRLThereWhenReturned
  <1>8. ValidRestsOnCRL'
    BY <1>1 DEF ValidRestsOnCRL
  <1>9. RefusalHasReason'
    BY <1>1 DEF RefusalHasReason
  <1>10. TakenPublished'
    BY <1>1 DEF TakenPublished
  <1>11. OverlapsRecorded'
    BY <1>1 DEF OverlapsRecorded
  <1>12. UndisturbedHit'
    BY <1>1 DEF UndisturbedHit
  <1>13. UndisturbedIsCurrent'
    BY <1>1 DEF UndisturbedIsCurrent
  <1> QED
    BY <1>1, <1>2, <1>3, <1>4, <1>5, <1>6, <1>7, <1>8, <1>9, <1>10, <1>11, <1>12, <1>13

\* Entering synchronized (lastModified), which only the owner of crl can.
LEMMA EnterLMKeeps ==
  ASSUME IInv, NEW c \in Calls, EnterLM(c)
  PROVE  IInv'
  <1> USE DEF IInv, TypeOK, EnterLM, Goto, monitors, cache, request, answer, Running, InMonitorCRL, InMonitorLM, Answered, Storing
  <1>1. TypeOK'
    BY NamesDiffer
  <1>2. OwnersRight'
    BY NamesDiffer DEF OwnersRight
  <1>3. PublishedNonEmpty'
    BY <1>1 DEF PublishedNonEmpty
  <1>4. AnswerDated'
    BY <1>1 DEF AnswerDated
  <1>5. AgreeUnlessHalfWritten'
    BY <1>1 DEF AgreeUnlessHalfWritten, AnswerDated, OwnersRight, HalfWritten, Agree, Absent
  <1>6. HalfWritten'
    BY <1>1 DEF HalfWritten, OwnersRight
  <1>7. CRLThereWhenReturned'
    BY <1>1 DEF CRLThereWhenReturned
  <1>8. ValidRestsOnCRL'
    BY <1>1 DEF ValidRestsOnCRL
  <1>9. RefusalHasReason'
    BY <1>1 DEF RefusalHasReason
  <1>10. TakenPublished'
    BY <1>1 DEF TakenPublished
  <1>11. OverlapsRecorded'
    BY <1>1 DEF OverlapsRecorded
  <1>12. UndisturbedHit'
    BY <1>1 DEF UndisturbedHit
  <1>13. UndisturbedIsCurrent'
    BY <1>1 DEF UndisturbedIsCurrent
  <1> QED
    BY <1>1, <1>2, <1>3, <1>4, <1>5, <1>6, <1>7, <1>8, <1>9, <1>10, <1>11, <1>12, <1>13

\* The CRL is stored by the owner of both monitors.
LEMMA PutCRLKeeps ==
  ASSUME IInv, NEW c \in Calls, PutCRL(c)
  PROVE  IInv'
  <1> USE DEF IInv, TypeOK, PutCRL, Goto, monitors, cache, request, answer, Running, InMonitorCRL, InMonitorLM, Answered, Storing
  <1>1. TypeOK'
    BY NamesDiffer
  <1>2. OwnersRight'
    BY NamesDiffer DEF OwnersRight
  <1>3. PublishedNonEmpty'
    BY <1>1 DEF PublishedNonEmpty
  <1>4. AnswerDated'
    BY <1>1 DEF AnswerDated
  <1>5. AgreeUnlessHalfWritten'
    BY <1>1 DEF AgreeUnlessHalfWritten, AnswerDated, OwnersRight, HalfWritten, Agree, Absent
  <1>6. HalfWritten'
    BY <1>1 DEF HalfWritten, OwnersRight
  <1>7. CRLThereWhenReturned'
    BY <1>1 DEF CRLThereWhenReturned, AnswerDated
  <1>8. ValidRestsOnCRL'
    BY <1>1 DEF ValidRestsOnCRL
  <1>9. RefusalHasReason'
    BY <1>1 DEF RefusalHasReason, AnswerDated
  <1>10. TakenPublished'
    BY <1>1 DEF TakenPublished
  <1>11. OverlapsRecorded'
    BY <1>1 DEF OverlapsRecorded
  <1>12. UndisturbedHit'
    BY <1>1 DEF UndisturbedHit
  <1>13. UndisturbedIsCurrent'
    BY <1>1 DEF UndisturbedIsCurrent
  <1> QED
    BY <1>1, <1>2, <1>3, <1>4, <1>5, <1>6, <1>7, <1>8, <1>9, <1>10, <1>11, <1>12, <1>13

\* The date follows, and the maps agree again.
LEMMA PutLMKeeps ==
  ASSUME IInv, NEW c \in Calls, PutLM(c)
  PROVE  IInv'
  <1> USE DEF IInv, TypeOK, PutLM, Leave, Goto, monitors, cache, request, answer, Running, InMonitorCRL, InMonitorLM, Answered, Storing
  <1>1. TypeOK'
    BY NamesDiffer
  <1>2. OwnersRight'
    BY NamesDiffer DEF OwnersRight
  <1>3. PublishedNonEmpty'
    BY <1>1 DEF PublishedNonEmpty
  <1>4. AnswerDated'
    BY <1>1 DEF AnswerDated
  <1>5. AgreeUnlessHalfWritten'
    BY <1>1 DEF AgreeUnlessHalfWritten, AnswerDated, OwnersRight, HalfWritten, Agree, Absent
  <1>6. HalfWritten'
    BY <1>1 DEF HalfWritten, OwnersRight
  <1>7. CRLThereWhenReturned'
    BY <1>1 DEF CRLThereWhenReturned, HalfWritten, AnswerDated
  <1>8. ValidRestsOnCRL'
    BY <1>1 DEF ValidRestsOnCRL
  <1>9. RefusalHasReason'
    BY <1>1 DEF RefusalHasReason
  <1>10. TakenPublished'
    BY <1>1 DEF TakenPublished
  <1>11. OverlapsRecorded'
    BY <1>1 DEF OverlapsRecorded
  <1>12. UndisturbedHit'
    BY <1>1 DEF UndisturbedHit, OverlapsRecorded, AnswerDated
  <1>13. UndisturbedIsCurrent'
    BY <1>1 DEF UndisturbedIsCurrent
  <1> QED
    BY <1>1, <1>2, <1>3, <1>4, <1>5, <1>6, <1>7, <1>8, <1>9, <1>10, <1>11, <1>12, <1>13

\* The verdict is taken from the CRL read, or from none if the read missed it.
LEMMA GetKeeps ==
  ASSUME IInv, NEW c \in Calls, Get(c)
  PROVE  IInv'
  <1> USE DEF IInv, TypeOK, Get, ReadCRL, Reply, Goto, monitors, cache, request, answer, Running, InMonitorCRL, InMonitorLM, Answered, Storing
  <1>0. PICK v \in Nat, valid \in BOOLEAN, n \in 0..2 :
            /\ local' = [local EXCEPT ![c] = v]
            /\ pc' = [pc EXCEPT ![c] = "done"]
            /\ verdict' = [verdict EXCEPT ![c] = [valid |-> valid, errors |-> n]]
            /\ v \in {0, crl[url[c]]}
            /\ valid => v # 0 /\ cert[c] \notin published[url[c]][v].revoked
            /\ n = 0 => valid \/ v = 0
    <2>1. url[c] \in URLs
      BY DEF AnswerDated
    <2>2. PICK v \in ReadCRL(url[c]) :
              /\ local' = [local EXCEPT ![c] = v]
              /\ \/ v = 0 /\ Reply(c, FALSE, 0)
                 \/ /\ v # 0
                    /\ IF cert[c] \in published[url[c]][v].revoked
                       THEN Reply(c, FALSE, 1)
                       ELSE Reply(c, TRUE, 0)
      OBVIOUS
    <2>3. v \in {0, crl[url[c]]} /\ v \in Nat
      BY <2>1 DEF ReadCRL
    <2>4. CASE v = 0 /\ Reply(c, FALSE, 0)
      <3>1. /\ pc' = [pc EXCEPT ![c] = "done"]
            /\ verdict' = [verdict EXCEPT ![c] = [valid |-> FALSE, errors |-> 0]]
        BY <2>4 DEF Reply, Goto
      <3> v \in Nat
        BY <2>3
      <3> WITNESS v \in Nat, FALSE \in BOOLEAN, 0 \in 0..2
      <3> QED
        BY <2>2, <2>3, <2>4, <3>1
    <2>5. CASE v # 0 /\ cert[c] \in published[url[c]][v].revoked /\ Reply(c, FALSE, 1)
      <3>1. /\ pc' = [pc EXCEPT ![c] = "done"]
            /\ verdict' = [verdict EXCEPT ![c] = [valid |-> FALSE, errors |-> 1]]
        BY <2>5 DEF Reply, Goto
      <3> v \in Nat
        BY <2>3
      <3> WITNESS v \in Nat, FALSE \in BOOLEAN, 1 \in 0..2
      <3> QED
        BY <2>2, <2>3, <2>5, <3>1
    <2>6. CASE v # 0 /\ cert[c] \notin published[url[c]][v].revoked /\ Reply(c, TRUE, 0)
      <3>1. /\ pc' = [pc EXCEPT ![c] = "done"]
            /\ verdict' = [verdict EXCEPT ![c] = [valid |-> TRUE, errors |-> 0]]
        BY <2>6 DEF Reply, Goto
      <3> v \in Nat
        BY <2>3
      <3> WITNESS v \in Nat, TRUE \in BOOLEAN, 0 \in 0..2
      <3> QED
        BY <2>2, <2>3, <2>6, <3>1
    <2> QED
      BY <2>2, <2>4, <2>5, <2>6
  <1> HIDE DEF Get
  <1>U. /\ pc[c] = "get"
        /\ UNCHANGED <<published, cache, monitors, request, answer>>
    BY DEF Get
  <1>1. TypeOK'
    <2>1. [valid |-> valid, errors |-> n] \in [valid : BOOLEAN, errors : 0..2]
      OBVIOUS
    <2>2. verdict' \in [Calls -> [valid : BOOLEAN, errors : 0..2]]
      BY <1>0, <2>1
    <2> QED
      BY <1>0, <1>U, <2>2
  <1>2. OwnersRight'
    BY <1>0, <1>U, NamesDiffer DEF OwnersRight
  <1>3. PublishedNonEmpty'
    BY <1>0, <1>U, <1>1 DEF PublishedNonEmpty
  <1>4. AnswerDated'
    BY <1>0, <1>U, <1>1 DEF AnswerDated
  <1>5. AgreeUnlessHalfWritten'
    BY <1>0, <1>U, <1>1 DEF AgreeUnlessHalfWritten, AnswerDated, OwnersRight, HalfWritten, Agree, Absent
  <1>6. HalfWritten'
    BY <1>0, <1>U, <1>1 DEF HalfWritten, OwnersRight
  <1>7. CRLThereWhenReturned'
    BY <1>0, <1>U, <1>1 DEF CRLThereWhenReturned
  <1>8. ValidRestsOnCRL'
    BY <1>0, <1>U, <1>1 DEF ValidRestsOnCRL, AnswerDated, AgreeUnlessHalfWritten
  <1>9. RefusalHasReason'
    BY <1>0, <1>U, <1>1 DEF RefusalHasReason, CRLThereWhenReturned
  <1>10. TakenPublished'
    BY <1>0, <1>U, <1>1 DEF TakenPublished, AnswerDated, AgreeUnlessHalfWritten
  <1>11. OverlapsRecorded'
    BY <1>0, <1>U, <1>1 DEF OverlapsRecorded
  <1>12. UndisturbedHit'
    BY <1>0, <1>U, <1>1 DEF UndisturbedHit
  <1>13. UndisturbedIsCurrent'
    BY <1>0, <1>U, <1>1 DEF UndisturbedIsCurrent, UndisturbedHit, AnswerDated, AgreeUnlessHalfWritten, Agree, OverlapsRecorded
  <1> QED
    BY <1>1, <1>2, <1>3, <1>4, <1>5, <1>6, <1>7, <1>8, <1>9, <1>10, <1>11, <1>12, <1>13

\* A call that begins records whom it runs beside.
LEMMA BeginKeeps ==
  ASSUME IInv, NEW c \in Calls, NEW u \in URLs \cup {NoURL}, NEW first \in {"open", "locate"},
         first = "open" => u \in URLs,
         Begin(c, u, first)
  PROVE  IInv'
  <1> USE DEF IInv, TypeOK, Begin, Goto, Concurrent, monitors, cache, answer, Running, InMonitorCRL,
      InMonitorLM, Answered, Storing
  <1>1. TypeOK'
    BY NamesDiffer
  <1>2. OwnersRight'
    BY NamesDiffer DEF OwnersRight
  <1>3. PublishedNonEmpty'
    BY <1>1 DEF PublishedNonEmpty
  <1>4. AnswerDated'
    BY <1>1 DEF AnswerDated
  <1>5. AgreeUnlessHalfWritten'
    BY <1>1 DEF AgreeUnlessHalfWritten, AnswerDated, OwnersRight, HalfWritten, Agree, Absent
  <1>6. HalfWritten'
    BY <1>1 DEF HalfWritten, OwnersRight
  <1>7. CRLThereWhenReturned'
    BY <1>1 DEF CRLThereWhenReturned
  <1>8. ValidRestsOnCRL'
    BY <1>1 DEF ValidRestsOnCRL
  <1>9. RefusalHasReason'
    BY <1>1 DEF RefusalHasReason
  <1>10. TakenPublished'
    BY <1>1 DEF TakenPublished
  <1>11. OverlapsRecorded'
    BY <1>1 DEF OverlapsRecorded
  <1>12. UndisturbedHit'
    BY <1>1 DEF UndisturbedHit
  <1>13. UndisturbedIsCurrent'
    BY <1>1 DEF UndisturbedIsCurrent
  <1> QED
    BY <1>1, <1>2, <1>3, <1>4, <1>5, <1>6, <1>7, <1>8, <1>9, <1>10, <1>11, <1>12, <1>13

\* Publishing adds a version and alters none: what calls and cache know stays true.
LEMMA PublishKeeps ==
  ASSUME IInv, NEW u \in URLs, Publish(u)
  PROVE  IInv'
  <1>1. TypeOK /\ PublishedNonEmpty
    BY DEF IInv
  <1>2. TypeOK'
    BY <1>1, PublishType
  <1>3. \A w \in URLs : /\ Len(published'[w]) >= Len(published[w])
                       /\ \A v \in 1..Len(published[w]) : published'[w][v] = published[w][v]
    BY <1>1, PublishType
  <1>4. \A w \in URLs : Len(published[w]) \in Nat /\ Len(published'[w]) \in Nat
    <2> DEFINE Item == [stamp : Nat, revoked : SUBSET Certs]
    <2>1. \A w \in URLs : published[w] \in Seq(Item) /\ published'[w] \in Seq(Item)
      BY <1>1, <1>2 DEF TypeOK
    <2> HIDE DEF Item
    <2> QED
      BY <2>1
  <1>5. UNCHANGED <<crl, lastModified, crlOwner, lmOwner, pc, url, cert, conn, now, local, verdict,
                    overlapped>>
    BY DEF Publish, cache, monitors, request, answer
  <1> USE <1>1, <1>2, <1>3, <1>4, <1>5 DEF TypeOK, IInv, Running, InMonitorCRL, InMonitorLM, Answered, Storing
  <1>6. OwnersRight'
    BY DEF OwnersRight
  <1>7. PublishedNonEmpty'
    BY DEF PublishedNonEmpty
  <1>8. AnswerDated'
    <2> SUFFICES ASSUME NEW c \in Calls, pc[c] \in Answered, url[c] \in URLs,
                        conn[c] <= Len(published[url[c]]),
                        now[c] = IF conn[c] = 0 THEN NoDate ELSE published[url[c]][conn[c]].stamp
                 PROVE  /\ conn[c] <= Len(published'[url[c]])
                        /\ now[c] = IF conn[c] = 0 THEN NoDate ELSE published'[url[c]][conn[c]].stamp
      BY DEF AnswerDated
    <2>1. conn[c] \in Nat
      OBVIOUS
    <2> HIDE DEF TypeOK, IInv
    <2>2. conn[c] # 0 => published'[url[c]][conn[c]] = published[url[c]][conn[c]]
      BY <2>1
    <2> QED
      BY <2>1, <2>2
  <1>9. AgreeUnlessHalfWritten'
    <2>1. ASSUME NEW u2 \in URLs
          PROVE  /\ crl[u2] \in Nat
                 /\ crl[u2] <= Len(published[u2])
                 /\ lastModified[u2] # Absent => crl[u2] # 0
                 /\ (\A c \in Calls : ~(pc[c] = "putLM" /\ url[c] = u2)) => Agree(u2)
      BY DEF AgreeUnlessHalfWritten
    <2> HIDE DEF TypeOK, IInv
    <2>2. ASSUME NEW u2 \in URLs
          PROVE  /\ crl[u2] <= Len(published'[u2])
                 /\ crl[u2] # 0 => published'[u2][crl[u2]] = published[u2][crl[u2]]
      BY <2>1
    <2>3. \A u2 \in URLs : Agree(u2) => Agree(u2)'
      BY <2>2 DEF Agree
    <2> QED
      BY <2>1, <2>2, <2>3 DEF AgreeUnlessHalfWritten
  <1>10. HalfWritten'
    BY DEF HalfWritten, OwnersRight
  <1>11. CRLThereWhenReturned'
    BY DEF CRLThereWhenReturned
  <1>12. ValidRestsOnCRL'
    <2> SUFFICES ASSUME NEW c \in Calls, url[c] \in URLs,
                        local[c] \in 1..Len(published[url[c]]),
                        cert[c] \notin published[url[c]][local[c]].revoked
                 PROVE  /\ local[c] \in 1..Len(published'[url[c]])
                        /\ cert[c] \notin published'[url[c]][local[c]].revoked
      BY DEF ValidRestsOnCRL
    <2> HIDE DEF TypeOK, IInv
    <2>1. published'[url[c]][local[c]] = published[url[c]][local[c]]
      OBVIOUS
    <2> QED
      BY <2>1
  <1>13. RefusalHasReason'
    BY DEF RefusalHasReason
  <1>14. TakenPublished'
    <2> SUFFICES ASSUME NEW c \in Calls, url[c] \in URLs, local[c] <= Len(published[url[c]])
                 PROVE  local[c] <= Len(published'[url[c]])
      BY DEF TakenPublished
    <2>1. local[c] \in Nat
      OBVIOUS
    <2> HIDE DEF TypeOK, IInv
    <2> QED
      BY <2>1
  <1>15. OverlapsRecorded'
    BY DEF OverlapsRecorded
  <1>16. UndisturbedHit'
    BY DEF UndisturbedHit
  <1>17. UndisturbedIsCurrent'
    <2> SUFFICES ASSUME NEW c \in Calls, pc[c] = "done", local[c] # 0,
                        published[url[c]][local[c]].stamp = now[c]
                 PROVE  published'[url[c]][local[c]].stamp = now[c]
      BY DEF UndisturbedIsCurrent
    <2>1. url[c] \in URLs /\ local[c] \in 1..Len(published[url[c]])
      BY DEF TakenPublished
    <2> HIDE DEF TypeOK, IInv
    <2>2. published'[url[c]][local[c]] = published[url[c]][local[c]]
      BY <2>1
    <2> QED
      BY <2>2
  <1> QED
    BY <1>6, <1>7, <1>8, <1>9, <1>10, <1>11, <1>12, <1>13, <1>14, <1>15, <1>16, <1>17

-----------------------------------------------------------------------------
\* Every step of the check keeps the invariant.
LEMMA NextKeeps == IInv /\ [Next]_vars => IInv'
  <1> SUFFICES ASSUME IInv, [Next]_vars PROVE IInv'
    OBVIOUS
  <1>1. ASSUME NEW u \in URLs, Publish(u) PROVE IInv'
    BY <1>1, PublishKeeps
  <1>2. ASSUME NEW c \in Calls, Start(c) PROVE IInv'
    <2>1. CASE CheckCertificate(c)
      <3>1. cert[c] \in Certs
        BY DEF IInv, TypeOK
      <3>2. DistributionPoint[cert[c]] \in URLs \cup {NoURL}
        BY <3>1, PointType
      <3> QED
        BY <2>1, <3>2, BeginKeeps DEF CheckCertificate
    <2>2. ASSUME NEW u \in URLs, CheckAt(c, u) PROVE IInv'
      BY <2>2, BeginKeeps DEF CheckAt
    <2> QED
      BY <1>2, <2>1, <2>2 DEF Start
  <1>3. ASSUME NEW c \in Calls, OwnStep(c) PROVE IInv'
    BY <1>3, LocateKeeps, CompareKeeps, UnboxKeeps, GetInputStreamKeeps, EnterCRLKeeps,
       EnterLMKeeps, PutCRLKeeps, PutLMKeeps, GetKeeps DEF OwnStep
  <1>4. ASSUME NEW c \in Calls, NetStep(c) PROVE IInv'
    BY <1>4, OpenKeeps, ParseKeeps DEF NetStep
  <1>5. CASE UNCHANGED vars
    BY <1>5 DEF vars, IInv, TypeOK, OwnersRight, PublishedNonEmpty, AnswerDated,
       AgreeUnlessHalfWritten, HalfWritten, CRLThereWhenReturned, ValidRestsOnCRL,
       RefusalHasReason, TakenPublished, OverlapsRecorded, UndisturbedHit, UndisturbedIsCurrent, Agree
  <1> QED
    BY <1>1, <1>2, <1>3, <1>4, <1>5 DEF Next, Finished

\* IInv is an invariant of the check.
THEOREM Inductive == Spec => []IInv
  BY InitInv, NextKeeps, PTL DEF Spec

\* The state of the checker and of the servers always has its type.
THEOREM TypeCorrect == Spec => []TypeOK
  <1>1. IInv => TypeOK
    BY DEF IInv
  <1> QED
    BY <1>1, Inductive, PTL

\* The two maps never disagree where another call can see them settled.
THEOREM MapsAlwaysAgree == Spec => []MapsAgree
  <1>1. IInv => MapsAgree
    <2> SUFFICES ASSUME IInv, crlOwner = NoCall, NEW u \in URLs
                 PROVE  Agree(u)
      BY DEF MapsAgree, Agree
    <2>1. \A c \in Calls : pc[c] # "putLM"
      BY NamesDiffer DEF IInv, OwnersRight, InMonitorCRL
    <2> QED
      BY <2>1 DEF IInv, AgreeUnlessHalfWritten
  <1> QED
    BY <1>1, Inductive, PTL

\* A call that decides to use the cached CRL finds one.
THEOREM CachedCRLIsThere == Spec => []CRLThereWhenReturned
  <1>1. IInv => CRLThereWhenReturned
    BY DEF IInv
  <1> QED
    BY <1>1, Inductive, PTL

\* No certificate is reported valid on anything but a published CRL without it.
THEOREM ValidIsSound == Spec => []ValidRestsOnCRL
  <1>1. IInv => ValidRestsOnCRL
    BY DEF IInv
  <1> QED
    BY <1>1, Inductive, PTL

\* A refusal without a reason comes only from a read that missed a cached CRL.
THEOREM RefusalIsExplained == Spec => []RefusalHasReason
  <1>1. IInv => RefusalHasReason
    BY DEF IInv
  <1> QED
    BY <1>1, Inductive, PTL

\* Without overlap the verdict is taken from a CRL of the date just answered.
THEOREM UndisturbedVerdictIsCurrent == Spec => []UndisturbedIsCurrent
  <1>1. IInv => UndisturbedIsCurrent
    BY DEF IInv
  <1> QED
    BY <1>1, Inductive, PTL

\* Only the owner of both monitors writes the maps.
THEOREM WritesAreInside == Spec => WrittenInsideBothMonitors
  <1> DEFINE W == /\ crl' # crl => crlOwner \in Calls /\ lmOwner = crlOwner /\ crlOwner' = crlOwner
                  /\ lastModified' # lastModified => lmOwner \in Calls /\ lmOwner = crlOwner
  <1>1. ASSUME IInv, [Next]_vars PROVE [W]_vars
    <2>1. ASSUME NEW c \in Calls, PutCRL(c) PROVE W
      BY <1>1, <2>1, NamesDiffer DEF PutCRL, IInv, TypeOK, OwnersRight, InMonitorCRL, InMonitorLM, monitors
    <2>2. ASSUME NEW c \in Calls, PutLM(c) PROVE W
      BY <1>1, <2>2, NamesDiffer DEF PutLM, IInv, TypeOK, OwnersRight, InMonitorCRL, InMonitorLM
    <2>3. ASSUME UNCHANGED cache PROVE W
      BY <2>3 DEF cache
    <2>4. CASE UNCHANGED vars
      BY <2>4
    <2>5. CASE Next
      BY <2>1, <2>2, <2>3, <2>5 DEF Next, Finished, Publish, Start, CheckAt, CheckCertificate, Begin, OwnStep, NetStep,
         Locate, Open, Compare, Unbox, GetInputStream, EnterCRL, EnterLM, Parse, Get, vars, cache
    <2> QED
      BY <1>1, <2>4, <2>5
  <1> QED
    BY <1>1, Inductive, PTL DEF Spec, WrittenInsideBothMonitors

-----------------------------------------------------------------------------
(***************************************************************************)
(* The checker implements the contract: every step is one of the           *)
(* contract's steps on what the caller sees, or changes nothing there.     *)
(***************************************************************************)
CStep == [Contract!Next]_(Contract!cvars)

\* A step between two places of a call is none of the contract's.
LEMMA HiddenStep ==
  ASSUME TypeOK, NEW c \in Calls, NEW to \in Running, pc[c] \in Running, Goto(c, to),
         UNCHANGED <<published, url, cert, verdict>>
  PROVE  CStep
  <1>1. QuestionOf' = QuestionOf
    BY DEF TypeOK, Goto, QuestionOf, Running
  <1>2. VerdictOf' = VerdictOf
    BY DEF TypeOK, Goto, VerdictOf, Running
  <1> QED
    BY <1>1, <1>2 DEF CStep, Contract!cvars

\* A question asked differs from no question.
LEMMA QuestionAsked ==
  ASSUME NEW u, NEW x
  PROVE  <<u, x>> # NoQuestion
  <1>1. Len(<<u, x>>) = 2 /\ Len(<<NoURL>>) = 1
    OBVIOUS
  <1> QED
    BY <1>1 DEF NoQuestion

\* A reply is the contract's Accept or Refuse.
LEMMA AnsweringStep ==
  ASSUME TypeOK, NEW c \in Calls, pc[c] \in Running, NEW valid \in BOOLEAN, NEW n \in 0..2,
         pc' = [pc EXCEPT ![c] = "done"],
         verdict' = [verdict EXCEPT ![c] = [valid |-> valid, errors |-> n]],
         UNCHANGED <<published, url, cert>>,
         valid => /\ url[c] \in URLs
                  /\ \E v \in 1..Len(published[url[c]]) : cert[c] \notin published[url[c]][v].revoked
  PROVE  CStep
  <1>1. UNCHANGED QuestionOf
    BY DEF TypeOK, QuestionOf, Running
  <1>2. QuestionOf[c] = <<url[c], cert[c]>> /\ VerdictOf[c] = "pending"
    BY DEF QuestionOf, VerdictOf, Running
  <1>3. QuestionOf[c] # NoQuestion
    BY <1>2, QuestionAsked
  <1>4. CASE valid
    <2>1. VerdictOf' = [VerdictOf EXCEPT ![c] = "valid"]
      BY <1>4 DEF TypeOK, VerdictOf, Running
    <2>2. cert[c] \in Certs
      BY DEF TypeOK
    <2>3. Contract!Accept(c)
      BY <1>1, <1>2, <1>3, <1>4, <2>1, <2>2 DEF Contract!Accept, Contract!Pending
    <2> QED
      BY <2>3 DEF CStep, Contract!Next
  <1>5. CASE ~valid
    <2>1. VerdictOf' = [VerdictOf EXCEPT ![c] = "refused"]
      BY <1>5 DEF TypeOK, VerdictOf, Running
    <2>2. Contract!Refuse(c)
      BY <1>1, <1>2, <1>3, <2>1 DEF Contract!Refuse, Contract!Pending
    <2> QED
      BY <2>2 DEF CStep, Contract!Next
  <1> QED
    BY <1>4, <1>5

\* Beginning a call is the contract's Ask.
LEMMA AskingStep ==
  ASSUME TypeOK, NEW c \in Calls, NEW u \in URLs \cup {NoURL}, NEW first \in {"open", "locate"},
         Begin(c, u, first)
  PROVE  CStep
  <1>1. QuestionOf[c] = NoQuestion
    BY DEF Begin, QuestionOf
  <1>2. QuestionOf' = [QuestionOf EXCEPT ![c] = <<u, cert[c]>>]
    BY DEF TypeOK, Begin, Goto, QuestionOf
  <1>3. UNCHANGED <<published, VerdictOf>>
    BY DEF TypeOK, Begin, Goto, VerdictOf
  <1>4. cert[c] \in Certs
    BY DEF TypeOK
  <1>5. Contract!Ask(c)
    BY <1>1, <1>2, <1>3, <1>4 DEF Contract!Ask
  <1> QED
    BY <1>5 DEF CStep, Contract!Next

\* Publishing is the contract's Publish.
LEMMA PublishingStep ==
  ASSUME TypeOK, PublishedNonEmpty, NEW u \in URLs, Publish(u)
  PROVE  CStep
  <1> DEFINE Item == [stamp : Nat, revoked : SUBSET Certs]
  <1>1. UNCHANGED <<QuestionOf, VerdictOf>>
    BY DEF Publish, request, QuestionOf, VerdictOf
  <1>2. PICK d, revoked :
            published' = [published EXCEPT ![u] = Append(@, Issue(d, revoked))]
    BY DEF Publish
  <1>3. published'[u] = Append(published[u], Issue(d, revoked))
    BY <1>2 DEF TypeOK
  <1>4. published[u] \in Seq(Item)
    BY DEF TypeOK
  <1>5. Len(published'[u]) = Len(published[u]) + 1
    <2> HIDE DEF Item
    <2> QED
      BY <1>3, <1>4
  <1>6. \A v \in 1..Len(published[u]) : published'[u][v] = published[u][v]
    BY PublishType
  <1>7. \A w \in URLs \ {u} : published'[w] = published[w]
    BY <1>2 DEF TypeOK
  <1>8. Contract!Publish
    BY <1>1, <1>5, <1>6, <1>7 DEF Contract!Publish
  <1> QED
    BY <1>8 DEF CStep, Contract!Next

\* A verdict on the CRL read is one the contract allows.
LEMMA GettingStep ==
  ASSUME IInv, NEW c \in Calls, Get(c)
  PROVE  CStep
  <1>1. TypeOK /\ pc[c] \in Running /\ url[c] \in URLs /\ UNCHANGED <<published, url, cert>>
    BY DEF IInv, Get, AnswerDated, Running, request
  <1>2. PICK v \in ReadCRL(url[c]) :
            \/ v = 0 /\ Reply(c, FALSE, 0)
            \/ /\ v # 0
               /\ IF cert[c] \in published[url[c]][v].revoked
                  THEN Reply(c, FALSE, 1)
                  ELSE Reply(c, TRUE, 0)
    BY DEF Get
  <1>3. CASE Reply(c, FALSE, 0) \/ Reply(c, FALSE, 1)
    <2>1. PICK n \in {0, 1} : Reply(c, FALSE, n)
      BY <1>3
    <2>2. /\ pc' = [pc EXCEPT ![c] = "done"]
          /\ verdict' = [verdict EXCEPT ![c] = [valid |-> FALSE, errors |-> n]]
      BY <2>1 DEF Reply, Goto
    <2>3. n \in 0..2
      OBVIOUS
    <2> QED
      BY <1>1, <2>2, <2>3, AnsweringStep
  <1>4. CASE v # 0 /\ cert[c] \notin published[url[c]][v].revoked /\ Reply(c, TRUE, 0)
    <2>1. /\ pc' = [pc EXCEPT ![c] = "done"]
          /\ verdict' = [verdict EXCEPT ![c] = [valid |-> TRUE, errors |-> 0]]
      BY <1>4 DEF Reply, Goto
    <2>2. v = crl[url[c]]
      BY <1>4 DEF ReadCRL
    <2>3. v \in Nat /\ v <= Len(published[url[c]])
      BY <1>1, <2>2 DEF IInv, AgreeUnlessHalfWritten, TypeOK
    <2>4. v \in 1..Len(published[url[c]])
      BY <1>1, <1>4, <2>3, LenIsNat
    <2>5. \E w \in 1..Len(published[url[c]]) : cert[c] \notin published[url[c]][w].revoked
      BY <1>4, <2>4
    <2> QED
      <3>1. 0 \in 0..2 /\ TRUE \in BOOLEAN
        OBVIOUS
      <3> QED
        BY <1>1, <2>1, <2>5, <3>1, AnsweringStep
  <1> QED
    BY <1>2, <1>3, <1>4

\* Every step of the check is a step of the contract or none.
LEMMA StepImplements == IInv /\ [Next]_vars => CStep
  <1> SUFFICES ASSUME IInv, [Next]_vars PROVE CStep
    OBVIOUS
  <1>0. TypeOK /\ PublishedNonEmpty
    BY DEF IInv
  <1>1. ASSUME NEW c \in Calls, Throw(c), pc[c] \in Running, UNCHANGED <<published, url, cert>>
        PROVE  CStep
    <2>1. /\ pc' = [pc EXCEPT ![c] = "done"]
          /\ verdict' = [verdict EXCEPT ![c] = [valid |-> FALSE, errors |-> 1]]
      BY <1>1 DEF Throw, Reply, Goto
    <2>2. 1 \in 0..2 /\ FALSE \in BOOLEAN
      OBVIOUS
    <2> QED
      BY <1>0, <1>1, <2>1, <2>2, AnsweringStep
  <1>2. ASSUME NEW c \in Calls, NEW to \in Running, pc[c] \in Running, Goto(c, to),
               UNCHANGED <<published, url, cert, verdict>>
        PROVE  CStep
    BY <1>0, <1>2, HiddenStep
  <1>3. ASSUME NEW u \in URLs, Publish(u) PROVE CStep
    BY <1>0, <1>3, PublishingStep
  <1>4. ASSUME NEW c \in Calls, Start(c) PROVE CStep
    <2>1. CASE CheckCertificate(c)
      <3>1. DistributionPoint[cert[c]] \in URLs \cup {NoURL}
        BY <1>0, PointType DEF TypeOK
      <3> QED
        BY <1>0, <2>1, <3>1, AskingStep DEF CheckCertificate
    <2>2. ASSUME NEW u \in URLs, CheckAt(c, u) PROVE CStep
      BY <1>0, <2>2, AskingStep DEF CheckAt
    <2> QED
      BY <1>4, <2>1, <2>2 DEF Start
  <1>5. ASSUME NEW c \in Calls, OwnStep(c) PROVE CStep
    <2> USE DEF request, Running
    <2>1. CASE Locate(c)
      <3>1. ASSUME NEW n \in {1, 2}, Reply(c, FALSE, n) PROVE CStep
        <4>1. /\ pc' = [pc EXCEPT ![c] = "done"]
              /\ verdict' = [verdict EXCEPT ![c] = [valid |-> FALSE, errors |-> n]]
          BY <3>1 DEF Reply, Goto
        <4>2. n \in 0..2 /\ FALSE \in BOOLEAN
          OBVIOUS
        <4>3. pc[c] \in Running /\ UNCHANGED <<published, url, cert>>
          BY <2>1 DEF Locate
        <4> QED
          BY <1>0, <4>1, <4>2, <4>3, AnsweringStep
      <3>2. CASE Goto(c, "open") /\ UNCHANGED verdict
        BY <1>2, <2>1, <3>2 DEF Locate
      <3> QED
        BY <2>1, <3>1, <3>2 DEF Locate
    <2>2. CASE Compare(c)
      BY <1>2, <2>2 DEF Compare
    <2>3. CASE Unbox(c)
      <3>1. CASE Throw(c)
        BY <1>1, <2>3, <3>1 DEF Unbox
      <3>2. CASE Goto(c, IF now[c] # lastModified[url[c]] THEN "body" ELSE "get") /\ UNCHANGED verdict
        BY <1>2, <2>3, <3>2 DEF Unbox
      <3> QED
        BY <2>3, <3>1, <3>2 DEF Unbox, ReadLM
    <2>4. CASE GetInputStream(c)
      BY <1>1, <1>2, <2>4 DEF GetInputStream
    <2>5. CASE EnterCRL(c)
      BY <1>2, <2>5 DEF EnterCRL
    <2>6. CASE EnterLM(c)
      BY <1>2, <2>6 DEF EnterLM
    <2>7. CASE PutCRL(c)
      BY <1>2, <2>7 DEF PutCRL
    <2>8. CASE PutLM(c)
      BY <1>2, <2>8 DEF PutLM
    <2>9. CASE Get(c)
      BY <2>9, GettingStep
    <2> QED
      BY <1>5, <2>1, <2>2, <2>3, <2>4, <2>5, <2>6, <2>7, <2>8, <2>9 DEF OwnStep
  <1>6. ASSUME NEW c \in Calls, NetStep(c) PROVE CStep
    <2> USE DEF request, Running
    <2>1. CASE Open(c)
      BY <1>2, <2>1 DEF Open
    <2>2. CASE Parse(c)
      BY <1>1, <1>2, <2>2 DEF Parse
    <2> QED
      BY <1>6, <2>1, <2>2 DEF NetStep
  <1>7. CASE UNCHANGED vars
    <2>1. UNCHANGED <<published, QuestionOf, VerdictOf>>
      BY <1>7 DEF vars, QuestionOf, VerdictOf
    <2> QED
      BY <2>1 DEF CStep, Contract!cvars
  <1> QED
    BY <1>3, <1>4, <1>5, <1>6, <1>7 DEF Next, Finished

\* The cached concurrent check implements RevocationContract.
THEOREM ImplementsContract == Spec => KeepsContract
  <1>1. Init => Contract!Init
    <2> SUFFICES ASSUME Init PROVE Contract!Init
      OBVIOUS
    <2>1. TypeOK
      BY InitType
    <2>2. QuestionOf = [c \in Calls |-> NoQuestion] /\ VerdictOf = [c \in Calls |-> "pending"]
      BY DEF Init, QuestionOf, VerdictOf
    <2>3. \A u \in URLs : Len(published[u]) = 1
      BY InitLen
    <2> QED
      BY <2>1, <2>2, <2>3 DEF Contract!Init, TypeOK
  <1>2. IInv /\ [Next]_vars => [Contract!Next]_(Contract!cvars)
    BY StepImplements DEF CStep
  <1> QED
    BY <1>1, <1>2, Inductive, PTL DEF Spec, KeepsContract, Contract!Spec

====
