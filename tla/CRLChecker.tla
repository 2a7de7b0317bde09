----------------------------- MODULE CRLChecker -----------------------------
(***************************************************************************)
(* The CRL revocation check (crypto.crl.CRLChecker) and the cache of       *)
(* downloaded CRLs it keeps in two static maps, crl and lastModified,      *)
(* shared by every thread of the JVM.                                      *)
(*                                                                         *)
(* A call is one invocation of getCertificateStatus; calls run             *)
(* concurrently, and calls that run one after the other are a special      *)
(* case.  A CRL is the pair of its URL and its version, the position in    *)
(* the list of CRLs the server published; the checker never compares       *)
(* CRLs, only the Last-Modified dates of the answers that carried them.    *)
(***************************************************************************)
EXTENDS Integers, Sequences

CONSTANTS
    Calls,              \* invocations of getCertificateStatus
    NoCall,             \* no call owns the monitor
    URLs,               \* CRL locations
    NoURL,              \* a certificate names no CRL location
    Certs,              \* certificates whose status is asked
    DistributionPoint,  \* the CRL location a certificate names
    Revocations,        \* the sets of certificates a CRL may list
    MaxVersions         \* bound: CRLs a server publishes at one URL

ASSUME NamesDiffer == NoCall \notin Calls /\ NoURL \notin URLs
ASSUME PointType   == DistributionPoint \in [Certs -> URLs \cup {NoURL}]
ASSUME ListsType   == Revocations \subseteq SUBSET Certs
ASSUME BoundType   == MaxVersions \in Nat \ {0}

VARIABLES
    published,      \* the servers: the CRLs published at each URL, in order
    crl,            \* static map crl: version cached for a URL, 0 = no entry
    lastModified,   \* static map lastModified: date cached, Absent = no entry
    crlOwner,       \* the call inside synchronized (crl)
    lmOwner,        \* the call inside synchronized (lastModified)
    pc,             \* where each call is
    url, cert,      \* the arguments: the CRL's URL once known, the certificate
    conn,           \* version the server's answer carries, 0 = no answer
    now,            \* local now: the Last-Modified date of the answer
    local,          \* local crl: the version the verdict is taken from
    verdict,        \* the CRLResponseDetails: valid, and how many errors
    overlapped      \* history: calls another call on the same URL ran beside

vars == <<published, crl, lastModified, crlOwner, lmOwner, pc, url, cert,
          conn, now, local, verdict, overlapped>>

Absent == -1
NoDate == 0         \* what getLastModified returns without the header

\* A new CRLResponseDetails is not valid and has no errors.
NewDetails == [valid |-> FALSE, errors |-> 0]

Issue(date, revoked) == [stamp |-> date, revoked |-> revoked]

Running == {"locate", "open", "compare", "unbox", "body", "wantCrl", "wantLM",
            "parse", "putCRL", "putLM", "get"}

Init ==
    /\ published \in [URLs -> {<<i>> : i \in [stamp : {NoDate, 1}, revoked : Revocations]}]
    /\ crl = [u \in URLs |-> 0]
    /\ lastModified = [u \in URLs |-> Absent]
    /\ crlOwner = NoCall
    /\ lmOwner = NoCall
    /\ pc = [c \in Calls |-> "idle"]
    /\ url = [c \in Calls |-> NoURL]
    /\ cert \in [Calls -> Certs]
    /\ conn = [c \in Calls |-> 0]
    /\ now = [c \in Calls |-> NoDate]
    /\ local = [c \in Calls |-> 0]
    /\ verdict = [c \in Calls |-> NewDetails]
    /\ overlapped = {}

cache    == <<crl, lastModified>>
monitors == <<crlOwner, lmOwner>>
request  == <<url, cert, overlapped>>
answer   == <<conn, now>>

Goto(c, to) == pc' = [pc EXCEPT ![c] = to]

(***************************************************************************)
(* The servers.  A certification authority replaces its CRL: the set of    *)
(* revoked certificates may change either way (a hold can be lifted).  A   *)
(* server that sends Last-Modified dates the new CRL at the same second    *)
(* or later; a server that does not send it never does.                    *)
(***************************************************************************)
Publish(u) ==
    LET last == published[u][Len(published[u])].stamp IN
    /\ Len(published[u]) < MaxVersions
    /\ \E revoked \in Revocations, d \in {last, last + 1} :
          /\ last = NoDate => d = NoDate
          /\ published' = [published EXCEPT ![u] = Append(@, Issue(d, revoked))]
    /\ UNCHANGED <<cache, monitors, pc, request, answer, local, verdict>>

(***************************************************************************)
(* The two entry points.                                                   *)
(***************************************************************************)
Concurrent(c, u) == {d \in Calls : pc[d] \in Running /\ url[d] = u}

Begin(c, u, first) ==
    /\ pc[c] = "idle"
    /\ Goto(c, first)
    /\ url' = [url EXCEPT ![c] = u]
    /\ overlapped' = IF Concurrent(c, u) = {} THEN overlapped
                     ELSE overlapped \cup Concurrent(c, u) \cup {c}
    /\ UNCHANGED <<published, cache, monitors, cert, answer, local, verdict>>

\* getCertificateStatus(crlURL, certificate)
CheckAt(c, u) == Begin(c, u, "open")

\* getCertificateStatus(certificate)
CheckCertificate(c) == Begin(c, DistributionPoint[cert[c]], "locate")

Reply(c, valid, errors) ==
    /\ Goto(c, "done")
    /\ verdict' = [verdict EXCEPT ![c] = [valid |-> valid, errors |-> errors]]

\* Without a distribution point the extension is null: the exception adds the
\* error and the missing URL adds it again; a point without a URI adds it once.
Locate(c) ==
    /\ pc[c] = "locate"
    /\ \/ url[c] # NoURL /\ Goto(c, "open") /\ UNCHANGED verdict
       \/ url[c] = NoURL /\ \E n \in {1, 2} : Reply(c, FALSE, n)
    /\ UNCHANGED <<published, cache, monitors, request, answer, local>>

(***************************************************************************)
(* getCRL.                                                                 *)
(***************************************************************************)
\* Seeded faults: a check that accepts what it could not decide, and one that
\* refuses without recording the exception.
ThrowFailOpen(c) == Reply(c, TRUE, 0)
ThrowSilently(c) == Reply(c, FALSE, 0)

\* getCertificateStatus turns every exception of getCRL into an error.
Throw(c) == Reply(c, FALSE, 1)

\* Seeded fault: a failed connection gives -1 instead of 0.
OpenMinusOne(c) ==
    /\ pc[c] = "open"
    /\ Goto(c, "compare")
    /\ now' = [now EXCEPT ![c] = -1]
    /\ UNCHANGED <<published, cache, monitors, request, conn, local, verdict>>

\* getLastModified sends the request and reads the answer's headers.  A failed
\* connection is not reported here: the date is 0, as with a missing header.
Open(c) ==
    /\ pc[c] = "open"
    /\ Goto(c, "compare")
    /\ \/ /\ conn' = [conn EXCEPT ![c] = Len(published[url[c]])]
          /\ now' = [now EXCEPT ![c] = published[url[c]][conn'[c]].stamp]
       \/ /\ conn' = [conn EXCEPT ![c] = 0]
          /\ now' = [now EXCEPT ![c] = NoDate]
    /\ UNCHANGED <<published, cache, monitors, request, local, verdict>>

\* The maps are HashMaps read outside their monitor.  A put that adds a key may
\* rehash the table, and a read beside it may then miss an entry.
InsertingCRL == \E d \in Calls : pc[d] = "putCRL" /\ crl[url[d]] = 0
InsertingLM  == \E d \in Calls : pc[d] = "putLM" /\ lastModified[url[d]] = Absent

ReadCRL(u) == {crl[u]} \cup (IF InsertingCRL THEN {0} ELSE {})
ReadLM(u)  == {lastModified[u]} \cup (IF InsertingLM THEN {Absent} ELSE {})

\* lastModified.get(crlURL) == null
Compare(c) ==
    /\ pc[c] = "compare"
    /\ \E cached \in ReadLM(url[c]) :
          \/ cached = Absent /\ Goto(c, "body")
          \/ cached # Absent /\ Goto(c, "unbox")
    /\ UNCHANGED <<published, cache, monitors, request, answer, local, verdict>>

\* Seeded fault: a cached date is never compared with the server's.
UnboxNoCompare(c) ==
    /\ pc[c] = "unbox"
    /\ Goto(c, "get")
    /\ UNCHANGED <<published, cache, monitors, request, answer, local, verdict>>

\* now != lastModified.get(crlURL): a second read; unboxing null throws.
Unbox(c) ==
    /\ pc[c] = "unbox"
    /\ \E cached \in ReadLM(url[c]) :
          \/ cached = Absent /\ Throw(c)
          \/ /\ cached # Absent
             /\ Goto(c, IF now[c] # cached THEN "body" ELSE "get")
             /\ UNCHANGED verdict
    /\ UNCHANGED <<published, cache, monitors, request, answer, local>>

\* conn.getInputStream(): this is where a failed connection throws.
GetInputStream(c) ==
    /\ pc[c] = "body"
    /\ \/ conn[c] = 0 /\ Throw(c)
       \/ conn[c] # 0 /\ Goto(c, "wantCrl") /\ UNCHANGED verdict
    /\ UNCHANGED <<published, cache, monitors, request, answer, local>>

EnterCRL(c) ==
    /\ pc[c] = "wantCrl"
    /\ Goto(c, "wantLM")
    /\ crlOwner = NoCall
    /\ crlOwner' = c
    /\ UNCHANGED <<published, cache, lmOwner, request, answer, local, verdict>>

EnterLM(c) ==
    /\ pc[c] = "wantLM"
    /\ Goto(c, "parse")
    /\ lmOwner = NoCall
    /\ lmOwner' = c
    /\ UNCHANGED <<published, cache, crlOwner, request, answer, local, verdict>>

Leave == crlOwner' = NoCall /\ lmOwner' = NoCall

\* Seeded faults: the date is stored although the body broke; a lock that is not
\* released when generateCRL throws.
ParseDateFirst(c) ==
    /\ pc[c] = "parse"
    /\ \/ Goto(c, "putCRL") /\ UNCHANGED <<lastModified, monitors, verdict>>
       \/ Throw(c) /\ Leave /\ lastModified' = [lastModified EXCEPT ![url[c]] = now[c]]
    /\ UNCHANGED <<published, crl, request, answer, local>>

ParseKeepsLocks(c) ==
    /\ pc[c] = "parse"
    /\ \/ Goto(c, "putCRL") /\ UNCHANGED verdict
       \/ Throw(c)
    /\ UNCHANGED <<published, cache, monitors, request, answer, local>>

\* generateCRL(bis) reads the rest of the answer with both monitors held; a
\* broken body throws before either map is touched.
Parse(c) ==
    /\ pc[c] = "parse"
    /\ \/ Goto(c, "putCRL") /\ UNCHANGED <<monitors, verdict>>
       \/ Throw(c) /\ Leave
    /\ UNCHANGED <<published, cache, request, answer, local>>

PutCRL(c) ==
    /\ pc[c] = "putCRL"
    /\ Goto(c, "putLM")
    /\ crl' = [crl EXCEPT ![url[c]] = conn[c]]
    /\ UNCHANGED <<published, lastModified, monitors, request, answer, local, verdict>>

PutLM(c) ==
    /\ pc[c] = "putLM"
    /\ Goto(c, "get")
    /\ lastModified' = [lastModified EXCEPT ![url[c]] = now[c]]
    /\ Leave
    /\ UNCHANGED <<published, crl, request, answer, local, verdict>>

\* Seeded faults: isRevoked left out; the cached CRL read inside the monitor.
GetUnchecked(c) ==
    /\ pc[c] = "get"
    /\ local' = [local EXCEPT ![c] = crl[url[c]]]
    /\ Reply(c, TRUE, 0)
    /\ UNCHANGED <<published, cache, monitors, request, answer>>

GetInsideMonitor(c) ==
    /\ pc[c] = "get"
    /\ crlOwner = NoCall
    /\ local' = [local EXCEPT ![c] = crl[url[c]]]
    /\ Reply(c, cert[c] \notin published[url[c]][crl[url[c]]].revoked, 0)
    /\ UNCHANGED <<published, cache, monitors, request, answer>>

\* return crl.get(crlURL), and the verdict on the CRL it returned.
Get(c) ==
    /\ pc[c] = "get"
    /\ \E v \in ReadCRL(url[c]) :
          /\ local' = [local EXCEPT ![c] = v]
          /\ \/ v = 0 /\ Reply(c, FALSE, 0)
             \/ /\ v # 0
                /\ IF cert[c] \in published[url[c]][v].revoked
                   THEN Reply(c, FALSE, 1)
                   ELSE Reply(c, TRUE, 0)
    /\ UNCHANGED <<published, cache, monitors, request, answer>>

Start(c) == CheckCertificate(c) \/ \E u \in URLs : CheckAt(c, u)

\* Steps the call takes by itself, and steps that wait for bytes of the server.
OwnStep(c) == \/ Locate(c) \/ Compare(c) \/ Unbox(c) \/ GetInputStream(c)
              \/ EnterCRL(c) \/ EnterLM(c) \/ PutCRL(c) \/ PutLM(c) \/ Get(c)
NetStep(c) == Open(c) \/ Parse(c)

\* Every call of the finite run may have returned: that is not a deadlock.
Finished == (\A c \in Calls : pc[c] = "done") /\ UNCHANGED vars

Next ==
    \/ \E u \in URLs : Publish(u)
    \/ \E c \in Calls : Start(c) \/ OwnStep(c) \/ NetStep(c)
    \/ Finished

Spec == Init /\ [][Next]_vars

\* Each Java thread keeps running.  The checker sets a connect timeout and no
\* read timeout, so a server which accepted the connection may fall silent for
\* ever: that it goes on sending is an assumption of its own, ServersAnswer.
StalledSpec == Spec /\ \A c \in Calls : WF_vars(OwnStep(c))
ServersAnswer == \A c \in Calls : WF_vars(NetStep(c))

-----------------------------------------------------------------------------
TypeOK ==
    /\ published \in [URLs -> Seq([stamp : Nat, revoked : SUBSET Certs])]
    /\ crl \in [URLs -> Nat]
    /\ lastModified \in [URLs -> Nat \cup {Absent}]
    /\ crlOwner \in Calls \cup {NoCall}
    /\ lmOwner \in Calls \cup {NoCall}
    /\ pc \in [Calls -> Running \cup {"idle", "done"}]
    /\ url \in [Calls -> URLs \cup {NoURL}]
    /\ cert \in [Calls -> Certs]
    /\ conn \in [Calls -> Nat]
    /\ now \in [Calls -> Nat]
    /\ local \in [Calls -> Nat]
    /\ verdict \in [Calls -> [valid : BOOLEAN, errors : 0..2]]
    /\ overlapped \subseteq Calls

\* When no call is inside synchronized (crl) the two maps hold the same answer:
\* an entry in both or in neither, and the cached date is the date of the cached
\* CRL.  A download that fails half way must leave both maps as they were
\* (CRLChecker.java:126-134).
MapsAgree ==
    crlOwner = NoCall =>
        \A u \in URLs :
            IF crl[u] = 0 THEN lastModified[u] = Absent
            ELSE lastModified[u] = published[u][crl[u]].stamp

\* A call that takes the cached CRL without entering the monitor, because the
\* dates agree, finds a CRL in the other map: whoever sees the date must see
\* the CRL too (CRLChecker.java:121 and 137, reads outside the monitor).
CRLThereWhenReturned == \A c \in Calls : pc[c] = "get" => crl[url[c]] # 0

\* A valid verdict rests on a CRL the server published at the URL of the call,
\* on which the certificate is not revoked; every failure on the way ends in
\* a verdict that is not valid (CRLChecker.java:31-57).
ValidRestsOnCRL ==
    \A c \in Calls :
        (pc[c] = "done" /\ verdict[c].valid) =>
            /\ url[c] \in URLs
            /\ local[c] \in 1..Len(published[url[c]])
            /\ cert[c] \notin published[url[c]][local[c]].revoked

\* A verdict that is not valid names its reason, unless a read of the cache
\* missed an entry that was there: then it is refused without any error
\* (CRLChecker.java:37, the case crl == null).
RefusalHasReason ==
    \A c \in Calls :
        (pc[c] = "done" /\ ~verdict[c].valid /\ verdict[c].errors = 0) =>
            local[c] = 0 /\ crl[url[c]] # 0

\* A call no other call on its URL ran beside judges by a CRL of the date the
\* server's answer to this very call declared.  Concurrent calls can do worse:
\* the slower of two downloads overwrites the newer CRL (CRLChecker.java:119-137).
UndisturbedIsCurrent ==
    \A c \in Calls :
        (pc[c] = "done" /\ local[c] # 0 /\ c \notin overlapped) =>
            published[url[c]][local[c]].stamp = now[c]

\* The cached CRL of a URL changes only in the hands of the one call that holds
\* both monitors, and the date follows before either is given back.
WrittenInsideBothMonitors ==
    [][/\ crl' # crl => crlOwner \in Calls /\ lmOwner = crlOwner /\ crlOwner' = crlOwner
       /\ lastModified' # lastModified => lmOwner \in Calls /\ lmOwner = crlOwner]_vars

\* Every check ends with a verdict, as long as servers that began to answer go
\* on answering: nobody waits for a monitor for ever.
EveryCallReturns == ServersAnswer => \A c \in Calls : (pc[c] # "idle") ~> (pc[c] = "done")

\* Even when a server falls silent in the middle of a download, which keeps the
\* monitors of all URLs locked, a call whose cached date is current returns:
\* after the headers a call waits only if it has something to store.
CacheHitsNeverWait ==
    \A c \in Calls :
        (pc[c] \in {"compare", "unbox", "body", "get"}) ~> (pc[c] \in {"wantCrl", "wantLM", "parse", "putCRL", "putLM", "done"})

-----------------------------------------------------------------------------
(***************************************************************************)
(* What the caller sees of the checker, as the contract names it.          *)
(***************************************************************************)
NoQuestion == <<NoURL>>

QuestionOf == [c \in Calls |-> IF pc[c] = "idle" THEN NoQuestion ELSE <<url[c], cert[c]>>]

VerdictOf ==
    [c \in Calls |-> IF pc[c] # "done" THEN "pending"
                     ELSE IF verdict[c].valid THEN "valid" ELSE "refused"]

Contract == INSTANCE RevocationContract
                WITH question <- QuestionOf, verdict <- VerdictOf

\* The cached, concurrent check keeps the contract: a verdict is given once and
\* a valid one rests on a CRL published at the location of the question.
KeepsContract == Contract!Spec

=============================================================================
