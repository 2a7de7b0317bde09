----------------------------- MODULE SignService -----------------------------
(***************************************************************************)
(* The local signing service: a request to /services/sign/raw or           *)
(* /services/sign/xades passes the token filter (ui.service.auth),         *)
(* SignResource opens the certificate store of the browser, picks the      *)
(* certificate by its distinguished name, opens the document, reads the    *)
(* private key, and a formatter signs what the stream still delivers.      *)
(*                                                                         *)
(* Requests run concurrently.  Between any two of their steps the document *)
(* may be replaced, certificates may be imported, removed or expire.       *)
(***************************************************************************)
EXTENDS Integers

CONSTANTS
    Requests,       \* signing requests, one resource object each
    URLs,           \* documents
    Certs,          \* certificates the browser's store may hold
    Bare,           \* aliases it may hold without an X.509 certificate
    Keyless,        \* certificates whose alias gives no private key
    OtherKeys,      \* certificates whose key is not an RSA key
    None,           \* null
    DNs,            \* distinguished names, up to the case of letters
    DN,             \* the subject of each certificate
    Unsized,        \* documents whose server does not declare their length
    MaxVersions     \* bound: versions a document goes through

ASSUME CertType    == DN \in [Certs -> DNs] /\ None \notin Certs \cup URLs \cup DNs
ASSUME BareType    == Bare \cap Certs = {} /\ None \notin Bare
ASSUME UnsizedType == Unsized \subseteq URLs
ASSUME BoundType   == MaxVersions \in Nat \ {0}

VARIABLES
    doc,            \* version served at each URL
    store,          \* each alias of the browser's store: "absent", "present" or "removed"
    early,          \* certificates before their notBefore date
    expired,        \* certificates past their notAfter date
    pc,             \* where each request is
    ask,            \* the request's parameters, and what held when it was sent
    table,          \* the aliases the request's keystore read when it was loaded
    entry,          \* local privateKeyEntry: the certificate found, None = null
    stream,         \* what the open stream delivers: a version, whole or cut short
    cert, key,      \* signatureOptions: certificate and private key
    response,       \* what the request answered
    fault           \* history: requests a failure outside the program reached

vars == <<doc, store, early, expired, pc, ask, table, entry, stream, cert, key, response, fault>>

Formats == {"raw", "xades"}
Places  == {"filter", "config", "manager", "lookup", "connect", "certificate", "key",
            "check", "read", "sign"}

Pending == [kind |-> "pending"]
Failed  == [kind |-> "failed"]          \* an exception: status 500, no signature
Signature(u, v, whole, c, k) ==
    [kind |-> "signed", url |-> u, version |-> v, whole |-> whole, cert |-> c, key |-> k]

NotAsked == [auth |-> FALSE, format |-> "raw", url |-> None, dn |-> None, since |-> 0, lost |-> {}, early |-> {}]

Stream(v, whole) == [version |-> v, whole |-> whole]
NoStream == Stream(0, FALSE)

Aliases == Certs \cup Bare
Expired(c) == c \in expired
Present == {a \in Aliases : store[a] = "present"}

Init ==
    /\ doc = [u \in URLs |-> 1]
    /\ store \in [Aliases -> {"absent", "present"}]
    /\ early \in SUBSET Certs
    /\ expired \in SUBSET (Certs \ early)
    /\ pc = [r \in Requests |-> "idle"]
    /\ ask = [r \in Requests |-> NotAsked]
    /\ table = [r \in Requests |-> {}]
    /\ entry = [r \in Requests |-> None]
    /\ stream = [r \in Requests |-> NoStream]
    /\ cert = [r \in Requests |-> None]
    /\ key = [r \in Requests |-> None]
    /\ response = [r \in Requests |-> Pending]
    /\ fault = {}

world   == <<doc, store, early, expired>>
options == <<stream, cert, key>>

-----------------------------------------------------------------------------
(***************************************************************************)
(* The world around the service.                                           *)
(***************************************************************************)
Replace(u) ==
    /\ doc[u] < MaxVersions
    /\ doc' = [doc EXCEPT ![u] = @ + 1]
    /\ UNCHANGED <<store, early, expired, pc, ask, table, entry, options, response, fault>>

\* A removed entry does not come back; its session handles are dead.
ChangeStore(a) ==
    /\ \/ store[a] = "absent" /\ store' = [store EXCEPT ![a] = "present"]
       \/ store[a] = "present" /\ store' = [store EXCEPT ![a] = "removed"]
    /\ UNCHANGED <<doc, early, expired, pc, ask, table, entry, options, response, fault>>

BecomeValid(c) ==
    /\ c \in early
    /\ early' = early \ {c}
    /\ UNCHANGED <<doc, store, expired, pc, ask, table, entry, options, response, fault>>

Expire(c) ==
    /\ c \notin early /\ ~Expired(c)
    /\ expired' = expired \cup {c}
    /\ UNCHANGED <<doc, store, early, pc, ask, table, entry, options, response, fault>>

-----------------------------------------------------------------------------
Goto(r, place) == pc' = [pc EXCEPT ![r] = place]

Answer(r, a) == Goto(r, "done") /\ response' = [response EXCEPT ![r] = a]

\* Seeded fault: null is returned where an exception should be thrown.
ThrowNull(r) == Answer(r, None)

Throw(r) == Answer(r, Failed)

\* A failure the program did not cause: a file, a server or a token that cannot be used.
Fault(r) == fault' = fault \cup {r}
Break(r) == Throw(r) /\ Fault(r)

Proceed(r, place) == Goto(r, place) /\ UNCHANGED response

(***************************************************************************)
(* The request, in the order of the code.                                  *)
(***************************************************************************)
Send(r, auth, format, u, dn) ==
    /\ pc[r] = "idle"
    /\ Goto(r, "filter")
    /\ ask' = [ask EXCEPT ![r] =
                  [auth |-> auth, format |-> format, url |-> u, dn |-> dn, since |-> doc[u],
                   lost |-> {c \in Certs : Expired(c) \/ store[c] = "removed"}, early |-> early]]
    /\ UNCHANGED <<world, table, entry, options, response, fault>>

\* Seeded fault: the result of TokenGenerator.verify is not looked at.
FilterOpen(r) ==
    /\ pc[r] = "filter"
    /\ Proceed(r, "config")
    /\ UNCHANGED <<world, ask, table, entry, options, fault>>

\* AuthFilter: the token must carry the signature of appName:timestamp; a public key
\* that cannot be read verifies none.
Filter(r) ==
    /\ pc[r] = "filter"
    /\ \/ ask[r].auth /\ Proceed(r, "config") /\ UNCHANGED fault
       \/ ~ask[r].auth /\ Throw(r) /\ UNCHANGED fault
       \/ Break(r)
    /\ UNCHANGED <<world, ask, table, entry, options>>

\* new ConfigManager(): the bundled configuration, read for every request.
LoadConfiguration(r) ==
    /\ pc[r] = "config"
    /\ \/ Proceed(r, "manager") /\ UNCHANGED fault
       \/ Break(r)
    /\ UNCHANGED <<world, ask, table, entry, options>>

\* new KeyStoreManager(): a store of its own for every request; the aliases it
\* will ever know are those on the token now.
OpenStore(r) ==
    /\ pc[r] = "manager"
    /\ \/ /\ table' = [table EXCEPT ![r] = Present]
          /\ Proceed(r, "lookup")
          /\ UNCHANGED fault
       \/ Break(r) /\ UNCHANGED table
    /\ UNCHANGED <<world, ask, entry, options>>

Matching(r) == {c \in table[r] \cap Certs : DN[c] = ask[r].dn}

\* Seeded faults: any alias will do; a dn two aliases share is not found.
LookUpAny(r) ==
    /\ pc[r] = "lookup"
    /\ \/ \E c \in table[r] \cap Certs : entry' = [entry EXCEPT ![r] = c]
       \/ UNCHANGED entry
    /\ Proceed(r, "connect")
    /\ UNCHANGED <<world, ask, table, options, fault>>

LookUpUnique(r) ==
    /\ pc[r] = "lookup"
    /\ \/ \E c \in Certs : Matching(r) = {c} /\ entry' = [entry EXCEPT ![r] = c]
       \/ (\A c \in Certs : Matching(r) # {c}) /\ UNCHANGED entry
    /\ Proceed(r, "connect")
    /\ UNCHANGED <<world, ask, table, options, fault>>

\* getPrivateKeyEntryByDn: the first alias whose subject is dn, in the order of
\* the store's hash table; the serial number the browser sends is not looked at.
\* An exception is logged and gives null, as does a dn nobody has: an alias met first
\* that has no certificate, or whose entry has been removed, or a token that fails.
LookUp(r) ==
    /\ pc[r] = "lookup"
    /\ \/ (\E c \in Matching(r) : entry' = [entry EXCEPT ![r] = c]) /\ UNCHANGED fault
       \/ /\ Matching(r) = {} \/ ~(table[r] \subseteq Present \cap Certs)
          /\ UNCHANGED <<entry, fault>>
       \/ UNCHANGED entry /\ Fault(r)
    /\ Proceed(r, "connect")
    /\ UNCHANGED <<world, ask, table, options>>

\* RemoteContentManager.getData: the stream of the version served now.
Connect(r) ==
    /\ pc[r] = "connect"
    /\ \/ /\ stream' = [stream EXCEPT ![r] = Stream(doc[ask[r].url], TRUE)]
          /\ Proceed(r, "certificate")
          /\ UNCHANGED fault
       \/ Break(r) /\ UNCHANGED stream
    /\ UNCHANGED <<world, ask, table, entry, cert, key>>

\* Entry.getKey() reads the key from the store each time it is called; without
\* one the constructor of PrivateKeyEntry throws, as does a null entry.
KeyReadable(r) == entry[r] \in Present \ Keyless

\* Seeded faults: one SignatureOptions shared by all requests; an endless retry.
GetCertificateShared(r) ==
    /\ pc[r] = "certificate"
    /\ \/ KeyReadable(r) /\ cert' = [q \in Requests |-> entry[r]] /\ Proceed(r, "key")
       \/ ~KeyReadable(r) /\ Throw(r) /\ UNCHANGED cert
    /\ UNCHANGED <<world, ask, table, entry, stream, key, fault>>

GetCertificateRetry(r) ==
    /\ pc[r] = "certificate"
    /\ IF KeyReadable(r) THEN /\ cert' = [cert EXCEPT ![r] = entry[r]]
                             /\ Proceed(r, "key")
                        ELSE Proceed(r, "lookup") /\ UNCHANGED cert
    /\ UNCHANGED <<world, ask, table, entry, stream, key, fault>>

GetCertificate(r) ==
    /\ pc[r] = "certificate"
    /\ \/ /\ KeyReadable(r)
          /\ cert' = [cert EXCEPT ![r] = entry[r]]
          /\ Proceed(r, "key")
          /\ UNCHANGED fault
       \/ ~KeyReadable(r) /\ Throw(r) /\ UNCHANGED <<cert, fault>>
       \/ Break(r) /\ UNCHANGED cert
    /\ UNCHANGED <<world, ask, table, entry, stream, key>>

GetPrivateKey(r) ==
    /\ pc[r] = "key"
    /\ \/ /\ KeyReadable(r)
          /\ key' = [key EXCEPT ![r] = entry[r]]
          /\ Proceed(r, "check")
          /\ UNCHANGED fault
       \/ ~KeyReadable(r) /\ Throw(r) /\ UNCHANGED <<key, fault>>
       \/ Break(r) /\ UNCHANGED key
    /\ UNCHANGED <<world, ask, table, entry, stream, cert>>

\* Seeded fault: checkValidity left out.
CheckOptionsNoDate(r) ==
    /\ pc[r] = "check"
    /\ IF cert[r] # None /\ key[r] # None /\ stream[r] # NoStream
       THEN Proceed(r, "read")
       ELSE Throw(r)
    /\ UNCHANGED <<world, ask, table, entry, options, fault>>

Valid(c) == c \notin early /\ ~Expired(c)

\* AbstractSignatureFormatter: certificate, validity today, key, data present.
CheckOptions(r) ==
    /\ pc[r] = "check"
    /\ IF cert[r] # None /\ Valid(cert[r]) /\ key[r] # None /\ stream[r] # NoStream
       THEN Proceed(r, "read")
       ELSE Throw(r)
    /\ UNCHANGED <<world, ask, table, entry, options, fault>>

\* Seeded fault: a stream that breaks gives the bytes read so far.
ReadDataSoFar(r) ==
    /\ pc[r] = "read"
    /\ \E whole \in BOOLEAN : stream' = [stream EXCEPT ![r] = Stream(@.version, whole)]
    /\ Proceed(r, "sign")
    /\ UNCHANGED <<world, ask, table, entry, cert, key, fault>>

\* inputStreamToByteArray returns null for a stream that breaks, and signing
\* null throws.  A server that did not declare the length can end early without
\* breaking: XML cut short does not parse, but raw bytes are signed as they are.
ReadData(r) ==
    /\ pc[r] = "read"
    /\ \/ Proceed(r, "sign") /\ UNCHANGED <<stream, fault>>
       \/ Break(r) /\ UNCHANGED stream        \* also XML that does not parse
       \/ /\ ask[r].url \in Unsized /\ ask[r].format = "raw"
          /\ stream' = [stream EXCEPT ![r] = Stream(@.version, FALSE)]
          /\ Proceed(r, "sign")
          /\ UNCHANGED fault
    /\ UNCHANGED <<world, ask, table, entry, cert, key>>

\* The private key never leaves the token: signing needs it there.  Both formats sign
\* with RSA.
Sign(r) ==
    /\ pc[r] = "sign"
    /\ \/ /\ key[r] \in Present \ OtherKeys
          /\ Answer(r, Signature(ask[r].url, stream[r].version, stream[r].whole, cert[r], key[r]))
          /\ UNCHANGED fault
       \/ key[r] \notin Present \ OtherKeys /\ Throw(r) /\ UNCHANGED fault
       \/ Break(r)
    /\ UNCHANGED <<world, ask, table, entry, options>>

Step(r) == \/ Filter(r) \/ LoadConfiguration(r) \/ OpenStore(r) \/ LookUp(r) \/ Connect(r)
           \/ GetCertificate(r) \/ GetPrivateKey(r) \/ CheckOptions(r) \/ ReadData(r) \/ Sign(r)

Finished == (\A r \in Requests : pc[r] = "done") /\ UNCHANGED vars

Next ==
    \/ \E u \in URLs : Replace(u)
    \/ \E a \in Aliases : ChangeStore(a)
    \/ \E c \in Certs : BecomeValid(c) \/ Expire(c)
    \/ \E r \in Requests :
          \/ \E auth \in BOOLEAN, f \in Formats, u \in URLs, dn \in DNs : Send(r, auth, f, u, dn)
          \/ Step(r)
    \/ Finished

Spec == Init /\ [][Next]_vars

\* Connecting to the document and each read of it have a timeout of 10 seconds, and a
\* document ends some day: the loop over the reads has no other bound.
FairSpec == Spec /\ \A r \in Requests : WF_vars(Step(r))

-----------------------------------------------------------------------------
Asked == [auth : BOOLEAN, format : Formats, url : URLs, dn : DNs, since : Nat, lost : SUBSET Certs,
          early : SUBSET Certs]

Signatures == [kind : {"signed"}, url : URLs, version : Nat, whole : BOOLEAN, cert : Certs, key : Certs]

TypeOK ==
    /\ doc \in [URLs -> Nat]
    /\ store \in [Aliases -> {"absent", "present", "removed"}]
    /\ early \subseteq Certs
    /\ expired \subseteq Certs
    /\ pc \in [Requests -> Places \cup {"idle", "done"}]
    /\ ask \in [Requests -> Asked \cup {NotAsked}]
    /\ table \in [Requests -> SUBSET Aliases]
    /\ entry \in [Requests -> Certs \cup {None}]
    /\ stream \in [Requests -> [version : Nat, whole : BOOLEAN]]
    /\ cert \in [Requests -> Certs \cup {None}]
    /\ key \in [Requests -> Certs \cup {None}]
    /\ response \in [Requests -> Signatures \cup {Pending, Failed}]
    /\ fault \subseteq Requests

Signed(r) == response[r].kind = "signed"

\* A signature answers the request it is returned for: the document asked, in a
\* version served since the request was sent, by a certificate whose subject is
\* the dn asked, with the private key of that same certificate, although the
\* certificate and the key are read one after the other (SignResource.java:66-80).
SignatureMatchesRequest ==
    \A r \in Requests :
        Signed(r) =>
            /\ response[r].url = ask[r].url
            /\ response[r].version \in ask[r].since .. doc[ask[r].url]
            /\ DN[response[r].cert] = ask[r].dn
            /\ response[r].key = response[r].cert

\* Nothing is signed for a request whose token does not verify, and no failure
\* of any step, the filter's included, is answered with a signature
\* (AuthFilter.java:28-35, SignResource.java:40-46).
OnlyAuthorisedIsSigned ==
    \A r \in Requests : Signed(r) => ask[r].auth /\ r \notin fault

\* A certificate that had expired or left the store when the request was sent, or whose
\* validity has not begun when it is answered, signs nothing for it, whatever was cached
\* (AbstractSignatureFormatter.java:33-40, KeyStoreManager.java:113-128).
LostIsNeverUsed ==
    \A r \in Requests : Signed(r) => response[r].cert \notin ask[r].lost \cup early

\* A document is signed whole, unless its server declares no length and the
\* format is raw: a broken stream is not signed as far as it got
\* (StreamUtils.java:16-28).
SignedWhole ==
    \A r \in Requests :
        (Signed(r) /\ ~response[r].whole) => ask[r].url \in Unsized /\ ask[r].format = "raw"

Removed(a) == store[a] = "removed"

NothingFoundFor(r) ==
    \/ Matching(r) = {}
    \/ table[r] \cap Bare # {}
    \/ \E a \in table[r] : Removed(a)

\* Why an entry cannot sign; `before' are those before their validity when it was asked.
OfNoUse(c, before) ==
    Removed(c) \/ c \in Keyless \cup OtherKeys \/ Expired(c) \/ c \in before

\* An authorised request fails only for a cause.  Something outside failed; or no entry
\* was found, because none of the aliases read when the store was opened has a
\* certificate of that dn, one of them has no certificate at all or its entry has been
\* removed; or it is the entry found that has been removed, gives no key, or none of
\* RSA, or is out of its validity.  An entry beside it that would have served does not
\* help: of a certificate and its renewal the expired one may be picked
\* (KeyStoreManager.java:101-133, AbstractSignatureFormatter.java:24-49).
FailsForACause ==
    \A r \in Requests :
        (response[r] = Failed /\ ask[r].auth) =>
            \/ r \in fault
            \/ entry[r] = None /\ NothingFoundFor(r)
            \/ entry[r] # None /\ OfNoUse(entry[r], ask[r].early)

\* Every request sent is answered, with a signature or a failure.
EveryRequestAnswered == \A r \in Requests : pc[r] = "filter" ~> pc[r] = "done"

-----------------------------------------------------------------------------
RequestOf == [r \in Requests |-> IF pc[r] = "idle" THEN None ELSE ask[r]]
LostOf    == expired \cup {c \in Certs : store[c] = "removed"}

ASSUME NoneIsNoRequest == None \notin Asked

Contract == INSTANCE SigningContract WITH request <- RequestOf, lost <- LostOf

\* What SigningContract promises a caller holds of the service.
KeepsContract == Contract!Spec
=============================================================================
