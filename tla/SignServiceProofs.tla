-------------------------- MODULE SignServiceProofs --------------------------
(***************************************************************************)
(* Proofs about the signing service for any requests, documents,           *)
(* certificates and names.                                                 *)
(***************************************************************************)
EXTENDS SignService, TLAPS

AfterFilter  == Places \ {"filter"}
AfterLookUp  == {"connect", "certificate", "key", "check", "read", "sign"}
AfterConnect == {"certificate", "key", "check", "read", "sign"}
AfterKey     == {"check", "read", "sign"}

\* A request that was sent keeps its parameters; the world has moved on since.
AskedOnce(r) ==
    pc[r] # "idle" =>
        /\ ask[r] \in Asked
        /\ ask[r].since <= doc[ask[r].url]
        /\ \A c \in ask[r].lost : Expired(c) \/ Removed(c)
        /\ early \subseteq ask[r].early

\* Only a request the filter let through goes on, and it is not answered on the way; one
\* that goes on after a fault found no entry.
OnTheWay(r) ==
    /\ pc[r] # "done" => response[r] = Pending
    /\ pc[r] # "done" /\ r \in fault => pc[r] \in {"connect", "certificate"} /\ entry[r] = None
    /\ pc[r] \in AfterFilter => ask[r].auth

\* Nothing is picked up before its step.
NothingYet(r) ==
    pc[r] \in {"idle", "filter", "config", "manager", "lookup"} => entry[r] = None

\* What a request has picked up so far fits what it asked.
PickedUp(r) ==
    /\ pc[r] \in AfterLookUp /\ entry[r] # None => DN[entry[r]] = ask[r].dn
    /\ pc[r] \in AfterConnect =>
          /\ stream[r].version \in ask[r].since .. doc[ask[r].url]
          /\ ~stream[r].whole => ask[r].url \in Unsized /\ ask[r].format = "raw"
    /\ pc[r] \in {"key"} \cup AfterKey =>
          /\ entry[r] # None
          /\ cert[r] = entry[r]
          /\ cert[r] \in ask[r].lost => Expired(cert[r])
    /\ pc[r] \in AfterKey => key[r] = entry[r]
    /\ pc[r] \in {"read", "sign"} => cert[r] \notin ask[r].lost \cup early

Cause(r) ==
    \/ r \in fault
    \/ entry[r] = None /\ NothingFoundFor(r)
    \/ entry[r] # None /\ OfNoUse(entry[r], ask[r].early)

\* What a request carries explains the failure it may come to: the aliases it read were
\* on the token, the entry is one of the subject or is missing for a reason, the stream
\* is whole until it is read.
Explained(r) ==
    /\ \A a \in table[r] : store[a] # "absent"
    /\ pc[r] \in AfterLookUp =>
          \/ entry[r] \in Matching(r)
          \/ entry[r] = None /\ (r \in fault \/ NothingFoundFor(r))
    /\ pc[r] \in {"certificate", "key", "check", "read"} => stream[r].whole
    /\ response[r] = Failed /\ ask[r].auth => Cause(r)

\* What a signature says of the request it answers.
SignedRight(r) ==
    Signed(r) =>
        /\ pc[r] = "done"
        /\ response[r].url = ask[r].url
        /\ response[r].version \in ask[r].since .. doc[ask[r].url]
        /\ ~response[r].whole => ask[r].url \in Unsized /\ ask[r].format = "raw"
        /\ DN[response[r].cert] = ask[r].dn
        /\ response[r].key = response[r].cert
        /\ response[r].cert \notin ask[r].lost \cup early
        /\ ask[r].auth
        /\ r \notin fault

Fits(r) == AskedOnce(r) /\ OnTheWay(r) /\ NothingYet(r) /\ PickedUp(r) /\ Explained(r) /\ SignedRight(r)

IInv == TypeOK /\ \A r \in Requests : Fits(r)

-----------------------------------------------------------------------------
\* No request was sent and nothing is picked up at the start.
LEMMA InitInv == Init => IInv
  <1> SUFFICES ASSUME Init PROVE IInv
    OBVIOUS
  <1>1. TypeOK
    BY DEF Init, TypeOK, Places, NoStream, Stream
  <1>2. ASSUME NEW r \in Requests PROVE Fits(r)
    <2>1. pc[r] = "idle" /\ response[r] = Pending /\ r \notin fault /\ entry[r] = None /\ table[r] = {}
      BY DEF Init
    <2>2. Pending.kind # "signed" /\ Pending # Failed
      BY DEF Pending, Failed
    <2> QED
      BY <2>1, <2>2 DEF Fits, AskedOnce, OnTheWay, NothingYet, PickedUp, Explained, SignedRight, Signed,
         AfterFilter, AfterLookUp, AfterConnect, AfterKey, Places
  <1> QED
    BY <1>1, <1>2 DEF IInv

\* Documents get new versions, what left the store stays away, time goes on.
WorldMovesOn ==
    /\ \A u \in URLs : doc'[u] \in Nat /\ doc'[u] >= doc[u]
    /\ \A a \in Aliases : /\ store[a] # "absent" => store'[a] # "absent"
                          /\ store[a] = "removed" => store'[a] = "removed"
    /\ expired \subseteq expired'
    /\ early' \subseteq early

\* A request that stands still.
Same(q) ==
    /\ pc'[q] = pc[q] /\ ask'[q] = ask[q] /\ table'[q] = table[q] /\ entry'[q] = entry[q]
    /\ stream'[q] = stream[q] /\ cert'[q] = cert[q] /\ key'[q] = key[q]
    /\ response'[q] = response[q]
    /\ q \in fault' <=> q \in fault

\* A world that stands still moves on, too.
LEMMA StandsStill ==
  ASSUME TypeOK, UNCHANGED world
  PROVE  WorldMovesOn
  BY DEF TypeOK, world, WorldMovesOn

\* The causes of a failure last.
LEMMA CausesLast ==
  ASSUME TypeOK, NEW q \in Requests, WorldMovesOn,
         ask'[q] = ask[q], table'[q] = table[q]
  PROVE  /\ Matching(q)' = Matching(q)
         /\ NothingFoundFor(q) => NothingFoundFor(q)'
         /\ \A c \in Certs : OfNoUse(c, ask[q].early) => OfNoUse(c, ask[q].early)'
  <1>1. Matching(q)' = Matching(q)
    BY DEF Matching
  <1>2. \A a \in Aliases : Removed(a) => Removed(a)'
    BY DEF Removed, WorldMovesOn
  <1>3. table[q] \subseteq Aliases
    BY DEF TypeOK
  <1>4. \A c \in Certs : Expired(c) => Expired(c)'
    BY DEF Expired, WorldMovesOn
  <1>5. NothingFoundFor(q) => NothingFoundFor(q)'
    BY <1>1, <1>2, <1>3 DEF NothingFoundFor
  <1>6. \A c \in Certs : OfNoUse(c, ask[q].early) => OfNoUse(c, ask[q].early)'
    BY <1>2, <1>4 DEF OfNoUse, Aliases
  <1> QED
    BY <1>1, <1>5, <1>6

\* Whatever the world does, a request that stands still goes on fitting.
LEMMA StillFits ==
  ASSUME TypeOK, NEW q \in Requests, Fits(q), WorldMovesOn, Same(q)
  PROVE  Fits(q)'
  <1>0. /\ pc'[q] = pc[q] /\ ask'[q] = ask[q] /\ table'[q] = table[q] /\ entry'[q] = entry[q]
        /\ stream'[q] = stream[q] /\ cert'[q] = cert[q] /\ key'[q] = key[q]
        /\ response'[q] = response[q]
        /\ q \in fault' <=> q \in fault
    BY DEF Same
  <1>1. pc[q] # "idle" => /\ ask[q].url \in URLs /\ ask[q].since \in Nat /\ ask[q].lost \subseteq Certs
                          /\ doc[ask[q].url] \in Nat /\ doc'[ask[q].url] \in Nat
                          /\ doc'[ask[q].url] >= doc[ask[q].url]
    BY DEF Fits, AskedOnce, Asked, WorldMovesOn, TypeOK
  <1>2. AskedOnce(q)'
    <2>1. ASSUME pc[q] # "idle", NEW c \in ask[q].lost PROVE (Expired(c) \/ Removed(c))'
      BY <1>1, <2>1 DEF Fits, AskedOnce, Expired, Removed, WorldMovesOn, Aliases
    <2>2. ASSUME pc[q] # "idle" PROVE ask[q].since <= doc'[ask[q].url] /\ early' \subseteq ask[q].early /\ ask[q] \in Asked
      BY <1>1, <2>2 DEF Fits, AskedOnce, WorldMovesOn
    <2> QED
      BY <1>0, <2>1, <2>2 DEF AskedOnce
  <1>3. OnTheWay(q)' /\ NothingYet(q)'
    BY <1>0 DEF Fits, OnTheWay, NothingYet
  <1>4. PickedUp(q)'
    <2>1. ASSUME pc[q] \in AfterConnect PROVE stream[q].version \in ask[q].since .. doc'[ask[q].url]
      <3>1. stream[q].version \in ask[q].since .. doc[ask[q].url]
        BY <2>1 DEF Fits, PickedUp
      <3>2. pc[q] # "idle"
        BY <2>1 DEF AfterConnect
      <3> QED
        BY <1>1, <3>1, <3>2
    <2>2. (cert[q] \in ask[q].lost => Expired(cert[q])) => (cert[q] \in ask[q].lost => Expired(cert[q])')
      BY <1>0 DEF WorldMovesOn, Expired
    <2>3. cert[q] \notin ask[q].lost \cup early => cert[q] \notin ask[q].lost \cup early'
      BY DEF WorldMovesOn
    <2> QED
      BY <1>0, <2>1, <2>2, <2>3 DEF Fits, PickedUp, Expired
  <1>5. Explained(q)'
    <2>1. \A a \in table[q] : a \in Aliases
      BY DEF TypeOK
    <2>2. \A a \in table'[q] : store'[a] # "absent"
      BY <1>0, <2>1 DEF Fits, Explained, WorldMovesOn
    <2>3. entry[q] # None => entry[q] \in Certs
      BY DEF TypeOK
    <2>4. Cause(q) => Cause(q)'
      BY <1>0, <2>3, CausesLast DEF Cause
    <2> QED
      BY <1>0, <2>2, <2>4, CausesLast DEF Fits, Explained
  <1>6. SignedRight(q)'
    <2>1. Signed(q) => pc[q] # "idle"
      BY DEF Fits, SignedRight
    <2> QED
      BY <1>0, <1>1, <2>1 DEF Fits, SignedRight, Signed, WorldMovesOn
  <1> QED
    BY <1>2, <1>3, <1>4, <1>5, <1>6 DEF Fits

-----------------------------------------------------------------------------
(***************************************************************************)
(* The steps of a request: to the next place, or out.                      *)
(***************************************************************************)
\* An exception answers this request and no other.
LEMMA ThrowIs ==
  ASSUME TypeOK, NEW r \in Requests, Throw(r)
  PROVE  /\ pc' \in [Requests -> Places \cup {"idle", "done"}]
         /\ response' \in [Requests -> Signatures \cup {Pending, Failed}]
         /\ pc'[r] = "done" /\ response'[r] = Failed
         /\ \A q \in Requests \ {r} : pc'[q] = pc[q] /\ response'[q] = response[q]
  BY DEF TypeOK, Throw, Answer, Goto

\* A step to a place moves this request and no other.
LEMMA ProceedIs ==
  ASSUME TypeOK, NEW r \in Requests, NEW place \in Places, Proceed(r, place)
  PROVE  /\ pc' \in [Requests -> Places \cup {"idle", "done"}]
         /\ response' \in [Requests -> Signatures \cup {Pending, Failed}]
         /\ pc'[r] = place /\ response'[r] = response[r]
         /\ \A q \in Requests \ {r} : pc'[q] = pc[q] /\ response'[q] = response[q]
  BY DEF TypeOK, Proceed, Goto

\* A step of a request keeps the invariant if it is typed and the request fits after it.
LEMMA OwnStepKeeps ==
  ASSUME IInv, NEW r \in Requests, UNCHANGED world, TypeOK', Fits(r)',
         \A q \in Requests \ {r} : Same(q)
  PROVE  IInv'
  <1>1. ASSUME NEW q \in Requests PROVE Fits(q)'
    BY StillFits, StandsStill DEF IInv
  <1> QED
    BY <1>1 DEF IInv

\* A request that fails for a cause keeps the invariant.
LEMMA ThrowKeeps ==
  ASSUME IInv, NEW r \in Requests, pc[r] \in Places, Throw(r),
         UNCHANGED <<world, ask, table, entry, options>>,
         UNCHANGED fault \/ Fault(r),
         ask[r].auth => Cause(r) \/ r \in fault'
  PROVE  IInv'
  <1>0. TypeOK /\ Fits(r)
    BY DEF IInv
  <1>1. /\ UNCHANGED <<doc, store, early, expired, ask, table, entry, stream, cert, key>>
        /\ fault' \subseteq Requests
        /\ fault \subseteq fault'
        /\ \A q \in Requests \ {r} : q \in fault' <=> q \in fault
    BY <1>0 DEF world, options, Fault, TypeOK
  <1>2. TypeOK'
    BY <1>0, <1>1, ThrowIs DEF TypeOK
  <1>3. Fits(r)'
    <2>1. pc'[r] = "done" /\ response'[r] = Failed
      BY <1>0, ThrowIs
    <2>2. AskedOnce(r)'
      BY <1>0, <1>1 DEF Fits, AskedOnce, Places, Expired, Removed
    <2>3. Explained(r)'
      <3>1. Cause(r) => Cause(r)'
        BY <1>1 DEF Cause, NothingFoundFor, Matching, OfNoUse, Removed, Expired
      <3> QED
        BY <1>0, <1>1, <2>1, <3>1 DEF Fits, Explained, Cause, AfterLookUp
    <2>4. ~Signed(r)'
      BY <2>1 DEF Signed, Failed
    <2> QED
      BY <2>1, <2>2, <2>3, <2>4 DEF Fits, OnTheWay, NothingYet, PickedUp, SignedRight, AfterFilter, AfterLookUp,
         AfterConnect, AfterKey, Places
  <1>4. \A q \in Requests \ {r} : Same(q)
    BY <1>0, <1>1, ThrowIs DEF Same
  <1> QED
    BY <1>1, <1>2, <1>3, <1>4, OwnStepKeeps

\* A request that fails because of a fault keeps the invariant.
LEMMA BreakKeeps ==
  ASSUME IInv, NEW r \in Requests, pc[r] \in Places, Break(r),
         UNCHANGED <<world, ask, table, entry, options>>
  PROVE  IInv'
  BY ThrowKeeps DEF Break, Fault

\* A request that goes on with what it should keeps the invariant.
LEMMA ProceedKeeps ==
  ASSUME IInv, NEW r \in Requests, pc[r] \in Places, NEW place \in Places, place # "filter",
         Proceed(r, place),
         UNCHANGED <<world, ask>>,
         UNCHANGED fault \/ (Fault(r) /\ place = "connect" /\ entry'[r] = None),
         r \in fault => place \in {"connect", "certificate"} /\ entry'[r] = None,
         ask[r].auth,
         table' \in [Requests -> SUBSET Aliases],
         entry' \in [Requests -> Certs \cup {None}],
         stream' \in [Requests -> [version : Nat, whole : BOOLEAN]],
         cert' \in [Requests -> Certs \cup {None}],
         key' \in [Requests -> Certs \cup {None}],
         \A q \in Requests \ {r} : /\ table'[q] = table[q] /\ entry'[q] = entry[q]
                                   /\ stream'[q] = stream[q] /\ cert'[q] = cert[q] /\ key'[q] = key[q],
         NothingYet(r)', PickedUp(r)',
         \A a \in table'[r] : store[a] # "absent",
         place \in AfterLookUp =>
            \/ entry'[r] \in Matching(r)'
            \/ entry'[r] = None /\ (r \in fault' \/ NothingFoundFor(r)'),
         place \in {"certificate", "key", "check", "read"} => stream'[r].whole
  PROVE  IInv'
  <1>0. TypeOK /\ Fits(r)
    BY DEF IInv
  <1>1. /\ UNCHANGED <<doc, store, early, expired, ask>>
        /\ fault' \subseteq Requests
        /\ r \in fault' => place \in {"connect", "certificate"} /\ entry'[r] = None
        /\ \A q \in Requests \ {r} : q \in fault' <=> q \in fault
    BY <1>0 DEF world, Fault, TypeOK
  <1>2. TypeOK'
    BY <1>0, <1>1, ProceedIs DEF TypeOK
  <1>3. Fits(r)'
    <2>1. pc'[r] = place /\ response'[r] = response[r]
      BY <1>0, ProceedIs
    <2>2. response[r] = Pending /\ Pending # Failed /\ Pending.kind # "signed"
      BY <1>0 DEF Fits, OnTheWay, Places, Pending, Failed
    <2>3. AskedOnce(r)'
      BY <1>0, <1>1 DEF Fits, AskedOnce, Places, Expired, Removed
    <2>4. OnTheWay(r)'
      BY <1>1, <2>1, <2>2 DEF OnTheWay
    <2>5. Explained(r)'
      BY <1>1, <2>1, <2>2 DEF Explained
    <2>6. SignedRight(r)'
      BY <2>1, <2>2 DEF SignedRight, Signed
    <2> QED
      BY <2>3, <2>4, <2>5, <2>6 DEF Fits
  <1>4. \A q \in Requests \ {r} : Same(q)
    BY <1>0, <1>1, ProceedIs DEF Same
  <1> QED
    BY <1>1, <1>2, <1>3, <1>4, OwnStepKeeps

\* What is known of a request on its way.
LEMMA OnItsWay ==
  ASSUME IInv, NEW r \in Requests, pc[r] \in Places
  PROVE  /\ TypeOK /\ Fits(r)
         /\ ask[r] \in Asked /\ ask[r].url \in URLs /\ ask[r].since \in Nat
         /\ doc[ask[r].url] \in Nat /\ ask[r].since <= doc[ask[r].url]
         /\ response[r] = Pending
         /\ pc[r] # "filter" => ask[r].auth
  BY DEF IInv, Fits, AskedOnce, Asked, TypeOK, Places, OnTheWay, AfterFilter

\* Whoever carries an entry that cannot be used any more, or none, has a cause to fail.
LEMMA EntryHasCause ==
  ASSUME IInv, NEW r \in Requests, pc[r] \in AfterLookUp
  PROVE  /\ entry[r] # None => entry[r] \in Certs /\ entry[r] \in Matching(r) /\ store[entry[r]] \in {"present", "removed"}
         /\ entry[r] \notin (Present \ Keyless) \ OtherKeys => Cause(r)
         /\ entry[r] # None /\ ~Valid(entry[r]) => Cause(r)
  <1>1. TypeOK /\ Fits(r)
    BY DEF IInv
  <1>2. CASE entry[r] = None
    BY <1>1, <1>2, CertType DEF Fits, Explained, Cause, Matching
  <1>3. CASE entry[r] # None
    <2>1. entry[r] \in Certs /\ entry[r] \in Matching(r) /\ entry[r] \in table[r]
      BY <1>1, <1>3 DEF Fits, Explained, Matching, TypeOK
    <2>2. store[entry[r]] \in {"present", "removed"}
      BY <1>1, <2>1 DEF Fits, Explained, TypeOK, Aliases
    <2>3. entry[r] \notin (Present \ Keyless) \ OtherKeys => Cause(r)
      BY <1>3, <2>1, <2>2 DEF Cause, OfNoUse, Removed, Present, Aliases
    <2>4. ~Valid(entry[r]) => Cause(r)
      <3>1. early \subseteq ask[r].early
        BY <1>1 DEF Fits, AskedOnce, AfterLookUp
      <3> QED
        BY <1>3, <3>1 DEF Cause, OfNoUse, Valid
    <2> QED
      BY <2>1, <2>2, <2>3, <2>4
  <1> QED
    BY <1>2, <1>3

-----------------------------------------------------------------------------
(***************************************************************************)
(* The world and the requests sent.                                        *)
(***************************************************************************)
\* Whatever happens around the service, the invariant is kept.
LEMMA WorldKeeps ==
  ASSUME IInv,
         \/ \E u \in URLs : Replace(u)
         \/ \E a \in Aliases : ChangeStore(a)
         \/ \E c \in Certs : BecomeValid(c) \/ Expire(c)
  PROVE  IInv'
  <1>0. TypeOK
    BY DEF IInv
  <1>1. UNCHANGED <<pc, ask, table, entry, options, response, fault>>
    BY DEF Replace, ChangeStore, BecomeValid, Expire
  <1>2. WorldMovesOn /\ doc' \in [URLs -> Nat] /\ early' \subseteq Certs /\ expired' \subseteq Certs
        /\ store' \in [Aliases -> {"absent", "present", "removed"}]
    <2>1. CASE \E u \in URLs : Replace(u)
      BY <1>0, <2>1 DEF Replace, WorldMovesOn, TypeOK
    <2>2. CASE \E a \in Aliases : ChangeStore(a)
      BY <1>0, <2>2 DEF ChangeStore, WorldMovesOn, TypeOK
    <2>3. CASE \E c \in Certs : BecomeValid(c) \/ Expire(c)
      BY <1>0, <2>3 DEF BecomeValid, Expire, WorldMovesOn, TypeOK
    <2> QED
      BY <2>1, <2>2, <2>3
  <1>3. TypeOK'
    BY <1>0, <1>1, <1>2 DEF TypeOK, options
  <1>4. ASSUME NEW q \in Requests PROVE Fits(q)'
    <2>1. Same(q)
      BY <1>1 DEF Same, options
    <2> QED
      BY <1>0, <1>2, <2>1, StillFits DEF IInv
  <1> QED
    BY <1>3, <1>4 DEF IInv

\* Sending fixes the parameters and what was lost at that moment.
LEMMA SendKeeps ==
  ASSUME IInv, NEW r \in Requests, NEW auth \in BOOLEAN, NEW f \in Formats, NEW u \in URLs,
         NEW dn \in DNs, Send(r, auth, f, u, dn)
  PROVE  IInv'
  <1>0. TypeOK /\ Fits(r) /\ pc[r] = "idle"
    BY DEF IInv, Send
  <1> DEFINE lost == {c \in Certs : Expired(c) \/ store[c] = "removed"}
             asked == [auth |-> auth, format |-> f, url |-> u, dn |-> dn, since |-> doc[u],
                       lost |-> lost, early |-> early]
  <1>1. asked \in Asked
    BY <1>0 DEF TypeOK, Asked
  <1>2. /\ ask' = [ask EXCEPT ![r] = asked] /\ pc' = [pc EXCEPT ![r] = "filter"]
        /\ UNCHANGED <<doc, store, early, expired, table, entry, stream, cert, key, response, fault>>
    BY DEF Send, Goto, world, options
  <1>3. asked.url = u /\ asked.since = doc[u] /\ asked.lost = lost /\ asked.early = early /\ doc[u] \in Nat
    BY <1>0 DEF TypeOK
  <1>4. \A c \in lost : Expired(c) \/ Removed(c)
    BY DEF Removed
  <1> HIDE DEF asked, lost
  <1>5. TypeOK'
    BY <1>0, <1>1, <1>2 DEF TypeOK, Places
  <1>6. ask'[r] = asked /\ pc'[r] = "filter"
    BY <1>0, <1>2 DEF TypeOK
  <1>7. AskedOnce(r)'
    BY <1>1, <1>2, <1>3, <1>4, <1>6 DEF AskedOnce, Expired, Removed
  <1>8. response[r] = Pending /\ r \notin fault /\ entry[r] = None
    BY <1>0 DEF Fits, OnTheWay, NothingYet
  <1>9. OnTheWay(r)' /\ NothingYet(r)' /\ PickedUp(r)'
    BY <1>2, <1>6, <1>8 DEF OnTheWay, NothingYet, PickedUp, AfterFilter, AfterLookUp, AfterConnect, AfterKey
  <1>10. Explained(r)' /\ SignedRight(r)'
    <2>1. Pending.kind # "signed" /\ Pending # Failed
      BY DEF Pending, Failed
    <2> QED
      BY <1>0, <1>2, <1>6, <1>8, <2>1 DEF Fits, Explained, SignedRight, Signed, AfterLookUp
  <1>11. \A q \in Requests \ {r} : Same(q)
    BY <1>0, <1>2 DEF Same, TypeOK
  <1> QED
    BY <1>2, <1>5, <1>7, <1>9, <1>10, <1>11, OwnStepKeeps DEF Fits, world

-----------------------------------------------------------------------------
(***************************************************************************)
(* The request, in the order of the code.                                  *)
(***************************************************************************)
\* The filter lets only authorised requests through.
LEMMA FilterKeeps ==
  ASSUME IInv, NEW r \in Requests, Filter(r)
  PROVE  IInv'
  <1>1. pc[r] = "filter" /\ pc[r] \in Places /\ UNCHANGED <<world, ask, table, entry, options>>
    BY DEF Filter, Places
  <1>2. CASE ask[r].auth /\ Proceed(r, "config") /\ UNCHANGED fault
    <2>1. pc'[r] = "config" /\ "config" \in Places
      BY <1>1, <1>2, OnItsWay, ProceedIs DEF Places
    <2> QED
      BY <1>1, <1>2, <2>1, OnItsWay, ProceedKeeps DEF Fits, OnTheWay, NothingYet, PickedUp, Explained, TypeOK, world,
         options, AfterLookUp, AfterConnect, AfterKey
  <1>3. CASE ~ask[r].auth /\ Throw(r) /\ UNCHANGED fault
    BY <1>1, <1>3, ThrowKeeps
  <1>4. CASE Break(r)
    BY <1>1, <1>4, BreakKeeps
  <1> QED
    BY <1>2, <1>3, <1>4 DEF Filter

\* Loading the configuration goes on or breaks.
LEMMA LoadConfigurationKeeps ==
  ASSUME IInv, NEW r \in Requests, LoadConfiguration(r)
  PROVE  IInv'
  <1>1. pc[r] = "config" /\ pc[r] \in Places /\ UNCHANGED <<world, ask, table, entry, options>>
    BY DEF LoadConfiguration, Places
  <1>2. CASE Proceed(r, "manager") /\ UNCHANGED fault
    <2>1. pc'[r] = "manager" /\ "manager" \in Places
      BY <1>1, <1>2, OnItsWay, ProceedIs DEF Places
    <2> QED
      BY <1>1, <1>2, <2>1, OnItsWay, ProceedKeeps DEF Fits, OnTheWay, NothingYet, PickedUp, Explained, TypeOK, world,
         options, AfterLookUp, AfterConnect, AfterKey
  <1>3. CASE Break(r)
    BY <1>1, <1>3, BreakKeeps
  <1> QED
    BY <1>2, <1>3 DEF LoadConfiguration

\* The aliases read are on the token.
LEMMA OpenStoreKeeps ==
  ASSUME IInv, NEW r \in Requests, OpenStore(r)
  PROVE  IInv'
  <1>1. pc[r] = "manager" /\ pc[r] \in Places /\ UNCHANGED <<world, ask, entry, options>>
    BY DEF OpenStore, Places
  <1>2. CASE table' = [table EXCEPT ![r] = Present] /\ Proceed(r, "lookup") /\ UNCHANGED fault
    <2>1. pc'[r] = "lookup" /\ "lookup" \in Places
      BY <1>1, <1>2, OnItsWay, ProceedIs DEF Places
    <2>2. /\ table' \in [Requests -> SUBSET Aliases] /\ table'[r] = Present
          /\ \A q \in Requests \ {r} : table'[q] = table[q]
      BY <1>1, <1>2, OnItsWay DEF TypeOK, Present
    <2>3. \A a \in table'[r] : store[a] # "absent"
      BY <2>2 DEF Present
    <2> QED
      BY <1>1, <1>2, <2>1, <2>2, <2>3, OnItsWay, ProceedKeeps DEF Fits, OnTheWay, NothingYet, PickedUp, TypeOK, world,
         options, AfterLookUp, AfterConnect, AfterKey
  <1>3. CASE Break(r) /\ UNCHANGED table
    BY <1>1, <1>3, BreakKeeps
  <1> QED
    BY <1>2, <1>3 DEF OpenStore

\* The entry found has the subject asked; when none is found there is a reason.
LEMMA LookUpKeeps ==
  ASSUME IInv, NEW r \in Requests, LookUp(r)
  PROVE  IInv'
  <1>1. /\ pc[r] = "lookup" /\ pc[r] \in Places /\ UNCHANGED <<world, ask, table, options>>
        /\ Proceed(r, "connect")
    BY DEF LookUp, Places
  <1>2. /\ TypeOK /\ Fits(r) /\ ask[r].auth /\ entry[r] = None /\ r \notin fault
        /\ pc'[r] = "connect" /\ "connect" \in Places
    BY <1>1, OnItsWay, ProceedIs DEF Places, Fits, OnTheWay, NothingYet
  <1>3. \/ \E c \in Matching(r) : entry' = [entry EXCEPT ![r] = c] /\ UNCHANGED fault
        \/ UNCHANGED <<entry, fault>> /\ NothingFoundFor(r)
        \/ UNCHANGED entry /\ Fault(r)
    <2>1. ~(table[r] \subseteq Present \cap Certs) => NothingFoundFor(r)
      <3>1. table[r] \subseteq Aliases /\ \A a \in table[r] : store[a] # "absent"
        BY <1>2 DEF TypeOK, Fits, Explained
      <3>2. \A a \in Aliases : store[a] \in {"absent", "present", "removed"}
        BY <1>2 DEF TypeOK
      <3> QED
        BY <3>1, <3>2 DEF NothingFoundFor, Removed, Present, Aliases
    <2>2. Matching(r) = {} => NothingFoundFor(r)
      BY DEF NothingFoundFor
    <2> QED
      BY <2>1, <2>2 DEF LookUp
  <1>4. /\ entry' \in [Requests -> Certs \cup {None}]
        /\ \A q \in Requests \ {r} : entry'[q] = entry[q]
        /\ UNCHANGED fault \/ (Fault(r) /\ entry'[r] = None)
        /\ \/ entry'[r] \in Matching(r)
           \/ entry'[r] = None /\ (r \in fault' \/ NothingFoundFor(r))
    <2>1. Matching(r) \subseteq Certs
      BY DEF Matching
    <2> QED
      BY <1>2, <1>3, <2>1 DEF TypeOK, Fault
  <1>5. Matching(r)' = Matching(r) /\ (NothingFoundFor(r) => NothingFoundFor(r)')
    BY <1>1 DEF Matching, NothingFoundFor, Removed, world
  <1>6. NothingYet(r)' /\ PickedUp(r)'
    BY <1>1, <1>2, <1>4 DEF NothingYet, PickedUp, Matching, AfterLookUp, AfterConnect, AfterKey
  <1> QED
    BY <1>1, <1>2, <1>4, <1>5, <1>6, ProceedKeeps DEF Fits, Explained, TypeOK, world, options

\* The stream is of a version served since the request was sent.
LEMMA ConnectKeeps ==
  ASSUME IInv, NEW r \in Requests, Connect(r)
  PROVE  IInv'
  <1>1. pc[r] = "connect" /\ pc[r] \in Places /\ UNCHANGED <<world, ask, table, entry, cert, key>>
    BY DEF Connect, Places
  <1>2. CASE /\ stream' = [stream EXCEPT ![r] = Stream(doc[ask[r].url], TRUE)]
             /\ Proceed(r, "certificate") /\ UNCHANGED fault
    <2>1. /\ pc'[r] = "certificate" /\ "certificate" \in Places
          /\ TypeOK /\ Fits(r) /\ ask[r].auth /\ doc[ask[r].url] \in Nat /\ ask[r].since \in Nat
          /\ ask[r].since <= doc[ask[r].url]
      BY <1>1, <1>2, OnItsWay, ProceedIs DEF Places
    <2> DEFINE opened == Stream(doc[ask[r].url], TRUE)
    <2>2. opened \in [version : Nat, whole : BOOLEAN] /\ opened.version = doc[ask[r].url] /\ opened.whole
      BY <2>1 DEF Stream
    <2>3. stream' = [stream EXCEPT ![r] = opened]
      BY <1>2
    <2> HIDE DEF opened
    <2>4. /\ stream' \in [Requests -> [version : Nat, whole : BOOLEAN]] /\ stream'[r] = opened
          /\ \A q \in Requests \ {r} : stream'[q] = stream[q]
      BY <2>1, <2>2, <2>3 DEF TypeOK
    <2>5. NothingYet(r)' /\ PickedUp(r)'
      BY <1>1, <2>1, <2>2, <2>4 DEF Fits, NothingYet, PickedUp, AfterLookUp, AfterConnect, AfterKey, world
    <2>6. \/ entry'[r] \in Matching(r)'
          \/ entry'[r] = None /\ (r \in fault' \/ NothingFoundFor(r)')
      BY <1>1, <1>2, <2>1 DEF Fits, Explained, AfterLookUp, Matching, NothingFoundFor, Removed, world
    <2>7. r \in fault => entry'[r] = None
      BY <1>1, <2>1 DEF Fits, OnTheWay
    <2> QED
      BY <1>1, <1>2, <2>1, <2>2, <2>4, <2>5, <2>6, <2>7, ProceedKeeps DEF Fits, Explained, TypeOK, world
  <1>3. CASE Break(r) /\ UNCHANGED stream
    BY <1>1, <1>3, BreakKeeps DEF options
  <1> QED
    BY <1>2, <1>3 DEF Connect

\* The certificate is the entry found, and it was on the token when read.
LEMMA GetCertificateKeeps ==
  ASSUME IInv, NEW r \in Requests, GetCertificate(r)
  PROVE  IInv'
  <1>1. /\ pc[r] = "certificate" /\ pc[r] \in Places /\ pc[r] \in AfterLookUp
        /\ UNCHANGED <<world, ask, table, entry, stream, key>>
    BY DEF GetCertificate, Places, AfterLookUp
  <1>2. CASE /\ KeyReadable(r) /\ cert' = [cert EXCEPT ![r] = entry[r]]
             /\ Proceed(r, "key") /\ UNCHANGED fault
    <2>1. /\ pc'[r] = "key" /\ "key" \in Places /\ TypeOK /\ Fits(r) /\ ask[r].auth
      BY <1>1, <1>2, OnItsWay, ProceedIs DEF Places
    <2>2. entry[r] # None /\ entry[r] \in Certs /\ entry[r] \in Matching(r) /\ store[entry[r]] = "present"
      <3>1. entry[r] \in Aliases /\ store[entry[r]] = "present"
        BY <1>2 DEF KeyReadable, Present
      <3>2. None \notin Aliases
        BY CertType, BareType DEF Aliases
      <3>3. entry[r] # None
        BY <3>1, <3>2
      <3> QED
        BY <1>1, <3>1, <3>3, EntryHasCause
    <2>3. /\ cert' \in [Requests -> Certs \cup {None}] /\ cert'[r] = entry[r]
          /\ \A q \in Requests \ {r} : cert'[q] = cert[q]
      BY <1>2, <2>1, <2>2 DEF TypeOK
    <2>4. entry[r] \in ask[r].lost => Expired(entry[r])
      BY <1>1, <2>1, <2>2 DEF Fits, AskedOnce, Removed
    <2>5. NothingYet(r)' /\ PickedUp(r)'
      BY <1>1, <2>1, <2>2, <2>3, <2>4 DEF Fits, NothingYet, PickedUp, AfterLookUp, AfterConnect, AfterKey, world, Expired
    <2>6. entry'[r] \in Matching(r)' /\ r \notin fault
      BY <1>1, <2>1, <2>2 DEF Fits, OnTheWay, Matching
    <2> QED
      BY <1>1, <1>2, <2>1, <2>3, <2>5, <2>6, ProceedKeeps DEF Fits, Explained, TypeOK, world, AfterLookUp
  <1>3. CASE ~KeyReadable(r) /\ Throw(r) /\ UNCHANGED <<cert, fault>>
    BY <1>1, <1>3, EntryHasCause, ThrowKeeps DEF KeyReadable, options
  <1>4. CASE Break(r) /\ UNCHANGED cert
    BY <1>1, <1>4, BreakKeeps DEF options
  <1> QED
    BY <1>2, <1>3, <1>4 DEF GetCertificate

\* The key is of the same entry as the certificate.
LEMMA GetPrivateKeyKeeps ==
  ASSUME IInv, NEW r \in Requests, GetPrivateKey(r)
  PROVE  IInv'
  <1>1. /\ pc[r] = "key" /\ pc[r] \in Places /\ pc[r] \in AfterLookUp
        /\ UNCHANGED <<world, ask, table, entry, stream, cert>>
    BY DEF GetPrivateKey, Places, AfterLookUp
  <1>2. CASE /\ KeyReadable(r) /\ key' = [key EXCEPT ![r] = entry[r]]
             /\ Proceed(r, "check") /\ UNCHANGED fault
    <2>1. /\ pc'[r] = "check" /\ "check" \in Places /\ TypeOK /\ Fits(r) /\ ask[r].auth
      BY <1>1, <1>2, OnItsWay, ProceedIs DEF Places
    <2>2. entry[r] # None /\ entry[r] \in Certs /\ entry[r] \in Matching(r)
      BY <1>1, <2>1, EntryHasCause DEF Fits, PickedUp
    <2>3. /\ key' \in [Requests -> Certs \cup {None}] /\ key'[r] = entry[r]
          /\ \A q \in Requests \ {r} : key'[q] = key[q]
      BY <1>2, <2>1, <2>2 DEF TypeOK
    <2>4. NothingYet(r)' /\ PickedUp(r)'
      BY <1>1, <2>1, <2>2, <2>3 DEF Fits, NothingYet, PickedUp, AfterLookUp, AfterConnect, AfterKey, world, Expired
    <2>5. entry'[r] \in Matching(r)' /\ r \notin fault
      BY <1>1, <2>1, <2>2 DEF Fits, OnTheWay, Matching
    <2> QED
      BY <1>1, <1>2, <2>1, <2>3, <2>4, <2>5, ProceedKeeps DEF Fits, Explained, TypeOK, world, AfterLookUp
  <1>3. CASE ~KeyReadable(r) /\ Throw(r) /\ UNCHANGED <<key, fault>>
    BY <1>1, <1>3, EntryHasCause, ThrowKeeps DEF KeyReadable, options
  <1>4. CASE Break(r) /\ UNCHANGED key
    BY <1>1, <1>4, BreakKeeps DEF options
  <1> QED
    BY <1>2, <1>3, <1>4 DEF GetPrivateKey

\* Past the check the certificate is neither one lost at the start nor one not valid yet.
LEMMA CheckOptionsKeeps ==
  ASSUME IInv, NEW r \in Requests, CheckOptions(r)
  PROVE  IInv'
  <1>1. /\ pc[r] = "check" /\ pc[r] \in Places /\ pc[r] \in AfterLookUp
        /\ UNCHANGED <<world, ask, table, entry, options, fault>>
    BY DEF CheckOptions, Places, AfterLookUp
  <1>2. /\ TypeOK /\ Fits(r) /\ ask[r].auth /\ r \notin fault
        /\ entry[r] # None /\ entry[r] \in Certs /\ entry[r] \in Matching(r)
        /\ cert[r] = entry[r] /\ key[r] = entry[r]
    BY <1>1, OnItsWay, EntryHasCause DEF Fits, OnTheWay, PickedUp, AfterKey
  <1>3. CASE Proceed(r, "read") /\ Valid(cert[r])
    <2>1. pc'[r] = "read" /\ "read" \in Places
      BY <1>1, <1>2, <1>3, ProceedIs DEF Places
    <2>2. cert[r] \notin ask[r].lost \cup early
      BY <1>1, <1>2, <1>3 DEF Fits, PickedUp, AfterKey, Valid
    <2>3. NothingYet(r)' /\ PickedUp(r)'
      BY <1>1, <1>2, <2>1, <2>2 DEF Fits, NothingYet, PickedUp, AfterLookUp, AfterConnect, AfterKey, world, options, Expired
    <2>4. entry'[r] \in Matching(r)'
      BY <1>1, <1>2 DEF Matching
    <2> QED
      BY <1>1, <1>2, <1>3, <2>1, <2>3, <2>4, ProceedKeeps DEF Fits, Explained, TypeOK, world, options, AfterLookUp
  <1>4. CASE Throw(r) /\ ~(cert[r] # None /\ Valid(cert[r]) /\ key[r] # None /\ stream[r] # NoStream)
    <2>1. stream[r] # NoStream
      BY <1>1, <1>2 DEF Fits, Explained, NoStream, Stream
    <2>2. ~Valid(entry[r])
      BY <1>2, <1>4, <2>1
    <2> QED
      BY <1>1, <1>2, <1>4, <2>2, EntryHasCause, ThrowKeeps
  <1> QED
    BY <1>3, <1>4 DEF CheckOptions

\* What is read is whole, unless its length is undeclared and the format raw.
LEMMA ReadDataKeeps ==
  ASSUME IInv, NEW r \in Requests, ReadData(r)
  PROVE  IInv'
  <1>1. /\ pc[r] = "read" /\ pc[r] \in Places /\ pc[r] \in AfterLookUp
        /\ UNCHANGED <<world, ask, table, entry, cert, key>>
    BY DEF ReadData, Places, AfterLookUp
  <1>2. /\ TypeOK /\ Fits(r) /\ ask[r].auth /\ r \notin fault
        /\ entry[r] # None /\ entry[r] \in Certs /\ entry[r] \in Matching(r)
    BY <1>1, OnItsWay, EntryHasCause DEF Fits, OnTheWay, PickedUp, AfterKey
  <1>3. CASE Break(r) /\ UNCHANGED stream
    BY <1>1, <1>3, BreakKeeps DEF options
  <1>4. ASSUME Proceed(r, "sign"), UNCHANGED fault,
               stream' \in [Requests -> [version : Nat, whole : BOOLEAN]],
               \A q \in Requests \ {r} : stream'[q] = stream[q],
               stream'[r].version = stream[r].version,
               ~stream'[r].whole => ask[r].url \in Unsized /\ ask[r].format = "raw"
        PROVE  IInv'
    <2>1. pc'[r] = "sign" /\ "sign" \in Places
      BY <1>2, <1>4, ProceedIs DEF Places
    <2>2. NothingYet(r)' /\ PickedUp(r)'
      BY <1>1, <1>2, <1>4, <2>1 DEF Fits, NothingYet, PickedUp, AfterLookUp, AfterConnect, AfterKey, world, Expired
    <2>3. entry'[r] \in Matching(r)'
      BY <1>1, <1>2 DEF Matching
    <2> QED
      BY <1>1, <1>2, <1>4, <2>1, <2>2, <2>3, ProceedKeeps DEF Fits, Explained, TypeOK, world
  <1>5. CASE Proceed(r, "sign") /\ UNCHANGED <<stream, fault>>
    BY <1>1, <1>2, <1>4, <1>5 DEF Fits, PickedUp, AfterConnect, TypeOK
  <1>6. CASE /\ ask[r].url \in Unsized /\ ask[r].format = "raw"
             /\ stream' = [stream EXCEPT ![r] = Stream(@.version, FALSE)]
             /\ Proceed(r, "sign") /\ UNCHANGED fault
    <2> DEFINE cut == Stream(stream[r].version, FALSE)
    <2>1. stream[r].version \in Nat
      BY <1>2 DEF TypeOK
    <2>2. cut \in [version : Nat, whole : BOOLEAN] /\ cut.version = stream[r].version
      BY <2>1 DEF Stream
    <2>3. stream' = [stream EXCEPT ![r] = cut]
      BY <1>6
    <2> HIDE DEF cut
    <2>4. /\ stream' \in [Requests -> [version : Nat, whole : BOOLEAN]] /\ stream'[r] = cut
          /\ \A q \in Requests \ {r} : stream'[q] = stream[q]
      BY <1>2, <2>2, <2>3 DEF TypeOK
    <2> QED
      BY <1>4, <1>6, <2>2, <2>4
  <1> QED
    BY <1>3, <1>5, <1>6 DEF ReadData

\* A signature says what was picked up.
LEMMA SignKeeps ==
  ASSUME IInv, NEW r \in Requests, Sign(r)
  PROVE  IInv'
  <1>1. /\ pc[r] = "sign" /\ pc[r] \in Places /\ pc[r] \in AfterLookUp
        /\ UNCHANGED <<world, ask, table, entry, options>>
    BY DEF Sign, Places, AfterLookUp
  <1>2. /\ TypeOK /\ Fits(r) /\ ask[r].auth /\ r \notin fault
        /\ entry[r] # None /\ entry[r] \in Certs /\ entry[r] \in Matching(r)
        /\ cert[r] = entry[r] /\ key[r] = entry[r]
    BY <1>1, OnItsWay, EntryHasCause DEF Fits, OnTheWay, PickedUp, AfterKey
  <1> DEFINE signed == Signature(ask[r].url, stream[r].version, stream[r].whole, cert[r], key[r])
  <1>3. CASE Answer(r, signed) /\ UNCHANGED fault
    <2>1. /\ ask[r].url \in URLs /\ stream[r].version \in Nat /\ stream[r].whole \in BOOLEAN
      BY <1>1, <1>2, OnItsWay DEF TypeOK
    <2>2. signed \in Signatures /\ signed # Failed
      BY <1>2, <2>1 DEF Signature, Signatures, Failed
    <2>3. /\ signed.url = ask[r].url /\ signed.version = stream[r].version /\ signed.whole = stream[r].whole
          /\ signed.cert = cert[r] /\ signed.key = key[r]
      BY DEF Signature
    <2> HIDE DEF signed
    <2>4. /\ pc' = [pc EXCEPT ![r] = "done"] /\ response' = [response EXCEPT ![r] = signed]
          /\ UNCHANGED <<doc, store, early, expired, ask, table, entry, stream, cert, key, fault>>
      BY <1>1, <1>3 DEF Answer, Goto, world, options
    <2>5. TypeOK'
      BY <1>2, <2>2, <2>4 DEF TypeOK
    <2>6. pc'[r] = "done" /\ response'[r] = signed
      BY <1>2, <2>4 DEF TypeOK
    <2>7. AskedOnce(r)'
      BY <1>1, <1>2, <2>4 DEF Fits, AskedOnce, Expired, Removed
    <2>8. OnTheWay(r)' /\ NothingYet(r)' /\ PickedUp(r)'
      BY <2>6 DEF OnTheWay, NothingYet, PickedUp, AfterFilter, AfterLookUp, AfterConnect, AfterKey, Places
    <2>9. Explained(r)'
      BY <1>2, <2>2, <2>4, <2>6 DEF Fits, Explained, AfterLookUp
    <2>10. SignedRight(r)'
      <3>1. /\ stream[r].version \in ask[r].since .. doc[ask[r].url]
            /\ ~stream[r].whole => ask[r].url \in Unsized /\ ask[r].format = "raw"
            /\ cert[r] \notin ask[r].lost \cup early
        BY <1>1, <1>2 DEF Fits, PickedUp, AfterConnect
      <3> QED
        BY <1>2, <2>3, <2>4, <2>6, <3>1 DEF SignedRight, Matching
    <2>11. \A q \in Requests \ {r} : Same(q)
      BY <1>2, <2>4 DEF Same, TypeOK
    <2> QED
      BY <1>1, <2>5, <2>7, <2>8, <2>9, <2>10, <2>11, OwnStepKeeps DEF Fits
  <1>4. CASE key[r] \notin Present \ OtherKeys /\ Throw(r) /\ UNCHANGED fault
    BY <1>1, <1>2, <1>4, EntryHasCause, ThrowKeeps
  <1>5. CASE Break(r)
    BY <1>1, <1>5, BreakKeeps
  <1> QED
    BY <1>3, <1>4, <1>5 DEF Sign

-----------------------------------------------------------------------------
\* Every step of the service keeps the invariant.
LEMMA NextKeeps == IInv /\ [Next]_vars => IInv'
  <1> SUFFICES ASSUME IInv, [Next]_vars PROVE IInv'
    OBVIOUS
  <1>1. ASSUME \/ \E u \in URLs : Replace(u)
               \/ \E a \in Aliases : ChangeStore(a)
               \/ \E c \in Certs : BecomeValid(c) \/ Expire(c)
        PROVE  IInv'
    BY <1>1, WorldKeeps
  <1>2. ASSUME NEW r \in Requests, NEW auth \in BOOLEAN, NEW f \in Formats, NEW u \in URLs,
               NEW dn \in DNs, Send(r, auth, f, u, dn)
        PROVE  IInv'
    BY <1>2, SendKeeps
  <1>3. ASSUME NEW r \in Requests, Step(r) PROVE IInv'
    BY <1>3, FilterKeeps, LoadConfigurationKeeps, OpenStoreKeeps, LookUpKeeps, ConnectKeeps,
       GetCertificateKeeps, GetPrivateKeyKeeps, CheckOptionsKeeps, ReadDataKeeps, SignKeeps DEF Step
  <1>4. CASE UNCHANGED vars
    <2>1. TypeOK /\ TypeOK'
      BY <1>4 DEF IInv, vars, TypeOK, options
    <2>2. ASSUME NEW q \in Requests PROVE Fits(q)'
      <3>1. Fits(q) /\ Same(q) /\ WorldMovesOn
        BY <1>4, <2>1, StandsStill DEF IInv, vars, Same, options, world
      <3> QED
        BY <2>1, <3>1, StillFits
    <2> QED
      BY <2>1, <2>2 DEF IInv
  <1> QED
    BY <1>1, <1>2, <1>3, <1>4 DEF Next, Finished

\* IInv is an invariant of the service.
THEOREM Inductive == Spec => []IInv
  BY InitInv, NextKeeps, PTL DEF Spec

\* The state of the service always has its type.
THEOREM TypeCorrect == Spec => []TypeOK
  <1>1. IInv => TypeOK
    BY DEF IInv
  <1> QED
    BY <1>1, Inductive, PTL

\* A signature is over the document, by the subject and with the key its request
\* asked for, however requests, replacements, removals and expiry interleave.
THEOREM EachSignatureMatches == Spec => []SignatureMatchesRequest
  <1>1. IInv => SignatureMatchesRequest
    BY DEF IInv, Fits, SignedRight, SignatureMatchesRequest
  <1> QED
    BY <1>1, Inductive, PTL

\* No request without a good token, and none that met a failure, is signed.
THEOREM NothingSignedUnauthorised == Spec => []OnlyAuthorisedIsSigned
  <1>1. IInv => OnlyAuthorisedIsSigned
    BY DEF IInv, Fits, SignedRight, OnlyAuthorisedIsSigned
  <1> QED
    BY <1>1, Inductive, PTL

\* What was lost when a request was sent, or is not valid yet, is not used for it.
THEOREM NothingLostIsUsed == Spec => []LostIsNeverUsed
  <1>1. IInv => LostIsNeverUsed
    BY DEF IInv, Fits, SignedRight, LostIsNeverUsed
  <1> QED
    BY <1>1, Inductive, PTL

\* Only raw signatures of documents of undeclared length can be over a part.
THEOREM DocumentsSignedWhole == Spec => []SignedWhole
  <1>1. IInv => SignedWhole
    BY DEF IInv, Fits, SignedRight, SignedWhole
  <1> QED
    BY <1>1, Inductive, PTL

\* An authorised request fails only because something outside failed, because no entry
\* was found and the aliases read explain why, or because the entry found was removed,
\* gives no key or none of RSA, or was out of its validity.
THEOREM FailuresHaveCauses == Spec => []FailsForACause
  <1>1. IInv => FailsForACause
    BY DEF IInv, Fits, Explained, Cause, FailsForACause
  <1> QED
    BY <1>1, Inductive, PTL

-----------------------------------------------------------------------------
(***************************************************************************)
(* The service implements SigningContract.                                 *)
(***************************************************************************)
CStep == [Contract!Next]_(Contract!cvars)

\* A step between two places of a request is none of the contract's.
LEMMA HiddenStep ==
  ASSUME TypeOK, NEW r \in Requests, pc[r] # "idle", NEW place, place # "idle",
         pc' = [pc EXCEPT ![r] = place],
         UNCHANGED <<doc, store, early, expired, ask, response>>
  PROVE  CStep
  <1>1. UNCHANGED <<RequestOf, LostOf>>
    BY DEF TypeOK, RequestOf, LostOf
  <1> QED
    BY <1>1 DEF CStep, Contract!cvars

\* Whoever is on the way is an open request of the contract.
LEMMA OpenRequest ==
  ASSUME IInv, NEW r \in Requests, pc[r] \in Places
  PROVE  RequestOf[r] = ask[r] /\ ask[r] \in Asked /\ Contract!Open(r)
  <1>1. RequestOf[r] = ask[r] /\ ask[r] \in Asked
    BY OnItsWay DEF RequestOf, Places
  <1>2. response[r].kind = "pending"
    BY OnItsWay DEF Pending
  <1> QED
    BY <1>1, <1>2, NoneIsNoRequest DEF Contract!Open

\* An exception is the contract's Fail.
LEMMA FailingStep ==
  ASSUME IInv, NEW r \in Requests, pc[r] \in Places,
         Throw(r), UNCHANGED <<doc, store, early, expired, ask>>
  PROVE  CStep
  <1>1. pc' = [pc EXCEPT ![r] = "done"] /\ response' = [response EXCEPT ![r] = [kind |-> "failed"]]
    BY DEF Throw, Answer, Goto, Failed
  <1>2. UNCHANGED <<RequestOf, LostOf>>
    BY <1>1 DEF IInv, TypeOK, RequestOf, LostOf, Places
  <1>3. Contract!Fail(r)
    BY <1>1, <1>2, OpenRequest DEF Contract!Fail
  <1> QED
    BY <1>3 DEF CStep, Contract!Next

\* A step from place to place that may fail, when nothing the contract sees moves.
LEMMA StepOnTheWay ==
  ASSUME IInv, NEW r \in Requests, pc[r] \in Places, NEW place \in Places,
         Proceed(r, place) \/ Throw(r),
         UNCHANGED <<doc, store, early, expired, ask>>
  PROVE  CStep
  <1>1. CASE Throw(r)
    BY <1>1, FailingStep
  <1>2. CASE Proceed(r, place)
    <2>1. pc' = [pc EXCEPT ![r] = place] /\ UNCHANGED response
      BY <1>2 DEF Proceed, Goto
    <2>2. pc[r] # "idle" /\ place # "idle" /\ TypeOK
      BY DEF Places, IInv
    <2> QED
      BY <2>1, <2>2, HiddenStep
  <1> QED
    BY <1>1, <1>2

\* Documents, the store and the calendar move as the contract lets them.
LEMMA WorldStep ==
  ASSUME TypeOK, UNCHANGED <<pc, ask, response>>,
         \/ \E u \in URLs : Replace(u)
         \/ \E a \in Aliases : ChangeStore(a)
         \/ \E c \in Certs : BecomeValid(c) \/ Expire(c)
  PROVE  CStep
  <1>1. UNCHANGED RequestOf
    BY DEF RequestOf
  <1>2. \A u \in URLs : doc'[u] >= doc[u]
    BY DEF TypeOK, Replace, ChangeStore, BecomeValid, Expire
  <1>3. LostOf \subseteq LostOf' /\ early' \subseteq early
    BY DEF TypeOK, Replace, ChangeStore, BecomeValid, Expire, LostOf, Aliases
  <1>4. Contract!Change
    BY <1>1, <1>2, <1>3 DEF Contract!Change
  <1> QED
    BY <1>4 DEF CStep, Contract!Next

\* Sending is the contract's Ask.
LEMMA AskingStep ==
  ASSUME TypeOK, NEW r \in Requests, NEW auth \in BOOLEAN, NEW f \in Formats, NEW u \in URLs,
         NEW dn \in DNs, Send(r, auth, f, u, dn)
  PROVE  CStep
  <1>1. RequestOf[r] = None
    BY DEF Send, RequestOf
  <1> DEFINE asked == [auth |-> auth, format |-> f, url |-> u, dn |-> dn, since |-> doc[u],
                       lost |-> LostOf, early |-> early]
  <1>2. LostOf = {c \in Certs : Expired(c) \/ store[c] = "removed"}
    BY DEF TypeOK, LostOf, Expired
  <1>3. ask' = [ask EXCEPT ![r] = asked] /\ pc' = [pc EXCEPT ![r] = "filter"]
    BY <1>2 DEF Send, Goto
  <1>4. RequestOf' = [RequestOf EXCEPT ![r] = asked]
    <2> HIDE DEF asked
    <2> QED
      BY <1>3 DEF TypeOK, RequestOf
  <1>5. UNCHANGED <<doc, LostOf, early, response>>
    BY DEF Send, world, LostOf
  <1>6. Contract!Ask(r)
    <2>1. f \in {"raw", "xades"}
      BY DEF Formats
    <2> QED
      BY <1>1, <1>4, <1>5, <2>1 DEF Contract!Ask
  <1> QED
    BY <1>6 DEF CStep, Contract!Next

\* A signature given is one the contract allows.
LEMMA SigningStep ==
  ASSUME IInv, NEW r \in Requests, Sign(r)
  PROVE  CStep
  <1>1. pc[r] \in Places /\ UNCHANGED <<doc, store, early, expired, ask>>
    BY DEF Sign, Places, world
  <1>2. CASE Throw(r)
    BY <1>1, <1>2, FailingStep
  <1>3. CASE Answer(r, Signature(ask[r].url, stream[r].version, stream[r].whole, cert[r], key[r]))
    <2>1. /\ ask[r].auth
          /\ stream[r].version \in ask[r].since .. doc[ask[r].url]
          /\ ~stream[r].whole => ask[r].url \in Unsized /\ ask[r].format = "raw"
          /\ cert[r] # None
          /\ DN[cert[r]] = ask[r].dn
          /\ key[r] = cert[r]
          /\ cert[r] \notin ask[r].lost \cup early
      BY <1>1, OnItsWay DEF Sign, Fits, PickedUp, AfterLookUp, AfterConnect, AfterKey
    <2>2. cert[r] \in Certs /\ stream[r].whole \in BOOLEAN
      BY <2>1 DEF IInv, TypeOK
    <2>3. RequestOf[r] = ask[r] /\ Contract!Open(r)
      BY <1>1, OpenRequest
    <2>4. UNCHANGED <<RequestOf, LostOf>>
      BY <1>1, <1>3 DEF IInv, TypeOK, RequestOf, LostOf, Answer, Goto, Places
    <2>5. response' = [response EXCEPT ![r] =
              [kind |-> "signed", url |-> RequestOf[r].url, version |-> stream[r].version,
               whole |-> stream[r].whole, cert |-> cert[r], key |-> cert[r]]]
      BY <1>3, <2>1, <2>3 DEF Answer, Signature
    <2>6. Contract!Sign(r)
      BY <1>1, <2>1, <2>2, <2>3, <2>4, <2>5 DEF Contract!Sign
    <2> QED
      BY <2>6 DEF CStep, Contract!Next
  <1> QED
    BY <1>2, <1>3 DEF Sign, Break

\* Every step of the service is a step of the contract or none.
LEMMA StepImplements == IInv /\ [Next]_vars => CStep
  <1> SUFFICES ASSUME IInv, [Next]_vars PROVE CStep
    OBVIOUS
  <1>0. TypeOK
    BY DEF IInv
  <1>1. ASSUME NEW u \in URLs, Replace(u) PROVE CStep
    BY <1>0, <1>1, WorldStep DEF Replace
  <1>2. ASSUME \/ \E a \in Aliases : ChangeStore(a)
               \/ \E c \in Certs : BecomeValid(c) \/ Expire(c)
        PROVE  CStep
    BY <1>0, <1>2, WorldStep DEF ChangeStore, BecomeValid, Expire
  <1>3. ASSUME NEW r \in Requests, NEW auth \in BOOLEAN, NEW f \in Formats, NEW u \in URLs,
               NEW dn \in DNs, Send(r, auth, f, u, dn)
        PROVE  CStep
    BY <1>0, <1>3, AskingStep
  <1>4. ASSUME NEW r \in Requests, Step(r) PROVE CStep
    <2> USE DEF Places, world
    <2>1. CASE Filter(r)
      <3>1. Proceed(r, "config") \/ Throw(r)
        BY <2>1 DEF Filter, Break
      <3>2. pc[r] \in Places /\ UNCHANGED <<doc, store, early, expired, ask>>
        BY <2>1 DEF Filter
      <3> QED
        BY <3>1, <3>2, StepOnTheWay
    <2>2. CASE LoadConfiguration(r)
      <3>1. Proceed(r, "manager") \/ Throw(r)
        BY <2>2 DEF LoadConfiguration, Break
      <3>2. pc[r] \in Places /\ UNCHANGED <<doc, store, early, expired, ask>>
        BY <2>2 DEF LoadConfiguration
      <3> QED
        BY <3>1, <3>2, StepOnTheWay
    <2>3. CASE OpenStore(r)
      <3>1. Proceed(r, "lookup") \/ Throw(r)
        BY <2>3 DEF OpenStore, Break
      <3>2. pc[r] \in Places /\ UNCHANGED <<doc, store, early, expired, ask>>
        BY <2>3 DEF OpenStore
      <3> QED
        BY <3>1, <3>2, StepOnTheWay
    <2>4. CASE LookUp(r)
      <3>1. Proceed(r, "connect") \/ Throw(r)
        BY <2>4 DEF LookUp
      <3>2. pc[r] \in Places /\ UNCHANGED <<doc, store, early, expired, ask>>
        BY <2>4 DEF LookUp
      <3> QED
        BY <3>1, <3>2, StepOnTheWay
    <2>5. CASE Connect(r)
      <3>1. Proceed(r, "certificate") \/ Throw(r)
        BY <2>5 DEF Connect, Break
      <3>2. pc[r] \in Places /\ UNCHANGED <<doc, store, early, expired, ask>>
        BY <2>5 DEF Connect
      <3> QED
        BY <3>1, <3>2, StepOnTheWay
    <2>6. CASE GetCertificate(r)
      <3>1. Proceed(r, "key") \/ Throw(r)
        BY <2>6 DEF GetCertificate, Break
      <3>2. pc[r] \in Places /\ UNCHANGED <<doc, store, early, expired, ask>>
        BY <2>6 DEF GetCertificate
      <3> QED
        BY <3>1, <3>2, StepOnTheWay
    <2>7. CASE GetPrivateKey(r)
      <3>1. Proceed(r, "check") \/ Throw(r)
        BY <2>7 DEF GetPrivateKey, Break
      <3>2. pc[r] \in Places /\ UNCHANGED <<doc, store, early, expired, ask>>
        BY <2>7 DEF GetPrivateKey
      <3> QED
        BY <3>1, <3>2, StepOnTheWay
    <2>8. CASE CheckOptions(r)
      <3>1. Proceed(r, "read") \/ Throw(r)
        BY <2>8 DEF CheckOptions
      <3>2. pc[r] \in Places /\ UNCHANGED <<doc, store, early, expired, ask>>
        BY <2>8 DEF CheckOptions
      <3> QED
        BY <3>1, <3>2, StepOnTheWay
    <2>9. CASE ReadData(r)
      <3>1. Proceed(r, "sign") \/ Throw(r)
        BY <2>9 DEF ReadData, Break
      <3>2. pc[r] \in Places /\ UNCHANGED <<doc, store, early, expired, ask>>
        BY <2>9 DEF ReadData
      <3> QED
        BY <3>1, <3>2, StepOnTheWay
    <2> QED
      BY <1>4, <2>1, <2>2, <2>3, <2>4, <2>5, <2>6, <2>7, <2>8, <2>9, SigningStep DEF Step
  <1>5. CASE UNCHANGED vars
    BY <1>5 DEF vars, CStep, Contract!cvars, RequestOf, LostOf
  <1> QED
    BY <1>1, <1>2, <1>3, <1>4, <1>5 DEF Next, Finished

\* The service keeps SigningContract: each step is one of the contract's or none.
THEOREM ImplementsContract == Spec => KeepsContract
  <1>1. Init => Contract!Init
    <2> SUFFICES ASSUME Init PROVE Contract!Init
      OBVIOUS
    <2>1. RequestOf = [r \in Requests |-> None] /\ LostOf \subseteq Certs /\ early \subseteq Certs
      BY DEF Init, RequestOf, LostOf
    <2>2. doc \in [URLs -> Nat] /\ response = [r \in Requests |-> [kind |-> "pending"]]
      BY DEF Init, Pending
    <2> QED
      BY <2>1, <2>2 DEF Contract!Init
  <1> QED
    BY <1>1, StepImplements, Inductive, PTL DEF Spec, CStep, KeepsContract, Contract!Spec
=============================================================================
