# CryptoApplet: specifications, model checking and proofs

CryptoApplet signs documents in a web page with the certificates of the user's
browser. The repository holds a core library (`cryptoapplet-core`: revocation
checks, time stamps, configuration, utilities), the signature formats
(`cryptoapplet-crypto-raw`, `cryptoapplet-crypto-xades`), the access to
certificate stores (`cryptoapplet-keystore`), a local HTTP service that signs on
request of the page (`cryptoapplet-ui-service`), the tokens that authorise the
page (`cryptoapplet-ui-auth`) and a sample page (`cryptoapplet-ui-webapp`). The
page runs on the copy of jQuery 1.9.1 in the repository
(`cryptoapplet-ui-service/src/main/webapp/js/jquery-1.9.1.js`), by far its
longest source.

The modules here model the parts whose correctness depends on the order of
steps of several actors, check them with TLC, and prove their main properties
with TLAPS. In the text `J` is
`cryptoapplet-core/src/main/java/es/uji/apps/cryptoapplet` and JQ:n is line n of
the copy of jQuery.

## 1. Inventory

| Component | State it keeps | Operations | What is hard | What makes it correct |
|---|---|---|---|---|
| CRL check, `J/crypto/crl/CRLChecker.java` | two **static** `HashMap`s, `crl` and `lastModified`, shared by all threads; a connection and a date per call | `getCertificateStatus(url, cert)`, `getCertificateStatus(cert)`, `getCRL` | concurrent downloads, unguarded reads, two monitors held during network input, failures at every step, a server that changes its CRL meanwhile | a *valid* verdict rests on a CRL published there; the maps are of one answer; a failure leaves both maps as they were; calls end |
| Signing service, `SignResource`, `AuthFilter`, `RemoteContentManager`, formatters | one `SignatureOptions` per request; the streams | GET `sign/raw`, `sign/xades`, the filter | the store, the calendar and the document change between the steps of a request; requests run concurrently; eight ways to fail | a signature fits its request: document, subject, certificate with its own key; nothing unauthorised, nothing lost is used; every request is answered |
| Keystores, `BaseKeyStore`, `PKCS11KeyStore`, `PKCS12KeyStore`, `SunMSCAPIKeyStore` | `provider`, `keyStore`, `password` per object; the **JVM-wide** registry of providers | `load`, `aliases`, `getCertificate`, `getKey` | three fields written by different steps that fail between; a check-then-act on a shared registry | fields of one load; the provider is that of the configuration, or the shared DNIe one |
| KeyStore manager | list of keystores | constructor, `addKeyStore`, `flushKeyStoresTable`, `getCertificates`, `getPrivateKeyEntryByDn` | one store that throws cuts the loop short | what is listed can be signed with |
| PKCS#11 devices (`Firefox`, `DNIe`, `PKCS11Device`) | none | search for libraries and profiles | patterns, missing directories | the first that exists is found |
| OCSP check | none | `getCertificateStatus` | old answers, digests, several statuses | *valid* only for an answer about this certificate, signed by the responder |
| Time stamps | none | `getTimeStampResponse` | nonces | the answer is for this digest |
| Configuration, registries, device detector | the object tree read from `conf.xml` | load, remote load with fallback, lookups by name | references by name, a remote file that breaks | what is looked up exists |
| XAdES formatter, validators | none | `format`, `validate` | several signatures over one document | each signature covers what it should |
| Tokens | none | `generateToken`, `verifyToken` | - | verifies what it generated |
| Certificate list | none | `certificates` | one keystore that throws | what is listed is there |
| Browser page, `cryptoapplet.js`, `cryptoapplet-client.js` | the list and one result field of the DOM | ready, click, JSONP calls and their callbacks | answers out of order, lost answers, names handed on | what is shown was asked for by the click that shows it; every answer that arrives is shown |
| jQuery: callback lists and deferreds | list, indexes of the round, queue of fires, memory; three lists and a state per deferred | `add`, `remove`, `empty`, `disable`, `lock`, `fire`; `Deferred`, `then`, `when` | all of it is called from inside the callbacks it calls | no entry is called twice or passed over; a deferred settles once and tells everybody |
| jQuery: requests | `jQuery.active`, the free callback names, the functions installed in `window`, a container per request | `ajax`, its transports, the JSONP prefilter, `abort` | answers that are late, silent or never come, aborts, exceptions in callbacks | each request is given its own answer; names and the counter are kept right |
| jQuery: data, events, manipulation | `jQuery.cache`, expandos and given-back ids, handlers per element, the browser's listeners | `data`, `on`, `one`, `off`, `trigger`, `append`, `remove`, `detach`, `empty`, `clone` | handlers that remove, unbind and trigger; ids used again; moves and copies | data and handlers stay with their element; a handler is called once per event; a script runs once |
| jQuery: selectors | outcomes cached on elements, told apart by a run number | `Sizzle` | a changed document, nested runs, a matcher that throws | a query finds what its selector means now |
| jQuery: queues and effects | queues and their hooks, timers, timeouts | `queue`, `delay`, `animate`, `stop`, `finish`, the tick | callbacks that stop and start others inside the loop over the timers | a queue that holds something goes on |
| Codecs and utilities | none | conversions | boundaries | inverse of each other |

Interactions. The page (JavaScript) calls the service over JSONP; the filter
verifies the token; `SignResource` makes a `ConfigManager` and a
`KeyStoreManager` for each request, which load keystores over the JVM's provider
registry; the document is read through `RemoteContentManager`; a formatter signs
with the key the keystore hands out. The CRL, OCSP and time stamp clients are
called by whoever validates a signature. In the page, `API` calls
`jQuery.getJSON`; a request, an animation and `$(document).ready` are deferreds,
a deferred is three callback lists, and clicks reach the page's functions through
`jQuery.event`.

The list of what is hard to test, each at its line and with the properties that
cover it, is under "hazards" in `PROJECT.json`.

## 2. Modules

| Module | What it is |
|---|---|
| `CRLChecker` | the CRL check with its caches, monitors and failures |
| `RevocationContract` | what a caller of the check may rely on, without cache, monitor or connection |
| `SignService` | a request to sign, from the filter to the answer, in a changing world |
| `SigningContract` | what a page that sends requests may rely on |
| `KeyStores` | loading keystores of the three classes over the provider registry |
| `KeyStoreManager` | the constructor, the list of stores, the listing and the lookup, over `KeyStores` |
| `CallbackList` | the value of a jQuery callback list and what each method does to it |
| `Callbacks` | one such list in use, its callbacks calling its methods |
| `Deferreds` | `jQuery.Deferred`, `then` and `when` over `CallbackList`, with the stack of the engine |
| `Promises` | what users of a deferred may rely on, without lists or stack |
| `Ajax` | the requests of a page: names, containers, transports, `done()` |
| `WebClient` | the sample page and its service over `Ajax` |
| `Dom` | data, events and manipulation of elements |
| `Selection` | the compiled matchers of Sizzle and what they cache |
| `Effects` | queues, delays, animations, timers |
| `MC...` | instances for TLC: model values, the functions given to constants, symmetry |
| `...Proofs` | the theorems of a module and their proofs |

Operators whose comment begins *Seeded fault* are wrong variants of the
definition that follows them (a dropped guard, a missing release, a swapped
order). No behaviour uses them; putting one in the place of the right definition
must break the property `PROJECT.json` names for it under "mutants", which shows
that the property depends on the code being as it is.

### CRLChecker

A *call* is one invocation; `pc` says at which statement of `getCRL` or
`getCertificateStatus` it is. A CRL is identified by its URL and by its position
in `published[url]`, the CRLs the server has published there; each carries its
Last-Modified date (`stamp`, 0 when the server sends no date, which is also what
`getLastModified` gives for a failed connection) and the certificates it revokes.

| Code (`CRLChecker.java`) | Action |
|---|---|
| 60-111, the extension | `CheckCertificate`, `Locate` |
| 27-35 | `CheckAt` |
| 116-119, headers | `Open`: the answer is that of the server now, or none |
| 121, first and second `get` | `Compare`, `Unbox` (a null unboxed throws) |
| 123 | `GetInputStream`: a failed connection throws here |
| 126, 128 | `EnterCRL`, `EnterLM` |
| 131, `generateCRL(bis)` | `Parse`: waits for the body; a broken one throws with both monitors held, and leaves them |
| 131, 132 | `PutCRL`, `PutLM` (and the monitors are left) |
| 137, 37-48 | `Get`, with the verdict |
| 50-55 | `Throw` |

Data race. Lines 121 and 137 read a `HashMap` no monitor protects there. While a
put that *adds* a key is in progress the table may be rehashed, and a read beside
it may miss an entry: `ReadCRL` and `ReadLM` may answer "no entry" in that case.
A read that misses its key is the outcome modelled; a memory model in which a
reader sees two puts of another thread in the opposite order is not.

### SignService

`pc` walks through `filter`, `config`, `manager`, `lookup`, `connect`,
`certificate`, `key`, `check`, `read`, `sign`: the statements of
`AuthFilter.doFilter`, `SignResource.initCryptoEnvironment` and the formatter.
Beside it the world moves: `Replace` (a new version of a document),
`ChangeStore` (an entry is imported or removed), `BecomeValid` and `Expire` (a
certificate reaches its notBefore or its notAfter date). `ask` keeps the
request's parameters with what held when it was sent (`since`, `lost`, `early`);
`table` is the alias table the PKCS#11 keystore reads when it is loaded; `stream`
says which version the open stream delivers and whether all of it. A failure of
something outside the program (`Break`, or one that `LookUp` logs and turns into a
null) is recorded in `fault`.

An alias of the store may have no certificate (`Bare`): the lookup that meets it
ends with a null pointer, is logged and finds nothing (lines 105-108, 145-150 of
`KeyStoreManager.java`). It may have a certificate and no private key (`Keyless`):
`getKey` throws (125-132). Or its key is not an RSA key (`OtherKeys`): both formats
sign with RSA only.

Distinguished names are compared without regard to case, so `DN` maps each
certificate to a class of names; the order of the aliases is that of a hash
table, so any matching alias may come first; the `serial` parameter is not read
by the service.

### KeyStores

`Load` is `BaseKeyStore.load` (the password is stored first), then for PKCS#11
`CheckProvider`, `BuildProvider`, `AddProvider` or `LookUpProvider`
(`getProvider`), then `GetInstance` and `OpenKeyStore`. `Throw` leaves the fields
as they are at that moment. `device` and `registered` are the providers made and
the registry of `java.security.Security`; `addProvider` does nothing when the
name is taken, and the new provider is used nevertheless. `Access` is what the
read operations answer.

### KeyStoreManager

| Code (`KeyStoreManager.java`) | Action |
|---|---|
| 50-57, 64-68 | `Construct`, `ExplorerLoaded`: Windows first, and that store is not added |
| 34-48 | `InitFirefoxStore`, `FirefoxLoaded` |
| 59-62, 70-73 | `AddKeyStore`, `FlushKeyStoresTable` |
| 81, 101, `aliases()` | `NextStore`: an exception ends the loop over the stores |
| 83-86 | `NextAlias`, `ListAlias` |
| 103-143 | `NextAlias`, `MatchAlias`: no certificate is a null pointer, and the end |

The steps of a load are those of `KeyStores`. A token may be taken out between any
two steps (`TakeOut`); then its store throws. `since` records whether stores or
tokens changed after the last `getCertificates`.

### Callback lists and deferreds

`CallbackList` has no variable: a list is a record with the fields the closure of
`jQuery.Callbacks` has (`firingIndex` is `at - 1`, `stack` with whether it is an
array), and every method is an operator on it. `Callbacks` gives one list to a
page: any method between rounds or inside the callback being called, each
callback ending by returning, returning false or throwing. An entry is one call of
`add`; a fire is its number. What `remove` keeps (`Kept`) is written by the place each
entry goes to, which is what the proofs are about.

In `Deferreds` the engine's stack is `frames`: a round of a list is a frame above
the code that started it, `todo` are the library's calls that code still makes,
and only the top frame runs. `remaining` is the counter of `when`, `arrived` the arguments
that wrote their place of `resolveValues`. The entries of the lists are the library's
own (set the state, disable the other list, lock the progress list, JQ:1219-1224;
count for `when`; follow for `then`) or handlers of the page. `Promises` is the
contract: one outcome, one value, each handler called once at most, with that
value, in order. The mapping reads a deferred's outcome off its lists.

### Ajax and WebClient

A request is JSONP by a script element with a generated name or one the page chose,
JSONP by XMLHttpRequest, or plain JSON. `window` is what each global callback name
stands for, `oldCallbacks` the names free again, `held` the `responseContainer` of
each request, `stack` the requests whose `done()` is calling the page's functions.

| Code (JQ) | Action |
|---|---|
| 7841-7988, 8350-8375 `ajax`, the prefilters | `Send`, `NameFor`; `Cancel` when `beforeSend` returns false |
| 8311-8337 `onload` | `ScriptRuns`: a script that was asked for runs also after an abort |
| 8299-8337, no error handler | `ScriptLost` |
| 8528-8600 the XMLHttpRequest callback | `XhrAnswers` |
| 7823-7832 `abort`, and the timeout | `Abort` |
| 7990-8077, 8395-8421 `done` and the clean-up registered first | `Done`, `CleanUp` |
| 8079-8098 | `Complete`, `Finish`; `Throw` when a function of the page throws |

`WebClient` is `cryptoapplet-client.js`: `Ready`, `Click`, the functions for success
(`CallBack`), over the service as `SigningContract` describes it (`Serve`: any
certificate of the subject asked) and a network that delivers in any order or loses
(`Arrive`, `Lost`).

### Dom, Selection, Effects

What jQuery does in a call runs to its end with the callbacks it causes, so in these
modules a call of the page, an event of the browser or a tick is one step: an
operator from a state to the next, recursive where the code calls back into itself.

* `Dom`: the tree, `jQuery.cache` with expandos and given-back ids, handlers with
  their delegates, the browser's listeners. A page's functions may remove the
  element, unbind, trigger again or return false (`Act`). `Expected` says
  independently which handlers an event should call; `Event` compares.
* `Selection`: a selector is compiled already (a sequence of tokens per group); the
  matchers walk and write their caches (`Walk`, `NthChild`), runs nest
  (`MatchAny`, `Super`), and positions use `setMatcher` (`SetMatch`). `Means` and
  `Answer` say what a selector means without any of this.
* `Effects`: the queue of each element with its hooks and sentinel, the items made
  (animations and delays), `jQuery.timers`, the timeouts. The loops over the
  timers (`StopTimers`, `TickFrom`) go on by index while callbacks change the array,
  as the code's do.

### Contracts

`RevocationContract`: a question gets at most one verdict, which never changes;
*valid* requires a CRL published so far at the location asked that does not list
the certificate; refusing is always allowed. `SigningContract`: at most one answer;
a signature is by a certificate of the subject asked that was not lost when the
request was sent and whose validity has begun, with its own key, over a version of the document served while
the request was open, whole unless the format is raw and the server declares no
length. Each detailed module instantiates its contract with a refinement mapping
and `KeepsContract` (`KeepsPromise` for `Promises`) is the contract's `Spec` under
it.

## 3. Runs

| Run | Instance | Shows |
|---|---|---|
| `CRLRefresh` | 3 calls, 1 URL, 3 CRLs, 1 certificate | `MapsAgree`, `CRLThereWhenReturned`, `ValidRestsOnCRL`, `UndisturbedIsCurrent`, types; `KeepsContract` |
| `CRLStalled` | 3 calls, 2 URLs, servers may fall silent | `RefusalHasReason`: a refusal without error happens only when a put for another URL hides an entry; `CacheHitsNeverWait`; `EveryCallReturns` if servers answer |
| `SignRequests` | 2 requests, 1 document of 2 versions, 2 certificates of 2 subjects, on one day; or 1 raw request, 3 certificates of one subject, of which one has no key and one no RSA key, and an alias without certificate | `SignatureMatchesRequest`; `FailsForACause` |
| `SignTwins` | 1 request, 2 documents (one of undeclared length), 2 versions, 2 certificates of one subject, fair | `LostIsNeverUsed`, `SignedWhole`, `EveryRequestAnswered`, `KeepsContract`, types |
| `StoreLoads` | 2 PKCS#11 stores and a Windows one, 2 loads each, 2 devices; or a PKCS#11 and a PKCS12 store, 3 loads each, 2 passwords or none; or a manager of 3 places over the Firefox, a PKCS12 and a Windows store, 3 certificates of 2 subjects and a key alone | `ServesItsDeviceOrDNIe`, `RegisteredIsShared`, `LoadedIsCoherent`, types of all; `ListIsComplete`, `ListedCanBeFound` of the manager |
| `WrongToken` | 2 PKCS#11 stores | a **violation**: `ServesItsDevice` |
| `NotLoaded` | 2 PKCS#11 stores | a **violation**: `UnloadedIsIllegalState` |
| `Promises` | a list with any of the 16 combinations of options, 2 functions, 3 calls of `add`, 2 fires; or 3 deferreds, 1 handler, 2 calls that settle or notify | `CalledOnce`, `NoneSkipped`, `NothingLeftQueued`, `MemoryIsHeard` of the list; `EveryoneHears`, `SettlesForItsCause`, `KeepsPromise` of the deferreds |
| `Requests` | 3 requests of 4 kinds, aborts, exceptions; or the sample page with its list and 2 clicks, 3 certificates of 2 subjects, 2 documents | `NamesOwned`, `OwnAnswer`, `ActiveCounts` of both; `ShownWasAsked`, `EveryAnswerIsShown` of the page |
| `Document` | 6 small pages; 17 selectors over 3 trees of 5 nodes and one of 6, 2 queries with a move between; 3 animations or delays of 2 elements | `CacheIsOwned`, `ListenersMatch`, `CalledOncePerEvent`, `ScriptsRunOnce`; `SelectsWhatIsMeant`; `QueueMoves` |
| `NestedHas` | 1 selector over a tree of 6 elements | a **violation**: `NothingMeantIsMissed` |
| `StopToEnd` | 1 element, 3 animations or delays | a **violation**: `QueueMoves` |

Bounds. `MaxVersions` bounds how often a server publishes and a document changes,
`MaxLoads` how often a store is loaded. Three calls on one URL are enough for one
to have filled the cache, and two to race over its replacement; three versions let
a download be older than the cache and the cache older than the server. Two URLs
with one version each are enough for a put beside a read of another key and for a
server that blocks the others. Three loads of a store are a success, a failure
after it and a repair. The proofs below have none of these bounds. Symmetry of
calls, requests and functions is used in runs without liveness only.

* `SignRequests`. A behaviour is of one of two parts. With two requests the calendar
  stands still: what expiry does to a request does not depend on another one, and is
  in the other part and in `SignTwins`. With one request the store's four aliases and
  the calendar are in every state, except that only one certificate may begin to be
  valid: its twins, without a key or without an RSA key, have begun. It is a raw
  request for their subject: the format bears on how a document is read only, and a
  subject nobody has is a store without them.
* `StoreLoads`. A behaviour is of one of three parts: three threads load their stores,
  or stores are loaded again and again, both without the manager; or a manager whose
  stores are loaded once each, by its user
  with one password and without a configuration. The tables have two
  subjects in one store, one subject in two stores, a key alone before and after a
  certificate, and none at all.
* `Promises`. Three entries let a removal before, at and after the place of the
  round happen with one still to come; two fires are one in a round and one queued. Three
  deferreds are a `then` or `when` over two others; functions are given to
  `then` for failure only, so that one chain has both a function and none. One
  handler may be registered for success, failure or both, before or after the
  deferred is settled; what several handlers of a deferred do to each other is
  proved (`DeferredsProofs`). The list and the deferreds share nothing, and a
  behaviour is of one of them.
* `Requests`. Three requests are an aborted one, the one that takes its name over,
  and one more that is given the name after it. They are alike, and made in
  the order r1, r2, r3. The page makes a list and two clicks.
* `Document`. A behaviour is of one of `Parts`. The pages have two boxes, one in
  the other at first, one or two elements for clones to be, and two handlers at most; a page
  uses one group of operations beside those all have, and appends nothing into
  clones. The selectors have each combinator, nested `:has` and `:not`,
  positions, a matcher that throws, and are queried from the document and from an element.
  One tree has an element in another of the same class, two candidates below both and
  something different for a nested query to find in each: nested `:has` and `:not`
  left of a combinator, with a cache that is read again for the second candidate.
  It is queried as a whole, and is the only one for three of the selectors; the other
  trees are queried as a whole or below an element.
  Of three animations the first is of `e1`, as the elements are alike; the third
  starts none; a delay and an animation without properties call nothing.

Deadlock is checked in every run but those of `MCDocument`, whose
page may have nothing left to do; `Finished`, `LoadsFinished`, `OneFinished`, `Over` and
`Rest` let a finite instance in which everything has returned stutter.

Fairness. A Java thread keeps running, so `OwnStep` of each call is weakly fair;
a monitor wanted by several threads is given back after finitely many steps, and
a call asks for each once. The checker sets a connect timeout and no read
timeout: `StalledSpec` assumes nothing of the servers, and `EveryCallReturns`
has the assumption that a server which began to answer goes on, `ServersAnswer`,
in front of it. `RemoteContentManager` sets both timeouts (10 s): they bound the
connection and each single read, and a document is taken to be of finite size, so the
loop over the reads ends. The other steps of a request are computations, so `Step` is
weakly fair in `SignService`.
In `WebClient` the engine runs the page's functions to their end
(`CallBack`, `EndCall`), and what was sent arrives or is lost
(`Arrive`, `Lost`): a browser ends a connection some day. The service is not fair:
it may never answer, and then the request is lost. Nothing is assumed of servers,
users or authorities: they may never act.

## 4. What the runs show of the code

Four properties taken from the repository's own words fail.

* `ServesItsDevice`. `PKCS11KeyStore.providerAlreadyLoaded` looks for the name
  `SunPKCS11-DNIe` whatever configuration it was given. Once a DNIe was loaded in
  the JVM, a keystore loaded with the Firefox configuration is the DNIe's, against
  the log of `KeyStoreManager.java:36` and `FirefoxPKCS11KeyStoreTest.java:36-47`
  (which passes or fails with the order of the tests).
* `UnloadedIsIllegalState`. `load` assigns `keyStore` before opening it. After a
  load that failed, the check of `BaseKeyStore.java:72` passes and the platform
  throws `KeyStoreException`, not the `IllegalStateException` with "You must load
  the keystore before using it" that the tests expect of a store not loaded.
* `QueueMoves`, in `StopToEnd`. `stop(false, true)` on an element with a delay in its
  queue and an animation made with `queue: false` cancels the delay's timeout
  (JQ:9158-9168) and, as it ended an animation, leaves the dequeue to it
  (JQ:9178-9184); that animation is not of the queue, so the queue stays in
  progress for ever, against "start the next in the queue if the last step wasn't
  forced" of JQ:9178. In the run `Document` the page avoids this call (`Careful`).
* `NothingMeantIsMissed`, in `NestedHas`. A query nested in `:has` sets `cachedruns` to
  the count of its own matcher (JQ:5341, 5357), and the end of `superMatcher`
  (JQ:5409-5412) sets back `dirruns` and `outermostContext` only, under the comment
  "Override manipulation of globals by nested matchers" (JQ:5408). A descendant or
  sibling combinator to the right then keeps that number as its failure (JQ:5130). If it
  is the number of the next candidate, that one's walk ends there as failed (JQ:5125):
  of `.a:has(.b:nth-child(1)) .c` the second `.c` of an inner `.a` that fails is missed,
  though an outer `.a` matches. `SelectsWhatIsMeant` therefore asks of a selector with a
  nested query left of such a combinator (`MayLose`) only that nothing is found that
  was not meant, and not even that where a `:not` or a position turns a loss into a find
  (`MayInvent`; no selector of the run `Document` is of that kind); of all others it asks
  for equality.

Behaviours that are allowed by the properties and worth knowing:

* the slower of two concurrent downloads overwrites a newer CRL with an older one
  and its date; the next call whose server says another date repairs it, so
  `UndisturbedIsCurrent` holds only for calls nobody ran beside;
* two CRLs published within one second have the same date, and the older stays in
  the cache; a server that sends no date is asked for its CRL once and never again;
  an undated server that cannot be reached is answered from the cache;
* while one server is silent in the middle of a body, no other call can store a
  CRL, of any URL;
* of two certificates of one subject the first met is taken: an expired one beside
  its renewal, one not valid yet, or one without a usable key, and the request fails
  although the other would have served (`FailsForACause` names these cases);
* an alias without a certificate fails every request whose certificate is met after
  it, and `FailsForACause` lists it among the causes whatever the order was;
* of a document whose server does not declare its length, and whose connection
  ends early without an error, the raw format signs the part received;
* the constructor of `KeyStoreManager` always throws on Windows: it loads a
  Windows-MY store whose field `provider` nothing assigns;
* an entry without a certificate is a null in the list of certificates and ends
  the lookup, which then finds nothing behind it (the other branch of
  `ListedCanBeFound`); a store that throws ends both;
* the service does not read the serial number the page sends: a certificate other
  than the one chosen, of the same subject, may sign;
* a JSONP request whose script cannot be loaded never tells the page anything
  (the other disjunct of `EveryAnswerIsShown`);
* the late script of an aborted JSONP request may be given to the request that took
  its name over (the other disjunct of `OwnAnswer`), and `jQuery.active` counts for
  ever a request whose callback threw;
* `Callbacks.empty` called inside a round keeps the round's indexes, so that entries
  added after it are passed over, and on a disabled list gives it entries again,
  which its comment (JQ:1114) does not say; no page here calls it there
  (`EmptyInside`);
* a function bound with `one` may run twice when another handler of the same event
  triggers that event again: the handlers to call were collected before;
* removing an element with delegated focus handlers keeps one count of
  `attaches`, so the document's focus listener stays: `ListenersMatch` asks only
  that the count is not too small;
* `clearQueue` during an animation starts the next one beside it.

## 5. What is proved

| Module | Invariant | Theorems |
|---|---|---|
| `CRLCheckerProofs` | `IInv` | `TypeCorrect`, `MapsAlwaysAgree`, `CachedCRLIsThere`, `ValidIsSound`, `RefusalIsExplained`, `UndisturbedVerdictIsCurrent`, `WritesAreInside`, `ImplementsContract` |
| `SignServiceProofs` | `IInv` | `TypeCorrect`, `EachSignatureMatches`, `NothingSignedUnauthorised`, `NothingLostIsUsed`, `DocumentsSignedWhole`, `FailuresHaveCauses`, `ImplementsContract` |
| `KeyStoreManagerProofs`, of `KeyStores` | `IInv` | `TypeCorrect`, `LoadedStoresAreCoherent`, `DeviceOrDNIe`, `OneDNIeProvider`, `RegistryOnlyGrows` |
| `KeyStoreManagerProofs`, of the manager | `ManagerInv`, `FindInv` | `UsesKeyStores`, `ListsWhatItCan`, `LookupFindsWhatWasListed`, `ManagersStoresAreCoherent` |
| `AjaxProofs` | `IInv` | `NamesAlwaysOwned`, `AnswersAreOwn`, `ActiveIsRight` |
| `WebClientProofs` | `PageInv` | `TheClickIsAnswered`, `PageAnswersAreOwn` |
| `CallbacksProofs` | `IInv`, `RoundInv`, `PlaceInv` | `NoFireIsLost`, `NoEntryCalledTwice`, `NoEntrySkipped`, `LateEntriesHear` |
| `DeferredsProofs` | `DInv`, `Unstuck` | `DeferredsStep`, `DeferredsInvariant`, `DeferredsKeepTheirPromise`, `AllHandlersHear` |
| `DeferredsCausesProofs` | `CausesInv`, with the two above | `CausesInvariant`, `PromisesSettleForTheirCause` |

They hold for every set of calls, requests, stores, URLs, certificates, names and
for every bound, from the named `ASSUME`s of the modules only: that null values
differ from the others, that the functions given as constants have their types,
that a bound is positive, that the requests of a page are finitely many.
`NoEntrySkipped` and `LateEntriesHear` have one hypothesis more, `~EmptyInside`:
with callbacks that call `empty` they are false (section 4).

*CRLChecker.* `MapsAgree` is not inductive: a state in which no call is inside the
monitor may still have a call that believes to be. `IInv` adds that a call owns a
monitor exactly between entering and leaving (`OwnersRight`), that the answer of a
call keeps its date (`AnswerDated`), that the maps disagree about a URL only while
some call is between its two puts (`AgreeUnlessHalfWritten`, `HalfWritten`), and,
for the freshness property, that two running calls on one URL are recorded as
overlapping and that an undisturbed call finds what it compared
(`OverlapsRecorded`, `UndisturbedHit`).

*SignService.* `IInv` says of each request that it `Fits`, by the place where it is:
the parameters do not change and what was lost stays lost (`AskedOnce`), only
authorised requests pass the filter (`OnTheWay`), entry, certificate and key are
the same certificate, of the subject asked, and past the check neither one lost at
the start nor one not valid yet (`PickedUp`). Expiry and removal are for ever, as is the
beginning of validity, which is what makes a check at one moment good for a later one.
For `FailsForACause`, `Explained` says that the aliases read were in the store,
that the entry is one of the subject asked or is missing for a reason, and that a
request that failed has its `Cause`; causes last (`CausesLast`). No step of a request
touches another (`Same`), so what is left to show is that a request that stands still goes on
fitting while the world moves (`StillFits`), and for each step that its own request
fits after it: it threw for a cause (`ThrowKeeps`), something broke (`BreakKeeps`), or it
went on (`ProceedKeeps`).

*KeyStores.* `IInv` says that a registered name stands for a provider of its device
(`RegistryRight`), that the DNIe provider a load found when it began is still there
(`EarlyStays`), and what suits each place of a load (`OnTheWay`, `AtRest`).

*KeyStoreManager.* `UsesKeyStores` says that the manager is a user of `KeyStores`
like any other, so the theorems about keystores hold of its own
(`ManagersStoresAreCoherent`). For `ListIsComplete`, `ManagerInv` adds that no store
is being loaded once the list is current (`Quiet`), and that the loop has listed
the stores before the one it is at and that one's entries before the one it is at
(`Passed`); a store that fails goes on failing until stores change.

*Ajax.* `NamesOwned` is not inductive: it says nothing of the names of requests
that are over, and the counter and the containers depend on both. `IInv` adds
where a request is in its life (`Lives`), that `done()` runs for a request once at a
time (`StackRight`), that a generated name is free or installed for the open
request that has it (`OldOnes`, `Installed`, `AllPlaced`, `Standing`) and that
there are no more names than requests (`FewNames`), that only the page's own name
is ever installed over another function (`FixedRight`), and that a container has
the request's own answer or that of an aborted script of the same name
(`HeldRight`, `GotRight`).

*WebClient.* `PageSpec` steps are steps of `Ajax` with scripts that nobody aborts
(`OnlyScripts`), so `PageInv` contains the `IInv` of `AjaxProofs`, and `OwnAnswer`
leaves each request its own answer. `PageInv` adds that what was served fits what that
request asked (`ServedRight`) and that the result field belongs to the request
named in it (`ShownRight`). Names of requests, and the page's answers, are those of
`Ajax` (`PageAnswersAreOwn`).

*KeyStoreManager, the lookup.* `ListedCanBeFound` compares two runs of a loop: what
`getCertificates` listed, and where `getPrivateKeyEntryByDn` stops. The invariant
(`FindInv`) keeps both as places in one numbering: a function `off` says how many
listed entries come before those of each keystore (`Placed`), the list is the
entries up to a place (`Listing`), and a lookup has passed none of what it looks for
(`Unmatched`, `LookingUp`); while nothing changes both loops stop at the same keystore
(`InPlace`).

*Callbacks.* `IInv` says that the last fire accepted is the last in the queue, or was
made (`UpToDate`), that only a list that may queue does, and only inside a
round (`Queues`), and that what is remembered was fired last (`Remembers`), which
`add` relies on when it starts a round of its own. `RoundInv` adds that the entries of
a list have different numbers, and that nothing from the place of the round on
(`Ahead`) was called in it (`NotYet`). Both hold also for callbacks that call `empty` or
throw. `PlaceInv` holds where no callback calls `empty`: the place of a round is in the list
(`InList`), what the round owes was called or is ahead (`Owing`), and what is behind
has heard what the list remembers (`Heard`). `remove` is the step that could break
all of it: `Rank` numbers the entries that stay, `RankGrows` and `RankIsPlace` say that
it is where they go, and `KeptMoves` that an entry is behind the place of the round
afterwards exactly if it was before.

*Deferreds.* What `Promises` says of a deferred speaks of neither lists nor stack,
and depends on both. `DInv` has five parts:

* `Structure`: each frame above the page's is the round of a list of its own, and all
  but the top one are inside an entry (`FramesOK`); a list in a round is neither
  disabled nor forgetful, and one that settles is fired once (`ListsOK`); when one
  of `done` and `fail` was fired the other was not, and is disabled, or the round
  that runs has it to disable before any handler is called (`OneSide`, `Fresh`);
* `HandlersPlaced`: handlers are in the lists they were registered for, in order;
* `ToldRight`: only handlers of a settled deferred were told, and none that is
  ahead of the place of its list's round (`Ahead`);
* `OnTheWay`: a method was called and its `add` was not made yet, or only the first of
  the two that `always` makes: that handler is the last one registered, or the
  list it goes to is disabled;
* `NoneForgotten`: a handler registered for a list that will still be called was
  told, is ahead, or is on its way. A round a function threw out of ends its list:
  `Open` leaves such lists out.

`DeferredsStep` shows that a step keeps `DInv` and that what it does to the
settlements and the handlers is one of four things (`Moves`): nothing, a settlement, a
registration, a handler called. `MovesKeep` then maps those to the steps of
`Promises`. For `AllHandlersHear` one more invariant is needed, `Unstuck`: unless
something threw, a list in a round has a frame, so at rest no list is in one,
and `NoneForgotten` leaves only that the handler was told. Functions of the page may
throw anywhere: `DeferredsKeepTheirPromise` holds all the same, and
`EveryoneHears` is about behaviours in which none did.

*Deferreds, what then and when wire.* `SettlesForItsCause` relates each promise to the
deferreds it depends on, through lists, calls on their way and functions of the
page. `CausesInv` says of every state, also in the middle of nested rounds:

* nothing comes of nothing (`Justice`): an entry is only in a list of the deferred its
  promise waits for (`Owns`, `EntriesRight`), a call that will settle a promise has its
  cause already (`CallsRight`, `Justified`), so what is settled has one
  (`CausesRight`, `Cause`); and the state says what was fired, from the first entry
  of the round on (`StateRight`, `Opening`);
* each argument of `when` is counted once (`Tokens`): its entry is on its way once
  (`SentOnce`), in its list once (`ListedOnce`), the call that counts is made by that
  entry (`CountsRight`), after which it is behind the place of its round
  (`ArrivedOnce`); so `remaining` counts the arguments not resolved (`CountRight`);
* while nothing threw, nothing is lost (`NothingLost`): an entry wired to a deferred
  (`Wires`) is on its way to the list, in it at or after the place where its round
  goes on (`Comes`, `Position`), in a list disabled because the other one was
  fired, or has done what it is there for (`Handed`); and the value a function
  returned, or the last count, has settled the promise or is about to.

The steps are of three kinds, and each kind is treated once: the page or an entry asks for
calls (`Asking`, `AskingIs`), a round passes an entry or ends (`Passes`, `PassingIs`),
and the next call is made (`Serves`, `DoKeeps`). At rest no call is owed and, by
`Unstuck`, no list is in a round: a list that was fired is empty, so what was wired to it
was handed on (`CalmAtRest`), which gives the causes of a `then` (`ThenSettles`)
and of a `when` (`WhenSettles`). The step from `CausesInv` to the property does not
depend on how long the chains of `then` and `when` are.

*Refinements.* `ImplementsContract` and `DeferredsKeepTheirPromise` show that the
initial states map to initial states of the contract and that, under the
invariant, every step maps to one of its steps or to a stutter.

Only model-checked: liveness (`EveryCallReturns`, `CacheHitsNeverWait`,
`EveryRequestAnswered`, `EveryAnswerIsShown`), which rests on fairness and is beyond
the prover; and the properties of `Dom`, `Selection` and `Effects` (`CacheIsOwned`,
`ListenersMatch`, `CalledOncePerEvent`, `ScriptsRunOnce`, `SelectsWhatIsMeant`,
`QueueMoves`), whose operators are recursive: a step there is a computation of any
length, and what it does to a state would have to be shown by induction over it.

## 6. Not modelled, and why

The cryptography (RSA, XML signature, ASN.1), JAXB and the HTTP container are the
platform's. The two `Base64` files are third-party and the page calls neither.
`HttpSignatureService` is commented out and `PasswordManagementWindow` is called by
nothing. Visibility of unguarded writes beyond missed entries is left out, as said
above. A DNIe removed from the reader shows in `KeyStores` as a failure of
`GetInstance` or `OpenKeyStore`, not as a state of its own.

Of jQuery, what keeps no state of its own: attributes, styles, geometry, parsing of
HTML and of selectors, utilities, feature tests (the browser is taken to be a modern
one: it deletes expandos, clones neither them nor listeners, and its focusin does not
bubble). Within the parts modelled:

* `Ajax`: headers, the dates of `ifModified`, data and its serialisation; the answers
  204 and 304, which count as success without data being converted (JQ:8039-8047) and
  which the service never gives; `abort`
  called in an `ajaxSend` handler, after which `done()` runs twice and `jQuery.active`
  is decremented twice (JQ:7977), which no page here does;
* `Deferreds`: a function given to `then` that returns a promise that waits for the new
  one, which never settles (`Waiting`);
* `Dom`: namespaces, the special events of old browsers, HTML given as text,
  insertion elsewhere than at the end; private data such as queues, which
  `clone(true)` shares between the copies; scripts among the copies made for
  several targets, which are never evaluated;
* `Selection`: attributes and pseudo-classes that only read a property, XML
  documents, the path by `querySelectorAll`; a position right after a descendant
  combinator (`div :first`), which counts other elements than it says because the
  blank is trimmed at JQ:5307; `:not` with a position;
* `Effects`: what is animated; other queues, `promise()`, progress callbacks;
  animations outside the queue that last no time; the removal of an element
  being animated; in a complete function, a stop of an element still
  `:animated`, which can make the loop that called it take another element's timer
  for its own (`Careful`).

## 7. Plan

What remains, in the order of its worth:

1. `CoSign`: successive XAdES signatures (enveloped, detached, cosign), their ids
   and what each covers; the validators. Proof: ids are unique.
2. `OCSPChecker` and `TimeStampFactory`: request, answer, and the decision tables
   over the answer; old and repeated answers.
3. `Configuration`: remote loading with its fallback; references by name.
4. `PKCS11Discovery`, `Codecs`: pure functions against reference definitions over
   bounded inputs (pattern of library directories, hexadecimal, ISO 8601 dates).
5. A composition of the signing service with the keystores over the shared
   registry, and its proof.
