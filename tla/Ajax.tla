--------------------------------- MODULE Ajax ---------------------------------
(***************************************************************************)
(* The requests of a page: jQuery.ajax with its script and XMLHttpRequest    *)
(* transports, and the JSONP prefilter that installs a global function for   *)
(* the answer and hands its name to a later request.                         *)
(*                                                                          *)
(* A request is of one of four kinds:                                        *)
(*   script   JSONP from another origin, by a script element, generated name *)
(*   fixed    the same with a name the page chose (jsonpCallback)            *)
(*   local    JSONP from the page's origin: text, evaluated, generated name  *)
(*   plain    JSON from the page's origin                                    *)
(* An answer is known by the request it answers.  A script that was          *)
(* requested runs when it arrives, also if its element was removed by abort. *)
(*                                                                          *)
(* done() calls the page's functions, which may start and abort requests:    *)
(* `stack' holds the requests whose done() is running, the top one in a      *)
(* function of the page.                                                     *)
(***************************************************************************)
EXTENDS Naturals, Sequences, SequencesExt, FiniteSets

CONSTANTS
    Requests,       \* calls of jQuery.ajax
    None,           \* no request
    Kinds,          \* of the requests the page makes
    Aborting,       \* whether the page aborts requests, itself or by a timeout
    Failing         \* whether the page's functions may throw

ASSUME RequestsType == IsFiniteSet(Requests) /\ None \notin Requests
ASSUME KindsType    == Kinds \subseteq {"script", "fixed", "local", "plain"}

VARIABLES
    kind,           \* of each request, "none" before it is made
    phase,          \* open; in done(): settled, complete; finished; threw
    name,           \* s.jsonpCallback, 0 = none
    held,           \* responseContainer: whose answer it has, None = undefined
    overwritten,    \* what the name stood for when the request installed its function
    window,         \* the global functions: the request that installed each
    oldCallbacks,   \* the names that are free again
    named,          \* names generated so far (ajax_nonce)
    active,         \* jQuery.active
    net,            \* no, sent, gone: what the network has of the request
    stack,
    outcome,        \* as the page was told: success, error, aborted
    got             \* the answer success was called with

requestVars == <<kind, phase, name, held, overwritten, window, oldCallbacks, named, active, net, stack, outcome, got>>

Fixed    == Cardinality(Requests) + 1           \* the name the page chose
Names    == 1..Fixed
Jsonp    == {"script", "fixed", "local"}
Scripted == {"script", "fixed"}
Global(k) == k \in {"local", "plain"}         \* the prefilter for script: global = false

RequestsInit ==
    /\ kind = [r \in Requests |-> "none"]
    /\ phase = [r \in Requests |-> "idle"]
    /\ name = [r \in Requests |-> 0]
    /\ held = [r \in Requests |-> None]
    /\ overwritten = [r \in Requests |-> None]
    /\ window = [n \in Names |-> None]
    /\ oldCallbacks = <<>>
    /\ named = 0
    /\ active = 0
    /\ net = [r \in Requests |-> "no"]
    /\ stack = <<>>
    /\ outcome = [r \in Requests |-> "none"]
    /\ got = [r \in Requests |-> None]

\* Seeded fault: every request is given the same name.
NameForShared(k) ==
    CASE k = "fixed" -> Fixed
      [] k \in {"script", "local"} -> 1
      [] OTHER -> 0

\* The name for a new JSONP request: one that is free again, or a new one.
NameFor(k) ==
    CASE k = "fixed" -> Fixed
      [] k \in {"script", "local"} /\ oldCallbacks # <<>> -> Last(oldCallbacks)
      [] k \in {"script", "local"} /\ oldCallbacks = <<>> -> named + 1
      [] OTHER -> 0

\* ajax(): the prefilters, the counter, the transport.
Send(r, k) ==
    LET n == NameFor(k)
    IN  /\ kind[r] = "none"
        /\ kind' = [kind EXCEPT ![r] = k]
        /\ phase' = [phase EXCEPT ![r] = "open"]
        /\ name' = [name EXCEPT ![r] = n]
        /\ oldCallbacks' = IF n \in Names \ {Fixed} /\ oldCallbacks # <<>> THEN Front(oldCallbacks) ELSE oldCallbacks
        /\ named' = IF n = named + 1 /\ k # "fixed" THEN named + 1 ELSE named
        /\ IF k \in Jsonp
           THEN /\ overwritten' = [overwritten EXCEPT ![r] = window[n]]
                /\ window' = [window EXCEPT ![n] = r]
           ELSE UNCHANGED <<overwritten, window>>
        /\ active' = IF Global(k) THEN active + 1 ELSE active
        /\ net' = [net EXCEPT ![r] = "sent"]
        /\ UNCHANGED <<held, stack, outcome, got>>

\* beforeSend returns false: the request is over before it is sent, and before the
\* page's functions for success and error are registered.
Cancel(r, k) ==
    LET n == NameFor(k)
    IN  /\ Aborting
        /\ kind[r] = "none"
        /\ kind' = [kind EXCEPT ![r] = k]
        /\ phase' = [phase EXCEPT ![r] = "settled"]
        /\ stack' = Append(stack, r)
        /\ name' = [name EXCEPT ![r] = n]
        /\ oldCallbacks' = IF n = named + 1 /\ k # "fixed" THEN Append(oldCallbacks, n) ELSE oldCallbacks
        /\ named' = IF n = named + 1 /\ k # "fixed" THEN n ELSE named
        /\ active' = IF Global(k) THEN active + 1 ELSE active
        /\ net' = [net EXCEPT ![r] = "gone"]
        /\ outcome' = [outcome EXCEPT ![r] = "aborted"]
        /\ UNCHANGED <<held, overwritten, window, got>>

\* Seeded fault: the function stays installed when its request is done.
CleanUpUnrestored(r, now) ==
    /\ oldCallbacks' = IF kind[r] \in {"script", "local"} THEN Append(oldCallbacks, name[r]) ELSE oldCallbacks
    /\ held' = now
    /\ UNCHANGED <<window, overwritten>>

\* The clean-up of JSONP, registered before any function of the page: the name stands
\* again for what it did, and is free; the function overwritten is called with the
\* answer.  `now' are the containers by then.
CleanUp(r, now) ==
    IF kind[r] \in Jsonp
    THEN /\ window' = [window EXCEPT ![name[r]] = overwritten[r]]
         /\ oldCallbacks' = IF kind[r] = "fixed" THEN oldCallbacks ELSE Append(oldCallbacks, name[r])
         /\ held' = [q \in Requests |->
                         IF q = r THEN None
                         ELSE IF q = overwritten[r] /\ now[r] # None THEN now[r]
                         ELSE now[q]]
         /\ overwritten' = [overwritten EXCEPT ![r] = None]
    ELSE held' = now /\ UNCHANGED <<window, oldCallbacks, overwritten>>

\* done() up to the first function of the page.
Done(r, told, answer, now) ==
    /\ phase' = [phase EXCEPT ![r] = "settled"]
    /\ stack' = Append(stack, r)
    /\ outcome' = [outcome EXCEPT ![r] = told]
    /\ got' = [got EXCEPT ![r] = IF told = "success" THEN answer ELSE None]
    /\ CleanUp(r, now)
    /\ UNCHANGED <<kind, name, named, active>>

\* The containers once the answer of r called the function its name stands for.
Called(r) ==
    LET q == window[name[r]] IN IF q = None THEN held ELSE [held EXCEPT ![q] = r]

\* The converter of JSONP finds an answer in the container, or was not called.
Told(good) == IF good THEN "success" ELSE "error"

\* A script arrives and runs; it calls the function it was told, or (an error of
\* the server, an exception) does not.  Its load event calls done() unless abort
\* took the handler away.
ScriptRuns(r, calls) ==
    LET now == IF calls THEN Called(r) ELSE held
    IN  /\ stack = <<>>
        /\ kind[r] \in Scripted
        /\ net[r] = "sent"
        /\ net' = [net EXCEPT ![r] = "gone"]
        /\ IF phase[r] = "open"
           THEN Done(r, Told(now[r] # None), now[r], now)
           ELSE /\ held' = now
                /\ UNCHANGED <<kind, phase, name, overwritten, window, oldCallbacks, named, active, stack, outcome, got>>

\* A script that cannot be loaded: no handler is set for that.
ScriptLost(r) ==
    /\ stack = <<>>
    /\ kind[r] \in Scripted
    /\ net[r] = "sent"
    /\ net' = [net EXCEPT ![r] = "gone"]
    /\ UNCHANGED <<kind, phase, name, held, overwritten, window, oldCallbacks, named, active, stack, outcome, got>>

\* The answer to an XMLHttpRequest: the data, for JSONP a text that is evaluated and
\* calls the function; a text that does neither; or an error of the server.
XhrAnswers(r, answer) ==
    LET now  == IF answer = "data" /\ kind[r] = "local" THEN Called(r) ELSE held
        good == answer # "error" /\ (IF kind[r] = "local" THEN now[r] # None ELSE answer = "data")
    IN  /\ stack = <<>>
        /\ kind[r] \in {"local", "plain"}
        /\ net[r] = "sent"
        /\ net' = [net EXCEPT ![r] = "gone"]
        /\ Done(r, Told(good), IF kind[r] = "local" THEN now[r] ELSE r, now)

\* jqXHR.abort, by the page or by the timeout: an XMLHttpRequest is stopped, the
\* script element is removed.
Abort(r) ==
    /\ Aborting
    /\ phase[r] = "open"
    /\ net' = [net EXCEPT ![r] = IF kind[r] \in Scripted THEN @ ELSE "gone"]
    /\ Done(r, "aborted", None, held)

Top == Last(stack)

\* Seeded fault: the counter is decremented for every request.
FinishUncounted ==
    /\ stack # <<>>
    /\ phase[Top] = "complete"
    /\ phase' = [phase EXCEPT ![Top] = "finished"]
    /\ active' = IF active > 0 THEN active - 1 ELSE 0
    /\ stack' = Front(stack)
    /\ UNCHANGED <<kind, name, held, overwritten, window, oldCallbacks, named, net, outcome, got>>

\* The functions for success or error have returned: those for completion.
Complete ==
    /\ stack # <<>>
    /\ phase[Top] = "settled"
    /\ phase' = [phase EXCEPT ![Top] = "complete"]
    /\ UNCHANGED <<kind, name, held, overwritten, window, oldCallbacks, named, active, net, stack, outcome, got>>

\* The end of done().
Finish ==
    /\ stack # <<>>
    /\ phase[Top] = "complete"
    /\ phase' = [phase EXCEPT ![Top] = "finished"]
    /\ active' = IF Global(kind[Top]) THEN active - 1 ELSE active
    /\ stack' = Front(stack)
    /\ UNCHANGED <<kind, name, held, overwritten, window, oldCallbacks, named, net, outcome, got>>

\* A function of the page throws: every done() on the stack is left.
Throw ==
    /\ Failing
    /\ stack # <<>>
    /\ phase' = [r \in Requests |-> IF Contains(stack, r) THEN "threw" ELSE phase[r]]
    /\ stack' = <<>>
    /\ UNCHANGED <<kind, name, held, overwritten, window, oldCallbacks, named, active, net, outcome, got>>

Finished ==
    /\ stack = <<>>
    /\ \A r \in Requests : kind[r] # "none" /\ net[r] = "gone"
    /\ UNCHANGED requestVars

\* A page that starts and aborts requests from wherever its code runs.
RequestsNext ==
    \/ \E r \in Requests : (\E k \in Kinds : Send(r, k) \/ Cancel(r, k)) \/ Abort(r)
    \/ \E r \in Requests : ScriptLost(r) \/ \E calls \in BOOLEAN : ScriptRuns(r, calls)
    \/ \E r \in Requests, answer \in {"data", "silent", "error"} : XhrAnswers(r, answer)
    \/ Complete \/ Finish \/ Throw
    \/ Finished

RequestsSpec == RequestsInit /\ [][RequestsNext]_requestVars

-------------------------------------------------------------------------------
Open(r) == phase[r] = "open" /\ name[r] # 0
Owners(n) == {r \in Requests : Open(r) /\ name[r] = n}

\* Every name generated so far belongs to one open request, whose function it
\* stands for, or is free once and stands for nothing, also after aborts, late
\* scripts and functions of the page that throw (the jsonp prefilter, done).
NamesOwned ==
    \A n \in 1..named :
        LET places == {i \in DOMAIN oldCallbacks : oldCallbacks[i] = n}
        IN  \/ places = {} /\ \E r \in Requests : Owners(n) = {r} /\ window[n] = r
            \/ Cardinality(places) = 1 /\ Owners(n) = {} /\ window[n] = None

\* Success is called with the answer to the request itself.  The only other answer
\* it can be given is that of an aborted JSONP request whose name it took over, if
\* the script arrives after all and its own script does not call (script transport).
OwnAnswer ==
    \A r \in Requests :
        outcome[r] = "success" /\ kind[r] # "fixed" =>
            \/ got[r] = r
            \/ kind[got[r]] = "script" /\ outcome[got[r]] = "aborted" /\ name[got[r]] = name[r]

\* jQuery.active counts the requests of the page's origin that are open or in
\* done(); those whose functions threw are counted for ever (ajax, done).
ActiveCounts ==
    active = Cardinality({r \in Requests :
                 Global(kind[r]) /\ phase[r] \in {"open", "settled", "complete", "threw"}})

===============================================================================
