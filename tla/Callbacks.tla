------------------------------- MODULE Callbacks -------------------------------
(***************************************************************************)
(* One callback list of jQuery in use.  Its methods are called by the page   *)
(* between rounds and by the callbacks themselves in the middle of one, as   *)
(* often as they like; a callback ends by returning false, by returning      *)
(* anything else, or by throwing.                                            *)
(*                                                                          *)
(* Every entry of the list is one call of add: the same function may be      *)
(* added again, under another number.                                        *)
(***************************************************************************)
EXTENDS CallbackList

CONSTANTS
    Functions,      \* the functions the page adds
    MaxEntries,     \* bound: calls of add
    MaxFires,       \* bound: calls of fire
    EmptyInside,    \* whether callbacks call empty, which loses the place of the round
    ThrowInside     \* whether callbacks of this page throw

ASSUME ListBounds == {MaxEntries, MaxFires} \subseteq Nat

VARIABLES
    options,        \* of the list, fixed when it is made
    l,              \* the list
    running,        \* an entry is being called
    threw,          \* an entry threw: the loop of fire was left without its end
    asked,          \* history: fires accepted so far; the n-th fires n
    added,          \* history: entries made so far
    called,         \* history: entries called in this round, in order
    owed,           \* history: entries this round has to call
    heard           \* history: the last value each entry was called with

listVars == <<options, l, running, threw, asked, added, called, owed, heard>>
listHistory == <<asked, added, called, owed, heard>>

Numbers(list) == {list[i].n : i \in 1..Len(list)}

ListInit ==
    /\ options \in Flags
    /\ l = NewList(options)
    /\ running = FALSE
    /\ threw = FALSE
    /\ asked = 0
    /\ added = 0
    /\ called = <<>>
    /\ owed = {}
    /\ heard = [n \in 1..MaxEntries |-> 0]

\* Somebody's code is running: a callback, or the page when no round is in progress.
Turn == running \/ ~l.firing \/ threw

\* A round that starts owes a call to every entry from its first position on.
StartsWith(l2) ==
    /\ called' = <<>>
    /\ owed' = {l2.list[i].n : i \in l2.at..Len(l2.list)}

AddEntry(fn) ==
    /\ Turn
    /\ added < MaxEntries
    /\ added' = added + 1
    /\ l' = Add(l, options, [fn |-> fn, n |-> added'])
    /\ IF ~l.firing /\ l'.firing
       THEN StartsWith(l')
       ELSE /\ owed' = IF running /\ added' \in Numbers(l'.list) THEN owed \cup {added'} ELSE owed
            /\ UNCHANGED called
    /\ UNCHANGED <<options, running, threw, asked, heard>>

RemoveFunction(fn) ==
    /\ Turn
    /\ l' = Remove(l, fn)
    /\ owed' = owed \ (Numbers(l.list) \ Numbers(l'.list))
    /\ UNCHANGED <<options, running, threw, asked, added, called, heard>>

EmptyList ==
    /\ Turn
    /\ running => EmptyInside
    /\ l' = Empty(l)
    /\ owed' = {}
    /\ UNCHANGED <<options, running, threw, asked, added, called, heard>>

DisableList ==
    /\ Turn
    /\ l' = Disable(l)
    /\ owed' = {}
    /\ UNCHANGED <<options, running, threw, asked, added, called, heard>>

LockList ==
    /\ Turn
    /\ l' = Lock(l)
    /\ owed' = IF l'.disabled THEN {} ELSE owed
    /\ UNCHANGED <<options, running, threw, asked, added, called, heard>>

FireList ==
    /\ Turn
    /\ asked < MaxFires
    /\ asked' = IF Accepts(l) THEN asked + 1 ELSE asked
    /\ l' = FireWith(l, options, asked + 1)
    /\ IF ~l.firing /\ l'.firing THEN StartsWith(l') ELSE UNCHANGED <<called, owed>>
    /\ UNCHANGED <<options, running, threw, added, heard>>

ListLooping == l.firing /\ ~running /\ ~threw

Call ==
    /\ ListLooping
    /\ HasNext(l)
    /\ IF l.at \in 1..Len(l.list)
       THEN LET n == l.list[l.at].n
            IN  /\ running' = TRUE
                /\ called' = Append(called, n)
                /\ heard' = [heard EXCEPT ![n] = l.data]
                /\ UNCHANGED threw
       ELSE threw' = TRUE /\ UNCHANGED <<running, called, heard>> \* apply of undefined
    /\ UNCHANGED <<options, l, asked, added, owed>>

EntryReturns(false) ==
    /\ running
    /\ running' = FALSE
    /\ IF false /\ options.stopOnFalse
       THEN l' = Stop(l) /\ owed' = {}
       ELSE l' = Advance(l) /\ UNCHANGED owed
    /\ UNCHANGED <<options, threw, asked, added, called, heard>>

EntryThrows ==
    /\ running
    /\ ThrowInside
    /\ running' = FALSE
    /\ threw' = TRUE
    /\ UNCHANGED <<options, l, listHistory>>

EndListRound ==
    /\ ListLooping
    /\ ~HasNext(l)
    /\ l' = End(l, options)
    /\ IF l'.firing THEN StartsWith(l') ELSE UNCHANGED <<called, owed>>
    /\ UNCHANGED <<options, running, threw, asked, added, heard>>

Loop == Call \/ EndListRound \/ \E false \in BOOLEAN : EntryReturns(false)

ListNext ==
    \/ \E fn \in Functions : AddEntry(fn) \/ RemoveFunction(fn)
    \/ EmptyList \/ DisableList \/ LockList \/ FireList
    \/ Loop \/ EntryThrows

\* The engine runs a loop to its end: nothing else happens on the page meanwhile.
ListSpec == ListInit /\ [][ListNext]_listVars /\ WF_listVars(Loop)

-------------------------------------------------------------------------------
\* Callbacks may add and remove entries, their own included, while the list is
\* being called: no entry is ever called twice in a round.
CalledOnce == \A i, j \in 1..Len(called) : called[i] = called[j] => i = j

\* ... and when the round ends every entry it had to call, which nobody removed,
\* has been called: none is passed over because others moved (fire, add, remove).
NoneSkipped == ListLooping /\ ~HasNext(l) => \A n \in owed : \E i \in 1..Len(called) : called[i] = n

\* Fires that came while the list was firing are queued, not lost: at rest the
\* list has fired all it accepted, unless it was locked or disabled (fireWith, fire).
NothingLeftQueued == ~l.firing /\ l.stacked => l.data = asked

\* With memory, an entry in a list at rest has been called with the last value
\* fired, however late it was added (add).
MemoryIsHeard ==
    ~l.firing /\ l.memory # 0 => \A n \in Numbers(l.list) : heard[n] = l.memory
===============================================================================
