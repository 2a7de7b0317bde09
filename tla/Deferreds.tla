------------------------------ MODULE Deferreds -------------------------------
(***************************************************************************)
(* jQuery.Deferred and jQuery.when over their callback lists.  A deferred    *)
(* has three lists, done, fail and progress (1, 2, 3); the first two begin   *)
(* with the entries that set the state, disable the other one and lock the   *)
(* third.                                                                    *)
(*                                                                          *)
(* The engine has one stack: every round of a list is a frame above the code *)
(* that started it, and only the top frame runs.  In a frame an entry is     *)
(* running or the loop is about to call the next; `todo' are the library's   *)
(* calls the code of the frame makes next, in order; with none left the code *)
(* of the page, if it is the page's, does as it likes.  The bottom frame is  *)
(* the page itself.                                                          *)
(***************************************************************************)
EXTENDS CallbackList

CONSTANTS
    MaxDeferreds,   \* bound: deferreds made
    MaxHandlers,    \* bound: handlers registered
    MaxCalls,       \* bound: resolve, reject and notify calls
    FunctionsGiven, \* bound: the lists for which functions are given to then
    Throwing        \* whether the page's functions may throw

ASSUME BoundType == {MaxDeferreds, MaxHandlers, MaxCalls} \subseteq Nat
ASSUME ChoiceType == Throwing \in BOOLEAN /\ FunctionsGiven \subseteq SUBSET (1..3)

Ids   == 1..MaxDeferreds
Lists == 1..3
Page  == 0          \* of the bottom frame; also an argument of when that is no deferred

VARIABLES
    lists,          \* the three lists of each deferred
    state,          \* what state() answers
    made,           \* how each deferred was made: new, then(of), when(args)
    remaining,      \* of when: arguments not resolved yet
    arrived,        \* of when: the arguments whose value is in resolveValues
    frames,         \* the stack
    calls,          \* bound: resolve, reject and notify calls so far
    registered,     \* history: the handlers, in order
    told,           \* history: the value each was called with
    adopted,        \* history: the promises a then took from its functions
    passed,         \* history: thens whose final function gave a plain value
    broken          \* history: some function threw

vars == <<lists, state, made, remaining, arrived, frames, calls, registered, told, adopted, passed, broken>>
history == <<registered, told, adopted, passed, broken>>

Options(i) == IF i = 3 THEN OnlyMemory ELSE OnceMemory

\* An entry: what it does, for whom and in which list; the number of a handler, or
\* of an argument of when.
Entry(what, n, to, i) == [fn |-> what, n |-> n, to |-> to, i |-> i]
Internal == <<"state", "disable", "lock">>

\* Seeded fault: a deferred resolved can still be rejected.
NewDeferredUndisabled(d) ==
    [i \in Lists |->
        IF i = 3 THEN NewList(OnlyMemory)
        ELSE [NewList(OnceMemory) EXCEPT !.list = <<Entry("state", 0, d, i), Entry("lock", 0, d, i)>>]]

\* The lists of a new deferred.
NewDeferred(d) ==
    [i \in Lists |->
        IF i = 3 THEN NewList(OnlyMemory)
        ELSE [NewList(OnceMemory) EXCEPT !.list = [k \in 1..3 |-> Entry(Internal[k], 0, d, i)]]]

Made == DOMAIN made
Plain == {d \in Made : made[d].kind = "new"}       \* the page can settle these
PageFrame == [d |-> Page, i |-> 1, in |-> TRUE, user |-> TRUE, todo |-> <<>>]

Init ==
    /\ lists = [d \in Ids |-> NewDeferred(d)]
    /\ state = [d \in Ids |-> "pending"]
    /\ made = <<>>
    /\ remaining = [d \in Ids |-> 0]
    /\ arrived = [d \in Ids |-> {}]
    /\ frames = <<PageFrame>>
    /\ calls = 0
    /\ registered = <<>>
    /\ told = <<>>
    /\ adopted = [d \in Ids |-> {}]
    /\ passed = {}
    /\ broken = FALSE

Depth == Len(frames)
Top == frames[Depth]
WithTop(f) == [frames EXCEPT ![Depth] = f]
Round(d, i) == [d |-> d, i |-> i, in |-> FALSE, user |-> FALSE, todo |-> <<>>]

\* The library's calls: add an entry, fire a list, count an argument of when.
DoAdd(d, i, entry) == [op |-> "add", d |-> d, i |-> i, entry |-> entry, value |-> 0]
DoFire(d, i, value) == [op |-> "fire", d |-> d, i |-> i, entry |-> Entry("none", 0, 0, i), value |-> value]
DoCount(entry, value) == [DoFire(entry.to, 1, value) EXCEPT !.op = "count", !.entry = entry]

-------------------------------------------------------------------------------
(* The page's code, in its own frame or in a function the library calls. *)

PageRuns == Top.in /\ Top.user /\ Top.todo = <<>>
Program(ops) == frames' = WithTop([Top EXCEPT !.todo = ops])

New ==
    /\ PageRuns
    /\ Len(made) < MaxDeferreds
    /\ made' = Append(made, [kind |-> "new", of |-> <<>>, fns |-> {}])
    /\ UNCHANGED <<lists, state, remaining, arrived, frames, calls, history>>

\* Seeded fault: always registers for done only.
RegisterDoneOnly(d, hows) ==
    /\ PageRuns
    /\ Len(registered) < MaxHandlers
    /\ registered' = Append(registered, [of |-> d, hows |-> hows])
    /\ told' = Append(told, 0)
    /\ LET add(i) == DoAdd(d, i, Entry("handler", Len(registered) + 1, d, i))
       IN  Program(IF 1 \in hows THEN <<add(1)>> ELSE <<add(2)>>)
    /\ UNCHANGED <<lists, state, made, remaining, arrived, calls, adopted, passed, broken>>

\* done, fail (one list) or always (both).
Register(d, hows) ==
    /\ PageRuns
    /\ Len(registered) < MaxHandlers
    /\ registered' = Append(registered, [of |-> d, hows |-> hows])
    /\ told' = Append(told, 0)
    /\ LET add(i) == DoAdd(d, i, Entry("handler", Len(registered) + 1, d, i))
       IN  Program(CASE hows = {1} -> <<add(1)>> [] hows = {2} -> <<add(2)>> [] OTHER -> <<add(1), add(2)>>)
    /\ UNCHANGED <<lists, state, made, remaining, arrived, calls, adopted, passed, broken>>

\* resolve, reject, notify.
Fire(d, i) ==
    /\ PageRuns
    /\ calls < MaxCalls
    /\ calls' = calls + 1
    /\ Program(<<DoFire(d, i, calls + 1)>>)
    /\ UNCHANGED <<lists, state, made, remaining, arrived, history>>

\* then: fns says for which of the three lists a function is given.
Then(p, fns) ==
    /\ PageRuns
    /\ Len(made) < MaxDeferreds
    /\ made' = Append(made, [kind |-> "then", of |-> <<p>>, fns |-> fns])
    /\ Program([i \in Lists |-> DoAdd(p, i, Entry("then", 0, Len(made) + 1, i))])
    /\ UNCHANGED <<lists, state, remaining, arrived, calls, history>>

\* Seeded fault: an argument that is no deferred is waited for.
WhenWaiting(a, b) ==
    LET m == Len(made) + 1
        adds(s, n) == IF s = Page THEN <<>>
                      ELSE <<DoAdd(s, 1, Entry("count", n, m, 1)), DoAdd(s, 2, Entry("settle", 0, m, 2)),
                             DoAdd(s, 3, Entry("settle", 0, m, 3))>>
    IN  /\ PageRuns
        /\ m <= MaxDeferreds
        /\ made' = Append(made, [kind |-> "when", of |-> <<a, b>>, fns |-> {}])
        /\ remaining' = [remaining EXCEPT ![m] = 2]
        /\ Program(adds(a, 1) \o adds(b, 2))
        /\ UNCHANGED <<lists, state, arrived, calls, history>>

\* when with two arguments, deferreds or not.
When(a, b) ==
    LET m == Len(made) + 1
        adds(s, n) == IF s = Page THEN <<>>
                      ELSE <<DoAdd(s, 1, Entry("count", n, m, 1)), DoAdd(s, 2, Entry("settle", 0, m, 2)),
                             DoAdd(s, 3, Entry("settle", 0, m, 3))>>
    IN  /\ PageRuns
        /\ m <= MaxDeferreds
        /\ made' = Append(made, [kind |-> "when", of |-> <<a, b>>, fns |-> {}])
        /\ remaining' = [remaining EXCEPT ![m] = Cardinality({k \in 1..2 : <<a, b>>[k] # Page})]
        /\ Program(IF a = Page /\ b = Page THEN <<DoFire(m, 1, 1)>> ELSE adds(a, 1) \o adds(b, 2))
        /\ UNCHANGED <<lists, state, arrived, calls, history>>

-------------------------------------------------------------------------------
(* The library. *)

\* Put a list back; a round that starts is a frame of its own.
Store(d, i, l2, base) ==
    /\ lists' = [lists EXCEPT ![d][i] = l2]
    /\ frames' = IF ~lists[d][i].firing /\ l2.firing THEN Append(base, Round(d, i)) ELSE base

\* The next call of the top frame's code.
Do ==
    LET ops  == Top.todo
        op   == Head(ops)
        base == WithTop([Top EXCEPT !.todo = Tail(ops)])
        l    == lists[op.d][op.i]
    IN  /\ Top.in /\ ops # <<>>
        /\ CASE op.op = "add" -> /\ Store(op.d, op.i, Add(l, Options(op.i), op.entry), base)
                                 /\ UNCHANGED <<remaining, arrived>>
             [] op.op = "fire" -> /\ Store(op.d, op.i, FireWith(l, Options(op.i), op.value), base)
                                  /\ UNCHANGED <<remaining, arrived>>
             [] OTHER -> /\ arrived' = [arrived EXCEPT ![op.d] = @ \cup {op.entry.n}]
                         /\ remaining' = [remaining EXCEPT ![op.d] = @ - 1]
                         /\ IF remaining'[op.d] = 0
                            THEN Store(op.d, 1, FireWith(l, Options(1), op.value), base)
                            ELSE frames' = base /\ UNCHANGED lists
        /\ UNCHANGED <<state, made, calls, history>>

Looping == ~Top.in
List == lists[Top.d][Top.i]
Calling(e) == Looping /\ HasNext(List) /\ e = List.list[List.at]

\* The entries a deferred makes for itself.
CallInternal ==
    LET e == List.list[List.at]
        next(ls) == [ls EXCEPT ![Top.d][Top.i] = Advance(@)]
    IN  /\ Looping /\ HasNext(List)
        /\ \/ /\ e.fn = "state"
              /\ state' = [state EXCEPT ![Top.d] = <<"resolved", "rejected">>[Top.i]]
              /\ lists' = next(lists)
           \/ /\ e.fn = "disable"
              /\ lists' = next([lists EXCEPT ![Top.d][3 - Top.i] = Disable(@)])
              /\ UNCHANGED state
           \/ /\ e.fn = "lock"
              /\ lists' = next([lists EXCEPT ![Top.d][3] = Lock(@)])
              /\ UNCHANGED state
        /\ UNCHANGED <<made, remaining, arrived, frames, calls, history>>

\* A handler of the page, or the function given to then for this list.
HasFunction(e) == e.fn = "handler" \/ (e.fn = "then" /\ e.i \in made[e.to].fns)
CallFunction ==
    LET e == List.list[List.at]
    IN  /\ Looping /\ HasNext(List)
        /\ HasFunction(e)
        /\ frames' = WithTop([Top EXCEPT !.in = TRUE, !.user = TRUE])
        /\ told' = IF e.fn = "handler" THEN [told EXCEPT ![e.n] = List.data] ELSE told
        /\ UNCHANGED <<lists, state, made, remaining, arrived, calls, registered, adopted, passed, broken>>

\* What passes the outcome on: a then without a function, a promise adopted, when.
CallForward ==
    LET e == List.list[List.at]
    IN  /\ Looping /\ HasNext(List)
        /\ e.fn \in {"then", "settle", "count"} /\ ~HasFunction(e)
        /\ frames' = WithTop([Top EXCEPT !.in = TRUE, !.todo =
                        <<IF e.fn = "count" THEN DoCount(e, List.data) ELSE DoFire(e.to, e.i, List.data)>>])
        /\ passed' = IF e.fn = "then" /\ e.i # 3 THEN passed \cup {e.to} ELSE passed
        /\ UNCHANGED <<lists, state, made, remaining, arrived, calls, registered, told, adopted, broken>>

\* The entry that is running.
Running == List.list[List.at]

\* An entry with nothing more to do returns; neither is false a reason to stop.
Return ==
    /\ Depth > 1 /\ Top.in /\ Top.todo = <<>>
    /\ Top.user => Running.fn = "handler"
    /\ lists' = [lists EXCEPT ![Top.d][Top.i] = Advance(@)]
    /\ frames' = WithTop([Top EXCEPT !.in = FALSE, !.user = FALSE])
    /\ UNCHANGED <<state, made, remaining, arrived, calls, history>>

\* The function given to then returns something that is no promise.
ReturnValue ==
    /\ Depth > 1 /\ PageRuns
    /\ Running.fn = "then"
    /\ frames' = WithTop([Top EXCEPT !.user = FALSE, !.todo = <<DoFire(Running.to, Top.i, List.data)>>])
    /\ passed' = IF Top.i # 3 THEN passed \cup {Running.to} ELSE passed
    /\ UNCHANGED <<lists, state, made, remaining, arrived, calls, registered, told, adopted, broken>>

\* The deferreds that wait for d, itself included.
Waiting(d) ==
    LET reach[n \in 0..MaxDeferreds] ==
            IF n = 0 THEN {d}
            ELSE reach[n - 1] \cup {x \in Made : reach[n - 1] \cap (adopted[x] \cup {made[x].of[k] : k \in DOMAIN made[x].of}) # {}}
    IN  reach[MaxDeferreds]

\* ... or the promise of r.  (A promise made to wait for itself never settles, and
\* passes its own notifications to itself for ever: no page is taken to do that.)
ReturnPromise(r) ==
    /\ Depth > 1 /\ PageRuns
    /\ Running.fn = "then"
    /\ r \notin Waiting(Running.to)
    /\ frames' = WithTop([Top EXCEPT !.user = FALSE,
                    !.todo = [i \in Lists |-> DoAdd(r, i, Entry("settle", 0, Running.to, i))]])
    /\ adopted' = [adopted EXCEPT ![Running.to] = @ \cup {r}]
    /\ UNCHANGED <<lists, state, made, remaining, arrived, calls, registered, told, passed, broken>>

\* The page's function throws: every loop on the stack is left where it is.
Throw ==
    /\ Throwing
    /\ Depth > 1 /\ PageRuns
    /\ frames' = <<PageFrame>>
    /\ broken' = TRUE
    /\ UNCHANGED <<lists, state, made, remaining, arrived, calls, registered, told, adopted, passed>>

EndRound ==
    LET l2 == End(List, Options(Top.i))
    IN  /\ Looping /\ ~HasNext(List)
        /\ lists' = [lists EXCEPT ![Top.d][Top.i] = l2]
        /\ frames' = IF l2.firing THEN frames ELSE SubSeq(frames, 1, Depth - 1)
        /\ UNCHANGED <<state, made, remaining, arrived, calls, history>>

\* A page with nothing more to do waits; code the engine runs never does.
AtRest == Depth = 1 /\ Top.todo = <<>>
Rest == AtRest /\ UNCHANGED vars

Library == Do \/ CallInternal \/ CallFunction \/ CallForward \/ EndRound

Next ==
    \/ New
    \/ \E d \in Made, hows \in (SUBSET {1, 2}) \ {{}} : Register(d, hows)
    \/ \E d \in Plain, i \in Lists : Fire(d, i)
    \/ \E p \in Made, fns \in FunctionsGiven : Then(p, fns)
    \/ \E a, b \in Made \cup {Page} : When(a, b)
    \/ Library
    \/ Return \/ ReturnValue \/ (\E r \in Made : ReturnPromise(r)) \/ Throw
    \/ Rest

Spec == Init /\ [][Next]_vars

-------------------------------------------------------------------------------
Outcome(d) ==
    LET how == IF lists[d][1].fired THEN 1 ELSE IF lists[d][2].fired THEN 2 ELSE 0
    IN  [how |-> how, value |-> IF how = 0 THEN 0 ELSE lists[d][how].data]

Contract == INSTANCE Promises WITH
    Deferreds <- Ids, Values <- 1..MaxCalls + 1, handlers <- registered, heard <- told,
    outcome <- [d \in Ids |-> Outcome(d)]

\* However resolve, reject, add and then are called from inside one another, and
\* whatever throws, each deferred is settled once and each handler hears of that
\* settlement once, in the order they were registered (Deferred, Callbacks.add).
KeepsPromise == Contract!Spec

\* At rest, unless some function threw, every handler registered for what became of
\* its deferred has been called: registered before or after it was settled, or from
\* inside another handler, none is lost (Deferred, Callbacks.add).
EveryoneHears ==
    AtRest /\ ~broken => \A n \in DOMAIN registered : Contract!Due(n) => told[n] # 0

Settled(d) == state[d] # "pending"

\* What may settle a deferred the page does not settle itself.
Causes(d) ==
    CASE made[d].kind = "then" ->
            {state[r] : r \in {x \in adopted[d] : Settled(x)}} \cup
            (IF d \in passed THEN {state[made[d].of[1]]} ELSE {})
      [] made[d].kind = "when" ->
            LET args == {made[d].of[k] : k \in 1..2} \ {Page}
            IN  IF \E a \in args : state[a] = "rejected" THEN {"rejected"}
                ELSE IF \A a \in args : state[a] = "resolved" THEN {"resolved"} ELSE {}
      [] OTHER -> {}

\* With no code running and none that threw, a promise made by then or when has
\* been settled if, and as, something it depends on has: none is left waiting for
\* what already happened, in whatever order it was wired and settled; and the
\* function of a then on what was settled has run, or passed it on (then, when).
SettlesForItsCause ==
    AtRest /\ ~broken =>
        \A d \in Made \ Plain :
            /\ IF Causes(d) = {} THEN state[d] = "pending" ELSE state[d] \in Causes(d)
            /\ made[d].kind = "then" /\ Settled(made[d].of[1]) => d \in passed \/ adopted[d] # {}
===============================================================================
