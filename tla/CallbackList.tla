----------------------------- MODULE CallbackList -----------------------------
(***************************************************************************)
(* The value of a callback list of jQuery (jQuery.Callbacks) and what each  *)
(* of its methods does to it.  A list calls its entries one at a time; the  *)
(* methods are also called from inside the entry being called, so each of   *)
(* them takes the value in the middle of a round as well as at rest.        *)
(*                                                                         *)
(* A method that starts a round (fire, or add on a list that remembers)     *)
(* leaves the list firing, with `at' the position of the first entry to     *)
(* call; whoever owns the list calls the entries (HasNext, Advance, Stop)   *)
(* and closes the round (End).  Positions count from 1: `at' is the code's  *)
(* firingIndex + 1.  What is fired is a positive number, 0 is undefined.    *)
(***************************************************************************)
EXTENDS Naturals, Sequences, FiniteSets

Flags == [once: BOOLEAN, memory: BOOLEAN, unique: BOOLEAN, stopOnFalse: BOOLEAN]

\* The lists the library makes: Deferred's two, and one for its progress.
OnceMemory == [once |-> TRUE, memory |-> TRUE, unique |-> FALSE, stopOnFalse |-> FALSE]
OnlyMemory == [OnceMemory EXCEPT !.once = FALSE]

\* `stacked' tells whether fire calls may be queued: the code's stack is an array.
NewList(options) ==
    [list |-> <<>>, disabled |-> FALSE, firing |-> FALSE, fired |-> FALSE, memory |-> 0,
     data |-> 0, at |-> 0, length |-> 0, start |-> 0, stack |-> <<>>, stacked |-> ~options.once]

Has(l, fn) == \E i \in 1..Len(l.list) : l.list[i].fn = fn

\* fire(data): a round begins.
Begin(l, options, data) ==
    [l EXCEPT !.memory = IF options.memory THEN data ELSE 0, !.data = data, !.fired = TRUE,
              !.at = l.start + 1, !.start = 0, !.length = Len(l.list), !.firing = TRUE]

HasNext(l) == ~l.disabled /\ l.at <= l.length
Advance(l) == [l EXCEPT !.at = @ + 1]

\* An entry returned false and the list stops at false.
Stop(l) == [l EXCEPT !.memory = 0, !.at = l.length + 1]

Disable(l) == [l EXCEPT !.list = <<>>, !.disabled = TRUE, !.stack = <<>>, !.stacked = FALSE, !.memory = 0]

\* Seeded fault: a round that ends leaves the fires queued meanwhile.
EndUnqueued(l, options) ==
    LET rest == [l EXCEPT !.firing = FALSE]
    IN  IF l.disabled \/ l.stacked THEN rest
        ELSE IF l.memory # 0 THEN [rest EXCEPT !.list = <<>>]
        ELSE Disable(rest)

\* The end of fire: the next fire queued meanwhile, or rest.
End(l, options) ==
    LET rest == [l EXCEPT !.firing = FALSE]
    IN  CASE l.disabled -> rest
          [] l.stacked /\ l.stack # <<>> -> Begin([rest EXCEPT !.stack = Tail(@)], options, Head(l.stack))
          [] l.stacked /\ l.stack = <<>> -> rest
          [] ~l.disabled /\ ~l.stacked /\ l.memory # 0 -> [rest EXCEPT !.list = <<>>]
          [] OTHER -> Disable(rest)

\* Seeded fault: an entry added to a list that remembers waits for the next fire.
AddForgetful(l, options, entry) ==
    LET list == IF options.unique /\ Has(l, entry.fn) THEN l.list ELSE Append(l.list, entry)
    IN  IF l.disabled THEN l
        ELSE [l EXCEPT !.list = list, !.length = IF l.firing THEN Len(list) ELSE @]

\* add: joins the round in progress, or is called at once with what is remembered.
Add(l, options, entry) ==
    LET list  == IF options.unique /\ Has(l, entry.fn) THEN l.list ELSE Append(l.list, entry)
        grown == [l EXCEPT !.list = list]
    IN  IF l.disabled THEN l
        ELSE IF l.firing THEN [grown EXCEPT !.length = Len(list)]
        ELSE IF l.memory # 0 THEN Begin([grown EXCEPT !.start = Len(l.list)], options, l.memory)
        ELSE grown

Places(l, fn) == {i \in 1..Len(l.list) : l.list[i].fn = fn}

\* The entries of other functions, in their order (a SelectSeq to reason about).
Kept(l, fn) ==
    LET stay   == {i \in 1..Len(l.list) : l.list[i].fn # fn}
        nth(k) == CHOOSE i \in stay : Cardinality({j \in stay : j <= i}) = k
    IN  [k \in 1..Cardinality(stay) |-> l.list[nth(k)]]

\* Seeded fault: the position of the round does not follow the entries that move down.
RemoveUnmoved(l, fn) ==
    LET kept == Kept(l, fn)
    IN  IF l.disabled THEN l
        ELSE [l EXCEPT !.list = kept, !.length = IF l.firing THEN @ - Cardinality(Places(l, fn)) ELSE @]

\* Seeded fault: the position of the round moves down with every entry removed.
RemoveAllMove(l, fn) ==
    LET kept == Kept(l, fn)
    IN  IF l.disabled THEN l
        ELSE IF ~l.firing THEN [l EXCEPT !.list = kept]
        ELSE [l EXCEPT !.list = kept, !.length = @ - Cardinality(Places(l, fn)),
                       !.at = @ - Cardinality(Places(l, fn))]

\* remove: every occurrence; a round in progress follows the entries that move down.
Remove(l, fn) ==
    LET kept == Kept(l, fn)
    IN  IF l.disabled THEN l
        ELSE IF ~l.firing THEN [l EXCEPT !.list = kept]
        ELSE [l EXCEPT !.list = kept, !.length = @ - Cardinality(Places(l, fn)),
                       !.at = @ - Cardinality({i \in Places(l, fn) : i <= l.at})]

\* empty: the positions of a round in progress stay as they were, and a disabled
\* list has entries again.
Empty(l) == [l EXCEPT !.list = <<>>, !.disabled = FALSE]

Lock(l) ==
    LET locked == [l EXCEPT !.stack = <<>>, !.stacked = FALSE]
    IN  IF l.memory = 0 THEN Disable(locked) ELSE locked

\* Whether fireWith will fire data, now or later.
Accepts(l) == ~l.disabled /\ (~l.fired \/ l.stacked)

FireWith(l, options, data) ==
    IF ~Accepts(l) THEN l
    ELSE IF l.firing THEN [l EXCEPT !.stack = Append(@, data)]
    ELSE Begin(l, options, data)
===============================================================================
