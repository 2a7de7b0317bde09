------------------------------- MODULE Promises -------------------------------
(***************************************************************************)
(* What the users of jQuery.Deferred may rely on: a deferred is settled at   *)
(* most once, resolved or rejected, with a value; a handler registered for   *)
(* that outcome, before or after it, is called once at most, with that value *)
(* and after the handlers registered before it.  Nothing is said of when.    *)
(***************************************************************************)
EXTENDS Naturals, Sequences

CONSTANTS Deferreds, Values

Outcomes == {1, 2}                  \* resolved, rejected
Pending  == [how |-> 0, value |-> 0]

VARIABLES
    outcome,        \* of each deferred
    handlers,       \* in the order they were registered: the deferred, for which outcomes
    heard           \* the value each handler was called with, 0 = not called

vars == <<outcome, handlers, heard>>

Handler == [of : Deferreds, hows : SUBSET Outcomes]

Init ==
    /\ outcome = [d \in Deferreds |-> Pending]
    /\ handlers = <<>>
    /\ heard = <<>>

Settle(d, how, value) ==
    /\ outcome[d] = Pending
    /\ outcome' = [outcome EXCEPT ![d] = [how |-> how, value |-> value]]
    /\ UNCHANGED <<handlers, heard>>

Register(d, hows) ==
    /\ handlers' = Append(handlers, [of |-> d, hows |-> hows])
    /\ heard' = Append(heard, 0)
    /\ UNCHANGED outcome

Due(h) == outcome[handlers[h].of].how \in handlers[h].hows

Call(h) ==
    /\ heard[h] = 0
    /\ Due(h)
    /\ \A g \in 1..h - 1 : handlers[g].of = handlers[h].of /\ Due(g) => heard[g] # 0
    /\ heard' = [heard EXCEPT ![h] = outcome[handlers[h].of].value]
    /\ UNCHANGED <<outcome, handlers>>

Next ==
    \/ \E d \in Deferreds, how \in Outcomes, value \in Values : Settle(d, how, value)
    \/ \E d \in Deferreds, hows \in SUBSET Outcomes : Register(d, hows)
    \/ \E h \in DOMAIN handlers : Call(h)

Spec == Init /\ [][Next]_vars
===============================================================================
