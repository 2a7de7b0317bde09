----------------------------- MODULE MCDeferreds -----------------------------
(***************************************************************************)
(* Instances for TLC of the callback list and of the deferreds built on it.  *)
(* They share no state here: a behaviour exercises one of them and the other *)
(* stays as it began.                                                        *)
(***************************************************************************)
EXTENDS Callbacks, Deferreds, TLC

CONSTANTS f, g

\* Functions are given to then for fail: the chain then has both a function and none.
MCSomeFunctions == {{2}}

VARIABLE part

MCInit ==
    /\ Init
    /\ ListInit
    /\ \/ part = "list"
       \/ part = "deferreds" /\ options = OnceMemory

MCNext ==
    \/ part = "list" /\ ListNext /\ UNCHANGED <<part, vars>>
    \/ part = "deferreds" /\ Next /\ UNCHANGED <<part, listVars>>

MCSpec == MCInit /\ [][MCNext]_<<part, vars, listVars>>

\* The functions are interchangeable.
MCSymmetry == Permutations(Functions)
==============================================================================
