-------------------------- MODULE MCKeyStoreManager ---------------------------
(***************************************************************************)
(* An instance for TLC of keystores and of their manager.  A behaviour is of *)
(* one of three parts: a "race" of threads loading keystores, keystores whose *)
(* "loads" fail and are repeated, or a "manager" over them.                  *)
(***************************************************************************)
EXTENDS KeyStoreManager, TLC

CONSTANTS s1, s2, s3, s4, nss, p, q, x1, x2, x3

VARIABLE part

MCKinds == (s1 :> "PKCS11") @@ (s2 :> "PKCS12") @@ (s3 :> "Windows-MY") @@ (s4 :> "PKCS11")

\* Two certificates of one subject and one of another, and a key alone.
MCNames  == (x1 :> 1) @@ (x2 :> 1) @@ (x3 :> 2)
MCTables == {<<>>, <<x1>>, <<x3, x2>>, <<KeyAlone, x1>>, <<x3, KeyAlone>>}

MCInit ==
    /\ part \in {"race", "loads", "manager"}
    /\ ManagerInit
    /\ aliases[s3] = <<>> /\ aliases[s4] = <<>>
    /\ part # "manager" => ~windows /\ \A s \in Stores : aliases[s] = <<>>

\* Who loads keystores in the parts without a manager, with which passwords, how often.
Loaders == IF part = "race" THEN {s1, s3, s4} ELSE {s1, s2}
Words   == {None} \cup IF part = "race" THEN {} ELSE Passwords
Often   == IF part = "race" THEN 2 ELSE MaxLoads

LoadsNext ==
    /\ \E s \in Loaders :
          \/ Step(s)
          \/ loads[s] < Often /\ \E d \in Devices \cup {None}, w \in Words : Load(s, d, w)
    /\ UNCHANGED managerVars

LoadsFinished ==
    /\ \A s \in Loaders : pc[s] = "idle" /\ loads[s] = Often
    /\ UNCHANGED <<vars, managerVars>>

\* The keystores of the manager are loaded once, and by its user with one password.
ManagerOf3 ==
    /\ ManagerNext
    /\ \A s \in Stores : loads'[s] <= 1 /\ (s # s1 => input'[s] = None /\ password'[s] # q)
    /\ loads'[s4] = 0 /\ \A n \in 1..Len(keystores') : keystores'[n] # s4

MCNext ==
    /\ UNCHANGED part
    /\ IF part = "manager" THEN ManagerOf3 ELSE LoadsNext \/ LoadsFinished

MCSpec == MCInit /\ [][MCNext]_<<part, vars, managerVars>>
===============================================================================
