---------------------------- MODULE KeyStoreManager ----------------------------
(***************************************************************************)
(* The manager of keystores (KeyStoreManager): the keystores its             *)
(* constructor loads and those its user adds, and the two loops over them    *)
(* and their aliases, one that lists every certificate and one that looks    *)
(* for a subject.  Whatever a keystore throws ends a loop with what it has.  *)
(*                                                                          *)
(* One thread uses the manager and its keystores; meanwhile a token may be   *)
(* taken out.  The aliases of a keystore are those it found when it was      *)
(* opened.  An entry stands for its certificate; a key alone has none.       *)
(***************************************************************************)
EXTENDS KeyStores

CONSTANTS
    Firefox, Explorer,      \* the keystores the constructor makes
    NSS,                    \* the device of Firefox
    Certs, KeyAlone,        \* entries
    DN,                     \* the subject of each certificate
    Tables,                 \* bound: the aliases a keystore may find, in its order
    MaxListed               \* bound: keystores in the manager

ASSUME MadeHere   == Firefox \in Stores /\ Explorer \in Stores /\ Kind[Firefox] = "PKCS11" /\ NSS \in Devices
ASSUME EntryType  == /\ KeyAlone \notin Certs /\ None \notin Certs \cup [store : Stores, cert : Certs]
                     /\ \A c \in Certs : DN[c] # None
ASSUME TableType  == Tables \subseteq Seq(Certs \cup {KeyAlone})

VARIABLES
    windows,        \* whether this is Windows
    at,             \* none, constructing (explorer, firefox), ready, a loop (store, alias), threw
    keystores,      \* the list
    aliases,        \* world: of each keystore, once it is open
    removed,        \* world: keystores whose token was taken out
    dn,             \* what the last call looks for, None: it lists
    i, j,           \* the loops: keystore, alias
    certificates,   \* the list of the last getCertificates, None for null
    found,          \* the entry of the last getPrivateKeyEntryByDn, None for null
    since           \* history: what changed since getCertificates was last called

world       == <<windows, aliases, removed>>
results     == <<dn, i, j, certificates, found>>
managerVars == <<windows, at, keystores, aliases, removed, dn, i, j, certificates, found, since>>

Others == Stores \ {Firefox, Explorer}

ManagerInit ==
    /\ Init
    /\ windows \in BOOLEAN
    /\ at = "none"
    /\ keystores = <<>>
    /\ aliases \in [Stores -> Tables]
    /\ removed = {}
    /\ dn = None
    /\ i = 0 /\ j = 0
    /\ certificates = <<>>
    /\ found = None
    /\ since = {"stores"}

-------------------------------------------------------------------------------
(* The constructor. *)

\* initFirefoxStore: the configuration may name no profile, which throws.
InitFirefoxStore ==
    \/ Load(Firefox, NSS, None) /\ at' = "firefox"
    \/ at' = "threw" /\ UNCHANGED vars

\* initInternetExplorerStore comes first, on Windows.
Construct ==
    /\ at = "none"
    /\ IF windows THEN Load(Explorer, None, None) /\ at' = "explorer" ELSE InitFirefoxStore
    /\ UNCHANGED <<keystores, world, results, since>>

\* The store of Windows is not added to the list, even if it could be loaded.
ExplorerLoaded ==
    /\ at = "explorer" /\ pc[Explorer] = "idle"
    /\ IF outcome[Explorer] = "loaded" THEN InitFirefoxStore ELSE at' = "threw" /\ UNCHANGED vars
    /\ UNCHANGED <<keystores, world, results, since>>

FirefoxLoaded ==
    /\ at = "firefox" /\ pc[Firefox] = "idle"
    /\ IF outcome[Firefox] = "loaded"
       THEN at' = "ready" /\ keystores' = Append(keystores, Firefox)
       ELSE at' = "threw" /\ UNCHANGED keystores
    /\ UNCHANGED <<vars, world, results, since>>

-------------------------------------------------------------------------------
(* The list of keystores, and the world. *)

ManagerIdle == at = "ready" /\ \A s \in Stores : pc[s] = "idle"

AddKeyStore(s) ==
    /\ ManagerIdle
    /\ Len(keystores) < MaxListed
    /\ keystores' = Append(keystores, s)
    /\ since' = since \cup {"stores"}
    /\ UNCHANGED <<vars, at, world, results>>

FlushKeyStoresTable ==
    /\ ManagerIdle
    /\ keystores' = <<>>
    /\ since' = since \cup {"stores"}
    /\ UNCHANGED <<vars, at, world, results>>

\* The user of the manager loads a keystore of its own, before or after adding it.
LoadOther(s, d, w) ==
    /\ ManagerIdle
    /\ Load(s, d, w)
    /\ since' = since \cup {"stores"}
    /\ UNCHANGED <<at, keystores, world, results>>

LoadStep(s) == Step(s) /\ UNCHANGED managerVars

\* A token is taken out, for good as far as its sessions go.
TakeOut(s) ==
    /\ Kind[s] = "PKCS11" /\ keyStore[s].state = "open" /\ s \notin removed
    /\ removed' = removed \cup {s}
    /\ since' = since \cup {"tokens"}
    /\ UNCHANGED <<vars, windows, at, keystores, aliases, results>>

-------------------------------------------------------------------------------
(* The two loops. *)

\* aliases and getCertificate throw.
Fails(s) == Access(s) # "entries" \/ s \in removed

Certificate(e) == IF e \in Certs THEN e ELSE None

GetCertificates ==
    /\ ManagerIdle
    /\ at' = "store" /\ i' = 1
    /\ dn' = None
    /\ certificates' = <<>>
    /\ since' = {}
    /\ UNCHANGED <<vars, keystores, world, j, found>>

GetPrivateKeyEntryByDn(name) ==
    /\ ManagerIdle
    /\ at' = "store" /\ i' = 1
    /\ dn' = name
    /\ found' = None
    /\ UNCHANGED <<vars, keystores, world, j, certificates, since>>

Current == keystores[i]

\* keystore.aliases(): the loop over keystores ends after the last, or when one throws.
NextStore ==
    /\ at = "store"
    /\ IF i > Len(keystores) \/ Fails(Current)
       THEN at' = "ready" /\ UNCHANGED j
       ELSE at' = "alias" /\ j' = 1
    /\ UNCHANGED <<vars, keystores, world, dn, i, certificates, found, since>>

\* Seeded fault: the first certificate of a keystore is all it lists.
ListAliasFirst(c) ==
    /\ certificates' = Append(certificates, c)
    /\ at' = "store" /\ i' = i + 1
    /\ UNCHANGED <<j, found>>

\* getCertificates adds whatever it gets, null included.
ListAlias(c) ==
    /\ certificates' = Append(certificates, c)
    /\ j' = j + 1
    /\ UNCHANGED <<at, i, found>>

\* Seeded fault: the lookup goes on after a match.
MatchAliasLast(c) ==
    /\ CASE c = None -> at' = "ready" /\ UNCHANGED <<j, found>>
         [] c # None /\ DN[c] = dn -> j' = j + 1 /\ found' = [store |-> Current, cert |-> c] /\ UNCHANGED at
         [] OTHER -> j' = j + 1 /\ UNCHANGED <<at, found>>
    /\ UNCHANGED <<i, certificates>>

\* getPrivateKeyEntryByDn compares subjects, which throws for null.
MatchAlias(c) ==
    /\ CASE c = None -> at' = "ready" /\ UNCHANGED <<j, found>>
         [] c # None /\ DN[c] = dn -> at' = "ready" /\ found' = [store |-> Current, cert |-> c] /\ UNCHANGED j
         [] OTHER -> j' = j + 1 /\ UNCHANGED <<at, found>>
    /\ UNCHANGED <<i, certificates>>

NextAlias ==
    /\ at = "alias"
    /\ IF j > Len(aliases[Current])
       THEN at' = "store" /\ i' = i + 1 /\ UNCHANGED <<j, certificates, found>>
       ELSE IF Fails(Current) THEN at' = "ready" /\ UNCHANGED <<i, j, certificates, found>>
       ELSE LET c == Certificate(aliases[Current][j])
            IN  IF dn = None THEN ListAlias(c) ELSE MatchAlias(c)
    /\ UNCHANGED <<vars, keystores, world, dn, since>>

Threw == at = "threw" /\ UNCHANGED <<vars, managerVars>>

ManagerNext ==
    \/ Construct \/ ExplorerLoaded \/ FirefoxLoaded
    \/ \E s \in Others : AddKeyStore(s) \/ \E d \in Devices \cup {None}, w \in Passwords \cup {None} : LoadOther(s, d, w)
    \/ FlushKeyStoresTable
    \/ \E s \in Stores : LoadStep(s) \/ TakeOut(s)
    \/ GetCertificates \/ \E c \in Certs : GetPrivateKeyEntryByDn(DN[c])
    \/ NextStore \/ NextAlias
    \/ Threw

ManagerSpec == ManagerInit /\ [][ManagerNext]_<<vars, managerVars>>

-------------------------------------------------------------------------------
\* The list has the certificates of the first n entries of a keystore.
Lists(s, n) ==
    \A m \in 1..n : LET c == Certificate(aliases[s][m])
                    IN  c # None => \E l \in 1..Len(certificates) : certificates[l] = c

ListsAll(s) == Lists(s, Len(aliases[s]))

\* A list that was returned has every certificate of every keystore up to the first
\* that fails: a token taken out meanwhile costs no certificate but its own and those
\* after it (getCertificates, its catch).
ListIsComplete ==
    (at = "ready" /\ dn = None /\ "stores" \notin since) =>
        \A k \in 1..Len(keystores) :
            (\A m \in 1..k : ~Fails(keystores[m])) => ListsAll(keystores[k])

\* What was listed can be looked up, as long as nothing changed in between: the first
\* certificate listed of a subject is the one found, in a keystore of the manager that
\* has it; unless an entry without a certificate comes before it, at which the lookup
\* gives up although the list went on (getCertificates, getPrivateKeyEntryByDn).
ListedCanBeFound ==
    (at = "ready" /\ dn # None /\ since = {}) =>
        LET named == {m \in 1..Len(certificates) : certificates[m] # None /\ DN[certificates[m]] = dn}
            first(m) == \A k \in 1..m - 1 : certificates[k] # None /\ DN[certificates[k]] # dn
        IN  IF found = None THEN \A m \in named : ~first(m)
            ELSE \E m \in named : first(m) /\ certificates[m] = found.cert
===============================================================================
