------------------------------ MODULE KeyStores ------------------------------
(***************************************************************************)
(* The keystores (keystore.BaseKeyStore and its three subclasses) and the  *)
(* registry of security providers (java.security.Security) which all the   *)
(* keystores of the JVM share.                                             *)
(*                                                                         *)
(* A keystore object is used by one thread; different objects are loaded   *)
(* by different threads, as each signing request does, so the steps of     *)
(* their loads interleave.  Providers are numbered in the order they were  *)
(* made; a provider serves one device, and its name is that of the device. *)
(***************************************************************************)
EXTENDS Naturals, Sequences

CONSTANTS
    Stores,         \* keystore objects
    Kind,           \* the class of each
    DNIe,           \* the device whose provider is looked for by name
    Devices,        \* devices a PKCS#11 configuration may name
    Passwords,
    None,           \* null
    MaxLoads        \* bound: loads of one keystore object

Kinds == {"PKCS11", "PKCS12", "Windows-MY"}

ASSUME KindType   == Kind \in [Stores -> Kinds]
ASSUME DeviceType == DNIe \in Devices /\ None \notin Devices \cup Passwords
ASSUME BoundType  == MaxLoads \in Nat \ {0}

VARIABLES
    device,         \* the device of each provider made so far
    registered,     \* Security: the provider registered for a device, 0 = none
    pc,             \* where the load of each store is, "idle" outside load
    loads,          \* how often load was called
    input,          \* parameter: the device the configuration names, or null
    early,          \* history: the DNIe provider registered when load was called
    fresh,          \* local provider: the one getProvider has just made
    provider, keyStore, password,       \* the fields
    outcome         \* how the last load that ended did so: "none", "loaded", "failed"

vars == <<device, registered, pc, loads, input, early, fresh, provider, keyStore, password, outcome>>

Null == [state |-> "null", provider |-> 0, password |-> None]
New(p) == [state |-> "new", provider |-> p, password |-> None]
Opened(p, w) == [state |-> "open", provider |-> p, password |-> w]

Init ==
    /\ device = <<>>
    /\ registered = [d \in Devices |-> 0]
    /\ pc = [s \in Stores |-> "idle"]
    /\ loads = [s \in Stores |-> 0]
    /\ input = [s \in Stores |-> None]
    /\ early = [s \in Stores |-> 0]
    /\ fresh = [s \in Stores |-> 0]
    /\ provider = [s \in Stores |-> 0]
    /\ keyStore = [s \in Stores |-> Null]
    /\ password = [s \in Stores |-> None]
    /\ outcome = [s \in Stores |-> "none"]

registry == <<device, registered>>
call     == <<loads, input, early>>
fields   == <<provider, keyStore, password>>

Goto(s, place) == pc' = [pc EXCEPT ![s] = place]
Continue(s, place) == Goto(s, place) /\ UNCHANGED outcome
End(s, how) == Goto(s, "idle") /\ outcome' = [outcome EXCEPT ![s] = how]

\* An exception leaves load; the fields stay as they are at that moment.
Throw(s) == End(s, "failed")

(***************************************************************************)
(* load, in the order of the code.                                         *)
(***************************************************************************)
\* BaseKeyStore.load keeps the password before anything can go wrong.
Load(s, d, w) ==
    /\ pc[s] = "idle"
    /\ loads[s] < MaxLoads
    /\ loads' = [loads EXCEPT ![s] = @ + 1]
    /\ input' = [input EXCEPT ![s] = d]
    /\ early' = [early EXCEPT ![s] = registered[DNIe]]
    /\ password' = [password EXCEPT ![s] = w]
    /\ Continue(s, IF Kind[s] = "PKCS11" THEN "check" ELSE "instance")
    /\ UNCHANGED <<registry, fresh, provider, keyStore>>

ProviderAlreadyLoaded == registered[DNIe] # 0

\* Seeded fault: the provider is never looked for.
CheckProviderNever(s) ==
    /\ pc[s] = "check"
    /\ Continue(s, "build")
    /\ UNCHANGED <<registry, call, fresh, fields>>

\* providerAlreadyLoaded(): the name looked for does not depend on the input.
CheckProvider(s) ==
    /\ pc[s] = "check"
    /\ Continue(s, IF ProviderAlreadyLoaded THEN "lookup" ELSE "build")
    /\ UNCHANGED <<registry, call, fresh, fields>>

\* Seeded fault: a null input makes a provider without configuration.
BuildProviderFromNull(s) ==
    /\ pc[s] = "build"
    /\ device' = Append(device, input[s])
    /\ fresh' = [fresh EXCEPT ![s] = Len(device')]
    /\ Continue(s, "add")
    /\ UNCHANGED <<registered, call, fields>>

\* new SunPKCS11(config): throws without input, and if the library does not load.
BuildProvider(s) ==
    /\ pc[s] = "build"
    /\ \/ /\ input[s] # None
          /\ device' = Append(device, input[s])
          /\ fresh' = [fresh EXCEPT ![s] = Len(device')]
          /\ Continue(s, "add")
       \/ Throw(s) /\ UNCHANGED <<device, fresh>>
    /\ UNCHANGED <<registered, call, fields>>

\* Security.addProvider does nothing if the name is taken; the new provider is
\* returned and used all the same.
AddProvider(s) ==
    /\ pc[s] = "add"
    /\ registered' = [registered EXCEPT ![input[s]] = IF @ = 0 THEN fresh[s] ELSE @]
    /\ provider' = [provider EXCEPT ![s] = fresh[s]]
    /\ fresh' = [fresh EXCEPT ![s] = 0]
    /\ Continue(s, "instance")
    /\ UNCHANGED <<device, call, keyStore, password>>

\* Seeded fault: the provider made last is taken for the DNIe's.
LookUpProviderLast(s) ==
    /\ pc[s] = "lookup"
    /\ provider' = [provider EXCEPT ![s] = Len(device)]
    /\ Continue(s, "instance")
    /\ UNCHANGED <<registry, call, fresh, keyStore, password>>

\* Security.getProvider("SunPKCS11-DNIe")
LookUpProvider(s) ==
    /\ pc[s] = "lookup"
    /\ provider' = [provider EXCEPT ![s] = registered[DNIe]]
    /\ Continue(s, "instance")
    /\ UNCHANGED <<registry, call, fresh, keyStore, password>>

\* Seeded fault: a keystore object once made is used again.
GetInstanceOnce(s) ==
    /\ pc[s] = "instance"
    /\ keyStore' = [keyStore EXCEPT ![s] = IF @ = Null THEN New(provider[s]) ELSE @]
    /\ Continue(s, "open")
    /\ UNCHANGED <<registry, call, fresh, provider, password>>

\* KeyStore.getInstance: a PKCS#11 provider offers no keystore while no token is
\* present; PKCS12 comes with a provider of its own; a null provider is refused, and
\* the field provider of a Windows-MY store is never assigned.
GetInstance(s) ==
    /\ pc[s] = "instance"
    /\ \/ /\ Kind[s] = "PKCS12" \/ provider[s] # 0
          /\ keyStore' = [keyStore EXCEPT ![s] = New(provider[s])]
          /\ Continue(s, "open")
       \/ Kind[s] # "PKCS12" /\ Throw(s) /\ UNCHANGED keyStore
    /\ UNCHANGED <<registry, call, fresh, provider, password>>

\* keyStore.load(input, password): a PKCS12 store calls password.toCharArray();
\* any store may refuse the password or fail to read.
OpenKeyStore(s) ==
    /\ pc[s] = "open"
    /\ \/ /\ Kind[s] = "PKCS11" \/ password[s] # None
          /\ keyStore' = [keyStore EXCEPT ![s] = Opened(@.provider, password[s])]
          /\ End(s, "loaded")
       \/ Throw(s) /\ UNCHANGED keyStore
    /\ UNCHANGED <<registry, call, fresh, provider, password>>

\* What aliases, getCertificate and getKey answer in a state: they change nothing.
\* checkKeyStoreIsLoaded looks at the reference only; java.security.KeyStore
\* refuses a store that was not loaded by an exception of its own.
Access(s) ==
    IF keyStore[s].state = "null" THEN "IllegalStateException"
    ELSE IF keyStore[s].state = "new" THEN "KeyStoreException"
    ELSE "entries"

Step(s) == \/ CheckProvider(s) \/ BuildProvider(s) \/ AddProvider(s) \/ LookUpProvider(s)
           \/ GetInstance(s) \/ OpenKeyStore(s)

Finished == (\A s \in Stores : pc[s] = "idle" /\ loads[s] = MaxLoads) /\ UNCHANGED vars

Next ==
    \/ \E s \in Stores :
          \/ \E d \in Devices \cup {None}, w \in Passwords \cup {None} : Load(s, d, w)
          \/ Step(s)
    \/ Finished

Spec == Init /\ [][Next]_vars

-----------------------------------------------------------------------------
Places == {"idle", "check", "build", "add", "lookup", "instance", "open"}

Handle == [state : {"null", "new", "open"}, provider : Nat, password : Passwords \cup {None}]

Made(p) == p \in 1..Len(device)

TypeOK ==
    /\ device \in Seq(Devices)
    /\ registered \in [Devices -> Nat]
    /\ pc \in [Stores -> Places]
    /\ loads \in [Stores -> 0..MaxLoads]
    /\ input \in [Stores -> Devices \cup {None}]
    /\ early \in [Stores -> Nat]
    /\ fresh \in [Stores -> Nat]
    /\ provider \in [Stores -> Nat]
    /\ keyStore \in [Stores -> Handle]
    /\ password \in [Stores -> Passwords \cup {None}]
    /\ outcome \in [Stores -> {"none", "loaded", "failed"}]

Loaded(s) == pc[s] = "idle" /\ outcome[s] = "loaded"

\* After a load that returned, whatever failed before, the keystore is open, it
\* belongs to the provider getProvider answers, and getKey uses the password it
\* was opened with: the three fields, written by different steps, are of one
\* load (BaseKeyStore.java:80-101, PKCS11KeyStore.java:21-27).
LoadedIsCoherent ==
    \A s \in Stores :
        Loaded(s) => /\ keyStore[s].state = "open"
                     /\ keyStore[s].provider = provider[s]
                     /\ keyStore[s].password = password[s]

\* A PKCS#11 keystore that is loaded serves the device its configuration names,
\* or a DNIe another load had registered, even if its own input was null
\* (PKCS11KeyStore.java:30-43).
ServesItsDeviceOrDNIe ==
    \A s \in Stores :
        (Loaded(s) /\ Kind[s] = "PKCS11") =>
            /\ Made(provider[s])
            /\ device[provider[s]] # input[s] => provider[s] = registered[DNIe]

\* Loads that begin when a DNIe provider is registered all use that one: only
\* loads that raced with the first may hold a provider nobody can look up.
RegisteredIsShared ==
    \A s \in Stores :
        (Loaded(s) /\ Kind[s] = "PKCS11" /\ early[s] # 0) => provider[s] = early[s]

\* A name in the registry keeps its provider, and the keystores that took it from
\* there stay valid: no load pulls it from under another (PKCS11KeyStore.java:37).
RegistrationIsFinal ==
    [][\A d \in Devices :
          registered[d] # 0 => registered'[d] = registered[d]]_vars

\* What KeyStoreManager.java:36-45 logs and FirefoxPKCS11KeyStoreTest.java:36-47
\* expects: a keystore loaded with the configuration of a device holds the
\* entries of that device.
ServesItsDevice ==
    \A s \in Stores :
        (Loaded(s) /\ Kind[s] = "PKCS11" /\ input[s] # None) => device[provider[s]] = input[s]

\* What BaseKeyStore.java:74 says and the three keystore tests expect: using a
\* keystore that has not been loaded is an IllegalStateException.
UnloadedIsIllegalState ==
    \A s \in Stores :
        (pc[s] = "idle" /\ Access(s) # "entries") => Access(s) = "IllegalStateException"
=============================================================================
