------------------------- MODULE KeyStoreManagerProofs -------------------------
(***************************************************************************)
(* First of KeyStores, for any number of keystores, devices, passwords and   *)
(* loads: IInv says what each step of a load may rely on, that a name in the *)
(* registry stands for a provider of that device, and that the fields are of *)
(* the load in progress.  Then of the manager: what it does to its keystores *)
(* is what KeyStores allows, and the list of certificates is complete up to  *)
(* the first keystore that fails, for any keystores, aliases, certificates.  *)
(***************************************************************************)
EXTENDS KeyStoreManager, TLAPS

-------------------------------------------------------------------------------
(* The keystores. *)

\* A registered provider was made, and for the device of its name.
RegistryRight ==
    \A d \in Devices : registered[d] # 0 => Made(registered[d]) /\ device[registered[d]] = d

\* The DNIe provider a load found registered when it began is still there.
EarlyStays == \A s \in Stores : early[s] # 0 => registered[DNIe] = early[s]

Suits(s) ==
    /\ Made(provider[s])
    /\ device[provider[s]] # input[s] => provider[s] = registered[DNIe]
    /\ early[s] # 0 => provider[s] = early[s]

\* What holds of the load of s at each place.
OnTheWay(s) ==
    /\ pc[s] \in {"check", "build", "add", "lookup"} => Kind[s] = "PKCS11"
    /\ pc[s] \in {"build", "add"} => early[s] = 0
    /\ pc[s] = "add" => /\ input[s] # None
                        /\ Made(fresh[s])
                        /\ device[fresh[s]] = input[s]
    /\ pc[s] = "lookup" => registered[DNIe] # 0
    /\ (pc[s] \in {"instance", "open"} /\ Kind[s] = "PKCS11") => Suits(s)
    /\ pc[s] = "open" => keyStore[s].provider = provider[s]

\* What a load that returned leaves behind.
AtRest(s) ==
    Loaded(s) => /\ keyStore[s].state = "open"
                 /\ keyStore[s].provider = provider[s]
                 /\ keyStore[s].password = password[s]
                 /\ Kind[s] = "PKCS11" => Suits(s)

IInv ==
    /\ TypeOK
    /\ RegistryRight
    /\ EarlyStays
    /\ \A s \in Stores : OnTheWay(s)
    /\ \A s \in Stores : AtRest(s)

-----------------------------------------------------------------------------
\* A provider made is added at the end; those made before keep their places.
LEMMA MakeProvider ==
  ASSUME device \in Seq(Devices), NEW d \in Devices, device' = Append(device, d)
  PROVE  /\ device' \in Seq(Devices)
         /\ Len(device) \in Nat
         /\ Len(device') = Len(device) + 1
         /\ device'[Len(device')] = d
         /\ \A p : Made(p) => Made(p)' /\ device'[p] = device[p]
  BY DEF Made

\* Nothing is made, registered or loaded at the start.
LEMMA InitInv == Init => IInv
  <1> SUFFICES ASSUME Init PROVE IInv
    OBVIOUS
  <1>1. TypeOK
    BY BoundType DEF Init, TypeOK, Places, Handle, Null
  <1>2. RegistryRight /\ EarlyStays
    BY DeviceType DEF Init, RegistryRight, EarlyStays
  <1>3. \A s \in Stores : OnTheWay(s) /\ AtRest(s)
    BY DEF Init, OnTheWay, AtRest, Loaded
  <1> QED
    BY <1>1, <1>2, <1>3 DEF IInv

\* BaseKeyStore.load begins a load: the fields need suit nobody yet.
LEMMA LoadInv ==
  ASSUME IInv, NEW s \in Stores, NEW d \in Devices \cup {None}, NEW w \in Passwords \cup {None}, Load(s, d, w)
  PROVE  IInv'
  <1>1. TypeOK /\ RegistryRight /\ EarlyStays /\ (\A t \in Stores : OnTheWay(t) /\ AtRest(t))
    BY DEF IInv
  <1>2. TypeOK'
    BY <1>1, DeviceType, BoundType DEF Load, Goto, Continue, End, Throw, registry, call, fields, Places, Handle, New, Opened, ProviderAlreadyLoaded, TypeOK
  <1>3. RegistryRight'
    BY <1>1 DEF Load, Goto, Continue, End, Throw, registry, call, fields, Places, Handle, New, Opened, ProviderAlreadyLoaded, RegistryRight, Made
  <1>4. EarlyStays'
    BY <1>1, DeviceType DEF Load, Goto, Continue, End, Throw, registry, call, fields, Places, Handle, New, Opened, ProviderAlreadyLoaded, EarlyStays, TypeOK
  <1>5. ASSUME NEW t \in Stores PROVE OnTheWay(t)' /\ AtRest(t)'
    <2>1. CASE t = s
      BY <1>1, <2>1, KindType, DeviceType DEF Load, Goto, Continue, End, Throw, registry, call, fields, Places, Handle, New, Opened, ProviderAlreadyLoaded, OnTheWay, AtRest, Loaded, Suits, Made, TypeOK, RegistryRight, EarlyStays, Kinds
    <2>2. CASE t # s
      BY <1>1, <2>2 DEF Load, Goto, Continue, End, Throw, registry, call, fields, Places, Handle, New, Opened, ProviderAlreadyLoaded, OnTheWay, AtRest, Loaded, Suits, Made, TypeOK
    <2> QED
      BY <2>1, <2>2
  <1> QED
    BY <1>2, <1>3, <1>4, <1>5 DEF IInv

\* providerAlreadyLoaded decides between the registered provider and a new one.
LEMMA CheckProviderInv ==
  ASSUME IInv, NEW s \in Stores, CheckProvider(s)
  PROVE  IInv'
  <1>1. TypeOK /\ RegistryRight /\ EarlyStays /\ (\A t \in Stores : OnTheWay(t) /\ AtRest(t))
    BY DEF IInv
  <1>2. TypeOK'
    BY <1>1, DeviceType, BoundType DEF CheckProvider, Goto, Continue, End, Throw, registry, call, fields, Places, Handle, New, Opened, ProviderAlreadyLoaded, TypeOK
  <1>3. RegistryRight'
    BY <1>1 DEF CheckProvider, Goto, Continue, End, Throw, registry, call, fields, Places, Handle, New, Opened, ProviderAlreadyLoaded, RegistryRight, Made
  <1>4. EarlyStays'
    BY <1>1, DeviceType DEF CheckProvider, Goto, Continue, End, Throw, registry, call, fields, Places, Handle, New, Opened, ProviderAlreadyLoaded, EarlyStays, TypeOK
  <1>5. ASSUME NEW t \in Stores PROVE OnTheWay(t)' /\ AtRest(t)'
    <2>1. CASE t = s
      BY <1>1, <2>1, KindType, DeviceType DEF CheckProvider, Goto, Continue, End, Throw, registry, call, fields, Places, Handle, New, Opened, ProviderAlreadyLoaded, OnTheWay, AtRest, Loaded, Suits, Made, TypeOK, RegistryRight, EarlyStays, Kinds
    <2>2. CASE t # s
      BY <1>1, <2>2 DEF CheckProvider, Goto, Continue, End, Throw, registry, call, fields, Places, Handle, New, Opened, ProviderAlreadyLoaded, OnTheWay, AtRest, Loaded, Suits, Made, TypeOK
    <2> QED
      BY <2>1, <2>2
  <1> QED
    BY <1>2, <1>3, <1>4, <1>5 DEF IInv

\* Making a provider adds to those made and disturbs none.
LEMMA BuildProviderInv ==
  ASSUME IInv, NEW s \in Stores, BuildProvider(s)
  PROVE  IInv'
  <1>1. TypeOK /\ RegistryRight /\ EarlyStays /\ (\A t \in Stores : OnTheWay(t) /\ AtRest(t))
    BY DEF IInv
  <1>2. CASE input[s] # None /\ device' = Append(device, input[s])
             /\ fresh' = [fresh EXCEPT ![s] = Len(device')] /\ Continue(s, "add")
    <2>0. device \in Seq(Devices) /\ input[s] \in Devices
      BY <1>1, <1>2 DEF TypeOK
    <2>1. /\ device' \in Seq(Devices)
          /\ Len(device) \in Nat
          /\ Len(device') = Len(device) + 1
          /\ device'[Len(device')] = input[s]
          /\ \A p : Made(p) => Made(p)' /\ device'[p] = device[p]
      BY <1>2, <2>0, MakeProvider
    <2>2. /\ pc[s] = "build"
          /\ pc' = [pc EXCEPT ![s] = "add"]
          /\ fresh' = [fresh EXCEPT ![s] = Len(device')]
          /\ UNCHANGED <<registered, loads, input, early, provider, keyStore, password, outcome>>
      BY <1>2 DEF BuildProvider, Goto, Continue, call, fields
    <2>3. TypeOK'
      BY <1>1, <2>1, <2>2 DEF TypeOK, Places
    <2>4. RegistryRight'
      BY <1>1, <2>1, <2>2 DEF RegistryRight
    <2>5. EarlyStays'
      BY <1>1, <2>2 DEF EarlyStays
    <2>6. ASSUME NEW t \in Stores PROVE OnTheWay(t)' /\ AtRest(t)'
      <3>1. CASE t = s
        <4>1. pc'[s] = "add" /\ fresh'[s] = Len(device') /\ Made(fresh[s])'
          BY <1>1, <2>1, <2>2 DEF TypeOK, Made
        <4> QED
          BY <1>1, <1>2, <2>1, <2>2, <3>1, <4>1 DEF OnTheWay, AtRest, Loaded
      <3>2. CASE t # s
        <4>1. pc'[t] = pc[t] /\ fresh'[t] = fresh[t]
          BY <1>1, <2>2, <3>2 DEF TypeOK
        <4>2. Suits(t) => Suits(t)'
          BY <2>1, <2>2 DEF Suits
        <4> QED
          BY <1>1, <2>1, <2>2, <4>1, <4>2 DEF OnTheWay, AtRest, Loaded
      <3> QED
        BY <3>1, <3>2
    <2> QED
      BY <2>3, <2>4, <2>5, <2>6 DEF IInv
  <1>3. CASE Throw(s) /\ UNCHANGED <<device, fresh>>
    <2>1. /\ pc' = [pc EXCEPT ![s] = "idle"]
          /\ outcome' = [outcome EXCEPT ![s] = "failed"]
          /\ UNCHANGED <<device, registered, loads, input, early, fresh, provider, keyStore, password>>
      BY <1>3 DEF BuildProvider, Goto, End, Throw, call, fields
    <2>2. TypeOK'
      BY <1>1, <2>1 DEF TypeOK, Places
    <2>3. RegistryRight' /\ EarlyStays'
      BY <1>1, <2>1 DEF RegistryRight, EarlyStays, Made
    <2>4. ASSUME NEW t \in Stores PROVE OnTheWay(t)' /\ AtRest(t)'
      BY <1>1, <2>1, <2>4 DEF OnTheWay, AtRest, Loaded, Suits, Made, TypeOK
    <2> QED
      BY <2>2, <2>3, <2>4 DEF IInv
  <1> QED
    BY <1>2, <1>3 DEF BuildProvider

\* Registration fills an empty name only, and the provider suits its store.
LEMMA AddProviderInv ==
  ASSUME IInv, NEW s \in Stores, AddProvider(s)
  PROVE  IInv'
  <1>1. TypeOK /\ RegistryRight /\ EarlyStays /\ (\A t \in Stores : OnTheWay(t) /\ AtRest(t))
    BY DEF IInv
  <1>0. pc[s] = "add" /\ Kind[s] = "PKCS11" /\ input[s] \in Devices /\ early[s] = 0
        /\ Made(fresh[s]) /\ device[fresh[s]] = input[s]
    BY <1>1 DEF AddProvider, OnTheWay, TypeOK
  <1>f. fresh[s] # 0
    BY <1>0 DEF Made
  <1>2. TypeOK'
    BY <1>0, <1>1 DEF AddProvider, Goto, Continue, End, Throw, registry, call, fields, Places, Handle, New, Opened, ProviderAlreadyLoaded, TypeOK
  <1>g. \A d \in Devices : registered[d] # 0 => registered'[d] = registered[d]
    BY <1>1 DEF AddProvider, TypeOK
  <1>3. RegistryRight'
    <2>1. \A d \in Devices : d # input[s] => registered'[d] = registered[d]
      BY <1>1 DEF AddProvider, TypeOK
    <2>2. registered'[input[s]] = IF registered[input[s]] = 0 THEN fresh[s] ELSE registered[input[s]]
      BY <1>0, <1>1 DEF AddProvider, TypeOK
    <2> QED
      BY <1>0, <1>1, <2>1, <2>2 DEF RegistryRight, Made, AddProvider
  <1>4. EarlyStays'
    BY <1>1, <1>g, DeviceType DEF EarlyStays, AddProvider, call
  <1>5. ASSUME NEW t \in Stores PROVE OnTheWay(t)' /\ AtRest(t)'
    <2>1. CASE t = s
      <3>1. pc'[s] = "instance" /\ provider'[s] = fresh[s]
        BY <1>1 DEF AddProvider, Continue, Goto, TypeOK
      <3>2. Suits(s)'
        BY <1>0, <3>1 DEF Suits, Made, AddProvider, call
      <3> QED
        BY <2>1, <3>1, <3>2 DEF OnTheWay, AtRest, Loaded
    <2>2. CASE t # s
      <3>1. pc'[t] = pc[t] /\ provider'[t] = provider[t] /\ fresh'[t] = fresh[t]
        BY <1>1, <2>2 DEF AddProvider, Continue, Goto, TypeOK
      <3>2. Suits(t) => Suits(t)'
        <4>1. Made(provider[t]) => provider[t] # 0
          BY DEF Made
        <4> QED
          BY <1>g, <3>1, <4>1, DeviceType DEF Suits, Made, AddProvider, call
      <3> QED
        BY <1>1, <1>g, <3>1, <3>2, DeviceType DEF OnTheWay, AtRest, Loaded, Made, AddProvider, Continue, call
    <2> QED
      BY <2>1, <2>2
  <1> QED
    BY <1>2, <1>3, <1>4, <1>5 DEF IInv

\* The registered DNIe provider suits whoever looks it up.
LEMMA LookUpProviderInv ==
  ASSUME IInv, NEW s \in Stores, LookUpProvider(s)
  PROVE  IInv'
  <1>1. TypeOK /\ RegistryRight /\ EarlyStays /\ (\A t \in Stores : OnTheWay(t) /\ AtRest(t))
    BY DEF IInv
  <1>2. TypeOK'
    BY <1>1, DeviceType, BoundType DEF LookUpProvider, Goto, Continue, End, Throw, registry, call, fields, Places, Handle, New, Opened, ProviderAlreadyLoaded, TypeOK
  <1>3. RegistryRight'
    BY <1>1 DEF LookUpProvider, Goto, Continue, End, Throw, registry, call, fields, Places, Handle, New, Opened, ProviderAlreadyLoaded, RegistryRight, Made
  <1>4. EarlyStays'
    BY <1>1, DeviceType DEF LookUpProvider, Goto, Continue, End, Throw, registry, call, fields, Places, Handle, New, Opened, ProviderAlreadyLoaded, EarlyStays, TypeOK
  <1>5. ASSUME NEW t \in Stores PROVE OnTheWay(t)' /\ AtRest(t)'
    <2>1. CASE t = s
      BY <1>1, <2>1, KindType, DeviceType DEF LookUpProvider, Goto, Continue, End, Throw, registry, call, fields, Places, Handle, New, Opened, ProviderAlreadyLoaded, OnTheWay, AtRest, Loaded, Suits, Made, TypeOK, RegistryRight, EarlyStays, Kinds
    <2>2. CASE t # s
      BY <1>1, <2>2 DEF LookUpProvider, Goto, Continue, End, Throw, registry, call, fields, Places, Handle, New, Opened, ProviderAlreadyLoaded, OnTheWay, AtRest, Loaded, Suits, Made, TypeOK
    <2> QED
      BY <2>1, <2>2
  <1> QED
    BY <1>2, <1>3, <1>4, <1>5 DEF IInv

\* A new keystore belongs to the provider of its store.
LEMMA GetInstanceInv ==
  ASSUME IInv, NEW s \in Stores, GetInstance(s)
  PROVE  IInv'
  <1>1. TypeOK /\ RegistryRight /\ EarlyStays /\ (\A t \in Stores : OnTheWay(t) /\ AtRest(t))
    BY DEF IInv
  <1>2. TypeOK'
    <2>1. keyStore[s] \in Handle /\ New(provider[s]) \in Handle
      BY <1>1 DEF TypeOK, Handle, New, Opened
    <2>2. \/ keyStore' = [keyStore EXCEPT ![s] = New(provider[s])]
          \/ keyStore' = keyStore
      BY DEF GetInstance
    <2>3. keyStore' \in [Stores -> Handle]
      BY <1>1, <2>1, <2>2 DEF TypeOK
    <2>4. /\ pc' \in [Stores -> Places]
          /\ outcome' \in [Stores -> {"none", "loaded", "failed"}]
      BY <1>1 DEF GetInstance, Continue, Throw, End, Goto, Places, TypeOK
    <2>5. UNCHANGED <<device, registered, loads, input, early, fresh, provider, password>>
      BY DEF GetInstance, registry, call
    <2> QED
      BY <1>1, <2>3, <2>4, <2>5 DEF TypeOK
  <1>3. RegistryRight'
    BY <1>1 DEF GetInstance, Goto, Continue, End, Throw, registry, call, fields, Places, Handle, New, Opened, ProviderAlreadyLoaded, RegistryRight, Made
  <1>4. EarlyStays'
    BY <1>1, DeviceType DEF GetInstance, Goto, Continue, End, Throw, registry, call, fields, Places, Handle, New, Opened, ProviderAlreadyLoaded, EarlyStays, TypeOK
  <1>5. ASSUME NEW t \in Stores PROVE OnTheWay(t)' /\ AtRest(t)'
    <2>1. CASE t = s
      BY <1>1, <2>1, KindType, DeviceType DEF GetInstance, Goto, Continue, End, Throw, registry, call, fields, Places, Handle, New, Opened, ProviderAlreadyLoaded, OnTheWay, AtRest, Loaded, Suits, Made, TypeOK, RegistryRight, EarlyStays, Kinds
    <2>2. CASE t # s
      BY <1>1, <2>2 DEF GetInstance, Goto, Continue, End, Throw, registry, call, fields, Places, Handle, New, Opened, ProviderAlreadyLoaded, OnTheWay, AtRest, Loaded, Suits, Made, TypeOK
    <2> QED
      BY <2>1, <2>2
  <1> QED
    BY <1>2, <1>3, <1>4, <1>5 DEF IInv

\* Opening brings the three fields together.
LEMMA OpenKeyStoreInv ==
  ASSUME IInv, NEW s \in Stores, OpenKeyStore(s)
  PROVE  IInv'
  <1>1. TypeOK /\ RegistryRight /\ EarlyStays /\ (\A t \in Stores : OnTheWay(t) /\ AtRest(t))
    BY DEF IInv
  <1>2. TypeOK'
    <2>1. keyStore[s] \in Handle /\ Opened(keyStore[s].provider, password[s]) \in Handle
      BY <1>1 DEF TypeOK, Handle, New, Opened
    <2>2. \/ keyStore' = [keyStore EXCEPT ![s] = Opened(keyStore[s].provider, password[s])]
          \/ keyStore' = keyStore
      BY DEF OpenKeyStore
    <2>3. keyStore' \in [Stores -> Handle]
      BY <1>1, <2>1, <2>2 DEF TypeOK
    <2>4. /\ pc' \in [Stores -> Places]
          /\ outcome' \in [Stores -> {"none", "loaded", "failed"}]
      BY <1>1 DEF OpenKeyStore, Continue, Throw, End, Goto, Places, TypeOK
    <2>5. UNCHANGED <<device, registered, loads, input, early, fresh, provider, password>>
      BY DEF OpenKeyStore, registry, call
    <2> QED
      BY <1>1, <2>3, <2>4, <2>5 DEF TypeOK
  <1>3. RegistryRight'
    BY <1>1 DEF OpenKeyStore, Goto, Continue, End, Throw, registry, call, fields, Places, Handle, New, Opened, ProviderAlreadyLoaded, RegistryRight, Made
  <1>4. EarlyStays'
    BY <1>1, DeviceType DEF OpenKeyStore, Goto, Continue, End, Throw, registry, call, fields, Places, Handle, New, Opened, ProviderAlreadyLoaded, EarlyStays, TypeOK
  <1>5. ASSUME NEW t \in Stores PROVE OnTheWay(t)' /\ AtRest(t)'
    <2>1. CASE t = s
      BY <1>1, <2>1, KindType, DeviceType DEF OpenKeyStore, Goto, Continue, End, Throw, registry, call, fields, Places, Handle, New, Opened, ProviderAlreadyLoaded, OnTheWay, AtRest, Loaded, Suits, Made, TypeOK, RegistryRight, EarlyStays, Kinds
    <2>2. CASE t # s
      BY <1>1, <2>2 DEF OpenKeyStore, Goto, Continue, End, Throw, registry, call, fields, Places, Handle, New, Opened, ProviderAlreadyLoaded, OnTheWay, AtRest, Loaded, Suits, Made, TypeOK
    <2> QED
      BY <2>1, <2>2
  <1> QED
    BY <1>2, <1>3, <1>4, <1>5 DEF IInv

\* A step that changes nothing keeps the invariant.
LEMMA StutterInv == IInv /\ UNCHANGED vars => IInv'
  BY DEF IInv, vars, TypeOK, RegistryRight, EarlyStays, OnTheWay, AtRest, Loaded, Suits, Made

\* IInv is inductive.
THEOREM Inductive == Spec => []IInv
  <1>1. IInv /\ [Next]_vars => IInv'
    <2> SUFFICES ASSUME IInv, [Next]_vars PROVE IInv'
      OBVIOUS
    <2>1. ASSUME NEW s \in Stores, NEW d \in Devices \cup {None}, NEW w \in Passwords \cup {None},
                 Load(s, d, w)
          PROVE  IInv'
      BY <2>1, LoadInv
    <2>2. ASSUME NEW s \in Stores, Step(s) PROVE IInv'
      BY <2>2, CheckProviderInv, BuildProviderInv, AddProviderInv, LookUpProviderInv,
         GetInstanceInv, OpenKeyStoreInv DEF Step
    <2>3. CASE UNCHANGED vars
      BY <2>3, StutterInv
    <2> QED
      BY <2>1, <2>2, <2>3 DEF Next, Finished
  <1> QED
    BY InitInv, <1>1, PTL DEF Spec

\* Every variable keeps its type (KeyStores!TypeOK).
THEOREM TypeCorrect == Spec => []TypeOK
  BY Inductive, PTL DEF IInv

\* The fields of a loaded keystore are of one load.
THEOREM LoadedStoresAreCoherent == Spec => []LoadedIsCoherent
  <1>1. IInv => LoadedIsCoherent
    BY DEF IInv, AtRest, LoadedIsCoherent
  <1> QED
    BY <1>1, Inductive, PTL

\* A loaded PKCS#11 keystore serves its device or the registered DNIe.
THEOREM DeviceOrDNIe == Spec => []ServesItsDeviceOrDNIe
  <1>1. IInv => ServesItsDeviceOrDNIe
    BY DEF IInv, AtRest, Suits, ServesItsDeviceOrDNIe
  <1> QED
    BY <1>1, Inductive, PTL

\* Loads that begin after the DNIe was registered share its provider.
THEOREM OneDNIeProvider == Spec => []RegisteredIsShared
  <1>1. IInv => RegisteredIsShared
    BY DEF IInv, AtRest, Suits, RegisteredIsShared
  <1> QED
    BY <1>1, Inductive, PTL

\* No load replaces a registered provider.
THEOREM RegistryOnlyGrows == Spec => RegistrationIsFinal
  <1>1. IInv /\ [Next]_vars =>
            [\A d \in Devices : registered[d] # 0 => registered'[d] = registered[d]]_vars
    <2> SUFFICES ASSUME IInv, [Next]_vars, NEW d \in Devices, registered[d] # 0
                 PROVE  registered'[d] = registered[d]
      OBVIOUS
    <2>1. ASSUME NEW s \in Stores, AddProvider(s) PROVE registered'[d] = registered[d]
      BY <2>1 DEF IInv, TypeOK, AddProvider
    <2>2. CASE UNCHANGED registered
      BY <2>2
    <2>3. ASSUME NEW s \in Stores, Step(s) PROVE AddProvider(s) \/ UNCHANGED registered
      BY <2>3 DEF Step, CheckProvider, BuildProvider, LookUpProvider, GetInstance, OpenKeyStore, registry
    <2>4. ASSUME NEW s \in Stores, NEW e \in Devices \cup {None}, NEW w \in Passwords \cup {None},
                 Load(s, e, w)
          PROVE  UNCHANGED registered
      BY <2>4 DEF Load, registry
    <2> QED
      BY <2>1, <2>2, <2>3, <2>4 DEF Next, Finished, vars
  <1> QED
    BY <1>1, Inductive, PTL DEF Spec, RegistrationIsFinal

-------------------------------------------------------------------------------
(* The manager. *)

LEMMA ManagerStarts == ManagerInit => Init
BY DEF ManagerInit

LEMMA ManagerSteps == ManagerNext => [Next]_vars
<1> SUFFICES ASSUME ManagerNext PROVE Next \/ UNCHANGED vars
    OBVIOUS
<1> USE MadeHere DEF Next
<1>1. CASE Construct
    BY <1>1 DEF Construct, InitFirefoxStore
<1>2. CASE ExplorerLoaded
    BY <1>2 DEF ExplorerLoaded, InitFirefoxStore
<1>3. CASE FirefoxLoaded
    BY <1>3 DEF FirefoxLoaded
<1>4. CASE \E s \in Others : AddKeyStore(s)
    BY <1>4 DEF AddKeyStore
<1>5. ASSUME NEW s \in Others, NEW d \in Devices \cup {None}, NEW w \in Passwords \cup {None}, LoadOther(s, d, w)
      PROVE  Next
    BY <1>5 DEF LoadOther, Others
<1>6. CASE FlushKeyStoresTable
    BY <1>6 DEF FlushKeyStoresTable
<1>7. CASE \E s \in Stores : LoadStep(s)
    BY <1>7 DEF LoadStep
<1>8. CASE \E s \in Stores : TakeOut(s)
    BY <1>8 DEF TakeOut
<1>9. CASE GetCertificates \/ \E c \in Certs : GetPrivateKeyEntryByDn(DN[c])
    BY <1>9 DEF GetCertificates, GetPrivateKeyEntryByDn
<1>10. CASE NextStore \/ NextAlias \/ Threw
    BY <1>10 DEF NextStore, NextAlias, Threw
<1> QED
    BY <1>1, <1>2, <1>3, <1>4, <1>5, <1>6, <1>7, <1>8, <1>9, <1>10 DEF ManagerNext

\* To the keystores the manager is one of their users: each of its steps is a step of
\* KeyStores or changes nothing there, so what is proved of keystores holds of its own.
THEOREM UsesKeyStores == ManagerSpec => Spec
<1>1. [ManagerNext]_<<vars, managerVars>> => [Next]_vars
    BY ManagerSteps
<1> QED
    BY <1>1, ManagerStarts, PTL DEF ManagerSpec, Spec

-------------------------------------------------------------------------------
ManagerTypes ==
    /\ at \in {"none", "explorer", "firefox", "ready", "store", "alias", "threw"}
    /\ keystores \in Seq(Stores)
    /\ aliases \in [Stores -> Seq(Certs \cup {KeyAlone})]
    /\ certificates \in Seq(Certs \cup {None})
    /\ i \in Nat /\ j \in Nat

\* No keystore is being loaded when the list is known to be of the keystores as they are.
Quiet ==
    "stores" \notin since => at \in {"ready", "store", "alias"} /\ \A s \in Stores : pc[s] = "idle"

\* Where the loops are.
Within ==
    /\ at \in {"store", "alias"} => i >= 1
    /\ at = "alias" => i <= Len(keystores) /\ j >= 1

\* The loop that lists has done all it passed.
Passed ==
    (at \in {"store", "alias"} /\ dn = None) =>
        /\ "stores" \notin since
        /\ \A k \in 1..Len(keystores) : k < i => ListsAll(keystores[k])
        /\ at = "alias" => Lists(Current, j - 1)

ManagerInv == ManagerTypes /\ Quiet /\ Within /\ Passed /\ ListIsComplete

LEMMA ManagerInvInit == ManagerInit => ManagerInv
BY TableType DEF ManagerInit, Init, ManagerInv, ManagerTypes, Quiet, Within, Passed, ListIsComplete

\* What is listed stays listed while nothing is taken from the list.
LEMMA StillListed ==
    ASSUME aliases' = aliases,
           \A l \in 1..Len(certificates) : l \in 1..Len(certificates') /\ certificates'[l] = certificates[l],
           NEW s, NEW n \in Nat, Lists(s, n)
    PROVE  Lists(s, n)'
BY DEF Lists, Certificate

\* Steps that leave the loops, the list and the certificates alone: a keystore that
\* failed fails still, unless the stores may have changed.
LEMMA ElsewhereInv ==
    ASSUME ManagerInv,
           UNCHANGED <<at, keystores, aliases, dn, i, j, certificates>>,
           since \subseteq since',
           (at \in {"store", "alias"} /\ dn = None) => "stores" \notin since',
           "stores" \notin since' => UNCHANGED vars /\ removed \subseteq removed'
    PROVE  ManagerInv'
<1> USE DEF ManagerInv
<1>1. \A s, n : Lists(s, n)' <=> Lists(s, n)
    BY DEF Lists, Certificate
<1>2. \A s : ListsAll(s)' <=> ListsAll(s)
    BY <1>1 DEF ListsAll, Lists, Certificate
<1>3. ManagerTypes' /\ Within'
    BY DEF ManagerTypes, Within
<1>4. Quiet'
    BY DEF Quiet, vars
<1>5. Passed'
    BY <1>1, <1>2 DEF Passed, Current
<1>6. ListIsComplete'
    <2> SUFFICES ASSUME at = "ready", dn = None, "stores" \notin since'
                 PROVE  ListIsComplete'
        BY DEF ListIsComplete
    <2>1. \A s : Fails(s) => Fails(s)'
        BY DEF Fails, Access, vars
    <2> QED
        BY <1>2, <2>1 DEF ListIsComplete
<1> QED
    BY <1>3, <1>4, <1>5, <1>6

LEMMA ConstructorInv == ASSUME ManagerInv, Construct \/ ExplorerLoaded \/ FirefoxLoaded PROVE ManagerInv'
<1>1. at \in {"none", "explorer", "firefox"} /\ "stores" \in since
    BY DEF ManagerInv, Quiet, Construct, ExplorerLoaded, FirefoxLoaded
<1>2. /\ at' \in {"explorer", "firefox", "ready", "threw"}
      /\ keystores' \in {keystores, Append(keystores, Firefox)}
      /\ UNCHANGED <<world, results, since>>
    BY DEF Construct, InitFirefoxStore, ExplorerLoaded, FirefoxLoaded
<1>3. keystores' \in Seq(Stores)
    <2>1. keystores \in Seq(Stores)
        BY DEF ManagerInv, ManagerTypes
    <2>2. Append(keystores, Firefox) \in Seq(Stores)
        BY <2>1, MadeHere
    <2>3. keystores' = keystores \/ keystores' = Append(keystores, Firefox)
        BY <1>2
    <2> QED
        BY <2>1, <2>2, <2>3
<1> QED
    BY <1>1, <1>2, <1>3
       DEF ManagerInv, ManagerTypes, Quiet, Within, Passed, ListIsComplete, world, results

LEMMA ListOfStoresInv ==
    ASSUME ManagerInv, FlushKeyStoresTable \/ \E s \in Others : AddKeyStore(s)
    PROVE  ManagerInv'
<1>1. at = "ready" /\ "stores" \in since' /\ UNCHANGED <<at, world, results>>
    BY DEF FlushKeyStoresTable, AddKeyStore, ManagerIdle
<1>2. keystores' \in Seq(Stores)
    <2>1. ASSUME NEW s \in Others, AddKeyStore(s) PROVE keystores' \in Seq(Stores)
        BY <2>1 DEF ManagerInv, ManagerTypes, AddKeyStore, Others
    <2>2. CASE FlushKeyStoresTable
        <3>1. keystores' = <<>>
            BY <2>2 DEF FlushKeyStoresTable
        <3> QED
            BY <3>1
    <2> QED
        BY <2>1, <2>2
<1> QED
    BY <1>1, <1>2 DEF ManagerInv, ManagerTypes, Quiet, Within, Passed, ListIsComplete, world, results

LEMMA LoadOtherInv ==
    ASSUME ManagerInv, NEW s \in Others, NEW d, NEW w, LoadOther(s, d, w)
    PROVE  ManagerInv'
<1>1. /\ at = "ready" /\ "stores" \in since' /\ since \subseteq since'
      /\ UNCHANGED <<at, keystores, aliases, dn, i, j, certificates>>
    BY DEF LoadOther, ManagerIdle, world, results
<1> QED
    BY <1>1, ElsewhereInv

LEMMA LoadStepInv == ASSUME ManagerInv, NEW s \in Stores, LoadStep(s) PROVE ManagerInv'
<1>1. pc[s] # "idle"
    BY DEF LoadStep, Step, CheckProvider, BuildProvider, AddProvider, LookUpProvider, GetInstance, OpenKeyStore
<1>2. "stores" \in since
    BY <1>1 DEF ManagerInv, Quiet
<1>3. UNCHANGED managerVars
    BY DEF LoadStep
<1>4. at \notin {"store", "alias"} \/ dn # None
    BY <1>2 DEF ManagerInv, Passed
<1> QED
    BY <1>2, <1>3, <1>4
       DEF ManagerInv, ManagerTypes, Quiet, Within, Passed, ListIsComplete, managerVars

LEMMA TakeOutInv == ASSUME ManagerInv, NEW s \in Stores, TakeOut(s) PROVE ManagerInv'
<1>1. /\ UNCHANGED <<vars, at, keystores, aliases, dn, i, j, certificates>>
      /\ since' = since \cup {"tokens"}
      /\ removed \subseteq removed'
    BY DEF TakeOut, results
<1>2. "stores" \in since' <=> "stores" \in since
    BY <1>1
<1>3. (at \in {"store", "alias"} /\ dn = None) => "stores" \notin since
    BY DEF ManagerInv, Passed
<1> QED
    BY <1>1, <1>2, <1>3, ElsewhereInv

-------------------------------------------------------------------------------
(* The loops. *)

LEMMA BeginInv ==
    ASSUME ManagerInv, GetCertificates \/ \E c \in Certs : GetPrivateKeyEntryByDn(DN[c])
    PROVE  ManagerInv'
<1>1. CASE GetCertificates
    <2>1. /\ \A s \in Stores : pc[s] = "idle"
          /\ at' = "store" /\ i' = 1 /\ certificates' = <<>>
          /\ UNCHANGED <<vars, keystores, world, j>> /\ since' = {}
        BY <1>1 DEF GetCertificates, ManagerIdle
    <2> QED
        BY <2>1 DEF ManagerInv, ManagerTypes, Quiet, Within, Passed, ListIsComplete, world, vars
<1>2. CASE \E c \in Certs : GetPrivateKeyEntryByDn(DN[c])
    <2>1. /\ at' = "store" /\ i' = 1 /\ dn' # None
          /\ at = "ready"
          /\ UNCHANGED <<vars, keystores, world, j, certificates, since>>
        BY <1>2, EntryType DEF GetPrivateKeyEntryByDn, ManagerIdle
    <2> QED
        BY <2>1 DEF ManagerInv, ManagerTypes, Quiet, Within, Passed, ListIsComplete, world, vars
<1> QED
    BY <1>1, <1>2

LEMMA NextStoreInv == ASSUME ManagerInv, NextStore PROVE ManagerInv'
<1> USE DEF ManagerInv
<1>1. UNCHANGED <<vars, keystores, world, dn, i, certificates, found, since>> /\ at = "store"
    BY DEF NextStore
<1>2. /\ \A s, n : Lists(s, n)' <=> Lists(s, n)
      /\ \A s : ListsAll(s)' <=> ListsAll(s)
      /\ \A s : Fails(s)' <=> Fails(s)
    BY <1>1 DEF Lists, ListsAll, Certificate, Fails, Access, world, vars
<1>3. CASE i > Len(keystores) \/ Fails(Current)
    <2>1. at' = "ready" /\ j' = j
        BY <1>3 DEF NextStore
    <2>2. ManagerTypes' /\ Quiet' /\ Within' /\ Passed'
        BY <1>1, <2>1 DEF ManagerTypes, Quiet, Within, Passed, world, vars
    <2>3. ASSUME dn = None, NEW k \in 1..Len(keystores), \A m \in 1..k : ~Fails(keystores[m])
          PROVE  ListsAll(keystores[k])
        <3>1. k < i
            BY <1>1, <1>3, <2>3 DEF Current, Within, ManagerTypes
        <3> QED
            BY <1>1, <2>3, <3>1 DEF Passed
    <2>4. ListIsComplete'
        BY <1>1, <1>2, <2>3 DEF ListIsComplete
    <2> QED
        BY <2>2, <2>4
<1>4. CASE ~(i > Len(keystores) \/ Fails(Current))
    <2>1. at' = "alias" /\ j' = 1 /\ i <= Len(keystores)
        BY <1>4 DEF NextStore, ManagerTypes
    <2>2. Lists(Current, 0)
        BY DEF Lists
    <2>3. Passed'
        BY <1>1, <1>2, <2>1, <2>2 DEF Passed, Current
    <2> QED
        BY <1>1, <2>1, <2>3 DEF ManagerTypes, Quiet, Within, ListIsComplete, world, vars
<1> QED
    BY <1>3, <1>4

LEMMA ListAliasInv ==
    ASSUME ManagerInv, NextAlias, dn = None, j <= Len(aliases[Current]), ~Fails(Current)
    PROVE  ManagerInv'
<1> DEFINE c == Certificate(aliases[Current][j])
<1> USE DEF ManagerInv
<1>1. /\ at = "alias" /\ at' = "alias" /\ i' = i /\ j' = j + 1
      /\ UNCHANGED <<vars, keystores, world, dn, since>>
      /\ certificates' = Append(certificates, c)
    BY DEF NextAlias, ListAlias, ManagerTypes
<1>2. c \in Certs \cup {None}
    BY DEF Certificate
<1>3. /\ certificates' \in Seq(Certs \cup {None})
      /\ Len(certificates') = Len(certificates) + 1
      /\ certificates'[Len(certificates')] = c
      /\ \A l \in 1..Len(certificates) : l \in 1..Len(certificates') /\ certificates'[l] = certificates[l]
    BY <1>1, <1>2 DEF ManagerTypes
<1>4. Current \in Stores /\ j \in 1..Len(aliases[Current]) /\ aliases' = aliases /\ Current' = Current
    BY <1>1 DEF ManagerTypes, Within, Current, world
<1>5. ASSUME NEW s, s = Current, NEW n, n = j PROVE Lists(s, n)'
    <2> SUFFICES ASSUME NEW m \in 1..n, Certificate(aliases[s][m]) # None
                 PROVE  \E l \in 1..Len(certificates') : certificates'[l] = Certificate(aliases[s][m])
        BY <1>4 DEF Lists, Certificate
    <2>1. CASE m = j
        BY <2>1, <1>3, <1>5, Len(certificates') \in 1..Len(certificates') DEF ManagerTypes
    <2>2. CASE m # j
        <3>1. m \in 1..(j - 1)
            BY <2>2, <1>4, <1>5
        <3>2. \E l \in 1..Len(certificates) : certificates[l] = Certificate(aliases[Current][m])
            BY <1>1, <1>5, <3>1 DEF Passed, Lists
        <3> QED
            BY <3>2, <1>3, <1>5
    <2> QED
        BY <2>1, <2>2
<1>6. ASSUME NEW s \in Stores, ListsAll(s) PROVE ListsAll(s)'
    <2> DEFINE n == Len(aliases[s])
    <2>1. n \in Nat /\ Lists(s, n)
        BY <1>6 DEF ListsAll, ManagerTypes
    <2>2. \A k \in Nat : Lists(s, k) => Lists(s, k)'
        BY <1>3, <1>4, StillListed
    <2> QED
        BY <2>1, <2>2, <1>4 DEF ListsAll, Lists
<1>7. ManagerTypes' /\ Quiet' /\ Within' /\ ListIsComplete'
    BY <1>1, <1>3, <1>4 DEF ManagerTypes, Quiet, Within, ListIsComplete, world, vars
<1>8. Passed'
    <2>1. "stores" \notin since'
        BY <1>1 DEF Passed
    <2>2. ASSUME NEW k \in 1..Len(keystores), k < i PROVE ListsAll(keystores[k])'
        <3>1. ListsAll(keystores[k]) /\ keystores[k] \in Stores
            BY <1>1, <2>2 DEF Passed, ManagerTypes
        <3>2. \A s \in Stores : ListsAll(s) => ListsAll(s)'
            BY <1>6
        <3> QED
            BY <3>1, <3>2, <1>1 DEF ListsAll, Lists
    <2>3. Lists(Current, j - 1)'
        <3>1. \A s, n : s = Current /\ n = j => Lists(s, n)'
            BY <1>5
        <3>2. j' - 1 = j
            BY <1>1 DEF ManagerTypes
        <3> QED
            BY <3>1, <3>2, <1>4 DEF Lists
    <2> QED
        BY <1>1, <2>1, <2>2, <2>3 DEF Passed
<1> QED
    BY <1>7, <1>8

LEMMA NextAliasInv == ASSUME ManagerInv, NextAlias PROVE ManagerInv'
<1> USE DEF ManagerInv
<1>1. at = "alias" /\ UNCHANGED <<vars, keystores, world, dn, since>>
    BY DEF NextAlias
<1>2. CASE dn # None
    <2>1. /\ certificates' = certificates
          /\ \/ at' = "store" /\ i' = i + 1 /\ j' = j
             \/ at' \in {"ready", "alias"} /\ i' = i /\ j' \in {j, j + 1}
        BY <1>1, <1>2 DEF NextAlias, MatchAlias
    <2> QED
        BY <1>1, <1>2, <2>1 DEF ManagerTypes, Quiet, Within, Passed, ListIsComplete, world, vars
<1>3. CASE dn = None /\ (j > Len(aliases[Current]) \/ Fails(Current))
    <2>1. UNCHANGED certificates
        BY <1>3 DEF NextAlias, ManagerTypes
    <2>2. /\ \A s, n : Lists(s, n)' <=> Lists(s, n)
          /\ \A s : ListsAll(s)' <=> ListsAll(s)
          /\ \A s : Fails(s)' <=> Fails(s)
        BY <1>1, <2>1 DEF Lists, ListsAll, Certificate, Fails, Access, world, vars
    <2>3. CASE j > Len(aliases[Current])
        <3>1. at' = "store" /\ i' = i + 1 /\ j' = j
            BY <2>3, <1>1 DEF NextAlias
        <3>2. ListsAll(Current)
            BY <1>1, <1>3, <2>3 DEF Passed, ListsAll, Lists, ManagerTypes
        <3>3. Passed'
            BY <1>1, <1>3, <2>2, <3>1, <3>2 DEF Passed, Current, ManagerTypes
        <3> QED
            BY <1>1, <2>1, <3>1, <3>3 DEF ManagerTypes, Quiet, Within, ListIsComplete, world, vars
    <2>4. CASE ~(j > Len(aliases[Current]))
        <3>1. Fails(Current) /\ at' = "ready" /\ UNCHANGED <<i, j>>
            BY <2>4, <1>1, <1>3 DEF NextAlias
        <3>2. ASSUME NEW k \in 1..Len(keystores), \A m \in 1..k : ~Fails(keystores[m])
              PROVE  ListsAll(keystores[k])
            <4>1. k < i
                BY <1>1, <3>1, <3>2 DEF Current, Within, ManagerTypes
            <4> QED
                BY <1>1, <1>3, <4>1 DEF Passed
        <3>3. ListIsComplete'
            BY <1>1, <2>2, <3>2 DEF ListIsComplete
        <3> QED
            BY <1>1, <2>1, <3>1, <3>3 DEF ManagerTypes, Quiet, Within, Passed, world, vars
    <2> QED
        BY <2>3, <2>4
<1>4. CASE dn = None /\ ~(j > Len(aliases[Current]) \/ Fails(Current))
    <2>1. Current \in Stores
        BY <1>1 DEF Current, Within, ManagerTypes
    <2>2. j <= Len(aliases[Current])
        BY <2>1, <1>4 DEF ManagerTypes
    <2> QED
        BY <2>2, <1>4, ListAliasInv
<1> QED
    BY <1>2, <1>3, <1>4

LEMMA ManagerInvStep == ManagerInv /\ [ManagerNext]_<<vars, managerVars>> => ManagerInv'
<1> SUFFICES ASSUME ManagerInv, [ManagerNext]_<<vars, managerVars>> PROVE ManagerInv'
    OBVIOUS
<1>1. CASE UNCHANGED <<vars, managerVars>> \/ Threw
    <2>1. UNCHANGED <<vars, managerVars>>
        BY <1>1 DEF Threw
    <2>2. UNCHANGED <<at, keystores, aliases, dn, i, j, certificates>> /\ UNCHANGED <<since, removed>>
        BY <2>1 DEF managerVars
    <2>3. (at \in {"store", "alias"} /\ dn = None) => "stores" \notin since
        BY DEF ManagerInv, Passed
    <2> QED
        BY <2>1, <2>2, <2>3, ElsewhereInv
<1>2. CASE ManagerNext
    BY <1>1, <1>2, ConstructorInv, ListOfStoresInv, LoadOtherInv, LoadStepInv, TakeOutInv,
       BeginInv, NextStoreInv, NextAliasInv DEF ManagerNext
<1> QED
    BY <1>1, <1>2

-------------------------------------------------------------------------------
(* What was listed, and where a lookup is in it. *)

\* The list is of the keystores before e, in their order, and n entries of that one;
\* off[k] is how many entries come before those of keystore k.
Placed(off, e, n) ==
    /\ off[1] = 0 /\ Len(certificates) = off[e] + n
    /\ \A k \in 1..e : off[k] \in 0..Len(certificates)
    /\ \A k \in 1..e - 1 :
           /\ ~Fails(keystores[k])
           /\ off[k + 1] = off[k] + Len(aliases[keystores[k]])
           /\ \A m \in 1..Len(aliases[keystores[k]]) :
                  certificates[off[k] + m] = Certificate(aliases[keystores[k]][m])
    /\ \A m \in 1..n : certificates[off[e] + m] = Certificate(aliases[keystores[e]][m])

\* No entry of the first n is what is looked for, nor ends the lookup.
Unmatched(n) == \A m \in 1..n : certificates[m] # None /\ DN[certificates[m]] # dn

Listing(off, e, n) ==
    /\ e = i
    /\ at = "store" => n = 0
    /\ at = "alias" => ~Fails(Current) /\ n = j - 1 /\ n <= Len(aliases[Current])

\* The list ends where a keystore fails, and so would the lookup.
LookingUp(off, e, n) ==
    /\ n = 0
    /\ e > Len(keystores) \/ Fails(keystores[e])
    /\ at = "store" => i <= e /\ Unmatched(off[i]) /\ found = None
    /\ at = "alias" => /\ i < e /\ j - 1 <= Len(aliases[Current])
                       /\ Unmatched(off[i] + (j - 1)) /\ found = None

InPlace ==
    since = {} =>
        \E off, e, n :
            /\ e \in 1..Len(keystores) + 1 /\ n \in Nat
            /\ Placed(off, e, n)
            /\ IF dn = None /\ at \in {"store", "alias"} THEN Listing(off, e, n) ELSE LookingUp(off, e, n)

FindInv == InPlace /\ ListedCanBeFound

LEMMA FindInvInit == ManagerInit => FindInv
BY DEF ManagerInit, FindInv, InPlace, ListedCanBeFound

\* The entries of the keystores have certificates or not, and an entry has one place.
LEMMA StoresHere ==
    ASSUME ManagerInv, NEW k \in 1..Len(keystores)
    PROVE  keystores[k] \in Stores /\ Len(aliases[keystores[k]]) \in Nat
BY DEF ManagerInv, ManagerTypes

LEMMA ListedAre ==
    ASSUME ManagerInv
    PROVE  /\ Len(certificates) \in Nat /\ Len(keystores) \in Nat
           /\ \A m \in 1..Len(certificates) : certificates[m] \in Certs \cup {None}
BY DEF ManagerInv, ManagerTypes

\* Where the list ends is the first keystore at which a loop would.
LEMMA EndsThere ==
    ASSUME ManagerInv, NEW off, NEW e \in 1..Len(keystores) + 1, NEW n, Placed(off, e, n), LookingUp(off, e, n),
           at = "store"
    PROVE  IF i > Len(keystores) \/ Fails(Current) THEN i = e ELSE i < e
<1>1. i \in Nat /\ i >= 1 /\ i <= e /\ e \in Nat /\ Len(keystores) \in Nat
    BY ListedAre DEF ManagerInv, ManagerTypes, Within, LookingUp
<1>2. i < e => ~Fails(Current) /\ i <= Len(keystores)
    <2>1. i < e => i \in 1..e - 1
        BY <1>1
    <2> QED
        BY <1>1, <2>1 DEF Placed, Current
<1>3. i = e => i > Len(keystores) \/ Fails(Current)
    BY <1>1 DEF LookingUp, Current
<1> QED
    BY <1>1, <1>2, <1>3

LEMMA NothingMovesFind ==
    ASSUME ManagerInv, FindInv, UNCHANGED <<vars, at, keystores, aliases, dn, i, j, certificates, found, since>>,
           since' = {} => UNCHANGED removed
    PROVE  FindInv'
<1>1. CASE since' # {}
    BY <1>1 DEF FindInv, InPlace, ListedCanBeFound
<1>2. CASE since' = {}
    <2>1. \A s : Fails(s)' <=> Fails(s)
        BY <1>2 DEF Fails, Access, vars
    <2>2. ListedCanBeFound'
        BY DEF FindInv, ListedCanBeFound
    <2>3. \A off, e, n : Placed(off, e, n)' <=> Placed(off, e, n)
        BY <2>1 DEF Placed, Certificate
    <2>4. \A off, e, n : Listing(off, e, n)' <=> Listing(off, e, n)
        BY <2>1 DEF Listing, Current
    <2>5. \A off, e, n : LookingUp(off, e, n)' <=> LookingUp(off, e, n)
        BY <2>1 DEF LookingUp, Current, Unmatched
    <2> QED
        BY <2>2, <2>3, <2>4, <2>5 DEF FindInv, InPlace
<1> QED
    BY <1>1, <1>2

\* All other steps change what the list is of.
LEMMA ElsewhereFind ==
    ASSUME ManagerInv, FindInv,
           \/ Construct \/ ExplorerLoaded \/ FirefoxLoaded \/ FlushKeyStoresTable
           \/ \E s \in Others : AddKeyStore(s) \/ \E d \in Devices \cup {None}, w \in Passwords \cup {None} : LoadOther(s, d, w)
           \/ \E s \in Stores : LoadStep(s) \/ TakeOut(s)
    PROVE  FindInv'
<1>1. CASE Construct \/ ExplorerLoaded \/ FirefoxLoaded
    <2>1. since # {} /\ since' = since
        BY <1>1 DEF ManagerInv, Quiet, Construct, ExplorerLoaded, FirefoxLoaded
    <2> QED
        BY <2>1 DEF FindInv, InPlace, ListedCanBeFound
<1>2. ASSUME NEW s \in Stores, LoadStep(s) PROVE since # {} /\ since' = since
    <2>1. pc[s] # "idle"
        BY <1>2 DEF LoadStep, Step, CheckProvider, BuildProvider, AddProvider, LookUpProvider, GetInstance, OpenKeyStore
    <2> QED
        BY <1>2, <2>1 DEF ManagerInv, Quiet, LoadStep, managerVars
<1>3. ASSUME \/ FlushKeyStoresTable
             \/ \E s \in Others : AddKeyStore(s) \/ \E d \in Devices \cup {None}, w \in Passwords \cup {None} : LoadOther(s, d, w)
             \/ \E s \in Stores : TakeOut(s)
      PROVE  since' # {}
    BY <1>3 DEF FlushKeyStoresTable, AddKeyStore, LoadOther, TakeOut
<1> QED
    BY <1>1, <1>2, <1>3 DEF FindInv, InPlace, ListedCanBeFound

LEMMA GetCertificatesFind == ASSUME ManagerInv, FindInv, GetCertificates PROVE FindInv'
<1>1. /\ at' = "store" /\ i' = 1 /\ dn' = None /\ certificates' = <<>> /\ since' = {}
      /\ UNCHANGED <<vars, keystores, world>>
    BY DEF GetCertificates
<1> DEFINE off == [k \in {1} |-> 0]
<1>2. Placed(off, 1, 0)'
    BY <1>1 DEF Placed
<1>3. Listing(off, 1, 0)'
    BY <1>1 DEF Listing
<1>4. 1 \in 1..Len(keystores') + 1
    BY <1>1, ListedAre
<1> QED
    BY <1>1, <1>2, <1>3, <1>4 DEF FindInv, InPlace, ListedCanBeFound

LEMMA BeginFind == ASSUME ManagerInv, FindInv, NEW c \in Certs, GetPrivateKeyEntryByDn(DN[c]) PROVE FindInv'
<1>1. /\ at = "ready" /\ at' = "store" /\ i' = 1 /\ dn' = DN[c] /\ dn' # None /\ found' = None
      /\ UNCHANGED <<vars, keystores, world, certificates, since>>
    BY EntryType DEF GetPrivateKeyEntryByDn, ManagerIdle
<1> SUFFICES ASSUME since = {} PROVE InPlace'
    BY <1>1 DEF FindInv, InPlace, ListedCanBeFound
<1>2. PICK off, e, n : e \in 1..Len(keystores) + 1 /\ n \in Nat /\ Placed(off, e, n) /\ LookingUp(off, e, n)
    BY <1>1 DEF FindInv, InPlace
<1>3. \A s : Fails(s)' <=> Fails(s)
    BY <1>1 DEF Fails, Access, vars, world
<1>4. Placed(off, e, n)'
    BY <1>1, <1>2, <1>3 DEF Placed, Certificate, world
<1>5. LookingUp(off, e, n)'
    <2>1. off[i'] = 0 /\ Unmatched(0)' /\ i' <= e
        BY <1>1, <1>2 DEF Placed, Unmatched
    <2> QED
        BY <1>1, <1>2, <1>3, <2>1 DEF LookingUp
<1> QED
    BY <1>1, <1>2, <1>4, <1>5 DEF InPlace

\* A lookup that ends here has passed all that was listed.
LEMMA NoneLeft ==
    ASSUME ManagerInv, found = None, Unmatched(Len(certificates))
    PROVE  ListedCanBeFound
BY DEF ListedCanBeFound, Unmatched

LEMMA NextStoreFind == ASSUME ManagerInv, FindInv, NextStore PROVE FindInv'
<1>1. at = "store" /\ UNCHANGED <<vars, keystores, world, dn, i, certificates, found, since>>
    BY DEF NextStore
<1>2. /\ i > Len(keystores) \/ Fails(Current) => at' = "ready"
      /\ ~(i > Len(keystores) \/ Fails(Current)) => at' = "alias" /\ j' = 1
    BY DEF NextStore
<1>3. at' \in {"ready", "alias"}
    BY <1>2
<1> SUFFICES ASSUME since = {} PROVE InPlace' /\ ListedCanBeFound'
    BY <1>1 DEF FindInv, InPlace, ListedCanBeFound
<1>4. PICK off, e, n :
           /\ e \in 1..Len(keystores) + 1 /\ n \in Nat
           /\ Placed(off, e, n)
           /\ IF dn = None THEN Listing(off, e, n) ELSE LookingUp(off, e, n)
    BY <1>1 DEF FindInv, InPlace
<1>5. \A s : Fails(s)' <=> Fails(s)
    BY <1>1 DEF Fails, Access, vars, world
<1>6. Placed(off, e, n)' /\ e \in 1..Len(keystores') + 1
    BY <1>1, <1>4, <1>5 DEF Placed, Certificate, world
<1>7. aliases' = aliases /\ Current' = Current
    BY <1>1 DEF world, Current
<1>8. CASE dn = None
    <2>1. e = i /\ n = 0
        BY <1>1, <1>4, <1>8 DEF Listing
    <2>2. at' = "alias" => Listing(off, e, n)'
        <3>1. at' = "alias" => ~Fails(Current) /\ i <= Len(keystores) /\ j' = 1
            BY <1>2, ListedAre DEF ManagerInv, ManagerTypes
        <3>2. at' = "alias" => 0 <= Len(aliases[Current])
            BY <1>1, <3>1, StoresHere DEF Current, ManagerInv, ManagerTypes, Within
        <3> QED
            BY <1>1, <1>5, <1>7, <2>1, <3>1, <3>2 DEF Listing
    <2>3. at' = "ready" => LookingUp(off, e, n)'
        BY <1>1, <1>2, <1>5, <2>1, ListedAre DEF LookingUp, Current, ManagerInv, ManagerTypes
    <2> QED
        BY <1>1, <1>3, <1>4, <1>6, <1>8, <2>2, <2>3 DEF InPlace, ListedCanBeFound
<1>9. CASE dn # None
    <2>1. LookingUp(off, e, n)
        BY <1>4, <1>9
    <2>2. i <= e /\ Unmatched(off[i]) /\ found = None
        BY <1>1, <2>1 DEF LookingUp
    <2>3. \A m : Unmatched(m)' <=> Unmatched(m)
        BY <1>1 DEF Unmatched
    <2>4. IF i > Len(keystores) \/ Fails(Current) THEN i = e ELSE i < e
        BY <1>1, <1>4, <2>1, EndsThere
    <2>5. CASE at' = "ready"
        <3>1. i = e
            BY <1>2, <2>4, <2>5
        <3>2. off[i] = Len(certificates)
            BY <1>4, <2>1, <3>1 DEF Placed, LookingUp
        <3>3. ListedCanBeFound
            BY <2>2, <3>2, NoneLeft
        <3>4. ListedCanBeFound'
            BY <1>1, <2>2, <3>2, <2>3 DEF ListedCanBeFound, Unmatched
        <3>5. LookingUp(off, e, n)'
            BY <1>1, <1>5, <2>1, <2>5 DEF LookingUp
        <3> QED
            BY <1>1, <1>4, <1>6, <1>9, <2>5, <3>4, <3>5 DEF InPlace
    <2>6. CASE at' = "alias"
        <3>1. i < e /\ j' = 1
            BY <1>2, <2>4, <2>6
        <3>2. i \in 1..Len(keystores)
            BY <1>1, <1>4, <3>1, ListedAre DEF ManagerInv, ManagerTypes, Within
        <3>3. 0 <= Len(aliases[Current]) /\ off[i] \in Nat
            BY <1>4, <3>1, <3>2, StoresHere DEF Current, Placed
        <3>4. LookingUp(off, e, n)'
            BY <1>1, <1>5, <1>7, <2>1, <2>2, <2>3, <2>6, <3>1, <3>3 DEF LookingUp
        <3> QED
            BY <1>1, <1>4, <1>6, <1>9, <2>6, <3>4 DEF InPlace, ListedCanBeFound
    <2> QED
        BY <1>3, <2>5, <2>6
<1> QED
    BY <1>8, <1>9

\* The loop that lists goes on in a keystore, or from it to the next.
LEMMA ListFind ==
    ASSUME ManagerInv, NextAlias, dn = None, since = {},
           NEW off, NEW n \in Nat, Placed(off, i, n), Listing(off, i, n)
    PROVE  InPlace'
<1>1. at = "alias" /\ UNCHANGED <<vars, keystores, world, dn, since>> /\ aliases' = aliases
    BY DEF NextAlias, world
<1>2. ~Fails(Current) /\ n = j - 1 /\ n <= Len(aliases[Current])
    BY <1>1 DEF Listing
<1>3. i \in 1..Len(keystores) /\ i \in Nat /\ j \in Nat /\ j >= 1
    BY <1>1 DEF ManagerInv, ManagerTypes, Within
<1>4. Current = keystores[i] /\ Current \in Stores /\ Len(aliases[Current]) \in Nat
    BY <1>3, StoresHere DEF Current
<1>5. \A s : Fails(s)' <=> Fails(s)
    BY <1>1 DEF Fails, Access, vars, world
<1>6. CASE j > Len(aliases[Current])
    <2>1. at' = "store" /\ i' = i + 1 /\ UNCHANGED certificates
        BY <1>6 DEF NextAlias
    <2>2. n = Len(aliases[Current])
        BY <1>2, <1>3, <1>4, <1>6
    <2> PICK e : e = i + 1
        OBVIOUS
    <2> PICK further : further = [k \in 1..i + 1 |-> IF k = i + 1 THEN off[i] + n ELSE off[k]]
        OBVIOUS
    <2>3. further[i + 1] = off[i] + n /\ \A k \in 1..i : further[k] = off[k]
        BY <1>3
    <2>4. /\ off[1] = 0 /\ Len(certificates) = off[i] + n
          /\ \A k \in 1..i : off[k] \in 0..Len(certificates)
        BY <1>3 DEF Placed
    <2>5. further[1] = 0 /\ Len(certificates) = further[i + 1] + 0
        BY <1>3, <2>3, <2>4
    <2>6. \A k \in 1..i + 1 : further[k] \in 0..Len(certificates)
        BY <1>3, <2>3, <2>4, <2>5
    <2>7. ASSUME NEW k \in 1..i
          PROVE  /\ ~Fails(keystores[k])
                 /\ further[k + 1] = further[k] + Len(aliases[keystores[k]])
                 /\ \A m \in 1..Len(aliases[keystores[k]]) :
                        certificates[further[k] + m] = Certificate(aliases[keystores[k]][m])
        <3>1. CASE k = i
            BY <1>2, <1>4, <2>2, <2>3, <3>1 DEF Placed
        <3>2. CASE k # i
            <4>1. k \in 1..i - 1 /\ k + 1 \in 1..i
                BY <1>3, <3>2
            <4> QED
                BY <2>3, <4>1 DEF Placed
        <3> QED
            BY <3>1, <3>2
    <2>8. Placed(further, e, 0)'
        <3>1. e - 1 = i /\ \A m \in 1..0 : FALSE
            BY <1>3
        <3>2. further[1] = 0 /\ Len(certificates') = further[e] + 0
            BY <2>1, <2>5
        <3>3. \A k \in 1..e : further[k] \in 0..Len(certificates')
            BY <2>1, <2>6
        <3>4. \A k \in 1..e - 1 :
                 /\ ~Fails(keystores[k])'
                 /\ further[k + 1] = further[k] + Len(aliases'[keystores'[k]])
                 /\ \A m \in 1..Len(aliases'[keystores'[k]]) :
                        certificates'[further[k] + m] = Certificate(aliases'[keystores'[k]][m])
            <4> SUFFICES ASSUME NEW k \in 1..i
                         PROVE  /\ ~Fails(keystores[k])'
                                /\ further[k + 1] = further[k] + Len(aliases'[keystores'[k]])
                                /\ \A m \in 1..Len(aliases'[keystores'[k]]) :
                                       certificates'[further[k] + m] = Certificate(aliases'[keystores'[k]][m])
                BY <3>1
            <4>1. ~Fails(keystores[k])'
                BY <1>1, <2>7 DEF Fails, Access, vars, world
            <4> QED
                BY <1>1, <2>1, <2>7, <4>1
        <3> QED
            BY <3>1, <3>2, <3>3, <3>4 DEF Placed, Certificate
    <2>9. Listing(further, e, 0)'
        BY <2>1 DEF Listing
    <2>10. e \in 1..Len(keystores') + 1
        BY <1>1, <1>3, ListedAre
    <2> QED
        BY <1>1, <2>1, <2>8, <2>9, <2>10 DEF InPlace
<1>7. CASE ~(j > Len(aliases[Current]))
    <2> DEFINE c == Certificate(aliases[Current][j])
    <2>1. at' = "alias" /\ i' = i /\ j' = j + 1 /\ certificates' = Append(certificates, c)
        BY <1>1, <1>2, <1>7 DEF NextAlias, ListAlias
    <2>2. c \in Certs \cup {None}
        BY DEF Certificate
    <2>3. /\ Len(certificates') = Len(certificates) + 1 /\ Len(certificates) \in Nat
          /\ certificates'[Len(certificates) + 1] = c
          /\ \A l \in 1..Len(certificates) : certificates'[l] = certificates[l]
        BY <2>1, <2>2 DEF ManagerInv, ManagerTypes
    <2>4. Len(certificates) = off[i] + n /\ off[i] \in Nat
        BY <1>3 DEF Placed
    <2>5. \A k \in 1..i : off[k] \in 0..Len(certificates')
        BY <1>3, <2>3 DEF Placed
    <2>6. ASSUME NEW k \in 1..i - 1, NEW m \in 1..Len(aliases[keystores[k]])
          PROVE  certificates'[off[k] + m] = Certificate(aliases[keystores[k]][m])
        <3>1. k \in 1..i /\ k + 1 \in 1..i /\ k \in 1..Len(keystores)
            BY <1>3
        <3>2. off[k + 1] <= Len(certificates) /\ off[k + 1] = off[k] + Len(aliases[keystores[k]])
            BY <3>1 DEF Placed
        <3>3. off[k] + m \in 1..Len(certificates)
            BY <3>1, <3>2, StoresHere, ListedAre DEF Placed
        <3> QED
            BY <2>3, <3>3 DEF Placed
    <2>7. ASSUME NEW m \in 1..n + 1 PROVE certificates'[off[i] + m] = Certificate(aliases[keystores[i]][m])
        <3>1. CASE m = n + 1
            <4>1. off[i] + m = Len(certificates) + 1 /\ m = j
                BY <1>2, <1>3, <2>4, <3>1
            <4> QED
                BY <1>4, <2>3, <4>1
        <3>2. CASE m # n + 1
            <4>1. m \in 1..n /\ off[i] + m \in 1..Len(certificates)
                BY <2>4, <3>2
            <4> QED
                BY <2>3, <4>1 DEF Placed
        <3> QED
            BY <3>1, <3>2
    <2>8. Placed(off, i, n + 1)'
        <3>1. Len(certificates') = off[i] + (n + 1) /\ off[1] = 0
            BY <2>3, <2>4 DEF Placed
        <3>2. \A k \in 1..i - 1 : ~Fails(keystores[k]) /\ off[k + 1] = off[k] + Len(aliases[keystores[k]])
            BY DEF Placed
        <3> QED
            BY <1>1, <1>5, <2>1, <2>5, <2>6, <2>7, <3>1, <3>2 DEF Placed, Certificate
    <2>9. Listing(off, i, n + 1)'
        BY <1>1, <1>2, <1>3, <1>4, <1>5, <1>7, <2>1 DEF Listing, Current
    <2> QED
        BY <1>1, <1>3, <2>1, <2>8, <2>9 DEF InPlace
<1> QED
    BY <1>6, <1>7

\* The lookup goes on, matches, or gives up, at the entry that was listed there.
LEMMA LookupFind ==
    ASSUME ManagerInv, NextAlias, dn # None, since = {},
           NEW off, NEW e \in 1..Len(keystores) + 1, NEW n \in Nat,
           Placed(off, e, n), LookingUp(off, e, n)
    PROVE  InPlace' /\ ListedCanBeFound'
<1>1. at = "alias" /\ UNCHANGED <<vars, keystores, world, dn, since, certificates>> /\ aliases' = aliases
    BY DEF NextAlias, MatchAlias, world
<1>2. i < e /\ j - 1 <= Len(aliases[Current]) /\ Unmatched(off[i] + (j - 1)) /\ found = None
    BY <1>1 DEF LookingUp
<1>3. i \in 1..Len(keystores) /\ i \in Nat /\ j \in Nat /\ j >= 1 /\ e \in Nat /\ i \in 1..e - 1
    BY <1>1, <1>2 DEF ManagerInv, ManagerTypes, Within
<1>4. Current = keystores[i] /\ Current \in Stores /\ Len(aliases[Current]) \in Nat
    BY <1>3, StoresHere DEF Current
<1>5. \A s : Fails(s)' <=> Fails(s)
    BY <1>1 DEF Fails, Access, vars, world
<1>6. Placed(off, e, n)' /\ e \in 1..Len(keystores') + 1
    BY <1>1, <1>5 DEF Placed, Certificate
<1>7. ~Fails(Current) /\ off[i + 1] = off[i] + Len(aliases[Current]) /\ off[i] \in Nat
    BY <1>3, <1>4 DEF Placed
<1>8. \A m : Unmatched(m)' <=> Unmatched(m)
    BY <1>1 DEF Unmatched
<1>9. CASE j > Len(aliases[Current])
    <2>1. at' = "store" /\ i' = i + 1 /\ UNCHANGED found
        BY <1>9 DEF NextAlias
    <2>2. off[i + 1] = off[i] + (j - 1)
        BY <1>2, <1>3, <1>4, <1>7, <1>9
    <2>3. i + 1 <= e
        BY <1>2, <1>3
    <2>4. LookingUp(off, e, n)'
        BY <1>1, <1>2, <1>5, <1>8, <2>1, <2>2, <2>3 DEF LookingUp
    <2> QED
        BY <1>1, <1>6, <2>1, <2>4 DEF InPlace, ListedCanBeFound
<1>10. CASE ~(j > Len(aliases[Current]))
    <2> DEFINE c == Certificate(aliases[Current][j])
               here == off[i] + j
    <2>1. i' = i /\ MatchAlias(c)
        BY <1>7, <1>10 DEF NextAlias, MatchAlias
    <2>2. j \in 1..Len(aliases[Current])
        BY <1>3, <1>4, <1>10
    <2>3. certificates[here] = c
        BY <1>3, <1>4, <2>2 DEF Placed
    <2>4. here \in 1..Len(certificates)
        <3>1. off[i + 1] <= Len(certificates)
            BY <1>3 DEF Placed
        <3> QED
            BY <1>4, <1>7, <2>2, <3>1, ListedAre
    <2>5. \A m \in 1..here - 1 : certificates[m] # None /\ DN[certificates[m]] # dn
        BY <1>2, <1>3, <1>7 DEF Unmatched
    <2> HIDE DEF c, here
    <2>6. CASE c = None
        <3>1. at' = "ready" /\ found' = None
            BY <1>2, <2>1, <2>6 DEF MatchAlias
        <3>2. ASSUME NEW m \in 1..Len(certificates), certificates[m] # None, DN[certificates[m]] = dn
              PROVE  \E k \in 1..m - 1 : certificates[k] = None
            BY <2>3, <2>4, <2>5, <2>6, <3>2
        <3>3. ListedCanBeFound'
            BY <1>1, <3>1, <3>2 DEF ListedCanBeFound
        <3>4. LookingUp(off, e, n)'
            BY <1>1, <1>5, <3>1 DEF LookingUp
        <3> QED
            BY <1>1, <1>6, <3>1, <3>3, <3>4 DEF InPlace
    <2>7. CASE c # None /\ DN[c] = dn
        <3>1. at' = "ready" /\ found' = [store |-> Current, cert |-> c]
            BY <2>1, <2>7 DEF MatchAlias
        <3>2. found'.cert = c /\ found' # None
            BY <1>4, <2>3, <2>4, <2>7, <3>1, ListedAre, EntryType
        <3>3. ListedCanBeFound'
            BY <1>1, <2>3, <2>4, <2>5, <2>7, <3>2 DEF ListedCanBeFound
        <3>4. LookingUp(off, e, n)'
            BY <1>1, <1>5, <3>1 DEF LookingUp
        <3> QED
            BY <1>1, <1>6, <3>1, <3>3, <3>4 DEF InPlace
    <2>8. CASE c # None /\ DN[c] # dn
        <3>1. at' = "alias" /\ j' = j + 1 /\ found' = None
            BY <1>1, <1>2, <2>1, <2>8 DEF MatchAlias
        <3>2. Unmatched(here)
            BY <2>3, <2>4, <2>5, <2>8, ListedAre DEF Unmatched
        <3>3. off[i] + (j' - 1) = here /\ j' - 1 <= Len(aliases[Current])
            BY <1>3, <1>7, <2>2, <3>1 DEF here
        <3>4. LookingUp(off, e, n)'
            BY <1>1, <1>2, <1>5, <1>8, <2>1, <3>1, <3>2, <3>3 DEF LookingUp, Current
        <3> QED
            BY <1>1, <1>6, <3>1, <3>4 DEF InPlace, ListedCanBeFound
    <2> QED
        BY <2>6, <2>7, <2>8
<1> QED
    BY <1>9, <1>10

LEMMA NextAliasFind == ASSUME ManagerInv, FindInv, NextAlias PROVE FindInv'
<1>1. at = "alias" /\ UNCHANGED <<dn, since>>
    BY DEF NextAlias
<1> SUFFICES ASSUME since = {} PROVE InPlace' /\ ListedCanBeFound'
    BY <1>1 DEF FindInv, InPlace, ListedCanBeFound
<1>2. PICK off, e, n :
           /\ e \in 1..Len(keystores) + 1 /\ n \in Nat
           /\ Placed(off, e, n)
           /\ IF dn = None THEN Listing(off, e, n) ELSE LookingUp(off, e, n)
    BY <1>1 DEF FindInv, InPlace
<1>3. CASE dn = None
    <2>1. e = i
        BY <1>2, <1>3 DEF Listing
    <2>2. InPlace'
        BY <1>2, <1>3, <2>1, ListFind
    <2> QED
        BY <1>1, <1>3, <2>2 DEF ListedCanBeFound
<1>4. CASE dn # None
    BY <1>2, <1>4, LookupFind
<1> QED
    BY <1>3, <1>4

LEMMA FindInvStep == ManagerInv /\ FindInv /\ [ManagerNext]_<<vars, managerVars>> => FindInv'
<1> SUFFICES ASSUME ManagerInv, FindInv, [ManagerNext]_<<vars, managerVars>> PROVE FindInv'
    OBVIOUS
<1>1. CASE UNCHANGED <<vars, managerVars>> \/ Threw
    BY <1>1, NothingMovesFind DEF Threw, managerVars
<1>2. CASE ManagerNext
    BY <1>1, <1>2, ElsewhereFind, GetCertificatesFind, BeginFind, NextStoreFind, NextAliasFind DEF ManagerNext
<1> QED
    BY <1>1, <1>2

-------------------------------------------------------------------------------
\* The list returned has every certificate of the keystores before the first that
\* fails, whatever was loaded, added or taken out before and since.
THEOREM ListsWhatItCan == ManagerSpec => []ListIsComplete
<1>1. ManagerInv => ListIsComplete
    BY DEF ManagerInv
<1> QED
    BY <1>1, ManagerInvInit, ManagerInvStep, PTL DEF ManagerSpec

\* The two loops agree: what was listed of a subject is what a lookup finds, for any
\* keystores and aliases, as long as nothing changed in between and no key alone is in
\* its way (getCertificates, getPrivateKeyEntryByDn).
THEOREM LookupFindsWhatWasListed == ManagerSpec => []ListedCanBeFound
<1>1. FindInv => ListedCanBeFound
    BY DEF FindInv
<1> QED
    BY <1>1, ManagerInvInit, ManagerInvStep, FindInvInit, FindInvStep, PTL DEF ManagerSpec

\* The keystores of a manager keep provider, password and state together as well.
THEOREM ManagersStoresAreCoherent == ManagerSpec => []LoadedIsCoherent
BY UsesKeyStores, LoadedStoresAreCoherent, PTL
===============================================================================
