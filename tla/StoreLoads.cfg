\* Two PKCS#11 keystores and a Windows one, each loaded twice by its thread; a PKCS#11
\* and a PKCS12 keystore, loaded three times with one password or the other; a manager
\* over them, with certificates of two subjects and a key alone.
SPECIFICATION MCSpec
CONSTANTS
    s1 = s1  s2 = s2  s3 = s3  s4 = s4  x1 = x1  x2 = x2  x3 = x3
    Stores = {s1, s2, s3, s4}
    Kind <- MCKinds
    DNIe = DNIe  nss = nss  NSS = nss
    Devices = {DNIe, nss}
    p = p  q = q
    Passwords = {p, q}
    None = None
    MaxLoads = 3
    Firefox = s1  Explorer = s3
    Certs = {x1, x2, x3}
    KeyAlone = KeyAlone
    DN <- MCNames
    Tables <- MCTables
    MaxListed = 3
INVARIANTS TypeOK LoadedIsCoherent ServesItsDeviceOrDNIe RegisteredIsShared ListIsComplete ListedCanBeFound
