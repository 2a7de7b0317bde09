\* A Firefox keystore beside a DNIe in the same JVM.
SPECIFICATION Spec
CONSTANTS
    s1 = s1  s2 = s2
    Stores = {s1, s2}
    Kind <- MCTokens
    DNIe = DNIe  nss = nss
    Devices = {DNIe, nss}
    Passwords = {}
    None = None
    MaxLoads = 1
INVARIANTS ServesItsDevice
