SPECIFICATION FairSpec
CONSTANTS
    t1 = t1
    t2 = t2
    here = here
    None = None
    Tabs = {t1, t2}
    Addresses = {here}
    AddressOf <- MCAddressOf
    People = {ann}
    LoginTtl = 1
    SessionTtl = 1
    MaxLogins = 2
    MaxCodes = 2
    MaxTime = 1
    MaxFaults = 1
INVARIANT OneSessionPerLogin
INVARIANT SignedOutIsOut
PROPERTY SignOutLeaves
