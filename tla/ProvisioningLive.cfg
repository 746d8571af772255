CONSTANTS
    Agent = {a}
    Cleaner = {c}
    v1 = v1
    v2 = v2
    u1 = u1
    u2 = u2
    h1 = h1
    h2 = h2
    k1 = k1
    k2 = k2
    Vm = {v1, v2}
    Zero = Zero
    User = {u1, u2}
    Host = {h1, h2}
    PubKey = {k1, k2}
    Meta <- MCMeta
    ConfigureSshd = TRUE
    InitialAccounts = {u2}
    InitialSshd <- MCSshdOne
    MaxFaults = 1
    MaxMoves = 1
    MaxCleans = 1
SPECIFICATION FairSpec
PROPERTIES EventuallyMarked
