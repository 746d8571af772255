CONSTANTS
    Agent = {a}
    Cleaner = {}
    v1 = v1
    v2 = v2
    u1 = u1
    u2 = u2
    h1 = h1
    h2 = h2
    k1 = k1
    k2 = k2
    Vm = {v1, v2}
    Zero = Zero
    User = {u1, u2}
    Host = {h1, h2}
    PubKey = {k1, k2}
    Meta <- MCMetaSshd
    ConfigureSshd = TRUE
    InitialAccounts = {u2}
    InitialSshd <- MCSshdUnended
    MaxFaults = 0
    MaxMoves = 0
    MaxCleans = 0
SPECIFICATION Spec
INVARIANTS SshdFollowsMetadata
