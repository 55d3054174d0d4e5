SPECIFICATION Spec
CONSTANTS
    n1 = n1  n2 = n2
    token = token
    k1 = k1  k2 = k2  c1 = c1  c2 = c2
    Npks = {n1, n2}
    Identifiers = {0}
    Programs = {token}
    NativeProgram = token
    MaxBalance = 2
    MaxNonce = 1
    Genesis <- MCGenesis
    Keys = {k1, k2}
    Contexts = {c1, c2}
    group = c1
    minimum_stake = 1
    Nonces = {0}
    Requests <- MCRequests
    Invented <- MCInvented
    Altered <- MCAltered
    MaxReceipts = 2
    MaxSigned = 2
INVARIANTS IInv NothingBurned JoinsOnce MembersConsented FreshIsBacked
CHECK_DEADLOCK FALSE
