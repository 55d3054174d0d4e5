SPECIFICATION Spec
CONSTANTS
    n1 = n1  n2 = n2  n3 = n3
    token = token  other = other
    k1 = k1  k2 = k2  c1 = c1  c2 = c2
    Npks = {n1, n2, n3}
    Identifiers = {0}
    Programs = {token, other}
    NativeProgram = token
    MaxBalance = 2
    MaxNonce = 3
    Genesis <- MCGenesis
    Keys = {k1, k2}
    Malformed = malformed
    Contexts = {c1, c2}
    Nonces = {0}
    Calls <- MCCalls
    Invented <- MCInvented
    MaxSigned = 2
    MaxPending = 2
INVARIANTS IInv MarkerBacked MarkerConsented ClaimsSpendStates
PROPERTIES ClaimsAreCurrent ImplementsRegistry
CHECK_DEADLOCK FALSE
