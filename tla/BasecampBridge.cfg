SPECIFICATION Spec
CONSTANTS
    Contexts = {c1}
    Thresholds = {1, 2, 3}
    Balance = 2
    Keys = {k1, k2}
    Procs = {p1, p2}
    None = none
    Torn = torn
INVARIANTS BridgeInv KeyKept CredentialSignable CauseNamed
PROPERTY SlotReturns
