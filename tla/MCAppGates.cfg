SPECIFICATION Spec
CONSTANTS
    n1 = n1  n2 = n2
    token = token
    k1 = k1  k2 = k2  short = short  noPoint = noPoint
    r1 = r1
    p1 = p1  p2 = p2
    Keys = {k1, k2}
    WrongLength = {short}
    NoPoint = {noPoint}
    Witnesses <- MCWitnesses
    Requests <- MCRequests
    Claimed <- MCClaimed
    Altered <- MCAltered
    Floors = {10000, 1000000}
    Nonces = {0, 1}
    MaxReceipts = 2
    MaxSigned = 2
    MaxConfirmed = 1
    Proposals = {p1, p2}
    minimum_stake = 10000
    relay = r1
    relay_minimum = 10000
SYMMETRY Perms
INVARIANTS AppInv TurnoutEarned KernelAgrees
PROPERTIES VotesUseOnce SessionsUseOnce
CHECK_DEADLOCK FALSE
