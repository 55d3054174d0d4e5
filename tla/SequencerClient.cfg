SPECIFICATION Spec
CONSTANTS
    Depth = 2
    IndexBits = 3
    IdBytes = {0, 58, 255}
    IdLength = 3
INVARIANTS ClientInv CurrentHoldsKnown AccountMeant FoldSound OnTheWay
PROPERTIES FoldComplete CallsReturn
