SPECIFICATION Spec
CONSTANTS
    Mine = mine
    Foreign = {theirs, poor}
    Junk = {junk}
    Admissible = {mine, theirs}
    Nothing = Nothing
    MaxTries = 3
    AccBits = 16
    SomeBytes = {0, 1, 128, 255}
    SomeChars = {0, 1, 42, 63, 64, 65, 66}
    TopicBytes = {47, 37, 50, 70}
    MaxLen = 4
INVARIANT NextPending
CHECK_DEADLOCK FALSE
