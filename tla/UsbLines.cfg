CONSTANTS
    Prompts <- MCPrompts
    Lengths <- MCLengths
    Endings <- MCEndings
    BufferLen = 5
    TypeAhead = FALSE
SPECIFICATION Spec
INVARIANTS
    TypeOK
    LinesAsTyped
    PasswordMasked
PROPERTIES
    ReadReturns
CHECK_DEADLOCK FALSE
