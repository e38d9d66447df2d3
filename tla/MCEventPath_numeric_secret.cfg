SPECIFICATION PathSpec
CONSTANTS
    Null = Null
    Inputs <- SecretInputs
    NameMax = 4
    MessageMax = 6
    LoggerMax = 4
    TextMax = 36
    KeyMax = 20
    ValueMax = 12
    Avx2Block = 4
    NeonBlock = 2
    EscapeMinLen = 4
    Utf8MinLen = 4
    Word = 256
    NumberBuffer = 12
    AppNameMax = 3
    Around <- MCAround
CHECK_DEADLOCK FALSE
INVARIANTS
    DenylistedReplaced
