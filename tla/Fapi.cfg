SPECIFICATION Spec
CONSTANTS
    MaxCalls = 3
    max_reconnects_ = 1
    MaxYields = 3
    Half = 6
    Scale = 2
    MaxIntegerDigits = 1
    CountBits = 2
INVARIANT CallsAnswered
INVARIANT StreamTold
INVARIANT RequestSigned
INVARIANT AnswerTold
INVARIANT TablesRight
INVARIANT DecimalRight
CHECK_DEADLOCK FALSE
