SPECIFICATION VerifySpec
CONSTANTS
    MaxSize = 6
    ThreadsPerBlock = 3
INVARIANT VerdictExact
PROPERTY NoFalseAlarm
CHECK_DEADLOCK FALSE
