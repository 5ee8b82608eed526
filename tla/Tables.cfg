\* An execution ends at its last row, the choice of two rows with the second.
SPECIFICATION MCSpec
CONSTANTS
    P = 2053
    MAX_USER_STACK_SIZE = 3
    SyscallJumptable = 1000
    ExceptionJumptable = 1300
    InitPc = 50
    HaltPc = 52
    InitialStates <- Executions
CHECK_DEADLOCK FALSE
INVARIANTS HonestRowsAccepted AcceptedRowsRight
PROPERTY ExecutionRight
