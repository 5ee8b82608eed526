SPECIFICATION MCFairSpec
CONSTANTS
    eoa = eoa  con = con  vacant = vacant  rip = rip
    Addr <- MCAddr
    InitLedger <- MCInitLedger
    Slot = {1}
    RIP160 = rip
    REFUND_SCLEAR = 4800  GAS_SSET = 20000  GAS_SRESET = 2900  GAS_WARMACCESS = 100
    Coinbase = vacant
    Senders = {eoa}
    Precompiles = {rip}
    Amounts = {0, 1}
    Vals = {0, 1}
    Ops = {"sstore", "call", "create"}
    AccessLists <- NoLists
    GasLimit = 5  BaseFee = 1  PriorityFee = 1
    Leftovers = {0}
    CALL_STACK_LIMIT = 1
    MAX_NONCE = 3
    MaxJournal = 9
    MaxMarks = 4
    MaxListed = 2
    MaxTxns = 1
PROPERTIES
    RevertEnds
