------------------------------- MODULE MCTables -------------------------------
(***************************************************************************)
(* Witness generation against the constraints, for TLC: the CPU table (one *)
(* instruction of each kind, and a few in a row between contexts and in    *)
(* and out of the kernel), the memory table and any two rows of it, and    *)
(* the arithmetic table.  A behaviour is one of them: part says which.     *)
(*                                                                         *)
(* In the CPU's executions context 0 is the kernel's, context 1 a call's.  *)
(***************************************************************************)
EXTENDS CpuTrace

VARIABLES part,
          clock, before, ops, stale, rows,    \* MemoryTable, with phase and mem
          local, following, claimed           \* ArithmeticTable

memoryVars == <<clock, before, ops, stale, rows>>
arithmeticVars == <<local, following, claimed>>
allVars == <<part, vars, memoryVars, arithmeticVars>>

-----------------------------------------------------------------------------
(* The states the executions start in.                                     *)

Address(seg, virt) == [ZeroVal EXCEPT ![1] = virt, ![2] = seg]
ContextWord(ctx, prune) == [ZeroVal EXCEPT ![1] = prune, ![3] = ctx]
HighWord == [ZeroVal EXCEPT ![1] = 10, ![2] = 1, ![5] = 7]
ValidDest == 10

\* The stack of a context in memory, and its pointer.
StackCells(ctx, s) ==
    [a \in {<<ctx, SegStack, i - 1>> : i \in 1..Len(s)} |-> s[a[3] + 1]]
SavedPointer(ctx, n) == <<ctx, SegCtxMetadata, StackSizeField>> :> Single(n)
Fixed(limit) ==
    (<<1, SegCtxMetadata, GasLimitField>> :> Single(limit)) @@
    (<<1, SegJumpdestBits, ValidDest>> :> Single(1)) @@
    (<<0, SegKernelGeneral, 4>> :> Single(9))

\* The registers start with the top of s cached; memory still has the word
\* there, or an older one.
Start(kernel, ctx, s, other, gas, limit) ==
    [reg |-> [pc |-> InitPc, kernel |-> kernel, context |-> ctx, gas |-> gas,
              stack_len |-> Len(s),
              stack_top |-> IF s = <<>> THEN ZeroVal ELSE s[Len(s)],
              is_stack_top_read |-> FALSE, check_overflow |-> FALSE],
     mem |-> StackCells(ctx, IF s = <<>> THEN s ELSE SubSeq(s, 1, Len(s) - 1))
             @@ StackCells(1 - ctx, other) @@ SavedPointer(1 - ctx, Len(other)) @@ Fixed(limit)]

InterestingWords ==
    {ZeroVal, Single(1), Address(SegKernelGeneral, 4), ContextWord(1, 0), ContextWord(0, 1),
     Single(ValidDest), HighWord, InfoWord(20, 0, 2), InfoWord(20, 1, 2)}

SecondWords == {ZeroVal, Single(1), Address(SegKernelGeneral, 4), Single(ValidDest), HighWord}
Stacks2 == {<<>>} \cup {<<a>> : a \in InterestingWords}
           \cup {<<b, a>> : a \in InterestingWords, b \in SecondWords}
Stacks3 == {<<Single(3), b, a>> : a, b \in {ZeroVal, Single(2), Address(SegKernelGeneral, 4), HighWord}}

\* One instruction of either mode, from stacks of every interesting shape.
OneStepStates ==
    {Start(1, 0, s, <<>>, 0, 30) : s \in Stacks2 \cup Stacks3} \cup
    {Start(1, 1, s, <<Single(5)>>, 0, 30) : s \in Stacks2} \cup
    {Start(0, 1, s, <<Single(5), Single(6)>>, g, 12) : g \in {0, 9, 12}, s \in Stacks2 \cup Stacks3}

\* A few instructions in a row, in and out of the kernel and between contexts.
SwitchStates ==
    {Start(0, 1, <<Single(1), ContextWord(0, 0)>>, <<Single(ValidDest)>>, 2, 14),
     Start(1, 1, <<Single(7), InfoWord(20, 0, 2), ContextWord(0, 1)>>, <<InfoWord(21, 1, 0), ContextWord(1, 0)>>, 0, 14),
     Start(1, 0, <<Single(1)>>, <<>>, 0, 14)}

Executions ==
    {[start |-> s, opcodes |-> 0..255, rows |-> 1] : s \in OneStepStates} \cup
    {[start |-> s, opcodes |-> {21, 48, 80, 86, 97, 128, 144, 246, 247, 249, 251}, rows |-> 4] :
        s \in SwitchStates}

-----------------------------------------------------------------------------
\* A preinitialized and a plain segment of the kernel, and a plain segment of a
\* context that can be pruned, with virtual addresses that need dummy rows.
Memory == INSTANCE MemoryTable WITH
    P <- 41, Code <- 0, TrieData <- 2, AccountsList <- 3, StorageList <- 4,
    Addresses <- {<<0, 0, 1>>, <<0, 1, 9>>, <<1, 1, 7>>}, Values <- {0, 1}, Waits <- {1, 5}, MaxOps <- 2,
    PairHeight <- 3, Ctxs <- {0, 1}, Segs <- {0, 1}, Virts <- {0, 2}, Times <- {0, 1}

Rows == INSTANCE ArithmeticTable WITH
    P <- 1009, LimbBits <- 2, N <- 2, LogN <- 1, BaseInverse <- 757, BnBase <- 13,
    Ops <- {"ADD", "SUB", "LT", "GT", "MUL", "SHL", "DIV", "MOD", "SHR",
            "ADDMOD", "SUBMOD", "MULMOD", "ADDFP254", "SUBFP254", "MULFP254"},
    Inputs0 <- {0, 1, 4, 6, 11, 15}, Inputs1 <- {0, 3, 8, 14, 15}, Inputs2 <- {0, 1, 4, 7, 8, 15}

ByteRow == INSTANCE ArithmeticTable WITH
    P <- 257, LimbBits <- 4, N <- 4, LogN <- 2, BaseInverse <- 241, BnBase <- 13,
    Ops <- {"BYTE"},
    Inputs0 <- {0, 1, 2, 5, 7, 8, 21, 256, 65535}, Inputs1 <- {4660, 33825, 65535}, Inputs2 <- {0}

ASSUME Memory!MemoryAssumption
ASSUME Rows!ArithmeticAssumption /\ ByteRow!ArithmeticAssumption

NoMemory == clock = 0 /\ before = 0 /\ ops = 0 /\ stale = 0 /\ rows = 0
NoArithmetic == local = 0 /\ following = 0 /\ claimed = 0
NoCpu == reg = 0 /\ init = 0 /\ trace = 0 /\ limits = 0
Idle == NoCpu /\ mem = 0 /\ phase = 0 /\ NoMemory

MCInit ==
    \/ part = "cpu" /\ Init /\ NoMemory /\ NoArithmetic
    \/ part = "memory" /\ Memory!Init /\ NoCpu /\ NoArithmetic
    \/ part = "pair" /\ Memory!PairInit /\ NoCpu /\ NoArithmetic
    \/ part = "arithmetic" /\ Rows!Init /\ Idle
    \/ part = "byte" /\ ByteRow!Init /\ Idle

OnlyCpu == part = "cpu" /\ UNCHANGED <<part, memoryVars, arithmeticVars>>
OnlyMemory == UNCHANGED <<part, reg, init, trace, limits, arithmeticVars>>
OnlyArithmetic == UNCHANGED <<part, vars, memoryVars>>

CpuStep == OnlyCpu /\ Next
MemoryStep == part = "memory" /\ OnlyMemory /\ Memory!Next
PairStep == part = "pair" /\ OnlyMemory /\ Memory!Choose
ArithmeticStep == part = "arithmetic" /\ OnlyArithmetic /\ Rows!Next
ByteStep == part = "byte" /\ OnlyArithmetic /\ ByteRow!Next

MCNext == CpuStep \/ MemoryStep \/ PairStep \/ ArithmeticStep \/ ByteStep

MCSpec == MCInit /\ [][MCNext]_allVars

-----------------------------------------------------------------------------
\* What witness generation fills in is accepted, whatever is executed.  Its rows satisfy
\* the constraints of their table, pass its range check and hold the results the CPU
\* uses; and what one table looks up is what the other one holds: the operations logged
\* with a CPU row are the ones it looks up, reads return what was written before, and
\* the values the memory table takes over and hands on are the memory at the start and
\* the end of the segment (witness/, memory_stark.rs and arithmetic/).
HonestRowsAccepted ==
    /\ part = "cpu" => ConstraintsHold /\ LookupsAgree /\ MemoryConsistent
    /\ part = "memory" => Memory!TableAccepted /\ Memory!LookupsFound /\ Memory!MemoryHandedOn
    /\ part = "arithmetic" => Rows!Complete
    /\ part = "byte" => ByteRow!Complete

\* Rows with wrong values are refused, whoever fills them: a read returns the value
\* before it or zero, only an address's last row is handed on, and the output of
\* an arithmetic row is the result, unless it is divided by zero.
AcceptedRowsRight ==
    /\ part = "pair" => Memory!ReadsPrevious /\ Memory!FirstReadZero /\ Memory!MemAfterLastRow
    /\ part = "arithmetic" => Rows!Sound
    /\ part = "byte" => ByteRow!Sound

\* The execution implements one stack per context (StackMachine), and an
\* instruction that fails leaves nothing behind but its exception.
ExecutionRight ==
    /\ part = "cpu" => Stacks!Init
    /\ [][part = "cpu" => [Stacks!Next]_Stacks!smVars /\ FailureLeavesNoTrace]_allVars
=============================================================================
