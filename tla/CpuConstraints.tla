--------------------------- MODULE CpuConstraints ---------------------------
(***************************************************************************)
(* The constraints of the CPU table and what the CPU looks up in the other *)
(* tables.  A row lv, with its successor nv, is a record:                  *)
(*   clock, context, code_context, pc, stack_len, kernel, gas              *)
(*   op        the set of raised operation flags                           *)
(*   bits      the eight bits of the opcode, least significant first       *)
(*   general   the eight shared cells that each operation reads its way    *)
(*   ch        the general purpose channels: used, rd, ctx, seg, virt, val *)
(*   part      the partial channel, whose value is that of channel 1       *)
(* Channels, limbs and bits count from 1 here, from 0 in the code.  A      *)
(* constraint "filter * expression = 0" is written filter => equation; the *)
(* packed and the circuit version of each state the same equations and     *)
(* share a definition.                                                     *)
(***************************************************************************)
EXTENDS Integers, Sequences, FiniteSets, TLC

CONSTANTS
    P,                      \* order of the field
    MAX_USER_STACK_SIZE,
    SyscallJumptable,       \* addresses of labels of the kernel
    ExceptionJumptable,
    InitPc,
    HaltPc

ASSUME FieldAssumption == P \in Nat \ {0, 1}

NUM_GP_CHANNELS == 3
NUM_CHANNELS == NUM_GP_CHANNELS + 2
VALUE_LIMBS == 8
BYTES_PER_OFFSET == 1

\* The segments the CPU names itself.
SegCode == 0
SegStack == 1
SegCtxMetadata == 6
SegKernelGeneral == 7
SegShiftTable == 13
SegJumpdestBits == 14

\* Fields of the context metadata, unscaled.
StackSizeField == 11
GasLimitField == 12

EXC_STOP_CODE == 6

OpFlags ==
    {"binary_op", "ternary_op", "fp254_op", "eq_iszero", "logic_op", "not_pop",
     "shift", "jumpdest_keccak_general", "push_prover_input", "jumps",
     "pc_push0", "dup_swap", "context_op", "m_op_32bytes", "exit_kernel",
     "m_op_general", "syscall", "exception"}

Eq(a, b) == (a - b) % P = 0

ZeroVal == [i \in 1..VALUE_LIMBS |-> 0]

\* s[1] + ... + s[n].
SumUpTo(s, n) == LET f[i \in 0..n] == IF i = 0 THEN 0 ELSE f[i - 1] + s[i] IN f[n]

\* bits[1..n] as a number.
FromBits(bits, n) == SumUpTo([i \in 1..n |-> bits[i] * 2^(i - 1)], n)

OpcodeOf(r) == FromBits(r.bits, 8)
IsCpuCycle(r) == Cardinality(r.op)

\* The shared cells, by the name each operation gives them.
ExcCode(r)      == r.general[1] + 2 * r.general[2] + 4 * r.general[3]
DiffPinv(r)     == r.general
ShouldJump(r)   == r.general[1]
CondSumPinv(r)  == r.general[2]
HighLimbSumInv(r) == r.general[1]
IsNotKernel(r)  == r.general[1]
PruningFlag(r)  == r.general[1]
StackInv(r)     == r.general[5]
StackInvAux(r)  == r.general[6]
StackInvAux2(r) == r.general[7]
StackLenBoundsAux(r) == r.general[8]

-----------------------------------------------------------------------------
(* stack.rs *)

Behavior(pops, pushes, disable) ==
    [pops |-> pops, pushes |-> pushes, disable |-> disable]

STACK_BEHAVIORS ==
    [f \in {"binary_op", "fp254_op", "logic_op"} |-> Behavior(2, TRUE, TRUE)] @@
    [f \in {"ternary_op"} |-> Behavior(3, TRUE, TRUE)] @@
    [f \in {"shift", "m_op_32bytes"} |-> Behavior(2, TRUE, FALSE)] @@
    [f \in {"push_prover_input", "pc_push0"} |-> Behavior(0, TRUE, TRUE)] @@
    [f \in {"exit_kernel"} |-> Behavior(1, FALSE, TRUE)] @@
    [f \in {"syscall", "exception"} |-> Behavior(0, TRUE, FALSE)]

BASIC_UNARY_OP == Behavior(1, TRUE, TRUE)
EQ_STACK_BEHAVIOR == Behavior(2, TRUE, TRUE)
IS_ZERO_STACK_BEHAVIOR == Behavior(1, TRUE, TRUE)
JUMP_OP == Behavior(1, FALSE, FALSE)
JUMPI_OP == Behavior(2, FALSE, FALSE)
MLOAD_GENERAL_OP == Behavior(1, TRUE, FALSE)
KECCAK_GENERAL_OP == Behavior(2, TRUE, TRUE)
JUMPDEST_OP == Behavior(0, FALSE, TRUE)

MIGHT_OVERFLOW == {"push_prover_input", "pc_push0", "dup_swap", "exit_kernel"}

\* A channel that is used as a read (rd = 1) or a write of the stack of context.
StackAccess(c, rd, context, virt) ==
    /\ c.used = 1 /\ c.rd = rd
    /\ c.ctx = context /\ c.seg = SegStack /\ Eq(c.virt, virt)

\* Row nv reads the top of its stack in its first channel.
ReadsTop(nv) == StackAccess(nv.ch[1], 1, nv.context, nv.stack_len - 1)

\* stack_inv_aux tells whether diff is zero.
TellsNonZero(lv, diff) == Eq(diff * StackInv(lv), StackInvAux(lv))

\* After n pops the next row reads the new top, unless the stack got empty.
TopReadAfter(lv, nv, n) ==
    /\ lv.stack_len # n => ReadsTop(nv)
    /\ TellsNonZero(lv, lv.stack_len - n)
    /\ StackInvAux(lv) # 1 => nv.ch[1].used = 0

\* How one behaviour constrains the channels and the length of the stack.
EvalStackOne(lv, nv, b) ==
    /\ \/ /\ b.pops > 0
          /\ \A i \in 2..b.pops : StackAccess(lv.ch[i], 1, lv.context, lv.stack_len - i)
          /\ lv.part.used = 0
          /\ ~ b.pushes => TopReadAfter(lv, nv, b.pops)
       \/ /\ b.pops = 0 /\ b.pushes
          /\ lv.stack_len # 0 => StackAccess(lv.part, 0, lv.context, lv.stack_len - 1)
          /\ TellsNonZero(lv, lv.stack_len)
          /\ StackInvAux(lv) # 1 => lv.part.used = 0
       \/ /\ b.pops = 0 /\ ~ b.pushes
          /\ nv.ch[1].used = 0
          /\ lv.ch[1].val = nv.ch[1].val
          /\ lv.part.used = 0
    /\ b.disable =>
         \A i \in 1..NUM_GP_CHANNELS :
            (/\ i > 1 /\ i > b.pops
             /\ i <= NUM_GP_CHANNELS - (IF b.pushes THEN 1 ELSE 0)) => lv.ch[i].used = 0
    /\ Eq(nv.stack_len, lv.stack_len - b.pops + (IF b.pushes THEN 1 ELSE 0))

\* Next row's stack is not one too long in user mode.
EvalOverflow(lv, nv) ==
    Eq((nv.stack_len - (MAX_USER_STACK_SIZE + 1)) * StackLenBoundsAux(lv), 1 - nv.kernel)

EvalPop(lv, nv) ==
    LET isPop == 1 - lv.bits[1] IN
    /\ TellsNonZero(lv, lv.stack_len - 1)
    /\ Eq(StackInvAux2(lv), StackInvAux(lv) * isPop)
    /\ StackInvAux2(lv) # 0 => ReadsTop(nv)
    /\ StackInvAux2(lv) # 1 => nv.ch[1].used = 0
    /\ isPop = 1 => /\ \A i \in 2..NUM_GP_CHANNELS : lv.ch[i].used = 0
                    /\ lv.part.used = 0
                    /\ Eq(nv.stack_len, lv.stack_len - 1)

EvalStack(lv, nv) ==
    /\ \A f \in lv.op \cap DOMAIN STACK_BEHAVIORS : EvalStackOne(lv, nv, STACK_BEHAVIORS[f])
    /\ \A f \in lv.op \cap MIGHT_OVERFLOW : EvalOverflow(lv, nv)
    /\ "jumpdest_keccak_general" \in lv.op =>
          EvalStackOne(lv, nv, IF lv.bits[2] = 1 THEN JUMPDEST_OP ELSE KECCAK_GENERAL_OP)
    /\ "not_pop" \in lv.op => EvalPop(lv, nv)

-----------------------------------------------------------------------------
(* decode.rs: the flag that is raised is the one of the opcode, and an     *)
(* operation of the kernel is not raised in user mode.                     *)

\* first opcode of the block, length of the block, kernel only
OPCODES ==
    [eq_iszero   |-> <<20, 2, FALSE>>,
     jumps       |-> <<86, 2, FALSE>>,
     dup_swap    |-> <<128, 32, FALSE>>,
     context_op  |-> <<246, 2, TRUE>>,
     exit_kernel |-> <<249, 1, TRUE>>]

COMBINED_OPCODES ==
    {"logic_op", "fp254_op", "binary_op", "ternary_op", "shift", "m_op_general",
     "jumpdest_keccak_general", "not_pop", "pc_push0", "m_op_32bytes",
     "push_prover_input"}

HighThree(opcode) == opcode - (opcode % 32)

EvalDecode(lv) ==
    LET opcode == OpcodeOf(lv)
        user == lv.kernel = 0
        On(f) == f \in lv.op
    IN
    /\ lv.kernel \in {0, 1}
    /\ \A i \in 1..8 : lv.bits[i] \in {0, 1}
    /\ Cardinality(lv.op \cap (DOMAIN OPCODES \cup COMBINED_OPCODES)) \in {0, 1}
    /\ \A f \in lv.op \cap DOMAIN OPCODES :
          /\ opcode - (opcode % OPCODES[f][2]) = OPCODES[f][1]
          /\ OPCODES[f][3] => ~ user
    /\ On("fp254_op") => ~ user
    /\ On("ternary_op") /\ lv.bits[2] = 1 => ~ user
    /\ On("m_op_general") => ~ user /\ opcode \in {251, 252}
    /\ On("jumpdest_keccak_general") =>
          /\ lv.bits[2] = 0 => ~ user
          /\ opcode \in {33, 91}
    /\ On("pc_push0") => opcode \in {88, 95}
    /\ On("not_pop") => opcode \in {25, 80}
    /\ On("m_op_32bytes") => ~ user /\ (HighThree(opcode) = 192 \/ opcode = 248)
    /\ On("push_prover_input") =>
          /\ opcode = 238 \/ HighThree(opcode) = 96
          /\ lv.bits[8] = 1 => ~ user

-----------------------------------------------------------------------------
(* control_flow.rs, halt.rs, clock.rs, membus.rs *)

NATIVE_INSTRUCTIONS ==
    {"binary_op", "ternary_op", "fp254_op", "eq_iszero", "logic_op", "not_pop",
     "shift", "jumpdest_keccak_general", "pc_push0", "dup_swap", "context_op",
     "m_op_general"}

EvalControlFlow(lv, nv) ==
    /\ \/ lv.op \cap NATIVE_INSTRUCTIONS # {}
       \/ "push_prover_input" \in lv.op /\ lv.bits[8] = 1
       => Eq(nv.pc, lv.pc + 1) /\ nv.kernel = lv.kernel
    /\ "push_prover_input" \in lv.op => Eq(lv.kernel + IsNotKernel(lv), 1)
    /\ IsCpuCycle(lv) # 1 /\ IsCpuCycle(nv) # 0 =>
          nv.pc = InitPc /\ nv.kernel = 1 /\ nv.stack_len = 0

\* A row that is not a cycle is padding.
EvalHaltRow(lv) ==
    LET halted == 1 - IsCpuCycle(lv) IN
    /\ halted \in {0, 1}
    /\ halted = 1 => /\ lv.kernel = 1
                     /\ \A i \in 1..NUM_GP_CHANNELS : lv.ch[i].used = 0
                     /\ lv.pc = HaltPc

EvalHaltNext(lv, nv) == IsCpuCycle(lv) = 0 => IsCpuCycle(nv) = 0

EvalHaltLast(lv) == IsCpuCycle(lv) = 0

EvalClockFirst(lv) == lv.clock = 1
EvalClock(lv, nv) == nv.clock = lv.clock + 1

EvalMembus(lv) ==
    /\ lv.code_context = (1 - lv.kernel) * lv.context
    /\ \A i \in 1..NUM_GP_CHANNELS : lv.ch[i].used \in {0, 1}
    /\ lv.part.used \in {0, 1}

-----------------------------------------------------------------------------
(* gas.rs *)

G_JUMPDEST == 1
G_BASE == 2
G_VERYLOW == 3
G_LOW == 5
G_MID == 8
G_HIGH == 10
KERNEL_ONLY_INSTR == 0

SIMPLE_OPCODES ==
    [f \in {"fp254_op", "context_op", "m_op_32bytes", "m_op_general"} |-> KERNEL_ONLY_INSTR] @@
    [f \in {"eq_iszero", "logic_op", "shift", "dup_swap"} |-> G_VERYLOW] @@
    [f \in {"pc_push0"} |-> G_BASE]

\* What an operation costs, read off its flag and the bits that tell the
\* operations of one flag apart.
CostOf(f, b) ==
    CASE f \in DOMAIN SIMPLE_OPCODES -> SIMPLE_OPCODES[f]
      [] f = "jumps" -> G_MID + b[1] * (G_HIGH - G_MID)
      [] f = "binary_op" -> G_LOW + (b[1] + b[5] - b[1] * b[5]) * (G_VERYLOW - G_LOW)
      [] f = "ternary_op" -> G_MID - b[2] * G_MID
      [] f = "not_pop" -> (1 - b[1]) * G_BASE + b[1] * G_VERYLOW
      [] f = "jumpdest_keccak_general" -> b[2] * G_JUMPDEST + (1 - b[2]) * KERNEL_ONLY_INSTR
      [] f = "push_prover_input" -> (1 - b[8]) * G_VERYLOW + b[8] * KERNEL_ONLY_INSTR

EvalGas(lv, nv) ==
    /\ \A f \in lv.op \ {"exit_kernel", "syscall", "exception"} :
          Eq(nv.gas - lv.gas, CostOf(f, lv.bits))
    /\ IsCpuCycle(lv) # 1 /\ IsCpuCycle(nv) # 0 => nv.gas = 0

-----------------------------------------------------------------------------
(* jumps.rs *)

HighSum(v) == SumUpTo(v, VALUE_LIMBS) - v[1]

EvalExitKernel(lv, nv) ==
    "exit_kernel" \in lv.op =>
        LET input == lv.ch[1].val IN
        /\ input[1] = nv.pc /\ input[2] = nv.kernel
        /\ input[7] = nv.gas /\ input[8] = 0

EvalJumps(lv, nv) ==
    "jumps" \in lv.op =>
        LET dst == lv.ch[1].val
            cond == lv.ch[2].val
            flag == lv.ch[NUM_GP_CHANNELS]
            isJumpi == lv.bits[1]
            condSum == SumUpTo(cond, VALUE_LIMBS)
            jump == ShouldJump(lv)
        IN
        /\ TopReadAfter(lv, nv, 1 + isJumpi)
        /\ isJumpi = 0 => cond[1] = 1 /\ HighSum(cond) = 0
        /\ jump \in {0, 1}
        /\ jump # 1 => condSum % P = 0
        /\ Eq(CondSumPinv(lv) * condSum, jump)
        /\ jump = 1 => HighSum(dst) % P = 0
        /\ flag.val[1] = 1
        /\ flag.used = jump * (1 - lv.kernel)
        /\ flag.rd = 1 /\ flag.ctx = lv.context
        /\ flag.seg = SegJumpdestBits /\ flag.virt = dst[1]
        /\ lv.part.used = 0
        /\ isJumpi = 0 => lv.ch[2].used = 0
        /\ Eq(nv.stack_len, lv.stack_len - 1 - isJumpi)
        /\ nv.pc = IF jump = 1 THEN dst[1] ELSE lv.pc + 1

-----------------------------------------------------------------------------
(* contextops.rs *)

KEEPS_CONTEXT == OpFlags \ {"context_op"}

EvalKeepContext(lv, nv) ==
    \/ lv.op \cap KEEPS_CONTEXT # {}
    \/ "context_op" \in lv.op /\ lv.bits[1] = 0
    => nv.context = lv.context

EvalGetContext(lv, nv) ==
    "context_op" \in lv.op /\ lv.bits[1] = 0 =>
        /\ nv.ch[1].val = [ZeroVal EXCEPT ![3] = lv.context]
        /\ PruningFlag(lv) = 0
        /\ nv.stack_len = lv.stack_len + 1
        /\ lv.ch[2].used = 0 /\ nv.ch[1].used = 0

EvalSetContext(lv, nv) ==
    LET top == lv.ch[1].val IN
    /\ "context_op" \in lv.op =>
          /\ PruningFlag(lv) \in {0, 1}
          /\ Eq(StackInvAux2(lv), StackInvAux(lv) * lv.bits[1])
          /\ StackInvAux2(lv) # 0 => nv.ch[1].val = lv.ch[3].val
    /\ "context_op" \in lv.op /\ lv.bits[1] = 1 =>
          /\ top[3] = nv.context
          /\ \A i \in {2} \cup 4..VALUE_LIMBS : top[i] = 0
          /\ PruningFlag(lv) = top[1]
          /\ lv.ch[2].used = 0 /\ nv.ch[1].used = 0

\* GET_CONTEXT writes the old top, SET_CONTEXT reads the new one.
EvalContextStack(lv, nv) ==
    "context_op" \in lv.op =>
        LET len == nv.stack_len - (1 - lv.bits[1]) IN
        /\ TellsNonZero(lv, len)
        /\ lv.ch[3].used = StackInvAux(lv)
        /\ StackInvAux(lv) # 0 => StackAccess(lv.ch[3], lv.bits[1], nv.context, len - 1)

EvalContext(lv, nv) ==
    /\ EvalKeepContext(lv, nv) /\ EvalGetContext(lv, nv)
    /\ EvalSetContext(lv, nv) /\ EvalContextStack(lv, nv)

-----------------------------------------------------------------------------
(* memio.rs *)

\* The address a value holds: context, segment, offset.
GetAddr(v) == <<v[3], v[2], v[1]>>

EvalLoad(lv, nv) ==
    "m_op_general" \in lv.op /\ lv.bits[1] = 1 =>
        LET c == lv.ch[2] IN
        /\ c.used = 1 /\ c.rd = 1
        /\ <<c.ctx, c.seg, c.virt>> = GetAddr(lv.ch[1].val)
        /\ nv.ch[1].val = c.val
        /\ lv.ch[3].used = 0 /\ lv.part.used = 0
        /\ EvalStackOne(lv, nv, MLOAD_GENERAL_OP)

EvalStore(lv, nv) ==
    /\ "m_op_general" \in lv.op /\ lv.bits[1] = 0 =>
          /\ lv.part.used = 1 /\ lv.part.rd = 0
          /\ <<lv.part.ctx, lv.part.seg, lv.part.virt>> = GetAddr(lv.ch[2].val)
          /\ lv.ch[3].used = 0
          /\ StackAccess(lv.ch[2], 1, lv.context, lv.stack_len - 2)
    /\ "m_op_general" \in lv.op =>
          /\ TellsNonZero(lv, lv.stack_len - 2)
          /\ Eq(StackInvAux2(lv), StackInvAux(lv) * (1 - lv.bits[1]))
          /\ StackInvAux2(lv) # 0 => ReadsTop(nv)
          /\ StackInvAux(lv) # 1 => nv.ch[1].used = 0
          /\ lv.bits[1] = 1 => nv.ch[1].used = 0

-----------------------------------------------------------------------------
(* dup_swap.rs *)

EvalDup(lv, nv) ==
    "dup_swap" \in lv.op /\ lv.bits[5] = 0 =>
        LET n == FromBits(lv.bits, 4) IN
        /\ lv.ch[2].val = lv.ch[1].val
        /\ StackAccess(lv.ch[2], 0, lv.context, lv.stack_len - 1)
        /\ lv.ch[3].val = nv.ch[1].val
        /\ StackAccess(lv.ch[3], 1, lv.context, lv.stack_len - 1 - n)
        /\ nv.stack_len = lv.stack_len + 1
        /\ nv.ch[1].used = 0

EvalSwap(lv, nv) ==
    "dup_swap" \in lv.op /\ lv.bits[5] = 1 =>
        LET n == FromBits(lv.bits, 4) + 1 IN
        /\ lv.ch[1].val = lv.ch[3].val
        /\ StackAccess(lv.ch[3], 0, lv.context, lv.stack_len - 1 - n)
        /\ lv.ch[2].val = nv.ch[1].val
        /\ StackAccess(lv.ch[2], 1, lv.context, lv.stack_len - 1 - n)
        /\ nv.stack_len = lv.stack_len
        /\ nv.ch[1].used = 0

EvalDupSwap(lv, nv) ==
    /\ EvalDup(lv, nv) /\ EvalSwap(lv, nv)
    /\ "dup_swap" \in lv.op => lv.part.used = 0

-----------------------------------------------------------------------------
(* syscalls_exceptions.rs *)

EvalSyscallException(lv, nv) ==
    lv.op \cap {"syscall", "exception"} # {} =>
        LET syscall == "syscall" \in lv.op
            target == lv.ch[2]
            output == nv.ch[1].val
            stop == ExcCode(lv) = EXC_STOP_CODE
        IN
        /\ ~ syscall => /\ stop \/ lv.kernel = 0
                        /\ \A i \in 1..3 : lv.general[i] \in {0, 1}
        /\ target.used = 0 /\ target.rd = 1
        /\ target.ctx = 0 /\ target.seg = SegCode
        /\ target.virt = IF syscall
                         THEN SyscallJumptable + OpcodeOf(lv) * BYTES_PER_OFFSET
                         ELSE ExceptionJumptable + ExcCode(lv) * BYTES_PER_OFFSET
        /\ HighSum(target.val) = 0
        /\ lv.ch[3].used = 0
        /\ nv.pc = target.val[1] /\ nv.kernel = 1 /\ nv.gas = 0
        /\ output[1] = IF syscall THEN lv.pc + 1 ELSE lv.pc
        /\ syscall => output[2] = lv.kernel
        /\ ~ syscall /\ ~ stop => output[2] = 0
        /\ output[7] = lv.gas /\ output[8] = 0
        /\ \A i \in 3..6 : output[i] = 0

-----------------------------------------------------------------------------
(* pc.rs, push0.rs, simple_logic, shift.rs, byte_unpacking.rs, modfp254.rs *)

\* The prime of the extension field, here one limb per digit of the scaled base.
P_LIMBS == <<7, 6, 5, 4, 3, 2, 1, 1>>

ALL_1_LIMB == 255

EvalPcPush0(lv, nv) ==
    "pc_push0" \in lv.op =>
        nv.ch[1].val = [ZeroVal EXCEPT ![1] = IF lv.bits[1] = 0 THEN lv.pc ELSE 0]

EvalNot(lv, nv) ==
    "not_pop" \in lv.op /\ lv.bits[1] = 1 =>
        /\ \A i \in 1..VALUE_LIMBS : Eq(nv.ch[1].val[i] + lv.ch[1].val[i], ALL_1_LIMB)
        /\ EvalStackOne(lv, nv, BASIC_UNARY_OP)

EvalEqIszero(lv, nv) ==
    "eq_iszero" \in lv.op =>
        LET in0 == lv.ch[1].val
            in1 == lv.ch[2].val
            equal == nv.ch[1].val[1]
            isZero == lv.bits[1] = 1
        IN
        /\ equal \in {0, 1} /\ HighSum(nv.ch[1].val) = 0
        /\ isZero => in1 = ZeroVal
        /\ equal = 1 => in0 = in1
        /\ Eq(SumUpTo([i \in 1..VALUE_LIMBS |-> (in0[i] - in1[i]) * DiffPinv(lv)[i]],
                      VALUE_LIMBS), 1 - equal)
        /\ EvalStackOne(lv, nv, IF isZero THEN IS_ZERO_STACK_BEHAVIOR ELSE EQ_STACK_BEHAVIOR)

EvalShift(lv) ==
    "shift" \in lv.op =>
        LET displacement == lv.ch[1].val
            twoExp == lv.ch[3]
            high == HighSum(displacement)
        IN
        /\ twoExp.used = 1 => twoExp.rd = 1
        /\ Eq(high * HighLimbSumInv(lv), 1 - twoExp.used)
        /\ twoExp.used = 1 => high % P = 0
        /\ twoExp.ctx = 0 /\ twoExp.seg = SegShiftTable /\ twoExp.virt = displacement[1]

EvalByteUnpacking(lv, nv) ==
    "m_op_32bytes" \in lv.op /\ lv.bits[6] = 0 =>
        LET old == lv.ch[1].val
            new == nv.ch[1].val
        IN
        /\ Eq(new[1], old[1] + FromBits(lv.bits, 5) + 1)
        /\ new[2] = old[2] /\ new[3] = old[3]
        /\ \A i \in 4..VALUE_LIMBS : new[i] = 0

EvalModFp254(lv) == "fp254_op" \in lv.op => lv.ch[3].val = P_LIMBS

-----------------------------------------------------------------------------
(* cpu_stark.rs: all the constraints of a row, and of a row with its       *)
(* successor.                                                              *)

EvalRow(lv) ==
    /\ EvalDecode(lv) /\ EvalHaltRow(lv) /\ EvalMembus(lv)
    /\ EvalModFp254(lv) /\ EvalShift(lv)

EvalRows(lv, nv) ==
    /\ EvalByteUnpacking(lv, nv) /\ EvalClock(lv, nv) /\ EvalContext(lv, nv)
    /\ EvalControlFlow(lv, nv) /\ EvalDupSwap(lv, nv) /\ EvalGas(lv, nv)
    /\ EvalHaltNext(lv, nv) /\ EvalExitKernel(lv, nv) /\ EvalJumps(lv, nv)
    /\ EvalLoad(lv, nv) /\ EvalStore(lv, nv) /\ EvalPcPush0(lv, nv)
    /\ EvalNot(lv, nv) /\ EvalEqIszero(lv, nv) /\ EvalStack(lv, nv)
    /\ EvalSyscallException(lv, nv)

-----------------------------------------------------------------------------
(* cpu_stark.rs, all_stark.rs: what a row looks up in the other tables.    *)

\* The time of channel number i of a row.
MemTime(lv, i) == (lv.clock - 1) * NUM_CHANNELS + 1 + i

MemTuple(rd, ctx, seg, virt, val, time) ==
    [rd |-> rd, ctx |-> ctx, seg |-> seg, virt |-> virt, val |-> val, time |-> time]

\* A value with one limb.
Single(x) == [ZeroVal EXCEPT ![1] = x]

CtlCodeMemory(lv) ==
    IF IsCpuCycle(lv) = 0 THEN {}
    ELSE {MemTuple(1, lv.code_context, SegCode, lv.pc, Single(OpcodeOf(lv)), MemTime(lv, 0))}

CtlGpMemory(lv, i) ==
    LET c == lv.ch[i] IN
    IF c.used = 0 THEN {} ELSE {MemTuple(c.rd, c.ctx, c.seg, c.virt, c.val, MemTime(lv, i))}

CtlPartialMemory(lv) ==
    LET c == lv.part IN
    IF c.used = 0 THEN {}
    ELSE {MemTuple(c.rd, c.ctx, c.seg, c.virt, lv.ch[1].val, MemTime(lv, NUM_GP_CHANNELS + 1))}

\* SET_CONTEXT saves the pointer of the old stack and loads that of the new one.
CtlSetContext(lv, nv) ==
    IF "context_op" \in lv.op /\ lv.bits[1] = 1
    THEN {MemTuple(0, lv.context, SegCtxMetadata, StackSizeField, Single(lv.stack_len - 1), MemTime(lv, 2)),
          MemTuple(1, lv.ch[1].val[3], SegCtxMetadata, StackSizeField, Single(nv.stack_len), MemTime(lv, 3))}
    ELSE {}

CtlMemory(lv, nv) ==
    CtlCodeMemory(lv) \cup CtlPartialMemory(lv) \cup CtlSetContext(lv, nv)
        \cup UNION {CtlGpMemory(lv, i) : i \in 1..NUM_GP_CHANNELS}

PackTuple(rd, addr, len, time, val) ==
    [rd |-> rd, addr |-> addr, len |-> len, time |-> time, val |-> val]

CtlBytePacking(lv, nv) ==
    LET time == MemTime(lv, 0)
        addr == GetAddr(lv.ch[1].val)
        c == lv.ch[2]
    IN
    (IF "m_op_32bytes" \in lv.op
     THEN {IF lv.bits[6] = 1
           THEN PackTuple(1, addr, lv.ch[2].val[1], time, nv.ch[1].val)
           ELSE PackTuple(0, addr, nv.ch[1].val[1] - lv.ch[1].val[1], time, lv.ch[2].val)}
     ELSE {}) \cup
    (IF "push_prover_input" \in lv.op /\ IsNotKernel(lv) = 1
     THEN {PackTuple(1, <<lv.code_context, SegCode, lv.pc + 1>>, FromBits(lv.bits, 5) + 1,
                     time, nv.ch[1].val)}
     ELSE {}) \cup
    (IF lv.op \cap {"syscall", "exception"} # {}
     THEN {PackTuple(1, <<c.ctx, c.seg, c.virt>>, BYTES_PER_OFFSET, time, c.val)}
     ELSE {})

CtlArithmetic(lv, nv) ==
    IF \/ lv.op \cap {"binary_op", "fp254_op", "ternary_op", "shift", "syscall", "exception"} # {}
       \/ "push_prover_input" \in lv.op /\ lv.bits[8] = 1
    THEN {[opcode |-> OpcodeOf(lv), in |-> <<lv.ch[1].val, lv.ch[2].val, lv.ch[3].val>>,
           out |-> nv.ch[1].val]}
    ELSE {}

CtlLogic(lv, nv) ==
    IF "logic_op" \in lv.op
    THEN {[opcode |-> OpcodeOf(lv), in |-> <<lv.ch[1].val, lv.ch[2].val>>, out |-> nv.ch[1].val]}
    ELSE {}

CtlKeccakSponge(lv, nv) ==
    IF "jumpdest_keccak_general" \in lv.op /\ lv.bits[2] = 0
    THEN {[addr |-> GetAddr(lv.ch[1].val), len |-> lv.ch[2].val[1], time |-> MemTime(lv, 0),
           out |-> nv.ch[1].val]}
    ELSE {}

CtlContextPruning(lv) ==
    IF "context_op" \in lv.op /\ PruningFlag(lv) = 1 THEN {lv.context} ELSE {}
=============================================================================
