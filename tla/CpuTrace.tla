------------------------------- MODULE CpuTrace -------------------------------
(***************************************************************************)
(* Witness generation for the CPU: the transition that fetches an opcode,  *)
(* decodes it, fills a row of the CPU table and logs the memory, byte      *)
(* packing, arithmetic, logic and sponge operations that go with it.       *)
(*                                                                         *)
(* Words have VALUE_LIMBS limbs of one byte each, least significant first  *)
(* (limbs of 32 bits and words of 32 bytes in the code); an address is     *)
(* <<context, segment, offset>>.  The code that runs is arbitrary: the     *)
(* byte of a code cell is chosen when the cell is first fetched.           *)
(***************************************************************************)
EXTENDS CpuConstraints, SequencesExt

CONSTANTS
    InitialStates   \* the executions: [start : [reg, mem], opcodes, rows], the state
                    \* one starts in, the opcodes it draws from, a bound on its rows

VARIABLES
    reg,        \* the registers
    mem,        \* memory: a function on the addresses that hold something
    init,       \* memory at the start
    trace,      \* one record per row: the row and what was logged with it
    phase,      \* "run", "halted", or "bailed"
    limits      \* the opcodes and the rows of the execution

vars == <<reg, mem, init, trace, phase, limits>>

B == ALL_1_LIMB + 1
LimbBits == 8
MaxBytes == VALUE_LIMBS     \* bytes of a word
SEGMENT_COUNT == 39

Words == [1..VALUE_LIMBS -> 0..ALL_1_LIMB]

\* The inverse in the field, 0 for 0.
InvTable ==
    [x \in 0..(P - 1) |-> IF x = 0 THEN 0 ELSE CHOOSE y \in 1..(P - 1) : (x * y) % P = 1]
FieldInverse(x) == InvTable[x % P]

-----------------------------------------------------------------------------
(* Memory *)

\* 2^d as a word: what the kernel leaves in the shift table.
TwoExp(d) ==
    IF d < LimbBits * VALUE_LIMBS
    THEN [ZeroVal EXCEPT ![d \div LimbBits + 1] = 2^(d % LimbBits)] ELSE ZeroVal

\* Bytes of code nobody has looked at yet, those of the jump tables included.
UnreadCode(virt) == Single(100 + (virt % 50))

GetFrom(m, a) ==
    IF a \in DOMAIN m THEN m[a]
    ELSE IF a[2] = SegCode THEN UnreadCode(a[3])
    ELSE IF a[1] = 0 /\ a[2] = SegShiftTable THEN TwoExp(a[3])
    ELSE ZeroVal

GetWithInit(a) == GetFrom(mem, a)

Clock == Len(trace)

\* An operation on memory through a channel: 0 is the code channel, 1..3 the
\* general purpose ones, 4 the partial channel.
MemoryOp(channel, a, rd, val) ==
    MemTuple(rd, a[1], a[2], a[3], val, Clock * NUM_CHANNELS + 1 + channel)

\* What the writes among ops leave in memory, in the order they were logged.
ApplyOps(m, ops) ==
    FoldLeft(LAMBDA n, o : IF o.rd = 1 THEN n
                           ELSE (<<o.ctx, o.seg, o.virt>> :> o.val) @@ n, m, ops)

\* A word as a machine integer: two limbs at most.
FitsUsize(v) == \A i \in 3..VALUE_LIMBS : v[i] = 0
AsUsize(v) == v[1] + B * v[2]
FitsLimb(v) == \A i \in 2..VALUE_LIMBS : v[i] = 0

\* The address a word holds; the limbs above the third are ignored.
NewBundle(v) == GetAddr(v)
BundleOk(v) == v[2] < SEGMENT_COUNT

\* Bytes as a word, first byte most significant.
FromBigEndian(bytes) ==
    [i \in 1..VALUE_LIMBS |-> IF i <= Len(bytes) THEN bytes[Len(bytes) + 1 - i] ELSE 0]

BytesAt(a, n) == [i \in 1..n |-> GetWithInit(<<a[1], a[2], a[3] + i - 1>>)[1]]

-----------------------------------------------------------------------------
(* decode *)

SyscallTable ==
    [o \in {0} |-> <<0, FALSE>>] @@
    [o \in {48, 50, 51, 52, 54, 56, 58, 61, 65, 66, 67, 68, 69, 70, 71, 72, 74, 89, 90}
        |-> <<0, TRUE>>] @@
    [o \in {49, 53, 59, 63, 64, 73, 81, 84, 92, 255} |-> <<1, FALSE>>] @@
    [o \in {5, 7, 10, 11, 18, 19, 29, 32, 82, 83, 85, 93, 160, 243, 253} |-> <<2, FALSE>>] @@
    [o \in {55, 57, 62, 94, 161, 240} |-> <<3, FALSE>>] @@
    [o \in {60, 162, 245} |-> <<4, FALSE>>] @@
    [o \in {163} |-> <<5, FALSE>>] @@
    [o \in {164, 244, 250} |-> <<6, FALSE>>] @@
    [o \in {241, 242} |-> <<7, FALSE>>]

Decode(isKernel, o) ==
    CASE o \in DOMAIN SyscallTable -> "Syscall"
      [] o \in {1, 2, 3, 4, 6, 16, 17, 26} -> "BinaryArithmetic"
      [] o \in {8, 9} -> "TernaryArithmetic"
      [] o = 20 -> "Eq"
      [] o = 21 -> "Iszero"
      [] o \in {22, 23, 24} -> "BinaryLogic"
      [] o = 25 -> "Not"
      [] o \in {27, 28} -> "Shift"
      [] o = 80 -> "Pop"
      [] o = 86 -> "Jump"
      [] o = 87 -> "Jumpi"
      [] o = 88 -> "Pc"
      [] o = 91 -> "Jumpdest"
      [] o \in 95..127 -> "Push"
      [] o \in 128..143 -> "Dup"
      [] o \in 144..159 -> "Swap"
      [] isKernel /\ o \in {12, 13, 14} -> "Fp254"
      [] isKernel /\ o = 15 -> "TernaryArithmetic"
      [] isKernel /\ o = 33 -> "KeccakGeneral"
      [] isKernel /\ o = 165 -> "KernelPanic"
      [] isKernel /\ o \in 192..223 -> "Mstore32Bytes"
      [] isKernel /\ o = 238 -> "ProverInput"
      [] isKernel /\ o = 246 -> "GetContext"
      [] isKernel /\ o = 247 -> "SetContext"
      [] isKernel /\ o = 248 -> "Mload32Bytes"
      [] isKernel /\ o = 249 -> "ExitKernel"
      [] isKernel /\ o = 251 -> "MloadGeneral"
      [] isKernel /\ o = 252 -> "MstoreGeneral"
      [] OTHER -> "InvalidOpcode"

FillOpFlag(name, o) ==
    CASE name \in {"Dup", "Swap"} -> "dup_swap"
      [] name \in {"Iszero", "Eq"} -> "eq_iszero"
      [] name \in {"Not", "Pop"} -> "not_pop"
      [] name = "Syscall" -> "syscall"
      [] name = "BinaryLogic" -> "logic_op"
      [] name = "Fp254" -> "fp254_op"
      [] name = "Shift" -> "shift"
      [] name = "BinaryArithmetic" -> "binary_op"
      [] name = "TernaryArithmetic" -> "ternary_op"
      [] name \in {"KeccakGeneral", "Jumpdest"} -> "jumpdest_keccak_general"
      [] name = "Pc" \/ o = 95 -> "pc_push0"
      [] name \in {"ProverInput", "Push"} -> "push_prover_input"
      [] name \in {"Jump", "Jumpi"} -> "jumps"
      [] name \in {"GetContext", "SetContext"} -> "context_op"
      [] name \in {"Mload32Bytes", "Mstore32Bytes"} -> "m_op_32bytes"
      [] name = "ExitKernel" -> "exit_kernel"
      [] name \in {"MloadGeneral", "MstoreGeneral"} -> "m_op_general"

GasToCharge(name, o) ==
    CASE name \in {"Iszero", "Not", "Eq", "BinaryLogic", "Shift", "Dup", "Swap"} -> G_VERYLOW
      [] name = "BinaryArithmetic" -> IF o \in {2, 4, 6} THEN G_LOW ELSE G_VERYLOW
      [] name = "TernaryArithmetic" -> IF o = 15 THEN KERNEL_ONLY_INSTR ELSE G_MID
      [] name \in {"Pop", "Pc"} \/ o = 95 -> G_BASE
      [] name = "Push" -> G_VERYLOW
      [] name = "Jump" -> G_MID
      [] name = "Jumpi" -> G_HIGH
      [] name = "Jumpdest" -> G_JUMPDEST
      [] OTHER -> KERNEL_ONLY_INSTR

\* Pops after which the next row reads the new top; 0 when it need not.
SpecialLength(name) ==
    CASE name = "Jump" -> JUMP_OP.pops
      [] name = "Jumpi" -> JUMPI_OP.pops
      [] name = "ExitKernel" -> STACK_BEHAVIORS["exit_kernel"].pops
      [] OTHER -> 0

MightOverflowOp(name, o) == FillOpFlag(name, o) \in MIGHT_OVERFLOW

-----------------------------------------------------------------------------
(* A cycle under construction: the registers as they evolve, the row, what *)
(* was logged, the error that cut it short, and what is written into the   *)
(* previous row.                                                           *)

EmptyChannel == [used |-> 0, rd |-> 0, ctx |-> 0, seg |-> 0, virt |-> 0, val |-> ZeroVal]
EmptyPartial == [used |-> 0, rd |-> 0, ctx |-> 0, seg |-> 0, virt |-> 0]

ToBitsLe(o) == [i \in 1..8 |-> (o \div 2^(i - 1)) % 2]
Bit(b) == IF b THEN 1 ELSE 0

CodeContext == IF reg.kernel = 1 THEN 0 ELSE reg.context
CodeAddr == <<CodeContext, SegCode, reg.pc>>

\* Registers and code channel filled, the rest blank.
BaseRow(o) ==
    [clock |-> Clock + 1, context |-> reg.context, code_context |-> CodeContext,
     pc |-> reg.pc, stack_len |-> reg.stack_len, kernel |-> reg.kernel, gas |-> reg.gas,
     op |-> {}, bits |-> ToBitsLe(o), general |-> ZeroVal,
     ch |-> <<[EmptyChannel EXCEPT !.val = reg.stack_top], EmptyChannel, EmptyChannel>>,
     part |-> EmptyPartial]

NewCycle(o) ==
    [opcode |-> o, reg |-> reg, row |-> BaseRow(o),
     ops |-> <<MemoryOp(0, CodeAddr, 1, Single(o))>>,
     arith |-> <<>>, logic |-> <<>>, pack |-> <<>>, sponge |-> <<>>, stale |-> <<>>,
     err |-> "", boundsAux |-> -1]

Fail(c, e) == [c EXCEPT !.err = e]
Then(c, d) == IF c.err # "" THEN c ELSE d

\* diff is zero or has an inverse; aux says which.
SetStackInv(c, diff) ==
    [c EXCEPT !.row.general[5] = FieldInverse(diff), !.row.general[6] = Bit(diff % P # 0)]
SetStackInv2(c, diff) ==
    [SetStackInv(c, diff) EXCEPT !.row.general[7] = Bit(diff % P # 0)]

\* Fill general purpose channel i with an access, and log it.
FillChannel(c, i, a, rd, val) ==
    [c EXCEPT !.row.ch[i] = [used |-> 1, rd |-> rd, ctx |-> a[1], seg |-> a[2], virt |-> a[3],
                             val |-> val]]
FillRead(c, i, a) == FillChannel(c, i, a, 1, GetWithInit(a))
LogChannel(c, i) ==
    LET h == c.row.ch[i] IN
    [c EXCEPT !.ops = Append(@, MemoryOp(i, <<h.ctx, h.seg, h.virt>>, h.rd, h.val))]
FillPartial(c, a) ==
    [c EXCEPT !.row.part = [used |-> 1, rd |-> 0, ctx |-> a[1], seg |-> a[2], virt |-> a[3]]]
LogPartial(c, val) ==
    LET h == c.row.part IN
    [c EXCEPT !.ops = Append(@, MemoryOp(NUM_GP_CHANNELS + 1, <<h.ctx, h.seg, h.virt>>, h.rd, val))]

StackAddr(r, i) == <<r.context, SegStack, r.stack_len - 1 - i>>

\* The top stays in a register; the other operands are read through channels.
StackPop(c, n) ==
    LET r == c.reg IN
    IF r.stack_len < n THEN Fail(c, "StackUnderflow")
    ELSE LET filled == FoldLeft(LAMBDA d, i : FillRead(d, i, StackAddr(r, i - 1)),
                                c, [i \in 1..(n - 1) |-> i + 1])
         IN [filled EXCEPT !.reg.stack_len = @ - n,
                           !.reg.stack_top = IF r.stack_len = n THEN @
                                             ELSE GetWithInit(StackAddr(r, n))]

PushNoWrite(c, val) == [c EXCEPT !.reg.stack_top = val, !.reg.stack_len = @ + 1]

\* Mutant: the top is overwritten in its register without going to memory.
PushWithWriteKept(c, val) ==
    IF c.reg.kernel = 0 /\ c.reg.stack_len >= MAX_USER_STACK_SIZE THEN Fail(c, "StackOverflow")
    ELSE PushNoWrite(c, val)

PushWithWrite(c, val) ==
    LET r == c.reg IN
    IF r.kernel = 0 /\ r.stack_len >= MAX_USER_STACK_SIZE THEN Fail(c, "StackOverflow")
    ELSE LET w == IF r.stack_len = 0 THEN c
                  ELSE LogPartial(FillPartial(c, StackAddr(r, 0)), r.stack_top)
         IN PushNoWrite(w, val)

\* If the last operation popped, this row reads the top; if it may have
\* overflowed the stack, the previous row is given what shows it did not.
FillStackFields(c) ==
    LET r == c.reg
        read == IF r.is_stack_top_read
                THEN LogChannel(FillChannel(c, 1, StackAddr(r, 0), 1, r.stack_top), 1)
                ELSE c
        diff == r.stack_len - (MAX_USER_STACK_SIZE + 1)
    IN [read EXCEPT !.reg.is_stack_top_read = FALSE,
                    !.reg.check_overflow = FALSE,
                    !.boundsAux = IF r.check_overflow /\ r.kernel = 0 /\ diff % P # 0
                                  THEN FieldInverse(diff) ELSE @]

BytePackingLog(c, a, bytes) ==
    IF bytes = <<>> THEN c
    ELSE [c EXCEPT !.ops = @ \o [i \in 1..Len(bytes) |->
                        MemoryOp(0, <<a[1], a[2], a[3] + i - 1>>, 1, Single(bytes[i]))],
                   !.pack = Append(@, [rd |-> 1, addr |-> a, time |-> Clock * NUM_CHANNELS + 1,
                                       bytes |-> bytes])]

ByteUnpackingLog(c, a, val, n) ==
    LET bytes == [i \in 1..n |-> val[n + 1 - i]] IN
    [c EXCEPT !.ops = @ \o [i \in 1..n |->
                        MemoryOp(0, <<a[1], a[2], a[3] + i - 1>>, 0, Single(bytes[i]))],
              !.pack = Append(@, [rd |-> 0, addr |-> a, time |-> Clock * NUM_CHANNELS + 1,
                                  bytes |-> bytes])]

-----------------------------------------------------------------------------
(* Results of the other tables: opaque, but total functions of the inputs. *)

Mix(o, vs) == [i \in 1..VALUE_LIMBS |->
                 (SumUpTo([j \in 1..Len(vs) |-> vs[j][i]], Len(vs)) + o + i) % B]

ShiftsOut(d) == ~ (FitsLimb(d) /\ d[1] < LimbBits * VALUE_LIMBS)

\* What the arithmetic table holds for an operation: three inputs, an output.
ArithRow(o, a, b, x, out) == [opcode |-> o, in |-> <<a, b, x>>, out |-> out]
BinaryRow(o, a, b) ==
    CASE o \in {27, 28} -> ArithRow(o, a, b, IF ShiftsOut(a) THEN ZeroVal ELSE TwoExp(a[1]),
                                    IF ShiftsOut(a) THEN ZeroVal ELSE Mix(o, <<a, b>>))
      [] o \in {12, 13, 14} -> ArithRow(o, a, b, P_LIMBS, Mix(o, <<a, b>>))
      [] OTHER -> ArithRow(o, a, b, ZeroVal, Mix(o, <<a, b>>))
LogicRow(o, a, b) == [opcode |-> o, in |-> <<a, b>>, out |-> Mix(o, <<a, b>>)]
Keccak(bytes) == Mix(33, <<FromBigEndian(bytes), Single(Len(bytes))>>)

In(c, i) == c.row.ch[i].val

-----------------------------------------------------------------------------
(* operation.rs: one generator per operation, from a cycle to a cycle.     *)

GenerateBinaryLogicOp(c) ==
    LET p == StackPop(c, 2)
        row == LogicRow(c.opcode, In(p, 1), In(p, 2))
    IN Then(p, LogChannel([PushNoWrite(p, row.out) EXCEPT !.logic = Append(@, row)], 2))

GenerateBinaryArithmeticOp(c) ==
    LET p == StackPop(c, 2)
        row == BinaryRow(c.opcode, In(p, 1), In(p, 2))
        q == IF c.opcode \in {12, 13, 14} THEN [p EXCEPT !.row.ch[3].val = P_LIMBS] ELSE p
    IN Then(p, LogChannel([PushNoWrite(q, row.out) EXCEPT !.arith = Append(@, row)], 2))

GenerateTernaryArithmeticOp(c) ==
    LET p == StackPop(c, 3)
        row == ArithRow(c.opcode, In(p, 1), In(p, 2), In(p, 3),
                        Mix(c.opcode, <<In(p, 1), In(p, 2), In(p, 3)>>))
    IN Then(p, LogChannel(LogChannel([PushNoWrite(p, row.out) EXCEPT !.arith = Append(@, row)], 2), 3))

GenerateKeccakGeneral(c) ==
    LET p == StackPop(c, 2)
        a == NewBundle(In(p, 1))
        len == AsUsize(In(p, 2))
        bytes == BytesAt(a, len)
    IN Then(p,
        IF ~ FitsUsize(In(p, 2)) THEN Fail(p, "IntegerTooLarge")
        ELSE IF ~ BundleOk(In(p, 1)) THEN Fail(p, "MemoryError")
        ELSE LogChannel(
            [PushNoWrite(p, Keccak(bytes)) EXCEPT
                !.ops = @ \o [i \in 1..len |-> MemoryOp(0, <<a[1], a[2], a[3] + i - 1>>, 1, Single(bytes[i]))],
                !.sponge = Append(@, [addr |-> a, time |-> Clock * NUM_CHANNELS + 1, input |-> bytes])], 2))

\* The answer of the prover is any word.
GenerateProverInput(c, input) ==
    LET p == PushWithWrite(c, input) IN
    Then(p, [p EXCEPT !.arith = Append(@, ArithRow(238, c.reg.stack_top, ZeroVal, ZeroVal, input))])

GeneratePop(c) ==
    LET p == StackPop(c, 1)
        diff == c.row.stack_len - 1
    IN Then(p, [SetStackInv2(p, diff) EXCEPT
                   !.reg.is_stack_top_read = (diff % P # 0) \/ @])

GeneratePc(c) == PushWithWrite(c, Single(c.reg.pc))

GenerateJumpdest(c) == c

GenerateGetContext(c) ==
    LET w == IF c.reg.stack_len = 0 THEN c
             ELSE LogChannel(FillChannel(c, 3, StackAddr(c.reg, 0), 0, c.reg.stack_top), 3)
    IN PushNoWrite(w, [ZeroVal EXCEPT ![3] = c.reg.context])

GenerateSetContext(c) ==
    LET p == StackPop(c, 1)
        word == In(c, 1)
        old == c.reg.context
        new == word[3] + B * word[4]
        spAddr(ctx) == <<ctx, SegCtxMetadata, StackSizeField>>
        spToSave == Single(p.reg.stack_len)
        newSp == IF old = new THEN spToSave ELSE GetWithInit(spAddr(new))
        sp == AsUsize(newSp)
        q == IF sp > 0
             THEN LET r == FillRead(SetStackInv2(p, sp), 3, <<new, SegStack, sp - 1>>)
                  IN LogChannel([r EXCEPT !.reg.stack_top = In(r, 3)], 3)
             ELSE SetStackInv(p, 0)
        s == IF word[1] % 2 = 1
             THEN [q EXCEPT !.row.general[1] = 1, !.stale = Append(@, old)] ELSE q
    IN Then(p,
        IF \E i \in 5..VALUE_LIMBS : word[i] # 0 THEN Fail(p, "IntegerTooLarge")
        ELSE [s EXCEPT !.reg.context = new, !.reg.stack_len = sp,
                       !.ops = @ \o <<MemoryOp(2, spAddr(old), 0, spToSave),
                                      MemoryOp(3, spAddr(new), 1, newSp)>>])

GeneratePush(c) ==
    LET n == c.opcode - 95
        a == <<IF c.reg.kernel = 1 THEN 0 ELSE c.reg.context, SegCode, c.reg.pc + 1>>
        bytes == BytesAt(a, n)
        p == PushWithWrite(c, FromBigEndian(bytes))
        q == [p EXCEPT !.row.general[1] = 1 - p.row.kernel]
    IN Then(p, IF a[1] # 0 THEN BytePackingLog(q, a, bytes) ELSE q)

\* The top is written before the word is read: for DUP1 the read sees the write.
GenerateDup(c) ==
    LET n == c.opcode % 16
        r == c.reg
        w == LogChannel(FillChannel(c, 2, StackAddr(r, 0), 0, r.stack_top), 2)
        d == LogChannel(IF n = 0 THEN FillChannel(w, 3, StackAddr(r, 0), 1, r.stack_top)
                        ELSE FillRead(w, 3, StackAddr(r, n)), 3)
    IN IF r.kernel = 0 /\ r.stack_len >= MAX_USER_STACK_SIZE THEN Fail(c, "StackOverflow")
       ELSE IF n >= r.stack_len THEN Fail(c, "StackUnderflow")
       ELSE PushNoWrite(d, In(d, 3))

GenerateSwap(c) ==
    LET n == c.opcode % 16
        a == StackAddr(c.reg, n + 1)
        p == StackPop(c, 1)
        q == FillRead(p, 2, a)
        s == FillChannel(q, 3, a, 0, In(c, 1))
    IN IF c.reg.stack_len < 2 + n THEN Fail(c, "StackUnderflow")
       ELSE Then(p, LogChannel(LogChannel(PushNoWrite(s, In(s, 2)), 2), 3))

GenerateNot(c) ==
    LET p == StackPop(c, 1) IN
    Then(p, SetStackInv(PushNoWrite(p, [i \in 1..VALUE_LIMBS |-> ALL_1_LIMB - In(c, 1)[i]]),
                        c.row.stack_len - 1))

GeneratePinvDiff(c, v0, v1) ==
    LET unequal == Cardinality({i \in 1..VALUE_LIMBS : v0[i] # v1[i]}) IN
    [c EXCEPT !.row.general =
        [i \in 1..VALUE_LIMBS |-> (FieldInverse(v0[i] - v1[i]) * FieldInverse(unequal)) % P]]

GenerateIszero(c) ==
    LET p == StackPop(c, 1) IN
    Then(p, PushNoWrite(GeneratePinvDiff(p, In(c, 1), ZeroVal), Single(Bit(In(c, 1) = ZeroVal))))

GenerateEq(c) ==
    LET p == StackPop(c, 2) IN
    Then(p, LogChannel(PushNoWrite(GeneratePinvDiff(p, In(p, 1), In(p, 2)),
                                   Single(Bit(In(p, 1) = In(p, 2)))), 2))

\* The factor 2^d is looked up unless the displacement does not fit a limb.
GenerateShift(c) ==
    LET p == StackPop(c, 2)
        d == In(p, 1)
        a == <<0, SegShiftTable, d[1]>>
        result == IF ShiftsOut(d) THEN ZeroVal ELSE Mix(c.opcode, <<d, In(p, 2)>>)
        q == IF FitsLimb(d) THEN LogChannel(FillRead(p, 3, a), 3)
             ELSE [p EXCEPT !.row.ch[3] = [EmptyChannel EXCEPT !.seg = SegShiftTable, !.virt = d[1]],
                            !.row.general[1] = FieldInverse(HighSum(d))]
    IN Then(p, LogChannel([PushNoWrite(q, result) EXCEPT
                              !.arith = Append(@, BinaryRow(c.opcode, d, In(p, 2)))], 2))

\* Read a handler's address from a jump table, save pc, mode and gas in a word
\* on the stack, enter the kernel.
EnterKernel(c, table, info, o) ==
    LET a == <<0, SegCode, table>>
        bytes == BytesAt(a, BYTES_PER_OFFSET)
        target == FromBigEndian(bytes)
        filled == [c EXCEPT !.row.ch[2] = [used |-> 0, rd |-> 1, ctx |-> 0, seg |-> SegCode,
                                           virt |-> table, val |-> Single(AsUsize(target))],
                            !.reg.pc = AsUsize(target), !.reg.kernel = 1, !.reg.gas = 0]
        p == PushWithWrite(filled, info)
    IN Then(p, [BytePackingLog(p, a, bytes) EXCEPT
                   !.arith = Append(@, ArithRow(o, c.reg.stack_top, target, ZeroVal, info))])

InfoWord(pc, kernel, gas) ==
    [ZeroVal EXCEPT ![1] = pc, ![2] = kernel, ![7] = gas]

GenerateSyscall(c) ==
    LET sys == SyscallTable[c.opcode]
        r == c.reg
    IN IF r.gas >= B THEN Fail(c, "GasLimitError")
       ELSE IF r.stack_len < sys[1] THEN Fail(c, "StackUnderflow")
       ELSE IF sys[2] /\ r.kernel = 0 /\ r.stack_len >= MAX_USER_STACK_SIZE THEN Fail(c, "StackOverflow")
       ELSE EnterKernel(c, SyscallJumptable + c.opcode * BYTES_PER_OFFSET,
                        InfoWord(r.pc + 1, r.kernel, r.gas), c.opcode)

GenerateExitKernel(c) ==
    LET p == StackPop(c, 1)
        info == In(c, 1)
    IN Then(p, IF info[8] # 0 THEN Fail(p, "GasLimitError")
               ELSE [p EXCEPT !.reg.pc = info[1], !.reg.kernel = info[2], !.reg.gas = info[7]])

GenerateMloadGeneral(c) ==
    LET p == StackPop(c, 1)
        q == FillRead(p, 2, NewBundle(In(c, 1)))
    IN Then(p, IF ~ BundleOk(In(c, 1)) THEN Fail(p, "MemoryError")
               ELSE LogChannel(SetStackInv(PushNoWrite(q, In(q, 2)), c.row.stack_len - 2), 2))

GenerateMstoreGeneral(c) ==
    LET p == StackPop(c, 2)
        diff == c.row.stack_len - 2
        q == FillPartial(p, NewBundle(In(p, 2)))
    IN Then(p,
        IF ~ BundleOk(In(p, 2)) THEN Fail(p, "MemoryError")
        ELSE LogPartial(LogChannel([SetStackInv2(q, diff) EXCEPT
                 !.reg.is_stack_top_read = (diff % P # 0) \/ @], 2), In(c, 1)))

GenerateMload32Bytes(c) ==
    LET p == StackPop(c, 2)
        a == NewBundle(In(p, 1))
        bytes == BytesAt(a, AsUsize(In(p, 2)))
    IN Then(p,
        IF ~ FitsUsize(In(p, 2)) \/ AsUsize(In(p, 2)) > MaxBytes THEN Fail(p, "IntegerTooLarge")
        ELSE IF ~ BundleOk(In(p, 1)) THEN Fail(p, "MemoryError")
        ELSE LogChannel(BytePackingLog(PushNoWrite(p, FromBigEndian(bytes)), a, bytes), 2))

\* addr + n on the whole word: the carry goes into the higher limbs.
AddSmall(v, n) ==
    LET carry[i \in 1..(VALUE_LIMBS + 1)] ==
            IF i = 1 THEN n ELSE (v[i - 1] + carry[i - 1]) \div B
    IN [i \in 1..VALUE_LIMBS |-> (v[i] + carry[i]) % B]

GenerateMstore32Bytes(c) ==
    LET n == c.opcode - 192 + 1
        p == StackPop(c, 2)
    IN Then(p,
        IF ~ BundleOk(In(p, 1)) THEN Fail(p, "MemoryError")
        ELSE LogChannel(ByteUnpackingLog(PushNoWrite(p, AddSmall(In(p, 1), n)),
                                         NewBundle(In(p, 1)), In(p, 2), n), 2))

GenerateException(o, code) ==
    LET c == FillStackFields(NewCycle(o))
        flagged == [c EXCEPT !.row.op = {"exception"},
                             !.row.general = [@ EXCEPT ![1] = code % 2, ![2] = (code \div 2) % 2,
                                                       ![3] = (code \div 4) % 2]]
        r == c.reg
        d == IF r.stack_len % P # 0 THEN SetStackInv(flagged, r.stack_len) ELSE flagged
    IN IF r.gas >= B THEN Fail(c, "GasLimitError")
       ELSE EnterKernel(d, ExceptionJumptable + code * BYTES_PER_OFFSET,
                        InfoWord(r.pc, r.kernel, r.gas), o)

-----------------------------------------------------------------------------
(* transition.rs *)

\* The flag of a jump destination is read, but only looked up in user mode.
GenerateJump(c) ==
    LET p == StackPop(c, 1)
        dst == In(c, 1)
        q == [FillRead(p, 3, <<c.reg.context, SegJumpdestBits, dst[1]>>) EXCEPT
                 !.row.ch[2].val[1] = 1, !.row.general[1] = 1, !.row.general[2] = 1,
                 !.reg.pc = dst[1]]
        k == [q EXCEPT !.row.ch[3].used = 0, !.row.ch[3].val[1] = 1]
    IN Then(p,
        IF ~ FitsLimb(dst) THEN Fail(p, "InvalidJumpDestination")
        ELSE IF c.reg.kernel = 1 THEN SetStackInv(k, c.row.stack_len - 1)
        ELSE IF In(q, 3) # Single(1) THEN Fail(q, "InvalidJumpDestination")
        ELSE SetStackInv(LogChannel(q, 3), c.row.stack_len - 1))

GenerateJumpi(c) ==
    LET p == StackPop(c, 2)
        dst == In(p, 1)
        cond == In(p, 2)
        jump == cond # ZeroVal
        q == [FillRead(p, 3, <<c.reg.context, SegJumpdestBits, dst[1]>>) EXCEPT
                 !.row.general[1] = Bit(jump),
                 !.row.general[2] = FieldInverse(SumUpTo(cond, VALUE_LIMBS)),
                 !.reg.pc = IF jump THEN dst[1] ELSE @ + 1]
        k == [q EXCEPT !.row.ch[3].used = 0, !.row.ch[3].val[1] = 1]
    IN Then(p,
        IF jump /\ ~ FitsLimb(dst) THEN Fail(p, "InvalidJumpiDestination")
        ELSE IF ~ jump \/ c.reg.kernel = 1 THEN LogChannel(SetStackInv(k, c.row.stack_len - 2), 2)
        ELSE IF In(q, 3) # Single(1) THEN Fail(q, "InvalidJumpiDestination")
        ELSE LogChannel(SetStackInv(LogChannel(q, 3), c.row.stack_len - 2), 2))

\* The row of a decoded instruction, before its generator runs.
Prepare(name, o) ==
    LET c == FillStackFields([NewCycle(o) EXCEPT !.row.op = {FillOpFlag(name, o)}])
        n == SpecialLength(name)
        diff == c.row.stack_len - n
    IN IF n > 0
       THEN IF diff % P # 0 THEN [SetStackInv(c, diff) EXCEPT !.reg.is_stack_top_read = TRUE] ELSE c
       ELSE IF diff % P # 0 THEN SetStackInv(c, diff) ELSE c

\* Advance the program counter, charge the gas, and in user mode check it
\* against the limit of the context.
PerformStateOp(name, c) ==
    LET step == CASE name \in {"Syscall", "ExitKernel", "Jump", "Jumpi"} -> 0
                  [] name = "Push" -> c.opcode - 95 + 1
                  [] OTHER -> 1
        d == [c EXCEPT !.reg.pc = @ + step, !.reg.gas = @ + GasToCharge(name, c.opcode)]
        limit == GetWithInit(<<d.reg.context, SegCtxMetadata, GasLimitField>>)
    IN Then(c,
        IF d.reg.kernel = 0 /\ ~ FitsUsize(limit) THEN Fail(d, "IntegerTooLarge")
        ELSE IF d.reg.kernel = 0 /\ d.reg.gas > AsUsize(limit) THEN Fail(d, "OutOfGas")
        ELSE d)

ExceptionCode ==
    [OutOfGas |-> 0, InvalidOpcode |-> 1, StackUnderflow |-> 2,
     InvalidJumpDestination |-> 3, InvalidJumpiDestination |-> 4, StackOverflow |-> 5]

\* What stays of a failed cycle: only what it wrote into the row before.
Patched(c) ==
    IF c.boundsAux < 0 THEN trace ELSE [trace EXCEPT ![Clock].row.general[8] = c.boundsAux]

\* Mutant: the memory operations of a failed instruction stay in the log.
RollbackKeepsOps(c, e) == [e EXCEPT !.ops = c.ops \o @]

\* The exception's cycle e, after the failed cycle c was rolled back.
Rollback(c, e) == e

LoggedWith(c) ==
    [row |-> c.row, ops |-> c.ops, arith |-> c.arith, logic |-> c.logic, pack |-> c.pack,
     sponge |-> c.sponge, stale |-> c.stale]

Commit(c, mightOverflow) ==
    /\ trace' = Append(Patched(c), LoggedWith(c))
    /\ mem' = ApplyOps((CodeAddr :> Single(c.opcode)) @@ mem, c.ops)
    /\ init' = (CodeAddr :> Single(c.opcode)) @@ init
    /\ reg' = [c.reg EXCEPT !.check_overflow = @ \/ mightOverflow]
    /\ UNCHANGED limits

Bail == phase' = "bailed" /\ UNCHANGED <<reg, mem, init, trace, limits>>

\* handle_error, in user mode.
HandleError(c) ==
    IF c.err \notin DOMAIN ExceptionCode THEN Bail
    ELSE LET e == Rollback(c, GenerateException(c.opcode, ExceptionCode[c.err])) IN
         IF e.err # "" THEN Bail ELSE Commit(e, FALSE) /\ UNCHANGED phase

Finish(name, c) ==
    IF c.err = "" THEN Commit(c, MightOverflowOp(name, c.opcode)) /\ UNCHANGED phase
    ELSE IF c.reg.kernel = 1 THEN Bail
    ELSE HandleError(c)

\* The byte of a cell is free until it has been fetched or read as data.
CodeBytes ==
    IF \/ CodeAddr \in DOMAIN init
       \/ \E i \in 1..Clock : \E op \in ToSet(trace[i].ops) : <<op.ctx, op.seg, op.virt>> = CodeAddr
    THEN {GetWithInit(CodeAddr)[1]} ELSE limits.opcodes

\* What the kernel sees to when it uses its own operations: addresses are of
\* three limbs and not on the stack, words to unpack fit, the word for
\* EXIT_KERNEL is one that a system call or an exception made.
KernelOperands(name, o) ==
    LET top == reg.stack_top
        second == IF reg.stack_len < 2 THEN ZeroVal ELSE GetWithInit(StackAddr(reg, 1))
        address(v) == \A i \in 4..VALUE_LIMBS : v[i] = 0
    IN
    CASE name = "KeccakGeneral" -> address(top) /\ FitsLimb(second) /\ second[1] <= MaxBytes
      [] name = "Mload32Bytes" -> address(top) /\ second # ZeroVal
      [] name = "Mstore32Bytes" ->
            /\ o - 191 <= MaxBytes /\ address(top) /\ top[2] \notin {SegCode, SegStack}
            /\ top[1] + o - 191 < B /\ \A i \in (o - 190)..VALUE_LIMBS : second[i] = 0
      [] name = "MstoreGeneral" -> address(second) /\ second[2] \notin {SegCode, SegStack}
      [] name = "MloadGeneral" -> address(top) /\ top[2] # SegCode
      [] name = "SetContext" -> top[1] \in {0, 1} /\ address(top) /\ top[2] = 0
      [] name = "ExitKernel" ->
            /\ top = InfoWord(top[1], top[2], top[7])
            /\ \/ top[2] = 1
               \/ /\ top[2] = 0 /\ reg.context # 0 /\ reg.stack_len <= MAX_USER_STACK_SIZE + 1
                  /\ top[7] <= AsUsize(GetWithInit(<<reg.context, SegCtxMetadata, GasLimitField>>))
      [] name = "Push" -> o - 95 <= MaxBytes
      [] OTHER -> TRUE

\* perform_op: the generator of each operation; input is the prover's answer.
PerformOp(name, c, input) ==
    CASE name = "BinaryLogic" -> GenerateBinaryLogicOp(c)
      [] name \in {"BinaryArithmetic", "Fp254"} -> GenerateBinaryArithmeticOp(c)
      [] name = "TernaryArithmetic" -> GenerateTernaryArithmeticOp(c)
      [] name = "Shift" -> GenerateShift(c)
      [] name = "KeccakGeneral" -> GenerateKeccakGeneral(c)
      [] name = "ProverInput" -> GenerateProverInput(c, input)
      [] name = "Pop" -> GeneratePop(c)
      [] name = "Pc" -> GeneratePc(c)
      [] name = "Jumpdest" -> GenerateJumpdest(c)
      [] name = "Jump" -> GenerateJump(c)
      [] name = "Jumpi" -> GenerateJumpi(c)
      [] name = "GetContext" -> GenerateGetContext(c)
      [] name = "SetContext" -> GenerateSetContext(c)
      [] name = "Push" -> GeneratePush(c)
      [] name = "Dup" -> GenerateDup(c)
      [] name = "Swap" -> GenerateSwap(c)
      [] name = "Not" -> GenerateNot(c)
      [] name = "Iszero" -> GenerateIszero(c)
      [] name = "Eq" -> GenerateEq(c)
      [] name = "Syscall" -> GenerateSyscall(c)
      [] name = "ExitKernel" -> GenerateExitKernel(c)
      [] name = "MloadGeneral" -> GenerateMloadGeneral(c)
      [] name = "MstoreGeneral" -> GenerateMstoreGeneral(c)
      [] name = "Mload32Bytes" -> GenerateMload32Bytes(c)
      [] name = "Mstore32Bytes" -> GenerateMstore32Bytes(c)

ExecutesWith(name, input) ==
    /\ phase = "run" /\ Clock < limits.rows
    /\ ~ (reg.kernel = 1 /\ reg.pc = HaltPc)
    /\ \E o \in CodeBytes :
          /\ Decode(reg.kernel = 1, o) = name
          /\ KernelOperands(name, o)
          /\ Finish(name, PerformStateOp(name, PerformOp(name, Prepare(name, o), input)))

Operations ==
    {"BinaryLogic", "BinaryArithmetic", "Fp254", "TernaryArithmetic", "Shift", "KeccakGeneral",
     "Pop", "Pc", "Jumpdest", "Jump", "Jumpi", "GetContext", "SetContext", "Push", "Dup", "Swap",
     "Not", "Iszero", "Eq", "Syscall", "ExitKernel", "MloadGeneral", "MstoreGeneral",
     "Mload32Bytes", "Mstore32Bytes"}

\* One instruction; a prover input is whatever the prover gives.
Executes(name) == ExecutesWith(name, ZeroVal)
ProverInput == \E v \in {ZeroVal, Mix(1, <<reg.stack_top>>)} : ExecutesWith("ProverInput", v)

\* An opcode that does not decode fails before any stack field is filled.
Undecodable ==
    /\ phase = "run" /\ Clock < limits.rows
    /\ ~ (reg.kernel = 1 /\ reg.pc = HaltPc)
    /\ \E o \in CodeBytes :
          LET name == Decode(reg.kernel = 1, o) IN
          name \in {"InvalidOpcode", "KernelPanic"} /\ Finish(name, Fail(NewCycle(o), name))

\* The segment is full: the exception that stops it, in either mode.
StopSegment ==
    /\ phase = "run" /\ 0 < Clock /\ Clock <= limits.rows
    /\ ~ (reg.kernel = 1 /\ reg.pc = HaltPc)
    /\ LET o == GetWithInit(CodeAddr)[1]
           e == GenerateException(o, EXC_STOP_CODE)
       IN IF e.err # "" THEN Bail ELSE Commit(e, FALSE) /\ phase' = "stopping"

PaddingRow(i) ==
    [BaseRow(0) EXCEPT !.clock = Clock + i, !.code_context = 0, !.kernel = 1,
                       !.ch[1] = EmptyChannel]

NextPowerOfTwo(n) == CHOOSE m \in (n + 1)..(2 * n) : \E e \in 0..5 : m = 2^e

\* The kernel reached halt_final: padding to a power of two.  It gets there
\* with an ISZERO of a one, so that the top of the stack is a zero that no
\* padding row has to read.
Halt ==
    /\ phase = "run" /\ reg.kernel = 1 /\ reg.pc = HaltPc
    /\ Clock > 0 /\ OpcodeOf(trace[Clock].row) = 21 /\ reg.stack_top = ZeroVal
    /\ LET padding(i) == [row |-> PaddingRow(i), ops |-> <<>>, arith |-> <<>>, logic |-> <<>>,
                          pack |-> <<>>, sponge |-> <<>>, stale |-> <<>>]
       IN trace' = trace \o [i \in 1..(NextPowerOfTwo(Clock) - Clock) |-> padding(i)]
    /\ phase' = "halted"
    /\ UNCHANGED <<reg, mem, init, limits>>

Init ==
    /\ \E s \in InitialStates :
          /\ reg = s.start.reg /\ mem = s.start.mem /\ init = s.start.mem
          /\ limits = [opcodes |-> s.opcodes, rows |-> s.rows]
    /\ trace = <<>>
    /\ phase = "run"

Next ==
    \/ \E name \in Operations : Executes(name)
    \/ ProverInput \/ Undecodable \/ StopSegment \/ Halt

Spec == Init /\ [][Next]_vars


-----------------------------------------------------------------------------
(* Properties *)

\* Every row witness generation fills, with its successor, satisfies the
\* constraints of the CPU table, whatever was executed and however it was cut
\* short: the cells an operation shares with another, the read of the top that
\* is put off to the next row, the bound written into the row before, the row
\* of an exception after a rolled back instruction, and padding included
\* (operation.rs, transition.rs and state.rs against cpu/*.rs).
ConstraintsHold ==
    /\ \A i \in 1..Clock : EvalRow(trace[i].row)
    /\ \A i \in 1..(Clock - 1) : EvalRows(trace[i].row, trace[i + 1].row)
    /\ Clock > 0 => EvalClockFirst(trace[1].row)
    /\ phase = "halted" => EvalHaltLast(trace[Clock].row)

\* Memory operations that the byte packing and sponge tables look up themselves.
ByteOps(rd, a, bytes, time) ==
    {MemTuple(rd, a[1], a[2], a[3] + i - 1, Single(bytes[i]), time) : i \in 1..Len(bytes)}

TableOps(e) ==
    UNION {ByteOps(p.rd, p.addr, p.bytes, p.time) : p \in ToSet(e.pack)} \cup
    UNION {ByteOps(1, s.addr, s.input, s.time) : s \in ToSet(e.sponge)}

\* What witness generation logs for the other tables with a row is what the
\* row and its successor look up there: nothing missing, nothing left over
\* from an instruction that failed, nothing logged twice (traces.rs against
\* the cross-table lookups of cpu_stark.rs and all_stark.rs).
LookupsAgree ==
    \A i \in 1..(Clock - 1) :
        LET e == trace[i]
            lv == e.row
            nv == trace[i + 1].row
        IN
        /\ ToSet(e.ops) = CtlMemory(lv, nv) \cup TableOps(e)
        /\ IsInjective(e.ops)
        /\ ToSet(e.arith) = CtlArithmetic(lv, nv) /\ IsInjective(e.arith)
        /\ ToSet(e.logic) = CtlLogic(lv, nv) /\ IsInjective(e.logic)
        /\ {PackTuple(p.rd, p.addr, Len(p.bytes), p.time, FromBigEndian(p.bytes)) : p \in ToSet(e.pack)}
             = CtlBytePacking(lv, nv)
        /\ {[addr |-> s.addr, len |-> Len(s.input), time |-> s.time, out |-> Keccak(s.input)] :
                s \in ToSet(e.sponge)} = CtlKeccakSponge(lv, nv)
        /\ ToSet(e.stale) = CtlContextPruning(lv)

\* In the order of the timestamps, every logged read returns what the last
\* write to its address left, or what memory held at the start: the operations
\* of a cycle are logged in another order than they are timed, some return a
\* value that is still buffered, and the registers cache the top and the
\* pointer of the stack (witness/util.rs, operation.rs against the memory
\* table).
MemoryConsistent ==
    LET all == UNION {ToSet(trace[i].ops) : i \in 1..Clock} IN
    \A r \in {o \in all : o.rd = 1} :
        LET writes == {w \in all : /\ w.rd = 0 /\ w.time < r.time
                                   /\ <<w.ctx, w.seg, w.virt>> = <<r.ctx, r.seg, r.virt>>}
            latest == CHOOSE w \in writes : \A v \in writes : v.time <= w.time
        IN r.val = IF writes = {} THEN GetFrom(init, <<r.ctx, r.seg, r.virt>>) ELSE latest.val

Contexts == {0, 1}

\* A context's stack, wherever its words are.
StackOf(ctx) ==
    LET word(i) == GetWithInit(<<ctx, SegStack, i>>) IN
    IF ctx = reg.context
    THEN [i \in 1..reg.stack_len |-> IF i = reg.stack_len THEN reg.stack_top ELSE word(i - 1)]
    ELSE [i \in 1..AsUsize(GetWithInit(<<ctx, SegCtxMetadata, StackSizeField>>)) |-> word(i - 1)]

Exception == 256
LastOp ==
    LET cycles == {i \in 1..Clock : trace[i].row.op # {}} IN
    IF cycles = {} THEN -1
    ELSE LET r == trace[CHOOSE i \in cycles : \A j \in cycles : j <= i].row IN
         IF "exception" \in r.op THEN Exception ELSE OpcodeOf(r)

\* The registers, the spilled words and the saved pointers implement one stack
\* per context on which each opcode takes and leaves what it should, across
\* system calls, exceptions and changes of context and back.
Stacks == INSTANCE StackMachine WITH
    stacks <- [c \in Contexts |-> StackOf(c)], current <- reg.context, last <- LastOp

\* An instruction that fails in user mode leaves no trace but its exception:
\* the stack gains one word, which holds the program counter and the gas from
\* before the instruction, memory changes at most in the cell the old top is
\* spilled to, and the context stays.  (handle_error, rollback and
\* generate_exception.)
FailureLeavesNoTrace ==
    (/\ Len(trace') > Clock
     /\ "exception" \in trace'[Len(trace')].row.op
     /\ ExcCode(trace'[Len(trace')].row) # EXC_STOP_CODE) =>
        /\ reg'.stack_top = InfoWord(reg.pc, 0, reg.gas)
        /\ reg'.stack_len = reg.stack_len + 1
        /\ reg'.context = reg.context /\ reg'.kernel = 1 /\ reg'.gas = 0
        /\ \A a \in DOMAIN mem' :
              mem'[a] # GetWithInit(a) => a \in {CodeAddr, StackAddr(reg, 0)}
=============================================================================
