-------------------------------- MODULE Optimizer --------------------------------
(***************************************************************************)
(* The peephole optimizer of the kernel's assembler (cpu/kernel/           *)
(* optimizer.rs, with replace_windows of utils.rs and cost_estimator.rs).  *)
(* A program is optimized, and its blocks are executed before and after.   *)
(*                                                                         *)
(* A word has WordBytes bytes of one bit each, so that the length of a     *)
(* pushed constant, which the estimate counts, and the bytes BYTE selects  *)
(* are there on small words.  A label's address is any word.               *)
(***************************************************************************)
EXTENDS Naturals, Sequences, SequencesExt, FiniteSetsExt, Bitwise

CONSTANTS
    Programs,     \* the programs that are optimized
    WordBytes,    \* bytes of a word
    LabelBytes,   \* BYTES_PER_OFFSET
    Stacks        \* stacks programs are executed on, top first, deep enough

ASSUME OptimizerAssumption ==
    WordBytes \in Nat \ {0} /\ LabelBytes \in Nat

VARIABLES
    original,     \* the program as it was written
    code,
    before,       \* the program when this round began
    pass,         \* which pass of the round; 0: finished
    start         \* the first window not looked at yet

optimizerVars == <<original, code, before, pass, start>>

MachineWords == 0 .. 2^WordBytes - 1

Literal(n) == [item |-> "literal", v |-> n, op |-> ""]
PushLabel == [item |-> "push_label", v |-> 0, op |-> ""]
Label == [item |-> "label", v |-> 0, op |-> ""]
StandardOp(f) == [item |-> "op", v |-> 0, op |-> f]
IsPush(i) == i.item \in {"literal", "push_label"}
IsOp(i, f) == i = StandardOp(f)

----------------------------------------------------------------------------
\* What the machine computes.

Bool(b) == IF b THEN 1 ELSE 0
ByteOf(y, i) == (y \div 2^i) % 2

\* x is the top of the stack.  BYTE counts from the most significant byte.
Unary == {"ISZERO", "NOT"}
UnaryOp(f, x) == IF f = "ISZERO" THEN Bool(x = 0) ELSE 2^WordBytes - 1 - x

Binary == {"ADD", "SUB", "MUL", "DIV", "MOD", "EXP", "SHL", "SHR", "AND", "OR", "XOR", "LT", "GT", "EQ", "BYTE"}
Arithmetic(f, x, y) ==
    CASE f = "ADD" -> (x + y) % 2^WordBytes
      [] f = "SUB" -> ((2^WordBytes + x) - y) % 2^WordBytes
      [] f = "MUL" -> (x * y) % 2^WordBytes
      [] f = "DIV" -> IF y = 0 THEN 0 ELSE x \div y
      [] f = "MOD" -> IF y = 0 THEN 0 ELSE x % y
      [] f = "EXP" -> IF y = 0 THEN 1 ELSE (x^y) % 2^WordBytes
      [] f = "SHL" -> (y * 2^x) % 2^WordBytes
      [] f = "SHR" -> y \div 2^x
      [] f = "AND" -> x & y
      [] f = "OR" -> x | y
      [] f = "XOR" -> x ^^ y
      [] f = "LT" -> Bool(x < y)
      [] f = "GT" -> Bool(x > y)
      [] f = "EQ" -> Bool(x = y)
MachineOp(f, x, y) ==
    IF f = "BYTE" THEN IF x < WordBytes THEN ByteOf(y, WordBytes - 1 - x) ELSE 0
    ELSE Arithmetic(f, x, y)

\* The stack after an item that does not leave the block; at is the label's
\* address.
Step(i, s, at) ==
    CASE i.item = "literal" -> <<i.v>> \o s
      [] i.item = "push_label" -> <<at>> \o s
      [] OTHER ->
            CASE i.op \in Unary -> <<UnaryOp(i.op, s[1])>> \o Tail(s)
              [] i.op \in Binary -> <<MachineOp(i.op, s[1], s[2])>> \o SubSeq(s, 3, Len(s))
              [] i.op = "SWAP1" -> <<s[2], s[1]>> \o SubSeq(s, 3, Len(s))
              [] i.op = "DUP1" -> <<s[1]>> \o s
              [] i.op = "POP" -> Tail(s)

\* Where a block that starts after position p goes, and with which stack: to
\* an address (a label it runs into is one), or off the end.
RECURSIVE Outcome(_, _, _, _)
Outcome(c, p, s, at) ==
    IF p = Len(c) THEN <<"end", 0, s>>
    ELSE CASE c[p + 1] = Label -> <<"to", at, s>>
           [] IsOp(c[p + 1], "JUMP") -> <<"to", s[1], Tail(s)>>
           [] OTHER -> Outcome(c, p + 1, Step(c[p + 1], s, at), at)

\* The blocks: the one at the beginning, and the one after the label.
Entries(c) == SelectSeq(<<0>> \o [i \in 1 .. Len(c) |-> i], LAMBDA p : p = 0 \/ c[IF p = 0 THEN 1 ELSE p] = Label)
Meaning(c) ==
    LET e == Entries(c)
    IN  [b \in 1 .. Len(e) |-> [s \in Stacks, at \in MachineWords |-> Outcome(c, e[b], s, at)]]

----------------------------------------------------------------------------
\* cost_estimator.rs

RECURSIVE TrimmedBytes(_)
TrimmedBytes(n) == IF n = 0 THEN 0 ELSE 1 + TrimmedBytes(n \div 2)

CostEstimate(c) ==
    LET item(i) == CASE i.item = "literal" -> TrimmedBytes(i.v)
                     [] i.item = "push_label" -> LabelBytes
                     [] i.item = "label" -> 0
                     [] OTHER -> 1
    IN  FoldLeft(LAMBDA sum, i : sum + item(i), 0, c)

IsCodeImproved(old, new) == CostEstimate(new) < CostEstimate(old)

----------------------------------------------------------------------------
\* The passes.  A rule gives the set of replacements for a window: one or none.

If(b, c) == IF b THEN {c} ELSE {}
IfBetter(b, w, c) == If(b /\ IsCodeImproved(w, c), c)

ConstantUnary(w) ==
    IF w[1].item = "literal" /\ w[2].op \in Unary
    THEN IfBetter(TRUE, w, <<Literal(UnaryOp(w[2].op, w[1].v))>>) ELSE {}

\* `U256::byte` counts from the least significant byte.
FoldedOp(f, x, y) ==
    IF f = "BYTE" THEN IF x < WordBytes THEN ByteOf(y, x) ELSE 0 ELSE Arithmetic(f, x, y)

ConstantBinary(w) ==
    IF w[1].item = "literal" /\ w[2].item = "literal" /\ w[3].op \in Binary
    THEN IfBetter(TRUE, w, <<Literal(FoldedOp(w[3].op, w[2].v, w[1].v))>>) ELSE {}

IdentityOperations(w) ==
    If(w[1].item = "literal" /\ <<w[1].v, w[2].op>> \in {<<0, "ADD">>, <<0, "OR">>, <<0, "XOR">>, <<1, "MUL">>},
       <<>>)

NoOpJumps(w) == If(w[1] = PushLabel /\ IsOp(w[2], "JUMP") /\ w[3] = Label, <<w[3]>>)

RemoveSwappedPushes(w) == If(IsPush(w[1]) /\ IsPush(w[2]) /\ IsOp(w[3], "SWAP1"), <<w[2], w[1]>>)

\* Mutant: a swap before an operation that is not commutative.
RemoveSwapsCommutative_sub(w) ==
    If(IsOp(w[1], "SWAP1") /\ w[2].op \in {"ADD", "SUB", "MUL", "AND", "OR", "XOR", "EQ"}, <<w[2]>>)
RemoveSwapsCommutative(w) ==
    If(IsOp(w[1], "SWAP1") /\ w[2].op \in {"ADD", "MUL", "AND", "OR", "XOR", "EQ"}, <<w[2]>>)

RemoveIgnoredValues(w) == If(IsOp(w[2], "POP") /\ (IsPush(w[1]) \/ IsOp(w[1], "DUP1")), <<>>)

Passes == 7
Width(p) == IF p \in {2, 4, 5} THEN 3 ELSE 2
Rule(p, w) ==
    CASE p = 1 -> ConstantUnary(w)
      [] p = 2 -> ConstantBinary(w)
      [] p = 3 -> IdentityOperations(w)
      [] p = 4 -> NoOpJumps(w)
      [] p = 5 -> RemoveSwappedPushes(w)
      [] p = 6 -> RemoveSwapsCommutative(w)
      [] p = 7 -> RemoveIgnoredValues(w)

Window(p, i) == SubSeq(code, i + 1, i + Width(p))
Replaceable(p) == {i \in start .. Len(code) - Width(p) : Rule(p, Window(p, i)) # {}}

----------------------------------------------------------------------------
\* A program declares the label at most once.

OptimizerInit ==
    /\ original \in Programs
    /\ code = original /\ before = original
    /\ pass = 1 /\ start = 0

\* replace_windows, up to the next replacement: the search goes back to the
\* earliest window that changed.
Replace ==
    /\ pass # 0
    /\ Replaceable(pass) # {}
    /\ LET i == Min(Replaceable(pass)) IN
         \E new \in Rule(pass, Window(pass, i)) :
            /\ code' = SubSeq(code, 1, i) \o new \o SubSeq(code, i + 1 + Width(pass), Len(code))
            /\ start' = Max({0, i + 1 - Width(pass)})
    /\ UNCHANGED <<original, before, pass>>

\* No window is left: the next pass, or the next round, if this one changed
\* anything.
EndPass ==
    /\ pass # 0
    /\ Replaceable(pass) = {}
    /\ pass' = IF pass < Passes THEN pass + 1 ELSE IF code = before THEN 0 ELSE 1
    /\ before' = IF pass < Passes THEN before ELSE code
    /\ start' = 0
    /\ UNCHANGED <<original, code>>

Done == pass = 0 /\ UNCHANGED optimizerVars

OptimizerNext == Replace \/ EndPass \/ Done

OptimizerSpec == OptimizerInit /\ [][OptimizerNext]_optimizerVars

----------------------------------------------------------------------------
\* The optimized program means what the written one means: every block goes to
\* the same place with the same stack.
SameMeaning == pass = 0 /\ code # original => Meaning(code) = Meaning(original)

\* By the estimate the assembler goes by, no replacement makes code dearer.
NeverDearer == CostEstimate(code') <= CostEstimate(code)

\* Nothing that some pass would still change is left: optimizing again changes
\* nothing, and the rounds end.
NothingLeft == pass = 0 => \A p \in 1 .. Passes : Replaceable(p) = {}
=============================================================================
