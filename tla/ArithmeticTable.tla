---------------------------- MODULE ArithmeticTable ----------------------------
(***************************************************************************)
(* The arithmetic table (arithmetic/): the limbs of a word, the            *)
(* polynomials made of them, the constraints on a row and, for the         *)
(* operations that need it, the row after it; what the prover of this      *)
(* repository puts into the rows (arithmetic/mod.rs and the generate       *)
(* functions), and what the constraints and the range check would let any  *)
(* prover put into them.  The packed and the circuit version of the        *)
(* constraints say the same and share these definitions.                   *)
(*                                                                         *)
(* A word has N limbs of LimbBits bits (16 of 16 in the code), and the     *)
(* offset of the auxiliary limbs scales with them.  A byte has half the    *)
(* bits of a limb, and the index of BYTE LogN + 1 bits (5 in the code).    *)
(*                                                                         *)
(* In a claim the inputs stay, since the CPU table fixes them, and so does *)
(* the power of two of a shift.  Columns that a constraint determines from *)
(* the others are given that value; the constraints decide on the row.     *)
(***************************************************************************)
EXTENDS Integers

CONSTANTS
    P,            \* the field's modulus
    LimbBits,     \* bits of a limb
    N,            \* limbs of a word
    LogN,         \* N = 2^LogN
    BaseInverse,  \* the inverse of the base of a limb, which the code writes out
    BnBase,       \* the modulus of the FP254 operations
    Ops,                          \* the operations considered
    Inputs0, Inputs1, Inputs2     \* and their inputs

VARIABLES local, following,   \* a row and the row after it
          claimed             \* whether another prover has filled them

vars == <<local, following, claimed>>

Base == 2^LimbBits
Modulus == 2^(LimbBits * N)              \* 2^256
AUX_COEFF_ABS_MAX == N * Base
Limb == 0 .. Base - 1
Index == 0 .. N - 1
Word == [Index -> Limb]

Zero(x) == x % P = 0
\* The inverse in the field, 1 for zero.
Inverse0(x) == IF Zero(x) THEN 1 ELSE CHOOSE y \in 1 .. P - 1 : (x * y) % P = 1

Sum(f(_), n) == LET s[i \in 0 .. n] == IF i = 0 THEN 0 ELSE s[i - 1] + f(i - 1) IN s[n]
u256_to_array(x) == [i \in Index |-> (x \div Base^i) % Base]
Value(w, n) == Sum(LAMBDA i : w[i] * Base^i, n)
Bit(b) == IF b THEN 1 ELSE 0

----------------------------------------------------------------------------
\* Polynomials, as functions from the degrees to the coefficients.

At(a, i) == IF i \in DOMAIN a THEN a[i] ELSE 0
pol_add(a, b) == [i \in 0 .. 2 * N - 2 |-> At(a, i) + At(b, i)]
pol_sub(a, b) == [i \in 0 .. 2 * N - 2 |-> At(a, i) - At(b, i)]
pol_mul_lo(a, b) == [k \in Index |-> Sum(LAMBDA i : a[i] * b[k - i], k + 1)]
pol_mul_wide(a, b) == [k \in 0 .. 2 * N - 2 |-> Sum(LAMBDA i : a[i] * At(b, k - i), N)]
pol_mul_wide2(a, b) == [k \in 0 .. 3 * N - 2 |-> Sum(LAMBDA j : At(a, k - j) * b[j], N)]
pol_extend(a) == [i \in 0 .. 2 * N - 2 |-> At(a, i)]
pol_adjoin_root(a) == [k \in DOMAIN a |-> At(a, k - 1) - Base * a[k]]

\* The quotient by x - Base; its last coefficient is left zero.
pol_remove_root_2exp(a, n) ==
    LET q[k \in 0 .. n - 1] ==
          IF k = 0 THEN -(a[0] \div Base)
          ELSE IF k = n - 1 THEN 0
          ELSE (q[k - 1] - a[k]) \div Base
    IN q

----------------------------------------------------------------------------
\* The constraints.  A row lv holds three inputs, the output and two auxiliary
\* registers; the row after it, nv, what a modular operation needs besides.

\* x + y = z + given * 2^256, limb by limb; where two rows are used the caller
\* has checked the given carry.
addcy(x, y, z, given, twoRow) ==
    LET t[i \in Index] ==
          ((IF i = 0 THEN 0 ELSE t[i - 1] * BaseInverse) + x[i] + y[i] - z[i]) % P
    IN /\ \A i \in Index : Zero(t[i] * (Base - t[i]))
       /\ ~twoRow => Zero(given[0] * (given[0] - 1))
       /\ Zero(t[N - 1] * BaseInverse - given[0])
       /\ \A i \in Index \ {0} : Zero(given[i])

\* a(x) b(x) - c(x) - (x - Base) s(x) is zero in its lower half.
mul(lv, left, right) ==
    LET s == [i \in Index |-> lv.aux0[i] + lv.aux1[i] * Base - AUX_COEFF_ABS_MAX]
        ab == pol_mul_lo(left, right)
        root == pol_adjoin_root(s)
    IN \A i \in Index : Zero(ab[i] - lv.out[i] - root[i])

IsDiv(lv) == Bit(lv.op \in {"DIV", "SHR"})

\* The flags of a zero modulus.
ZeroModulus(lv, nv, modulus) ==
    /\ Zero(nv.modIsZero * nv.modIsZero - nv.modIsZero)
    /\ Zero(Sum(LAMBDA i : modulus[i], N) * nv.modIsZero)
    /\ Zero(nv.modIsZero * IsDiv(lv) - nv.denomIsZero)

Plus(w, x) == [w EXCEPT ![0] = @ + x]

\* output < modulus, except where a denominator is zero.
check_reduced(lv, nv, output, modulus) ==
    addcy(Plus(modulus, nv.modIsZero), nv.outAuxRed, Plus(output, nv.denomIsZero),
          [i \in Index |-> IF i = 0 THEN 1 - nv.modIsZero * IsDiv(lv) ELSE 0], TRUE)

\* c(x) + q(x) m(x) + (x - Base) s(x), and the higher terms of q(x) m(x).
modular_constr_poly(nv, output, modulus, quot) ==
    LET prod == pol_mul_wide2(quot, Plus(modulus, nv.modIsZero))
        s == [i \in 0 .. 2 * N - 1 |->
                IF i = 2 * N - 1 THEN 0 ELSE nv.lo[i] - AUX_COEFF_ABS_MAX + Base * nv.hi[i]]
        root == pol_adjoin_root(s)
    IN [k \in 0 .. 3 * N - 2 |-> IF k < 2 * N THEN prod[k] + At(output, k) + root[k] ELSE prod[k]]

\* The input is the output modulo the modulus.
Reduces(lv, nv, input, output, modulus, quot) ==
    /\ ZeroModulus(lv, nv, modulus)
    /\ check_reduced(lv, nv, output, modulus)
    /\ LET poly == modular_constr_poly(nv, output, modulus, quot) IN
       \A k \in DOMAIN poly : Zero(poly[k] - At(input, k))

\* DIV, MOD and SHR: num = quo * den + rem.
eval_packed_divmod_helper(lv, nv, num, den, quo, rem) ==
    Reduces(lv, nv, num, rem, den, [i \in 0 .. 2 * N - 1 |-> At(quo, i)])

QuoInput(lv) == [i \in 0 .. 2 * N - 1 |-> IF i < N THEN lv.aux0[i] ELSE lv.aux1[i - N]]

\* A negative quotient is stored with an offset, and its sign after it.
submod_quot(lv) ==
    [i \in 0 .. 2 * N - 1 |-> IF i < N THEN lv.aux0[i] - (Base - 1) * lv.aux1[0] ELSE 0]

submod_sign(lv) ==
    /\ Zero(lv.aux1[0] * (lv.aux1[0] - 1))
    /\ \A i \in Index \ {0} : Zero(lv.aux1[i])

Added == {"ADDMOD", "ADDFP254"}
Subtracted == {"SUBMOD", "SUBFP254"}
Multiplied == {"MULMOD", "MULFP254"}
Fp254 == {"ADDFP254", "SUBFP254", "MULFP254"}
Modular == Added \cup Subtracted \cup Multiplied

\* What a modular operation reduces, and its quotient.
ModularInput(op, a, b) ==
    IF op \in Added THEN pol_add(a, b)
    ELSE IF op \in Subtracted THEN pol_sub(a, b)
    ELSE pol_mul_wide(a, b)

----------------------------------------------------------------------------
\* The constraints of BYTE (arithmetic/byte.rs): the bits of the index select
\* halves of the value's limbs down to one limb, and then one of its two bytes.
\* The inverse of the sum of the index's higher limbs is any field element
\* (four limbs in the code).

BaseByte == 2^(LimbBits \div 2)
Field == 0 .. P - 1
Levels == 0 .. LogN - 1
LastLevel == N - 2                       \* the limb selected
TheByte == N - 1                         \* the byte selected
Start(i) == N - 2^(i + 1)                \* where level i of the tree begins

\* The bits of the index and what is above them in its first limb.
IndexConstraints(r) ==
    /\ \A i \in 0 .. LogN : Zero(r.bits[i] * r.bits[i] - r.bits[i])
    /\ Zero(r.in0[0] - Sum(LAMBDA i : r.bits[i] * 2^i, LogN + 1) - r.decompHi * 2^(LogN + 1))

\* Limb j of level i, chosen among the limbs of the level above.
Chosen(r, i, j) ==
    LET above(k) == IF i = LogN - 1 THEN r.in1[k] ELSE r.tree[Start(i + 1) + k]
    IN r.bits[i + 1] * above(j) + (1 - r.bits[i + 1]) * above(j + 2^i)

TreeConstraints(r) ==
    \A i \in Levels : \A j \in 0 .. 2^i - 1 : Zero(r.tree[Start(i) + j] - Chosen(r, i, j))

\* The low byte is stored times the size of a byte: that and the range check
\* of both are enough to bound them.
SplitConstraint(r) == Zero(r.lastLo + BaseByte * (BaseByte * r.lastHi - Chosen(r, 0, 0)))

ByteConstraint(r) ==
    Zero(BaseByte * r.tree[TheByte]
         - r.bits[0] * r.lastLo - (1 - r.bits[0]) * BaseByte * r.lastHi)

HiLimbSum(r) == r.decompHi + Sum(LAMBDA i : IF i = 0 THEN 0 ELSE r.in0[i], N)

\* The flag of an index that is too large.
LargeConstraints(r) ==
    /\ Zero(r.isLarge * r.isLarge - r.isLarge)
    /\ Zero(HiLimbSum(r) * (r.isLarge - 1))
    /\ Zero(HiLimbSum(r) * r.sumInv - r.isLarge)

OutConstraints(r) ==
    /\ Zero(r.out[0] - (1 - r.isLarge) * r.tree[TheByte])
    /\ \A i \in Index \ {0} : Zero(r.out[i])

eval_byte(r) ==
    /\ IndexConstraints(r) /\ TreeConstraints(r) /\ SplitConstraint(r) /\ ByteConstraint(r)
    /\ LargeConstraints(r) /\ OutConstraints(r)

\* The constraints of a row and the row after it.
Constraints(lv, nv) ==
    CASE lv.op = "BYTE" -> eval_byte(lv)
      [] lv.op = "ADD" -> addcy(lv.in0, lv.in1, lv.out, lv.aux0, FALSE)
      [] lv.op = "SUB" -> addcy(lv.in1, lv.out, lv.in0, lv.aux0, FALSE)
      [] lv.op = "LT" -> addcy(lv.in1, lv.aux0, lv.in0, lv.out, FALSE)
      [] lv.op = "GT" -> addcy(lv.in0, lv.aux0, lv.in1, lv.out, FALSE)
      [] lv.op = "MUL" -> mul(lv, lv.in0, lv.in1)
      [] lv.op = "SHL" -> mul(lv, lv.in1, lv.in2)
      [] lv.op = "DIV" -> eval_packed_divmod_helper(lv, nv, lv.in0, lv.in1, lv.out, lv.aux0)
      [] lv.op = "MOD" -> eval_packed_divmod_helper(lv, nv, lv.in0, lv.in1, lv.aux0, lv.out)
      [] lv.op = "SHR" -> eval_packed_divmod_helper(lv, nv, lv.in1, lv.in2, lv.out, lv.aux0)
      [] lv.op \in Modular ->
            /\ lv.op \in Fp254 => lv.in2 = u256_to_array(BnBase)
            /\ lv.op \in Subtracted => submod_sign(lv)
            /\ Reduces(lv, nv, ModularInput(lv.op, lv.in0, lv.in1), lv.out, lv.in2,
                       IF lv.op \in Subtracted THEN submod_quot(lv) ELSE QuoInput(lv))

Ternary == {"ADDMOD", "SUBMOD", "MULMOD"}
Carried == {"ADD", "SUB", "LT", "GT"}
Products == {"MUL", "SHL"}
Divided == {"DIV", "MOD", "SHR"}

ArithmeticAssumption ==
    /\ LimbBits \in Nat \ {0} /\ LogN \in Nat /\ N = 2^LogN /\ (Base * BaseInverse) % P = 1
    /\ P \in Nat /\ \A d \in 2 .. P - 1 : d * d > P \/ P % d # 0
    /\ BnBase \in 1 .. Modulus - 1
    /\ Ops \subseteq Carried \cup Products \cup Divided \cup Modular \cup {"BYTE"}
    /\ "BYTE" \in Ops => LimbBits % 2 = 0 /\ LogN < LimbBits /\ LogN > 0
    /\ Inputs0 \cup Inputs1 \cup Inputs2 \subseteq 0 .. Modulus - 1

----------------------------------------------------------------------------
\* What an operation computes.

Bits == LimbBits * N

result(op, a, b, m) ==
    CASE op = "ADD" -> (a + b) % Modulus
      [] op = "SUB" -> (a - b) % Modulus
      [] op = "MUL" -> (a * b) % Modulus
      [] op = "LT" -> Bit(a < b)
      [] op = "GT" -> Bit(a > b)
      [] op = "SHL" -> IF a < Bits THEN (b * 2^a) % Modulus ELSE 0
      [] op = "SHR" -> IF a < Bits THEN b \div 2^a ELSE 0
      [] op = "DIV" -> IF b = 0 THEN 0 ELSE a \div b
      [] op = "MOD" -> IF b = 0 THEN 0 ELSE a % b
      [] op = "BYTE" -> IF a >= 2 * N THEN 0 ELSE (b \div BaseByte^(2 * N - 1 - a)) % BaseByte
      [] op \in Added -> IF m = 0 THEN 0 ELSE (a + b) % m
      [] op \in Subtracted -> IF m = 0 THEN 0 ELSE (a - b) % m
      [] op \in Multiplied -> IF m = 0 THEN 0 ELSE (a * b) % m

----------------------------------------------------------------------------
\* The rows generated.

NoWord == u256_to_array(0)
EmptyRow == [outAuxRed |-> NoWord, modIsZero |-> 0, denomIsZero |-> 0,
             lo |-> [i \in 0 .. 2 * N - 2 |-> 0], hi |-> [i \in 0 .. 2 * N - 2 |-> 0]]

Row(op, a, b, c, out, aux0, aux1) ==
    [op |-> op, in0 |-> a, in1 |-> b, in2 |-> c, out |-> out, aux0 |-> aux0, aux1 |-> aux1]

addcy_generate(op, a, b) ==
    LET diff == IF op = "GT" THEN (b - a) % Modulus ELSE (a - b) % Modulus
        cy == CASE op = "ADD" -> a + b >= Modulus [] op = "GT" -> b < a [] OTHER -> a < b
        out == CASE op = "ADD" -> (a + b) % Modulus [] op = "SUB" -> diff [] OTHER -> Bit(cy)
        aux == IF op \in {"ADD", "SUB"} THEN Bit(cy) ELSE diff
    IN Row(op, u256_to_array(a), u256_to_array(b), NoWord, u256_to_array(out), u256_to_array(aux), NoWord)

\* The carries of a long multiplication, the last one included, with an offset
\* that makes them positive.
MulAux(ab, out, cy) ==
    LET q == pol_remove_root_2exp([i \in Index |-> ab[i] - out[i]], N) IN
    [i \in Index |-> (IF i = N - 1 THEN -cy ELSE q[i]) + AUX_COEFF_ABS_MAX]

\* The output and the auxiliary registers of a product.
generate_mul(row, left, right) ==
    LET ab == pol_mul_lo(left, right)
        t[i \in Index] == ab[i] + (IF i = 0 THEN 0 ELSE t[i - 1] \div Base)
        out == [i \in Index |-> t[i] % Base]
        aux == MulAux(ab, out, t[N - 1] \div Base)
    IN [row EXCEPT !.out = out,
                   !.aux0 = [i \in Index |-> aux[i] % Base],
                   !.aux1 = [i \in Index |-> (aux[i] \div Base) % Base]]

\* The limbs of a number that may be negative.
bigint_to_columns(x, n) ==
    [i \in 0 .. n - 1 |-> IF x < 0 THEN -(((-x) \div Base^i) % Base) ELSE (x \div Base^i) % Base]

\* The remainder, made positive.
Remainder(x, m) == x % m

\* The remainder, the quotient and the second row of a reduction.
generate_modular_op(op, input, modulus) ==
    LET given == Value(modulus, N)
        div == op \in {"DIV", "SHR"}
        m == IF given # 0 THEN given ELSE IF div THEN Modulus ELSE 1
        limbs == IF given = 0 /\ ~div THEN u256_to_array(1) ELSE modulus
        x == Value(input, 2 * N - 1)
        output == Remainder(x, m)
        out == bigint_to_columns(output, N)
        quot == (x - output) \div m
        quotLimbs == bigint_to_columns(quot, 2 * N)
        prod == pol_mul_wide2(quotLimbs, limbs)
        aux == pol_remove_root_2exp(
                 [k \in 0 .. 2 * N - 1 |-> At(input, k) - At(out, k) - prod[k]], 2 * N)
        offset == [k \in 0 .. 2 * N - 2 |-> aux[k] + AUX_COEFF_ABS_MAX]
    IN [out |-> out,
        quot |-> [i \in 0 .. 2 * N - 1 |->
                    IF op \in Subtracted /\ quot < 0
                    THEN IF i < N THEN quotLimbs[i] + Base - 1 ELSE Bit(i = N)
                    ELSE quotLimbs[i]],
        nv |-> [outAuxRed |-> bigint_to_columns(Modulus - m + output, N),
                modIsZero |-> Bit(given = 0),
                denomIsZero |-> Bit(given = 0 /\ div),
                lo |-> [k \in 0 .. 2 * N - 2 |-> offset[k] % Base],
                hi |-> [k \in 0 .. 2 * N - 2 |-> (offset[k] \div Base) % Base]]]

\* The power of two of a shift, zero for a shift too long.
ShiftedDisplacement(shift) == IF shift < Bits THEN 2^shift ELSE 0

Lower(q) == [i \in Index |-> q[i]]

generate_divmod(op, row, num, den) ==
    LET r == generate_modular_op(op, pol_extend(num), den) IN
    <<[row EXCEPT !.aux0 = IF op = "MOD" THEN Lower(r.quot) ELSE r.out, !.aux1 = NoWord], r.nv>>

BitOf(x, i) == (x \div 2^i) % 2

\* The levels of BYTE's tree for the bits of an index, its last place left zero.
Tree(bits, val) ==
    LET level[i \in Levels] ==
          LET above == IF i = LogN - 1 THEN val ELSE level[i + 1]
          IN [j \in 0 .. 2^i - 1 |-> above[j + (1 - bits[i + 1]) * 2^i]]
    IN [k \in Index |->
          IF k = TheByte THEN 0
          ELSE LET i == CHOOSE i \in Levels : k >= Start(i) /\ k < Start(i) + 2^i
               IN level[i][k - Start(i)]]

IsLarge(idx, sum) == Bit(sum # 0)

generate_byte(idx, val) ==
    LET bits == [i \in 0 .. LogN |-> BitOf(idx, i)]
        x == u256_to_array(idx)
        decompHi == x[0] \div 2^(LogN + 1)
        sum == decompHi + Sum(LAMBDA i : IF i = 0 THEN 0 ELSE x[i], N)
        tree == Tree(bits, u256_to_array(val))
        lo == tree[LastLevel] % BaseByte
        hi == tree[LastLevel] \div BaseByte
        byte == IF bits[0] = 1 THEN lo ELSE hi
    IN [op |-> "BYTE", in0 |-> x, in1 |-> u256_to_array(val),
        out |-> u256_to_array(IF idx < 2 * N THEN byte ELSE 0),
        bits |-> bits, decompHi |-> decompHi,
        lastLo |-> lo * BaseByte, lastHi |-> hi,
        isLarge |-> IsLarge(idx, sum), sumInv |-> Inverse0(sum),
        tree |-> [tree EXCEPT ![TheByte] = byte]]

\* The rows of an operation.
to_rows(op, a, b, m) ==
    LET x == u256_to_array(a)
        y == u256_to_array(b)
        z == u256_to_array(m)
        power == u256_to_array(ShiftedDisplacement(a))
        out == u256_to_array(result(op, a, b, m))
    IN CASE op \in Carried -> <<addcy_generate(op, a, b), EmptyRow>>
         [] op = "MUL" -> <<generate_mul(Row(op, x, y, NoWord, NoWord, NoWord, NoWord), x, y), EmptyRow>>
         [] op = "SHL" -> <<generate_mul(Row(op, x, y, power, out, NoWord, NoWord), y, power), EmptyRow>>
         [] op \in {"DIV", "MOD"} -> generate_divmod(op, Row(op, x, y, NoWord, out, NoWord, NoWord), x, y)
         [] op = "SHR" -> generate_divmod(op, Row(op, x, y, power, out, NoWord, NoWord), y, power)
         [] op = "BYTE" -> <<generate_byte(a, b), EmptyRow>>
         [] op \in Modular ->
              LET r == generate_modular_op(op, ModularInput(op, x, y), z) IN
              <<Row(op, x, y, z, r.out, Lower(r.quot), [i \in Index |-> r.quot[N + i]]), r.nv>>

Init ==
    /\ claimed = FALSE
    /\ \E op \in Ops, a \in Inputs0, b \in Inputs1 :
       \E m \in IF op \in Ternary THEN Inputs2 ELSE IF op \in Fp254 THEN {BnBase} ELSE {0} :
       \E rows \in {to_rows(op, a, b, m)} :
          local = rows[1] /\ following = rows[2]

----------------------------------------------------------------------------
\* Any row that satisfies the constraints.

\* The carries that make the coefficients of poly - (x - Base) s zero, offset:
\* each coefficient leaves one choice.
Carries(poly, n) ==
    LET s[k \in 0 .. n - 1] == (BaseInverse * ((IF k = 0 THEN 0 ELSE s[k - 1]) - poly[k])) % P
    IN [k \in 0 .. n - 1 |-> (s[k] + AUX_COEFF_ABS_MAX) % P]
InRange(aux) == \A k \in DOMAIN aux : aux[k] < Base * Base
LoLimbs(aux) == [k \in DOMAIN aux |-> aux[k] % Base]
HiLimbs(aux) == [k \in DOMAIN aux |-> aux[k] \div Base]

ClaimCarry ==
    /\ local.op \in Carried
    /\ \E w \in Word, cy \in Limb :
          LET carry == [i \in Index |-> IF i = 0 THEN cy ELSE 0] IN
          local' = IF local.op \in {"ADD", "SUB"}
                   THEN [local EXCEPT !.out = w, !.aux0 = carry]
                   ELSE [local EXCEPT !.out = carry, !.aux0 = w]
    /\ UNCHANGED following

ClaimProduct ==
    /\ local.op \in Products
    /\ \E out \in Word :
       \E aux \in {LET ab == IF local.op = "MUL" THEN pol_mul_lo(local.in0, local.in1)
                                               ELSE pol_mul_lo(local.in1, local.in2)
                   IN  Carries([i \in Index |-> ab[i] - out[i]], N)} :
          /\ InRange(aux)
          /\ local' = [local EXCEPT !.out = out, !.aux0 = LoLimbs(aux), !.aux1 = HiLimbs(aux)]
    /\ UNCHANGED following

\* What the second row holds for an output, a flag and carries.
SecondRow(zero, output, modulus, aux) ==
    LET denom == zero * IsDiv(local) IN
    [outAuxRed |-> u256_to_array((Value(output, N) + denom - Value(modulus, N) - zero) % Modulus),
     modIsZero |-> zero, denomIsZero |-> denom, lo |-> LoLimbs(aux), hi |-> HiLimbs(aux)]

\* The carries of a reduction.
ReductionCarries(zero, input, output, modulus, quot) ==
    LET prod == pol_mul_wide2(quot, Plus(modulus, zero)) IN
    Carries([k \in 0 .. 2 * N - 1 |-> At(input, k) - At(output, k) - prod[k]], 2 * N - 1)

NoCarries == [k \in 0 .. 2 * N - 2 |-> 0]
Reducible(zero, output, modulus) ==
    LET next == SecondRow(zero, output, modulus, NoCarries) IN
    ZeroModulus(local, next, modulus) /\ check_reduced(local, next, output, modulus)

ClaimDivision ==
    /\ local.op \in Divided
    /\ LET num == IF local.op = "SHR" THEN local.in1 ELSE local.in0
           den == IF local.op = "SHR" THEN local.in2 ELSE local.in1
       IN \E zero \in {0, 1}, rem \in Word :
             /\ Reducible(zero, rem, den)
             /\ \E quo \in Word :
                \E aux \in {ReductionCarries(zero, num, rem, den, pol_extend(quo))} :
                   /\ InRange(aux)
                   /\ local' = [local EXCEPT !.out = IF local.op = "MOD" THEN rem ELSE quo,
                                             !.aux0 = IF local.op = "MOD" THEN quo ELSE rem]
                   /\ following' = SecondRow(zero, rem, den, aux)

ClaimModular ==
    /\ local.op \in Modular
    /\ \E zero \in {0, 1}, out \in Word :
          /\ Reducible(zero, out, local.in2)
          /\ \E lo, hi \in Word :
             \E row \in {[local EXCEPT !.out = out, !.aux0 = lo, !.aux1 = hi]} :
             \E aux \in {ReductionCarries(zero, ModularInput(local.op, local.in0, local.in1), out, local.in2,
                            IF local.op \in Subtracted THEN submod_quot(row) ELSE QuoInput(row))} :
                /\ InRange(aux)
                /\ local' = row
                /\ following' = SecondRow(zero, out, local.in2, aux)

\* The tree and the output of BYTE are what the constraints make of the other
\* columns, and any inverse that will do stands for all.
ClaimByte ==
    /\ local.op = "BYTE"
    /\ \E bits \in [0 .. LogN -> {0, 1}], decompHi \in Limb, isLarge \in {0, 1} :
       \E r \in {[local EXCEPT !.bits = bits, !.decompHi = decompHi, !.isLarge = isLarge,
                               !.tree = Tree(bits, local.in1)]} :
          /\ IndexConstraints(r)
          /\ \E inv \in {Inverse0(HiLimbSum(r))}, lo, hi \in Limb :
                /\ SplitConstraint([r EXCEPT !.lastLo = lo, !.lastHi = hi])
                /\ \E byte \in Limb :
                      local' = [r EXCEPT !.sumInv = inv, !.lastLo = lo, !.lastHi = hi,
                                         !.tree[TheByte] = byte,
                                         !.out = u256_to_array((1 - isLarge) * byte)]
    /\ UNCHANGED following

\* Another prover fills the columns it can choose; the constraints accept them.
Claim ==
    /\ ~claimed
    /\ ClaimCarry \/ ClaimProduct \/ ClaimDivision \/ ClaimModular \/ ClaimByte
    /\ Constraints(local', following')
    /\ claimed' = TRUE

Done == claimed /\ UNCHANGED vars

Next == Claim \/ Done

Spec == Init /\ [][Next]_vars

----------------------------------------------------------------------------
Result ==
    LET m == IF local.op = "BYTE" THEN 0 ELSE Value(local.in2, N)
    IN  result(local.op, Value(local.in0, N), Value(local.in1, N), m)
ByZero == \/ local.op = "DIV" /\ Value(local.in1, N) = 0
          \/ local.op = "SHR" /\ Value(local.in2, N) = 0

\* Every operation can be proved: the rows generated pass the range check,
\* satisfy the constraints and hold the result the CPU uses.
Complete ==
    ~claimed =>
        /\ Constraints(local, following)
        /\ Value(local.out, N) = Result
        /\ local.out \in Word
        /\ IF local.op = "BYTE"
           THEN /\ {local.decompHi, local.lastLo, local.lastHi, local.isLarge} \subseteq Limb
                /\ local.tree \in Word /\ local.sumInv \in Field
           ELSE /\ local.aux0 \in Word /\ local.aux1 \in Word /\ following.outAuxRed \in Word
                /\ \A k \in 0 .. 2 * N - 2 : following.lo[k] \in Limb /\ following.hi[k] \in Limb

\* Nothing else can be proved: whatever passes the range check and the
\* constraints holds the right result, unless it is divided by zero.
Sound == claimed /\ ~ByZero => Value(local.out, N) = Result

\* modular.rs: "In the case of DIV, we do something similar, except that we
\* "replace" the modulus with "2^256" to force the quotient to be zero."
QuotientByZero == claimed /\ ByZero => Value(local.out, N) = 0
=============================================================================
