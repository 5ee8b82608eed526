---------------------------- MODULE JumpdestAnalysis ----------------------------
(***************************************************************************)
(* Which bytes of a contract are jump destinations.  A JUMPDEST byte is a  *)
(* destination unless it is the argument of a PUSH.  The kernel does not   *)
(* decode the whole code: the prover names the destinations it will use    *)
(* and, for each, a proof, an earlier position from which decoding may     *)
(* start (core/jumpdest_analysis.asm, generation/prover_input.rs).  When a *)
(* jump faults, the kernel asks for a proof that its target is not a       *)
(* destination.                                                            *)
(*                                                                         *)
(* The longest PUSH, 32 bytes in the code, is W here: the checks only use  *)
(* that the window of a proof is as long as the longest PUSH.              *)
(***************************************************************************)
EXTENDS Naturals, Sequences, FiniteSetsExt

CONSTANTS
    W,            \* argument bytes of the longest PUSH (32)
    MaxLen        \* longest code

ASSUME JumpdestAssumption == W \in Nat \ {0} /\ MaxLen \in Nat \ {0}

VARIABLES
    honest,       \* the prover is the one of prover_input.rs; if not, it sends any
                  \* addresses and proofs
    code,         \* the bytes of the context's code
    used,         \* the targets of the jumps the simulation recorded
    table,        \* jumpdest_table[ctx]: proofs and addresses, popped from the end
    addr,         \* the address under check
    bits,         \* SEGMENT_JUMPDEST_BITS: the positions whose bit is one
    pc            \* what runs, or how it ended

analysisVars == <<honest, code, used, table, addr, bits, pc>>

(***************************************************************************)
(* Bytes: k in 1..W is PUSHk, W + 1 is JUMPDEST, 0 is any other opcode.    *)
(***************************************************************************)
Bytes == 0 .. W + 1
JUMPDEST == W + 1
IsPush(b) == b \in 1 .. W

\* Memory behind the code reads zero.
At(c, i) == IF i < Len(c) THEN c[i + 1] ELSE 0

BytesToSkip(b) == IF IsPush(b) THEN b + 1 ELSE 1

\* Reference: position i starts an instruction if it is 0 or follows one.
IsInstruction(c) ==
    LET I[i \in 0 .. MaxLen] ==
            i = 0 \/ \E j \in 0 .. i - 1 : I[j] /\ j + BytesToSkip(At(c, j)) = i
    IN  I
ValidDests(c) == {i \in 0 .. Len(c) - 1 : IsInstruction(c)[i] /\ At(c, i) = JUMPDEST}

(***************************************************************************)
(* The prover.                                                             *)
(***************************************************************************)
\* The addresses CodeIterator::until(code, end) yields.
CodeIterator(c, end) ==
    LET stop == Min({Len(c), end})
        P[i \in 0 .. stop + W] == IF i >= stop THEN {} ELSE {i} \cup P[i + BytesToSkip(At(c, i))]
    IN  P[0]

\* None of the W bytes before address a is a PUSH that reaches it.
HasPrefix(c, a) ==
    a >= W /\ \A i \in 0 .. W - 1 : LET b == At(c, a - 1 - i) IN ~IsPush(b) \/ b < 1 + i

LastProof(c, a) ==
    LET good == {x \in CodeIterator(c, a + 1) : HasPrefix(c, x)}
    IN  IF good = {} THEN 0 ELSE Max(good) - W

\* The fold over the instructions: T[n] is what those below n have pushed.
ProofsAndJumpdests(c, asked) ==
    LET found == CodeIterator(c, Max(asked) + 1) \cap asked
        T[n \in 0 .. Max(asked) + 1] ==
            IF n = 0 THEN <<>>
            ELSE IF n - 1 \in found THEN T[n - 1] \o <<LastProof(c, n - 1), n - 1>>
            ELSE T[n - 1]
    IN  T[Max(asked) + 1]

TableOf(c, asked) == IF asked = {} THEN <<>> ELSE ProofsAndJumpdests(c, asked)

ClosestOpcode(c, a) ==
    LET before == CodeIterator(c, a + 1) IN IF before = {} THEN 0 ELSE Max(before)

\* Mutant: the hint near the start of the code is the instruction, not zero.
NonJumpdestProof_inside(c, a) == IF ClosestOpcode(c, a) < W THEN ClosestOpcode(c, a) ELSE 0

NonJumpdestProof(c, a) == IF ClosestOpcode(c, a) < W THEN 0 ELSE ClosestOpcode(c, a)

(***************************************************************************)
(* The kernel.                                                             *)
(***************************************************************************)
\* The positions verify_path_and_write_jumpdest_table visits from i, up to
\* the first one at or behind final.
Path(c, i, final) ==
    LET P[j \in 0 .. final + W] == IF j >= final THEN {j} ELSE {j} \cup P[j + BytesToSkip(At(c, j))]
    IN  IF i >= final THEN {i} ELSE P[i]

\* Mutant: the walk marks its last position without comparing it.
VerifyPath_unequal(c, i, final, marked) ==
    marked \cup {j \in Path(c, i, final) : j < final /\ At(c, j) = JUMPDEST} \cup {final}

VerifyPath(c, i, final, marked) ==
    marked \cup {j \in Path(c, i, final) : j < final /\ At(c, j) = JUMPDEST}
           \cup (Path(c, i, final) \cap {final})

\* None of the W bytes from i is a PUSH that reaches i + W.
PrefixOK(c, i) ==
    \A j \in 0 .. W - 1 : LET b == At(c, i + j) IN ~(IsPush(b) /\ b >= W - j)

\* write_table_if_jumpdest: the marked positions afterwards, or an abort.
Aborts(c, proof, a) == At(c, a) = JUMPDEST /\ proof # 0 /\ ~PrefixOK(c, proof)
WriteTable(c, proof, a, marked) ==
    IF At(c, a) # JUMPDEST THEN marked
    ELSE VerifyPath(c, IF proof = 0 THEN 0 ELSE proof + W, a, marked)

----------------------------------------------------------------------------
Codes == UNION {[1 .. n -> Bytes] : n \in 0 .. MaxLen}
Positions == 0 .. MaxLen

AnalysisInit ==
    /\ honest \in BOOLEAN
    /\ code \in Codes
    /\ used \in SUBSET Positions
    /\ ~honest => used = {}
    /\ table = TableOf(code, used)
    /\ addr = 0
    /\ bits = {}
    /\ pc = "analysis"

\* jumpdest_table::next_address: the address plus one, or zero for the end.
NextAddress ==
    IF honest THEN {IF table = <<>> THEN 0 ELSE table[Len(table)] + 1}
    ELSE {a + 1 : a \in Positions} \cup {0}

\* Vec::pop
Popped == IF table = <<>> THEN table ELSE SubSeq(table, 1, Len(table) - 1)

\* jumpdest_analysis and check_proof
TakeAddress ==
    /\ pc = "analysis"
    /\ \E a \in NextAddress :
          /\ addr' = IF a = 0 THEN 0 ELSE a - 1
          /\ pc' = CASE a = 0 -> "user"
                     [] a > Len(code) -> "rejected"
                     [] OTHER -> "proof"
    /\ table' = Popped
    /\ UNCHANGED <<honest, code, used, bits>>

\* jumpdest_table::next_proof
NextProof == IF honest THEN {table[Len(table)]} ELSE Positions

TakeProof ==
    /\ pc = "proof"
    /\ \E proof \in NextProof :
          /\ pc' = IF Aborts(code, proof, addr) THEN "rejected" ELSE "analysis"
          /\ bits' = IF Aborts(code, proof, addr) THEN bits ELSE WriteTable(code, proof, addr, bits)
    /\ table' = Popped
    /\ addr' = 0
    /\ UNCHANGED <<honest, code, used>>

\* A user jump to a, whose bit is zero, faults.  The handler verifies that a
\* is no destination; it aborts if a's bit is one afterwards.
JumpProofs(a) == IF honest THEN {NonJumpdestProof(code, a)} ELSE Positions

FaultingJump ==
    /\ pc = "user"
    /\ \E a \in Positions \ bits : \E proof \in JumpProofs(a) :
          LET marked == WriteTable(code, proof, a, bits)
              stop == proof > a \/ Aborts(code, proof, a)
          IN  /\ addr' = a
              /\ bits' = IF stop THEN bits ELSE marked
              /\ pc' = CASE stop -> "faultRejected"
                         [] ~stop /\ a \in marked -> "panic"
                         [] OTHER -> "faulted"
    /\ UNCHANGED <<honest, code, used, table>>

Ended == {"rejected", "faulted", "faultRejected", "panic"}
Halted == pc \in Ended /\ UNCHANGED analysisVars

AnalysisNext == TakeAddress \/ TakeProof \/ FaultingJump \/ Halted

AnalysisSpec == AnalysisInit /\ [][AnalysisNext]_analysisVars

----------------------------------------------------------------------------
AnalysisTypeOK ==
    /\ honest \in BOOLEAN
    /\ code \in Codes
    /\ used \subseteq Positions
    /\ table \in Seq(Nat)
    /\ addr \in Nat
    /\ bits \subseteq Positions
    /\ pc \in {"analysis", "proof", "user"} \cup Ended

\* Whatever addresses and proofs the prover sends, a bit is set only at a
\* jump destination: a proof that starts decoding inside a PUSH is rejected.
BitsValid == bits \subseteq ValidDests(code)

\* The prover's table is in the order the kernel pops it, and every proof in
\* it passes the kernel's check: the analysis never aborts.
AnalysisAccepts == honest => pc # "rejected"

\* Every destination the simulation recorded has its bit set when user code
\* starts, so that a jump to it does not fault; addresses that are no
\* destination, or lie behind the code, are passed over.
UsedDestsMarked == pc = "user" => used \cap ValidDests(code) \subseteq bits

\* A faulting jump whose closest instruction lies in the first W bytes is
\* decided right: it faults if its target is no destination, and aborts the
\* proof if it is one.
NearFaultDecided ==
    honest /\ pc \in Ended \ {"rejected"} /\ ClosestOpcode(code, addr) < W =>
        pc = IF addr \in ValidDests(code) THEN "panic" ELSE "faulted"

\* All of it.
AnalysisRight == BitsValid /\ AnalysisAccepts /\ UsedDestsMarked /\ NearFaultDecided

\* exception.asm, on the target of a faulting jump: the kernel wants to
\* "`PANIC` if it is valid, and jump to `fault_exception` if it is not".
FaultProofAccepted == honest /\ addr \notin ValidDests(code) => pc # "faultRejected"

\* jumpdest_analysis.asm, on verify_non_jumpdest: afterwards the bits "will
\* contain a 0 if and only if addr is not a jumpdest".
FaultsOnlyNonJumpdests == honest /\ pc = "faulted" => addr \notin ValidDests(code)
=============================================================================
