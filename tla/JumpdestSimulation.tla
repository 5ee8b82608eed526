--------------------------- MODULE JumpdestSimulation ---------------------------
(***************************************************************************)
(* Where the prover's jump destination tables come from.  When the kernel  *)
(* enters the first context of a transaction, the prover clones its state  *)
(* and interprets the rest of the call ahead of the proof, skipping the    *)
(* analysis itself and recording, for each context, the targets of its     *)
(* jumps (interpreter.rs, transition.rs).  The recorded tables then answer *)
(* the kernel's requests while the call is really executed, and a jump to  *)
(* a destination whose bit was not set faults, whereupon the kernel finds  *)
(* the destination valid and aborts.                                       *)
(*                                                                         *)
(* Code is a sequence of instructions; what a PUSH hides is the subject of *)
(* JumpdestAnalysis.  Context 1 runs the outer code, every call runs the   *)
(* inner code in a fresh context.                                          *)
(***************************************************************************)
EXTENDS Naturals, Sequences

CONSTANTS
    Len1, Len2,      \* instructions of the outer and of the inner code
    Gas              \* steps the transaction may take

ASSUME SimulationAssumption ==
    Len1 \in Nat \ {0} /\ Len2 \in Nat \ {0} /\ Gas \in Nat

VARIABLES
    outer, inner,    \* the codes
    phase,           \* "simulate", "prove", then "done" or "panic"
    frames,          \* the call stack: context, program counter, last call's result
    contexts,        \* contexts created so far
    gas,
    recorded,        \* jumpdest_table: context -> recorded targets
    outcome          \* of the outermost frame, in the simulation

simVars == <<outer, inner, phase, frames, contexts, gas, recorded, outcome>>

Instructions(n) ==
    {[op |-> o, to |-> 0] : o \in {"stop", "invalid", "jumpdest", "call"}}
        \cup {[op |-> o, to |-> d] : o \in {"jump", "jumpi"}, d \in 0 .. n - 1}

CodeAt(c, i) == IF i < Len(c) THEN c[i + 1] ELSE [op |-> "stop", to |-> 0]
IsDest(c, d) == CodeAt(c, d).op = "jumpdest"

\* No JUMP of the code has a target that is no destination.
Tame(c) == \A i \in 1 .. Len(c) : c[i].op = "jump" => IsDest(c, c[i].to)
Programs(n) == [1 .. n -> Instructions(n)]

MaxContexts == 1 + Gas
Start(ctx) == [ctx |-> ctx, pc |-> 0, ok |-> TRUE]

SimulationInit ==
    /\ outer \in Programs(Len1)
    /\ inner \in Programs(Len2)
    /\ phase = "simulate"
    /\ frames = <<Start(1)>>
    /\ contexts = 1
    /\ gas = Gas
    /\ recorded = [c \in 1 .. MaxContexts |-> {}]
    /\ outcome = TRUE

TopFrame == frames[Len(frames)]
Code == IF TopFrame.ctx = 1 THEN outer ELSE inner
Instr == CodeAt(Code, TopFrame.pc)
Running == phase \in {"simulate", "prove"} /\ frames # <<>>

\* The top frame goes on at pc p.
GoTo(p) ==
    /\ frames' = [frames EXCEPT ![Len(frames)].pc = p]
    /\ UNCHANGED <<phase, contexts>>

\* The frame goes on behind its call, which ended in ok.
Resumed(frame, ok) == [frame EXCEPT !.pc = @ + 1, !.ok = ok]

\* The top frame returns; its caller sees how.
Return(ok) ==
    /\ frames' = IF Len(frames) = 1 THEN <<>>
                 ELSE [SubSeq(frames, 1, Len(frames) - 1) EXCEPT ![Len(frames) - 1] = Resumed(@, ok)]
    /\ outcome' = IF Len(frames) = 1 /\ phase = "simulate" THEN ok ELSE outcome
    /\ phase' = IF Len(frames) # 1 THEN phase
                ELSE IF phase = "simulate" THEN "prove"
                ELSE IF ok = outcome THEN "done" ELSE "doneOther"
    /\ UNCHANGED contexts

Spend == gas > 0 /\ gas' = gas - 1

\* Mutant: every target is recorded for the first context.
AddJumpdestOffset_first(d) ==
    recorded' = IF phase = "simulate" THEN [recorded EXCEPT ![1] = @ \cup {d}] ELSE recorded

\* generate_jumpdest_analysis: in the simulation the target is recorded.
AddJumpdestOffset(d) ==
    recorded' = IF phase = "simulate" THEN [recorded EXCEPT ![TopFrame.ctx] = @ \cup {d}] ELSE recorded

\* The bit of d: set natively for the whole code in the simulation, and for
\* the recorded destinations in the proof.
JumpdestBit(d) == IsDest(Code, d) /\ (phase = "simulate" \/ d \in recorded[TopFrame.ctx])

\* A jump that found no bit: the kernel aborts if the target is a destination.
InvalidJump(d) ==
    IF IsDest(Code, d)
    THEN phase' = "panic" /\ UNCHANGED <<frames, contexts, outcome>>
    ELSE Return(FALSE)

\* JUMP: the simulation does not look at the bit.
Jump ==
    /\ Running /\ Instr.op = "jump" /\ Spend
    /\ AddJumpdestOffset(Instr.to)
    /\ IF phase = "simulate" \/ JumpdestBit(Instr.to)
       THEN GoTo(Instr.to) /\ UNCHANGED outcome ELSE InvalidJump(Instr.to)
    /\ UNCHANGED <<outer, inner>>

\* JUMPI, on the failure of the last call: the target is recorded, and the bit
\* is looked at in the simulation too.
Jumpi ==
    /\ Running /\ Instr.op = "jumpi" /\ Spend
    /\ IF TopFrame.ok THEN GoTo(TopFrame.pc + 1) /\ UNCHANGED <<recorded, outcome>>
       ELSE /\ AddJumpdestOffset(Instr.to)
            /\ IF JumpdestBit(Instr.to) THEN GoTo(Instr.to) /\ UNCHANGED outcome
               ELSE InvalidJump(Instr.to)
    /\ UNCHANGED <<outer, inner>>

Call ==
    /\ Running /\ Instr.op = "call" /\ Spend
    /\ frames' = Append(frames, Start(contexts + 1))
    /\ contexts' = contexts + 1
    /\ UNCHANGED <<outer, inner, phase, recorded, outcome>>

Jumpdest ==
    /\ Running /\ Instr.op = "jumpdest" /\ Spend
    /\ GoTo(TopFrame.pc + 1)
    /\ UNCHANGED <<outer, inner, recorded, outcome>>

Stop ==
    /\ Running /\ Instr.op \in {"stop", "invalid"} /\ Spend
    /\ Return(Instr.op = "stop")
    /\ UNCHANGED <<outer, inner, recorded>>

OutOfGas ==
    /\ Running /\ gas = 0
    /\ Return(FALSE)
    /\ UNCHANGED <<outer, inner, gas, recorded>>

\* The simulation ran on a clone: the proof starts from the same state.
Execute ==
    /\ phase = "prove" /\ frames = <<>>
    /\ frames' = <<Start(1)>> /\ contexts' = 1 /\ gas' = Gas
    /\ UNCHANGED <<outer, inner, phase, recorded, outcome>>

Done == phase \in {"done", "doneOther", "panic"} /\ UNCHANGED simVars

SimulationNext ==
    Jump \/ Jumpi \/ Call \/ Jumpdest \/ Stop \/ OutOfGas \/ Execute \/ Done

\* The interpreter and the prover run on until they end.
Fairness == WF_simVars(SimulationNext)

SimulationSpec == SimulationInit /\ [][SimulationNext]_simVars /\ Fairness

----------------------------------------------------------------------------
\* Every jump destination the real execution uses was recorded for its
\* context by the simulation: the kernel never meets a jump it must abort on.
AllJumpsRecorded == phase # "panic"

\* The real execution ends as the simulation did.
SimulationAgrees == phase # "doneOther"

\* Both, for codes whose JUMPs go to destinations: the jump targets the prover's
\* simulation of a call recorded (interpreter.rs) are all the real execution jumps
\* to, context by context, and the two end alike.
SimulationRight == Tame(outer) /\ Tame(inner) => AllJumpsRecorded /\ SimulationAgrees
=============================================================================
