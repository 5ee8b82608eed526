------------------------------ MODULE Segments ------------------------------
(***************************************************************************)
(* Cutting one execution into segments.  SegmentDataIterator runs the      *)
(* interpreter for at most a given number of cycles, hands out the data of *)
(* the segment and keeps the start of the next; generate_traces runs the   *)
(* same cycles again from that data alone, producing the trace.  The two   *)
(* runs share run_cpu: the first cycles of a segment restore the registers *)
(* (the init routine), the last ones check them (the exc_stop routine),    *)
(* and in between the program continues.                                   *)
(*                                                                         *)
(* The program is a sequence of points; a point has its program counter,   *)
(* its mode and what its instruction does.  Memory is the set of contexts  *)
(* with content; a trace is the number of its CPU rows.                    *)
(***************************************************************************)
EXTENDS Integers, Sequences, FiniteSets

CONSTANTS Programs,      \* the programs tried: sequences of points [pc, kernel, op, arg]
          HaltPc,        \* KERNEL.global_labels["halt"]
          MaxCpuLenLogs, \* the values of max_cpu_len_log tried; 0 stands for None
          NUM_EXTRA_CYCLES_BEFORE, NUM_EXTRA_CYCLES_AFTER,
          MaxSegments,   \* bound on the segments of a program
          MaxCalls       \* the errors of next() a caller takes before it gives up; 1 in prove_all_segments

MaxLog == 30   \* bound: lengths of traces are up to 2^30
Power(l) == 2^l
Powers == {Power(l) : l \in 0..MaxLog}

\* A program is what is executed, so that it ends where the kernel first halts; and no
\* context is written to once it has been pruned, for contexts are not used again.
ProgramPoints == [pc : Nat, kernel : BOOLEAN, op : STRING, arg : Nat]
Executed(prog) ==
  /\ prog \in Seq(ProgramPoints) /\ prog # <<>>
  /\ \A p \in 1..Len(prog) : (prog[p].kernel /\ prog[p].pc = HaltPc) <=> p = Len(prog)
  /\ prog[Len(prog)].op # "fail"
  /\ \A p, q \in 1..Len(prog) : p < q /\ prog[p].op = "prune" /\ prog[q].op = "write" => prog[p].arg # prog[q].arg

\* The cycle bound leaves room for a cycle of the program between the two routines
\* (its last conjunct); that powers of two are numbers is told to the prover.
ASSUME SegAssumption ==
  /\ \A prog \in Programs : Executed(prog)
  /\ NUM_EXTRA_CYCLES_BEFORE \in Nat \ {0} /\ NUM_EXTRA_CYCLES_AFTER \in Nat \ {0, 1}
  /\ MaxSegments \in Nat /\ MaxCalls \in Nat \ {0}
  /\ MaxCpuLenLogs \subseteq 0..MaxLog /\ Powers \subseteq Nat
  /\ \A l \in MaxCpuLenLogs \ {0} : Power(l) > NUM_EXTRA_CYCLES_BEFORE + NUM_EXTRA_CYCLES_AFTER

None == [none |-> TRUE]   \* no data, no run
NoTable == -1
VARIABLES program,  \* the program that is run
          log,      \* max_cpu_len_log
          interp,   \* the interpreter's state
          partial,  \* partial_next_data
          data,     \* the data of the segment in hand, or None
          cpu,      \* the run of run_cpu under way, or None
          segments, \* the segments proved, oldest first
          outcome,  \* of prove_all_segments: "running", "done", "error"
          calls     \* errors the iterator has yielded
segmentVars == <<program, log, interp, partial, data, cpu, segments, outcome, calls>>

Points == DOMAIN program
AtHalt(p) == program[p].kernel /\ program[p].pc = HaltPc

\* What is carried besides the memory: prover inputs left and the jumpdest table.
Inputs == Cardinality({p \in Points : program[p].op = "input"})
Extra0 == [inputs |-> Inputs, table |-> NoTable, txn |-> 0]

\* Mutant: the exit routine's cycles are not set aside.
cycle_limit_whole(l) == Power(l)
cycle_limit(l) == Power(l) - NUM_EXTRA_CYCLES_AFTER

\* A run starts in the init routine, whatever the registers say.
StartRun(who, at, memory, extra) ==
  [who |-> who, clock |-> 0, running |-> TRUE, at |-> at, final |-> 0, exit |-> 0,
   memory |-> memory, stale |-> {}, extra |-> extra, phase |-> "init"]

SegmentsInit ==
  /\ program \in Programs /\ log \in MaxCpuLenLogs
  /\ interp = [memory |-> {0}, extra |-> Extra0, stale |-> {}]
  /\ partial = None /\ data = None /\ cpu = None
  /\ segments = <<>> /\ outcome = "running" /\ calls = 0

build_segment_data(i, before, after, memory, extra) ==
  [index |-> i, before |-> before, after |-> after, memory |-> memory, extra |-> extra]

\* Mutant: the counter is compared with the next label's.
Consumed_late(d) == program[d.after].pc = HaltPc + 1
\* The iterator's test of the end: the program counter alone.
Consumed(d) == program[d.after].pc = HaltPc

\* SegmentDataIterator::next up to the interpreter's run.
generate_next_segment ==
  /\ outcome = "running" /\ data = None /\ cpu = None /\ Len(segments) < MaxSegments
  /\ IF partial = None
     THEN LET d == build_segment_data(0, 1, 1, interp.memory, interp.extra)
          IN  /\ data' = d
              /\ cpu' = [StartRun("interpreter", d.after, d.memory, d.extra) EXCEPT !.stale = interp.stale]
              /\ UNCHANGED outcome
     ELSE IF Consumed(partial)
     THEN UNCHANGED <<data, cpu>> /\ outcome' = "done"
     ELSE /\ data' = partial
          /\ cpu' = [StartRun("interpreter", partial.after, partial.memory, partial.extra) EXCEPT !.stale = interp.stale]
          /\ UNCHANGED outcome
  /\ UNCHANGED <<program, log, interp, partial, segments, calls>>

\* What an instruction does to memory, inputs and the jumpdest table.
Effect(c) ==
  LET i == program[c.at]
  IN  [c EXCEPT !.memory = IF i.op = "write" THEN @ \cup {i.arg} ELSE @,
                !.stale = IF i.op = "prune" THEN @ \cup {i.arg} ELSE @,
                !.extra.inputs = IF i.op = "input" THEN @ - 1 ELSE @,
                !.extra.table = CASE i.op = "analyse" -> IF c.extra.table = NoTable THEN i.arg ELSE c.extra.table
                                  [] i.op = "jump" /\ c.extra.table # NoTable -> c.extra.table - 1
                                  [] OTHER -> c.extra.table,
                !.extra.txn = IF i.op = "txn" THEN @ + 1 ELSE @]

\* A cycle of the init routine; its last instruction, EXIT_KERNEL, restores
\* the program counter, the mode and the gas.
InitCycle ==
  /\ cpu # None /\ cpu.phase = "init"
  /\ cpu' = [cpu EXCEPT !.clock = @ + 1, !.phase = IF cpu.clock + 1 = NUM_EXTRA_CYCLES_BEFORE THEN "program" ELSE "init"]
  /\ UNCHANGED <<program, log, interp, partial, data, segments, outcome, calls>>

AtEndSegment(c) == log # 0 /\ c.clock = cycle_limit(log)
Stops(c) == c.phase = "program" /\ (AtHalt(c.at) \/ AtEndSegment(c))

Fails(c) == program[c.at].op = "fail" \/ (program[c.at].op = "input" /\ c.extra.inputs = 0)
\* transition: one row for an instruction, and one for an exception in its
\* place (the instruction's effects are rolled back).
transition ==
  /\ cpu # None /\ cpu.phase = "program" /\ ~Stops(cpu) /\ ~Fails(cpu)
  /\ cpu' = [IF program[cpu.at].op = "exception" THEN cpu ELSE Effect(cpu) EXCEPT !.clock = @ + 1, !.at = @ + 1]
  /\ UNCHANGED <<program, log, interp, partial, data, segments, outcome, calls>>
\* An error in kernel mode ends the run and next() yields it.  The iterator
\* keeps partial_next_data: a caller that asks again has the segment run again,
\* on the interpreter as the failed run left it.
TransitionFails ==
  /\ cpu # None /\ cpu.phase = "program" /\ ~Stops(cpu) /\ Fails(cpu)
  /\ cpu' = None /\ data' = None /\ calls' = calls + 1
  /\ interp' = IF cpu.who = "interpreter" THEN [memory |-> cpu.memory, extra |-> cpu.extra, stale |-> cpu.stale] ELSE interp
  /\ outcome' = IF calls + 1 >= MaxCalls THEN "error" ELSE "running"
  /\ UNCHANGED <<program, log, partial, segments>>

\* The end of a segment: the final registers are taken and the stop exception
\* raised; the exit routine checks them and runs to halt_final.
final_exception ==
  /\ cpu # None /\ Stops(cpu)
  /\ cpu' = [cpu EXCEPT !.running = FALSE, !.final = cpu.at, !.clock = @ + 1, !.phase = "exit", !.exit = 1]
  /\ UNCHANGED <<program, log, interp, partial, data, segments, outcome, calls>>
ExitCycle ==
  /\ cpu # None /\ cpu.phase = "exit" /\ cpu.exit < NUM_EXTRA_CYCLES_AFTER - 1
  /\ cpu' = [cpu EXCEPT !.clock = @ + 1, !.exit = @ + 1]
  /\ UNCHANGED <<program, log, interp, partial, data, segments, outcome, calls>>

Halted == cpu # None /\ cpu.phase = "exit" /\ cpu.exit >= NUM_EXTRA_CYCLES_AFTER - 1

\* The interpreter's memory after the run, without the contexts pruned so far.
get_active_memory(c) == c.memory \ c.stale

\* The interpreter is done: complete the segment, start the next, and run the
\* prover from the segment's data.
NextReturns ==
  /\ Halted /\ cpu.who = "interpreter"
  /\ LET memory == get_active_memory(cpu)
     IN  /\ interp' = [memory |-> memory, extra |-> cpu.extra, stale |-> cpu.stale]
         /\ partial' = build_segment_data(data.index + 1, cpu.final, cpu.final, memory, cpu.extra)
         /\ data' = [data EXCEPT !.after = cpu.final]
         /\ cpu' = StartRun("prover", data.before, data.memory, data.extra)
  /\ UNCHANGED <<program, log, segments, outcome, calls>>

\* simulate_cpu pads the trace to a power of two with at least one row.
Padded(rows) == CHOOSE p \in Powers : p > rows /\ \A q \in Powers : q > rows => p <= q

\* The proof of the segment: the exit routine has asserted the final registers
\* against the public ones, and the memory after is what the trace ends with.
generate_traces ==
  /\ Halted /\ cpu.who = "prover"
  /\ IF cpu.final = data.after
     THEN /\ segments' = Append(segments, [index |-> data.index, before |-> data.before, after |-> data.after, rows |-> Padded(cpu.clock),
                                           memBefore |-> data.memory, memAfter |-> cpu.memory \ cpu.stale, extra |-> cpu.extra])
          /\ UNCHANGED outcome
     ELSE outcome' = "error" /\ UNCHANGED segments
  /\ data' = None /\ cpu' = None
  /\ UNCHANGED <<program, log, interp, partial, calls>>

Finished == (outcome # "running" \/ Len(segments) = MaxSegments) /\ UNCHANGED segmentVars

RunStep == generate_next_segment \/ InitCycle \/ transition \/ final_exception \/ ExitCycle
        \/ NextReturns \/ generate_traces \/ TransitionFails
SegmentsNext == RunStep \/ Finished

\* The iterator is asked for segments, and the program run, as long as it goes on.
SegmentsSpec == SegmentsInit /\ [][SegmentsNext]_segmentVars /\ WF_segmentVars(RunStep)

(******************************** properties *******************************)

TypeOK == /\ program \in Programs /\ log \in MaxCpuLenLogs /\ outcome \in {"running", "done", "error"} /\ calls \in 0..MaxCalls
          /\ cpu # None => cpu.at \in Points /\ cpu.extra.inputs \in 0..Inputs

\* The trace of a segment, padding included, never has more rows than asked
\* for: the cycles of the exit routine fit behind the cycle limit (run_cpu).
SegmentsFit == \A i \in DOMAIN segments : log # 0 => segments[i].rows <= Power(log)

\* Segments join up: each starts with the registers and the memory its
\* predecessor's proof ends with, though the two come from different runs.
SegmentsJoin ==
  \A i \in DOMAIN segments :
     /\ segments[i].index = i - 1
     /\ i = 1 => segments[i].before = 1
     /\ i > 1 => /\ segments[i].before = segments[i - 1].after
                 /\ segments[i].memBefore = segments[i - 1].memAfter

\* The prover replays what the interpreter ran: with the inputs kept in the
\* segment's data it ends where the data of the next segment starts.
ReplayAgrees == \A i \in DOMAIN segments : i = Len(segments) /\ cpu = None => segments[i].extra = partial.extra

\* The proofs are returned only when the whole program was run
\* ("The payload was fully consumed."), and a program is given up exactly when it
\* fails, however often the caller asks the iterator again after an error; if no user
\* instruction that is executed has the halt label's counter.
HaltIsKernels == \A p \in Points : program[p].pc = HaltPc => program[p].kernel
CanFail == \E p \in Points : program[p].op = "fail"
WholeProgram == outcome = "done" /\ HaltIsKernels => segments # <<>> /\ AtHalt(segments[Len(segments)].after)
ErrorIffItFails ==
  /\ outcome = "error" => CanFail
  /\ outcome = "done" /\ HaltIsKernels => ~CanFail

\* The segments of a program fit, join up, replay what the interpreter ran and cover
\* the whole program, which is given up exactly when it fails (prover.rs, state.rs).
SegmentsSafe == SegmentsFit /\ SegmentsJoin /\ ReplayAgrees /\ WholeProgram /\ ErrorIffItFails
=============================================================================
