---------------------------- MODULE MCRecursion ----------------------------
(***************************************************************************)
(* From the execution to the proof of a block, for TLC: the program cut    *)
(* into segments, the recursive circuits and the root proof of a segment,  *)
(* the layout of the public values, and the aggregation of segments,       *)
(* batches and blocks.  A behaviour is one of them: part says which.       *)
(***************************************************************************)
EXTENDS Aggregation, PublicValuesLayout, RecursiveCircuits, Segments

VARIABLE part
allVars == <<part, vars, layoutVars, circuitVars, segmentVars>>

-----------------------------------------------------------------------------
(* The segments that are aggregated.                                       *)

RegistersAt(pc) ==
    [pc |-> pc, is_kernel |-> TRUE, stack_len |-> 0, stack_top |-> 0, context |-> 0, gas_used |-> 0]
Roots(s, t) == [state |-> s, transactions |-> t, receipts |-> t]

\* Batch n of block b, from state root x to y; half 1 or 2 of it, or 0 for all.
Segment(b, n, x, y, half) ==
    [roots_before |-> Roots(x, IF n = 1 THEN EmptyRoot ELSE 10 + n - 1),
     roots_after |-> Roots(y, 10 + n),
     metadata |-> [number |-> b, gas_used |-> 2, blob |-> 0],
     hashes |-> [prev |-> [i \in 1 .. HashCount |-> 100 + b - HashCount - 1 + i], cur |-> 100 + b],
     extra |-> [checkpoint |-> 1, txn_before |-> n - 1, txn_after |-> n, gas_before |-> n - 1, gas_after |-> n],
     registers_before |-> RegistersAt(IF half = 2 THEN 5 ELSE MainLabel),
     registers_after |-> RegistersAt(IF half = 1 THEN 5 ELSE HaltLabel),
     mem_before |-> IF half = 2 THEN 50 ELSE InitCap,
     mem_after |-> IF half = 1 THEN 50 ELSE 60 + x]

\* A chain of two blocks of two batches, the first of two segments, with a segment
\* that starts from other memory and one of another block.
ChainSegments ==
    {Segment(1, 1, 1, 2, 1), Segment(1, 1, 1, 2, 2), [Segment(1, 1, 1, 2, 2) EXCEPT !.mem_before = 51],
     [Segment(1, 1, 1, 2, 2) EXCEPT !.metadata.blob = 1],
     Segment(1, 2, 2, 3, 0), Segment(2, 1, 3, 4, 0), Segment(2, 2, 4, 5, 0)}

\* Two chains of a block each, with batches that start from or end with other gas.
ForkSegments ==
    {Segment(1, 1, 1, 2, 0), Segment(1, 2, 2, 3, 0)}
      \cup {[s EXCEPT !.extra.checkpoint = 3] : s \in {Segment(2, 1, 3, 4, 0), Segment(2, 2, 4, 5, 0)}}
      \cup {[Segment(1, 2, 2, 3, 0) EXCEPT !.extra.gas_before = 0],
            [Segment(1, 2, 2, 3, 0) EXCEPT !.extra.gas_after = 1]}

AllSegments == ChainSegments \cup ForkSegments

Chain == INSTANCE Aggregation WITH Segments <- ChainSegments
Fork == INSTANCE Aggregation WITH Segments <- ForkSegments

-----------------------------------------------------------------------------
(* The programs that are cut into segments.                                *)

K(pc, op, arg) == [pc |-> pc, kernel |-> TRUE, op |-> op, arg |-> arg]
U(pc, op, arg) == [pc |-> pc, kernel |-> FALSE, op |-> op, arg |-> arg]
Halt == K(9, "op", 0)

\* Two transactions: inputs, a call into context 1 with a jump table, an
\* exception, the context pruned, then the second transaction.
TwoTransactions ==
    << K(1, "input", 0), K(2, "input", 0), K(3, "write", 1), K(4, "analyse", 2), U(0, "jump", 0),
       U(1, "write", 1), U(2, "exception", 0), K(5, "prune", 1), K(6, "txn", 0), K(1, "input", 0),
       K(3, "write", 2), U(0, "jump", 0), K(5, "prune", 2), K(6, "txn", 0), Halt >>

\* Every program of three instructions that does not write to a context it has pruned;
\* one is a user instruction at the halt label's counter.
Instructions == {K(1, "input", 0), K(3, "write", 1), K(4, "analyse", 2), U(0, "jump", 0),
                 U(2, "exception", 0), K(5, "prune", 1), U(9, "write", 3)}
ShortPrograms ==
    {p \o <<Halt>> : p \in {q \in [1 .. 3 -> Instructions] :
        \A i, j \in 1 .. 3 : q[i].op = "prune" /\ q[j].op = "write" => j < i}}

\* A kernel error at every point.
FailsAt(n) == SubSeq(TwoTransactions, 1, n) \o << K(7, "fail", 0), Halt >>
FailingPrograms == {FailsAt(n) : n \in 0 .. 14}

AllPrograms == ShortPrograms \cup {TwoTransactions} \cup FailingPrograms

-----------------------------------------------------------------------------
NoAggregation == todo = {} /\ proofs = {}
NoLayout == ix = 0 /\ at = 0 /\ seen = 0
NoCircuits == /\ bytes = 0 /\ prover = 0 /\ whole = 0 /\ job = 0
              /\ abort = 0 /\ allProofs = 0 /\ root = 0
NoRuns == /\ program = 0 /\ log = 0 /\ interp = 0 /\ partial = 0 /\ data = 0
          /\ cpu = 0 /\ segments = <<>> /\ outcome = "none" /\ calls = 0

MCInit ==
    \/ part = "chain" /\ Chain!Init /\ NoLayout /\ NoCircuits /\ NoRuns
    \/ part = "fork" /\ Fork!Init /\ NoLayout /\ NoCircuits /\ NoRuns
    \/ part = "layout" /\ LayoutInit /\ NoAggregation /\ NoCircuits /\ NoRuns
    \/ part = "circuits" /\ CircuitsInit /\ NoAggregation /\ NoLayout /\ NoRuns
    \/ part = "segments" /\ SegmentsInit /\ NoAggregation /\ NoLayout /\ NoCircuits

OnlyAggregation == UNCHANGED <<part, layoutVars, circuitVars, segmentVars>>
OnlyRuns == part = "segments" /\ UNCHANGED <<part, vars, layoutVars, circuitVars>>

MCNext ==
    \/ part = "chain" /\ OnlyAggregation /\ Chain!Next
    \/ part = "fork" /\ OnlyAggregation /\ Fork!Next
    \/ part = "layout" /\ LayoutNext /\ UNCHANGED <<part, vars, circuitVars, segmentVars>>
    \/ part = "circuits" /\ CircuitsNext /\ UNCHANGED <<part, vars, layoutVars, segmentVars>>
    \/ OnlyRuns /\ SegmentsNext

MCSpec == MCInit /\ [][MCNext]_allVars /\ WF_allVars(OnlyRuns /\ RunStep)

-----------------------------------------------------------------------------
\* A public value keeps its place and its meaning through every code that lists the
\* public values: registered, set, read back, taken to disk, observed in the two
\* transcripts, written to memory, compared and selected (proof.rs, get_challenges.rs,
\* fixed_recursive_verifier.rs, recursive_verifier.rs, verifier.rs, prover.rs).
LayoutRight ==
    part = "layout" =>
        /\ ReadsWhatWasRegistered /\ TranscriptsAgree /\ MemoryAgrees
        /\ CheckpointParent /\ ComparesAll

\* A prover state read from disk is the one that was built; the table proofs of one
\* segment, and of one only, make a root proof, whatever their sizes in the range;
\* and a segment whose traces fit is given up for the abort signal or for want of
\* table circuits only (fixed_recursive_verifier.rs, prover.rs).
CircuitsRight ==
    /\ [](part = "circuits" => /\ LoadedIsBuilt /\ HonestRootHolds
                               /\ RootAgreesWithVerifier)
    /\ [][part = "circuits" => FailsForAReason]_allVars

\* A program that is cut into segments is proved or given up in the end: the iterator
\* does not go on for ever, however often the caller asks again (prover.rs, state.rs).
SegmentsEnd == <>(part = "segments" => outcome # "running")
=============================================================================
