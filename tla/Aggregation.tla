----------------------------- MODULE Aggregation -----------------------------
(***************************************************************************)
(* The tree of recursive proofs: segments are aggregated into batches of   *)
(* transactions, batches into the transactions of a block, blocks onto     *)
(* their parents, and blocks of different chains with one another.         *)
(*                                                                         *)
(* A proof is known by its kind and its public values.  A circuit is the   *)
(* conjunction of its constraints on the public values of the proof it     *)
(* makes and of the proofs it verifies; an operation computes the new      *)
(* public values as the prover does and fails if the circuit is not        *)
(* satisfied.  "covers" is history: the segments a proof is made of.       *)
(***************************************************************************)
EXTENDS Integers, Sequences

CONSTANTS
    Segments,   \* the public values of the segments that were proved
    MainLabel,  \* program counters at the start and the end of the kernel
    HaltLabel,
    InitCap,    \* the commitment to the initial memory
    EmptyRoot,  \* the root of an empty trie
    HashCount   \* hashes of earlier blocks in public values: 256

ASSUME HashCountAssumption == HashCount \in Nat \ {0}

\* The fields of public values.
Fields == {"roots_before", "roots_after", "metadata", "hashes", "extra",
           "registers_before", "registers_after", "mem_before", "mem_after"}
MetadataFields == {"number", "gas_used", "blob"}
ExtraFields == {"checkpoint", "txn_before", "txn_after", "gas_before", "gas_after"}

IsValues(p) ==
    /\ p = [f \in Fields |-> p[f]]
    /\ p.metadata = [f \in MetadataFields |-> p.metadata[f]]
    /\ p.extra = [f \in ExtraFields |-> p.extra[f]]
    /\ p.metadata.number \in Int

ASSUME SegmentsAssumption == \A s \in Segments : IsValues(s)

VARIABLES
    todo,   \* segments that are still to be proved
    proofs  \* the proofs waiting to be combined

vars == <<todo, proofs>>

-----------------------------------------------------------------------------
(* Public values. *)

First(c) == c[1]
Final(c) == c[Len(c)]

Proof(k, p, c) == [kind |-> k, pv |-> p, covers |-> c]
Of(kinds) == {p \in proofs : p.kind \in kinds}

-----------------------------------------------------------------------------
(* Segments. *)

\* What two segments of one batch agree on.
SameContext(p, q) ==
    /\ p.roots_before = q.roots_before
    /\ p.roots_after = q.roots_after
    /\ p.metadata = q.metadata
    /\ p.hashes = q.hashes
    /\ p.extra = q.extra

\* The same, as the right-hand side is compared: blob gas and beacon root are left out.
SameContextIf(p, q) == SameContext([p EXCEPT !.metadata = [@ EXCEPT !.blob = q.metadata.blob]], q)

\* Mutant: the memory is not connected between segments.
create_segment_aggregation_circuit_memory(pv, l, r, is_dummy, l_is_agg) ==
    /\ SameContext(pv, l)
    /\ pv.registers_before = l.registers_before
    /\ pv.mem_before = l.mem_before
    /\ ~is_dummy =>
        /\ SameContextIf(pv, r)
        /\ pv.registers_after = r.registers_after
        /\ l.registers_after = r.registers_before
        /\ pv.mem_after = r.mem_after
    /\ is_dummy =>
        /\ ~l_is_agg
        /\ pv.mem_after = l.mem_after
        /\ pv.registers_after = l.registers_after

\* The right-hand side continues the left, or is a dummy and the left is one segment.
create_segment_aggregation_circuit(pv, l, r, is_dummy, l_is_agg) ==
    /\ SameContext(pv, l)
    /\ pv.registers_before = l.registers_before
    /\ pv.mem_before = l.mem_before
    /\ ~is_dummy =>
        /\ SameContextIf(pv, r)
        /\ pv.registers_after = r.registers_after
        /\ l.registers_after = r.registers_before
        /\ pv.mem_after = r.mem_after
        /\ l.mem_after = r.mem_before
    /\ is_dummy =>
        /\ ~l_is_agg
        /\ pv.mem_after = l.mem_after
        /\ pv.registers_after = l.registers_after

\* Mutant: the memory before is left as the right-hand side has it.
SegmentAggValues_right(l, r, is_dummy) ==
    LET real == IF is_dummy THEN l ELSE r
    IN  [real EXCEPT !.roots_before = l.roots_before, !.registers_before = l.registers_before]

\* The public values the prover gives an aggregation of segments.
SegmentAggValues(l, r, is_dummy) ==
    LET real == IF is_dummy THEN l ELSE r
    IN  [real EXCEPT !.roots_before = l.roots_before,
                     !.extra = [@ EXCEPT !.checkpoint = l.extra.checkpoint, !.txn_before = l.extra.txn_before, !.gas_before = l.extra.gas_before],
                     !.registers_before = l.registers_before,
                     !.mem_before = l.mem_before]

\* A proof of one segment, as it comes from the prover of segments.
prove_segment(s) ==
    /\ todo' = todo \ {s}
    /\ proofs' = proofs \cup {Proof("segment", s, <<s>>)}

prove_segment_aggregation(l, r) ==
    LET pv == SegmentAggValues(l.pv, r.pv, FALSE)
    IN  /\ create_segment_aggregation_circuit(pv, l.pv, r.pv, FALSE, l.kind = "segment_agg")
        /\ proofs' = (proofs \ {l, r}) \cup {Proof("segment_agg", pv, l.covers \o r.covers)}
        /\ UNCHANGED todo

\* A batch of one segment is aggregated with a dummy before it is used.
AggregateWithDummy(l) ==
    LET pv == SegmentAggValues(l.pv, l.pv, TRUE)
    IN  /\ create_segment_aggregation_circuit(pv, l.pv, l.pv, TRUE, FALSE)
        /\ proofs' = (proofs \ {l}) \cup {Proof("segment_agg", pv, l.covers)}
        /\ UNCHANGED todo

-----------------------------------------------------------------------------
(* Batches. *)

\* A whole run of the kernel: from main to halt with nothing on the stack.
connect_initial_final_segment(pv) ==
    LET b == pv.registers_before
        a == pv.registers_after
    IN  /\ b.stack_len = 0 /\ a.stack_len = 0
        /\ b.context = 0 /\ a.context = 0
        /\ b.gas_used = 0
        /\ b.is_kernel /\ a.is_kernel
        /\ a.pc = HaltLabel
        /\ b.pc = MainLabel

check_init_merkle_cap(pv) == pv.mem_before = InitCap

connect_extra_public_values(pv, l, r) ==
    /\ pv.checkpoint = r.checkpoint /\ pv.checkpoint = l.checkpoint
    /\ pv.txn_before = l.txn_before /\ pv.txn_after = r.txn_after /\ l.txn_after = r.txn_before
    /\ pv.gas_before = l.gas_before /\ pv.gas_after = r.gas_after /\ l.gas_after = r.gas_before

create_txn_aggregation_circuit(pv, l, r) ==
    /\ pv.hashes = r.hashes /\ pv.hashes = l.hashes
    /\ pv.metadata = r.metadata /\ pv.metadata = l.metadata
    /\ pv.roots_after = r.roots_after
    /\ l.roots_after = r.roots_before
    /\ pv.roots_before = l.roots_before
    /\ connect_extra_public_values(pv.extra, l.extra, r.extra)
    /\ pv.registers_after = r.registers_after
    /\ pv.registers_before = l.registers_before
    /\ connect_initial_final_segment(r) /\ connect_initial_final_segment(l)
    /\ check_init_merkle_cap(r) /\ check_init_merkle_cap(l)

\* Everything but the beginning is from the right.
TxnAggValues(l, r) ==
    [r EXCEPT !.roots_before = l.roots_before,
              !.extra = [@ EXCEPT !.txn_before = l.extra.txn_before, !.gas_before = l.extra.gas_before]]

prove_transaction_aggregation(l, r) ==
    LET pv == TxnAggValues(l.pv, r.pv)
    IN  /\ create_txn_aggregation_circuit(pv, l.pv, r.pv)
        /\ proofs' = (proofs \ {l, r}) \cup {Proof("txn_agg", pv, l.covers \o r.covers)}
        /\ UNCHANGED todo

-----------------------------------------------------------------------------
(* Blocks. *)

\* The hashes move up by one, and the parent's own becomes the last.
connect_block_hashes(parent, agg) ==
    /\ \A i \in 1 .. HashCount - 1 : parent.prev[i + 1] = agg.prev[i]
    /\ parent.cur = agg.prev[HashCount]

connect_checkpoint_block(agg) == agg.roots_before.state = agg.extra.checkpoint

connect_initial_values_block(agg) ==
    /\ agg.extra.txn_before = 0
    /\ agg.extra.gas_before = 0
    /\ agg.roots_before.transactions = EmptyRoot
    /\ agg.roots_before.receipts = EmptyRoot

connect_final_block_values_to_intermediary(agg) == agg.metadata.gas_used = agg.extra.gas_after

connect_block_proof(has_parent, parent, agg) ==
    /\ parent.roots_after.state = agg.roots_before.state
    /\ parent.extra.checkpoint = agg.extra.checkpoint
    /\ parent.metadata.number = agg.metadata.number - 1
    /\ connect_initial_values_block(agg)
    /\ connect_final_block_values_to_intermediary(agg)
    /\ ~has_parent => connect_checkpoint_block(agg)

create_block_circuit(pv, has_parent, parent, agg) ==
    /\ connect_block_hashes(parent.hashes, agg.hashes)
    /\ pv.roots_before = parent.roots_before
    /\ pv.roots_after = agg.roots_after
    /\ pv.metadata = agg.metadata
    /\ pv.hashes = agg.hashes
    /\ pv.extra = agg.extra
    /\ connect_block_proof(has_parent, parent, agg)

\* The public inputs of the proof that stands for the parent of a first block.
CheckpointValues(agg) ==
    [agg EXCEPT !.roots_after = [@ EXCEPT !.state = agg.roots_before.state],
                !.metadata = [@ EXCEPT !.number = @ - 1],
                !.hashes = [prev |-> [i \in 1 .. HashCount |-> IF i = 1 THEN EmptyRoot ELSE agg.hashes.prev[i - 1]],
                            cur |-> agg.hashes.prev[HashCount]]]

\* A first block: its state is that of the checkpoint, or the prover stops.
ProveFirstBlock(a) ==
    /\ a.pv.roots_before.state = a.pv.extra.checkpoint
    /\ create_block_circuit(a.pv, FALSE, CheckpointValues(a.pv), a.pv)
    /\ proofs' = (proofs \ {a}) \cup {Proof("block", a.pv, a.covers)}
    /\ UNCHANGED todo

\* A block after its parent: the roots before are those of the parent's proof.
prove_block(p, a) ==
    LET pv == [a.pv EXCEPT !.roots_before = p.pv.roots_before]
    IN  /\ create_block_circuit(pv, TRUE, p.pv, a.pv)
        /\ proofs' = (proofs \ {p, a}) \cup {Proof("block", pv, p.covers \o a.covers)}
        /\ UNCHANGED todo

-----------------------------------------------------------------------------
(* Blocks of several chains.  A hash is what it is the hash of. *)

\* What a child stands for: the values of a block, or the hash in its public inputs.
PvHash(p) == IF p.kind = "block" THEN [of |-> p.pv] ELSE p.pv

prove_two_to_one_block(l, r) ==
    /\ proofs' = (proofs \ {l, r}) \cup {Proof("agg_block", [mix |-> <<PvHash(l), PvHash(r)>>], l.covers \o r.covers)}
    /\ UNCHANGED todo

-----------------------------------------------------------------------------

Init == todo = Segments /\ proofs = {}

Next ==
    \/ \E s \in todo : prove_segment(s)
    \/ \E l, r \in Of({"segment", "segment_agg"}) : l # r /\ prove_segment_aggregation(l, r)
    \/ \E l \in Of({"segment"}) : AggregateWithDummy(l)
    \/ \E l, r \in Of({"segment_agg", "txn_agg"}) : l # r /\ prove_transaction_aggregation(l, r)
    \/ \E a \in Of({"txn_agg"}) : ProveFirstBlock(a)
    \/ \E a \in Of({"txn_agg"}), p \in Of({"block"}) : prove_block(p, a)
    \/ \E l, r \in Of({"block", "agg_block"}) : l # r /\ prove_two_to_one_block(l, r)

Spec == Init /\ [][Next]_vars

-----------------------------------------------------------------------------
(* Properties. *)

\* t goes on where s stopped, in the same batch.
NextSegment(s, t) ==
    /\ SameContext(s, t)
    /\ s.registers_after = t.registers_before
    /\ s.mem_after = t.mem_before

\* t is the start of the batch after the one s is the end of.
NextBatch(s, t) ==
    /\ s.metadata = t.metadata /\ s.hashes = t.hashes
    /\ s.roots_after = t.roots_before
    /\ s.extra.checkpoint = t.extra.checkpoint
    /\ s.extra.txn_after = t.extra.txn_before
    /\ s.extra.gas_after = t.extra.gas_before
    /\ s.registers_after.pc = HaltLabel /\ t.registers_before.pc = MainLabel
    /\ t.mem_before = InitCap

\* t is the start of the block after the one s is the end of.
NextBlock(s, t) ==
    /\ s.roots_after.state = t.roots_before.state
    /\ t.metadata.number = s.metadata.number + 1
    /\ s.extra.checkpoint = t.extra.checkpoint
    /\ t.extra.txn_before = 0 /\ t.extra.gas_before = 0
    /\ s.metadata.gas_used = s.extra.gas_after
    /\ t.hashes.prev[HashCount] = s.hashes.cur
    /\ s.registers_after.pc = HaltLabel /\ t.registers_before.pc = MainLabel
    /\ t.mem_before = InitCap

Linked(s, t) == NextSegment(s, t) \/ NextBatch(s, t) \/ NextBlock(s, t)

\* A proof of segments, batches or blocks attests one unbroken execution: every
\* segment it covers continues the one before, and its public values are those of
\* the first at the beginning and of the last at the end.
Attests ==
    \A p \in proofs : p.kind # "agg_block" =>
        /\ p.covers \in Seq(Segments) /\ Len(p.covers) > 0
        /\ \A i \in 1 .. Len(p.covers) - 1 : Linked(p.covers[i], p.covers[i + 1])
        /\ p.pv.roots_before = First(p.covers).roots_before
        /\ p.pv.roots_after = Final(p.covers).roots_after
        /\ p.pv.metadata = Final(p.covers).metadata
        /\ p.pv.hashes = Final(p.covers).hashes
        /\ p.pv.extra.checkpoint = First(p.covers).extra.checkpoint
        /\ p.pv.extra.gas_after = Final(p.covers).extra.gas_after

\* A proof of a block attests whole blocks from the checkpoint on: from its state,
\* with no transaction before, to the end of the block's last run.
FromCheckpoint ==
    \A p \in proofs : p.kind = "block" =>
        LET s == First(p.covers)
            e == Final(p.covers)
        IN  /\ s.roots_before.state = p.pv.extra.checkpoint
            /\ s.registers_before.pc = MainLabel /\ s.mem_before = InitCap
            /\ s.extra.txn_before = 0 /\ s.extra.gas_before = 0
            /\ e.registers_after.pc = HaltLabel
            /\ p.pv.metadata.gas_used = e.extra.gas_after

\* Both: a proof stands for an unbroken execution, and a block's for whole blocks.
ChainAttested == Attests /\ FromCheckpoint

\* RegistersState::new: the registers before the first instruction of a batch.
InitialRegisters ==
    [pc |-> MainLabel, is_kernel |-> TRUE, stack_len |-> 0, stack_top |-> 0, context |-> 0, gas_used |-> 0]

\* From the first instruction of the kernel to halt.
FullRun(c) ==
    /\ First(c).registers_before = InitialRegisters /\ First(c).mem_before = InitCap
    /\ LET a == Final(c).registers_after
       IN  a.pc = HaltLabel /\ a.is_kernel /\ a.stack_len = 0 /\ a.context = 0

\* The prover computes public values its circuits accept: two proofs that go on from
\* one another are combined, in whatever order the folds bring them together.
FoldsSucceed ==
    /\ \A l, r \in Of({"segment", "segment_agg"}) :
        NextSegment(Final(l.covers), First(r.covers)) =>
            create_segment_aggregation_circuit(SegmentAggValues(l.pv, r.pv, FALSE), l.pv, r.pv, FALSE, l.kind = "segment_agg")
    /\ \A l, r \in Of({"segment_agg", "txn_agg"}) :
        FullRun(l.covers) /\ FullRun(r.covers) /\ NextBatch(Final(l.covers), First(r.covers))
            => create_txn_aggregation_circuit(TxnAggValues(l.pv, r.pv), l.pv, r.pv)
=============================================================================
