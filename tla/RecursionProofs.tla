--------------------------- MODULE RecursionProofs ---------------------------
(***************************************************************************)
(* Proofs that a recursive proof attests one unbroken execution, and a     *)
(* block's proof whole blocks from the checkpoint on, whatever segments    *)
(* were proved, honest or not, and in whatever order they are combined;    *)
(* and that the segments an execution is cut into fit their tables, join   *)
(* up, and cover it.                                                       *)
(***************************************************************************)
EXTENDS Aggregation, Segments, SequenceTheorems, FiniteSetTheorems, WellFoundedInduction, TLAPS

-----------------------------------------------------------------------------
(* Chains of segments. *)

Chain(c) ==
    /\ c \in Seq(Segments) /\ Len(c) > 0
    /\ \A i \in 1 .. Len(c) - 1 : Linked(c[i], c[i + 1])

LEMMA ChainOfOne ==
    ASSUME NEW s \in Segments
    PROVE  Chain(<<s>>) /\ First(<<s>>) = s /\ Final(<<s>>) = s
BY DEF Chain, First, Final

LEMMA ChainEnds ==
    ASSUME NEW c, Chain(c)
    PROVE  First(c) \in Segments /\ Final(c) \in Segments
BY DEF Chain, First, Final

\* Two chains of which the second goes on from the first are one.
LEMMA ChainConcat ==
    ASSUME NEW c, NEW d, Chain(c), Chain(d), Linked(Final(c), First(d))
    PROVE  Chain(c \o d) /\ First(c \o d) = First(c) /\ Final(c \o d) = Final(d)
<1>1. /\ c \in Seq(Segments) /\ d \in Seq(Segments)
      /\ Len(c) \in Nat /\ Len(d) \in Nat /\ Len(c) > 0 /\ Len(d) > 0
  BY DEF Chain
<1>2. /\ c \o d \in Seq(Segments) /\ Len(c \o d) = Len(c) + Len(d)
      /\ \A i \in 1 .. Len(c) + Len(d) : (c \o d)[i] = IF i <= Len(c) THEN c[i] ELSE d[i - Len(c)]
  BY <1>1, ConcatProperties
<1>3. ASSUME NEW i \in 1 .. Len(c \o d) - 1 PROVE Linked((c \o d)[i], (c \o d)[i + 1])
  <2>1. CASE i < Len(c)
    <3>1. (c \o d)[i] = c[i] /\ (c \o d)[i + 1] = c[i + 1] /\ i \in 1 .. Len(c) - 1
      BY <1>1, <1>2, <1>3, <2>1
    <3> QED
      BY <3>1 DEF Chain
  <2>2. CASE i = Len(c)
    <3>1. (c \o d)[i] = c[Len(c)] /\ (c \o d)[i + 1] = d[1]
      BY <1>1, <1>2, <1>3, <2>2
    <3> QED
      BY <3>1 DEF First, Final
  <2>3. CASE i > Len(c)
    <3> DEFINE j == i - Len(c)
    <3>1. (c \o d)[i] = d[j] /\ (c \o d)[i + 1] = d[j + 1] /\ j \in 1 .. Len(d) - 1
      BY <1>1, <1>2, <1>3, <2>3
    <3> QED
      BY <3>1 DEF Chain
  <2> QED
    BY <1>1, <1>2, <1>3, <2>1, <2>2, <2>3
<1>4. First(c \o d) = First(c) /\ Final(c \o d) = Final(d)
  BY <1>1, <1>2 DEF First, Final
<1> QED
  BY <1>1, <1>2, <1>3, <1>4 DEF Chain

-----------------------------------------------------------------------------
(* What holds of every proof that was made. *)

\* The public values of a proof are those of the ends of what it covers.
Ends(p, s, e) ==
    /\ p.pv.roots_before = s.roots_before
    /\ p.pv.roots_after = e.roots_after
    /\ p.pv.metadata = e.metadata
    /\ p.pv.hashes = e.hashes
    /\ p.pv.extra.checkpoint = s.extra.checkpoint
    /\ p.pv.extra.checkpoint = e.extra.checkpoint
    /\ p.pv.extra.gas_after = e.extra.gas_after
    /\ p.pv.extra.txn_after = e.extra.txn_after
    /\ p.pv.registers_after = e.registers_after

\* Segments are of one batch, and their registers and memory are the ends'.
OneBatch(p, s, e) ==
    /\ SameContext(p.pv, s) /\ SameContext(p.pv, e)
    /\ p.pv.registers_before = s.registers_before
    /\ p.pv.mem_before = s.mem_before /\ p.pv.mem_after = e.mem_after

\* Batches are of one block, and whole.
OneBlock(p, s, e) ==
    /\ p.pv.metadata = s.metadata /\ p.pv.hashes = s.hashes
    /\ p.pv.extra.txn_before = s.extra.txn_before
    /\ p.pv.extra.gas_before = s.extra.gas_before
    /\ p.pv.registers_before = s.registers_before /\ p.pv.mem_before = s.mem_before
    /\ s.registers_before.pc = MainLabel /\ s.mem_before = InitCap
    /\ e.registers_after.pc = HaltLabel

\* Blocks are whole, and start at the checkpoint.
WholeBlocks(p, s, e) ==
    /\ s.roots_before.state = p.pv.extra.checkpoint
    /\ s.registers_before.pc = MainLabel /\ s.mem_before = InitCap
    /\ s.extra.txn_before = 0 /\ s.extra.gas_before = 0
    /\ e.registers_after.pc = HaltLabel
    /\ p.pv.metadata.gas_used = e.extra.gas_after

Kinds == {"segment", "segment_agg", "txn_agg", "block", "agg_block"}

Sound(p) ==
    /\ p.kind \in Kinds
    /\ p.kind # "agg_block" =>
        LET s == First(p.covers)
            e == Final(p.covers)
        IN  /\ IsValues(p.pv)
            /\ Chain(p.covers)
            /\ Ends(p, s, e)
            /\ p.kind \in {"segment", "segment_agg"} => OneBatch(p, s, e)
            /\ p.kind = "txn_agg" => OneBlock(p, s, e)
            /\ p.kind = "block" => WholeBlocks(p, s, e)

SoundInv == todo \subseteq Segments /\ \A p \in proofs : Sound(p)

LEMMA ProofFields ==
    ASSUME NEW kd, NEW pv, NEW c
    PROVE  Proof(kd, pv, c).kind = kd /\ Proof(kd, pv, c).pv = pv /\ Proof(kd, pv, c).covers = c
BY DEF Proof

-----------------------------------------------------------------------------
(* Each operation makes a sound proof of sound proofs. *)

\* prove_segment
LEMMA SegmentSound ==
    ASSUME NEW s \in Segments
    PROVE  Sound(Proof("segment", s, <<s>>))
BY SegmentsAssumption, ChainOfOne, ProofFields DEF Sound, Kinds, Ends, OneBatch, SameContext

\* The public values of two segments, when the right one is not a dummy.
Joined(l, r) ==
    [r EXCEPT !.roots_before = l.roots_before,
              !.extra = [@ EXCEPT !.checkpoint = l.extra.checkpoint, !.txn_before = l.extra.txn_before,
                                  !.gas_before = l.extra.gas_before],
              !.registers_before = l.registers_before,
              !.mem_before = l.mem_before]

LEMMA SegmentAggFields ==
    ASSUME NEW l, NEW r, IsValues(l), IsValues(r), NEW pv, pv = Joined(l, r)
    PROVE  /\ IsValues(pv)
           /\ pv.roots_after = r.roots_after /\ pv.metadata = r.metadata /\ pv.hashes = r.hashes
           /\ pv.registers_after = r.registers_after /\ pv.mem_after = r.mem_after
<1> DEFINE x == [r.extra EXCEPT !.checkpoint = l.extra.checkpoint, !.txn_before = l.extra.txn_before,
                                !.gas_before = l.extra.gas_before]
<1>1. x = [f \in ExtraFields |-> x[f]]
  BY DEF IsValues, ExtraFields
<1> HIDE DEF x
<1>2. pv = [r EXCEPT !.roots_before = l.roots_before, !.extra = x,
                     !.registers_before = l.registers_before, !.mem_before = l.mem_before]
  BY DEF Joined, x
<1>3. /\ pv = [f \in Fields |-> pv[f]] /\ pv.metadata = r.metadata /\ pv.extra = x
      /\ pv.roots_after = r.roots_after /\ pv.hashes = r.hashes
      /\ pv.registers_after = r.registers_after /\ pv.mem_after = r.mem_after
  BY <1>2 DEF IsValues, Fields
<1> QED
  BY <1>1, <1>3 DEF IsValues

LEMMA SegmentAggDummyFields ==
    ASSUME NEW l, IsValues(l)
    PROVE  SegmentAggValues(l, l, TRUE) = l
<1>1. [l.extra EXCEPT !.checkpoint = l.extra.checkpoint, !.txn_before = l.extra.txn_before,
                      !.gas_before = l.extra.gas_before] = l.extra
  BY DEF IsValues, ExtraFields
<1>2. [l EXCEPT !.roots_before = l.roots_before, !.extra = l.extra,
                !.registers_before = l.registers_before, !.mem_before = l.mem_before] = l
  BY DEF IsValues, Fields
<1> QED
  BY <1>1, <1>2 DEF SegmentAggValues

\* prove_segment_aggregation
LEMMA SegmentAggSound ==
    ASSUME NEW l, NEW r, Sound(l), Sound(r),
           l.kind \in {"segment", "segment_agg"}, r.kind \in {"segment", "segment_agg"},
           create_segment_aggregation_circuit(SegmentAggValues(l.pv, r.pv, FALSE), l.pv, r.pv, FALSE, l.kind = "segment_agg")
    PROVE  Sound(Proof("segment_agg", SegmentAggValues(l.pv, r.pv, FALSE), l.covers \o r.covers))
<1> DEFINE pv == SegmentAggValues(l.pv, r.pv, FALSE)
           q == Proof("segment_agg", pv, l.covers \o r.covers)
           s == First(l.covers)
           m == Final(l.covers)
           n == First(r.covers)
           e == Final(r.covers)
<1>1. /\ IsValues(l.pv) /\ Chain(l.covers) /\ Ends(l, s, m) /\ OneBatch(l, s, m)
      /\ IsValues(r.pv) /\ Chain(r.covers) /\ Ends(r, n, e) /\ OneBatch(r, n, e)
  BY DEF Sound
<1>a. pv = SegmentAggValues(l.pv, r.pv, FALSE)
  OBVIOUS
<1>c. pv = Joined(l.pv, r.pv)
  BY DEF SegmentAggValues, Joined
<1>b. IsValues(l.pv) /\ IsValues(r.pv)
  BY <1>1
<1> HIDE DEF pv
<1>2. /\ IsValues(pv)
      /\ pv.roots_after = r.pv.roots_after /\ pv.metadata = r.pv.metadata /\ pv.hashes = r.pv.hashes
      /\ pv.registers_after = r.pv.registers_after /\ pv.mem_after = r.pv.mem_after
  BY <1>b, <1>c, SegmentAggFields
<1>3. /\ SameContext(pv, l.pv) /\ SameContextIf(pv, r.pv)
      /\ pv.registers_before = l.pv.registers_before /\ pv.mem_before = l.pv.mem_before
      /\ l.pv.registers_after = r.pv.registers_before
      /\ l.pv.mem_after = r.pv.mem_before
  BY <1>a DEF create_segment_aggregation_circuit
<1>4. pv.roots_before = r.pv.roots_before /\ pv.extra = r.pv.extra
  BY <1>1, <1>2, <1>3 DEF SameContextIf, SameContext, IsValues, Fields
<1>5. SameContext(l.pv, r.pv) /\ SameContext(pv, r.pv)
  BY <1>2, <1>3, <1>4 DEF SameContext
<1>6. NextSegment(m, n)
  BY <1>1, <1>3, <1>5 DEF NextSegment, SameContext, Ends, OneBatch
<1>7. Chain(l.covers \o r.covers) /\ First(l.covers \o r.covers) = s /\ Final(l.covers \o r.covers) = e
  BY <1>1, <1>6, ChainConcat DEF Linked
<1>8. q.kind = "segment_agg" /\ q.pv = pv /\ q.covers = l.covers \o r.covers
  BY DEF Proof
<1> HIDE DEF q, s, m, n, e
<1>9. Ends(q, s, e) /\ OneBatch(q, s, e)
  BY <1>1, <1>2, <1>3, <1>5, <1>8 DEF Ends, OneBatch, SameContext
<1> QED
  BY <1>2, <1>7, <1>8, <1>9 DEF Sound, Kinds, q, pv

\* A batch of one segment with a dummy.
LEMMA DummySound ==
    ASSUME NEW l, Sound(l), l.kind = "segment"
    PROVE  Sound(Proof("segment_agg", SegmentAggValues(l.pv, l.pv, TRUE), l.covers))
<1>1. IsValues(l.pv)
  BY DEF Sound
<1>2. SegmentAggValues(l.pv, l.pv, TRUE) = l.pv
  BY <1>1, SegmentAggDummyFields
<1> QED
  BY <1>2 DEF Proof, Sound, Kinds, Ends, OneBatch

LEMMA TxnAggFields ==
    ASSUME NEW l, NEW r, IsValues(l), IsValues(r), NEW pv, pv = TxnAggValues(l, r)
    PROVE  /\ IsValues(pv)
           /\ pv.roots_before = l.roots_before /\ pv.roots_after = r.roots_after
           /\ pv.metadata = r.metadata /\ pv.hashes = r.hashes
           /\ pv.extra.checkpoint = r.extra.checkpoint
           /\ pv.extra.txn_before = l.extra.txn_before /\ pv.extra.txn_after = r.extra.txn_after
           /\ pv.extra.gas_before = l.extra.gas_before /\ pv.extra.gas_after = r.extra.gas_after
           /\ pv.registers_before = r.registers_before /\ pv.registers_after = r.registers_after
           /\ pv.mem_before = r.mem_before
<1> DEFINE x == [r.extra EXCEPT !.txn_before = l.extra.txn_before, !.gas_before = l.extra.gas_before]
<1>1. /\ x = [f \in ExtraFields |-> x[f]]
      /\ x.checkpoint = r.extra.checkpoint
      /\ x.txn_before = l.extra.txn_before /\ x.txn_after = r.extra.txn_after
      /\ x.gas_before = l.extra.gas_before /\ x.gas_after = r.extra.gas_after
  BY DEF IsValues, ExtraFields
<1> HIDE DEF x
<1>2. pv = [r EXCEPT !.roots_before = l.roots_before, !.extra = x]
  BY DEF TxnAggValues, x
<1>3. /\ pv = [f \in Fields |-> pv[f]] /\ pv.metadata = r.metadata /\ pv.extra = x
      /\ pv.roots_before = l.roots_before /\ pv.roots_after = r.roots_after
      /\ pv.hashes = r.hashes
      /\ pv.registers_before = r.registers_before /\ pv.registers_after = r.registers_after
      /\ pv.mem_before = r.mem_before
  BY <1>2 DEF IsValues, Fields
<1> QED
  BY <1>1, <1>3 DEF IsValues

\* prove_transaction_aggregation
LEMMA TxnAggSound ==
    ASSUME NEW l, NEW r, Sound(l), Sound(r),
           l.kind \in {"segment_agg", "txn_agg"}, r.kind \in {"segment_agg", "txn_agg"},
           create_txn_aggregation_circuit(TxnAggValues(l.pv, r.pv), l.pv, r.pv)
    PROVE  Sound(Proof("txn_agg", TxnAggValues(l.pv, r.pv), l.covers \o r.covers))
<1> DEFINE pv == TxnAggValues(l.pv, r.pv)
           q == Proof("txn_agg", pv, l.covers \o r.covers)
           s == First(l.covers)
           m == Final(l.covers)
           n == First(r.covers)
           e == Final(r.covers)
<1>1. /\ IsValues(l.pv) /\ Chain(l.covers) /\ Ends(l, s, m)
      /\ l.kind = "segment_agg" => OneBatch(l, s, m)
      /\ l.kind = "txn_agg" => OneBlock(l, s, m)
      /\ IsValues(r.pv) /\ Chain(r.covers) /\ Ends(r, n, e)
      /\ r.kind = "segment_agg" => OneBatch(r, n, e)
      /\ r.kind = "txn_agg" => OneBlock(r, n, e)
  BY DEF Sound
<1>2. /\ IsValues(pv) /\ pv.registers_after = r.pv.registers_after
      /\ pv.mem_before = r.pv.mem_before
  BY <1>1, TxnAggFields
<1> HIDE DEF pv
<1>3. /\ pv.hashes = r.pv.hashes /\ pv.hashes = l.pv.hashes
      /\ pv.metadata = r.pv.metadata /\ pv.metadata = l.pv.metadata
      /\ pv.roots_after = r.pv.roots_after /\ l.pv.roots_after = r.pv.roots_before
      /\ pv.roots_before = l.pv.roots_before
      /\ connect_extra_public_values(pv.extra, l.pv.extra, r.pv.extra)
      /\ l.pv.registers_before.pc = MainLabel /\ l.pv.registers_after.pc = HaltLabel
      /\ r.pv.registers_before.pc = MainLabel /\ r.pv.registers_after.pc = HaltLabel
      /\ l.pv.mem_before = InitCap /\ r.pv.mem_before = InitCap
      /\ pv.registers_before = l.pv.registers_before
  BY DEF create_txn_aggregation_circuit, connect_initial_final_segment, check_init_merkle_cap, pv
<1>4. OneBlock(l, s, m)
  <2>1. CASE l.kind = "segment_agg"
    BY <1>1, <1>3, <2>1 DEF OneBatch, OneBlock, SameContext, Ends
  <2> QED
    BY <1>1, <2>1
<1>5. OneBlock(r, n, e)
  <2>1. CASE r.kind = "segment_agg"
    BY <1>1, <1>3, <2>1 DEF OneBatch, OneBlock, SameContext, Ends
  <2> QED
    BY <1>1, <2>1
<1> HIDE DEF q, s, m, n, e
<1>6. NextBatch(m, n)
  <2>1. m.metadata = n.metadata /\ m.hashes = n.hashes
    BY <1>1, <1>3, <1>5 DEF Ends, OneBlock
  <2>2. m.roots_after = n.roots_before
    BY <1>1, <1>3 DEF Ends
  <2>3. /\ m.extra.checkpoint = n.extra.checkpoint
        /\ m.extra.txn_after = n.extra.txn_before
        /\ m.extra.gas_after = n.extra.gas_before
    BY <1>1, <1>3, <1>5 DEF Ends, OneBlock, connect_extra_public_values
  <2> QED
    BY <2>1, <2>2, <2>3, <1>4, <1>5 DEF NextBatch, OneBlock
<1>7. Chain(l.covers \o r.covers) /\ First(l.covers \o r.covers) = s /\ Final(l.covers \o r.covers) = e
  BY <1>1, <1>6, ChainConcat DEF Linked, m, n, s, e
<1>8. q.kind = "txn_agg" /\ q.pv = pv /\ q.covers = l.covers \o r.covers
  BY DEF q, Proof
<1>9. Ends(q, s, e) /\ OneBlock(q, s, e)
  BY <1>1, <1>2, <1>3, <1>4, <1>5, <1>8 DEF Ends, OneBlock, connect_extra_public_values
<1> QED
  BY <1>2, <1>7, <1>8, <1>9 DEF Sound, Kinds, q, pv

\* A first block.
LEMMA FirstBlockSound ==
    ASSUME NEW a, Sound(a), a.kind = "txn_agg",
           a.pv.roots_before.state = a.pv.extra.checkpoint,
           create_block_circuit(a.pv, FALSE, CheckpointValues(a.pv), a.pv)
    PROVE  Sound(Proof("block", a.pv, a.covers))
<1> DEFINE q == Proof("block", a.pv, a.covers)
           s == First(a.covers)
           e == Final(a.covers)
<1>1. IsValues(a.pv) /\ Chain(a.covers) /\ Ends(a, s, e) /\ OneBlock(a, s, e)
  BY DEF Sound
<1>2. /\ a.pv.extra.txn_before = 0 /\ a.pv.extra.gas_before = 0
      /\ a.pv.metadata.gas_used = a.pv.extra.gas_after
  BY DEF create_block_circuit, connect_block_proof, connect_initial_values_block,
         connect_final_block_values_to_intermediary
<1>3. q.kind = "block" /\ q.pv = a.pv /\ q.covers = a.covers
  BY ProofFields
<1> HIDE DEF q
<1>4. Ends(q, s, e) /\ WholeBlocks(q, s, e)
  BY <1>1, <1>2, <1>3 DEF Ends, OneBlock, WholeBlocks
<1> QED
  BY <1>1, <1>3, <1>4 DEF Sound, Kinds, q

\* prove_block: a block after its parent.
LEMMA BlockSound ==
    ASSUME NEW p, NEW a, Sound(p), Sound(a), p.kind = "block", a.kind = "txn_agg",
           create_block_circuit([a.pv EXCEPT !.roots_before = p.pv.roots_before], TRUE, p.pv, a.pv)
    PROVE  Sound(Proof("block", [a.pv EXCEPT !.roots_before = p.pv.roots_before], p.covers \o a.covers))
<1> DEFINE pv == [a.pv EXCEPT !.roots_before = p.pv.roots_before]
           q == Proof("block", pv, p.covers \o a.covers)
           s == First(p.covers)
           m == Final(p.covers)
           n == First(a.covers)
           e == Final(a.covers)
<1>1. /\ IsValues(p.pv) /\ Chain(p.covers) /\ Ends(p, s, m) /\ WholeBlocks(p, s, m)
      /\ IsValues(a.pv) /\ Chain(a.covers) /\ Ends(a, n, e) /\ OneBlock(a, n, e)
  BY DEF Sound
<1>2. /\ IsValues(pv) /\ pv.roots_before = p.pv.roots_before
      /\ pv.roots_after = a.pv.roots_after /\ pv.metadata = a.pv.metadata /\ pv.hashes = a.pv.hashes
      /\ pv.extra = a.pv.extra /\ pv.registers_after = a.pv.registers_after
  BY <1>1 DEF IsValues, Fields
<1>3. /\ p.pv.hashes.cur = a.pv.hashes.prev[HashCount]
      /\ p.pv.roots_after.state = a.pv.roots_before.state
      /\ p.pv.extra.checkpoint = a.pv.extra.checkpoint
      /\ p.pv.metadata.number = a.pv.metadata.number - 1
      /\ a.pv.extra.txn_before = 0 /\ a.pv.extra.gas_before = 0
      /\ a.pv.metadata.gas_used = a.pv.extra.gas_after
  BY DEF create_block_circuit, connect_block_hashes, connect_block_proof, connect_initial_values_block,
         connect_final_block_values_to_intermediary
<1> HIDE DEF pv, q, s, m, n, e
<1>4. NextBlock(m, n)
  <2>1. m.roots_after.state = n.roots_before.state
    BY <1>1, <1>3 DEF Ends
  <2>2. n.metadata.number = m.metadata.number + 1
    <3>1. p.pv.metadata.number \in Int /\ a.pv.metadata.number \in Int
      BY <1>1 DEF IsValues
    <3>2. m.metadata.number = p.pv.metadata.number /\ n.metadata.number = a.pv.metadata.number
      BY <1>1 DEF Ends, OneBlock
    <3> QED
      BY <1>3, <3>1, <3>2
  <2>3. /\ m.extra.checkpoint = n.extra.checkpoint
        /\ n.extra.txn_before = 0 /\ n.extra.gas_before = 0
        /\ n.hashes.prev[HashCount] = m.hashes.cur
    BY <1>1, <1>3 DEF Ends, OneBlock
  <2>4. m.metadata.gas_used = m.extra.gas_after
    BY <1>1 DEF Ends, WholeBlocks
  <2> QED
    BY <1>1, <2>1, <2>2, <2>3, <2>4 DEF NextBlock, OneBlock, WholeBlocks
<1>5. Chain(p.covers \o a.covers) /\ First(p.covers \o a.covers) = s /\ Final(p.covers \o a.covers) = e
  BY <1>1, <1>4, ChainConcat DEF Linked, m, n, s, e
<1>6. q.kind = "block" /\ q.pv = pv /\ q.covers = p.covers \o a.covers
  BY DEF q, Proof
<1>7. Ends(q, s, e) /\ WholeBlocks(q, s, e)
  BY <1>1, <1>2, <1>3, <1>6 DEF Ends, OneBlock, WholeBlocks
<1> QED
  BY <1>2, <1>5, <1>6, <1>7 DEF Sound, Kinds, q, pv

\* prove_two_to_one_block
LEMMA TwoToOneSound ==
    ASSUME NEW pv, NEW c
    PROVE  Sound(Proof("agg_block", pv, c))
BY ProofFields DEF Sound, Kinds

-----------------------------------------------------------------------------
(* The invariant. *)

LEMMA AddsSound ==
    ASSUME NEW ps, NEW old, NEW q, \A p \in ps : Sound(p), Sound(q)
    PROVE  \A p \in (ps \ old) \cup {q} : Sound(p)
OBVIOUS

LEMMA NextKeeps == SoundInv /\ [Next]_vars => SoundInv'
<1> SUFFICES ASSUME SoundInv, [Next]_vars PROVE SoundInv'
  OBVIOUS
<1>1. CASE \E s \in todo : prove_segment(s)
  <2>1. PICK s \in todo : prove_segment(s)
    BY <1>1
  <2>2. s \in Segments /\ Sound(Proof("segment", s, <<s>>))
    BY SegmentSound DEF SoundInv
  <2> QED
    BY <2>1, <2>2 DEF prove_segment, SoundInv
<1>2. CASE \E l, r \in Of({"segment", "segment_agg"}) : l # r /\ prove_segment_aggregation(l, r)
  <2>1. PICK l \in Of({"segment", "segment_agg"}), r \in Of({"segment", "segment_agg"}) :
            prove_segment_aggregation(l, r)
    BY <1>2
  <2>2. /\ Sound(l) /\ Sound(r)
        /\ l.kind \in {"segment", "segment_agg"} /\ r.kind \in {"segment", "segment_agg"}
    BY DEF Of, SoundInv
  <2>3. Sound(Proof("segment_agg", SegmentAggValues(l.pv, r.pv, FALSE), l.covers \o r.covers))
    BY <2>1, <2>2, SegmentAggSound DEF prove_segment_aggregation
  <2> QED
    BY <2>1, <2>3, AddsSound DEF prove_segment_aggregation, SoundInv
<1>3. CASE \E l \in Of({"segment"}) : AggregateWithDummy(l)
  <2>1. PICK l \in Of({"segment"}) : AggregateWithDummy(l)
    BY <1>3
  <2>2. Sound(Proof("segment_agg", SegmentAggValues(l.pv, l.pv, TRUE), l.covers))
    BY DummySound DEF Of, SoundInv
  <2> QED
    BY <2>1, <2>2, AddsSound DEF AggregateWithDummy, SoundInv
<1>4. CASE \E l, r \in Of({"segment_agg", "txn_agg"}) : l # r /\ prove_transaction_aggregation(l, r)
  <2>1. PICK l \in Of({"segment_agg", "txn_agg"}), r \in Of({"segment_agg", "txn_agg"}) :
            prove_transaction_aggregation(l, r)
    BY <1>4
  <2>2. /\ Sound(l) /\ Sound(r)
        /\ l.kind \in {"segment_agg", "txn_agg"} /\ r.kind \in {"segment_agg", "txn_agg"}
    BY DEF Of, SoundInv
  <2>3. Sound(Proof("txn_agg", TxnAggValues(l.pv, r.pv), l.covers \o r.covers))
    BY <2>1, <2>2, TxnAggSound DEF prove_transaction_aggregation
  <2> QED
    BY <2>1, <2>3, AddsSound DEF prove_transaction_aggregation, SoundInv
<1>5. CASE \E a \in Of({"txn_agg"}) : ProveFirstBlock(a)
  <2>1. PICK a \in Of({"txn_agg"}) : ProveFirstBlock(a)
    BY <1>5
  <2>2. Sound(a) /\ a.kind = "txn_agg"
    BY DEF Of, SoundInv
  <2>3. Sound(Proof("block", a.pv, a.covers))
    BY <2>1, <2>2, FirstBlockSound DEF ProveFirstBlock
  <2> QED
    BY <2>1, <2>3, AddsSound DEF ProveFirstBlock, SoundInv
<1>6. CASE \E a \in Of({"txn_agg"}), p \in Of({"block"}) : prove_block(p, a)
  <2>1. PICK a \in Of({"txn_agg"}), p \in Of({"block"}) : prove_block(p, a)
    BY <1>6
  <2>2. Sound(a) /\ a.kind = "txn_agg" /\ Sound(p) /\ p.kind = "block"
    BY DEF Of, SoundInv
  <2>3. Sound(Proof("block", [a.pv EXCEPT !.roots_before = p.pv.roots_before], p.covers \o a.covers))
    BY <2>1, <2>2, BlockSound DEF prove_block
  <2> QED
    BY <2>1, <2>3, AddsSound DEF prove_block, SoundInv
<1>7. CASE \E l, r \in Of({"block", "agg_block"}) : l # r /\ prove_two_to_one_block(l, r)
  <2>1. PICK l \in Of({"block", "agg_block"}), r \in Of({"block", "agg_block"}) :
            prove_two_to_one_block(l, r)
    BY <1>7
  <2>2. Sound(Proof("agg_block", [mix |-> <<PvHash(l), PvHash(r)>>], l.covers \o r.covers))
    BY TwoToOneSound
  <2> QED
    BY <2>1, <2>2, AddsSound DEF prove_two_to_one_block, SoundInv
<1>8. CASE UNCHANGED vars
  BY <1>8 DEF vars, SoundInv
<1> QED
  BY <1>1, <1>2, <1>3, <1>4, <1>5, <1>6, <1>7, <1>8 DEF Next

LEMMA AlwaysSound == Spec => []SoundInv
<1>1. Init => SoundInv
  BY DEF Init, SoundInv
<1> QED
  BY <1>1, NextKeeps, PTL DEF Spec

\* For every set of segments, and every order of the folds: a recursive proof of
\* segments, batches or blocks covers segments each of which continues the one
\* before, and its public values are those of their ends.
THEOREM ProofsAttest == Spec => []Attests
<1>1. SoundInv => Attests
  BY DEF SoundInv, Sound, Chain, Ends, Attests
<1> QED
  BY <1>1, AlwaysSound, PTL

\* For every set of segments: a proof of a block covers whole blocks, from the
\* state of the checkpoint with nothing executed to the end of the last run.
THEOREM BlocksStartAtCheckpoint == Spec => []FromCheckpoint
<1>1. SoundInv => FromCheckpoint
  BY DEF SoundInv, Sound, WholeBlocks, FromCheckpoint
<1> QED
  BY <1>1, AlwaysSound, PTL

\* The two together, which the runs check as one invariant.
THEOREM ChainIsAttested == Spec => []ChainAttested
BY ProofsAttest, BlocksStartAtCheckpoint, PTL DEF ChainAttested

-----------------------------------------------------------------------------
(* Folds succeed. *)

\* Two segments of one batch that go on from one another.
LEMMA SegmentFoldSucceeds ==
    ASSUME NEW l, NEW r, Sound(l), Sound(r),
           l.kind \in {"segment", "segment_agg"}, r.kind \in {"segment", "segment_agg"},
           NextSegment(Final(l.covers), First(r.covers)), NEW l_is_agg
    PROVE  create_segment_aggregation_circuit(SegmentAggValues(l.pv, r.pv, FALSE), l.pv, r.pv, FALSE, l_is_agg)
<1> DEFINE pv == SegmentAggValues(l.pv, r.pv, FALSE)
           s == First(l.covers)
           m == Final(l.covers)
           n == First(r.covers)
           e == Final(r.covers)
<1>1. /\ IsValues(l.pv) /\ Ends(l, s, m) /\ OneBatch(l, s, m)
      /\ IsValues(r.pv) /\ Ends(r, n, e) /\ OneBatch(r, n, e)
  BY DEF Sound
<1>2. NextSegment(m, n)
  OBVIOUS
<1>3. pv = Joined(l.pv, r.pv)
  BY DEF SegmentAggValues, Joined
<1> HIDE DEF pv, s, m, n, e
<1>4. SameContext(l.pv, r.pv)
  BY <1>1, <1>2 DEF NextSegment, OneBatch, SameContext
<1>5. l.pv.registers_after = r.pv.registers_before /\ l.pv.mem_after = r.pv.mem_before
  BY <1>1, <1>2 DEF NextSegment, OneBatch, Ends
<1>6. [r.pv.extra EXCEPT !.checkpoint = l.pv.extra.checkpoint,
                         !.txn_before = l.pv.extra.txn_before,
                         !.gas_before = l.pv.extra.gas_before] = r.pv.extra
  BY <1>1, <1>4 DEF SameContext, IsValues, ExtraFields
<1>7. pv = [r.pv EXCEPT !.roots_before = l.pv.roots_before, !.extra = r.pv.extra,
                        !.registers_before = l.pv.registers_before, !.mem_before = l.pv.mem_before]
  BY <1>3, <1>6 DEF Joined
<1>8. /\ IsValues(pv) /\ SameContext(pv, r.pv)
      /\ pv.registers_before = l.pv.registers_before /\ pv.mem_before = l.pv.mem_before
      /\ pv.registers_after = r.pv.registers_after /\ pv.mem_after = r.pv.mem_after
  BY <1>1, <1>4, <1>7 DEF IsValues, Fields, SameContext
<1>9. SameContext(pv, l.pv)
  BY <1>4, <1>8 DEF SameContext
<1>10. SameContextIf(pv, r.pv)
  <2>1. [pv.metadata EXCEPT !.blob = r.pv.metadata.blob] = pv.metadata
    BY <1>8 DEF SameContext, IsValues, MetadataFields
  <2>2. [pv EXCEPT !.metadata = pv.metadata] = pv
    BY <1>8 DEF IsValues, Fields
  <2> QED
    BY <1>8, <2>1, <2>2 DEF SameContextIf
<1> QED
  BY <1>5, <1>8, <1>9, <1>10 DEF create_segment_aggregation_circuit, pv

\* The ends of a full run satisfy what the circuit of batches asks of them.
LEMMA FullRunConnects ==
    ASSUME NEW p, Sound(p), p.kind \in {"segment_agg", "txn_agg"}, FullRun(p.covers)
    PROVE  /\ connect_initial_final_segment(p.pv) /\ check_init_merkle_cap(p.pv)
           /\ p.pv.registers_before = InitialRegisters
           /\ Ends(p, First(p.covers), Final(p.covers))
           /\ p.pv.metadata = First(p.covers).metadata /\ p.pv.hashes = First(p.covers).hashes
           /\ p.pv.extra.txn_before = First(p.covers).extra.txn_before
           /\ p.pv.extra.gas_before = First(p.covers).extra.gas_before
           /\ IsValues(p.pv)
<1> DEFINE s == First(p.covers)
           e == Final(p.covers)
<1>1. /\ IsValues(p.pv) /\ Ends(p, s, e)
      /\ p.kind = "segment_agg" => OneBatch(p, s, e)
      /\ p.kind = "txn_agg" => OneBlock(p, s, e)
  BY DEF Sound
<1>2. /\ s.registers_before = InitialRegisters /\ s.mem_before = InitCap
      /\ e.registers_after.pc = HaltLabel /\ e.registers_after.is_kernel
      /\ e.registers_after.stack_len = 0 /\ e.registers_after.context = 0
  BY DEF FullRun
<1> HIDE DEF s, e
<1>3. /\ p.pv.metadata = s.metadata /\ p.pv.hashes = s.hashes
      /\ p.pv.extra.txn_before = s.extra.txn_before
      /\ p.pv.extra.gas_before = s.extra.gas_before
      /\ p.pv.registers_before = s.registers_before /\ p.pv.mem_before = s.mem_before
  BY <1>1 DEF OneBatch, OneBlock, SameContext
<1>4. p.pv.registers_after = e.registers_after
  BY <1>1 DEF Ends
<1>5. connect_initial_final_segment(p.pv) /\ check_init_merkle_cap(p.pv)
  BY <1>2, <1>3, <1>4 DEF connect_initial_final_segment, check_init_merkle_cap, InitialRegisters
<1> QED
  BY <1>1, <1>2, <1>3, <1>5 DEF s, e

\* Two full runs of which the second is the next batch of the first's block.
LEMMA BatchFoldSucceeds ==
    ASSUME NEW l, NEW r, Sound(l), Sound(r),
           l.kind \in {"segment_agg", "txn_agg"}, r.kind \in {"segment_agg", "txn_agg"},
           FullRun(l.covers), FullRun(r.covers), NextBatch(Final(l.covers), First(r.covers))
    PROVE  create_txn_aggregation_circuit(TxnAggValues(l.pv, r.pv), l.pv, r.pv)
<1> DEFINE pv == TxnAggValues(l.pv, r.pv)
           s == First(l.covers)
           m == Final(l.covers)
           n == First(r.covers)
           e == Final(r.covers)
<1>1. /\ connect_initial_final_segment(l.pv) /\ check_init_merkle_cap(l.pv) /\ Ends(l, s, m)
      /\ l.pv.registers_before = InitialRegisters /\ IsValues(l.pv)
  BY FullRunConnects
<1>2. /\ connect_initial_final_segment(r.pv) /\ check_init_merkle_cap(r.pv) /\ Ends(r, n, e)
      /\ r.pv.registers_before = InitialRegisters /\ IsValues(r.pv)
      /\ r.pv.metadata = n.metadata /\ r.pv.hashes = n.hashes
      /\ r.pv.extra.txn_before = n.extra.txn_before
      /\ r.pv.extra.gas_before = n.extra.gas_before
  BY FullRunConnects
<1>3. NextBatch(m, n)
  OBVIOUS
<1>4. /\ pv.roots_before = l.pv.roots_before /\ pv.roots_after = r.pv.roots_after
      /\ pv.metadata = r.pv.metadata /\ pv.hashes = r.pv.hashes
      /\ pv.extra.checkpoint = r.pv.extra.checkpoint
      /\ pv.extra.txn_before = l.pv.extra.txn_before /\ pv.extra.txn_after = r.pv.extra.txn_after
      /\ pv.extra.gas_before = l.pv.extra.gas_before /\ pv.extra.gas_after = r.pv.extra.gas_after
      /\ pv.registers_before = r.pv.registers_before /\ pv.registers_after = r.pv.registers_after
  BY <1>1, <1>2, TxnAggFields
<1> HIDE DEF pv, s, m, n, e
<1>5. /\ l.pv.hashes = r.pv.hashes /\ l.pv.metadata = r.pv.metadata
      /\ l.pv.roots_after = r.pv.roots_before
  BY <1>1, <1>2, <1>3 DEF NextBatch, Ends
<1>6. /\ l.pv.extra.checkpoint = r.pv.extra.checkpoint
      /\ l.pv.extra.txn_after = r.pv.extra.txn_before
      /\ l.pv.extra.gas_after = r.pv.extra.gas_before
  BY <1>1, <1>2, <1>3 DEF NextBatch, Ends
<1>7. connect_extra_public_values(pv.extra, l.pv.extra, r.pv.extra)
  BY <1>4, <1>6 DEF connect_extra_public_values
<1> QED
  BY <1>1, <1>2, <1>4, <1>5, <1>7 DEF create_txn_aggregation_circuit, pv

\* For every set of segments, and every order of the folds: the public values the prover
\* computes for two proofs that go on from one another satisfy the circuit that combines
\* them, so that no order of the folds leaves a batch or a block without its proof.
THEOREM FoldsAlwaysSucceed == Spec => []FoldsSucceed
<1>1. ASSUME SoundInv PROVE FoldsSucceed
  <2>1. ASSUME NEW l \in Of({"segment", "segment_agg"}), NEW r \in Of({"segment", "segment_agg"}),
               NextSegment(Final(l.covers), First(r.covers))
        PROVE  create_segment_aggregation_circuit(SegmentAggValues(l.pv, r.pv, FALSE), l.pv, r.pv, FALSE, l.kind = "segment_agg")
    <3>1. /\ Sound(l) /\ Sound(r)
          /\ l.kind \in {"segment", "segment_agg"} /\ r.kind \in {"segment", "segment_agg"}
      BY <1>1 DEF Of, SoundInv
    <3> QED
      BY <2>1, <3>1, SegmentFoldSucceeds
  <2>2. ASSUME NEW l \in Of({"segment_agg", "txn_agg"}), NEW r \in Of({"segment_agg", "txn_agg"}),
               FullRun(l.covers), FullRun(r.covers), NextBatch(Final(l.covers), First(r.covers))
        PROVE  create_txn_aggregation_circuit(TxnAggValues(l.pv, r.pv), l.pv, r.pv)
    <3>1. /\ Sound(l) /\ Sound(r)
          /\ l.kind \in {"segment_agg", "txn_agg"} /\ r.kind \in {"segment_agg", "txn_agg"}
      BY <1>1 DEF Of, SoundInv
    <3> QED
      BY <2>2, <3>1, BatchFoldSucceeds
  <2> QED
    BY <2>1, <2>2 DEF FoldsSucceed
<1> QED
  BY <1>1, AlwaysSound, PTL

-----------------------------------------------------------------------------
(* Segments: what a run does at a point of the program. *)

Extras == [inputs : Nat, table : Int, txn : Nat]
Runs == [who : {"interpreter", "prover"}, clock : Nat, running : BOOLEAN, at : Nat, final : Nat,
         exit : Nat, memory : SUBSET Nat, stale : SUBSET Nat, extra : Extras,
         phase : {"init", "program", "exit"}]
Datas == [index : Nat, before : Nat, after : Nat, memory : SUBSET Nat, extra : Extras]
Proved == [index : Nat, before : Nat, after : Nat, rows : {Padded(n) : n \in Nat},
           memBefore : SUBSET Nat, memAfter : SUBSET Nat, extra : Extras]

\* The operands of the instructions op from s up to p, p excluded.
Args(prog, op, s, p) == {prog[q].arg : q \in {r \in s .. p - 1 : prog[r].op = op}}
Writes(prog, s, p) == Args(prog, "write", s, p)
Prunes(prog, s, p) == Args(prog, "prune", s, p)
InputsFrom(prog, p) == {q \in p .. Len(prog) : prog[q].op = "input"}
NoFail(prog, s, p) == \A q \in s .. p - 1 : prog[q].op # "fail"

\* The table of jump destinations, and all that is carried, after point p.
TableAfter(i, t) ==
    IF i.op = "analyse" THEN (IF t = NoTable THEN i.arg ELSE t)
    ELSE IF i.op = "jump" /\ t # NoTable THEN t - 1 ELSE t
ExtraAfter(i, e) ==
    [inputs |-> IF i.op = "input" THEN e.inputs - 1 ELSE e.inputs,
     table |-> TableAfter(i, e.table),
     txn |-> IF i.op = "txn" THEN e.txn + 1 ELSE e.txn]
FailsWith(i, e) == i.op = "fail" \/ (i.op = "input" /\ e.inputs = 0)

\* h is what is carried at each point from s, with e, up to f.
Path(prog, h, s, e, f) ==
    /\ h \in [s .. f -> Extras] /\ h[s] = e
    /\ \A q \in s .. f - 1 : ~FailsWith(prog[q], h[q]) /\ h[q + 1] = ExtraAfter(prog[q], h[q])

\* A segment that starts at s ends at the first such point.
EndsAt(prog, l, s, p) ==
    \/ prog[p].kernel /\ prog[p].pc = HaltPc
    \/ l # 0 /\ NUM_EXTRA_CYCLES_BEFORE + (p - s) = cycle_limit(l)
NoEnd(prog, l, s, p) == \A q \in s .. p - 1 : ~EndsAt(prog, l, s, q)

\* A run from s can not get past the failing instruction.
Doomed(prog, l, s) ==
    \E f \in s .. Len(prog) : prog[f].op = "fail" /\ NoEnd(prog, l, s, f + 1)

-----------------------------------------------------------------------------
(* The invariant of the segments. *)

Start == IF partial = None THEN 1 ELSE partial.after
ByProver == cpu # None /\ cpu.who = "prover"

SegTypes ==
    /\ program \in Programs /\ log \in MaxCpuLenLogs
    /\ interp \in [memory : SUBSET Nat, extra : Extras, stale : SUBSET Nat]
    /\ partial \in Datas \cup {None} /\ data \in Datas \cup {None} /\ cpu \in Runs \cup {None}
    /\ (cpu = None) <=> (data = None)
    /\ segments \in Seq(Proved) /\ outcome \in {"running", "done", "error"} /\ calls \in Nat

\* The last segment and the start of the next.
After(segs, d) ==
    /\ segs # <<>> /\ d # None
    /\ d.index = Len(segs) /\ d.before = segs[Len(segs)].after /\ d.after = d.before
    /\ d.memory = segs[Len(segs)].memAfter /\ d.extra = segs[Len(segs)].extra
Behind ==
    /\ Start \in 1 .. Len(program) /\ NoFail(program, 1, Start)
    /\ \/ partial = None /\ segments = <<>>
       \/ After(segments, partial)

\* Nothing has failed, and the interpreter is where the next segment starts.
Fresh(st) ==
    /\ interp.stale = Prunes(program, 1, st)
    /\ partial # None => /\ partial.memory \cap interp.stale = {}
                         /\ partial.extra.inputs = Cardinality(InputsFrom(program, st))
    /\ partial = None => interp.extra.inputs = Cardinality(InputsFrom(program, 1))

Settled == ~ByProver => Behind /\ (calls = 0 => Fresh(Start)) /\ (calls > 0 => Doomed(program, log, Start))

\* Where a run is, that started at s.
Phase(prog, l, c, s) ==
    /\ c.at \in s .. Len(prog) /\ NoFail(prog, s, c.at) /\ NoEnd(prog, l, s, c.at)
    /\ c.phase = "init" => c.at = s /\ c.clock < NUM_EXTRA_CYCLES_BEFORE
    /\ c.phase = "program" => c.clock = NUM_EXTRA_CYCLES_BEFORE + (c.at - s)
    /\ c.phase = "exit" => /\ c.final = c.at /\ EndsAt(prog, l, s, c.at)
                           /\ c.exit \in 1 .. NUM_EXTRA_CYCLES_AFTER - 1
                           /\ c.clock = NUM_EXTRA_CYCLES_BEFORE + (c.at - s) + c.exit

Interpreting ==
    cpu # None /\ cpu.who = "interpreter" =>
        /\ outcome = "running"
        /\ data.before = Start /\ data.after = Start /\ data.index = Len(segments)
        /\ partial # None => data = partial
        /\ Phase(program, log, cpu, Start)
        /\ calls = 0 =>
              /\ cpu.memory = data.memory \cup Writes(program, Start, cpu.at)
              /\ cpu.stale = interp.stale \cup Prunes(program, Start, cpu.at)
              /\ cpu.extra.inputs = Cardinality(InputsFrom(program, cpu.at))
              /\ \E h : Path(program, h, Start, data.extra, cpu.at) /\ h[cpu.at] = cpu.extra

\* The segment that is proved goes on from the last.
Onward(segs, d) ==
    /\ d.index = Len(segs)
    /\ segs = <<>> => d.before = 1
    /\ segs # <<>> => d.before = segs[Len(segs)].after /\ d.memory = segs[Len(segs)].memAfter

Proving ==
    ByProver =>
        LET s == data.before
            f == data.after
        IN  /\ outcome = "running" /\ calls = 0 /\ Onward(segments, data)
            /\ partial # None /\ partial.index = data.index + 1
            /\ partial.before = f /\ partial.after = f /\ f \in 1 .. Len(program) /\ s \in 1 .. f
            /\ EndsAt(program, log, s, f) /\ NoEnd(program, log, s, f) /\ NoFail(program, 1, f)
            /\ Fresh(f)
            /\ partial.memory = (data.memory \cup Writes(program, s, f)) \ Prunes(program, s, f)
            /\ Phase(program, log, cpu, s) /\ cpu.at <= f
            /\ cpu.memory = data.memory \cup Writes(program, s, cpu.at)
            /\ cpu.stale = Prunes(program, s, cpu.at)
            /\ \E h : Path(program, h, s, data.extra, f) /\ h[f] = partial.extra /\ h[cpu.at] = cpu.extra

Over ==
    /\ outcome = "error" => calls > 0
    /\ outcome = "done" => cpu = None /\ partial # None /\ Consumed(partial)

SegInv == SegTypes /\ SegmentsFit /\ SegmentsJoin /\ Settled /\ Interpreting /\ Proving /\ Over

-----------------------------------------------------------------------------
(* Programs, and the operators on their points. *)

\* A program is a sequence of points that ends where the kernel halts.
LEMMA ProgramFacts ==
    ASSUME NEW prog \in Programs
    PROVE  /\ Len(prog) \in Nat /\ Len(prog) > 0 /\ DOMAIN prog = 1 .. Len(prog)
           /\ \A p \in 1 .. Len(prog) :
                 /\ prog[p] \in ProgramPoints /\ prog[p].arg \in Nat
                 /\ (prog[p].kernel /\ prog[p].pc = HaltPc) <=> p = Len(prog)
           /\ prog[Len(prog)].op # "fail"
<1>1. Executed(prog)
  BY SegAssumption
<1>2. prog \in Seq(ProgramPoints) /\ prog # <<>>
  BY <1>1 DEF Executed
<1>3. Len(prog) \in Nat /\ Len(prog) > 0 /\ DOMAIN prog = 1 .. Len(prog)
  BY <1>2, EmptySeq, SMT
<1>4. \A p \in 1 .. Len(prog) : prog[p] \in ProgramPoints
  BY <1>2, <1>3, ElementOfSeq
<1>5. \A i \in ProgramPoints : i.arg \in Nat
  BY DEF ProgramPoints
<1> QED
  BY <1>1, <1>3, <1>4, <1>5 DEF Executed

\* "No data" is neither data nor a run.
LEMMA NoneIsApart == None \notin Runs /\ None \notin Datas
<1>1. DOMAIN None = {"none"}
  BY DEF None
<1>2. \A r \in Runs : "clock" \in DOMAIN r
  BY DEF Runs
<1>3. \A d \in Datas : "index" \in DOMAIN d
  BY DEF Datas
<1> QED
  BY <1>1, <1>2, <1>3

\* The operands of one point more, of none, and of two stretches.
LEMMA ArgsGrow ==
    ASSUME NEW prog, NEW op, NEW s \in Nat, NEW p \in Nat, s <= p
    PROVE  Args(prog, op, s, p + 1) = Args(prog, op, s, p) \cup (IF prog[p].op = op THEN {prog[p].arg} ELSE {})
<1>1. s .. (p + 1) - 1 = (s .. p - 1) \cup {p}
  OBVIOUS
<1>2. {r \in s .. (p + 1) - 1 : prog[r].op = op}
        = {r \in s .. p - 1 : prog[r].op = op} \cup (IF prog[p].op = op THEN {p} ELSE {})
  BY <1>1
<1> QED
  BY <1>2 DEF Args

LEMMA ArgsNone ==
    ASSUME NEW prog, NEW op, NEW s \in Nat
    PROVE  Args(prog, op, s, s) = {}
<1>1. s .. s - 1 = {}
  OBVIOUS
<1> QED
  BY <1>1 DEF Args

LEMMA ArgsJoin ==
    ASSUME NEW prog, NEW op, NEW s \in Nat, NEW f \in Nat, 1 <= s, s <= f
    PROVE  Args(prog, op, 1, f) = Args(prog, op, 1, s) \cup Args(prog, op, s, f)
<1>1. 1 .. f - 1 = (1 .. s - 1) \cup (s .. f - 1)
  OBVIOUS
<1>2. {r \in 1 .. f - 1 : prog[r].op = op}
        = {r \in 1 .. s - 1 : prog[r].op = op} \cup {r \in s .. f - 1 : prog[r].op = op}
  BY <1>1
<1> QED
  BY <1>2 DEF Args

\* Operands are contexts.
LEMMA ArgsTyped ==
    ASSUME NEW prog \in Programs, NEW op, NEW s \in Nat, NEW p \in Nat, 1 <= s, p <= Len(prog)
    PROVE  Args(prog, op, s, p) \subseteq Nat
<1>1. \A r \in s .. p - 1 : r \in 1 .. Len(prog)
  BY ProgramFacts
<1> QED
  BY <1>1, ProgramFacts DEF Args

\* What has been pruned is not written to later.
LEMMA PrunedNotWritten ==
    ASSUME NEW prog \in Programs, NEW s \in Nat, NEW f \in Nat, 1 <= s, s <= f, f <= Len(prog)
    PROVE  Prunes(prog, 1, s) \cap Writes(prog, s, f) = {}
<1>1. Executed(prog) /\ Len(prog) \in Nat
  BY SegAssumption, ProgramFacts
<1> SUFFICES ASSUME NEW x \in Prunes(prog, 1, s), x \in Writes(prog, s, f) PROVE FALSE
  OBVIOUS
<1>2. PICK p \in 1 .. s - 1 : prog[p].op = "prune" /\ x = prog[p].arg
  BY DEF Prunes, Args
<1>3. PICK q \in s .. f - 1 : prog[q].op = "write" /\ x = prog[q].arg
  BY DEF Writes, Args
<1>4. p \in 1 .. Len(prog) /\ q \in 1 .. Len(prog) /\ p < q
  BY <1>1
<1> QED
  BY <1>1, <1>2, <1>3, <1>4 DEF Executed

\* The inputs still to be read, before and after a point.
LEMMA InputsCounted ==
    ASSUME NEW prog \in Programs, NEW p \in 1 .. Len(prog)
    PROVE  /\ Cardinality(InputsFrom(prog, p)) \in Nat
           /\ prog[p].op = "input" => /\ Cardinality(InputsFrom(prog, p)) > 0
                                      /\ Cardinality(InputsFrom(prog, p + 1)) = Cardinality(InputsFrom(prog, p)) - 1
           /\ prog[p].op # "input" => InputsFrom(prog, p + 1) = InputsFrom(prog, p)
<1>1. Len(prog) \in Nat
  BY ProgramFacts
<1>2. IsFiniteSet(p .. Len(prog)) /\ IsFiniteSet(p + 1 .. Len(prog))
  BY <1>1, FS_Interval
<1>3. IsFiniteSet(InputsFrom(prog, p)) /\ IsFiniteSet(InputsFrom(prog, p + 1))
  BY <1>2, FS_Subset DEF InputsFrom
<1>4. Cardinality(InputsFrom(prog, p)) \in Nat /\ Cardinality(InputsFrom(prog, p + 1)) \in Nat
  BY <1>3, FS_CardinalityType
<1>5. p .. Len(prog) = (p + 1 .. Len(prog)) \cup {p} /\ p \notin p + 1 .. Len(prog)
  BY <1>1
<1>6. CASE prog[p].op = "input"
  <2>1. InputsFrom(prog, p) = InputsFrom(prog, p + 1) \cup {p} /\ p \notin InputsFrom(prog, p + 1)
    BY <1>5, <1>6 DEF InputsFrom
  <2>2. Cardinality(InputsFrom(prog, p)) = Cardinality(InputsFrom(prog, p + 1)) + 1
    BY <1>3, <2>1, FS_AddElement
  <2> QED
    BY <1>4, <1>6, <2>2
<1>7. CASE prog[p].op # "input"
  BY <1>4, <1>5, <1>7 DEF InputsFrom
<1> QED
  BY <1>6, <1>7

\* What is carried stays of its type.
LEMMA ExtrasStay ==
    ASSUME NEW i \in ProgramPoints, NEW e \in Extras, ~FailsWith(i, e)
    PROVE  ExtraAfter(i, e) \in Extras
<1>1. e.inputs \in Nat /\ e.table \in Int /\ e.txn \in Nat /\ i.arg \in Nat
  BY DEF Extras, ProgramPoints
<1>2. TableAfter(i, e.table) \in Int
  BY <1>1 DEF TableAfter, NoTable
<1>3. i.op = "input" => e.inputs - 1 \in Nat
  BY <1>1 DEF FailsWith
<1> QED
  BY <1>1, <1>2, <1>3 DEF ExtraAfter, Extras

\* A nonempty set of numbers has a least one.
LEMMA LeastNumber ==
    ASSUME NEW T, T \subseteq Nat, T # {}
    PROVE  \E n \in T : \A m \in T : n <= m
<1> DEFINE R == OpToRel(<, Nat)
<1>1. IsWellFoundedOn(R, Nat)
  BY NatLessThanWellFounded
<1>2. \A m, n \in Nat : m < n => <<m, n>> \in R
  BY DEF OpToRel
<1> HIDE DEF R
<1>3. PICK n \in T : \A m \in T : ~(<<m, n>> \in R)
  BY <1>1, WFMin
<1>4. \A m \in T : m \in Nat /\ n \in Nat /\ ~(m < n)
  BY <1>2, <1>3
<1> QED
  BY <1>4

\* A trace that is shorter than a power of two is padded to it at most.
LEMMA PaddedFits ==
    ASSUME NEW rows \in Nat, NEW l \in 0 .. MaxLog, rows < Power(l)
    PROVE  Padded(rows) <= Power(l)
<1> DEFINE T == {q \in Powers : q > rows}
<1>1. T \subseteq Nat /\ Power(l) \in T
  BY SegAssumption DEF Powers
<1>2. PICK m \in T : \A q \in T : m <= q
  BY <1>1, LeastNumber
<1>3. m \in Powers /\ m > rows /\ \A q \in Powers : q > rows => m <= q
  BY <1>2
<1>4. Padded(rows) \in Powers /\ \A q \in Powers : q > rows => Padded(rows) <= q
  BY <1>3 DEF Padded
<1> QED
  BY <1>1, <1>4

-----------------------------------------------------------------------------
(* The steps of a run. *)

\* The fields of a run and of a segment's data.
LEMMA RunFields ==
    ASSUME NEW c \in Runs
    PROVE  /\ c.who \in {"interpreter", "prover"} /\ c.clock \in Nat /\ c.running \in BOOLEAN
           /\ c.at \in Nat /\ c.final \in Nat /\ c.exit \in Nat
           /\ c.memory \in SUBSET Nat /\ c.stale \in SUBSET Nat /\ c.extra \in Extras
           /\ c.phase \in {"init", "program", "exit"}
BY DEF Runs

LEMMA DataFields ==
    ASSUME NEW d \in Datas
    PROVE  /\ d.index \in Nat /\ d.before \in Nat /\ d.after \in Nat
           /\ d.memory \in SUBSET Nat /\ d.extra \in Extras
BY DEF Datas

\* The run after one instruction of the program.
Moved(c, i) ==
    [c EXCEPT !.memory = c.memory \cup (IF i.op = "write" THEN {i.arg} ELSE {}),
              !.stale = c.stale \cup (IF i.op = "prune" THEN {i.arg} ELSE {}),
              !.extra = ExtraAfter(i, c.extra), !.clock = c.clock + 1, !.at = c.at + 1]

\* What moving on by one point changes.
LEMMA MovedFields ==
    ASSUME NEW c \in Runs, NEW i \in ProgramPoints, ~FailsWith(i, c.extra)
    PROVE  /\ Moved(c, i) \in Runs /\ Moved(c, i).who = c.who /\ Moved(c, i).phase = c.phase
           /\ Moved(c, i).clock = c.clock + 1 /\ Moved(c, i).at = c.at + 1
           /\ Moved(c, i).memory = c.memory \cup (IF i.op = "write" THEN {i.arg} ELSE {})
           /\ Moved(c, i).stale = c.stale \cup (IF i.op = "prune" THEN {i.arg} ELSE {})
           /\ Moved(c, i).extra = ExtraAfter(i, c.extra)
<1>1. c.extra \in Extras /\ i.arg \in Nat
  BY DEF Runs, ProgramPoints
<1> DEFINE e == ExtraAfter(i, c.extra)
           m == c.memory \cup (IF i.op = "write" THEN {i.arg} ELSE {})
           s == c.stale \cup (IF i.op = "prune" THEN {i.arg} ELSE {})
<1>2. e \in Extras
  BY <1>1, ExtrasStay
<1>3. m \in SUBSET Nat /\ s \in SUBSET Nat
  BY <1>1, RunFields
<1>4. Moved(c, i) = [c EXCEPT !.memory = m, !.stale = s, !.extra = e, !.clock = c.clock + 1, !.at = c.at + 1]
  BY DEF Moved
<1> HIDE DEF e, m, s
<1>5. c.clock + 1 \in Nat /\ c.at + 1 \in Nat
  BY RunFields
<1>6. /\ Moved(c, i) \in Runs /\ Moved(c, i).who = c.who /\ Moved(c, i).phase = c.phase
      /\ Moved(c, i).clock = c.clock + 1 /\ Moved(c, i).at = c.at + 1
      /\ Moved(c, i).memory = m /\ Moved(c, i).stale = s /\ Moved(c, i).extra = e
  BY <1>2, <1>3, <1>4, <1>5 DEF Runs
<1> QED
  BY <1>6 DEF e, m, s

\* transition moves on by one point, with or without an exception.
LEMMA EffectMoves ==
    ASSUME NEW c \in Runs
    PROVE  [IF program[c.at].op = "exception" THEN c ELSE Effect(c) EXCEPT !.clock = @ + 1, !.at = @ + 1]
             = Moved(c, program[c.at])
<1> DEFINE i == program[c.at]
           e == c.extra
<1>1. e \in Extras
  BY RunFields
<1>2. e = [inputs |-> e.inputs, table |-> e.table, txn |-> e.txn]
  BY <1>1 DEF Extras
<1> DEFINE n == IF i.op = "input" THEN e.inputs - 1 ELSE e.inputs
           tb == CASE i.op = "analyse" -> IF e.table = NoTable THEN i.arg ELSE e.table
                   [] i.op = "jump" /\ e.table # NoTable -> e.table - 1
                   [] OTHER -> e.table
           x == IF i.op = "txn" THEN e.txn + 1 ELSE e.txn
           m == IF i.op = "write" THEN c.memory \cup {i.arg} ELSE c.memory
           s == IF i.op = "prune" THEN c.stale \cup {i.arg} ELSE c.stale
<1>3. tb = TableAfter(i, e.table)
  <2>1. CASE i.op = "analyse"
    BY <2>1 DEF TableAfter
  <2>2. CASE i.op = "jump" /\ e.table # NoTable
    BY <2>2 DEF TableAfter
  <2>3. CASE i.op # "analyse" /\ ~(i.op = "jump" /\ e.table # NoTable)
    BY <2>3 DEF TableAfter
  <2> QED
    BY <2>1, <2>2, <2>3
<1>4. Effect(c) = [c EXCEPT !.memory = m, !.stale = s, !.extra = ExtraAfter(i, e)]
  <2>1. Effect(c) = [c EXCEPT !.memory = m, !.stale = s, !.extra.inputs = n, !.extra.table = tb, !.extra.txn = x]
    BY DEF Effect
  <2>2. ExtraAfter(i, e) = [inputs |-> n, table |-> tb, txn |-> x]
    BY <1>3 DEF ExtraAfter
  <2> HIDE DEF n, tb, x, m, s
  <2>3. [e EXCEPT !.inputs = n, !.table = tb, !.txn = x] = [inputs |-> n, table |-> tb, txn |-> x]
    <3> HIDE DEF e
    <3> DEFINE r == [e EXCEPT !.inputs = n, !.table = tb, !.txn = x]
    <3>1. r \in [inputs : {n}, table : {tb}, txn : {x}]
      BY <1>1 DEF Extras
    <3> HIDE DEF r
    <3>2. r = [inputs |-> n, table |-> tb, txn |-> x]
      BY <3>1
    <3> QED
      BY <3>2 DEF r
  <2>4. Effect(c) = [c EXCEPT !.memory = m, !.stale = s, !.extra = [e EXCEPT !.inputs = n, !.table = tb, !.txn = x]]
    BY <2>1 DEF Runs
  <2> QED
    BY <2>2, <2>3, <2>4
<1>4a. m = c.memory \cup (IF i.op = "write" THEN {i.arg} ELSE {}) /\ s = c.stale \cup (IF i.op = "prune" THEN {i.arg} ELSE {})
  OBVIOUS
<1> HIDE DEF m, s
<1>5. CASE i.op = "exception"
  <2>1. ExtraAfter(i, e) = e
    BY <1>2, <1>5 DEF ExtraAfter, TableAfter
  <2> QED
    BY <1>5, <2>1 DEF Moved, Runs
<1>6. CASE i.op # "exception"
  <2>1. [IF i.op = "exception" THEN c ELSE Effect(c) EXCEPT !.clock = @ + 1, !.at = @ + 1]
          = [Effect(c) EXCEPT !.clock = @ + 1, !.at = @ + 1]
    BY <1>6
  <2>2. Moved(c, i) = [c EXCEPT !.memory = m, !.stale = s, !.extra = ExtraAfter(i, e), !.clock = c.clock + 1, !.at = c.at + 1]
    BY <1>4a DEF Moved
  <2> DEFINE y == ExtraAfter(i, e)
  <2>3. [Effect(c) EXCEPT !.clock = @ + 1, !.at = @ + 1]
          = [[c EXCEPT !.memory = m, !.stale = s, !.extra = y] EXCEPT !.clock = @ + 1, !.at = @ + 1]
    BY <1>4
  <2> HIDE DEF y
  <2>4. [[c EXCEPT !.memory = m, !.stale = s, !.extra = y] EXCEPT !.clock = @ + 1, !.at = @ + 1]
          = [c EXCEPT !.memory = m, !.stale = s, !.extra = y, !.clock = c.clock + 1, !.at = c.at + 1]
    BY DEF Runs
  <2> QED
    BY <2>1, <2>2, <2>3, <2>4 DEF y
<1> QED
  BY <1>5, <1>6

\* The cycles of the two routines.
LEMMA CyclesTyped ==
    NUM_EXTRA_CYCLES_BEFORE \in Nat /\ NUM_EXTRA_CYCLES_AFTER \in Nat /\ NUM_EXTRA_CYCLES_AFTER > 1
BY SegAssumption

\* A run that started at s stops where its segment ends.
LEMMA StopsAtEnd ==
    ASSUME SegTypes, NEW c \in Runs, NEW s \in Nat,
           c.phase = "program" => c.clock = NUM_EXTRA_CYCLES_BEFORE + (c.at - s)
    PROVE  Stops(c) <=> c.phase = "program" /\ EndsAt(program, log, s, c.at)
BY DEF Stops, AtHalt, AtEndSegment, EndsAt

\* Failing depends only on the instruction and the inputs left.
LEMMA FailsThere ==
    ASSUME NEW c
    PROVE  Fails(c) <=> FailsWith(program[c.at], c.extra)
BY DEF Fails, FailsWith

\* A run that has not reached its end is not at the last point.
LEMMA RunsOn ==
    ASSUME SegTypes, NEW s \in Nat, NEW p \in 1 .. Len(program), ~EndsAt(program, log, s, p)
    PROVE  p + 1 \in 1 .. Len(program)
<1>1. program \in Programs
  BY DEF SegTypes
<1>2. p # Len(program)
  BY <1>1, ProgramFacts DEF EndsAt
<1> QED
  BY <1>1, <1>2, ProgramFacts

\* A stretch without failure, or without end, grows by one point.
LEMMA OnePointMore ==
    ASSUME NEW prog, NEW l, NEW s \in Nat, NEW p \in Nat, s <= p
    PROVE  /\ NoFail(prog, s, p) /\ prog[p].op # "fail" => NoFail(prog, s, p + 1)
           /\ NoEnd(prog, l, s, p) /\ ~EndsAt(prog, l, s, p) => NoEnd(prog, l, s, p + 1)
<1>1. \A q \in s .. (p + 1) - 1 : q \in s .. p - 1 \/ q = p
  OBVIOUS
<1> QED
  BY <1>1 DEF NoFail, NoEnd

\* An instruction of the program.
LEMMA TransitionMoves ==
    ASSUME SegTypes, transition, NEW s \in 1 .. Len(program), Phase(program, log, cpu, s)
    PROVE  /\ cpu \in Runs /\ cpu' \in Runs /\ cpu'.who = cpu.who
           /\ cpu.phase = "program" /\ cpu'.phase = "program" /\ cpu'.at = cpu.at + 1
           /\ cpu'.memory = cpu.memory \cup (IF program[cpu.at].op = "write" THEN {program[cpu.at].arg} ELSE {})
           /\ cpu'.stale = cpu.stale \cup (IF program[cpu.at].op = "prune" THEN {program[cpu.at].arg} ELSE {})
           /\ cpu'.extra = ExtraAfter(program[cpu.at], cpu.extra)
           /\ ~FailsWith(program[cpu.at], cpu.extra) /\ ~EndsAt(program, log, s, cpu.at)
           /\ Phase(program, log, cpu', s)
<1>1. cpu \in Runs /\ cpu.phase = "program" /\ program \in Programs
  BY DEF SegTypes, transition
<1>2. Len(program) \in Nat /\ cpu.at \in 1 .. Len(program) /\ program[cpu.at] \in ProgramPoints /\ s \in Nat
  BY <1>1, ProgramFacts DEF Phase
<1>3. ~FailsWith(program[cpu.at], cpu.extra)
  BY FailsThere DEF transition
<1>4. ~EndsAt(program, log, s, cpu.at)
  BY <1>1, <1>2, StopsAtEnd DEF transition, Phase
<1>5. cpu' = Moved(cpu, program[cpu.at])
  BY <1>1, EffectMoves DEF transition
<1>6. /\ cpu' \in Runs /\ cpu'.who = cpu.who /\ cpu'.phase = cpu.phase
      /\ cpu'.clock = cpu.clock + 1 /\ cpu'.at = cpu.at + 1
      /\ cpu'.memory = cpu.memory \cup (IF program[cpu.at].op = "write" THEN {program[cpu.at].arg} ELSE {})
      /\ cpu'.stale = cpu.stale \cup (IF program[cpu.at].op = "prune" THEN {program[cpu.at].arg} ELSE {})
      /\ cpu'.extra = ExtraAfter(program[cpu.at], cpu.extra)
  BY <1>1, <1>2, <1>3, <1>5, MovedFields
<1>7. cpu.at + 1 \in 1 .. Len(program)
  BY <1>2, <1>4, RunsOn
<1>8. NoFail(program, s, cpu.at + 1) /\ NoEnd(program, log, s, cpu.at + 1)
  BY <1>2, <1>3, <1>4, OnePointMore DEF Phase, FailsWith
<1>9. Phase(program, log, cpu', s)
  <2>1. cpu.clock = NUM_EXTRA_CYCLES_BEFORE + (cpu.at - s) /\ s <= cpu.at
    BY <1>1, <1>2 DEF Phase
  <2>2. cpu'.clock = NUM_EXTRA_CYCLES_BEFORE + (cpu'.at - s) /\ cpu'.at \in s .. Len(program)
    BY <1>2, <1>6, <1>7, <2>1, CyclesTyped
  <2> QED
    BY <1>1, <1>6, <1>8, <2>2 DEF Phase
<1> QED
  BY <1>1, <1>3, <1>4, <1>6, <1>9

\* The cycles before and after the program leave its state alone.
LEMMA AroundTheProgram ==
    ASSUME SegTypes, InitCycle \/ final_exception \/ ExitCycle,
           NEW s \in 1 .. Len(program), Phase(program, log, cpu, s)
    PROVE  /\ cpu \in Runs /\ cpu' \in Runs /\ cpu'.who = cpu.who /\ cpu'.at = cpu.at
           /\ cpu'.memory = cpu.memory /\ cpu'.stale = cpu.stale /\ cpu'.extra = cpu.extra
           /\ Phase(program, log, cpu', s)
<1>1. cpu \in Runs /\ program \in Programs
  BY DEF SegTypes, InitCycle, final_exception, ExitCycle
<1>2. Len(program) \in Nat /\ cpu.at \in 1 .. Len(program) /\ s \in Nat
  BY <1>1, ProgramFacts DEF Phase
<1>2a. cpu.clock \in Nat /\ cpu.exit \in Nat /\ cpu.clock + 1 \in Nat /\ cpu.exit + 1 \in Nat
  BY <1>1, RunFields
<1>3. CASE InitCycle
  <2> DEFINE ph == IF cpu.clock + 1 = NUM_EXTRA_CYCLES_BEFORE THEN "program" ELSE "init"
  <2>1. cpu' = [cpu EXCEPT !.clock = cpu.clock + 1, !.phase = ph] /\ cpu.phase = "init"
    BY <1>3 DEF InitCycle
  <2>2. ph \in {"program", "init"} /\ (ph = "program" <=> cpu.clock + 1 = NUM_EXTRA_CYCLES_BEFORE)
    OBVIOUS
  <2> HIDE DEF ph
  <2>3. /\ cpu' \in Runs /\ cpu'.who = cpu.who /\ cpu'.at = cpu.at /\ cpu'.memory = cpu.memory
        /\ cpu'.stale = cpu.stale /\ cpu'.extra = cpu.extra /\ cpu'.clock = cpu.clock + 1 /\ cpu'.phase = ph
    BY <1>1, <1>2a, <2>1, <2>2 DEF Runs
  <2>4. cpu.at = s /\ cpu.clock < NUM_EXTRA_CYCLES_BEFORE
    BY <2>1 DEF Phase
  <2>5. Phase(program, log, cpu', s)
    BY <1>2, <1>2a, <2>2, <2>3, <2>4, CyclesTyped DEF Phase
  <2> QED
    BY <1>1, <2>3, <2>5
<1>4. CASE final_exception
  <2>1. cpu' = [cpu EXCEPT !.running = FALSE, !.final = cpu.at, !.clock = cpu.clock + 1, !.phase = "exit", !.exit = 1]
    BY <1>4 DEF final_exception
  <2>2. cpu.phase = "program" /\ EndsAt(program, log, s, cpu.at)
    BY <1>1, <1>2, <1>4, StopsAtEnd DEF final_exception, Phase
  <2>3. /\ cpu' \in Runs /\ cpu'.who = cpu.who /\ cpu'.at = cpu.at /\ cpu'.memory = cpu.memory
        /\ cpu'.stale = cpu.stale /\ cpu'.extra = cpu.extra /\ cpu'.clock = cpu.clock + 1 /\ cpu'.phase = "exit"
        /\ cpu'.final = cpu.at /\ cpu'.exit = 1
    BY <1>1, <1>2a, <2>1 DEF Runs
  <2>4. Phase(program, log, cpu', s)
    BY <1>2, <1>2a, <2>2, <2>3, CyclesTyped DEF Phase
  <2> QED
    BY <1>1, <2>3, <2>4
<1>5. CASE ExitCycle
  <2>1. cpu' = [cpu EXCEPT !.clock = cpu.clock + 1, !.exit = cpu.exit + 1] /\ cpu.phase = "exit" /\ cpu.exit < NUM_EXTRA_CYCLES_AFTER - 1
    BY <1>5 DEF ExitCycle
  <2>2. /\ cpu' \in Runs /\ cpu'.who = cpu.who /\ cpu'.at = cpu.at /\ cpu'.memory = cpu.memory
        /\ cpu'.stale = cpu.stale /\ cpu'.extra = cpu.extra /\ cpu'.clock = cpu.clock + 1 /\ cpu'.phase = "exit"
        /\ cpu'.final = cpu.final /\ cpu'.exit = cpu.exit + 1
    BY <1>1, <1>2a, <2>1 DEF Runs
  <2>3. Phase(program, log, cpu', s)
    <3>1. /\ cpu.final = cpu.at /\ EndsAt(program, log, s, cpu.at) /\ cpu.exit \in 1 .. NUM_EXTRA_CYCLES_AFTER - 1
          /\ cpu.clock = NUM_EXTRA_CYCLES_BEFORE + (cpu.at - s) + cpu.exit
      BY <2>1 DEF Phase
    <3>2. /\ cpu'.exit \in 1 .. NUM_EXTRA_CYCLES_AFTER - 1
          /\ cpu'.clock = NUM_EXTRA_CYCLES_BEFORE + (cpu.at - s) + cpu'.exit
      <4> DEFINE a == cpu.at
                 k == cpu.clock
                 x == cpu.exit
      <4>1. x < NUM_EXTRA_CYCLES_AFTER - 1 /\ cpu'.exit = x + 1 /\ cpu'.clock = k + 1
        BY <2>1, <2>2
      <4>2. a \in Nat /\ k \in Nat /\ x \in Nat /\ k = NUM_EXTRA_CYCLES_BEFORE + (a - s) + x
        BY <1>2, <1>2a, <3>1
      <4> HIDE DEF a, k, x
      <4>3. x + 1 \in 1 .. NUM_EXTRA_CYCLES_AFTER - 1 /\ k + 1 = NUM_EXTRA_CYCLES_BEFORE + (a - s) + (x + 1)
        BY <1>2, <4>1, <4>2, CyclesTyped
      <4> QED
        BY <4>1, <4>3 DEF a
    <3> QED
      BY <2>2, <3>1, <3>2 DEF Phase
  <2> QED
    BY <1>1, <2>2, <2>3
<1> QED
  BY <1>3, <1>4, <1>5

\* A path grows by one point.
LEMMA PathGrows ==
    ASSUME NEW prog, NEW h, NEW s \in Nat, NEW e, NEW p \in Nat, s <= p, Path(prog, h, s, e, p),
           prog[p] \in ProgramPoints, ~FailsWith(prog[p], h[p])
    PROVE  \E g : Path(prog, g, s, e, p + 1) /\ g[p + 1] = ExtraAfter(prog[p], h[p])
<1> DEFINE y == ExtraAfter(prog[p], h[p])
           g == [q \in s .. p + 1 |-> IF q <= p THEN h[q] ELSE y]
<1>1. h \in [s .. p -> Extras] /\ h[p] \in Extras
  BY DEF Path
<1>2. y \in Extras
  BY <1>1, ExtrasStay
<1>3. \A q \in s .. p : g[q] = h[q]
  OBVIOUS
<1>4. g[p + 1] = y
  OBVIOUS
<1>5. g \in [s .. p + 1 -> Extras]
  BY <1>1, <1>2
<1> HIDE DEF g, y
<1>6. ASSUME NEW q \in s .. (p + 1) - 1
      PROVE  ~FailsWith(prog[q], g[q]) /\ g[q + 1] = ExtraAfter(prog[q], g[q])
  <2>1. CASE q = p
    BY <1>3, <1>4, <2>1 DEF y
  <2>2. CASE q # p
    <3>1. q \in s .. p - 1 /\ q \in s .. p /\ q + 1 \in s .. p
      BY <2>2
    <3> QED
      BY <1>3, <3>1 DEF Path
  <2> QED
    BY <2>1, <2>2
<1>7. g[s] = e
  BY <1>3 DEF Path
<1>8. Path(prog, g, s, e, p + 1)
  BY <1>5, <1>6, <1>7 DEF Path
<1> QED
  BY <1>4, <1>8 DEF y

\* A path of one point.
LEMMA PathStarts ==
    ASSUME NEW prog, NEW s \in Nat, NEW e \in Extras
    PROVE  \E h : Path(prog, h, s, e, s) /\ h[s] = e
<1> DEFINE h == [q \in s .. s |-> e]
<1>1. h[s] = e /\ h \in [s .. s -> Extras] /\ s .. s - 1 = {}
  OBVIOUS
<1> QED
  BY <1>1 DEF Path

-----------------------------------------------------------------------------
(* The invariant is kept. *)

Inner == InitCycle \/ transition \/ final_exception \/ ExitCycle

\* What is known of a run under way.
LEMMA UnderWay ==
    ASSUME SegInv, cpu # None
    PROVE  /\ program \in Programs /\ Len(program) \in Nat /\ cpu \in Runs /\ data \in Datas
           /\ data.before \in 1 .. Len(program) /\ Phase(program, log, cpu, data.before)
           /\ outcome = "running"
           /\ cpu.who = "interpreter" => data.before = Start /\ Behind
           /\ cpu.who = "prover" => calls = 0 /\ data.after \in data.before .. Len(program)
<1>1. program \in Programs /\ Len(program) \in Nat /\ cpu \in Runs /\ data \in Datas
  BY ProgramFacts DEF SegInv, SegTypes
<1>2. cpu.who \in {"interpreter", "prover"}
  BY <1>1, RunFields
<1>3. CASE cpu.who = "interpreter"
  BY <1>1, <1>3 DEF SegInv, Settled, ByProver, Behind, Interpreting
<1>4. CASE cpu.who = "prover"
  BY <1>1, <1>4 DEF SegInv, ByProver, Proving
<1> QED
  BY <1>1, <1>2, <1>3, <1>4

\* What one cycle of a run does.
LEMMA InnerKeepsRun ==
    ASSUME SegInv, Inner
    PROVE  /\ cpu \in Runs /\ cpu' \in Runs /\ cpu # None /\ cpu' # None /\ cpu'.who = cpu.who
           /\ Phase(program, log, cpu', data.before)
           /\ \/ /\ transition /\ cpu'.at = cpu.at + 1
                 /\ cpu'.memory = cpu.memory \cup (IF program[cpu.at].op = "write" THEN {program[cpu.at].arg} ELSE {})
                 /\ cpu'.stale = cpu.stale \cup (IF program[cpu.at].op = "prune" THEN {program[cpu.at].arg} ELSE {})
                 /\ cpu'.extra = ExtraAfter(program[cpu.at], cpu.extra)
                 /\ ~FailsWith(program[cpu.at], cpu.extra) /\ ~EndsAt(program, log, data.before, cpu.at)
              \/ /\ cpu'.at = cpu.at /\ cpu'.memory = cpu.memory /\ cpu'.stale = cpu.stale
                 /\ cpu'.extra = cpu.extra
<1>1. cpu # None
  BY DEF Inner, InitCycle, transition, final_exception, ExitCycle
<1>2. SegTypes /\ data.before \in 1 .. Len(program) /\ Phase(program, log, cpu, data.before)
  BY <1>1, UnderWay DEF SegInv
<1>3. CASE transition
  <2>1. cpu' \in Runs
    BY <1>2, <1>3, TransitionMoves
  <2> QED
    BY <1>1, <1>2, <1>3, <2>1, TransitionMoves, NoneIsApart
<1>4. CASE InitCycle \/ final_exception \/ ExitCycle
  <2>1. cpu' \in Runs
    BY <1>2, <1>4, AroundTheProgram
  <2> QED
    BY <1>1, <1>2, <1>4, <2>1, AroundTheProgram, NoneIsApart
<1> QED
  BY <1>3, <1>4 DEF Inner

\* A cycle of the interpreter keeps its invariant.
LEMMA InnerKeepsInterpreting ==
    ASSUME SegInv, Inner
    PROVE  Interpreting'
<1>1. UNCHANGED <<program, log, interp, partial, data, segments, outcome, calls>>
  BY DEF Inner, InitCycle, transition, final_exception, ExitCycle
<1>2. /\ cpu \in Runs /\ cpu' \in Runs /\ cpu # None /\ cpu' # None /\ cpu'.who = cpu.who
      /\ Phase(program, log, cpu', data.before)
  BY InnerKeepsRun
<1> SUFFICES ASSUME cpu'.who = "interpreter" PROVE Interpreting'
  BY DEF Interpreting
<1>3. cpu.who = "interpreter"
  BY <1>2
<1>4. Start' = Start
  BY <1>1 DEF Start
<1>5. /\ outcome = "running"
      /\ data.before = Start /\ data.after = Start /\ data.index = Len(segments)
      /\ partial # None => data = partial
      /\ Phase(program, log, cpu, Start)
  BY <1>2, <1>3 DEF SegInv, Interpreting
<1>6. program \in Programs /\ Len(program) \in Nat /\ Start \in 1 .. Len(program)
  BY <1>2, <1>5, UnderWay
<1>7. ASSUME calls = 0
      PROVE  /\ cpu'.memory = data.memory \cup Writes(program, Start, cpu'.at)
             /\ cpu'.stale = interp.stale \cup Prunes(program, Start, cpu'.at)
             /\ cpu'.extra.inputs = Cardinality(InputsFrom(program, cpu'.at))
             /\ \E h : Path(program, h, Start, data.extra, cpu'.at) /\ h[cpu'.at] = cpu'.extra
  <2>1. /\ cpu.memory = data.memory \cup Writes(program, Start, cpu.at)
        /\ cpu.stale = interp.stale \cup Prunes(program, Start, cpu.at)
        /\ cpu.extra.inputs = Cardinality(InputsFrom(program, cpu.at))
    BY <1>2, <1>3, <1>7 DEF SegInv, Interpreting
  <2>2. PICK h : Path(program, h, Start, data.extra, cpu.at) /\ h[cpu.at] = cpu.extra
    BY <1>2, <1>3, <1>7 DEF SegInv, Interpreting
  <2>3. CASE cpu'.at = cpu.at /\ cpu'.memory = cpu.memory /\ cpu'.stale = cpu.stale /\ cpu'.extra = cpu.extra
    BY <2>1, <2>2, <2>3
  <2>4. CASE /\ transition /\ cpu'.at = cpu.at + 1
             /\ cpu'.memory = cpu.memory \cup (IF program[cpu.at].op = "write" THEN {program[cpu.at].arg} ELSE {})
             /\ cpu'.stale = cpu.stale \cup (IF program[cpu.at].op = "prune" THEN {program[cpu.at].arg} ELSE {})
             /\ cpu'.extra = ExtraAfter(program[cpu.at], cpu.extra)
             /\ ~FailsWith(program[cpu.at], cpu.extra)
    <3> DEFINE a == cpu.at
               i == program[a]
    <3>1. a \in 1 .. Len(program) /\ a \in Nat /\ Start \in Nat /\ Start <= a /\ i \in ProgramPoints
      BY <1>5, <1>6, ProgramFacts DEF Phase
    <3>2. /\ Writes(program, Start, a + 1) = Writes(program, Start, a) \cup (IF i.op = "write" THEN {i.arg} ELSE {})
          /\ Prunes(program, Start, a + 1) = Prunes(program, Start, a) \cup (IF i.op = "prune" THEN {i.arg} ELSE {})
      BY <3>1, ArgsGrow DEF Writes, Prunes
    <3>3. cpu'.memory = data.memory \cup Writes(program, Start, a + 1)
      BY <2>1, <2>4, <3>2
    <3>4. cpu'.stale = interp.stale \cup Prunes(program, Start, a + 1)
      BY <2>1, <2>4, <3>2
    <3>5. cpu'.extra.inputs = Cardinality(InputsFrom(program, a + 1))
      <4>1. cpu'.extra.inputs = IF i.op = "input" THEN cpu.extra.inputs - 1 ELSE cpu.extra.inputs
        BY <2>4 DEF ExtraAfter
      <4> QED
        BY <1>6, <2>1, <3>1, <4>1, InputsCounted
    <3>6. \E g : Path(program, g, Start, data.extra, a + 1) /\ g[a + 1] = cpu'.extra
      BY <2>2, <2>4, <3>1, PathGrows
    <3> QED
      BY <2>4, <3>3, <3>4, <3>5, <3>6
  <2> QED
    BY <2>3, <2>4, InnerKeepsRun
<1> QED
  BY <1>1, <1>2, <1>4, <1>5, <1>7 DEF Interpreting

\* A run from s that has not passed f, where its segment ends first, ends there.
LEMMA EndIsUnique ==
    ASSUME NEW prog, NEW l, NEW s \in Nat, NEW f \in Nat, NEW p \in s .. f, NoEnd(prog, l, s, f)
    PROVE  EndsAt(prog, l, s, p) => p = f
BY DEF NoEnd

\* A cycle of the prover keeps its invariant: it follows the path the interpreter took.
LEMMA InnerKeepsProving ==
    ASSUME SegInv, Inner
    PROVE  Proving'
<1>1. UNCHANGED <<program, log, interp, partial, data, segments, outcome, calls>>
  BY DEF Inner, InitCycle, transition, final_exception, ExitCycle
<1>2. /\ cpu \in Runs /\ cpu' \in Runs /\ cpu # None /\ cpu' # None /\ cpu'.who = cpu.who
      /\ Phase(program, log, cpu', data.before)
  BY InnerKeepsRun
<1> SUFFICES ASSUME cpu'.who = "prover" PROVE Proving'
  BY DEF Proving, ByProver
<1>3. ByProver
  BY <1>2 DEF ByProver
<1> DEFINE s == data.before
           f == data.after
           a == cpu.at
           i == program[a]
<1>4. /\ outcome = "running" /\ calls = 0 /\ Onward(segments, data)
      /\ partial # None /\ partial.index = data.index + 1
      /\ partial.before = f /\ partial.after = f /\ f \in 1 .. Len(program) /\ s \in 1 .. f
      /\ EndsAt(program, log, s, f) /\ NoEnd(program, log, s, f) /\ NoFail(program, 1, f)
      /\ Fresh(f)
      /\ partial.memory = (data.memory \cup Writes(program, s, f)) \ Prunes(program, s, f)
      /\ Phase(program, log, cpu, s) /\ cpu.at <= f
      /\ cpu.memory = data.memory \cup Writes(program, s, cpu.at)
      /\ cpu.stale = Prunes(program, s, cpu.at)
  BY <1>3 DEF SegInv, Proving
<1>5. PICK h : Path(program, h, s, data.extra, f) /\ h[f] = partial.extra /\ h[cpu.at] = cpu.extra
  BY <1>3 DEF SegInv, Proving
<1>6. program \in Programs /\ Len(program) \in Nat
  BY <1>2, UnderWay
<1>7. a \in s .. f /\ a \in 1 .. Len(program) /\ a \in Nat /\ s \in Nat /\ f \in Nat
  BY <1>4, <1>6 DEF Phase
<1>8. Fresh(f)'
  BY <1>1, <1>4 DEF Fresh
<1>9. /\ cpu'.at <= f
      /\ cpu'.memory = data.memory \cup Writes(program, s, cpu'.at)
      /\ cpu'.stale = Prunes(program, s, cpu'.at)
      /\ h[cpu'.at] = cpu'.extra
  <2>1. CASE cpu'.at = cpu.at /\ cpu'.memory = cpu.memory /\ cpu'.stale = cpu.stale /\ cpu'.extra = cpu.extra
    BY <1>4, <1>5, <2>1
  <2>2. CASE /\ transition /\ cpu'.at = cpu.at + 1
             /\ cpu'.memory = cpu.memory \cup (IF program[cpu.at].op = "write" THEN {program[cpu.at].arg} ELSE {})
             /\ cpu'.stale = cpu.stale \cup (IF program[cpu.at].op = "prune" THEN {program[cpu.at].arg} ELSE {})
             /\ cpu'.extra = ExtraAfter(program[cpu.at], cpu.extra)
             /\ ~EndsAt(program, log, data.before, cpu.at)
    <3>1. a # f
      BY <1>4, <2>2
    <3>2. a \in s .. f - 1 /\ a + 1 <= f /\ s <= a
      BY <1>7, <3>1
    <3>3. /\ Writes(program, s, a + 1) = Writes(program, s, a) \cup (IF i.op = "write" THEN {i.arg} ELSE {})
          /\ Prunes(program, s, a + 1) = Prunes(program, s, a) \cup (IF i.op = "prune" THEN {i.arg} ELSE {})
      BY <1>7, <3>2, ArgsGrow DEF Writes, Prunes
    <3>4. h[a + 1] = ExtraAfter(i, h[a])
      BY <1>5, <3>2 DEF Path
    <3> QED
      BY <1>4, <1>5, <2>2, <3>2, <3>3, <3>4
  <2> QED
    BY <2>1, <2>2, InnerKeepsRun
<1> HIDE DEF s, f, a, i
<1>10. s' = s /\ f' = f
  BY <1>1 DEF s, f
<1> QED
  BY <1>1, <1>2, <1>4, <1>5, <1>8, <1>9, <1>10 DEF Proving, s, f

\* The cycles of a run keep the invariant.
LEMMA InnerKeeps ==
    ASSUME SegInv, Inner
    PROVE  SegInv'
<1>1. UNCHANGED <<program, log, interp, partial, data, segments, outcome, calls>>
  BY DEF Inner, InitCycle, transition, final_exception, ExitCycle
<1>2. cpu \in Runs /\ cpu' \in Runs /\ cpu # None /\ cpu' # None /\ cpu'.who = cpu.who
  BY InnerKeepsRun
<1>3. SegTypes'
  BY <1>1, <1>2 DEF SegInv, SegTypes
<1>4. SegmentsFit' /\ SegmentsJoin'
  BY <1>1 DEF SegInv, SegmentsFit, SegmentsJoin
<1>5. Settled'
  <2>1. ByProver' = ByProver /\ Start' = Start
    BY <1>1, <1>2 DEF ByProver, Start
  <2>2. Behind' = Behind
    BY <1>1, <2>1 DEF Behind
  <2>3. Fresh(Start)' = Fresh(Start)
    BY <1>1, <2>1 DEF Fresh
  <2> QED
    BY <1>1, <2>1, <2>2, <2>3 DEF SegInv, Settled
<1>6. Over'
  BY <1>1, <1>2 DEF SegInv, Over
<1> QED
  BY <1>3, <1>4, <1>5, <1>6, InnerKeepsInterpreting, InnerKeepsProving DEF SegInv

\* A run that has just started.
Started(who, s, m, e, t) == [StartRun(who, s, m, e) EXCEPT !.stale = t]

\* A run that starts, and where it is.
LEMMA RunStarts ==
    ASSUME NEW who \in {"interpreter", "prover"}, NEW s \in Nat, NEW m \in SUBSET Nat, NEW e \in Extras,
           NEW t \in SUBSET Nat, NEW c, c = Started(who, s, m, e, t)
    PROVE  /\ c \in Runs /\ c.who = who /\ c.at = s /\ c.memory = m /\ c.extra = e /\ c.stale = t
           /\ c.phase = "init" /\ c.clock = 0
BY DEF Started, StartRun, Runs

LEMMA PhaseStarts ==
    ASSUME NEW prog \in Programs, NEW l, NEW c, NEW s \in 1 .. Len(prog), c.at = s, c.phase = "init", c.clock = 0
    PROVE  Phase(prog, l, c, s)
<1>1. s .. s - 1 = {} /\ s \in s .. Len(prog)
  BY ProgramFacts
<1>2. 0 < NUM_EXTRA_CYCLES_BEFORE
  BY SegAssumption
<1> QED
  BY <1>1, <1>2 DEF Phase, NoFail, NoEnd

\* The invariant holds at the beginning.
LEMMA InitHolds == SegmentsInit => SegInv
<1> SUFFICES ASSUME SegmentsInit PROVE SegInv
  OBVIOUS
<1>1. program \in Programs /\ log \in MaxCpuLenLogs /\ partial = None /\ data = None /\ cpu = None
      /\ segments = <<>> /\ outcome = "running" /\ calls = 0
      /\ interp = [memory |-> {0}, extra |-> Extra0, stale |-> {}]
  BY DEF SegmentsInit
<1>2. Len(program) \in Nat /\ Len(program) > 0 /\ DOMAIN program = 1 .. Len(program)
  BY <1>1, ProgramFacts
<1>3. Inputs = Cardinality(InputsFrom(program, 1))
  BY <1>2 DEF Inputs, Points, InputsFrom
<1>4. Inputs \in Nat
  <2>1. 1 \in 1 .. Len(program)
    BY <1>2
  <2> QED
    BY <1>1, <1>3, <2>1, InputsCounted
<1>5. Extra0 \in Extras /\ Extra0.inputs = Inputs
  BY <1>4 DEF Extra0, Extras, NoTable
<1>6. interp.extra = Extra0 /\ interp.stale = {} /\ interp \in [memory : SUBSET Nat, extra : Extras, stale : SUBSET Nat]
  BY <1>1, <1>5
<1>7. SegTypes
  BY <1>1, <1>6 DEF SegTypes
<1>8. SegmentsFit /\ SegmentsJoin
  BY <1>1 DEF SegmentsFit, SegmentsJoin
<1>9. Start = 1
  BY <1>1 DEF Start
<1>10. 1 .. 1 - 1 = {}
  OBVIOUS
<1>11. Behind
  BY <1>1, <1>2, <1>9, <1>10 DEF Behind, NoFail
<1>12. Fresh(Start)
  BY <1>1, <1>3, <1>5, <1>6, <1>9, ArgsNone DEF Fresh, Prunes
<1>13. Settled
  BY <1>1, <1>11, <1>12 DEF Settled
<1> QED
  BY <1>1, <1>7, <1>8, <1>13 DEF SegInv, Interpreting, Proving, ByProver, Over

\* A segment is begun where the last one ended.
LEMMA GenerateKeeps ==
    ASSUME SegInv, generate_next_segment
    PROVE  SegInv'
<1>1. /\ outcome = "running" /\ data = None /\ cpu = None
      /\ UNCHANGED <<program, log, interp, partial, segments, calls>>
  BY DEF generate_next_segment
<1>2. SegTypes /\ program \in Programs /\ Len(program) \in Nat
  BY ProgramFacts DEF SegInv, SegTypes
<1>3. ~ByProver /\ Start' = Start
  BY <1>1 DEF ByProver, Start
<1>4. Behind /\ (calls = 0 => Fresh(Start)) /\ (calls > 0 => Doomed(program, log, Start))
  BY <1>3 DEF SegInv, Settled
<1>5. Behind' = Behind /\ Fresh(Start)' = Fresh(Start)
  BY <1>1, <1>3 DEF Behind, Fresh
<1>6. SegmentsFit' /\ SegmentsJoin'
  BY <1>1 DEF SegInv, SegmentsFit, SegmentsJoin
<1>7. CASE partial # None /\ Consumed(partial)
  <2>1. outcome' = "done" /\ UNCHANGED <<data, cpu>>
    BY <1>7 DEF generate_next_segment
  <2>2. SegTypes'
    BY <1>1, <1>2, <2>1 DEF SegTypes
  <2>3. ~ByProver'
    BY <1>1, <2>1 DEF ByProver
  <2>4. Settled'
    BY <1>1, <1>3, <1>4, <1>5 DEF Settled
  <2>5. Interpreting' /\ Proving'
    BY <1>1, <2>1, <2>3 DEF Interpreting, Proving
  <2>6. Consumed(partial)'
    BY <1>1, <1>7 DEF Consumed
  <2>7. Over'
    BY <1>1, <1>7, <2>1, <2>6 DEF Over
  <2> QED
    BY <1>6, <2>2, <2>4, <2>5, <2>7 DEF SegInv
<1>8. CASE ~(partial # None /\ Consumed(partial))
  <2> DEFINE d == IF partial = None THEN build_segment_data(0, 1, 1, interp.memory, interp.extra) ELSE partial
  <2>1. /\ data' = d /\ outcome' = outcome
        /\ cpu' = [StartRun("interpreter", d.after, d.memory, d.extra) EXCEPT !.stale = interp.stale]
    BY <1>8 DEF generate_next_segment
  <2>2. interp.memory \in SUBSET Nat /\ interp.extra \in Extras /\ interp.stale \in SUBSET Nat
    BY <1>2 DEF SegTypes
  <2>3. d \in Datas /\ d.before = Start /\ d.after = Start /\ d.index = Len(segments)
    <3>1. CASE partial = None
      <4>1. d = [index |-> 0, before |-> 1, after |-> 1, memory |-> interp.memory, extra |-> interp.extra]
        BY <3>1 DEF build_segment_data
      <4>2. Len(segments) = 0 /\ Start = 1
        BY <1>4, <3>1, NoneIsApart DEF Behind, Start, After
      <4> HIDE DEF d
      <4> QED
        BY <2>2, <4>1, <4>2 DEF Datas
    <3>2. CASE partial # None
      <4>1. d = partial /\ partial \in Datas /\ Start = partial.after
        BY <1>2, <3>2 DEF SegTypes, Start
      <4> QED
        BY <1>4, <3>2, <4>1 DEF Behind, After
    <3> QED
      BY <3>1, <3>2
  <2>4. partial # None => d = partial
    OBVIOUS
  <2>5. partial = None => d.extra = interp.extra
    BY DEF build_segment_data
  <2> HIDE DEF d
  <2>6. d.memory \in SUBSET Nat /\ d.extra \in Extras /\ Start \in Nat /\ Start \in 1 .. Len(program)
    BY <1>4, <2>3, DataFields DEF Behind
  <2>7. /\ cpu' \in Runs /\ cpu'.who = "interpreter" /\ cpu'.at = Start /\ cpu'.memory = d.memory
        /\ cpu'.extra = d.extra /\ cpu'.stale = interp.stale /\ cpu'.phase = "init" /\ cpu'.clock = 0
    <3>1. cpu' = Started("interpreter", Start, d.memory, d.extra, interp.stale)
      BY <2>1, <2>3 DEF Started
    <3> QED
      BY <2>2, <2>6, <3>1, RunStarts
  <2>8. cpu' # None /\ d # None
    BY <2>3, <2>7, NoneIsApart
  <2>9. SegTypes'
    BY <1>1, <1>2, <2>1, <2>3, <2>7, <2>8 DEF SegTypes
  <2>10. Settled'
    BY <1>1, <1>3, <1>4, <1>5 DEF Settled
  <2>11. Phase(program, log, cpu', Start)
    BY <1>2, <2>6, <2>7, PhaseStarts
  <2>12. ASSUME calls = 0
         PROVE  /\ cpu'.memory = d.memory \cup Writes(program, Start, cpu'.at)
                /\ cpu'.stale = interp.stale \cup Prunes(program, Start, cpu'.at)
                /\ cpu'.extra.inputs = Cardinality(InputsFrom(program, cpu'.at))
                /\ \E h : Path(program, h, Start, d.extra, cpu'.at) /\ h[cpu'.at] = cpu'.extra
    <3>1. Writes(program, Start, Start) = {} /\ Prunes(program, Start, Start) = {}
      BY <2>6, ArgsNone DEF Writes, Prunes
    <3>2. d.extra.inputs = Cardinality(InputsFrom(program, Start))
      BY <1>4, <2>4, <2>5, <2>12 DEF Fresh, Start
    <3>3. \E h : Path(program, h, Start, d.extra, Start) /\ h[Start] = d.extra
      BY <2>6, PathStarts
    <3> QED
      BY <2>7, <3>1, <3>2, <3>3
  <2>13. Interpreting'
    BY <1>1, <1>3, <2>1, <2>3, <2>4, <2>11, <2>12 DEF Interpreting
  <2>14. Proving' /\ Over'
    BY <1>1, <2>1, <2>7, <2>8 DEF Proving, ByProver, Over
  <2> QED
    BY <1>6, <2>9, <2>10, <2>13, <2>14 DEF SegInv
<1> QED
  BY <1>7, <1>8

\* The prover does not fail where the interpreter went on.
LEMMA ProverDoesNotFail ==
    ASSUME SegInv, ByProver, cpu.phase = "program", ~Stops(cpu)
    PROVE  ~Fails(cpu)
<1> DEFINE s == data.before
           f == data.after
<1>1. /\ EndsAt(program, log, s, f) /\ NoEnd(program, log, s, f) /\ Phase(program, log, cpu, s) /\ cpu.at <= f
      /\ f \in 1 .. Len(program) /\ s \in 1 .. f
  BY DEF SegInv, Proving
<1>2. PICK h : Path(program, h, s, data.extra, f) /\ h[f] = partial.extra /\ h[cpu.at] = cpu.extra
  BY DEF SegInv, Proving
<1>3. SegTypes /\ cpu \in Runs /\ Len(program) \in Nat
  BY UnderWay DEF SegInv, ByProver
<1>4. s \in Nat /\ cpu.at \in s .. f
  BY <1>1, <1>3 DEF Phase
<1>5. ~EndsAt(program, log, s, cpu.at)
  BY <1>1, <1>3, <1>4, StopsAtEnd DEF Phase
<1>6. cpu.at \in s .. f - 1
  BY <1>1, <1>4, <1>5
<1>7. ~FailsWith(program[cpu.at], h[cpu.at])
  BY <1>2, <1>6 DEF Path
<1> QED
  BY <1>2, <1>7, FailsThere

\* An error leaves the iterator before a segment that is doomed.
LEMMA FailureKeeps ==
    ASSUME SegInv, TransitionFails
    PROVE  SegInv'
<1>1. /\ cpu # None /\ cpu.phase = "program" /\ ~Stops(cpu) /\ Fails(cpu) /\ cpu' = None /\ data' = None
      /\ calls' = calls + 1 /\ UNCHANGED <<program, log, partial, segments>>
      /\ outcome' \in {"error", "running"}
  BY DEF TransitionFails
<1>2. cpu.who = "interpreter"
  <2>1. cpu \in Runs
    BY <1>1, UnderWay
  <2> QED
    BY <1>1, <2>1, RunFields, ProverDoesNotFail DEF ByProver
<1>3. /\ program \in Programs /\ Len(program) \in Nat /\ cpu \in Runs /\ data \in Datas /\ SegTypes
      /\ data.before \in 1 .. Len(program) /\ Phase(program, log, cpu, data.before)
      /\ data.before = Start /\ Behind
  BY <1>1, <1>2, UnderWay DEF SegInv
<1>4. interp' = [memory |-> cpu.memory, extra |-> cpu.extra, stale |-> cpu.stale]
  BY <1>2 DEF TransitionFails
<1>5. interp' \in [memory : SUBSET Nat, extra : Extras, stale : SUBSET Nat]
  BY <1>3, <1>4, RunFields
<1>6. calls \in Nat /\ calls' \in Nat /\ calls' > 0
  BY <1>1, <1>3 DEF SegTypes
<1>7. SegTypes'
  BY <1>1, <1>3, <1>5, <1>6 DEF SegTypes
<1>8. SegmentsFit' /\ SegmentsJoin'
  BY <1>1 DEF SegInv, SegmentsFit, SegmentsJoin
<1>9. Start' = Start
  BY <1>1 DEF Start
<1>10. Behind'
  BY <1>1, <1>3, <1>9 DEF Behind
<1>11. Doomed(program, log, Start)
  <2>1. CASE calls > 0
    BY <1>2, <2>1 DEF SegInv, Settled, ByProver
  <2>2. CASE calls = 0
    <3> DEFINE a == cpu.at
    <3>1. a \in Start .. Len(program) /\ a \in 1 .. Len(program) /\ Start \in Nat /\ a \in Nat /\ Start <= a
      BY <1>3 DEF Phase
    <3>2. FailsWith(program[a], cpu.extra)
      BY <1>1, FailsThere
    <3>3. ~(program[a].op = "input" /\ cpu.extra.inputs = 0)
      <4>1. cpu.extra.inputs = Cardinality(InputsFrom(program, a))
        BY <1>1, <1>2, <2>2 DEF SegInv, Interpreting
      <4> QED
        BY <1>3, <3>1, <4>1, InputsCounted
    <3>4. program[a].op = "fail"
      BY <3>2, <3>3 DEF FailsWith
    <3>5. ~EndsAt(program, log, Start, a)
      BY <1>1, <1>3, <3>1, StopsAtEnd DEF Phase
    <3>6. NoEnd(program, log, Start, a + 1)
      BY <1>3, <3>1, <3>5, OnePointMore DEF Phase
    <3> QED
      BY <3>1, <3>4, <3>6 DEF Doomed
  <2> QED
    BY <1>6, <2>1, <2>2
<1>12. Settled'
  BY <1>1, <1>6, <1>9, <1>10, <1>11 DEF Settled
<1>13. Interpreting' /\ Proving' /\ Over'
  BY <1>1, <1>6 DEF Interpreting, Proving, ByProver, Over
<1> QED
  BY <1>7, <1>8, <1>12, <1>13 DEF SegInv

\* A run that is doomed does not get to its end.
LEMMA DoomedDoesNotEnd ==
    ASSUME NEW prog, NEW l, NEW s \in Nat, NEW p \in Nat, s <= p, Len(prog) \in Nat,
           Doomed(prog, l, s), NoFail(prog, s, p)
    PROVE  ~EndsAt(prog, l, s, p)
<1>1. PICK f \in s .. Len(prog) : prog[f].op = "fail" /\ NoEnd(prog, l, s, f + 1)
  BY DEF Doomed
<1>2. p <= f
  <2> SUFFICES ASSUME f < p PROVE FALSE
    BY <1>1
  <2>1. f \in s .. p - 1
    OBVIOUS
  <2> QED
    BY <1>1, <2>1 DEF NoFail
<1>3. p \in s .. (f + 1) - 1
  BY <1>2
<1> QED
  BY <1>1, <1>3 DEF NoEnd

\* The interpreter hands the segment to the prover.
LEMMA NextReturnsKeeps ==
    ASSUME SegInv, NextReturns
    PROVE  SegInv'
<1> DEFINE s == data.before
           f == cpu.at
           m == get_active_memory(cpu)
<1>1. /\ cpu # None /\ cpu.phase = "exit" /\ cpu.who = "interpreter"
      /\ interp' = [memory |-> m, extra |-> cpu.extra, stale |-> cpu.stale]
      /\ partial' = build_segment_data(data.index + 1, cpu.final, cpu.final, m, cpu.extra)
      /\ data' = [data EXCEPT !.after = cpu.final]
      /\ cpu' = StartRun("prover", data.before, data.memory, data.extra)
      /\ UNCHANGED <<program, log, segments, outcome, calls>>
  BY DEF NextReturns, Halted
<1>2. /\ program \in Programs /\ Len(program) \in Nat /\ cpu \in Runs /\ data \in Datas /\ SegTypes
      /\ s \in 1 .. Len(program) /\ Phase(program, log, cpu, s) /\ outcome = "running"
      /\ s = Start /\ Behind
  BY <1>1, UnderWay DEF SegInv
<1>3. /\ f \in 1 .. Len(program) /\ s \in 1 .. f /\ s \in Nat /\ f \in Nat /\ cpu.final = f /\ EndsAt(program, log, s, f)
      /\ NoEnd(program, log, s, f) /\ NoFail(program, s, f)
  BY <1>1, <1>2 DEF Phase
<1>4. calls = 0
  <2>1. calls \in Nat /\ (calls > 0 => Doomed(program, log, s))
    BY <1>1, <1>2 DEF SegInv, SegTypes, Settled, ByProver
  <2> QED
    BY <1>2, <1>3, <2>1, DoomedDoesNotEnd
<1>5. /\ cpu.memory = data.memory \cup Writes(program, s, f)
      /\ cpu.stale = interp.stale \cup Prunes(program, s, f)
      /\ cpu.extra.inputs = Cardinality(InputsFrom(program, f))
      /\ data.index = Len(segments) /\ (partial # None => data = partial)
  BY <1>1, <1>2, <1>4 DEF SegInv, Interpreting
<1>6. PICK h : Path(program, h, s, data.extra, f) /\ h[f] = cpu.extra
  BY <1>1, <1>2, <1>4 DEF SegInv, Interpreting
<1>7. Fresh(s)
  BY <1>1, <1>2, <1>4 DEF SegInv, Settled, ByProver
<1>8. interp.stale = Prunes(program, 1, s) /\ data.memory \cap interp.stale = {}
  <2>1. CASE partial = None
    <3>1. s = 1
      BY <1>2, <2>1 DEF Start
    <3> QED
      BY <1>7, <3>1, ArgsNone DEF Fresh, Prunes
  <2>2. CASE partial # None
    BY <1>5, <1>7, <2>2 DEF Fresh
  <2> QED
    BY <2>1, <2>2
<1>9. m = (data.memory \cup Writes(program, s, f)) \ Prunes(program, s, f)
  <2>1. Prunes(program, 1, s) \cap Writes(program, s, f) = {}
    BY <1>2, <1>3, PrunedNotWritten
  <2> QED
    BY <1>5, <1>8, <2>1 DEF get_active_memory
<1>10. cpu.stale = Prunes(program, 1, f)
  BY <1>3, <1>5, <1>8, ArgsJoin DEF Prunes
<1>11. m \cap cpu.stale = {} /\ m \in SUBSET Nat
  BY <1>2, RunFields DEF get_active_memory
<1>12. NoFail(program, 1, f)
  <2>1. NoFail(program, 1, s)
    BY <1>2 DEF Behind
  <2>2. \A q \in 1 .. f - 1 : q \in 1 .. s - 1 \/ q \in s .. f - 1
    BY <1>3
  <2> QED
    BY <1>3, <2>1, <2>2 DEF NoFail
<1>13. Onward(segments, data)
  <2>1. CASE partial = None
    <3>1. segments = <<>> /\ s = 1
      BY <1>2, <2>1 DEF Behind, After, Start
    <3> QED
      BY <1>5, <3>1 DEF Onward
  <2>2. CASE partial # None
    BY <1>2, <1>5, <2>2 DEF Behind, After, Onward
  <2> QED
    BY <2>1, <2>2
<1> HIDE DEF m
<1>14. cpu.extra \in Extras /\ cpu.stale \in SUBSET Nat /\ data.memory \in SUBSET Nat /\ data.extra \in Extras /\ data.index \in Nat
  BY <1>2, RunFields, DataFields
<1>15. /\ partial' \in Datas /\ partial'.index = data.index + 1 /\ partial'.before = f /\ partial'.after = f
       /\ partial'.memory = m /\ partial'.extra = cpu.extra
  BY <1>1, <1>3, <1>11, <1>14 DEF build_segment_data, Datas
<1>16. /\ data' \in Datas /\ data'.index = data.index /\ data'.before = s /\ data'.after = f
       /\ data'.memory = data.memory /\ data'.extra = data.extra
  BY <1>1, <1>2, <1>3 DEF Datas
<1>17. /\ cpu' \in Runs /\ cpu'.who = "prover" /\ cpu'.at = s /\ cpu'.memory = data.memory
       /\ cpu'.extra = data.extra /\ cpu'.stale = {} /\ cpu'.phase = "init" /\ cpu'.clock = 0
  BY <1>1, <1>3, <1>14 DEF StartRun, Runs
<1>18. cpu' # None /\ data' # None /\ partial' # None
  BY <1>15, <1>16, <1>17, NoneIsApart
<1>19. /\ interp' \in [memory : SUBSET Nat, extra : Extras, stale : SUBSET Nat] /\ interp'.stale = cpu.stale
  BY <1>1, <1>11, <1>14
<1>20. SegTypes'
  BY <1>1, <1>2, <1>15, <1>16, <1>17, <1>18, <1>19 DEF SegTypes
<1>21. SegmentsFit' /\ SegmentsJoin'
  BY <1>1 DEF SegInv, SegmentsFit, SegmentsJoin
<1>22. Settled' /\ Interpreting' /\ Over'
  BY <1>1, <1>2, <1>17, <1>18 DEF Settled, ByProver, Interpreting, Over
<1>23. Proving'
  <2>1. Onward(segments', data')
    BY <1>1, <1>13, <1>16 DEF Onward
  <2>2. Phase(program, log, cpu', s)
    BY <1>2, <1>17, PhaseStarts
  <2>3. /\ Writes(program, s, s) = {} /\ Prunes(program, s, s) = {}
    BY <1>3, ArgsNone DEF Writes, Prunes
  <2>4. h[s] = data.extra
    BY <1>6 DEF Path
  <2>5. /\ interp'.stale = Prunes(program', 1, f)
        /\ partial'.memory \cap interp'.stale = {}
        /\ partial'.extra.inputs = Cardinality(InputsFrom(program', f))
    BY <1>1, <1>5, <1>10, <1>11, <1>15, <1>19
  <2>6. Fresh(data.after)'
    BY <1>16, <1>18, <2>5 DEF Fresh
  <2>7. /\ cpu'.memory = data'.memory \cup Writes(program, s, cpu'.at)
        /\ cpu'.stale = Prunes(program, s, cpu'.at)
        /\ Path(program, h, s, data'.extra, f) /\ h[f] = partial'.extra /\ h[cpu'.at] = cpu'.extra
    BY <1>6, <1>15, <1>16, <1>17, <2>3, <2>4
  <2>8. partial'.memory = (data'.memory \cup Writes(program, s, f)) \ Prunes(program, s, f)
    BY <1>9, <1>15, <1>16
  <2>9. cpu'.at <= f
    BY <1>3, <1>17
  <2> HIDE DEF s, f
  <2> QED
    BY <1>1, <1>2, <1>3, <1>4, <1>12, <1>15, <1>16, <1>18, <2>1, <2>2, <2>6, <2>7, <2>8, <2>9 DEF Proving
<1> QED
  BY <1>20, <1>21, <1>22, <1>23 DEF SegInv

\* A segment ends in time for the cycles of the exit routine.
LEMMA EndsInTime ==
    ASSUME SegTypes, log # 0, NEW s \in Nat, NEW f \in Nat, s <= f, NoEnd(program, log, s, f)
    PROVE  /\ Power(log) \in Nat
           /\ NUM_EXTRA_CYCLES_BEFORE + (f - s) <= Power(log) - NUM_EXTRA_CYCLES_AFTER
<1>1. log \in MaxCpuLenLogs \ {0} /\ log \in 0 .. MaxLog
  BY SegAssumption DEF SegTypes
<1>2. Power(log) \in Nat /\ Power(log) > NUM_EXTRA_CYCLES_BEFORE + NUM_EXTRA_CYCLES_AFTER
  BY <1>1, SegAssumption DEF Powers
<1> DEFINE q == s + (Power(log) - NUM_EXTRA_CYCLES_AFTER - NUM_EXTRA_CYCLES_BEFORE)
<1> SUFFICES ASSUME NUM_EXTRA_CYCLES_BEFORE + (f - s) > Power(log) - NUM_EXTRA_CYCLES_AFTER
             PROVE  FALSE
  BY <1>2, CyclesTyped
<1>3. q \in s .. f - 1
  BY <1>2, CyclesTyped
<1>4. NUM_EXTRA_CYCLES_BEFORE + (q - s) = Power(log) - NUM_EXTRA_CYCLES_AFTER
  BY <1>2, CyclesTyped
<1> HIDE DEF q
<1>5. EndsAt(program, log, s, q)
  BY <1>4 DEF EndsAt, cycle_limit
<1> QED
  BY <1>3, <1>5 DEF NoEnd

\* The segment is proved and joins the last.
LEMMA TracesKeep ==
    ASSUME SegInv, generate_traces
    PROVE  SegInv'
<1> DEFINE s == data.before
           f == data.after
           n == Len(segments)
           new == [index |-> data.index, before |-> data.before, after |-> data.after, rows |-> Padded(cpu.clock),
                   memBefore |-> data.memory, memAfter |-> cpu.memory \ cpu.stale, extra |-> cpu.extra]
<1>1. /\ cpu # None /\ cpu.phase = "exit" /\ cpu.exit >= NUM_EXTRA_CYCLES_AFTER - 1 /\ cpu.who = "prover"
      /\ data' = None /\ cpu' = None /\ UNCHANGED <<program, log, interp, partial, calls>>
  BY DEF generate_traces, Halted
<1>2. /\ program \in Programs /\ Len(program) \in Nat /\ cpu \in Runs /\ data \in Datas /\ SegTypes
  BY <1>1, UnderWay DEF SegInv
<1>3. /\ outcome = "running" /\ calls = 0 /\ Onward(segments, data)
      /\ partial # None /\ partial.index = data.index + 1
      /\ partial.before = f /\ partial.after = f /\ f \in 1 .. Len(program) /\ s \in 1 .. f
      /\ EndsAt(program, log, s, f) /\ NoEnd(program, log, s, f) /\ NoFail(program, 1, f)
      /\ Fresh(f)
      /\ partial.memory = (data.memory \cup Writes(program, s, f)) \ Prunes(program, s, f)
      /\ Phase(program, log, cpu, s) /\ cpu.at <= f
      /\ cpu.memory = data.memory \cup Writes(program, s, cpu.at)
      /\ cpu.stale = Prunes(program, s, cpu.at)
  BY <1>1 DEF SegInv, Proving, ByProver
<1>4. PICK h : h[f] = partial.extra /\ h[cpu.at] = cpu.extra
  BY <1>1 DEF SegInv, Proving, ByProver
<1>5. cpu.at = f /\ cpu.final = f /\ s \in Nat /\ f \in Nat /\ s <= f
  <2>1. cpu.at \in s .. f /\ cpu.final = cpu.at /\ EndsAt(program, log, s, cpu.at) /\ s \in Nat /\ f \in Nat /\ s <= f
    BY <1>1, <1>2, <1>3 DEF Phase
  <2> QED
    BY <1>3, <2>1, EndIsUnique
<1>6. segments' = Append(segments, new) /\ outcome' = outcome
  BY <1>5 DEF generate_traces
<1>7. /\ cpu.clock \in Nat /\ cpu.exit \in Nat /\ cpu.memory \in SUBSET Nat /\ cpu.extra \in Extras
      /\ data.index \in Nat /\ data.memory \in SUBSET Nat
  BY <1>2, RunFields, DataFields
<1>8. new \in Proved
  BY <1>5, <1>7 DEF Proved
<1>9. /\ new.index = data.index /\ new.before = s /\ new.after = f /\ new.rows = Padded(cpu.clock)
      /\ new.memBefore = data.memory /\ new.memAfter = partial.memory /\ new.extra = partial.extra
  BY <1>3, <1>4, <1>5
<1> HIDE DEF new
<1>10. segments \in Seq(Proved) /\ n \in Nat /\ DOMAIN segments = 1 .. n
  BY <1>2 DEF SegTypes
<1>11. /\ segments' \in Seq(Proved) /\ Len(segments') = n + 1 /\ segments' # <<>>
       /\ \A i \in 1 .. n : segments'[i] = segments[i]
       /\ segments'[n + 1] = new /\ DOMAIN segments' = 1 .. n + 1
  BY <1>6, <1>8, <1>10
<1>12. SegTypes'
  BY <1>1, <1>2, <1>3, <1>6, <1>11 DEF SegTypes
<1>13. SegmentsFit'
  <2>1. ASSUME log # 0 PROVE new.rows <= Power(log)
    <3>1. cpu.clock = NUM_EXTRA_CYCLES_BEFORE + (f - s) + cpu.exit /\ cpu.exit <= NUM_EXTRA_CYCLES_AFTER - 1
      BY <1>1, <1>3, <1>5, <1>7, CyclesTyped DEF Phase
    <3>2. /\ Power(log) \in Nat
          /\ NUM_EXTRA_CYCLES_BEFORE + (f - s) <= Power(log) - NUM_EXTRA_CYCLES_AFTER
      BY <1>2, <1>3, <1>5, <2>1, EndsInTime
    <3>3. cpu.clock < Power(log)
      BY <1>5, <1>7, <3>1, <3>2, CyclesTyped
    <3>4. log \in 0 .. MaxLog
      BY <1>2, SegAssumption DEF SegTypes
    <3> QED
      BY <1>7, <1>9, <3>3, <3>4, PaddedFits
  <2>2. \A i \in 1 .. n : log # 0 => segments[i].rows <= Power(log)
    BY <1>10 DEF SegInv, SegmentsFit
  <2>3. \A i \in 1 .. n + 1 : i \in 1 .. n \/ i = n + 1
    BY <1>10
  <2> QED
    BY <1>1, <1>11, <2>1, <2>2, <2>3 DEF SegmentsFit
<1>14. SegmentsJoin'
  <2>1. new.index = n
    BY <1>3, <1>9 DEF Onward
  <2>2. n = 0 => new.before = 1
    BY <1>3, <1>9, <1>10 DEF Onward
  <2>3. n > 0 => new.before = segments[n].after /\ new.memBefore = segments[n].memAfter
    BY <1>3, <1>9, <1>10 DEF Onward
  <2> SUFFICES ASSUME NEW i \in 1 .. n + 1
               PROVE  /\ segments'[i].index = i - 1
                      /\ i = 1 => segments'[i].before = 1
                      /\ i > 1 => /\ segments'[i].before = segments'[i - 1].after
                                  /\ segments'[i].memBefore = segments'[i - 1].memAfter
    BY <1>11 DEF SegmentsJoin
  <2>4. CASE i = n + 1
    <3>1. i > 1 => i - 1 \in 1 .. n /\ i - 1 = n
      BY <1>10, <2>4
    <3> QED
      BY <1>10, <1>11, <2>1, <2>2, <2>3, <2>4, <3>1
  <2>5. CASE i \in 1 .. n
    <3>1. i > 1 => i - 1 \in 1 .. n
      BY <1>10, <2>5
    <3>2. /\ segments[i].index = i - 1
          /\ i = 1 => segments[i].before = 1
          /\ i > 1 => /\ segments[i].before = segments[i - 1].after
                      /\ segments[i].memBefore = segments[i - 1].memAfter
      BY <1>10, <2>5 DEF SegInv, SegmentsJoin
    <3> QED
      BY <1>11, <2>5, <3>1, <3>2
  <2> QED
    BY <1>10, <2>4, <2>5
<1>15. Start' = f
  BY <1>1, <1>3 DEF Start
<1>16. Behind'
  <2>1. After(segments', partial')
    BY <1>1, <1>3, <1>9, <1>11 DEF After, Onward
  <2> QED
    BY <1>1, <1>3, <1>15, <2>1 DEF Behind
<1>17. Fresh(Start)'
  BY <1>1, <1>3, <1>15 DEF Fresh
<1>18. Settled'
  BY <1>1, <1>3, <1>16, <1>17 DEF Settled
<1>19. Interpreting' /\ Proving' /\ Over'
  BY <1>1, <1>3, <1>6 DEF Interpreting, Proving, ByProver, Over
<1> QED
  BY <1>12, <1>13, <1>14, <1>18, <1>19 DEF SegInv

\* Every step keeps the invariant.
LEMMA StepsKeep == SegInv /\ [SegmentsNext]_segmentVars => SegInv'
<1> SUFFICES ASSUME SegInv, [SegmentsNext]_segmentVars PROVE SegInv'
  OBVIOUS
<1>1. CASE UNCHANGED segmentVars
  <2>1. UNCHANGED <<program, log, interp, partial, data, cpu, segments, outcome, calls>>
    BY <1>1 DEF segmentVars
  <2>2. SegTypes' /\ SegmentsFit' /\ SegmentsJoin' /\ Over'
    BY <2>1 DEF SegInv, SegTypes, SegmentsFit, SegmentsJoin, Over, Consumed
  <2>3. Start' = Start /\ ByProver' = ByProver
    BY <2>1 DEF Start, ByProver
  <2>4. Settled'
    BY <2>1, <2>3 DEF SegInv, Settled, Behind, Fresh
  <2>5. Interpreting'
    BY <2>1, <2>3 DEF SegInv, Interpreting
  <2>6. Proving'
    BY <2>1, <2>3 DEF SegInv, Proving, Fresh
  <2> QED
    BY <2>2, <2>4, <2>5, <2>6 DEF SegInv
<1>2. CASE RunStep
  BY <1>2, InnerKeeps, GenerateKeeps, FailureKeeps, NextReturnsKeeps, TracesKeep DEF RunStep, Inner
<1>3. CASE Finished
  BY <1>1, <1>3 DEF Finished
<1> QED
  BY <1>1, <1>2, <1>3 DEF SegmentsNext

\* The segments fit, join up and replay what the interpreter ran, and a program is
\* proved to its end or given up because it fails, for every program that is executed,
\* every cycle bound and any number of retries (SegmentDataIterator, run_cpu,
\* generate_traces).
THEOREM SegmentsAreSafe ==
    SegmentsSpec => []SegmentsSafe
<1>1. SegInv => SegmentsSafe
  <2> SUFFICES ASSUME SegInv PROVE SegmentsSafe
    OBVIOUS
  <2>1. SegTypes /\ program \in Programs /\ Len(program) \in Nat /\ DOMAIN program = 1 .. Len(program)
    BY ProgramFacts DEF SegInv, SegTypes
  <2>2. cpu = None => Behind
    BY DEF SegInv, Settled, ByProver
  <2>3. ReplayAgrees
    BY <2>1, <2>2 DEF ReplayAgrees, Behind, After, SegTypes
  <2>4. ASSUME outcome = "done", HaltIsKernels
        PROVE  /\ After(segments, partial) /\ partial.after = Len(program)
               /\ NoFail(program, 1, partial.after)
    <3>1. cpu = None /\ partial # None /\ Consumed(partial)
      BY <2>4 DEF SegInv, Over
    <3>2. After(segments, partial) /\ partial.after \in 1 .. Len(program) /\ NoFail(program, 1, partial.after)
      BY <2>2, <3>1 DEF Behind, Start
    <3>3. program[partial.after].kernel /\ program[partial.after].pc = HaltPc
      BY <2>1, <2>4, <3>1, <3>2 DEF HaltIsKernels, Points, Consumed
    <3> QED
      BY <2>1, <3>2, <3>3, ProgramFacts
  <2>5. WholeProgram
    <3> SUFFICES ASSUME outcome = "done", HaltIsKernels
                 PROVE  segments # <<>> /\ AtHalt(segments[Len(segments)].after)
      BY DEF WholeProgram
    <3>1. segments # <<>> /\ segments[Len(segments)].after = Len(program)
      BY <2>4 DEF After
    <3>2. Len(program) \in 1 .. Len(program)
      BY <2>1, ProgramFacts
    <3> QED
      BY <2>1, <3>1, <3>2, ProgramFacts DEF AtHalt
  <2>6. outcome = "error" => CanFail
    <3> SUFFICES ASSUME outcome = "error" PROVE CanFail
      OBVIOUS
    <3>1. calls > 0
      BY DEF SegInv, Over
    <3>2. ~ByProver
      BY DEF SegInv, Proving
    <3>3. Doomed(program, log, Start) /\ Start \in 1 .. Len(program)
      BY <3>1, <3>2 DEF SegInv, Settled, Behind
    <3> QED
      BY <2>1, <3>3 DEF Doomed, CanFail, Points
  <2>7. outcome = "done" /\ HaltIsKernels => ~CanFail
    <3> SUFFICES ASSUME outcome = "done", HaltIsKernels, NEW p \in Points, program[p].op = "fail" PROVE FALSE
      BY DEF CanFail
    <3>1. NoFail(program, 1, Len(program)) /\ program[Len(program)].op # "fail"
      BY <2>1, <2>4, ProgramFacts
    <3>2. p \in 1 .. Len(program) - 1 \/ p = Len(program)
      BY <2>1 DEF Points
    <3> QED
      BY <3>1, <3>2 DEF NoFail
  <2> QED
    BY <2>3, <2>5, <2>6, <2>7 DEF SegInv, SegmentsSafe, ErrorIffItFails
<1> QED
  BY <1>1, InitHolds, StepsKeep, PTL DEF SegmentsSpec
=============================================================================
