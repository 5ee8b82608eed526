-------------------------- MODULE RecursiveCircuits --------------------------
(***************************************************************************)
(* The circuits that turn the STARK proofs of one segment into its root       *)
(* proof: for every table and every trace size a chain of wrappers that    *)
(* ends at THRESHOLD_DEGREE_BITS, and the root circuit, which picks the    *)
(* verifying key of each table by an index and ties the tables together    *)
(* by their transcript.  The prover state is written to disk and read      *)
(* back, with or without its table circuits; a segment is proved by the    *)
(* state in use, or from STARK proofs and circuits a caller supplies.         *)
(*                                                                         *)
(* Polynomials and hashes are abstract.  A trace is the segment it came    *)
(* from, a commitment is <<table, segment, size>>, a challenger is the     *)
(* sequence of what it observed, a challenge is the state it was drawn     *)
(* from, and a circuit is the chain of circuits it was built to verify.    *)
(***************************************************************************)
EXTENDS Integers, Sequences, FiniteSets

CONSTANTS NumTables,    \* the tables are 1..NumTables, in the order of Table::all()
          MemBefore, MemAfter,  \* two of them
          RangeStart, RangeEnd, \* the sizes with preprocessed circuits: RangeStart..RangeEnd - 1
          MaxBits,      \* bound: trace sizes are RangeStart..MaxBits
          Segs,         \* segments
          THRESHOLD_DEGREE_BITS

ASSUME RCAssumption == /\ NumTables \in Nat \ {0} /\ {MemBefore, MemAfter} \subseteq 1..NumTables
                /\ RangeStart < RangeEnd /\ RangeEnd <= MaxBits + 1
                /\ THRESHOLD_DEGREE_BITS \in Nat

Tables == 1..NumTables
DegreeRange == RangeStart..(RangeEnd - 1)

(******************************* the circuits ******************************)

\* The size of a circuit that verifies a STARK of the given size, before the
\* padding to the threshold; one that verifies a PLONK proof fits the threshold.
StarkVerifierBits(d) == THRESHOLD_DEGREE_BITS - 1 + (d - RangeStart)
PlonkVerifierBits(b) == THRESHOLD_DEGREE_BITS

\* A circuit's common data, prover data and verifier data: what it verifies.
Circuit(bits, id) == [common |-> bits, prover |-> id, verifier |-> id, bits |-> bits]
AtLeast(a, b) == IF a < b THEN b ELSE a
recursive_stark_circuit(t, d) == Circuit(AtLeast(StarkVerifierBits(d), THRESHOLD_DEGREE_BITS), <<"stark", t, d>>)

\* The shrinking loop: wrap until the last circuit has the threshold size.
RecursiveCircuitsForTableSize(t, d) ==
  LET first == recursive_stark_circuit(t, d)
      RECURSIVE Shrinking(_, _)
      Shrinking(last, ws) == IF last.common = THRESHOLD_DEGREE_BITS THEN ws
                             ELSE LET next == Circuit(PlonkVerifierBits(last.common), <<"plonk", last.verifier>>)
                                  IN  Shrinking(next, Append(ws, next))
  IN  [initial_wrapper |-> first, shrinking_wrappers |-> Shrinking(first, <<>>)]

LastOf(chain) == IF chain.shrinking_wrappers = <<>> THEN chain.initial_wrapper
                 ELSE chain.shrinking_wrappers[Len(chain.shrinking_wrappers)]

\* A BTreeMap from size to chain, iterated in the order of its keys.
RecursiveCircuitsForTable(t) == [d \in DegreeRange |-> RecursiveCircuitsForTableSize(t, d)]
Below(m, d) == {k \in DOMAIN m : k < d}
Key(m, i) == CHOOSE d \in DOMAIN m : Cardinality(Below(m, d)) = i
position(m, d) == Cardinality(Below(m, d))
final_circuits(m) == [i \in 1..Cardinality(DOMAIN m) |-> LastOf(m[Key(m, i - 1)])]

\* The verifying keys of a table in the root circuit, padded to a power of two
\* with the first.
RECURSIVE PowerOfTwo(_)
PowerOfTwo(n) == n = 1 \/ (n > 1 /\ n % 2 = 0 /\ PowerOfTwo(n \div 2))
RECURSIVE Pad(_)
Pad(s) == IF PowerOfTwo(Len(s)) THEN s ELSE Pad(Append(s, s[1]))
possible_vks(m) == Pad([i \in DOMAIN final_circuits(m) |-> final_circuits(m)[i].verifier])

(**************************** saving and loading ***************************)

\* What the upper circuits write, in order: the type of an item and its field.
Items(s, fields) == [i \in DOMAIN fields |-> <<fields[i][1], <<s>> \o fields[i][2]>>]
ChildFields(side) == << <<"bool", <<side, "is_agg">>>>, <<"proof", <<side, "agg_proof">>>>, <<"proof", <<side, "base_proof">>>> >>
DummyChildFields(side) == << <<"bool", <<side, "is_agg">>>>, <<"bool", <<side, "is_dummy">>>>,
                             <<"proof", <<side, "agg_proof">>>>, <<"proof", <<side, "real_proof">>>> >>
ReadChildFields(side) == << <<"bool", <<side, "is_agg">>>>, <<"proof", <<side, "agg_proof">>>>, <<"proof", <<side, "base_proof">>>> >>
ReadDummyChildFields(side) == << <<"bool", <<side, "is_agg">>>>, <<"bool", <<side, "is_dummy">>>>,
                                 <<"proof", <<side, "agg_proof">>>>, <<"proof", <<side, "real_proof">>>> >>

RootItems == Items("root", << <<"circuit", <<"circuit">>>> >>)
             \o [t \in Tables |-> <<"proof", <<"root", "proof_with_pis", t>>>>]
             \o [t \in Tables |-> <<"target", <<"root", "index_verifier_data", t>>>>]
             \o Items("root", << <<"public_values", <<"public_values">>>>, <<"vk", <<"cyclic_vk">>>> >>)
ReadRootItems == Items("root", << <<"circuit", <<"circuit">>>> >>)
             \o [t \in Tables |-> <<"proof", <<"root", "proof_with_pis", t>>>>]
             \o [t \in Tables |-> <<"target", <<"root", "index_verifier_data", t>>>>]
             \o Items("root", << <<"public_values", <<"public_values">>>>, <<"vk", <<"cyclic_vk">>>> >>)

AggregationHead == << <<"circuit", <<"circuit">>>>, <<"vk", <<"cyclic_vk">>>>, <<"public_values", <<"public_values">>>> >>
SegmentAggregationItems == Items("segment_aggregation", AggregationHead \o ChildFields("lhs") \o DummyChildFields("rhs"))
ReadSegmentAggregationItems == Items("segment_aggregation", AggregationHead \o ReadChildFields("lhs") \o ReadDummyChildFields("rhs"))
TxnAggregationItems == Items("txn_aggregation", AggregationHead \o ChildFields("lhs") \o ChildFields("rhs"))
ReadTxnAggregationItems == Items("txn_aggregation", AggregationHead \o ReadChildFields("lhs") \o ReadChildFields("rhs"))

BlockItems == Items("block", << <<"circuit", <<"circuit">>>>, <<"bool", <<"has_parent_block">>>>, <<"proof", <<"parent_block_proof">>>>,
                <<"proof", <<"agg_root_proof">>>>, <<"public_values", <<"public_values">>>>, <<"vk", <<"cyclic_vk">>>> >>)
ReadBlockItems == Items("block", << <<"circuit", <<"circuit">>>>, <<"bool", <<"has_parent_block">>>>, <<"proof", <<"parent_block_proof">>>>,
                <<"proof", <<"agg_root_proof">>>>, <<"public_values", <<"public_values">>>>, <<"vk", <<"cyclic_vk">>>> >>)
TwoToOneItems == Items("two_to_one_block", << <<"circuit", <<"circuit">>>> >> \o ChildFields("lhs") \o ChildFields("rhs") \o << <<"vk", <<"cyclic_vk">>>> >>)
ReadTwoToOneItems == Items("two_to_one_block", << <<"circuit", <<"circuit">>>> >> \o ReadChildFields("lhs") \o ReadChildFields("rhs") \o << <<"vk", <<"cyclic_vk">>>> >>)

Upper == RootItems \o SegmentAggregationItems \o TxnAggregationItems \o BlockItems \o TwoToOneItems
ReadUpper == ReadRootItems \o ReadSegmentAggregationItems \o ReadTxnAggregationItems \o ReadBlockItems \o ReadTwoToOneItems

StarkWrapper_to_buffer(c) == << <<"circuit", c>>, <<"targets", "init_challenger_state">>, <<"target", "zero">>,
                                <<"stark_proof", "stark_proof">>, <<"ctl", "ctl_challenges">> >>
\* One item sequence for all wrappers of a chain: they share the first's common data.
TableSize_to_buffer(chain) ==
  LET ws == chain.shrinking_wrappers
      RECURSIVE From(_)
      From(i) == IF i > Len(ws) THEN <<>>
                 ELSE << <<"prover_only", ws[i].prover>>, <<"verifier_only", ws[i].verifier>>, <<"proof", ws[i].bits>> >> \o From(i + 1)
  IN  << <<"usize", Len(ws)>> >> \o (IF ws = <<>> THEN <<>> ELSE << <<"common", ws[1].common>> >>)
      \o From(1) \o StarkWrapper_to_buffer(chain.initial_wrapper)
RECURSIVE SizesFrom(_, _)
SizesFrom(m, i) == IF i = Cardinality(DOMAIN m) THEN <<>>
                   ELSE << <<"usize", Key(m, i)>> >> \o TableSize_to_buffer(m[Key(m, i)]) \o SizesFrom(m, i + 1)
Table_to_buffer(m) == << <<"usize", Cardinality(DOMAIN m)>> >> \o SizesFrom(m, 0)
RECURSIVE TablesFrom(_, _)
TablesFrom(by_table, t) == IF t > NumTables THEN <<>> ELSE Table_to_buffer(by_table[t]) \o TablesFrom(by_table, t + 1)
to_bytes(state, skip_tables) == [i \in DOMAIN Upper |-> <<Upper[i][1], state.upper[Upper[i][2]]>>]
                                \o (IF skip_tables THEN <<>> ELSE TablesFrom(state.by_table, 1))

\* Reading: the items at a position have the types asked for.
Typed(buf, at, types) == at + Len(types) - 1 <= Len(buf) /\ \A i \in DOMAIN types : buf[at + i - 1][1] = types[i]
WrapperTypes == <<"circuit", "targets", "target", "stark_proof", "ctl">>
TableSize_from_buffer(buf, at) ==
  IF ~Typed(buf, at, <<"usize">>) THEN [ok |-> FALSE]
  ELSE LET n == buf[at][2]
           w == at + (IF n = 0 THEN 1 ELSE 2)
           i == w + 3 * n
       IN  IF \/ n > 0 /\ ~Typed(buf, at + 1, <<"common">>)
              \/ \E k \in 1..n : ~Typed(buf, w + 3 * (k - 1), <<"prover_only", "verifier_only", "proof">>)
              \/ ~Typed(buf, i, WrapperTypes)
           THEN [ok |-> FALSE]
           ELSE [ok |-> TRUE, next |-> i + Len(WrapperTypes),
                 val |-> [initial_wrapper |-> buf[i][2],
                          shrinking_wrappers |-> [k \in 1..n |->
                            [common |-> buf[at + 1][2], prover |-> buf[w + 3 * (k - 1)][2],
                             verifier |-> buf[w + 3 * (k - 1) + 1][2], bits |-> buf[w + 3 * (k - 1) + 2][2]]]]]
RECURSIVE ReadSizes(_, _, _, _)
ReadSizes(buf, at, left, m) ==
  IF left = 0 THEN [ok |-> TRUE, next |-> at, val |-> m]
  ELSE IF ~Typed(buf, at, <<"usize">>) THEN [ok |-> FALSE]
  ELSE LET key == buf[at][2]
           r == TableSize_from_buffer(buf, at + 1)
       IN  IF ~r.ok THEN r
           ELSE ReadSizes(buf, r.next, left - 1, [d \in DOMAIN m \cup {key} |-> IF d = key THEN r.val ELSE m[d]])
Table_from_buffer(buf, at) == IF Typed(buf, at, <<"usize">>) THEN ReadSizes(buf, at + 1, buf[at][2], <<>>) ELSE [ok |-> FALSE]
RECURSIVE ReadTables(_, _, _)
ReadTables(buf, at, read) ==
  IF Len(read) = NumTables THEN [ok |-> TRUE, val |-> read]
  ELSE LET r == Table_from_buffer(buf, at) IN IF r.ok THEN ReadTables(buf, r.next, Append(read, r.val)) ELSE r
from_bytes(buf, skip_tables) ==
  IF ~Typed(buf, 1, [i \in DOMAIN ReadUpper |-> ReadUpper[i][1]]) THEN [ok |-> FALSE]
  ELSE LET upper == [f \in {ReadUpper[i][2] : i \in DOMAIN ReadUpper} |->
                       buf[CHOOSE i \in DOMAIN ReadUpper : ReadUpper[i][2] = f][2]]
           tables == IF skip_tables THEN [ok |-> TRUE, val |-> [t \in Tables |-> <<>>]]
                     ELSE ReadTables(buf, Len(ReadUpper) + 1, <<>>)
       IN  IF tables.ok THEN [ok |-> TRUE, val |-> [upper |-> upper, by_table |-> tables.val, vks |-> buf[1][2]]] ELSE tables

\* Preprocessing: the root circuit is built from the table circuits and holds
\* their verifying keys.
by_table_new == [t \in Tables |-> RecursiveCircuitsForTable(t)]
AllRecursiveCircuits_new ==
  [by_table |-> by_table_new, vks |-> [t \in Tables |-> possible_vks(by_table_new[t])],
   upper |-> [f \in {Upper[i][2] : i \in DOMAIN Upper} |-> IF f = <<"root", "circuit">>
                THEN [t \in Tables |-> possible_vks(by_table_new[t])] ELSE f]]

VARIABLES bytes,    \* the saved prover state, <<>> before it is saved
          prover,   \* the prover state in use
          whole,    \* whether it has its table circuits
          job,      \* the proof under way
          abort,    \* the abort signal
          allProofs,   \* the AllProofs made, one per segment
          root      \* the last root proof: what it was made from, what the verifiers say
circuitVars == <<bytes, prover, whole, job, abort, allProofs, root>>

NoJob == [pc |-> "idle"]
NoRoot == [pc |-> "none"]

(***************************** the STARK proofs ****************************)

Cap(t, s, d) == <<t, s, d>>
compact(transcript) == Append(transcript, <<"compact">>)
\* What a verifier and the prover observe before the CTL challenges: the public
\* values without the memory caps, which are not known before the proofs.
Observed(caps, pv) == caps \o << <<"public values", pv>> >>
After(init, t, s) == Append(init, <<"openings", t, s>>)

\* generate_traces: the traces of a segment have any size.
Generate(s) ==
  /\ job = NoJob /\ s \notin {p.pv.seg : p \in allProofs} /\ root = NoRoot
  /\ \E d \in [Tables -> RangeStart..MaxBits] :
        job' = [pc |-> "traces", seg |-> s, size |-> d, t |-> 1, transcript |-> <<>>, stark |-> <<>>]
  /\ abort' = FALSE
  /\ UNCHANGED <<bytes, prover, whole, allProofs, root>>

Failed == [pc |-> "error"]
\* check_abort_signal at the head of a step.
Unless(next) == job' = IF abort THEN Failed ELSE next

\* Commit to every trace, observe the caps and the public values, draw the CTL challenges.
prove_with_traces ==
  /\ job.pc = "traces"
  /\ LET transcript == Observed([t \in Tables |-> Cap(t, job.seg, job.size[t])], job.seg)
     IN  Unless([job EXCEPT !.pc = "tables", !.transcript = transcript, !.stark = [ctl |-> transcript, proofs |-> <<>>]])
  /\ UNCHANGED <<bytes, prover, whole, abort, allProofs, root>>

\* Mutant: the state kept with a proof is the one before the challenger was compacted.
prove_single_table_uncompacted(j) ==
  LET init == compact(j.transcript)
  IN  [j EXCEPT !.t = j.t + 1, !.transcript = After(init, j.t, j.seg),
                !.stark.proofs = Append(j.stark.proofs, [table |-> j.t, seg |-> j.seg, size |-> j.size[j.t],
                                                         init |-> j.transcript, bound |-> <<init, j.stark.ctl>>])]
prove_single_table(j) ==
  LET init == compact(j.transcript)
  IN  [j EXCEPT !.t = j.t + 1, !.transcript = After(init, j.t, j.seg),
                !.stark.proofs = Append(j.stark.proofs, [table |-> j.t, seg |-> j.seg, size |-> j.size[j.t],
                                                         init |-> init, bound |-> <<init, j.stark.ctl>>])]
prove_with_commitments ==
  /\ job.pc = "tables" /\ job.t <= NumTables
  /\ Unless(prove_single_table(job))
  /\ UNCHANGED <<bytes, prover, whole, abort, allProofs, root>>

\* All tables are proved: the memory caps go into the public values.
AllProof(j) == [pv |-> [seg |-> j.seg, mem_before |-> Cap(MemBefore, j.seg, j.size[MemBefore]),
                        mem_after |-> Cap(MemAfter, j.seg, j.size[MemAfter])],
                ctl |-> j.stark.ctl, stark |-> j.stark.proofs]
MakeAllProof ==
  /\ job.pc = "tables" /\ job.t > NumTables
  /\ allProofs' = allProofs \cup {AllProof(job)}
  /\ job' = [pc |-> "shrink", t |-> 1, all |-> AllProof(job), inputs |-> <<>>]
  /\ UNCHANGED <<bytes, prover, whole, abort, root>>

(******************************* the wrappers ******************************)

\* A circuit proves what it was built for, with the data it was loaded with.
Usable(c, what) == c.prover = what /\ c.common = c.bits
\* recursive_stark_circuit's public inputs, in the order PublicInputs::from_vec reads.
InitialProve(w, p, ctl) ==
  IF Usable(w, <<"stark", p.table, p.size>>) /\ p.bound = <<p.init, ctl>>
  THEN [ok |-> TRUE, vk |-> w.verifier,
        pis |-> [cap |-> Cap(p.table, p.seg, p.size), ctl |-> ctl, before |-> p.init,
                 after |-> compact(After(p.init, p.table, p.seg)), zs |-> p.seg]]
  ELSE [ok |-> FALSE]
WrapperProve(w, p) == IF p.ok /\ Usable(w, <<"plonk", p.vk>>) THEN [p EXCEPT !.vk = w.verifier] ELSE [ok |-> FALSE]
shrink(chain, p, ctl) ==
  LET ws == chain.shrinking_wrappers
      RECURSIVE Through(_, _)
      Through(i, q) == IF i > Len(ws) THEN q ELSE Through(i + 1, WrapperProve(ws[i], q))
  IN  Through(1, InitialProve(chain.initial_wrapper, p, ctl))

\* What the root circuit is satisfied by.
VkAt(vks, i) == IF i + 1 \in DOMAIN vks THEN vks[i + 1] ELSE <<>>
create_segment_circuit(vks, in, pv) ==
  LET pis == [t \in Tables |-> in[t].proof.pis]
      transcript == Observed([t \in Tables |-> pis[t].cap], pv.seg)
  IN  /\ \A t \in Tables : pis[t].ctl = transcript
      /\ pis[1].before = compact(transcript)
      /\ \A t \in Tables \ {1} : pis[t].before = pis[t - 1].after
      /\ \A t \in Tables : pis[t].zs = pv.seg                     \* the cross-table lookups
      /\ \A t \in Tables : in[t].proof.vk = VkAt(vks[t], in[t].index)
      /\ pv.mem_before = pis[MemBefore].cap /\ pv.mem_after = pis[MemAfter].cap

\* The native verifier's transcript up to the CTL challenges.
get_challenges(all) == Observed([t \in Tables |-> Cap(t, all.stark[t].seg, all.stark[t].size)], all.pv.seg)
\* Each table's proof under its challenges, and the lookups between the tables.  The
\* first segment's commitment to the initial memory, a constant, is not compared here:
\* the circuits' check of it is Aggregation's check_init_merkle_cap.
verify_proof(all) ==
  LET ctl == get_challenges(all)
      RECURSIVE Before(_)
      Before(t) == IF t = 1 THEN compact(ctl) ELSE compact(After(Before(t - 1), t - 1, all.stark[t - 1].seg))
  IN  /\ \A t \in Tables : all.stark[t].table = t /\ all.stark[t].bound = <<Before(t), ctl>>
      /\ \A t \in Tables : all.stark[t].seg = all.pv.seg

\* One table of prove_segment: a missing size is an error, the index is the
\* position of the size among the map's keys, and the abort signal is checked.
ShrinkTable ==
  /\ job.pc = "shrink" /\ job.t <= NumTables
  /\ LET p == job.all.stark[job.t]
         m == prover.by_table[job.t]
         s == IF p.size \in DOMAIN m THEN shrink(m[p.size], p, job.all.ctl) ELSE [ok |-> FALSE]
     IN  IF s.ok
         THEN Unless([job EXCEPT !.t = job.t + 1, !.inputs = Append(job.inputs, [index |-> position(m, p.size), proof |-> s])])
         ELSE job' = Failed
  /\ UNCHANGED <<bytes, prover, whole, abort, allProofs, root>>

Root(how, all, ok) == [pc |-> "done", how |-> how, all |-> all, ok |-> ok]
prove_segment_root ==
  /\ job.pc = "shrink" /\ job.t > NumTables
  /\ root' = Root("segment", job.all, create_segment_circuit(prover.vks, job.inputs, job.all.pv))
  /\ job' = NoJob
  /\ UNCHANGED <<bytes, prover, whole, abort, allProofs>>

\* An AllProof put together by a caller from the proofs at hand, with the chain
\* and the index of each size in the range the state was built from.
IndexInRange(d) == d - RangeStart
Mixed == {[pv |-> p.pv, ctl |-> q.ctl, stark |-> st] :
            p \in allProofs, q \in allProofs, st \in {f \in [Tables -> UNION {{r.stark[t] : t \in Tables} : r \in allProofs}] :
                                                   \A t \in Tables : f[t].table = t}}
prove_segment_after_initial_stark ==
  /\ job = NoJob /\ root = NoRoot /\ allProofs # {}
  /\ \E all \in Mixed :
       LET in == [t \in Tables |-> IF all.stark[t].size \in DegreeRange
                    THEN [index |-> IndexInRange(all.stark[t].size),
                          proof |-> shrink(by_table_new[t][all.stark[t].size], all.stark[t], all.ctl)]
                    ELSE [index |-> 0, proof |-> [ok |-> FALSE]]]
       IN  root' = Root("after", all, (\A t \in Tables : in[t].proof.ok) /\ create_segment_circuit(prover.vks, in, all.pv))
  /\ UNCHANGED <<bytes, prover, whole, job, abort, allProofs>>

Reset == /\ job = Failed /\ job' = NoJob /\ UNCHANGED <<bytes, prover, whole, abort, allProofs, root>>
Next_root == /\ root # NoRoot /\ root' = NoRoot /\ UNCHANGED <<bytes, prover, whole, job, abort, allProofs>>
\* Another worker's failure raises the signal at any time.
Abort == /\ job.pc \in {"traces", "tables", "shrink"} /\ ~abort /\ abort' = TRUE
         /\ UNCHANGED <<bytes, prover, whole, job, allProofs, root>>

Save(skip_tables) == /\ bytes = <<>> /\ job = NoJob /\ allProofs = {}
                     /\ bytes' = to_bytes(prover, skip_tables)
                     /\ UNCHANGED <<prover, whole, job, abort, allProofs, root>>
Load(skip_tables) == /\ bytes # <<>> /\ job = NoJob /\ allProofs = {} /\ whole
                     /\ LET r == from_bytes(bytes, skip_tables)
                        IN  IF r.ok THEN prover' = r.val /\ whole' = ~skip_tables
                            ELSE UNCHANGED <<prover, whole>>
                     /\ UNCHANGED <<bytes, job, abort, allProofs, root>>

CircuitsInit == /\ bytes = <<>> /\ prover = AllRecursiveCircuits_new /\ whole = TRUE
        /\ job = NoJob /\ abort = FALSE /\ allProofs = {} /\ root = NoRoot
CircuitsNext == \/ \E skip \in BOOLEAN : Save(skip) \/ Load(skip)
        \/ \E s \in Segs : Generate(s)
        \/ prove_with_traces \/ prove_with_commitments \/ MakeAllProof \/ ShrinkTable \/ prove_segment_root
        \/ prove_segment_after_initial_stark \/ Abort \/ Reset \/ Next_root
CircuitsSpec == CircuitsInit /\ [][CircuitsNext]_circuitVars

(******************************** properties *******************************)

\* A prover state read back from disk is the one that was preprocessed
\* (to_bytes, from_bytes), table circuits excepted when they were skipped.
LoadedIsBuilt ==
  /\ prover.upper = AllRecursiveCircuits_new.upper /\ prover.vks = AllRecursiveCircuits_new.vks
  /\ whole => prover.by_table = AllRecursiveCircuits_new.by_table

\* The proofs of one segment make a root proof, whatever the sizes of its
\* traces in the preprocessed range, with a fresh or a loaded state: every
\* index selects the key of the chain that was used.
HonestRootHolds ==
  root.pc = "done" /\ root.all \in allProofs /\ (\A t \in Tables : root.all.stark[t].size \in DegreeRange) => root.ok

\* A root proof exists only for the STARK proofs of one run, and the native
\* verifier accepts them too: the circuit and verify_proof draw the same
\* challenges from the same transcript.
RootAgreesWithVerifier ==
  root.pc = "done" /\ root.ok => root.all \in allProofs /\ verify_proof(root.all)

\* A segment whose traces fit is given up only for the abort signal or for
\* want of table circuits (prove_segment's errors).
FailsForAReason ==
  job' = Failed /\ job # Failed =>
    abort \/ ~whole \/ (job.pc = "shrink" /\ job.all.stark[job.t].size \notin DegreeRange)
=============================================================================
