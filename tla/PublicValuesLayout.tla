-------------------------- MODULE PublicValuesLayout --------------------------
(***************************************************************************)
(* The public values of a proof as field elements.                         *)
(*                                                                         *)
(* The same layout is written down many times: where the circuit registers *)
(* its public inputs, where they are read back (as targets and as values), *)
(* in the circuits written to disk, in the two versions of the transcript, *)
(* in the memory that a segment starts with, and in the inputs made up for *)
(* the parent of a first block.  A behaviour follows one element.          *)
(*                                                                         *)
(* A word is a limb of a field of a group; limb 0 is the least significant *)
(* one.  A table of fields gives names and numbers of limbs, in order.     *)
(***************************************************************************)
EXTENDS Integers, Sequences, SequencesExt

VARIABLES
    ix,    \* the index of the element followed, from 0
    at,    \* where it is looked at
    seen   \* the word found there

layoutVars == <<ix, at, seen>>

-----------------------------------------------------------------------------
(* Registered by a circuit. *)

DEFAULT_CAP_HEIGHT == 4
DEFAULT_CAP_LEN == 2 ^ DEFAULT_CAP_HEIGHT
NUM_HASH_OUT_ELTS == 4
TARGET_HASH_SIZE == 8

Words(group, fields) ==
    FlattenSeq([k \in 1 .. Len(fields) |-> [j \in 1 .. fields[k][2] |-> <<group, fields[k][1], j - 1>>]])

add_virtual_trie_roots == <<<<"state_root", 8>>, <<"transactions_root", 8>>, <<"receipts_root", 8>>>>

add_virtual_block_metadata ==
    <<<<"beneficiary", 5>>, <<"timestamp", 1>>, <<"number", 1>>, <<"difficulty", 1>>, <<"random", 8>>,
      <<"gaslimit", 1>>, <<"chain_id", 1>>, <<"base_fee", 2>>, <<"gas_used", 1>>, <<"blob_gas_used", 2>>,
      <<"excess_blob_gas", 2>>, <<"parent_beacon_root", 8>>, <<"bloom", 64>>>>

add_virtual_block_hashes == <<<<"prev_hashes", 2048>>, <<"cur_hash", 8>>>>

add_virtual_extra_block_data ==
    <<<<"checkpoint", 8>>, <<"txn_before", 1>>, <<"txn_after", 1>>, <<"gas_before", 1>>, <<"gas_after", 1>>>>

add_virtual_registers_data ==
    <<<<"program_counter", 1>>, <<"is_kernel", 1>>, <<"stack_len", 1>>, <<"stack_top", 8>>, <<"context", 1>>, <<"gas_used", 1>>>>

MemCaps == <<<<"mem_cap", DEFAULT_CAP_LEN * NUM_HASH_OUT_ELTS>>>>

add_virtual_public_values ==
    Words("roots_before", add_virtual_trie_roots) \o Words("roots_after", add_virtual_trie_roots)
    \o Words("metadata", add_virtual_block_metadata) \o Words("hashes", add_virtual_block_hashes)
    \o Words("extra", add_virtual_extra_block_data)
    \o Words("registers_before", add_virtual_registers_data) \o Words("registers_after", add_virtual_registers_data)
    \o Words("mem_before", MemCaps) \o Words("mem_after", MemCaps)

-----------------------------------------------------------------------------
(* Read back: each field from one index up to another in its group. *)

TrieRootsTarget_SIZE == TARGET_HASH_SIZE * 3
BlockMetadataTarget_SIZE == 97
BlockHashesTarget_SIZE == 2056
ExtraBlockDataTarget_SIZE == 12
RegistersDataTarget_SIZE == 13
MemCapTarget_SIZE == DEFAULT_CAP_LEN * NUM_HASH_OUT_ELTS

PublicValuesTarget_SIZE ==
    TrieRootsTarget_SIZE * 2 + BlockMetadataTarget_SIZE + BlockHashesTarget_SIZE + ExtraBlockDataTarget_SIZE
    + DEFAULT_CAP_HEIGHT * NUM_HASH_OUT_ELTS * 2

TrieRootsTarget == {<<"state_root", 0, 8>>, <<"transactions_root", 8, 16>>, <<"receipts_root", 16, 24>>}
TrieRoots == {<<"state_root", 0, 8>>, <<"transactions_root", 8, 16>>, <<"receipts_root", 16, 24>>}

BlockMetadataTarget ==
    {<<"beneficiary", 0, 5>>, <<"timestamp", 5, 6>>, <<"number", 6, 7>>, <<"difficulty", 7, 8>>, <<"random", 8, 16>>,
     <<"gaslimit", 16, 17>>, <<"chain_id", 17, 18>>, <<"base_fee", 18, 20>>, <<"gas_used", 20, 21>>, <<"blob_gas_used", 21, 23>>,
     <<"excess_blob_gas", 23, 25>>, <<"parent_beacon_root", 25, 33>>, <<"bloom", 33, 97>>}

BlockMetadata ==
    {<<"beneficiary", 0, 5>>, <<"timestamp", 5, 6>>, <<"number", 6, 7>>, <<"difficulty", 7, 8>>, <<"random", 8, 16>>,
     <<"gaslimit", 16, 17>>, <<"chain_id", 17, 18>>, <<"base_fee", 18, 20>>, <<"gas_used", 20, 21>>, <<"blob_gas_used", 21, 23>>,
     <<"excess_blob_gas", 23, 25>>, <<"parent_beacon_root", 25, 33>>, <<"bloom", 33, 33 + 8 * 8>>}

BlockHashesTarget == {<<"prev_hashes", 0, 2048>>, <<"cur_hash", 2048, 2056>>}
BlockHashes == {<<"prev_hashes", 0, TARGET_HASH_SIZE * 256>>, <<"cur_hash", 2048, 2056>>}

ExtraBlockDataTarget ==
    {<<"checkpoint", 0, 8>>, <<"txn_before", 8, 9>>, <<"txn_after", 9, 10>>, <<"gas_before", 10, 11>>, <<"gas_after", 11, 12>>}
ExtraBlockData ==
    {<<"checkpoint", 0, 8>>, <<"txn_before", 8, 9>>, <<"txn_after", 9, 10>>, <<"gas_before", 10, 11>>, <<"gas_after", 11, 12>>}

RegistersDataTarget ==
    {<<"program_counter", 0, 1>>, <<"is_kernel", 1, 2>>, <<"stack_len", 2, 3>>, <<"stack_top", 3, 11>>, <<"context", 11, 12>>, <<"gas_used", 12, 13>>}
RegistersData ==
    {<<"program_counter", 0, 1>>, <<"is_kernel", 1, 2>>, <<"stack_len", 2, 3>>, <<"stack_top", 3, 11>>, <<"context", 11, 12>>, <<"gas_used", 12, 13>>}

MemCapTarget == {<<"mem_cap", 0, MemCapTarget_SIZE>>}
\* Counted from the end of the slice it is given.
MemCap == {<<"mem_cap", MemCapTarget_SIZE - 4 * DEFAULT_CAP_LEN, MemCapTarget_SIZE>>}

\* A field at its place in the public inputs: <<group, field, first index, end>>.
Placed(group, offset, fields) == {<<group, f[1], offset + f[2], offset + f[3]>> : f \in fields}

\* Where the groups start: each after the one before.
AfterRoots == 2 * TrieRootsTarget_SIZE
AfterMetadata == AfterRoots + BlockMetadataTarget_SIZE
AfterHashes == AfterMetadata + BlockHashesTarget_SIZE
AfterExtra == AfterHashes + ExtraBlockDataTarget_SIZE
AfterRegisters == AfterExtra + 2 * RegistersDataTarget_SIZE

PublicValuesTarget_from_public_inputs ==
    Placed("roots_before", 0, TrieRootsTarget) \cup Placed("roots_after", TrieRootsTarget_SIZE, TrieRootsTarget)
    \cup Placed("metadata", AfterRoots, BlockMetadataTarget) \cup Placed("hashes", AfterMetadata, BlockHashesTarget)
    \cup Placed("extra", AfterHashes, ExtraBlockDataTarget)
    \cup Placed("registers_before", AfterExtra, RegistersDataTarget)
    \cup Placed("registers_after", AfterExtra + RegistersDataTarget_SIZE, RegistersDataTarget)
    \cup Placed("mem_before", AfterRegisters, MemCapTarget) \cup Placed("mem_after", AfterRegisters + MemCapTarget_SIZE, MemCapTarget)

\* What is left of them in the proof of a block.
FinalPublicValues_from_public_inputs ==
    Placed("roots_before", 0, TrieRoots) \cup Placed("roots_after", TrieRootsTarget_SIZE, TrieRoots)
    \cup Placed("metadata", AfterRoots, BlockMetadata) \cup Placed("hashes", AfterMetadata, BlockHashes)
    \cup Placed("extra", AfterHashes, ExtraBlockData)

PublicValues_from_public_inputs ==
    Placed("roots_before", 0, TrieRoots) \cup Placed("roots_after", TrieRootsTarget_SIZE, TrieRoots)
    \cup Placed("metadata", AfterRoots, BlockMetadata) \cup Placed("hashes", AfterMetadata, BlockHashes)
    \cup Placed("extra", AfterHashes, ExtraBlockData)
    \cup Placed("registers_before", AfterExtra, RegistersData)
    \cup Placed("registers_after", AfterExtra + RegistersDataTarget_SIZE, RegistersData)
    \cup Placed("mem_before", AfterRegisters, MemCap) \cup Placed("mem_after", AfterRegisters + MemCapTarget_SIZE, MemCap)

\* The words read at index i: one, unless the fields overlap or leave a gap.
ReadAt(places, i) == {<<f[1], f[2], i - f[3]>> : f \in {f \in places : f[3] <= i /\ i < f[4]}}

-----------------------------------------------------------------------------
(* Values and limbs.  A hash is bytes, the most significant first: eight      *)
(* words of four bytes from 0.  A number is its limbs, the least significant  *)
(* first.  Each operator gives the place in the value of limb k of a field.   *)

h256_limbs(k) == 7 - k
get_h256(k) == 7 - k

\* One limb, or an error: the fields of one limb fit in 32 bits.
u256_to_u32(k) == k

\* A root is taken as four words of 64 bits, and each is cut in two.
SetTrieRoots(f, k) == 7 - (2 * (k \div 2) + (k % 2))

SetMetadata(f, k) ==
    CASE f = "beneficiary" -> 4 - k
      [] f \in {"random", "parent_beacon_root"} -> h256_limbs(k)
      [] f \in {"base_fee", "blob_gas_used", "excess_blob_gas", "bloom"} -> k
      [] OTHER -> u256_to_u32(k)
SetHashes(f, k) == 8 * (k \div 8) + h256_limbs(k % 8)
SetExtra(f, k) == IF f = "checkpoint" THEN h256_limbs(k) ELSE u256_to_u32(k)
SetRegisters(f, k) == IF f = "stack_top" THEN k ELSE u256_to_u32(k)
SetMemCap(f, k) == k

\* The operation of the group's type.
ByGroup(group, roots, metadata, hashes, extra, registers, cap) ==
    CASE group \in {"roots_before", "roots_after"} -> roots
      [] group = "metadata" -> metadata
      [] group = "hashes" -> hashes
      [] group = "extra" -> extra
      [] group \in {"registers_before", "registers_after"} -> registers
      [] OTHER -> cap

\* The place in its value that word w was set from.
set_public_value_targets(w) ==
    LET f == w[2]
        k == w[3]
    IN  ByGroup(w[1], SetTrieRoots(f, k), SetMetadata(f, k), SetHashes(f, k), SetExtra(f, k), SetRegisters(f, k), SetMemCap(f, k))

\* The place in a value where word w goes when it is read.
GetValue(w) ==
    LET f == w[2]
        k == w[3]
    IN  CASE f = "beneficiary" -> 4 - k
          [] f = "bloom" -> 8 * (k \div 8) + 7 - get_h256(k % 8)
          [] f \in {"base_fee", "blob_gas_used", "excess_blob_gas", "stack_top", "mem_cap"} -> k
          [] f \in {"prev_hashes", "cur_hash", "random", "parent_beacon_root", "state_root", "transactions_root", "receipts_root", "checkpoint"} ->
                8 * (k \div 8) + get_h256(k % 8)
          [] OTHER -> 0

-----------------------------------------------------------------------------
(* Written to disk with the circuits, and read from there. *)

to_buffer ==
    LET roots == <<"state_root", "transactions_root", "receipts_root">>
        registers == <<"program_counter", "is_kernel", "stack_len", "stack_top", "context", "gas_used">>
        In(g, names) == [k \in 1 .. Len(names) |-> <<g, names[k]>>]
    IN  In("roots_before", roots) \o In("roots_after", roots)
        \o In("metadata", <<"beneficiary", "timestamp", "number", "difficulty", "random", "gaslimit", "chain_id", "base_fee",
                            "gas_used", "blob_gas_used", "excess_blob_gas", "parent_beacon_root", "bloom">>)
        \o In("hashes", <<"prev_hashes", "cur_hash">>)
        \o In("extra", <<"checkpoint", "txn_before", "txn_after", "gas_before", "gas_after">>)
        \o In("registers_before", registers) \o In("registers_after", registers)
        \o In("mem_before", <<"mem_cap">>) \o In("mem_after", <<"mem_cap">>)

from_buffer ==
    LET roots == <<"state_root", "transactions_root", "receipts_root">>
        registers == <<"program_counter", "is_kernel", "stack_len", "stack_top", "context", "gas_used">>
        In(g, names) == [k \in 1 .. Len(names) |-> <<g, names[k]>>]
    IN  In("roots_before", roots) \o In("roots_after", roots)
        \o In("metadata", <<"beneficiary", "timestamp", "number", "difficulty", "random", "gaslimit", "chain_id", "base_fee",
                            "gas_used", "blob_gas_used", "excess_blob_gas", "parent_beacon_root", "bloom">>)
        \o In("hashes", <<"prev_hashes", "cur_hash">>)
        \o In("extra", <<"checkpoint", "txn_before", "txn_after", "gas_before", "gas_after">>)
        \o In("registers_before", registers) \o In("registers_after", registers)
        \o In("mem_before", <<"mem_cap">>) \o In("mem_after", <<"mem_cap">>)

-----------------------------------------------------------------------------
(* The transcript, as the prover and as the circuit of a segment observe it. *)

observe_trie_roots(g) == Words(g, <<<<"state_root", 8>>, <<"transactions_root", 8>>, <<"receipts_root", 8>>>>)
observe_trie_roots_target(g) == Words(g, add_virtual_trie_roots)

observe_block_metadata ==
    Words("metadata", <<<<"beneficiary", 5>>, <<"timestamp", 1>>, <<"number", 1>>, <<"difficulty", 1>>, <<"random", 8>>,
        <<"gaslimit", 1>>, <<"chain_id", 1>>, <<"base_fee", 2>>, <<"gas_used", 1>>, <<"blob_gas_used", 2>>,
        <<"excess_blob_gas", 2>>, <<"parent_beacon_root", 8>>, <<"bloom", 8 * 8>>>>)
observe_block_metadata_target == Words("metadata", add_virtual_block_metadata)

observe_block_hashes == Words("hashes", <<<<"prev_hashes", 256 * 8>>, <<"cur_hash", 8>>>>)
observe_block_hashes_target == Words("hashes", add_virtual_block_hashes)

observe_extra_block_data ==
    Words("extra", <<<<"checkpoint", 8>>, <<"txn_before", 1>>, <<"txn_after", 1>>, <<"gas_before", 1>>, <<"gas_after", 1>>>>)
observe_extra_block_data_target == Words("extra", add_virtual_extra_block_data)

observe_public_values ==
    observe_trie_roots("roots_before") \o observe_trie_roots("roots_after") \o observe_block_metadata
    \o observe_block_hashes \o observe_extra_block_data
observe_public_values_target ==
    observe_trie_roots_target("roots_before") \o observe_trie_roots_target("roots_after") \o observe_block_metadata_target
    \o observe_block_hashes_target \o observe_extra_block_data_target

-----------------------------------------------------------------------------
(* The memory a segment starts with: <<segment, place in it, group, field>>. *)

\* The n-th word of memory is made of the n-th eight limbs of a field.
Chunks(segment, n, group, field) == {<<segment, k, group, field>> : k \in 0 .. n - 1}
RegisterCells(g, from, names) == {<<"RegistersStates", from + k - 1, g, names[k]>> : k \in 1 .. Len(names)}
MetadataCells(g, names) == {<<"GlobalMetadata", <<g, f>>, g, f>> : f \in names}

Registers == <<"program_counter", "is_kernel", "stack_len", "stack_top", "context", "gas_used">>

\* Written by the prover before a segment runs.
apply_metadata_and_tries_memops ==
    MetadataCells("metadata", {"beneficiary", "timestamp", "number", "difficulty", "random", "gaslimit", "chain_id", "base_fee",
                               "gas_used", "blob_gas_used", "excess_blob_gas", "parent_beacon_root"})
    \cup MetadataCells("hashes", {"cur_hash"})
    \cup MetadataCells("extra", {"gas_before", "gas_after", "txn_before", "txn_after"})
    \cup MetadataCells("roots_before", {"state_root", "transactions_root", "receipts_root"})
    \cup MetadataCells("roots_after", {"state_root", "transactions_root", "receipts_root"})
    \cup MetadataCells("kernel", {"hash", "len"})
    \cup Chunks("GlobalBlockBloom", 8, "metadata", "bloom") \cup Chunks("BlockHashes", 256, "hashes", "prev_hashes")
    \cup RegisterCells("registers_before", 0, Registers) \cup RegisterCells("registers_after", 6, Registers)

\* Added by the verifier, and by the circuit, to what the tables say of memory.
get_memory_extra_looking_sum ==
    MetadataCells("metadata", {"beneficiary", "timestamp", "number", "random", "difficulty", "gaslimit", "chain_id", "base_fee",
                               "parent_beacon_root", "gas_used", "blob_gas_used", "excess_blob_gas"})
    \cup MetadataCells("hashes", {"cur_hash"})
    \cup MetadataCells("extra", {"txn_before", "txn_after", "gas_before", "gas_after"})
    \cup MetadataCells("roots_before", {"state_root", "transactions_root", "receipts_root"})
    \cup MetadataCells("roots_after", {"state_root", "transactions_root", "receipts_root"})
    \cup MetadataCells("kernel", {"hash", "len"})
    \cup Chunks("GlobalBlockBloom", 8, "metadata", "bloom") \cup Chunks("BlockHashes", 256, "hashes", "prev_hashes")
    \cup RegisterCells("registers_before", 0, Registers) \cup RegisterCells("registers_after", 6, Registers)

get_memory_extra_looking_sum_circuit ==
    LET scalars == MetadataCells("metadata", {"timestamp", "number", "difficulty", "gaslimit", "chain_id", "gas_used"})
                   \cup MetadataCells("extra", {"gas_before", "gas_after", "txn_before", "txn_after"})
        arrays == MetadataCells("metadata", {"beneficiary", "random", "base_fee", "blob_gas_used", "excess_blob_gas", "parent_beacon_root"})
                  \cup MetadataCells("hashes", {"cur_hash"})
        tries == MetadataCells("roots_before", {"state_root", "transactions_root", "receipts_root"})
                 \cup MetadataCells("roots_after", {"state_root", "transactions_root", "receipts_root"})
    IN  scalars \cup arrays
        \cup Chunks("BlockHashes", 256, "hashes", "prev_hashes") \cup Chunks("GlobalBlockBloom", 8, "metadata", "bloom")
        \cup tries \cup MetadataCells("kernel", {"hash", "len"})
        \cup RegisterCells("registers_before", 0, Registers) \cup RegisterCells("registers_after", 6, Registers)

-----------------------------------------------------------------------------
(* The inputs made up for the parent of a first block: what each index holds *)
(* of the block's own values.                                                *)

Copied(from, to, group, field, limb) == {<<i, <<group, field, limb + i - from>>>> : i \in from .. to - 1}

\* Mutant: the hash of the parent is put where the oldest hash belongs.
CheckpointInputs_unshifted ==
    Copied(AfterRoots + 6, AfterRoots + 7, "metadata", "number", 0)
    \cup Copied(AfterMetadata, AfterMetadata + 8 * 256, "hashes", "prev_hashes", 0)

CheckpointInputs ==
    Copied(0, 8, "roots_before", "state_root", 0)
    \cup Copied(8, 16, "roots_before", "transactions_root", 0)
    \cup Copied(16, 24, "roots_before", "receipts_root", 0)
    \cup Copied(TrieRootsTarget_SIZE, TrieRootsTarget_SIZE + 8, "roots_before", "state_root", 0)
    \cup Copied(AfterHashes, AfterHashes + 8, "extra", "checkpoint", 0)
    \cup Copied(AfterMetadata + 8, AfterMetadata + 8 * 256, "hashes", "prev_hashes", 0)
    \cup Copied(AfterHashes - 8, AfterHashes, "hashes", "prev_hashes", 8 * 255)
    \cup Copied(AfterRoots + 6, AfterRoots + 7, "metadata", "number", 0)

-----------------------------------------------------------------------------
(* What comparing two groups compares. *)

TrieRootsTarget_connect == {"state_root", "transactions_root", "receipts_root"}
TrieRootsTarget_assert == {"state_root", "transactions_root", "receipts_root"}
TrieRootsTarget_select == {"state_root", "transactions_root", "receipts_root"}

BlockMetadataTarget_connect ==
    {"beneficiary", "timestamp", "number", "difficulty", "random", "gaslimit", "chain_id", "base_fee",
     "gas_used", "blob_gas_used", "excess_blob_gas", "parent_beacon_root", "bloom"}
BlockMetadataTarget_assert ==
    {"beneficiary", "timestamp", "number", "difficulty", "random", "gaslimit", "chain_id", "base_fee", "gas_used", "bloom"}
BlockMetadataTarget_select ==
    {"beneficiary", "timestamp", "number", "difficulty", "random", "gaslimit", "chain_id", "base_fee",
     "gas_used", "blob_gas_used", "excess_blob_gas", "parent_beacon_root", "bloom"}

BlockHashesTarget_connect == {"prev_hashes", "cur_hash"}
BlockHashesTarget_assert == {"prev_hashes", "cur_hash"}
BlockHashesTarget_select == {"prev_hashes", "cur_hash"}

ExtraBlockDataTarget_connect == {"checkpoint", "txn_before", "txn_after", "gas_before", "gas_after"}
ExtraBlockDataTarget_assert == {"checkpoint", "txn_before", "txn_after", "gas_before", "gas_after"}
ExtraBlockDataTarget_select == {"checkpoint", "txn_before", "txn_after", "gas_before", "gas_after"}

RegistersDataTarget_connect == {"program_counter", "is_kernel", "stack_len", "stack_top", "context", "gas_used"}
RegistersDataTarget_assert == {"program_counter", "is_kernel", "stack_len", "stack_top", "context", "gas_used"}
RegistersDataTarget_select == {"program_counter", "is_kernel", "stack_len", "stack_top", "context", "gas_used"}

MemCapTarget_connect == {"mem_cap"}
MemCapTarget_assert == {"mem_cap"}
MemCapTarget_select == {"mem_cap"}

connect(group) ==
    ByGroup(group, TrieRootsTarget_connect, BlockMetadataTarget_connect, BlockHashesTarget_connect,
            ExtraBlockDataTarget_connect, RegistersDataTarget_connect, MemCapTarget_connect)
conditional_assert_eq(group) ==
    ByGroup(group, TrieRootsTarget_assert, BlockMetadataTarget_assert, BlockHashesTarget_assert,
            ExtraBlockDataTarget_assert, RegistersDataTarget_assert, MemCapTarget_assert)
select(group) ==
    ByGroup(group, TrieRootsTarget_select, BlockMetadataTarget_select, BlockHashesTarget_select,
            ExtraBlockDataTarget_select, RegistersDataTarget_select, MemCapTarget_select)

-----------------------------------------------------------------------------
(* One element, from where the circuit registers it to where it is used. *)

Registered == add_virtual_public_values[ix + 1]

LayoutInit ==
    /\ ix \in 0 .. Len(add_virtual_public_values) - 1
    /\ at = "registered"
    /\ seen = {Registered}

ReadTargets == at' = "read" /\ seen' = ReadAt(PublicValuesTarget_from_public_inputs, ix)

\* A word of a value: its group, its field and its place in it.
ValueAt(places, i) == {<<w[1], w[2], GetValue(w)>> : w \in ReadAt(places, i)}

ReadValues == at' = "value" /\ seen' = ValueAt(PublicValues_from_public_inputs, ix)
ReadFinal == ix < AfterExtra /\ at' = "value" /\ seen' = ValueAt(FinalPublicValues_from_public_inputs, ix)

\* The field of the word goes to disk and is read in its turn.
ThroughDisk ==
    LET k == CHOOSE n \in DOMAIN to_buffer : to_buffer[n] = <<Registered[1], Registered[2]>>
    IN  at' = "disk" /\ seen' = {<<from_buffer[k][1], from_buffer[k][2], Registered[3]>>}

\* The two transcripts have the same element at the same place.
Observe ==
    /\ ix < Len(observe_public_values)
    /\ at' = "transcript"
    /\ seen' = {observe_public_values[ix + 1], observe_public_values_target[ix + 1]}

Checkpoint == at' = "checkpoint" /\ seen' = {c[2] : c \in {c \in CheckpointInputs : c[1] = ix}}

\* The cells of memory the word's field is in, for the prover, the verifier and the circuit.
Memory ==
    LET Of(cells) == {c \in cells : c[3] = Registered[1] /\ c[4] = Registered[2]}
    IN  /\ Registered[1] \notin {"mem_before", "mem_after"}
        /\ Registered[3] = 0
        /\ at' = "memory"
        /\ seen' = {Of(apply_metadata_and_tries_memops), Of(get_memory_extra_looking_sum), Of(get_memory_extra_looking_sum_circuit)}

\* The word is changed on one side of a comparison of its group, or of a choice.
Compare ==
    /\ at' = "compared"
    /\ seen' = {<<Registered[1], f>> : f \in connect(Registered[1]) \cap {Registered[2]}}

Select ==
    /\ at' = "compared"
    /\ seen' = {<<Registered[1], f>> : f \in select(Registered[1]) \cap {Registered[2]}}

LayoutNext ==
    /\ at = "registered"
    /\ ReadTargets \/ ReadValues \/ ReadFinal \/ ThroughDisk \/ Observe \/ Checkpoint \/ Memory \/ Compare \/ Select
    /\ UNCHANGED ix

LayoutSpec == LayoutInit /\ [][LayoutNext]_layoutVars

\* The comparison of the right-hand side of an aggregation, which may be a dummy.
CompareIf ==
    /\ at' = "compared"
    /\ seen' = {<<Registered[1], f>> : f \in conditional_assert_eq(Registered[1]) \cap {Registered[2]}}

SpecConditional == LayoutInit /\ [][at = "registered" /\ CompareIf /\ UNCHANGED ix]_layoutVars

-----------------------------------------------------------------------------
(* Properties. *)

\* An element is read back as the word it was registered for, as a target and after
\* a trip to disk; as a value, it is the part of the value that it was set from.
ReadsWhatWasRegistered ==
    /\ at \in {"read", "disk"} => seen = {Registered}
    /\ at = "value" => seen = {<<Registered[1], Registered[2], set_public_value_targets(Registered)>>}

\* Prover and circuit put the same element at the same place of the transcript, in
\* the order in which the public inputs are registered.
TranscriptsAgree == at = "transcript" => seen = {Registered}

\* The cells written before a segment runs are those that verifier and circuit add;
\* every field but the checkpoint is in memory.
MemoryAgrees ==
    at = "memory" =>
        /\ \A x, y \in seen : x = y
        /\ seen = {{}} <=> <<Registered[1], Registered[2]>> = <<"extra", "checkpoint">>

\* The parent made up for a first block has what the block's circuit compares: the
\* state the block starts from, its number less one (which is not a copy), the
\* hashes of the block one place later and, as its own, the latest of them.
CheckpointParent ==
    at = "checkpoint" =>
        LET w == Registered
        IN  seen =
            CASE w[1] = "roots_before" -> {w}
              [] w[1] = "roots_after" /\ w[2] = "state_root" -> {<<"roots_before", w[2], w[3]>>}
              [] w[1] = "metadata" /\ w[2] = "number" -> {w}
              [] w[1] = "hashes" /\ w[2] = "prev_hashes" /\ w[3] >= 8 -> {<<"hashes", "prev_hashes", w[3] - 8>>}
              [] w[1] = "hashes" /\ w[2] = "cur_hash" -> {<<"hashes", "prev_hashes", 8 * 255 + w[3]>>}
              [] w[1] = "extra" /\ w[2] = "checkpoint" -> {w}
              [] OTHER -> {}

\* A comparison of two groups, and a choice between them, depends on every word.
ComparesAll == at = "compared" => seen # {}

\* The public values taken from the proof of a block are all of them.
ExtractTakesAll == ix < PublicValuesTarget_SIZE
=============================================================================
