------------------------------- MODULE MCTries -------------------------------
(***************************************************************************)
(* The tries outside the kernel, for TLC: the mpt_trie crate (the packed   *)
(* nibbles of keys, a trie as a map, the sub-tries), the smt_trie crate,   *)
(* and the trace decoder, which cuts a block into payloads and the state   *)
(* into the part each of them needs.  A behaviour works on one of them:    *)
(* part says which.                                                        *)
(***************************************************************************)
EXTENDS Integers, Sequences, FiniteSets

VARIABLES part,
          key, seq,                                                  \* PackedNibbles
          trie, hash, entries,                                       \* PartialTrie,
          base, touched, subset, full, keys, made,                   \* its sub-tries
          root, kvStore, hashes, started, panic, ops,                \* SparseMerkleTree
          world, block, header, tries, extra, code_db, payloads, phase,  \* BlockDecoder
          start, writes, pending, changed, reported, cut, stage      \* PayloadTrie

nibbleVars == <<key, seq>>
mapVars == <<trie, hash, entries>>
subsetVars == <<base, touched, subset, full, keys, made>>
smtVars == <<root, kvStore, hashes, started, panic, ops>>
decoderVars == <<world, block, header, tries, extra, code_db, payloads, phase>>
payloadVars == <<start, writes, pending, changed, reported, cut, stage>>
allVars == <<part, nibbleVars, mapVars, subsetVars, smtVars, decoderVars, payloadVars>>

\* Keys of up to four nibbles of two bits, in integers of eight nibbles.
Nibbles == INSTANCE PackedNibbles WITH NibbleBits <- 2, MaxCount <- 4, Width <- 8

\* Binary keys of three nibbles, two values of which one makes a leaf large.
Map == INSTANCE PartialTrie WITH
    Arity <- 2, HashLimit <- 4, BigValue <- 2,
    KeyLengths <- {3}, MaxValue <- 2, MaxEntries <- 4, MaxExtend <- 1, MaxKeys <- 0, MaxSubsets <- 0

Subset == INSTANCE PartialTrie WITH
    Arity <- 2, HashLimit <- 4, BigValue <- 2,
    KeyLengths <- {3}, MaxValue <- 2, MaxEntries <- 3, MaxExtend <- 0, MaxKeys <- 2, MaxSubsets <- 1

\* Keys of two limbs of two bits: two that differ in the last bit only, one that
\* shares three bits with them in another order of the limbs, and two others.
Smt == INSTANCE SparseMerkleTree WITH
    Limbs <- 2, LimbBits <- 2, Keys <- {<<1, 0>>, <<1, 2>>, <<3, 1>>, <<2, 3>>, <<3, 3>>},
    HashPlaces <- {<<0>>, <<1, 1>>, <<0, 0>>}, MaxValue <- 2, Nested <- FALSE, MaxOps <- 5

\* Up to three transactions of every kind, one to a payload.
Single == INSTANCE BlockDecoder WITH
    BatchSize <- 1, MaxTxns <- 3, InitX <- {"absent", "contract"}, FreshCoinbase <- FALSE,
    Kinds <- {"transfer", "create", "create_destroy", "call", "call_fail", "create_fail"},
    Recipients <- {"C"}

\* Up to four transactions, two to a payload.
Batch == INSTANCE BlockDecoder WITH
    BatchSize <- 2, MaxTxns <- 4, InitX <- {"absent", "contract"}, FreshCoinbase <- FALSE,
    Kinds <- {"create_destroy", "call"}, Recipients <- {"S"}

\* Ternary keys of two nibbles, and binary keys of three.
Wide == INSTANCE PayloadTrie WITH
    Arity <- 3, HashLimit <- 4, BigValue <- 1, KeyLength <- 2,
    MaxValue <- 2, MaxEntries <- 3, MaxWrites <- 2, trie <- changed, part <- cut
Deep == INSTANCE PayloadTrie WITH
    Arity <- 2, HashLimit <- 4, BigValue <- 1, KeyLength <- 3,
    MaxValue <- 1, MaxEntries <- 3, MaxWrites <- 3, trie <- changed, part <- cut

ASSUME /\ Nibbles!NibblesAssumption
       /\ Map!TrieAssumption /\ Map!NodesAssumption
       /\ Subset!TrieAssumption /\ Subset!NodesAssumption
       /\ Smt!SparseMerkleTreeAssumption
       /\ Single!DecoderAssumption /\ Batch!DecoderAssumption
       /\ Wide!PayloadAssumption /\ Wide!NodesAssumption
       /\ Deep!PayloadAssumption /\ Deep!NodesAssumption

NoNibbles == key = 0 /\ seq = 0
NoMap == trie = 0 /\ hash = 0 /\ entries = 0
NoSubset == base = 0 /\ touched = 0 /\ subset = 0 /\ full = 0 /\ keys = 0 /\ made = 0
NoSmt == root = 0 /\ kvStore = 0 /\ hashes = 0 /\ started = 0 /\ panic = 0 /\ ops = 0
NoDecoder == /\ world = 0 /\ block = 0 /\ header = 0 /\ tries = 0
             /\ extra = 0 /\ code_db = 0 /\ payloads = 0 /\ phase = 0
NoPayload == /\ start = 0 /\ writes = 0 /\ pending = 0 /\ changed = 0
             /\ reported = 0 /\ cut = 0 /\ stage = 0

\* The operations on sub-tries treat the nibbles alike, so of a trie and the one with
\* first nibbles 0 and 1 swapped only one is asked about.
Below(n) == {k \in Subset!Keys : k[1] = n /\ Subset!trie_get(base, k) # Subset!NoValue}
LeansLeft == Cardinality(Below(0)) >= Cardinality(Below(1))

MCInit ==
    \/ /\ part = "nibbles" /\ Nibbles!Init
       /\ NoMap /\ NoSubset /\ NoSmt /\ NoDecoder /\ NoPayload
    \/ /\ part = "map" /\ Map!Init
       /\ NoNibbles /\ NoSubset /\ NoSmt /\ NoDecoder /\ NoPayload
    \/ /\ part = "subset" /\ Subset!SubsetInit /\ LeansLeft
       /\ NoNibbles /\ NoMap /\ NoSmt /\ NoDecoder /\ NoPayload
    \/ /\ part = "smt" /\ Smt!Init
       /\ NoNibbles /\ NoMap /\ NoSubset /\ NoDecoder /\ NoPayload
    \/ /\ \/ part = "single" /\ Single!Init
          \/ part = "batch" /\ Batch!Init
       /\ NoNibbles /\ NoMap /\ NoSubset /\ NoSmt /\ NoPayload
    \/ /\ \/ part = "wide" /\ Wide!Init
          \/ part = "deep" /\ Deep!Init
       /\ NoNibbles /\ NoMap /\ NoSubset /\ NoSmt /\ NoDecoder

MCNext ==
    /\ UNCHANGED part
    /\ \/ /\ part = "nibbles" /\ Nibbles!Next
          /\ UNCHANGED <<mapVars, subsetVars, smtVars, decoderVars, payloadVars>>
       \/ /\ part = "map" /\ Map!Next
          /\ UNCHANGED <<nibbleVars, subsetVars, smtVars, decoderVars, payloadVars>>
       \/ /\ part = "subset" /\ Subset!SubsetNext
          /\ UNCHANGED <<nibbleVars, mapVars, smtVars, decoderVars, payloadVars>>
       \/ /\ part = "smt" /\ Smt!Next
          /\ UNCHANGED <<nibbleVars, mapVars, subsetVars, decoderVars, payloadVars>>
       \/ /\ part = "single" /\ Single!Next
          /\ UNCHANGED <<nibbleVars, mapVars, subsetVars, smtVars, payloadVars>>
       \/ /\ part = "batch" /\ Batch!Next
          /\ UNCHANGED <<nibbleVars, mapVars, subsetVars, smtVars, payloadVars>>
       \/ /\ part = "wide" /\ Wide!Next
          /\ UNCHANGED <<nibbleVars, mapVars, subsetVars, smtVars, decoderVars>>
       \/ /\ part = "deep" /\ Deep!Next
          /\ UNCHANGED <<nibbleVars, mapVars, subsetVars, smtVars, decoderVars>>

MCSpec == MCInit /\ [][MCNext]_allVars

-----------------------------------------------------------------------------
\* The packed integers of nibbles.rs behave as the sequences they stand for: in every
\* operation, piece and comparison, and through the hex-prefix and byte encodings.
NibblesRight ==
    part = "nibbles" =>
        /\ Nibbles!PackedIsSeq /\ Nibbles!PiecesAgree /\ Nibbles!ComparisonsAgree
        /\ Nibbles!HexPrefixRoundTrip /\ Nibbles!BytesRoundTrip

\* A trie is the one its entries define, whatever was inserted, extended, overwritten
\* and deleted before (trie_ops.rs): every entry is read, listed in order and deleted
\* as it was put in, no operation fails, and the root hash that partial_trie.rs
\* caches is that of what is in it.
TrieIsMap ==
    part = "map" =>
        /\ Map!TypeOK /\ Map!Canonical /\ Map!GetIsMap /\ Map!ItemsAreEntries /\ Map!ItemsInOrder
        /\ Map!OperationsSucceed /\ Map!DeleteReturns /\ Map!HashRight

\* The sparse Merkle tree depends on its entries and hashes alone (smt.rs); it answers
\* with the value last set, stops only at hashes, and its serialization has its root
\* and answers for the keys it is pruned to, whatever they are.
SmtRight ==
    part = "smt" =>
        /\ Smt!Canonical /\ Smt!GetsWhatWasSet /\ Smt!PanicsOnlyAtHashes
        /\ Smt!SerializedHash /\ Smt!PrunedReads

\* The payloads of a block follow the chain (decoding.rs, processed_block_trace.rs):
\* each ends with the state and the transactions trie of its last transaction, begins
\* where its predecessor ended, holds what its execution touches, and no block is
\* refused.
DecoderRight ==
    /\ part = "single" =>
          /\ Single!StatesRight /\ Single!TxnTrieRight /\ Single!PayloadsChain
          /\ Single!PayloadSuffices /\ Single!Decodes
    /\ part = "batch" =>
          /\ Batch!StatesRight /\ Batch!TxnTrieRight /\ Batch!PayloadsChain
          /\ Batch!PayloadSuffices /\ Batch!Decodes

\* What is cut out of a trie stands for it.  A sub-trie (trie_subsets.rs) keeps the
\* root of the trie it was taken of while both are worked on, its keys can be read and
\* written, and a deletion fails only where the one sibling left was cut away; the
\* part that a payload carries is enough for the kernel, which applies the same writes
\* in another order, to arrive at the decoder's root, also where a deletion collapses
\* a branch.
SubTriesRight ==
    /\ part = "subset" => Subset!SameRoot /\ Subset!KeysKept /\ Subset!DeleteFailsOnOrphanOnly
    /\ part = "wide" => Wide!OrderIrrelevant /\ Wide!KernelAgrees
    /\ part = "deep" => Deep!OrderIrrelevant /\ Deep!KernelAgrees
=============================================================================
