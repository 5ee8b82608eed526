# A TLA+ model of the zk_evm kernel and prover

zk_evm proves that a block of Ethereum transactions was executed correctly. A
**kernel**, written in an EVM-like assembly (`evm_arithmetization/src/cpu/kernel/asm`),
executes the transactions; a CPU simulator generates the witness of that execution; STARK
tables and recursive circuits prove it; a **decoder** turns block traces into the inputs of
the prover; and a set of Rust programs (`zero_bin`) fetches those inputs, proves blocks
concurrently and chains the proofs.

What makes it hard is that nothing is checked twice. The kernel is a program without types
whose state lives in numbered memory segments; it undoes a failed call entry by entry; it takes
positions, jump tables and sizes from the prover and must refuse wrong ones. The rows of a table
are written by one piece of code and constrained by another. Public values are laid out by
hand in a dozen places. If any of it disagrees, a block cannot be proved, or something
false can.

## 1. Inventory

| component | state | operations | how it interacts |
|---|---|---|---|
| journal, checkpoints, revert (`asm/journal`) | the journal; stacks of checkpoints, global and per context | `journal_add_*`, `%checkpoint`, `%pop_checkpoint`, `revert_checkpoint` | used by every system call that changes state |
| transaction execution (`asm/core`, `main.asm`) | contexts, accounts, lists of touched, created and destroyed accounts, refunds | message and creation transactions, calls, creations, termination, payment, sweeping, withdrawals | drives the journal; entered by user code through system calls |
| transient storage, access lists, linked lists of accounts and slots, tries (`asm/memory`, `core/access_lists`, `mpt`) | arrays, sorted linked lists and trie nodes in segments | store, search, insert, remove, hash | the lists' positions are supplied by `prover_input.rs` |
| jump destinations (`core/jumpdest_analysis`, `prover_input.rs`) | a bit per byte of code | checking of the prover's proofs | the prover simulates the call to know which are needed |
| witness generation (`witness`, `generation`) | registers, memory, logs of the tables | one operation per cycle, exceptions, rollback | what the tables hold |
| tables (`cpu`, `memory`, `arithmetic`, ...) | rows | generation, constraints, lookups | one table looks up rows of another |
| segments (`prover.rs`, `generation/state.rs`) | interpreter, data of a segment | cut, replay, repeat after an error | one segment's end is the next one's beginning |
| recursion (`fixed_recursive_verifier.rs`, `proof.rs`, ...) | circuits, proofs with public values | table proofs, root, segment, batch and block aggregation | public values chain proofs |
| `mpt_trie`, `smt_trie` | tries, cached hashes | insert, delete, iterate, subset, serialize | used by the decoder and the prover |
| `trace_decoder` | tries of a block as its transactions change them | batches, merged writes, payloads, cut tries | feeds the prover |
| kernel assembler (`cpu/kernel`) | programs | `%stack` expansion, permutations, optimization | makes the kernel |
| `zero_bin`, `proof_gen` | futures, channels, files of proofs and circuits, cache of blocks | prove, aggregate, fetch, retry, persist | one-shot channels from block to block; files shared by processes |

What is hard in them, and what makes them correct:

* **journal and execution**: any interleaving of calls, creations, self-destructs and reverts
  must unwind exactly; some changes bypass the journal on purpose; what one transaction leaves
  in memory meets the next. *Correct*: a revert restores its checkpoint, no internal check
  fails, ether does not appear, static calls change nothing.
* **data structures under untrusted hints**: *correct*: whatever the prover sends, a structure
  that accepts it answers like the set or map it stands for; and what the honest prover sends
  is accepted, however nodes were inserted and removed before.
* **tables**: operations share columns, the top of the stack is a register, a failing
  instruction has already logged. *Correct*: generated rows are accepted, lookups balance, wrong rows
  are refused.
* **recursion**: *correct*: what can be folded is one unbroken execution from the checkpoint
  on; what is, can be folded in any association; a value means the same wherever it is listed.
* **tries and decoder**: *correct*: a trie depends on its entries, not on its history; a
  cut trie stands for the whole; the kernel, which applies writes in another order, arrives at
  the decoder's root.
* **pipeline, inputs, circuit cache**: failures at every step, processes that crash and share
  files, retries. *Correct*: no proof without its predecessors, no gap among the files
  handed to the runtime, and everything ends.

`PROJECT.json` lists the components with their status and the hazards with their lines.

## 2. Modules

Data is abstracted to what properties tell apart; control is kept. Each definition is named
after the routine it models where that is possible, and `PROJECT.json` maps it to its lines.

| module | models |
|---|---|
| `Ledger` | the journaled state, the twelve kinds of entries, how each is added and undone, and the kernel's state-changing routines as operators (`asm/journal`, `core/{transfer,nonce,touched_addresses,selfdestruct_list,create_contract_account}`, `mpt/storage`) |
| `KernelTxn` | contexts, checkpoints, system calls, the revert loop, the life of a transaction, the batch (`core/{process_txn,call,create,terminate,exception}`, `journal/{journal,revert}`, `main`) |
| `TransientStorage`, `TransientMap` | the array of triples with its cell-wise search; the map it is to implement |
| `AccessList`, `WarmSet` | the sorted linked list of warm addresses or slots with the prover's hint as any node; the set it is to implement |
| `StateLists` | the linked lists of accounts and slots, the copies of the initial values, and the initial and final tries made of them (`mpt/linked_list`, `mpt/storage`) |
| `KernelTrie` | reading, insertion, deletion and hashing of tries in the trie data segment (`asm/mpt`), beside the crate's operations |
| `JumpdestAnalysis`, `JumpdestSimulation` | checking of proofs of jump destinations and the prover's making of them; the simulation that records the jumps of a call, and the real call after it |
| `CpuTrace`, `CpuConstraints`, `StackMachine` | every CPU instruction as generated (`witness`, `generation/state.rs`); the constraints and lookups of the CPU table (`cpu`); one stack per context, which the execution is to implement |
| `MemoryTable` | generation of the memory table with dummy rows, padding and pruned contexts, its constraints, and any two adjacent rows (`memory`) |
| `ArithmeticTable` | generation and constraints of every arithmetic operation, and rows claimed by anyone (`arithmetic`) |
| `Segments` | the interpreter running ahead, the iterator, the data of a segment and its replay |
| `RecursiveCircuits` | the set of circuits, its way to disk and back, the proof of each table and the root, with the transcript they share |
| `PublicValuesLayout` | every code that lists the public values, followed for each of the registered elements |
| `Aggregation` | what the segment, batch and block circuits connect |
| `MptNodes`, `PartialTrie`, `PackedNibbles` | the nodes, operations, hashes and canonical form of a trie; a trie as a map with its cached hash, and sub-tries in place of it; keys packed in an integer (`mpt_trie`) |
| `SparseMerkleTree` | `smt_trie`'s tree, keys and serialization |
| `BlockDecoder`, `PayloadTrie` | a block cut into payloads (`trace_decoder`); the part of a trie a payload carries, and what the kernel makes of it |
| `StackManipulation`, `Optimizer` | the assembler's search for the operations of `%stack`, with the swaps of a permutation; its peephole passes |
| `BlockPipeline` | the leader's futures, channels, files with their unflushed last buffer, and cleanup |
| `CircuitCache` | files of circuits written and read by workers that crash |
| `BlockInterval`, `ProverInput` | the interval argument and its stream; the cache of blocks, previous hashes, requests and retries |
| `*Proofs`, `KernelTxnLaws` | theorems (section 5) |
| `MC*` | the instances TLC checks (section 3) |

An MC module puts several small machines that have nothing to do with one another at run time
into one specification: the variable `part` says which of them a behaviour is about, the others'
variables are constant. `KernelTxn` extends `Ledger`; its warm addresses and transient slots are
the set and the map that `AccessList` and `TransientStorage` are shown to implement. `CpuTrace`
extends `CpuConstraints` and is shown to implement `StackMachine`. `KernelTrie` and `PayloadTrie`
run their own operations beside those of `MptNodes`.

Some correspondences that are not obvious:

* **Ledger.** A kernel state is a record: `led`, what the journal can restore; `journal`;
  and what is *not* restored: the created contracts, the self-destruct list, and `ripemd`,
  whether RIP160 was touched. Balances and refunds are integers, so that an
  underflow shows; where the code compares the refund as an unsigned word, so does `Paid`.
* **KernelTxn.** User code is arbitrary: at `pc = "user"` any system call of `Ops` may come
  next, or an exception. Gas is not counted: wherever it is charged, running out is one of the
  outcomes. Checkpoints (`marks`) carry two ghosts, the ledger and the
  self-destruct list at their time. A failed check is the label `panic`; the one panic that can
  be reached, that of `process_message_txn_fail`, has a label of its own.
* **TransientStorage.** A cell is a word and nothing says which are addresses. The history variable
  `seen` holds the addresses that used transient storage in this transaction and the words put into
  cells of keys and values; no action reads it. The properties of the passing run ask that the two are
  `Apart`, which user code need not respect (section 4).
* **BlockPipeline.** `write_proof_to_dir` calls `write_all` on a `tokio::fs::File` and drops it without
  `flush`: `Ok` means that the last buffer was handed to a blocking task. So `Write` leaves the file
  `"buffered"`, `WriteFails` is a failure of something earlier, which is reported, and `Flush` is the
  task: the file is `"full"`, or `"lost"` with an error that nobody hears. `Handed` are these three.
* **RecursiveCircuits.** `verify_proof` leaves out `verify_initial_memory`: proofs are the honest prover's, and
  its circuit counterpart is `Aggregation`'s `check_init_merkle_cap`.
* **AccessList.** Insertion takes any node of the segment as the prover's hint. `HintFound` is
  about the hints of `prover_input.rs`.
* **StateLists.** Hints are those `prover_input.rs` finds; the kernel's checks of them are
  conjuncts. An account may be removed only as the end of a transaction removes it, with
  its slots; slots are of existing accounts; `insert_slot`, which nothing calls, is left out.
* **KernelTrie.** A value is one word, keys have one length; an encoding is abstract with the
  size that decides whether it is hashed.
* **JumpdestAnalysis.** The window of 32 bytes is the constant `W`; the six packed masks that
  test it at once are one condition on its bytes.
* **CpuTrace.** A word is eight limbs of a few bits. The results of arithmetic, logic and
  hashing are opaque total functions of their inputs. `KernelOperands` says which
  operands the kernel never gives its own instructions. The packed and the circuit version of a
  constraint share a definition.
* **MemoryTable** has two machines: `Spec` generates a whole table, `PairSpec` chooses any two
  adjacent rows that the constraints accept.
* **ArithmeticTable.** Operations run on two limbs of two bits, BYTE on four limbs of four
  bits, in a field large enough for the code's bounds to mean the same. A row may also be
  *claimed*: any output and any auxiliary columns that the range check admits. The range
  counter's and the flags' constraints are left out.
* **Hashes** everywhere are what they are the hash of: equal exactly when that is equal.
* **Optimizer.** A word has two bytes of one bit each; `Meaning` runs a program from every
  stack given.

## 3. Runs

Every run is `tlc -config <cfg> <module>` with the pair of names in `PROJECT.json`.

| run | asks | bounds |
|---|---|---|
| `kernel_txn` | do reverts restore, checks hold, static calls change nothing, balances and refunds stay right, when code makes every kind of call and creation; and what passes to the next transaction? | three scenarios: calls (journal 10, 4 checkpoints, 1 transaction, with and without an access list), creations (the same bounds), a batch of 2 transactions (journal 9, 3 checkpoints); call depth 2 |
| `kernel_live` | does every revert end, also where calls are refused for depth or balance? | `sstore`, `call`, `create`; call depth 1; journal 9 |
| `kernel_parts` | is the transient array a map while its words are apart; do the linked lists yield the initial and final tries; do the trie routines agree with the crate's; is `%stack` expanded into the cheapest right operations, a permutation into the fewest swaps; does the optimizer keep a program's meaning? | 2 addresses, 2 keys and 2 values that share words with one another, 8 cells, 2 undo entries; lists of 2 accounts with 2 slots and 2 values, up to 2 nodes each beside the special one, more if the state before has more slots, and the first value of each kind 1 (values are interchangeable); binary keys of 3 nibbles, 2 operations on every trie of up to 3 entries; all programs of 3 items over 16 operations and of 4 over six moves; 3 names and targets of up to 3; permutations of up to 6 of 3 items, up to their names |
| `kernel_hints` | can a hint take an access list out of order or mark a byte that is no jump destination; is the honest prover accepted? | 3 addresses in 6 nodes, 4 slots in 5; windows of 2 bytes, code up to 5 bytes with any prover and 4 with its own; simulated code of 3 and 2 instructions, gas 8 |
| `tries` | are packed keys sequences, tries and sparse Merkle trees what their entries define; do payloads chain and suffice? | keys of up to 4 nibbles of 2 bits; tries of binary keys of length 3 with up to 4 entries; sub-tries of up to 3 entries and 2 keys, up to a swap of the first nibbles; 5 sparse keys, 5 operations; blocks of up to 3 transactions one by one and 4 in pairs; payload tries of up to 3 entries with ternary keys of length 2 and binary ones of length 3 |
| `zero_bin` | are proofs and files without gaps whatever fails; does an interval name its blocks; are inputs right whoever filled the cache; are circuits complete on disk; does everything end? | 3 blocks of 1 or 2 batches; 2 workers, 2 tables, 1 crash; chain of 3 blocks; 3 inputs in sequence or 2 at once, 1 retry, 2 errors |
| `recursion` | do segments cover the program; do the table proofs of one segment only make a root; do folds combine exactly what follows one another; does a public value keep its place? | two blocks of two batches, and a fork, with segments that almost fit; all 2367 registered elements; 2 tables of sizes 2 to 5 and 2 segments; a program of two transactions, all programs of 3 instructions (one of them at the halt label's counter in user mode), a failure at every point; at most 8, 16 or 32 rows or any number, 2 calls after an error |
| `tables` | are generated rows accepted, do lookups balance, are wrong rows refused, is there one stack per context? | one instruction of each of the 256 opcodes from every interesting stack in both modes, 4 in a row between contexts; 3 memory addresses, 2 operations, any two rows; words of 2 limbs of 2 bits (BYTE: 4 of 4) |
| `kernel_stale_checkpoint`, `cache_crash`, `transient_overlap`, `unflushed_proof` | section 4 | one transaction; one worker, one crash; as in `kernel_parts` with 11 cells and other values; as in `zero_bin` |

**Why these bounds.** The kernel's four addresses are one of each kind that the code treats
differently: the sender, a contract with one wei and one slot set, an address without an account
(also the beneficiary) and RIP160. One slot is enough to clear, un-clear and restore; amounts 0
and 1 give transfers of nothing, of a whole balance and of more than it. A transaction begins with
about five journal entries, so the bounds leave room for several changes between nested
checkpoints; user code stops calling at the bound while exceptions, reverts and terminations
always remain possible, so every bounded behaviour unwinds. In the lists two elements beside
the head give every relation of a hint to a key: before, at, after, not linked. Tries of
three binary nibbles have every node kind above every other, and deletions that collapse a branch
into a leaf, an extension or a branch. Limbs of two bits have carries, borrows and overflows, and
their small field is still larger than every coefficient the constraints can produce, which is what the
code's bound is about. The words of transient storage overlap: one is
an address and a key, another a key and a value, so that transactions whose words are apart and transactions whose words are not
follow one another. Windows of two bytes have PUSHes that end before, at and behind the end of the
window. Three blocks give the pipeline a first, a middle and a last. None of the bounds appears in a proof.

The addresses, keys and workers have different roles or an order, so TLC's symmetry is not used; the items of a
permutation are only compared, so they are named in the order in which they occur, and the operations on sub-tries treat nibbles alike, so that of two mirrored tries one is taken. Deadlock is checked where a
system that stops would be wrong (a halted kernel stutters); `Recursion.cfg`, `Tables.cfg` and
`Tries.cfg` turn it off, because their parts end: nothing is left to combine, a last row, a
decoded block.

**Fairness.** Safety is checked without any. `kernel_live` assumes weak fairness of `RevertStep` only:
the kernel is one sequential program, its revert loop asks nothing of anyone and runs until it jumps
out. Nothing is assumed of user code, which need never stop. `zero_bin` assumes it of each block's
future and of the leader (the tokio executor polls every future that was woken), of
`Flush` (the runtime's blocking tasks run, and a runtime that shuts down waits for them), of each worker's
`initialize` (a process that runs, or is started again after a crash), of the stream of a followed
interval and of the requests, whose retries are limited. `recursion` assumes it of the iterator's
`RunStep`, since its caller asks until it answers `None`. No strong fairness is used.

## 4. Where a document and the code differ

Four runs end in a violation of what a document of the repository says; all are `findings`.

* `kernel_stale_checkpoint`: a call refused for lack of balance leaves the checkpoint it took
  (`call.asm:249`); if the caller then fails, only what came after that checkpoint is
  reverted.
* `cache_crash`: a worker that is killed while it writes its circuits finds the base file
  after its restart, is ready, and fails every proof that needs a table that was not written
  (`persistence.rs:281`).
* `transient_overlap`: the search of transient storage advances one cell at a time
  (`transient_storage.asm:57`), so a contract that stores the word of an address makes it find a pair
  across the cells of other triples (`SearchFindsPair`), against `transient_storage.asm:25` "Looks for an
  address, key pair into the transient storage".
* `unflushed_proof`: the leader is done, and a proof file it was to keep was cut short when its last
  buffer could not be written (`prover/src/lib.rs:298`; `KeptProofsWritten`), against
  `leader/src/client.rs:98` "All proof files (including intermediary) are written to disk and kept".

The modules state further such properties. They are not part of a run; the table says how TLC violates
each, so that it can be tried again when the code changes. Paths are shortened: `asm/` is
`evm_arithmetization/src/cpu/kernel/asm/`.

| property | instance | the code | the document |
|---|---|---|---|
| `KernelTxn!ValueGivenBack` | `Ops = {"selfdestruct", "call"}` | with a stale checkpoint the recipient of a failed message transaction may lack the value to give back, and the kernel panics | `asm/core/process_txn.asm:324` "%transfer_eth %jumpi(panic)" |
| `KernelTxn!JustCreatedIsNew` | `Ops = {"create_txn", "selfdestruct"}`, 2 transactions | `CREATED_CONTRACTS_LEN` is not reset between transactions (`main.asm:231`) | `asm/core/terminate.asm:271` "meaning that it has been created during this transaction" |
| `KernelTxn!DestroyedRestored` | `Ops = {"create", "selfdestruct"}` | a self-destruct without balance to a missing account adds no journal entry, so a revert leaves the contract on the list | `asm/core/terminate.asm:130` "there is no need to add a journal entry" |
| `JumpdestAnalysis!FaultProofAccepted` | `honest`, `W = 2`, `MaxLen = 5` | the kernel checks the window behind the prover's instruction; a PUSH32 there, or a byte that looks like one, makes it abort on a jump that should fault | `asm/core/exception.asm:127` "jump to `fault_exception` if it is not" |
| `JumpdestAnalysis!FaultsOnlyNonJumpdests` | the same | a proof less than a window below the address starts the path behind it, and the bit stays as it was | `asm/core/jumpdest_analysis.asm:350` "will contain a 0 if and only if addr is not a jumpdest" |
| `JumpdestSimulation!AllJumpsRecorded` | as in `kernel_hints`, a code that is not `Tame` | the simulation follows a JUMP without looking at its bit, the execution faults there and goes another way | `generation/prover_input.rs:795` "store all the jump addresses with their respective contexts" |
| `Segments!WholeProgram` without `HaltIsKernels` | as in `recursion`: a user instruction at `HaltPc` where a segment is cut | the iterator compares the counter with the halt label's without asking for kernel mode (`prover.rs:562`) | `prover.rs:628` "The payload was fully consumed." |
| `KernelTrie!OldTrieKept` | as in `kernel_parts` | insertion stores into the node it was given | `asm/mpt/insert/insert.asm:1` "Return a copy of the given node" |
| `MemoryTable!MemAfterFilter` | `PairSpec` | the filter is fixed only where the value is not zero *and* the next row's segment is not preinitialized | `memory/memory_stark.rs:605` "segment is not preinitialized OR" "value is not zero" |
| `ArithmeticTable!QuotientByZero` | `Ops = {"DIV"}`, a zero divisor | the constraints admit any quotient up to the numerator | `arithmetic/modular.rs:87` "to force the quotient to be zero" |
| `Optimizer!SameMeaning` | programs of two constants and `BYTE` | the folded BYTE counts from the least significant byte (no kernel line pushes two constants before BYTE) | `arithmetic/byte.rs:11` "index I=0 corresponds to byte X_31" |
| `PublicValuesLayout!ComparesAll` | `SpecConditional` | the conditional comparison leaves out three fields of the block metadata | `proof.rs:1023` "If `condition`, asserts that `bm0 == bm1`" |
| `PublicValuesLayout!ExtractTakesAll` | `LayoutSpec` | `SIZE` leaves out the registers and counts a cap's height for its length: 2245 of 2367 elements | `fixed_recursive_verifier.rs:2678` "A slice containing exactly the public values." |
| `PartialTrie!GetIsMap` | `KeyLengths = {1, 2}` | a leaf is compared up to the shorter key | `mpt_trie/src/partial_trie.rs:69` "Get a node if it exists in the trie." |
| `PartialTrie!ItemsInOrder` | the same | a branch's value comes after its children | `mpt_trie/src/trie_ops.rs:196` "in lexicographic order" |
| `PartialTrie!OperationsSucceed` | the same | a branch with a value and one child is collapsed into none | `mpt_trie/src/trie_ops.rs:821` "Expected to find a non-empty node in the branch's children" |
| `PartialTrie!SubsetIsFresh` (action property) | `SubsetSpec`, `MaxSubsets = 2` | a root's mark is not cleared between subsets | `mpt_trie/src/trie_subsets.rs:5` "Any nodes that are not needed in the subset are replaced" |
| `PackedNibbles!FromBytesBounded` | as in `tries` | 33 bytes are accepted | `mpt_trie/src/nibbles.rs:379` "longer than `32` bytes" |
| `SparseMerkleTree!GetTotal` | as in `tries` | a path that ends at an empty node is `unreachable!()` | `smt_trie/src/smt.rs:114` "otherwise returns 0" |
| `SparseMerkleTree!HashesKept` | `Nested = TRUE` | a hash placed below another replaces it | `smt_trie/src/smt.rs:378` "Tried to insert a hash node in a non-empty node." |
| `BlockDecoder!StatesRight` | `Kinds = {"create", "call_fail"}` in pairs | a failing call of a contract created earlier in the batch removes it | `trace_decoder/src/lib.rs:183` "to arrive at the correct trie state for the start of each txn" |
| `BlockDecoder!StatesRight` | `FreshCoinbase = TRUE`, `"create_fail"` | the first fee of a new beneficiary is lost with the failing transaction | the same |
| `BlockDecoder!StatesRight` | `InitX = {"funded"}`, `"create_destroy"` and `"create"` in one batch | the balance of before the self-destruct stays | `trace_decoder/src/processed_block_trace.rs:151` "a follow-up transaction within the same batch" |
| `BlockDecoder!Decodes` | `InitX = {"funded"}`, one by one | an account destroyed earlier in the block counts as created, and no transaction created it | `trace_decoder/src/decoding.rs:352` "We should have found a matching transaction" |
| `BlockInterval!FollowStartsAtLhs` | as in `zero_bin` | the first block yielded is the one after the start | `zero_bin/common/src/block_interval.rs:36` "a range starting from `lhs` to the chain tip" |
| `BlockInterval!NothingAfterSeparator` | the same | "..5" is accepted | `zero_bin/common/src/block_interval.rs:69` "Any other character after `..` or `..=` is invalid" |

They are also why some properties of passing runs say less than one might wish.
`RevertRestores` speaks of the loop's checkpoint, not of the beginning of the failing context,
and of the ledger, not of the self-destruct list; `NoPanic` leaves `panic_fail` out; `FindsPair` and
`ImplementsMap` are for transactions in which no address that used transient storage is among the words stored as keys or values; `PipelineSafe` speaks of files
handed to the runtime, which are whole on disk unless the last buffer is lost; `AnalysisRight` asks only near
faults of the analysis, and `SimulationRight` only codes whose jumps have destinations for targets (`Tame`); `SegmentsSafe` asks
that the whole program is proved only where no user instruction is at the halt label's counter; trie keys have one length; only one subset is
taken of a trie; decoded blocks leave out the four combinations above; `AcceptedRowsRight`
excepts division by zero and says which rows may be handed on, not that all of them are.

## 5. Proofs

All proofs are checked by TLAPS with no step omitted. The assumptions are those on the
constants, named in the modules and evaluated by TLC in the runs: `LedgerAssumption`
(a finite set of addresses with RIP160 in it, gas constants are naturals), `RefundAssumption`
(a warm access costs no more than setting or resetting a slot: 100, 20000 and 2900 in the code),
`KernelAssumption` (parameters have their types, the initial ledger has no negative balance and nothing
stored at an address without an account), `InitLedgerAssumption` (a batch begins with nothing warm,
nothing to refund and no empty account, which EIP-161 rules out of a state), `JumpdestAssumption`
(W and the length of a code are positive), `TransientAssumption` (0 is a value, bounds are naturals), `AccessAssumption` (keys below the list's
last one), `StateListsAssumption` (keys are positive and below the special node's, payloads and stored values are
not 0), `SimulationAssumption` (codes are not empty), `HashCountAssumption`, `SegmentsAssumption` (segments are records
of public values), `SegAssumption` (below), `PipelineAssumption`, `CacheAssumption`, `IntervalAssumption` and `InputAssumption` (the number of
previous hashes is even, as 256 is).

**Every routine journals what it does** (`LedgerProofs`). `Follows(s, t)` says: `t` extends
the journal of `s`, and there is a sequence of ledgers, indexed by journal length, that leads
from `t.led` back to `s.led` by undoing the new entries one at a time, each passing the
check of its reverting routine; and no account has disappeared. `Follows` is
reflexive and transitive, so that a system call follows because each of its routines does. There is
one lemma per routine. The hardest are the transfer, whose undoing touches both ends
again, and the self-destruct, whose undoing subtracts from the recipient and sets the
contract's balance, where both may be the same account.

**The kernel's invariant** (`KernelTxnProofs`). `RevertRestores` is not inductive: to
know that the loop will arrive at the checkpoint's ledger one has to know, while user code runs,
that the journal as it stands explains the present ledger *and passes through the ledger of every
checkpoint on the way*. That is `Explains`: a function from journal lengths to ledgers with
`h[Len(journal)] = led`, `h[mark.size] = mark.led` for every mark of the transaction, and `Undo`
leading from each to the one before. `KernelInv` adds what keeps this true: the
shape of the stack of contexts (`Stack`: a waiting context has its own checkpoint and the
call's), rising checkpoints and marks (`Nested`, `Rising`), that the account of a running
contract exists now and at all marks since it was entered (else undoing could delete the
running contract's account), and, inside the loop, the same for the part of the journal not yet
undone (`Undoing`). There is one lemma per action. From
`KernelIsSound == Spec => []KernelInv` follow, for any number of addresses, slots, calls,
checkpoints and transactions, `RevertsRestore`, `KernelNeverPanics`, `CheckpointsAreNested`,
`NoBalanceUnderflows` and `KernelTypes`. `KernelInv` itself is not given to TLC, because `Explains`
quantifies over functions into the set of all solid ledgers; its consequences are.

**The laws of a transaction** (`KernelTxnLaws`, with the routines' part in `LedgerProofs`).
`KernelInv` says that a revert arrives at the right ledger and nothing of what a ledger must be
like. `Lawful` is that: the refund counter is not negative; a slot that is not warm has its value of the
transaction's beginning, and one that is warm keeps that value beside it; the sender's account
exists, has spent one nonce and has no code; every empty account has been touched, or is RIP160 with
its flag set; and the supply is at most that of the beginning less the gas bought. None of this is
inductive by itself, because a revert may be half done: the ledger then is one that no sequence of
system calls has made. So `Held` asks it of the whole history: the ledger, and *every ledger that
undoing the journal leads through*, is in the set. A routine that journals several entries is shown to
pass through lawful ledgers only (`Tame`, one lemma per routine), and undoing an entry then moves
along a history that is known to be lawful. Three things needed more:

* the counter. That a subtraction of `REFUND_SCLEAR` leaves it above zero does not follow from
  its being so before; `Covered` says that it is at least `REFUND_SCLEAR` times the number of slots
  that are cleared. Single entries break this (a slot and the counter are journaled one after the
  other), so it is kept at the ends of system calls and at the checkpoints, where a revert arrives.
* static contexts. `Owns` holds the history since each context was entered in the set of ledgers
  that context allows; for a static one, those with its accounts, slots, logs and transient slots.
* empty accounts. A failed call may un-touch an account that was emptied before; that it is then not
  empty any more is again a fact about the history. An account with a nonce or code never becomes empty
  (`Sturdy`), and the sender is never on the self-destruct list.

`TxnInv` is `Held`, `Owns`, `Covered` and the shape of the contexts while user code or the
revert loop runs (`Busy`, `Orderly`), and what is left of it afterwards (`Kept`).
`KernelIsLawful == Spec => [](KernelInv /\ TxnInv)` has one lemma per action. From it:
`RefundsAreRight`, `EtherIsOnlyBurnt`, `StaticContextsChangeNothing`, `TxnEndsRight` and
`FailedCreationsAreUndone`. Sums over the addresses are avoided: `Supply` is the number of pairs of an
address and one of its wei, so that what a transfer does to it follows from the cardinalities of
finite sets.

**Jump destinations** (`JumpdestProofs`). `BitsAreValid` holds whatever addresses and proofs are
sent, and of the prover's own (`honest`). The invariant is only `BitsValid` and types; the work is in two
facts. If none of the `W` bytes from a position is a PUSH that reaches over their end, an
instruction starts there: the last instruction that starts at or before the end would otherwise reach over it, and,
being no longer than `W + 1`, would start inside the window. And a walk from an instruction visits
instructions only. `AnalysisIsRight` adds what is true of the prover's own table: it is never
rejected, every destination it was asked for has its bit when user code starts, and a faulting jump whose closest
instruction lies in the first `W` bytes is decided right. Its invariant `OwnInv` says that what is left of the
table is what the fold had pushed below some position, and that every destination found from there on has its bit.
It needs that `CodeIterator` yields all instructions before its end (no instruction starts inside
another, so that a walk from one reaches every later one), that the window the prover looks for is the one
the kernel checks, counted from the other end, and that a proof never leads behind its address.
`IsInstruction`, `Path`, `CodeIterator` and the fold are recursive functions on numbers. That each satisfies
its equation is shown without induction over data, by giving a solution made from the smallest set closed
under one step; what it says of every position takes the least position at which it would fail.

`SimulationIsRight` is about two runs of one program: the prover's simulation of a call, which records the jump
targets, and the call itself, which starts when the simulation has ended. One step of the interpreter is a
function `After` of the two codes and the configuration (frames, contexts, gas), and `Visits` is the least set of
configurations that contains a given one and what `After` makes of its members. While the simulation runs,
`SimulationInv` says that every configuration visited from the first is still to be visited from the present one, or
that its target is recorded and it did not end the run; so at the end all targets are recorded. While the call is
proved, it is somewhere among the visited configurations, each of whose targets is recorded, so that no jump is refused for lack
of a bit and the run ends as the simulation did. Codes are any two sequences of instructions whose jumps have
destinations for targets; without that the statement is false (section 4).

**Transient storage** (`KernelMemoryProofs`). Nothing is assumed of the sets of words: they may overlap or be
one set. `TransientTypes` holds always. `IInv` says, *while the words of the transaction are apart* (`Aligned`), that the cells in
use are whole triples, that the first cell of each is an address seen and the others are words seen, that a pair has at
most one triple, and that undo entries name pairs that are present. A match of an address that is
not among the words seen can then only be at the first cell of a triple. A new transaction has nothing seen and no cell in use, so
the invariant starts again however the one before ended. From it, for all words and bounds: `SearchesFindPair` and
`ArrayImplementsMap` (initial states and every step after which the words are apart map to `TransientMap`).

**Access lists** (`AccessListProofs`). `IInv` is the type invariant, `SortedCycle` (the successor
of a live node is live and has the next larger key, or is the head),
`NoKeyTwice` and `JournalledIsWarm`. The first two alone would not do: removal, when a journalled
insertion is reverted, needs the key to be linked. Each action is first
reduced to a lemma about a `Cycle` in which one node is linked or unlinked. `ListStaysSorted`
and `ListImplementsSet` hold for every hint the kernel's checks let pass. `ListIsRight` adds that
the prover's searches stop: the last node whose key is not above the one to be inserted is a hint the kernel accepts, and
the only one; the last node below a key to be removed points to it. That a set of nodes has a
last one is shown by counting the nodes before each.

**State lists** (`KernelMemoryProofs`). `ListsAreRight == ListsSpec => []StateListsRight` holds for every set of
accounts, slots and values, every initial state and any number of nodes. `ListsInv` says that the linked nodes of
each list are a sorted cycle of exactly the existing accounts, or of the slots that are not 0, with their values
(`AccountsHeld`, `SlotsHeld`); and that the nodes loaded at the beginning stay at their places with their keys and initial
payloads, linked or not, those of accounts that had storage linked (`InitialKept`). Slots are ordered by the
single number `Rank(a, k)`, so that both lists are instances of one `Cycle`, about which the lemmas on gaps, linking and
unlinking are stated once. That reads are right and hints unique follows from the cycle. The tries at the end take more:

* `InitialTrieKept`: the kernel walks the leaves of the given trie and the nodes in memory with one pointer each and no
  keys to compare. It is right because the i-th leaf's node is node `i + 1`, and because the slots of an account lie in memory
  behind those of all smaller accounts (`FirstSlot` counts them; `SlotPosition`, `NextFirst`).
* `FinalTrieRight`: after `delete_removed_accounts` the trie has no account that is gone, and no storage root a leaf for a slot that is 0 now
  (`Given`). An account that was deleted and created again has two nodes; the pointer into the slots is not moved for a deleted
  node, which is right only because such an account had no storage in the initial state. Then `insert_all_accounts` and `insert_all_slots`
  walk the two lists in step: before each account the slot pointer is at the first slot of an account not below it
  (`FirstFrom`), since every slot that is linked belongs to an account that is.

The loops are recursive functions over the number of rounds. That such a function is defined is shown by giving a run
of it (`RunExists`), that it has ended after as many rounds as the list has nodes by counting the nodes passed, or taken out.

**Aggregation** (`RecursionProofs`). `SoundInv` says that every proof covers a chain: a
sequence of segments each of which begins with the registers, memory and state its predecessor
ended with, and that its public values are those of the chain's ends. One lemma per fold
shows that the concatenation of two chains the circuit connects is a chain. `ProofsAttest`,
`BlocksStartAtCheckpoint` and their conjunction `ChainIsAttested` follow, for every set of segments, of which
any may be missing, and every order of folds. `FoldsAlwaysSucceed` is the converse: the public
values the prover computes for two proofs satisfy the circuit whenever the second chain goes on
where the first ends (for batches: both run from the kernel's `main` to `halt`, and the second is the next one of the
block), because each proof's values are those of its ends.

**Segments** (`RecursionProofs`). `SegmentsAreSafe == SegmentsSpec => []SegmentsSafe`. `SegAssumption` says what a program is: it
ends where the kernel first halts, and writes to no context that was pruned before (contexts are not used again); the
exit routine has more than one cycle; a cycle bound leaves room for both routines and one cycle between them; traces have
at most 2^30 rows (`MaxLog`). The interpreter and the prover run apart, so that `SegInv` has to say why they agree. Of both it
says where they are (`Phase`: the clock is the cycles of the init routine and the points passed), that no point passed ends the segment
(`NoEnd`) or fails, and that their memory is the segment's with the writes so far. What else is carried, inputs and
jumpdest table, is determined by the points passed: there is a function `h` from points to what is carried (`Path`) that leads from the segment's data
to the present; while the prover runs, `h` is the interpreter's, all the way to the segment's end (`Proving`), so that the prover can neither fail
nor end elsewhere. The two prune differently, the interpreter all contexts since the beginning and the prover those of
this segment; they agree because the memory handed over holds no pruned context, and none is written to again (`Fresh`,
`PrunedNotWritten`). After an error the interpreter is left half way and nothing of the above holds of it; then `Settled` says instead
that the segment is `Doomed`, its failing point comes before its end, and no later call gets past it.

**Block pipeline** (`ZeroBinProofs`). The heart of `PipelineInv` is `PrefixDone`: a future that has
its predecessor's proof finds all earlier futures ended with success, which no later step takes
back. With it, a proof that was made attests all blocks up to its own (`Attested`), a future past its write
has handed its file to the runtime, where it stays until the cleanup (`Written`), and the cleanup starts only when every proof was
taken, and leaves the last file (`Taken`, `Cleaning`). From it:
`FilesArePrefix` (below a proof file every file was handed over whole), `ProofsCoverPrefix`, `SuccessHasProof` (a success has
printed or handed over what was asked for; that it is on disk is false, section 4), together `PipelineIsSafe`, and the
action property `FailuresKeepFiles`.

**Circuit cache** (`ZeroBinProofs`). `CacheIsRight` is for any number of workers, configurations and tables they share. That a complete
file is cut short only by a process that then writes it is a property of every step. That a worker which is ready has its
tables on disk needs that workers start one after the other and none was killed (otherwise it is false, section 4). Then `Undisturbed` holds:
at most one worker is starting, a file that is open belongs to it, and for every readable base file each of its tables can be read, is being
written again, or is still on the list of a worker that persists the same circuits (`BaseHasTables`, `PutsAllTables`). The base file is put
first, so the weaker invariant without the list is not inductive.

**Block intervals** (`ZeroBinProofs`). `IntervalInv` relates the argument to what it was parsed into (`BoundedBy`, `Following`), and what
was yielded to the tip and to the stream's position (`FollowInv`). `IntervalIsRight`: a bounded interval yields the documented blocks and
no others, in rising order; a followed one has no gap and stays behind the chain.

**Prover inputs** (`ZeroBinProofs`). `InputInv` explains why the cache never answers a request for a whole block with one that has
hashes only: a block of the interval is not asked for by a neighbour before its own trace was begun (`CachedIsBegun`), traces are begun in
order and before the other requests of their block (`TracesInOrder`, `TraceFirst`), so the first to put a block of the interval into the
cache puts a whole one (`TraceIsFull`). `TriesAreErrors` bounds retries by errors. That each previous hash is in its place
is arithmetic on pairs, for even and odd blocks and near the genesis block. Together: `InputsAreRight`.

**Only model-checked.** Liveness (`RevertEnds`, `ZeroBinEnds`, `SegmentsEnd`), since
fairness is beyond the prover. What recursive operators over data compute for every input: the tries of the kernel
and of the crate and what is cut from them (`KernelTrieRight`, `TrieIsMap`, `SubTriesRight`), the sparse tree (`SmtRight`), packed keys
(`NibblesRight`), the decoder (`DecoderRight`) and the assembler (`StackOpsRight`, `OptimizerRight`), since the prover loses its arithmetic
in a module with such an operator, and induction over data is out of its reach. `LayoutRight` is about the code's fixed
lists, all of whose elements the run follows, so there is nothing left to generalise. The tables
(`HonestRowsAccepted`, `AcceptedRowsRight`, `ExecutionRight`) and `CircuitsRight` are not proved.

## 6. Not modelled

* **What is computed, where nothing decides on it**: gas amounts, receipts, bloom filters, RLP,
  hashes, curves, pairings, big numbers and the results of precompiles. Running out of gas and
  failing are always allowed outcomes.
* **Tables.** The logic, byte packing, Keccak, Keccak sponge and continuation tables; the
  cross-table lookup argument and FRI, which are probabilistic; that a CPU row nobody generated is
  refused (rows of the memory and arithmetic tables are claimed freely, rows of the CPU table are not).
* **Recursion.** The polynomial identities inside a circuit: a circuit is what it connects. Proofs
  of two unrelated blocks can be combined in the model, and nothing is claimed of them.
* **Tries.** Builders and debugging tools of `mpt_trie`; clones of a `HashedPartialTrie`, which share a
  cached hash, and its state after an `extend` that fails.
* **Decoder.** The front ends that read compact witnesses and separate tries; bytecode hashing.
* **Assembler.** The parser and macro expansion other than `%stack`; the interpreter used in tests.
* **`zero_bin`** command lines, HTTP and AMQP transports, logging; `proc_macro`, `common`, `compat`.

## 7. Plan

1. *Done:* journal, execution, transient storage, access lists, linked lists, tries, jump
   destinations, CPU, memory and arithmetic tables, segments, recursion, crates for tries, decoder, assembler, `zero_bin`.
2. *Done:* theorems for the kernel's journal and transactions, transient storage, access lists, the lists of accounts and
   slots, jump destinations and their simulation, segments, aggregation, and the safety of `zero_bin`.
3. A theorem for the memory table's two adjacent rows.
4. The byte packing and Keccak sponge tables in the manner of `MemoryTable`; CPU rows claimed freely.
5. Receipts and bloom as a component of `KernelTxn`.
