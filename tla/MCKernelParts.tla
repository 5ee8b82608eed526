---------------------------- MODULE MCKernelParts ----------------------------
(***************************************************************************)
(* Parts of the kernel that stand on their own, for TLC: the structures it *)
(* keeps its state in (the transient storage array, the linked lists of    *)
(* accounts and slots, the tries), which live in segments of their own,    *)
(* and the assembler that makes its code (the optimizer on short programs, *)
(* the expansion of %stack, the swaps for a rearrangement of the stack).   *)
(* A behaviour works on one of them, and part says which.                  *)
(***************************************************************************)
EXTENDS TransientStorage, StateLists, Optimizer

VARIABLES part,
          data, root, trie, entries, left, old, panic, ops,       \* KernelTrie
          src, dst, phase,                                        \* StackManipulation:
          queue, info, settled, path, pathCost,                   \* the expansion of %stack
          todo, perm, swaps                                       \* a permutation

trieVars == <<data, root, trie, entries, left, old, panic, ops>>
searchVars == <<queue, info, settled, path, pathCost>>
permuteVars == <<todo, perm, swaps>>
assemblerVars == <<optimizerVars, src, dst, phase, searchVars, permuteVars>>
memoryVars == <<vars, listVars, trieVars>>
allVars == <<part, memoryVars, assemblerVars>>

-----------------------------------------------------------------------------
(* The structures in memory.                                               *)

\* Binary keys of three nibbles, two operations on every part of every trie.
Trie == INSTANCE KernelTrie WITH
    Arity <- 2, HashLimit <- 3, BigValue <- 2, MaxValue <- 2, MaxEntries <- 3, MaxOps <- 2,
    Keys <- {<<0, 0, 0>>, <<0, 0, 1>>, <<0, 1, 0>>, <<1, 1, 1>>}

ASSUME Trie!KernelTrieAssumption /\ Trie!NodesAssumption

\* Values are only compared with each other and with 0, those of accounts and those of
\* slots apart: it is enough to start where the first of each kind is 1.
FirstValueOne(list) == Len(list) > 1 => list[2].val = 1

NoLists == pre = [a \in Accts |-> NoAccount] /\ Loaded
NoTrie == /\ data = 0 /\ root = 0 /\ trie = 0 /\ entries = 0
          /\ left = 0 /\ old = 0 /\ panic = 0 /\ ops = 0

-----------------------------------------------------------------------------
(* The assembler.                                                          *)

\* All programs of up to n items of these operations and constants, and of a label.
ProgramsOf(n, operations, literals) ==
    LET items == {Literal(v) : v \in literals} \cup {StandardOp(f) : f \in operations}
                 \cup {PushLabel, Label}
    IN  {p \in UNION {[1 .. k -> items] : k \in 1 .. n} :
            Cardinality({i \in DOMAIN p : p[i] = Label}) <= 1}

MCPrograms ==
    ProgramsOf(3, {"ISZERO", "NOT", "ADD", "SUB", "MUL", "DIV", "MOD", "EXP", "SHL", "SHR",
                   "AND", "OR", "XOR", "LT", "GT", "EQ"}, {0, 1, 2, 3})
    \cup ProgramsOf(4, {"ADD", "SUB", "JUMP", "SWAP1", "DUP1", "POP"}, {0, 3})
MCStacks == {<<1, 2, 3, 0, 2>>, <<3, 1, 0, 2, 1>>, <<0, 3, 2, 1, 3>>}

Expansion == INSTANCE StackManipulation WITH
    Names <- <<"a", "b", "c">>, Targets <- {"L"}, MaxDst <- 3, MaxStack <- 4,
    CpuColumns <- 85, MemColumns <- 30, PushBytes <- 3

Permuting == INSTANCE StackManipulation WITH
    Names <- <<"a", "b", "c">>, Targets <- {"L"}, MaxDst <- 3, MaxStack <- 6,
    CpuColumns <- 85, MemColumns <- 30, PushBytes <- 3

ASSUME Expansion!StackManipulationAssumption /\ Permuting!StackManipulationAssumption

\* Names are only compared: it is enough to rearrange stacks that name a before b before c.
NamesInOrder(stack) ==
    \A i \in DOMAIN stack :
        /\ stack[i] = "b" => \E j \in 1 .. i - 1 : stack[j] = "a"
        /\ stack[i] = "c" => \E j \in 1 .. i - 1 : stack[j] = "b"

NoOptimizer == original = 0 /\ code = 0 /\ before = 0 /\ pass = 0 /\ start = 0
NoStacks == src = 0 /\ dst = 0 /\ phase = 0
NoSearch == queue = 0 /\ info = 0 /\ settled = 0 /\ path = 0 /\ pathCost = 0
NoPermuting == todo = 0 /\ perm = 0 /\ swaps = 0

-----------------------------------------------------------------------------
MemoryInit ==
    /\ Init
    /\ \/ part = "transient" /\ NoLists /\ NoTrie
       \/ /\ part = "lists" /\ ListsInit /\ NoTrie
          /\ FirstValueOne(alist) /\ FirstValueOne(slist)
       \/ part = "trie" /\ Trie!Init /\ NoLists

AssemblerInit ==
    \/ part = "optimize" /\ OptimizerInit /\ NoStacks /\ NoSearch /\ NoPermuting
    \/ part = "expand" /\ Expansion!Init /\ NoOptimizer /\ NoPermuting
    \/ part = "permute" /\ Permuting!PermuteInit /\ NamesInOrder(src) /\ NoOptimizer /\ NoSearch

MCInit ==
    \/ MemoryInit /\ NoOptimizer /\ NoStacks /\ NoSearch /\ NoPermuting
    \/ AssemblerInit /\ Init /\ NoLists /\ NoTrie

MemoryNext ==
    \/ part = "transient" /\ Next /\ UNCHANGED <<listVars, trieVars>>
    \/ part = "lists" /\ ListsNext /\ UNCHANGED <<vars, trieVars>>
    \/ part = "trie" /\ Trie!Next /\ UNCHANGED <<vars, listVars>>

AssemblerNext ==
    \/ part = "optimize" /\ OptimizerNext /\ UNCHANGED <<src, dst, phase, searchVars, permuteVars>>
    \/ part = "expand" /\ Expansion!Next /\ UNCHANGED <<optimizerVars, permuteVars>>
    \/ part = "permute" /\ Permuting!PermuteNext /\ UNCHANGED <<optimizerVars, searchVars>>

MCNext ==
    \/ MemoryNext /\ UNCHANGED <<part, assemblerVars>>
    \/ AssemblerNext /\ UNCHANGED <<part, memoryVars>>

MCSpec == MCInit /\ [][MCNext]_allVars

-----------------------------------------------------------------------------
\* The kernel's routines on tries (asm/mpt/) and those of the mpt_trie crate agree on
\* every operation: the same trie, the same hash, the values last written; the kernel
\* stops only at nodes that were hashed away, and counts the words of a loaded trie
\* as the prover wrote them.
KernelTrieRight ==
    part = "trie" =>
        /\ Trie!SameTrie /\ Trie!SameHash /\ Trie!ReadsLastWritten
        /\ Trie!PanicsOnlyAtHashes /\ Trie!SizeCounted

\* %stack becomes operations that turn the one stack into the other, the cheapest
\* that do, and a rearrangement the fewest swaps; the search always finds some
\* (stack_manipulation.rs, permutations.rs).
StackOpsRight ==
    /\ part = "expand" => Expansion!PathFound /\ Expansion!PathRight /\ Expansion!PathCheapest
    /\ part = "permute" => Permuting!SwapsRight /\ Permuting!CyclesDisjoint /\ Permuting!SwapsFewest

\* An optimized program means what the written one means, no replacement makes it
\* dearer, and nothing that a pass would change is left (optimizer.rs, utils.rs).
OptimizerRight ==
    /\ [](part = "optimize" => SameMeaning /\ NothingLeft)
    /\ [][part = "optimize" => NeverDearer]_allVars
=============================================================================
