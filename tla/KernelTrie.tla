------------------------------- MODULE KernelTrie -------------------------------
(***************************************************************************)
(* The kernel's Merkle Patricia tries (asm/mpt/): nodes in the trie data   *)
(* segment, updated in place, with the routines that read, insert, delete  *)
(* and hash.  The tries are loaded as generation/mpt.rs lays them out, and *)
(* the tries of the mpt_trie crate (MptNodes) go through the same          *)
(* operations beside them: the prover takes its roots from those.          *)
(*                                                                         *)
(* A word of the segment is a number (a hash is its encoding); a key is    *)
(* its number of nibbles and their value in base Arity.  A value takes one *)
(* word, as those of storage do.                                           *)
(***************************************************************************)
EXTENDS MptNodes

CONSTANTS
    Keys,          \* keys, of one length
    MaxValue,
    MaxEntries,    \* most entries of the trie that is loaded
    MaxOps

KernelTrieAssumption ==
    /\ MaxValue \in Nat /\ MaxEntries \in Nat /\ MaxOps \in Nat
    /\ \A k, l \in Keys : Len(k) = Len(l)

VARIABLES
    data,          \* the trie data segment, up to its size
    root,          \* pointer to the trie
    trie,          \* the trie of the mpt_trie crate
    entries,       \* what the whole trie maps its keys to; 0: not in it
    left,          \* keys whose nodes are hashed away
    old,           \* the pointer before the last operation, and its trie
    panic,
    ops

vars == <<data, root, trie, entries, left, old, panic, ops>>

EMPTY == 0
HASH == 1
BRANCH == 2
EXTENSION == 3
LEAF == 4

----------------------------------------------------------------------------
(* Keys as lengths and numbers (mpt/util.asm). *)

RECURSIVE Packed(_)
Packed(k) == IF k = <<>> THEN 0 ELSE Packed(Front(k)) * Arity + Last(k)
Key(k) == [len |-> Len(k), key |-> Packed(k)]
Unpacked(k) == [i \in 1 .. k.len |-> (k.key \div Arity^(k.len - i)) % Arity]

truncate_nibbles(n, k) == [len |-> k.len - n, key |-> k.key % Arity^(k.len - n)]
first_nibble(k) == (k.key \div Arity^(k.len - 1)) % Arity
rest_nibbles(k) == truncate_nibbles(1, k)

merge_nibbles(front, back) ==
    [len |-> front.len + back.len, key |-> front.key * Arity^back.len + back.key]

\* The longest common prefix and what is left of both.
split_common_prefix(a, b) ==
    LET Prefix(k, n) == k.key \div Arity^(k.len - n)
        same == {n \in 0 .. Smaller(a.len, b.len) : Prefix(a, n) = Prefix(b, n)}
        n == CHOOSE i \in same : \A j \in same : j <= i
    IN  [common |-> [len |-> n, key |-> Prefix(a, n)], a |-> truncate_nibbles(n, a), b |-> truncate_nibbles(n, b)]

----------------------------------------------------------------------------
(* The segment.  Pointer p is word p + 1 of the sequence. *)

Mload(d, p) == d[p + 1]
Mstore(d, p, w) == [d EXCEPT ![p + 1] = w]
Size(d) == Len(d)
NodeKey(d, p) == [len |-> Mload(d, p + 1), key |-> Mload(d, p + 2)]

\* A result: the segment and a pointer to the node.
At(d, p) == [d |-> d, p |-> p, ok |-> TRUE]
Panic(d) == [d |-> d, p |-> 0, ok |-> FALSE]

AppendNode(d, words) == At(d \o words, Size(d))
NewBranch == <<BRANCH>> \o [i \in 1 .. Arity + 1 |-> 0]
ValueSlot(p) == p + 1 + Arity

\* load_mpt: a node is followed by its value, or its children.
RECURSIVE load_mpt(_, _)
load_mpt(d, node) ==
    LET RECURSIVE Children(_, _, _)
        Children(e, p, i) ==
            IF i = Arity THEN e
            ELSE LET c == load_mpt(e, node.cs[i]) IN Children(Mstore(c.d, p + 1 + i, c.p), p, i + 1)
    IN  CASE node.t = "empty" -> At(d, 0)
          [] node.t = "hash" -> AppendNode(d, <<HASH, node.h>>)
          [] node.t = "leaf" -> AppendNode(d, <<LEAF, Len(node.n), Packed(node.n), Size(d) + 4, node.v>>)
          [] node.t = "ext" ->
                LET c == load_mpt(d \o <<EXTENSION, Len(node.n), Packed(node.n), Size(d) + 4>>, node.c)
                IN  At(c.d, Size(d))
          [] node.t = "branch" ->
                LET new == d \o NewBranch
                    valued == IF node.v = NoValue THEN new
                              ELSE Append(Mstore(new, ValueSlot(Size(d)), Size(new)), node.v)
                IN  At(Children(valued, Size(d), 0), Size(d))

\* The trie at a pointer.
RECURSIVE Tree(_, _)
Tree(d, p) ==
    LET Value(q) == IF q = 0 THEN NoValue ELSE Mload(d, q)
        type == Mload(d, p)
    IN  CASE type = EMPTY -> Empty
          [] type = HASH -> HashNode(Mload(d, p + 1))
          [] type = LEAF -> Leaf(Unpacked(NodeKey(d, p)), Value(Mload(d, p + 3)))
          [] type = EXTENSION -> Extension(Unpacked(NodeKey(d, p)), Tree(d, Mload(d, p + 3)))
          [] type = BRANCH ->
                Branch([i \in Nibbles |-> Tree(d, Mload(d, p + 1 + i))], Value(Mload(d, ValueSlot(p))))

----------------------------------------------------------------------------
(* Reading (mpt/read.asm): a pointer to the value, 0 if there is none. *)

read_leaf(d, p, k) == At(d, IF NodeKey(d, p) = k THEN Mload(d, p + 3) ELSE 0)

RECURSIVE mpt_read(_, _, _)
mpt_read(d, p, k) ==
    LET type == Mload(d, p)
    IN  CASE type = EMPTY -> At(d, 0)
          [] type = HASH -> Panic(d)
          [] type = BRANCH ->
                IF k.len = 0 THEN At(d, Mload(d, ValueSlot(p)))
                ELSE mpt_read(d, Mload(d, p + 1 + first_nibble(k)), rest_nibbles(k))
          [] type = EXTENSION ->
                LET n == NodeKey(d, p)
                IN  IF k.key \div Arity^(k.len - n.len) = n.key
                    THEN mpt_read(d, Mload(d, p + 3), truncate_nibbles(n.len, k))
                    ELSE At(d, 0)
          [] type = LEAF -> read_leaf(d, p, k)

----------------------------------------------------------------------------
(* Insertion (mpt/insert/). *)

\* maybe_add_extension_for_common_key
UnderCommon(r, common) ==
    IF ~r.ok \/ common.len = 0 THEN r
    ELSE AppendNode(r.d, <<EXTENSION, common.len, common.key, r.p>>)

\* process_inserted_entry: the value of a new branch, or a leaf below it.
PutInserted(d, branch, k, v) ==
    IF k.len = 0 THEN At(Mstore(d, ValueSlot(branch), v), branch)
    ELSE LET r == rest_nibbles(k)
         IN  At(Mstore(d, branch + 1 + first_nibble(k), Size(d)) \o <<LEAF, r.len, r.key, v>>, branch)

\* node_key_continues: a branch, with what is left of the extension below it.
insert_extension_splits(d, p, s, v) ==
    LET branch == Size(d)
        new == d \o NewBranch
        child == Mload(d, p + 3)
        r == rest_nibbles(s.a)
        placed == IF s.a.len = 1 THEN Mstore(new, branch + 1 + s.a.key, child)
                  ELSE Mstore(new, branch + 1 + first_nibble(s.a), Size(new)) \o <<EXTENSION, r.len, r.key, child>>
    IN  PutInserted(placed, branch, s.b, v)

mpt_insert_leaf(d, p, k, v) ==
    LET s == split_common_prefix(NodeKey(d, p), k)
        branch == Size(d)
        new == d \o NewBranch
        value == Mload(d, p + 3)
        r == rest_nibbles(s.a)
        placed == IF s.a.len = 0 THEN Mstore(new, ValueSlot(branch), value)
                  ELSE Mstore(new, branch + 1 + first_nibble(s.a), Size(new)) \o <<LEAF, r.len, r.key, value>>
    IN  IF NodeKey(d, p) = k THEN At(Mstore(d, p + 3, v), p)
        ELSE UnderCommon(PutInserted(placed, branch, s.b, v), s.common)

\* v: pointer to the value.
RECURSIVE mpt_insert(_, _, _, _)
mpt_insert(d, p, k, v) ==
    LET type == Mload(d, p)
    IN  CASE type = EMPTY -> AppendNode(d, <<LEAF, k.len, k.key, v>>)
          [] type = HASH -> Panic(d)
          [] type = LEAF -> mpt_insert_leaf(d, p, k, v)
          [] type = BRANCH ->
                IF k.len = 0 THEN At(Mstore(d, ValueSlot(p), v), p)
                ELSE LET slot == p + 1 + first_nibble(k)
                         c == mpt_insert(d, Mload(d, slot), rest_nibbles(k), v)
                     IN  IF c.ok THEN At(Mstore(c.d, slot, c.p), p) ELSE c
          [] type = EXTENSION ->
                LET s == split_common_prefix(NodeKey(d, p), k)
                IN  UnderCommon(IF s.a.len = 0 THEN mpt_insert(d, Mload(d, p + 3), s.b, v)
                                ELSE insert_extension_splits(d, p, s, v), s.common)

----------------------------------------------------------------------------
(* Deletion (mpt/delete/), of a key that is in the trie. *)

\* A leaf or an extension takes over a key in front of its own, in place.
Prepend(d, front, p) ==
    LET k == merge_nibbles(front, NodeKey(d, p))
    IN  At(Mstore(Mstore(d, p + 1, k.len), p + 2, k.key), p)

\* Mutant: a branch is left with one child.
maybe_normalize_branch_keep(d, p, nib) == At(Mstore(d, p + 1 + nib, 0), p)

\* maybe_normalize_branch: the child at nib is empty now.
maybe_normalize_branch(d, p, nib) ==
    LET others == {i \in Nibbles \ {nib} : Mload(d, Mload(d, p + 1 + i)) # EMPTY}
        i == CHOOSE j \in others : TRUE
        only == Mload(d, p + 1 + i)
    IN  IF others = {} THEN Panic(d)
        ELSE IF Cardinality(others) > 1 THEN At(Mstore(d, p + 1 + nib, 0), p)
        ELSE IF Mload(d, only) \in {BRANCH, HASH} THEN AppendNode(d, <<EXTENSION, 1, i, only>>)
        ELSE Prepend(d, [len |-> 1, key |-> i], only)

after_mpt_delete_extension(c, p, k) ==
    LET type == Mload(c.d, c.p)
    IN  CASE type = BRANCH -> At(Mstore(c.d, p + 3, c.p), p)
          [] type \in {EXTENSION, LEAF} -> Prepend(c.d, k, c.p)
          [] OTHER -> Panic(c.d)

RECURSIVE mpt_delete(_, _, _)
mpt_delete(d, p, k) ==
    LET type == Mload(d, p)
    IN  CASE type = LEAF -> At(d, 0)
          [] type = BRANCH ->
                IF k.len = 0 THEN Panic(d)
                ELSE LET nib == first_nibble(k)
                         c == mpt_delete(d, Mload(d, p + 1 + nib), rest_nibbles(k))
                     IN  IF ~c.ok THEN c
                         ELSE IF Mload(c.d, c.p) = EMPTY THEN maybe_normalize_branch(c.d, p, nib)
                         ELSE At(Mstore(c.d, p + 1 + nib, c.p), p)
          [] type = EXTENSION ->
                LET n == NodeKey(d, p)
                    c == mpt_delete(d, Mload(d, p + 3), truncate_nibbles(n.len, k))
                IN  IF c.ok THEN after_mpt_delete_extension(c, p, n) ELSE c
          [] OTHER -> Panic(d)

----------------------------------------------------------------------------
(* Hashing (mpt/hash/hash.asm), which counts the words of the trie.  Child    *)
(* pointers and a value's are followed; the length is threaded through.       *)

\* maybe_hash_node
HashOrRaw(b) == [kind |-> IF SizeOf(b) < HashLimit THEN "raw" ELSE "hashed", b |-> b]

HashWords == 2

\* An encoding and the words seen so far.
Enc(e, len) == [e |-> e, len |-> len]

RECURSIVE encode_or_hash_node(_, _, _)
encode_or_hash_node(d, p, len) ==
    LET type == Mload(d, p)
        Value(q) == IF q = 0 THEN NoValue ELSE Mload(d, q)
        RECURSIVE Children(_, _, _)
        Children(i, cs, n) ==
            IF i = Arity THEN [cs |-> cs, len |-> n]
            ELSE LET c == encode_or_hash_node(d, Mload(d, p + 1 + i), n)
                 IN  Children(i + 1, [cs EXCEPT ![i] = c.e], c.len)
    IN  CASE type = HASH -> Enc([kind |-> "hashed", b |-> Mload(d, p + 1)], len + HashWords)
          [] type = EMPTY -> Enc([kind |-> "raw", b |-> [t |-> "emptyE"]], len)
          [] type = LEAF ->
                Enc(HashOrRaw([t |-> "leafE", n |-> Unpacked(NodeKey(d, p)), v |-> Value(Mload(d, p + 3))]),
                    len + 4 + 1)
          [] type = EXTENSION ->
                LET c == encode_or_hash_node(d, Mload(d, p + 3), len + 4)
                IN  Enc(HashOrRaw([t |-> "extE", n |-> Unpacked(NodeKey(d, p)), c |-> c.e]), c.len)
          [] type = BRANCH ->
                LET c == Children(0, NoChildren, len + 2 + Arity)
                    v == Value(Mload(d, ValueSlot(p)))
                IN  Enc(HashOrRaw([t |-> "branchE", cs |-> c.cs, v |-> v]), c.len + IF v = NoValue THEN 0 ELSE 1)

mpt_hash(d, p) == LET r == encode_or_hash_node(d, p, 1) IN [h |-> r.e.b, len |-> r.len]

----------------------------------------------------------------------------
Entries(f) == {<<k, f[k]>> : k \in {k \in Keys : f[k] # NoValue}}

\* A trie, and the part of it that some keys need.
Init ==
    \E f \in [Keys -> 0 .. MaxValue], touched \in SUBSET Keys :
        LET whole == Canon(Entries(f))
            Marks(k) == mark_nodes_that_are_needed(whole, <<>>, k).marked
            marks == {<<>>} \cup UNION {Marks(k) : k \in touched}
            part == create_partial_trie_subset_from_tracked_trie(whole, <<>>, marks)
            loaded == load_mpt(<<EMPTY>>, part)
        IN  /\ Cardinality(Entries(f)) <= MaxEntries
            /\ trie = part /\ data = loaded.d /\ root = loaded.p
            /\ entries = f
            /\ left = Keys \ touched
            /\ old = [p |-> loaded.p, trie |-> part]
            /\ panic = FALSE /\ ops = 0

Ready == ~panic /\ ops < MaxOps

\* insert_next_slot: the value is appended before the insertion.
Insert(k, v) ==
    /\ Ready
    /\ LET r == mpt_insert(Append(data, v), root, Key(k), Size(data))
           t == insert_into_trie_rec(trie, k, Val(v))
       IN  /\ data' = r.d /\ root' = r.p
           /\ panic' = ~r.ok
           /\ trie' = IF IsFail(t) THEN trie ELSE t
    /\ entries' = [entries EXCEPT ![k] = v]
    /\ old' = [p |-> root, trie |-> Tree(data, root)]
    /\ ops' = ops + 1
    /\ UNCHANGED left

\* delete_account, delete_this_slot
Delete(k) ==
    /\ Ready /\ entries[k] # NoValue
    /\ LET r == mpt_delete(data, root, Key(k))
           t == trie_delete(trie, k, FALSE)
       IN  /\ data' = r.d /\ root' = r.p
           /\ panic' = ~r.ok
           /\ trie' = IF t.t = "deleted" THEN t.node ELSE trie
    /\ entries' = [entries EXCEPT ![k] = NoValue]
    /\ old' = [p |-> root, trie |-> Tree(data, root)]
    /\ ops' = ops + 1
    /\ UNCHANGED left

Next ==
    \/ \E k \in Keys, v \in 1 .. MaxValue : Insert(k, v)
    \/ \E k \in Keys : Delete(k)
    \/ ~Ready /\ UNCHANGED vars

Spec == Init /\ [][Next]_vars

----------------------------------------------------------------------------
\* The kernel's trie is the one the prover's crate computes for the same
\* operations, so that the roots the proof is about are the same.
SameTrie == ~panic => Tree(data, root) = trie

\* The kernel's hash of it is the crate's, however small its nodes are.
SameHash == ~panic => mpt_hash(data, root).h = hash_trie(trie)

\* An entry whose nodes are there is read as it was last written, whatever the
\* segment went through.
ReadsLastWritten ==
    ~panic => \A k \in Keys \ left :
        LET r == mpt_read(data, root, Key(k))
        IN  r.ok /\ (IF r.p = 0 THEN NoValue ELSE Mload(data, r.p)) = entries[k]

\* The kernel stops at nodes that are not there, and nowhere else.
PanicsOnlyAtHashes == panic => left # {}

\* hash_initial_tries: the words the hashing of a loaded trie counts are the
\* words the prover wrote, which is the size the kernel then appends at.
SizeCounted == ops = 0 => mpt_hash(data, root).len = Size(data)

\* insert.asm: "Return a copy of the given node, with the given key set to the
\* given value."  delete.asm: "Return a copy of the given node with the given
\* key deleted."
OldTrieKept == Tree(data, old.p) = old.trie
=============================================================================
