---------------------------- MODULE SparseMerkleTree ----------------------------
(***************************************************************************)
(* The sparse Merkle tree of the smt_trie crate (smt.rs): keys of several  *)
(* limbs, whose bits are taken in turn; leaves as high as their keys allow *)
(* and parts of which only the hash is known; serialization for the        *)
(* kernel.                                                                 *)
(*                                                                         *)
(* A hash is what it is the hash of, so hashes do not collide; the db has  *)
(* every node that was hashed, and none of the hashes of set_hash.         *)
(***************************************************************************)
EXTENDS Integers, Sequences, SequencesExt, FiniteSets

CONSTANTS
    Limbs,          \* limbs of a key: 4
    LimbBits,       \* bits of a limb: 64
    Keys,
    MaxValue,
    HashPlaces,     \* where hashes may be placed: sequences of bits
    Nested,         \* whether a hash may be placed below another
    MaxOps

SparseMerkleTreeAssumption ==
    /\ {Limbs, LimbBits} \subseteq Nat \ {0} /\ MaxValue \in Nat /\ MaxOps \in Nat
    /\ Keys \subseteq [1 .. Limbs -> 0 .. 2^LimbBits - 1]
    /\ Nested \in BOOLEAN

VARIABLES
    root,
    kvStore,        \* kv_store, 0: no entry
    hashes,         \* where hashes have been placed
    started,        \* set has been called
    panic,
    ops

vars == <<root, kvStore, hashes, started, panic, ops>>

Zero == [t |-> "zero"]
Leaf(rem, v) == [t |-> "leaf", rem |-> rem, v |-> v]
Internal(l, r) == [t |-> "internal", c |-> <<l, r>>]
Opaque(bits) == [t |-> "opaque", at |-> bits]
Failed(why) == [t |-> "panic", why |-> why]

\* A node with its child at the bit replaced.
WithChild(node, b, h) == [node EXCEPT !.c[b + 1] = h]
OneChild(b, h) == WithChild(Internal(Zero, Zero), b, h)

----------------------------------------------------------------------------
(* Keys.  Bit i of a key, from 0, is bit i \div Limbs of limb i % Limbs. *)

KeyBits == Limbs * LimbBits
BitAt(key, i) == (key[(i % Limbs) + 1] \div 2^(i \div Limbs)) % 2
split(key) == [i \in 1 .. KeyBits |-> BitAt(key, i - 1)]

\* The bits of limb l among the first n.
InLimb(n, l) == {i \in 0 .. n - 1 : i % Limbs = l - 1}

join(bits, rem) ==
    [l \in 1 .. Limbs |->
        FoldLeft(LAMBDA acc, i : IF i % Limbs = l - 1 THEN acc + bits[i + 1] * 2^(i \div Limbs) ELSE acc,
                 rem[l] * 2^Cardinality(InLimb(Len(bits), l)), [i \in 1 .. Len(bits) |-> i - 1])]

remove_key_bits(key, n) ==
    [l \in 1 .. Limbs |->
        key[l] \div 2^((n \div Limbs) + IF (n \div Limbs) * Limbs + (l - 1) < n THEN 1 ELSE 0)]

Prefix(bits, n) == SubSeq(bits, 1, n)

----------------------------------------------------------------------------
(* The way down: the internal nodes met, and what is at their end. *)

RECURSIVE Walk(_, _, _)
Walk(r, bits, siblings) ==
    IF r.t # "internal" THEN [siblings |-> siblings, end |-> r]
    ELSE Walk(r.c[bits[Len(siblings) + 1] + 1], bits, Append(siblings, r))

FoundKey(w, bits) == join(Prefix(bits, Len(w.siblings)), w.end.rem)

\* The way up: h becomes the child of node n (from 1) of the path, and so on.
RECURSIVE Up(_, _, _, _)
Up(siblings, bits, n, h) ==
    IF n = 0 THEN h ELSE Up(siblings, bits, n - 1, WithChild(siblings[n], bits[n], h))

\* get_unique_sibling
Children(node) == {b \in {0, 1} : node.c[b + 1] # Zero}
HasUnique(node) == Cardinality(Children(node)) = 1

\* Two leaves below level n: a chain of nodes with one child for the bits they
\* share, and a node with both.
Fork(bits, key, v, found, foundV, n) ==
    LET other == split(found)
        level2 == CHOOSE i \in n + 1 .. KeyBits :
                     bits[i] # other[i] /\ \A j \in n + 1 .. i - 1 : bits[j] = other[j]
        node == WithChild(OneChild(bits[level2], Leaf(remove_key_bits(key, level2), v)),
                          other[level2], Leaf(remove_key_bits(found, level2), foundV))
    IN  FoldRight(LAMBDA b, h : OneChild(b, h), SubSeq(bits, n + 1, level2 - 1), node)

\* Mutant: the leaf that is left alone moves up one level only.
RemoveLeaf_oneLevel(w, bits) ==
    LET n == Len(w.siblings)
        parent == WithChild(w.siblings[n], bits[n], Zero)
        u == CHOOSE b \in Children(parent) : TRUE
        only == parent.c[u + 1]
        key == join(Append(Prefix(bits, n - 1), u), only.rem)
    IN  IF n = 0 THEN Zero
        ELSE IF ~HasUnique(parent) THEN Failed("no sibling")
        ELSE IF only.t = "opaque" THEN Failed("hash")
        ELSE IF only.t # "leaf" THEN Up(w.siblings, bits, n, Zero)
        ELSE Up(w.siblings, bits, n - 1, Leaf(remove_key_bits(key, n - 1), only.v))

\* Removal of the leaf at the end of the path.  A leaf that is left alone moves
\* up past the nodes that have no other child.
RemoveLeaf(w, bits) ==
    LET n == Len(w.siblings)
        parent == WithChild(w.siblings[n], bits[n], Zero)
        u == CHOOSE b \in Children(parent) : TRUE
        only == parent.c[u + 1]
        key == join(Append(Prefix(bits, n - 1), u), only.rem)
        forks == {i \in 1 .. n - 1 : ~HasUnique(w.siblings[i])}
        top == IF forks = {} THEN 0 ELSE CHOOSE i \in forks : \A j \in forks : j <= i
    IN  IF n = 0 THEN Zero
        ELSE IF ~HasUnique(parent) THEN Failed("no sibling")
        ELSE IF only.t = "opaque" THEN Failed("hash")
        ELSE IF only.t # "leaf" THEN Up(w.siblings, bits, n, Zero)
        ELSE Up(w.siblings, bits, top, Leaf(remove_key_bits(key, top), only.v))

\* The root after set.
SetRoot(key, v) ==
    LET bits == split(key)
        w == Walk(root, bits, <<>>)
        n == Len(w.siblings)
        here == w.end.t = "leaf" /\ FoundKey(w, bits) = key
    IN  IF w.end.t = "opaque" THEN Failed("hash")
        ELSE IF v = 0 THEN IF here THEN RemoveLeaf(w, bits) ELSE root
        ELSE IF here THEN Up(w.siblings, bits, n, Leaf(w.end.rem, v))
        ELSE IF w.end.t = "leaf"
        THEN Up(w.siblings, bits, n, Fork(bits, key, v, FoundKey(w, bits), w.end.v, n))
        ELSE Up(w.siblings, bits, n, Leaf(remove_key_bits(key, n), v))

\* The nodes on the way to where a hash is to be placed: a hash that is not in
\* the db is taken for a node without children.
RECURSIVE HashWalk(_, _, _)
HashWalk(r, bits, siblings) ==
    IF Len(siblings) = Len(bits) THEN [siblings |-> siblings, end |-> r]
    ELSE LET node == IF r.t = "internal" THEN r ELSE Internal(Zero, Zero)
         IN  HashWalk(node.c[bits[Len(siblings) + 1] + 1], bits, Append(siblings, node))

\* The root after set_hash, when no leaf is in the tree.
SetHashRoot(bits) ==
    LET w == HashWalk(root, bits, <<>>)
    IN  IF w.end # Zero THEN Failed("not empty") ELSE Up(w.siblings, bits, Len(bits), Opaque(bits))

----------------------------------------------------------------------------
(* Reading: get has no answer where the path ends without a leaf. *)

None == [found |-> FALSE, v |-> 0]

get(key) ==
    LET bits == split(key)
        w == Walk(root, bits, <<>>)
    IN  IF w.end.t # "leaf" THEN None
        ELSE [found |-> TRUE, v |-> IF FoundKey(w, bits) = key THEN w.end.v ELSE 0]

----------------------------------------------------------------------------
(* Serialization: cells at their pointers, of 2 words for a hash and of 3  *)
(* for the others; pointer 0 is the empty node.                            *)

Cell(out, ptr, c, words) ==
    [len |-> out.len + words, cells |-> [p \in DOMAIN out.cells \cup {ptr} |-> IF p = ptr THEN c ELSE out.cells[p]]]
HashCell(h) == [t |-> "hash", h |-> h]
EmptyOut == [len |-> 2, cells |-> [p \in {0} |-> HashCell(Zero)]]

keys_to_include(keys) == {Prefix(split(k), n) : k \in keys, n \in 0 .. KeyBits}

RECURSIVE serialize(_, _, _, _)
serialize(h, out, cur, include) ==
    LET index == out.len
    IN  IF h = Zero THEN [out |-> out, ptr |-> 0]
        ELSE IF cur \notin include \/ h.t = "opaque" THEN [out |-> Cell(out, index, HashCell(h), 2), ptr |-> index]
        ELSE IF h.t = "leaf" THEN [out |-> Cell(out, index, h, 3), ptr |-> index]
        ELSE LET l == serialize(h.c[1], Cell(out, index, HashCell(Zero), 3), Append(cur, 0), include)
                 r == serialize(h.c[2], l.out, Append(cur, 1), include)
             IN  [out |-> Cell(r.out, index, [t |-> "internal", p |-> <<l.ptr, r.ptr>>], 0), ptr |-> index]

serialize_and_prune(keys) ==
    LET out == serialize(root, EmptyOut, <<>>, keys_to_include(keys)).out
    IN  IF out.len = 2 THEN Cell(out, 2, HashCell(Zero), 2) ELSE out

RECURSIVE hash_serialize(_, _)
hash_serialize(out, ptr) ==
    LET c == out.cells[ptr]
    IN  CASE c.t = "hash" -> c.h
          [] c.t = "internal" -> Internal(hash_serialize(out, c.p[1]), hash_serialize(out, c.p[2]))
          [] c.t = "leaf" -> Leaf(c.rem, c.v)

----------------------------------------------------------------------------

Init ==
    /\ root = Zero
    /\ kvStore = [k \in Keys |-> 0]
    /\ hashes = {}
    /\ started = FALSE
    /\ panic = ""
    /\ ops = 0

\* A step of the tree: the new root, or a panic that leaves the old one.
Becomes(r) ==
    /\ root' = IF r.t = "panic" THEN root ELSE r
    /\ panic' = IF r.t = "panic" THEN r.why ELSE ""
    /\ ops' = ops + 1

\* set with a value, and delete: kv_store first.
Set(key, v) ==
    /\ panic = "" /\ ops < MaxOps
    /\ kvStore' = [kvStore EXCEPT ![key] = v]
    /\ Becomes(SetRoot(key, v))
    /\ started' = TRUE
    /\ UNCHANGED hashes

\* set_hash is called before any call to set, as it asks for, and with bits
\* that no other hash is above or below, unless Nested.
SetHash(bits) ==
    /\ panic = "" /\ ops < MaxOps /\ ~started
    /\ Nested \/ \A h \in hashes : ~IsStrictPrefix(h, bits)
    /\ Becomes(SetHashRoot(bits))
    /\ hashes' = IF panic' = "" THEN hashes \cup {bits} ELSE hashes
    /\ UNCHANGED <<kvStore, started>>

\* The calls are over, or one has panicked.
Done ==
    /\ panic # "" \/ ops = MaxOps
    /\ UNCHANGED vars

Next ==
    \/ \E key \in Keys, v \in 0 .. MaxValue : Set(key, v)
    \/ \E bits \in HashPlaces : SetHash(bits)
    \/ Done

Spec == Init /\ [][Next]_vars

----------------------------------------------------------------------------
(* Properties *)

Present == {k \in Keys : kvStore[k] # 0}
Under(bits) == {k \in Present : IsPrefix(bits, split(k))}

\* The tree with the given entries and hashes, from its definition: a leaf
\* where one entry is alone, an internal node where there is more.
RECURSIVE Reference(_)
Reference(bits) ==
    LET below == {h \in hashes : IsPrefix(bits, h)}
    IN  IF bits \in hashes THEN Opaque(bits)
        ELSE IF Under(bits) = {} /\ below = {} THEN Zero
        ELSE IF Cardinality(Under(bits)) = 1 /\ below = {}
        THEN LET k == CHOOSE k \in Under(bits) : TRUE
             IN  Leaf([l \in 1 .. Limbs |-> k[l] \div 2^Cardinality(InLimb(Len(bits), l))], kvStore[k])
        ELSE Internal(Reference(Append(bits, 0)), Reference(Append(bits, 1)))

\* The root depends on the entries and the hashes alone: whatever was set,
\* overwritten and deleted before, and in whatever order.
Canonical == panic = "" => root = Reference(<<>>)

\* get answers with the value last set, and never with the value of another
\* key; where it has no answer, the key is not in the tree.
GetsWhatWasSet ==
    panic = "" => \A k \in Keys : IF get(k).found THEN get(k).v = kvStore[k] ELSE kvStore[k] = 0

\* Only hashes stop an operation: a deletion always finds the other child of
\* the node above the leaf.
PanicsOnlyAtHashes == panic # "no sibling" /\ (hashes = {} => panic = "")

\* Whatever keys the serialization is pruned to, its hash is the root.
SerializedHash ==
    panic = "" => \A keys \in SUBSET Keys : hash_serialize(serialize_and_prune(keys), 2) = root

\* The value of a key, read from a serialization: 0 at an empty node or at the
\* leaf of another key.
RECURSIVE ReadCells(_, _, _, _)
ReadCells(out, key, n, ptr) ==
    LET c == out.cells[ptr]
    IN  CASE c.t = "internal" -> ReadCells(out, key, n + 1, c.p[split(key)[n + 1] + 1])
          [] c.t = "leaf" -> [found |-> TRUE, v |-> IF join(Prefix(split(key), n), c.rem) = key THEN c.v ELSE 0]
          [] c.t = "hash" -> [found |-> c.h = Zero, v |-> 0]

\* A serialization answers for each of the keys it is pruned to, unless the key
\* is below a hash.
PrunedReads ==
    panic = "" =>
        \A keys \in SUBSET Keys : \A k \in keys :
            (\A h \in hashes : ~IsPrefix(h, split(k)))
                => ReadCells(serialize_and_prune(keys), k, 0, 2) = [found |-> TRUE, v |-> kvStore[k]]

\* get returns 0 for a key that is not in the tree, as its comment says, be it
\* a tree with an entry.
GetTotal ==
    panic = "" /\ Present # {} => \A k \in Keys : (\A h \in hashes : ~IsPrefix(h, split(k))) => get(k).found

\* A hash that was placed stays in the tree: set_hash is to refuse a place
\* that is not empty.
HashesKept ==
    panic = "" => \A h \in hashes : HashWalk(root, h, <<>>).end = Opaque(h)
=============================================================================
