----------------------------- MODULE PartialTrie -----------------------------
(***************************************************************************)
(* A HashedPartialTrie without hash nodes as a map: it is built and        *)
(* changed entry by entry, and compared with the map of what was put into  *)
(* it.  Beside its root node it keeps the root hash, once it was asked     *)
(* for.  A clone shares the cell the hash is kept in; handles that are     *)
(* cloned and then changed are left out.                                   *)
(*                                                                         *)
(* The second half is about sub-tries (SubsetInit, SubsetNext): the nodes  *)
(* on the paths of some keys, the rest replaced by hashes.  A sub-trie is  *)
(* then worked on in place of the full trie.                               *)
(***************************************************************************)
EXTENDS MptNodes

CONSTANTS
    KeyLengths,  \* lengths of the keys in use
    MaxValue,    \* largest value
    MaxEntries,  \* bound: entries of the trie, or of the one subsets are taken of
    MaxExtend,   \* number of entries given to one extend
    MaxKeys,     \* keys of a subset
    MaxSubsets   \* subsets made of one base trie

TrieAssumption ==
    /\ KeyLengths \subseteq Nat /\ MaxValue \in Nat \ {0}
    /\ {MaxEntries, MaxExtend, MaxKeys, MaxSubsets} \subseteq Nat

VARIABLES
    trie,     \* the root node
    hash,     \* the cached hash: none, or <<h>>
    entries,  \* the map, as a function from keys to values, 0 for absent
    base,     \* the trie subsets are taken of
    touched,  \* the tracked nodes marked as needed, by the path to them
    subset,   \* the last subset, worked on
    full,     \* the base with the same work done on it
    keys,     \* the keys of the last subset
    made      \* number of subsets

vars == <<trie, hash, entries>>
subsetVars == <<base, touched, subset, full, keys, made>>

Keys == UNION {[1 .. l -> Nibbles] : l \in KeyLengths}
Values == 1 .. MaxValue
Held == {<<k, entries[k]>> : k \in {x \in Keys : entries[x] # NoValue}}

None == <<>>
Room == Cardinality(Held) + MaxExtend <= MaxEntries

Init ==
    /\ trie = Empty
    /\ hash = None
    /\ entries = [k \in Keys |-> NoValue]

\* Mutant: an insertion keeps the cached hash.
insert_keep(k, v) ==
    LET r == insert_into_trie_rec(trie, k, Val(v))
    IN  /\ ~IsFail(r) /\ Room
        /\ trie' = r
        /\ entries' = [entries EXCEPT ![k] = v]
        /\ UNCHANGED hash

insert(k, v) ==
    LET r == insert_into_trie_rec(trie, k, Val(v))
    IN  /\ ~IsFail(r) /\ Room
        /\ trie' = r
        /\ hash' = None
        /\ entries' = [entries EXCEPT ![k] = v]

\* extend, and the trie that try_from_iter makes of entries: one insertion after
\* the other.
extend(es) ==
    /\ Room
    /\ hash' = None
    /\ trie' = trie_extend(trie, [i \in DOMAIN es |-> <<es[i][1], Val(es[i][2])>>]).node
    /\ entries' = [k \in Keys |->
          LET at == {i \in DOMAIN es : es[i][1] = k}
          IN  IF at = {} THEN entries[k] ELSE es[CHOOSE i \in at : \A j \in at : j <= i][2]]

delete(k) ==
    LET r == trie_delete(trie, k, TRUE)
    IN  /\ ~IsFail(r)
        /\ trie' = IF r.t = "deleted" THEN r.node ELSE trie
        /\ hash' = None
        /\ entries' = [entries EXCEPT ![k] = NoValue]

\* hash_intern, called of the root when a subset is made without touching it: the
\* hash of a node large enough is cached.
hash_intern ==
    LET e == rlp_encode_and_hash_node(trie)
    IN  /\ hash' = IF hash = None /\ e.kind = "hashed" THEN <<e.b>> ELSE hash
        /\ UNCHANGED <<trie, entries>>

\* What hash() returns.
get_hash == IF hash # None THEN hash[1] ELSE hash_trie(trie)

Next ==
    \/ \E k \in Keys, v \in Values : insert(k, v)
    \/ \E k \in Keys : delete(k)
    \/ \E es \in [1 .. MaxExtend -> Keys \X Values] : extend(es)
    \/ hash_intern

Spec == Init /\ [][Next]_vars

-----------------------------------------------------------------------------
(* Properties. *)

RECURSIVE Shape(_)
Shape(node) ==
    CASE node.t \in {"empty", "hash"} -> TRUE
      [] node.t = "leaf" -> node.v \in Values
      [] node.t = "ext" -> node.n # <<>> /\ node.c.t \in {"branch", "hash"} /\ Shape(node.c)
      [] node.t = "branch" -> node.v \in Values \cup {NoValue} /\ \A i \in Nibbles : Shape(node.cs[i])

\* Extensions have a path and lead to a branch.
TypeOK == entries \in [Keys -> Values \cup {NoValue}] /\ Shape(trie)

\* The trie is that of the entries in it, whatever operations led there: so its
\* root hash does not depend on their order, nor on what was there and deleted.
Canonical == trie = Canon(Held)

\* get returns what was last inserted at a key and not deleted.
GetIsMap == \A k \in Keys : trie_get(trie, k) = entries[k]

Before(a, b) ==
    \/ Len(a) < Len(b) /\ SubSeq(b, 1, Len(a)) = a
    \/ LET p == Common(a, b) IN p < Smaller(Len(a), Len(b)) /\ a[p + 1] < b[p + 1]

\* items produces every entry once, each with its key.
ItemsAreEntries ==
    LET items == trie_items(trie)
    IN  /\ Len(items) = Cardinality(Held)
        /\ {<<items[i][1], items[i][2].v>> : i \in DOMAIN items} = Held

\* PartialTrieIter: "ranges over all the leafs and hash nodes of the trie, in
\* lexicographic order".
ItemsInOrder ==
    LET items == trie_items(trie)
    IN  \A i, j \in DOMAIN items : i < j => Before(items[i][1], items[j][1])

\* No operation on a trie without hash nodes fails.
OperationsSucceed ==
    /\ \A k \in Keys, v \in Values : ~IsFail(insert_into_trie_rec(trie, k, Val(v)))
    /\ \A k \in Keys : ~IsFail(trie_delete(trie, k, TRUE))

\* delete returns the value that was stored.
DeleteReturns ==
    \A k \in Keys : LET r == trie_delete(trie, k, TRUE)
                    IN  entries[k] = IF r.t = "deleted" THEN r.v ELSE NoValue

\* hash() is the hash of what is in the trie, cached or not.
HashRight == get_hash = hash_trie(trie)

-----------------------------------------------------------------------------
(* Sub-tries. *)

\* reset_tracked_trie_state clears the flags of all nodes below the root, and
\* that of a root without children.
reset_tracked_trie_state(marks) ==
    IF base.t \in {"branch", "ext"} THEN marks \cap {<<>>} ELSE {}

RECURSIVE TrieOf(_)
TrieOf(es) ==
    IF es = {} THEN Empty
    ELSE LET e == CHOOSE x \in es : TRUE IN insert_into_trie_rec(TrieOf(es \ {e}), e[1], Val(e[2]))

\* A base trie of some entries.
SubsetInit ==
    \E ks \in {x \in SUBSET Keys : Cardinality(x) <= MaxEntries} : \E f \in [ks -> Values] :
        /\ base = TrieOf({<<k, f[k]>> : k \in ks})
        /\ touched = {}
        /\ subset = base
        /\ full = base
        /\ keys = {}
        /\ made = 0

\* Mutant: the last key's marks are lost.
create_trie_subset_intern_last(ks) ==
    LET kept == {k \in ks : \E l \in ks : l # k /\ k[1] <= l[1]}
        marks == touched \cup UNION {mark_nodes_that_are_needed(base, <<>>, k).marked : k \in kept}
    IN  /\ made < MaxSubsets
        /\ subset' = create_partial_trie_subset_from_tracked_trie(base, <<>>, marks)
        /\ touched' = reset_tracked_trie_state(marks)
        /\ full' = base
        /\ keys' = ks
        /\ made' = made + 1
        /\ UNCHANGED base

\* The next subset of create_trie_subsets, and the flags cleared after it.
create_trie_subset_intern(ks) ==
    LET marks == touched \cup UNION {mark_nodes_that_are_needed(base, <<>>, k).marked : k \in ks}
    IN  /\ made < MaxSubsets
        /\ \A k \in ks : mark_nodes_that_are_needed(base, <<>>, k).ok
        /\ subset' = create_partial_trie_subset_from_tracked_trie(base, <<>>, marks)
        /\ touched' = reset_tracked_trie_state(marks)
        /\ full' = base
        /\ keys' = ks
        /\ made' = made + 1
        /\ UNCHANGED base

\* Work on keys of the subset; an operation that fails leaves the trie alone, and
\* the work stops there: it is not repeated on the full trie.
SubsetInsert(k, v) ==
    LET r == insert_into_trie_rec(subset, k, Val(v))
    IN  /\ ~IsFail(r)
        /\ subset' = r
        /\ full' = insert_into_trie_rec(full, k, Val(v))
        /\ UNCHANGED <<base, touched, keys, made>>

SubsetDelete(k) ==
    LET r == trie_delete(subset, k, TRUE)
        f == trie_delete(full, k, TRUE)
    IN  /\ r.t = "deleted"
        /\ subset' = r.node
        /\ full' = IF f.t = "deleted" THEN f.node ELSE full
        /\ UNCHANGED <<base, touched, keys, made>>

SubsetNext ==
    \/ \E ks \in {x \in SUBSET Keys : Cardinality(x) <= MaxKeys} : create_trie_subset_intern(ks)
    \/ \E k \in keys, v \in Values : SubsetInsert(k, v)
    \/ \E k \in keys : SubsetDelete(k)

SubsetSpec == SubsetInit /\ [][SubsetNext]_subsetVars

-----------------------------------------------------------------------------
(* Properties of sub-tries. *)

\* A subset has the root of its base, and keeps having it while both are worked
\* on: what was cut away does not show.
SameRoot == hash_trie(subset) = hash_trie(full)

\* The keys of the subset can be read and written in it: none is behind a hash.
KeysKept ==
    \A k \in keys :
        /\ trie_get(subset, k) = trie_get(full, k)
        /\ \A v \in Values : ~IsFail(insert_into_trie_rec(subset, k, Val(v)))

\* "Any nodes that are not needed in the subset are replaced with Hash nodes as far
\* up the trie as possible": a subset is what its keys alone make of the base.
SubsetIsFresh ==
    [][\A ks \in SUBSET Keys : create_trie_subset_intern(ks) =>
        subset' = create_partial_trie_subset_from_tracked_trie(base, <<>>,
                    UNION {mark_nodes_that_are_needed(base, <<>>, k).marked : k \in ks})]_subsetVars

\* Deleting a key of the subset fails only when the branch it was in is left with
\* one child that was cut away.
DeleteFailsOnOrphanOnly ==
    \A k \in keys :
        LET r == trie_delete(subset, k, TRUE)
        IN  IsFail(r) => r.e = "ExtensionCollapsedIntoHashError" /\ trie_delete(full, k, TRUE).t = "deleted"
=============================================================================
