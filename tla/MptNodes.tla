------------------------------- MODULE MptNodes -------------------------------
(***************************************************************************)
(* The nodes of a partial Merkle Patricia trie and the algorithms on them: *)
(* insertion, look-up, deletion with its collapses, the iterator, hashing  *)
(* and sub-tries.  A key is a sequence of nibbles; a value is a positive   *)
(* number, 0 is the empty one.                                             *)
(* A hash is the encoding it is the hash of, so hashes do not collide.     *)
(***************************************************************************)
EXTENDS Integers, Sequences, FiniteSets, SequencesExt

CONSTANTS
    Arity,     \* children of a branch: 16 in the code
    HashLimit, \* encodings of this many bytes and more are hashed: 32
    BigValue   \* values from this one on are long enough to be hashed

NodesAssumption ==
    /\ Arity \in Nat \ {0, 1}
    /\ {HashLimit, BigValue} \subseteq Nat \ {0}

Nibbles == 0 .. (Arity - 1)
NoValue == 0

Empty == [t |-> "empty"]
HashNode(h) == [t |-> "hash", h |-> h]
Leaf(n, v) == [t |-> "leaf", n |-> n, v |-> v]
Extension(n, c) == [t |-> "ext", n |-> n, c |-> c]
Branch(cs, v) == [t |-> "branch", cs |-> cs, v |-> v]
NoChildren == [i \in Nibbles |-> Empty]

Fail(e) == [t |-> "error", e |-> e]
IsFail(r) == r.t = "error"

\* What is inserted: a value, or the hash of a part that is left out.
Val(v) == [t |-> "val", v |-> v]
Hsh(h) == [t |-> "hsh", h |-> h]

-----------------------------------------------------------------------------
(* Keys. *)

Smaller(a, b) == IF a < b THEN a ELSE b

\* nibbles_are_identical_up_to_smallest_count
SameUpToSmallest(a, b) == \A i \in 1 .. Smaller(Len(a), Len(b)) : a[i] = b[i]

\* truncate_n_nibbles_front: no more nibbles than there are.
Drop(k, n) == SubSeq(k, Smaller(n, Len(k)) + 1, Len(k))

\* find_nibble_idx_that_differs_between_nibbles_different_lengths
Common(a, b) ==
    LET same == {i \in 0 .. Smaller(Len(a), Len(b)) : \A j \in 1 .. i : a[j] = b[j]}
    IN  CHOOSE i \in same : \A j \in same : j <= i

-----------------------------------------------------------------------------
(* Insertion. *)

create_node_from_insert_val(k, x) ==
    IF x.t = "val" THEN Leaf(k, x.v)
    ELSE IF k = <<>> THEN HashNode(x.h) ELSE Extension(k, HashNode(x.h))

create_node_if_ins_val_not_hash(x, node) ==
    IF x.t = "val" THEN node ELSE Fail("ExistingHashNodeError")

\* The existing node and the new entry under a branch below their common prefix;
\* one of the two may become the branch's value.  old: key of the existing node.
place_branch_and_potentially_ext_prefix(old, existing, k, x) ==
    LET p == Common(old, k)
        child == create_node_from_insert_val(Drop(k, p + 1), x)
        branch ==
            IF p = Len(old) /\ existing.t = "leaf"
            THEN Branch([NoChildren EXCEPT ![k[p + 1]] = child], existing.v)
            ELSE IF p = Len(k)
            THEN IF x.t = "val" THEN Branch([NoChildren EXCEPT ![old[p + 1]] = existing], x.v)
                 ELSE Fail("panic")
            ELSE Branch([NoChildren EXCEPT ![old[p + 1]] = existing, ![k[p + 1]] = child], NoValue)
    IN  IF p = 0 \/ IsFail(branch) THEN branch ELSE Extension(SubSeq(k, 1, p), branch)

RECURSIVE insert_into_trie_rec(_, _, _)
insert_into_trie_rec(node, k, x) ==
    CASE node.t = "empty" -> create_node_from_insert_val(k, x)
      [] node.t = "hash" -> Fail("HashNodeInsertError")
      [] node.t = "branch" ->
            IF k = <<>> THEN create_node_if_ins_val_not_hash(x, Branch(node.cs, IF x.t = "val" THEN x.v ELSE 0))
            ELSE LET c == insert_into_trie_rec(node.cs[k[1]], Tail(k), x)
                 IN  IF IsFail(c) THEN c ELSE Branch([node.cs EXCEPT ![k[1]] = c], node.v)
      [] node.t = "ext" ->
            IF SameUpToSmallest(node.n, k)
            THEN LET c == insert_into_trie_rec(node.c, Drop(k, Len(node.n)), x)
                 IN  IF IsFail(c) THEN c ELSE Extension(node.n, c)
            ELSE LET rest == Drop(node.n, Common(node.n, k) + 1)
                 IN  place_branch_and_potentially_ext_prefix(
                        node.n, IF rest = <<>> THEN node.c ELSE Extension(rest, node.c), k, x)
      [] node.t = "leaf" ->
            IF node.n = k THEN create_node_if_ins_val_not_hash(x, Leaf(k, IF x.t = "val" THEN x.v ELSE 0))
            ELSE place_branch_and_potentially_ext_prefix(
                    node.n, Leaf(Drop(node.n, Common(node.n, k) + 1), node.v), k, x)

\* trie_extend: entries one by one, up to the first that fails; what has been
\* inserted before it stays.
RECURSIVE trie_extend(_, _)
trie_extend(node, entries) ==
    IF entries = <<>> THEN [node |-> node, ok |-> TRUE]
    ELSE LET r == insert_into_trie_rec(node, entries[1][1], entries[1][2])
         IN  IF IsFail(r) THEN [node |-> node, ok |-> FALSE] ELSE trie_extend(r, Tail(entries))

-----------------------------------------------------------------------------
(* Look-up. *)

\* A key shorter than an extension's: pop_nibbles_front underflows.
PanicValue == -1

RECURSIVE trie_get(_, _)
trie_get(node, k) ==
    CASE node.t \in {"empty", "hash"} -> NoValue
      [] node.t = "branch" -> IF k = <<>> THEN node.v ELSE trie_get(node.cs[k[1]], Tail(k))
      [] node.t = "ext" ->
            IF Len(k) < Len(node.n) THEN PanicValue
            ELSE IF SameUpToSmallest(k, node.n) THEN trie_get(node.c, Drop(k, Len(node.n))) ELSE NoValue
      [] node.t = "leaf" -> IF SameUpToSmallest(node.n, k) THEN node.v ELSE NoValue

-----------------------------------------------------------------------------
(* Deletion: nothing there, an error, or the new node and the value deleted. *)

Absent == [t |-> "absent"]
Deleted(node, v) == [t |-> "deleted", node |-> node, v |-> v]

collapse_ext_node_if_needed(n, child, reject) ==
    CASE child.t = "branch" -> Extension(n, child)
      [] child.t = "ext" -> Extension(n \o child.n, child.c)
      [] child.t = "leaf" -> Leaf(n \o child.n, child.v)
      [] child.t = "hash" -> IF reject THEN Fail("ExtensionCollapsedIntoHashError") ELSE Extension(n, child)
      [] OTHER -> Fail("HashNodeExtError")

try_collapse_if_extension(node, reject) ==
    IF node.t = "ext" THEN collapse_ext_node_if_needed(node.n, node.c, reject) ELSE node

NonEmpty(cs) == {i \in Nibbles : cs[i].t # "empty"}

\* A branch whose child at nib has become `child`: it stays, or it becomes an
\* extension of its other child when it has no more than two children.
BranchAfterDelete(node, nib, child, reject) ==
    IF child.t = "empty" /\ Cardinality(NonEmpty(node.cs)) <= 2
    THEN LET others == NonEmpty(node.cs) \ {nib}
             other == CHOOSE i \in others : \A j \in others : i <= j
         IN  IF others = {} THEN Fail("panic") ELSE Extension(<<other>>, node.cs[other])
    ELSE LET c == try_collapse_if_extension(child, reject)
         IN  IF IsFail(c) THEN c ELSE Branch([node.cs EXCEPT ![nib] = c], node.v)

RECURSIVE delete_intern(_, _, _)
delete_intern(node, k, reject) ==
    LET Rebuilt(r, F(_)) ==
            IF r.t # "deleted" THEN r
            ELSE LET u == F(r.node) IN IF IsFail(u) THEN u ELSE Deleted(u, r.v)
        InBranch(c) == BranchAfterDelete(node, k[1], c, reject)
        InExtension(c) == collapse_ext_node_if_needed(node.n, c, reject)
    IN  CASE node.t = "empty" -> Absent
          [] node.t = "hash" -> Fail("HashNodeDeleteError")
          [] node.t = "branch" ->
                IF k = <<>> THEN Deleted(Branch(node.cs, NoValue), node.v)
                ELSE Rebuilt(delete_intern(node.cs[k[1]], Tail(k), reject), InBranch)
          [] node.t = "ext" ->
                IF SameUpToSmallest(node.n, k)
                THEN Rebuilt(delete_intern(node.c, Drop(k, Len(node.n)), reject), InExtension)
                ELSE Absent
          [] node.t = "leaf" -> IF node.n = k THEN Deleted(Empty, node.v) ELSE Absent

\* trie_delete: with a last collapse at the root.
trie_delete(node, k, reject) ==
    LET r == delete_intern(node, k, reject)
    IN  IF r.t # "deleted" THEN r
        ELSE LET root == try_collapse_if_extension(r.node, reject)
             IN  IF IsFail(root) THEN root ELSE Deleted(root, r.v)

-----------------------------------------------------------------------------
(* The iterator: a stack of what is left to visit, and the key of the branch *)
(* that was entered last.                                                    *)

\* advance_iter_to_next_empty_leaf_or_hash_node
RECURSIVE Advance(_, _, _)
Advance(it, node, k) ==
    CASE node.t = "empty" -> [it EXCEPT !.item = <<>>]
      [] node.t = "hash" -> [it EXCEPT !.item = <<<<k, Hsh(node.h)>>>>]
      [] node.t = "branch" ->
            Advance([it EXCEPT !.stack = Append(@, [t |-> "branch", node |-> node, nib |-> 1]), !.key = k],
                    node.cs[0], Append(k, 0))
      [] node.t = "ext" ->
            Advance(IF node.c.t = "hash" THEN it
                    ELSE [it EXCEPT !.stack = Append(@, [t |-> "ext", count |-> Len(node.n)])],
                    node.c, k \o node.n)
      [] node.t = "leaf" -> [it EXCEPT !.item = <<<<k \o node.n, Val(node.v)>>>>]

DropLast(k, n) == SubSeq(k, 1, Len(k) - Smaller(n, Len(k)))

\* One turn of next's loop.
Turn(it0) ==
    LET e == it0.stack[Len(it0.stack)]
        it == [it0 EXCEPT !.stack = Front(@), !.item = <<>>]
    IN  CASE e.t = "root" -> Advance(it, e.node, <<>>)
          [] e.t = "ext" -> [it EXCEPT !.key = DropLast(@, e.count)]
          [] e.t = "branch" ->
                IF e.nib < Arity
                THEN Advance([it EXCEPT !.stack = Append(@, [e EXCEPT !.nib = @ + 1])],
                             e.node.cs[e.nib], Append(it.key, e.nib))
                ELSE [it EXCEPT !.item = IF e.node.v = NoValue THEN <<>> ELSE <<<<it.key, Val(e.node.v)>>>>,
                                !.key = DropLast(@, 1)]

RECURSIVE ItemsFrom(_)
ItemsFrom(it) ==
    IF it.stack = <<>> THEN <<>>
    ELSE LET n == Turn(it) IN n.item \o ItemsFrom(n)

trie_items(node) == ItemsFrom([stack |-> <<[t |-> "root", node |-> node]>>, key |-> <<>>, item |-> <<>>])

-----------------------------------------------------------------------------
(* Hashing.  An encoding is the node with its children replaced by theirs;   *)
(* the size of an encoding is that of its parts.                             *)

HashSize == HashLimit + 1

RECURSIVE SizeOf(_)
SizeOf(b) ==
    LET ChildSize(e) == IF e.kind = "hashed" THEN HashSize ELSE SizeOf(e.b)
        ValueSize(v) == IF v >= BigValue THEN HashLimit ELSE IF v = NoValue THEN 0 ELSE 1
    IN  CASE b.t = "emptyE" -> 1
          [] b.t = "leafE" -> 1 + (Len(b.n) + 1) \div 2 + ValueSize(b.v)
          [] b.t = "extE" -> 1 + (Len(b.n) + 1) \div 2 + ChildSize(b.c)
          [] b.t = "branchE" ->
                LET size[i \in Nibbles \cup {Arity}] ==
                        IF i = Arity THEN ValueSize(b.v) ELSE ChildSize(b.cs[i]) + size[i + 1]
                IN  1 + size[0]

hash_bytes_if_large_enough(b) == [kind |-> IF SizeOf(b) >= HashLimit THEN "hashed" ELSE "raw", b |-> b]

RECURSIVE rlp_encode_and_hash_node(_)
rlp_encode_and_hash_node(node) ==
    CASE node.t = "empty" -> [kind |-> "raw", b |-> [t |-> "emptyE"]]
      [] node.t = "hash" -> [kind |-> "hashed", b |-> node.h]
      [] node.t = "branch" ->
            hash_bytes_if_large_enough(
                [t |-> "branchE", cs |-> [i \in Nibbles |-> rlp_encode_and_hash_node(node.cs[i])], v |-> node.v])
      [] node.t = "ext" ->
            hash_bytes_if_large_enough([t |-> "extE", n |-> node.n, c |-> rlp_encode_and_hash_node(node.c)])
      [] node.t = "leaf" -> hash_bytes_if_large_enough([t |-> "leafE", n |-> node.n, v |-> node.v])

\* hash_trie: the root is hashed even when its encoding is small.
hash_trie(node) == rlp_encode_and_hash_node(node).b

-----------------------------------------------------------------------------
(* Sub-tries.  A tracked node is known by the path to it. *)

\* The nodes that a key marks, from the node at path p; <<>> if it does not run
\* into a hash node.
RECURSIVE mark_nodes_that_are_needed(_, _, _)
mark_nodes_that_are_needed(node, p, k) ==
    LET Into(c, q, rest) ==
            LET r == mark_nodes_that_are_needed(c, q, rest)
            IN  [r EXCEPT !.marked = @ \cup {p}]
    IN  CASE node.t \in {"empty", "leaf"} -> [marked |-> {p}, ok |-> TRUE]
          [] node.t = "hash" -> [marked |-> IF k = <<>> THEN {p} ELSE {}, ok |-> k = <<>>]
          [] node.t = "branch" ->
                IF k = <<>> THEN [marked |-> {p}, ok |-> TRUE]
                ELSE Into(node.cs[k[1]], Append(p, k[1]), Tail(k))
          [] node.t = "ext" ->
                IF k = <<>> THEN [marked |-> {}, ok |-> TRUE]
                ELSE IF SameUpToSmallest(k, node.n) THEN Into(node.c, p \o node.n, Drop(k, Len(node.n)))
                ELSE [marked |-> {p}, ok |-> TRUE]

\* A node that is not marked is hashed away, unless it is too small for that.
RECURSIVE create_partial_trie_subset_from_tracked_trie(_, _, _)
create_partial_trie_subset_from_tracked_trie(node, p, marks) ==
    LET e == rlp_encode_and_hash_node(node)
        Sub(c, q) == create_partial_trie_subset_from_tracked_trie(c, q, marks)
    IN  CASE p \notin marks /\ e.kind = "hashed" -> HashNode(e.b)
          [] node.t = "branch" -> Branch([i \in Nibbles |-> Sub(node.cs[i], Append(p, i))], node.v)
          [] node.t = "ext" -> Extension(node.n, Sub(node.c, p \o node.n))
          [] OTHER -> node

-----------------------------------------------------------------------------
(* Queries. *)

\* path_for_query: the segments of the nodes the key goes through.
RECURSIVE path_for_query(_, _, _)
path_for_query(node, k, final) ==
    CASE node.t \in {"empty", "hash"} -> <<[t |-> node.t, n |-> <<>>]>>
      [] node.t = "branch" ->
            IF k = <<>> THEN <<>>
            ELSE <<[t |-> "branch", n |-> <<k[1]>>]>> \o path_for_query(node.cs[k[1]], Tail(k), final)
      [] node.t = "ext" ->
            LET seg == <<[t |-> "ext", n |-> node.n]>>
            IN  IF SameUpToSmallest(k, node.n) THEN seg \o path_for_query(node.c, Drop(k, Len(node.n)), final)
                ELSE IF final THEN seg ELSE <<>>
      [] node.t = "leaf" -> IF k = node.n \/ final THEN <<[t |-> "leaf", n |-> node.n]>> ELSE <<>>

-----------------------------------------------------------------------------
(* Reference: the trie of a set of entries <<key, value>>. *)

LongestCommon(ks) ==
    LET k == CHOOSE x \in ks : TRUE
        same == {i \in 0 .. Len(k) : \A x \in ks : Len(x) >= i /\ SubSeq(x, 1, i) = SubSeq(k, 1, i)}
    IN  SubSeq(k, 1, CHOOSE i \in same : \A j \in same : j <= i)

RECURSIVE Canon(_)
Canon(entries) ==
    LET p == LongestCommon({e[1] : e \in entries})
        Below(q) == {<<Drop(e[1], Len(q)), e[2]>> : e \in {x \in entries : Len(x[1]) >= Len(q) /\ SubSeq(x[1], 1, Len(q)) = q}}
        here == {e \in entries : e[1] = <<>>}
    IN  IF entries = {} THEN Empty
        ELSE IF Cardinality(entries) = 1 THEN LET e == CHOOSE x \in entries : TRUE IN Leaf(e[1], e[2])
        ELSE IF p # <<>> THEN Extension(p, Canon(Below(p)))
        ELSE Branch([i \in Nibbles |-> Canon(Below(<<i>>))],
                    IF here = {} THEN NoValue ELSE (CHOOSE e \in here : TRUE)[2])
=============================================================================
