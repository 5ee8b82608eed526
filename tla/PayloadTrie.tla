----------------------------- MODULE PayloadTrie -----------------------------
(***************************************************************************)
(* The part of a trie that a payload carries is enough for the kernel.     *)
(* The decoder applies a batch's net writes to its trie, in the order a    *)
(* hash map gives them, and notes the nodes that deletions made its        *)
(* branches collapse into; the payload gets the keys of the writes and     *)
(* these nodes, all else hashed away.  The kernel works on that part: it   *)
(* deletes the keys that are gone and then inserts what there is, both in  *)
(* the order of the keys.                                                  *)
(***************************************************************************)
EXTENDS MptNodes

CONSTANTS
    KeyLength,   \* nibbles of a key: 64
    MaxValue,    \* bound: values written and stored
    MaxEntries,  \* bound: entries of the trie
    MaxWrites    \* bound: keys a batch writes

PayloadAssumption == {KeyLength, MaxValue, MaxEntries, MaxWrites} \subseteq Nat

VARIABLES
    start,     \* the trie before the batch
    writes,    \* the batch's net writes: zero deletes
    pending,   \* keys whose write is not applied yet
    trie,      \* the decoder's trie
    reported,  \* additional paths not to hash
    part,      \* the payload's part, then what the kernel makes of it
    stage      \* "apply", "cut", "kernel"

vars == <<start, writes, pending, trie, reported, part, stage>>

Keys == [1 .. KeyLength -> Nibbles]
Held(t) == {k \in Keys : trie_get(t, k) # NoValue}

\* The writes of a batch that change something: a key that is deleted is there.
BatchWrites(t) ==
    {w \in UNION {[ks -> 0 .. MaxValue] : ks \in {x \in SUBSET Keys : Cardinality(x) <= MaxWrites}} :
        \A k \in DOMAIN w : w[k] # trie_get(t, k)}

Init ==
    /\ \E ks \in {x \in SUBSET Keys : Cardinality(x) <= MaxEntries} :
          start = Canon({<<k, 1>> : k \in ks})
    /\ writes \in BatchWrites(start)
    /\ pending = DOMAIN writes
    /\ trie = start
    /\ reported = {}
    /\ part = start
    /\ stage = "apply"

-----------------------------------------------------------------------------
(* The decoder. *)

IntoKey(path) == FlattenSeq([i \in DOMAIN path |-> path[i].n])

\* The path got shorter: the key of what remains.
node_deletion_resulted_in_a_branch_collapse(old, new) ==
    IF Len(old) >= 2 /\ Len(old) > Len(new) THEN {IntoKey(new)} ELSE {}

Remaining(t, u, k) ==
    node_deletion_resulted_in_a_branch_collapse(path_for_query(t, k, TRUE), path_for_query(u, k, TRUE))

\* One write of apply_deltas_to_trie_state.
Apply(k) ==
    LET d == trie_delete(trie, k, TRUE)
    IN  /\ stage = "apply"
        /\ k \in pending
        /\ pending' = pending \ {k}
        /\ IF writes[k] # NoValue
           THEN trie' = insert_into_trie_rec(trie, k, Val(writes[k])) /\ UNCHANGED reported
           ELSE /\ trie' = d.node
                /\ reported' = reported \cup Remaining(trie, d.node, k)
        /\ UNCHANGED <<start, writes, part, stage>>

Marks(keys) == UNION {mark_nodes_that_are_needed(start, <<>>, k).marked : k \in keys}

\* create_minimal_..._partial_tries: of the trie before the batch.
Cut ==
    /\ stage = "apply"
    /\ pending = {}
    /\ part' = create_partial_trie_subset_from_tracked_trie(start, <<>>, Marks(DOMAIN writes \cup reported))
    /\ stage' = "cut"
    /\ UNCHANGED <<start, writes, pending, trie, reported>>

-----------------------------------------------------------------------------
(* The kernel. *)

\* Mutant: the only child left is put under an extension whatever it is.
NormalizeBranch_ext(cs) ==
    LET i == CHOOSE j \in Nibbles : cs[j].t # "empty" IN Extension(<<i>>, cs[i])

\* maybe_normalize_branch: a branch with one child left is an extension of length one of
\* a branch or of a hash, or takes over the key of a leaf or an extension.
NormalizeBranch(cs) ==
    LET i == CHOOSE j \in Nibbles : cs[j].t # "empty"
        c == cs[i]
    IN  CASE c.t \in {"branch", "hash"} -> Extension(<<i>>, c)
          [] c.t = "ext" -> Extension(<<i>> \o c.n, c.c)
          [] c.t = "leaf" -> Leaf(<<i>> \o c.n, c.v)

\* after_mpt_delete_extension
MergeExtension(n, c) ==
    CASE c.t = "branch" -> Extension(n, c)
      [] c.t = "ext" -> Extension(n \o c.n, c.c)
      [] c.t = "leaf" -> Leaf(n \o c.n, c.v)
      [] OTHER -> Fail("panic")

RECURSIVE mpt_delete(_, _)
mpt_delete(node, k) ==
    CASE node.t = "leaf" -> Empty
      [] node.t = "ext" ->
            LET c == mpt_delete(node.c, Drop(k, Len(node.n)))
            IN  IF IsFail(c) THEN c ELSE MergeExtension(node.n, c)
      [] node.t = "branch" ->
            LET c == mpt_delete(node.cs[k[1]], Tail(k))
                cs == [node.cs EXCEPT ![k[1]] = c]
            IN  IF IsFail(c) THEN c
                ELSE IF c.t # "empty" \/ Cardinality(NonEmpty(cs)) > 1 THEN Branch(cs, node.v)
                ELSE IF NonEmpty(cs) = {} THEN Fail("panic")
                ELSE NormalizeBranch(cs)
      [] OTHER -> Fail("panic")

InOrder(ks) == SetToSortSeq(ks, LAMBDA a, b : \E i \in DOMAIN a : a[i] < b[i] /\ \A j \in 1 .. i - 1 : a[j] = b[j])

\* set_final_tries: deletions, then insertions.  The kernel inserts every entry it has;
\* those that are not written are there already.
FinalTrie(t) ==
    LET gone == InOrder({k \in DOMAIN writes : writes[k] = NoValue})
        there == InOrder({k \in DOMAIN writes : writes[k] # NoValue})
        Ins(u, k) == IF IsFail(u) THEN u ELSE insert_into_trie_rec(u, k, Val(writes[k]))
        Del(u, k) == IF IsFail(u) THEN u ELSE mpt_delete(u, k)
    IN  FoldLeft(Ins, FoldLeft(Del, t, gone), there)

set_final_tries ==
    /\ stage = "cut"
    /\ part' = FinalTrie(part)
    /\ stage' = "kernel"
    /\ UNCHANGED <<start, writes, pending, trie, reported>>

Next == (\E k \in pending : Apply(k)) \/ Cut \/ set_final_tries

Spec == Init /\ [][Next]_vars

-----------------------------------------------------------------------------
(* Properties. *)

\* The decoder's trie is that of the entries, whatever the order of the writes.
OrderIrrelevant ==
    pending = {} => trie = Canon({<<k, IF k \in DOMAIN writes THEN writes[k] ELSE 1>> :
                                    k \in {x \in Keys : IF x \in DOMAIN writes THEN writes[x] # 0 ELSE x \in Held(start)}})

\* The kernel ends with the root the decoder announced: no node its deletions run into is
\* hashed away.
KernelAgrees == stage = "kernel" => ~IsFail(part) /\ hash_trie(part) = hash_trie(trie)
==============================================================================
