----------------------------- MODULE AccessList -----------------------------
(***************************************************************************)
(* The kernel's access lists: a circular singly linked list, sorted by     *)
(* key, in SEGMENT_ACCESSED_ADDRESSES or SEGMENT_ACCESSED_STORAGE_KEYS.    *)
(* Node 0 is the special node, whose key is above every other.  The kernel *)
(* never searches: the prover hands it a node, and the kernel checks that  *)
(* the node is the right one and panics otherwise.  A key is a pair of     *)
(* numbers; the address list is the instance whose second numbers are 0.   *)
(* Pointers are node indices, so the list's length is counted in nodes.    *)
(***************************************************************************)
EXTENDS Integers, Sequences

CONSTANTS Keys,      \* the keys that can be accessed
          Sticky,    \* keys whose revert is a no-op (RIP160 in the address list)
          Top,       \* @U256_MAX as a key's first number
          MaxNodes   \* bound: nodes of the segment that are modelled

ASSUME AccessAssumption ==
    /\ Top \in Nat
    /\ Keys \subseteq (0 .. Top - 1) \X Nat
    /\ MaxNodes \in Nat \ {0}

VARIABLES key,      \* the key cells of the segment's nodes
          next,     \* their next-pointer cells
          len,      \* the segment's length in the global metadata
          undo,     \* the journal's *_LOADED entries, oldest first
          result    \* what the last access answered

vars == <<key, next, len, undo, result>>

Nodes == 0 .. MaxNodes - 1
Deleted == -1                  \* @U256_MAX as a next pointer
Special == <<Top, 0>>

\* The comparison of the address list, and of the storage list on both numbers.
Lt(x, y) == x[1] < y[1] \/ (x[1] = y[1] /\ x[2] < y[2])

\* init_access_lists: the special node points to itself; the rest of the
\* segment keeps what earlier transactions wrote.
Init == /\ key = [i \in Nodes |-> Special]
        /\ next = [i \in Nodes |-> 0]
        /\ len = 1
        /\ undo = << >>
        /\ result = 0

\* Mutant: the successor is not compared.
InsertNew_unsorted(x, p) ==
    /\ next[p] # Deleted
    /\ len < MaxNodes
    /\ key' = [key EXCEPT ![len] = x]
    /\ next' = [next EXCEPT ![p] = len, ![len] = next[p]]
    /\ len' = len + 1
    /\ undo' = Append(undo, x)
    /\ result' = 1

\* insert_new_address, insert_storage_key: the predecessor is no deleted node
\* and the key fits before its successor.
InsertNew(x, p) ==
    /\ next[p] # Deleted
    /\ Lt(x, key[next[p]])
    /\ len < MaxNodes
    /\ key' = [key EXCEPT ![len] = x]
    /\ next' = [next EXCEPT ![p] = len, ![len] = next[p]]
    /\ len' = len + 1
    /\ undo' = Append(undo, x)
    /\ result' = 1

\* address_found, storage_key_found: the prover's node holds the key.
Found(x, p) ==
    /\ key[p] = x
    /\ next[p] # Deleted
    /\ result' = 0
    /\ UNCHANGED <<key, next, len, undo>>

\* insert_accessed_addresses, insert_accessed_storage_keys, given the node p.
Insert(x, p) ==
    /\ p < len
    /\ IF p = 0 \/ Lt(key[p], x) THEN InsertNew(x, p) ELSE Found(x, p)

\* remove_accessed_addresses, remove_accessed_storage_keys.  A deleted node's
\* next pointer is no address: reading through it panics.
Remove(x, p) ==
    /\ p < len /\ next[p] # Deleted
    /\ key[next[p]] = x
    /\ next' = [next EXCEPT ![p] = next[next[p]], ![next[p]] = Deleted]
    /\ UNCHANGED <<key, len>>

\* revert_account_loaded, revert_storage_loaded of the newest journal entry.
Revert(p) ==
    /\ undo # << >>
    /\ LET x == undo[Len(undo)]
       IN  IF x \in Sticky THEN UNCHANGED <<key, next, len>> ELSE Remove(x, p)
    /\ undo' = SubSeq(undo, 1, Len(undo) - 1)
    /\ UNCHANGED result

\* Mutant: the special node keeps pointing into the last transaction's list.
NewTxn_stale ==
    /\ key' = [key EXCEPT ![0] = Special]
    /\ len' = 1
    /\ undo' = << >>
    /\ UNCHANGED <<next, result>>

\* init_access_lists for the next transaction; the journal starts anew.
NewTxn ==
    /\ key' = [key EXCEPT ![0] = Special]
    /\ next' = [next EXCEPT ![0] = 0]
    /\ len' = 1
    /\ undo' = << >>
    /\ UNCHANGED result

Next == \/ \E x \in Keys, p \in Nodes : Insert(x, p)
        \/ \E p \in Nodes : Revert(p)
        \/ NewTxn

Spec == Init /\ [][Next]_vars

-----------------------------------------------------------------------------
(* The prover's hints.                                                     *)

\* The nodes the prover's iterator visits, from the special node on.
Live == {i \in 0 .. len - 1 : next[i] # Deleted}

\* run_next_addresses_insert, run_next_storage_insert: the first node of the
\* cycle with key <= x < next key; the special node counts as below.
InsertHints(x) ==
    {p \in Live : (p = 0 \/ Lt(key[p], x) \/ key[p] = x) /\ Lt(x, key[next[p]])}

\* run_next_addresses_remove, run_next_storage_remove.
RemoveHints(x) == {p \in Live : key[next[p]] = x}

-----------------------------------------------------------------------------
(* Properties.                                                             *)

TypeOK ==
    /\ key \in [Nodes -> Keys \cup {Special}]
    /\ next \in [Nodes -> Nodes \cup {Deleted}]
    /\ len \in 1 .. MaxNodes
    /\ undo \in Seq(Keys)
    /\ result \in {0, 1}

\* The nodes that are not deleted form one sorted cycle through the special node: a
\* node's successor is live and is the next greater key (access_lists.asm: "stored in
\* a sorted linked list"), whatever node the prover handed in.
SortedCycle ==
    /\ 0 \in Live /\ key[0] = Special
    /\ \A i \in Live \ {0} : key[i] \in Keys
    /\ \A i \in Live : next[i] \in Live
    /\ \A i \in Live : i # 0 /\ next[i] # 0 => Lt(key[i], key[next[i]])
    /\ \A i \in Live, j \in Live \ {0} :
          (i = 0 \/ Lt(key[i], key[j]))
             => j = next[i] \/ (next[i] # 0 /\ Lt(key[next[i]], key[j]))

\* A key is in the list at most once, so a key that was removed cannot still be
\* answered warm by another node.
NoKeyTwice == \A i, j \in Live \ {0} : key[i] = key[j] => i = j

\* Every journalled key is in the list, and is journalled once: the revert of a frame
\* finds the key it must remove (remove_accessed_addresses: "Panics if the address is
\* not in the access list").
JournalledIsWarm ==
    /\ \A n \in 1 .. Len(undo) : \E i \in Live \ {0} : key[i] = undo[n]
    /\ \A m, n \in 1 .. Len(undo) : undo[m] = undo[n] => m = n

\* The prover's search stops for every key that may be inserted and for the key that
\* is reverted next ("If the element is not in the list, it loops forever",
\* prover_input.rs), and the kernel accepts the one node it stops at.
HintFound ==
    /\ \A x \in Keys : \E p \in InsertHints(x) :
          /\ InsertHints(x) = {p}
          /\ IF p = 0 \/ Lt(key[p], x) THEN Lt(x, key[next[p]]) ELSE key[p] = x
    /\ undo # << >> => RemoveHints(undo[Len(undo)]) # {}

\* The list is what both sides rely on.
ListRight == SortedCycle /\ JournalledIsWarm /\ HintFound

WarmKeys == {key[i] : i \in Live \ {0}}

Abstract == INSTANCE WarmSet WITH warm <- WarmKeys

\* Whatever nodes the prover hands in, the accepted operations are those of a set of
\* warm keys: an access answers cold exactly when the key is not in the set, and the
\* nodes that stay behind in the segment, deleted or of an earlier transaction, never
\* show.
ImplementsWarmSet == Abstract!Spec
=============================================================================
