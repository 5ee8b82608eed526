-------------------------- MODULE TransientStorage --------------------------
(***************************************************************************)
(* The kernel's transient storage (EIP-1153): an array of                  *)
(* (address, key, value) triples in SEGMENT_TRANSIENT_STORAGE, its length  *)
(* in the global metadata, searched linearly.  Cells are words: nothing in *)
(* the array says whether a cell is an address, a key or a value, and user *)
(* code may store any word, an address that uses transient storage itself  *)
(* included.                                                               *)
(***************************************************************************)
EXTENDS Integers, Sequences, FiniteSets

CONSTANTS Addrs,       \* contract addresses, as words
          Keys,        \* transient slots, as words
          Vals,        \* values, as words; holds 0
          MaxCells,    \* bound: cells of the segment that are modelled
          MaxUndo      \* bound: length of the journal of this segment

Words == Addrs \cup Keys \cup Vals

ASSUME TransientAssumption ==
    /\ 0 \in Vals
    /\ MaxCells \in Nat /\ MaxUndo \in Nat

VARIABLES mem,      \* SEGMENT_TRANSIENT_STORAGE; never erased between transactions
          len,      \* GLOBAL_METADATA_TRANSIENT_STORAGE_LEN (unscaled)
          undo,     \* the journal's TransientStorageChange entries, oldest first
          last,     \* the last TLOAD: what was asked and what was returned
          seen      \* history, read by the properties only: the addresses that used
                    \* transient storage in this transaction, and the words put in
                    \* the cells of keys and values

vars == <<mem, len, undo, last, seen>>

Cells == 0 .. MaxCells - 1

NothingSeen == [addrs |-> {}, words |-> {}]
See(a, ws) == seen' = [addrs |-> seen.addrs \cup {a}, words |-> seen.words \cup ws]

NoLoad == [addr |-> 0, key |-> 0, val |-> 0]

Init == /\ mem = [i \in Cells |-> 0]
        /\ len = 0
        /\ undo = << >>
        /\ last = NoLoad
        /\ seen = NothingSeen

\* The positions at which the linear search stops: every offset is tried,
\* not only the first cell of a triple.
Matches(a, k) == {i \in 0 .. len - 1 : mem[i] = a /\ mem[i + 1] = k}

\* search_transient_storage: the first match, or the end of the array.
Search(a, k) ==
    IF Matches(a, k) = {}
    THEN [found |-> FALSE, pos |-> len, val |-> 0]
    ELSE LET p == CHOOSE i \in Matches(a, k) : \A j \in Matches(a, k) : i <= j
         IN  [found |-> TRUE, pos |-> p, val |-> mem[p + 2]]

TLoad(a, k) ==
    /\ last' = [addr |-> a, key |-> k, val |-> Search(a, k).val]
    /\ See(a, {})
    /\ UNCHANGED <<mem, len, undo>>

\* Mutant: the length forgets the value's cell.
TStore_short(a, k, v) ==
    LET s == Search(a, k) IN
    /\ s.pos + 4 < MaxCells
    /\ v # s.val => Len(undo) < MaxUndo
    /\ mem' = [mem EXCEPT ![s.pos] = a, ![s.pos + 1] = k, ![s.pos + 2] = v]
    /\ len' = IF s.pos + 2 > len THEN s.pos + 2 ELSE len
    /\ undo' = IF v = s.val THEN undo
               ELSE Append(undo, [addr |-> a, key |-> k, prev |-> s.val])
    /\ See(a, {k, v})
    /\ UNCHANGED last

TStore(a, k, v) ==
    LET s == Search(a, k) IN
    /\ s.pos + 4 < MaxCells
    /\ v # s.val => Len(undo) < MaxUndo
    /\ mem' = [mem EXCEPT ![s.pos] = a, ![s.pos + 1] = k, ![s.pos + 2] = v]
    /\ len' = IF s.pos + 2 > len THEN s.pos + 3 ELSE len
    /\ undo' = IF v = s.val THEN undo
               ELSE Append(undo, [addr |-> a, key |-> k, prev |-> s.val])
    /\ See(a, {k, v})
    /\ UNCHANGED last

\* revert_transient_storage_change: the pair must be found again; the entry
\* itself is never removed from the array.
Revert ==
    /\ undo # << >>
    /\ LET e == undo[Len(undo)]
           s == Search(e.addr, e.key)
       IN  /\ s.found
           /\ mem' = [mem EXCEPT ![s.pos + 2] = e.prev]
           /\ See(e.addr, {e.prev})
    /\ undo' = SubSeq(undo, 1, Len(undo) - 1)
    /\ UNCHANGED <<len, last>>

\* Mutant: the length is not reset.
NewTxn_keepsLen ==
    /\ undo' = << >>
    /\ seen' = NothingSeen
    /\ UNCHANGED <<mem, len, last>>

\* reinitialize_memory_pre_txn: only the length is reset.
NewTxn ==
    /\ len' = 0
    /\ undo' = << >>
    /\ seen' = NothingSeen
    /\ UNCHANGED <<mem, last>>

Next == \/ \E a \in Addrs, k \in Keys : TLoad(a, k)
        \/ \E a \in Addrs, k \in Keys, v \in Vals : TStore(a, k, v)
        \/ Revert
        \/ NewTxn

Spec == Init /\ [][Next]_vars

-----------------------------------------------------------------------------
\* The segment's variables keep their types.
TypeOK ==
    /\ mem \in [Cells -> Words]
    /\ len \in Nat /\ (len > 0 => len + 1 < MaxCells)
    /\ undo \in Seq([addr : Addrs, key : Keys, prev : Words])
    /\ seen \in [addrs : SUBSET Addrs, words : SUBSET Words]

\* No address that used transient storage in this transaction was also stored
\* as a key or a value.
Apart == seen.addrs \cap seen.words = {}

\* The triple of a pair, and the value it holds.
Rows(a, k) == {i \in 0 .. len - 1 : i % 3 = 0 /\ mem[i] = a /\ mem[i + 1] = k}
Held(a, k) == IF Rows(a, k) = {} THEN 0 ELSE mem[(CHOOSE i \in Rows(a, k) : TRUE) + 2]

\* A search that answers "found" points at the first cell of a triple, so the
\* value read two cells later is the value of that (address, key) pair
\* (search_transient_storage: "Looks for an address, key pair").  It does not
\* hold: the words of a key and a value, or of a value and the next triple's
\* address, are taken for a pair as well.
SearchFindsPair ==
    \A a \in Addrs, k \in Keys : Search(a, k).found => Search(a, k).pos % 3 = 0

\* While the words of a transaction are apart, every address that is not among
\* the stored words gets what its pair holds, 0 when it has no triple, though
\* every cell is tried and stale cells follow the array.
SearchAnswersPair ==
    Apart => \A a \in Addrs \ seen.words, k \in Keys :
        /\ Search(a, k).found => Search(a, k).pos \in Rows(a, k)
        /\ Search(a, k).val = Held(a, k)

\* The journal's entry can then always be taken back: the pair it names is still
\* in the array ("The value must have been stored", %assert_nonzero).
RevertFindsPair ==
    Apart => \A i \in 1 .. Len(undo) : Search(undo[i].addr, undo[i].key).found

\* Both: searches answer for the pair they were asked about in every transaction
\* whose words are apart, whatever earlier transactions left behind.
FindsPair == SearchAnswersPair /\ RevertFindsPair

\* The array of triples stands for a map from (address, key) to values, and as
\* long as the words of the transaction are apart every operation, with the
\* search it makes, is the operation of that map; a new transaction starts
\* with the empty map again even when the one before was not apart.
Abstract == INSTANCE TransientMap
                WITH map <- [a \in Addrs |-> [k \in Keys |-> Held(a, k)]]
ImplementsMap ==
    /\ Abstract!Init
    /\ [][Apart' => [Abstract!Next]_(Abstract!mapVars)]_vars
=============================================================================
