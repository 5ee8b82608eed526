----------------------------- MODULE ProverInput -----------------------------
(***************************************************************************)
(* Fetching the prover input of the blocks of an interval from a node.     *)
(* Every request goes through a retrying transport; blocks are cached by   *)
(* number, whichever kind of block was asked for.  A block's input needs   *)
(* the block with its transactions, its parent, and the hashes of the      *)
(* PrevCount blocks before it, two of which come with every request.       *)
(***************************************************************************)
EXTENDS Integers, Sequences

CONSTANTS
    MaxFirst,    \* the interval starts at a block number up to this one
    MaxLength,   \* the interval has up to this many blocks
    PrevCount,   \* PREVIOUS_HASHES_COUNT
    MaxRetries,  \* max_retries of the retry policy
    MaxErrors    \* transport errors in a behaviour

ASSUME InputAssumption ==
    /\ {MaxFirst, MaxRetries, MaxErrors} \subseteq Nat
    /\ MaxLength \in Nat \ {0}
    /\ PrevCount \in Nat \ {0} /\ PrevCount % 2 = 0

VARIABLES
    sequential,  \* the rpc binary, one block after the other, not the leader, all at once
    first,       \* first block of the interval
    length,      \* number of its blocks
    cache,       \* blocks_by_number: kind of the cached block
    task,        \* state of each get_block call
    errors,      \* transport errors so far
    failed       \* blocks whose input could not be fetched

inputVars == <<sequential, first, length, cache, task, errors, failed>>

Chain == 0 .. (MaxFirst + MaxLength)
Kinds == {"hashes", "full"}
InputBlocks == first .. (first + length - 1)

Hash(n) == <<"hash", n>>
Zero == <<"zero">>
\* parent_hash of a block's header
ParentHash(n) == IF n = 0 THEN Zero ELSE Hash(n - 1)

-----------------------------------------------------------------------------
(* fetch_other_block_data: which blocks are asked for, and where their hashes go. *)

OddOffset(t) == t % 2

\* successors(..).take(PREVIOUS_HASHES_COUNT + 1).filter(>= 0)
PreviousNumbers(t) ==
    LET from == t - 1 + OddOffset(t)
        count == IF from + 1 < PrevCount + 1 THEN from + 1 ELSE PrevCount + 1
    IN  [i \in 1 .. count |-> from + 1 - i]

\* chunks(2): one request for the first of each chunk; it also has the hash of
\* the second, when there is one.
Asked(t) ==
    LET ns == PreviousNumbers(t)
    IN  {ns[i] : i \in {j \in DOMAIN ns : j % 2 = 1}}

\* The pairs (hash, number) that the requests bring, flattened.
NoNumber == -1
Collected(t) ==
    LET ns == PreviousNumbers(t)
        m == (Len(ns) + 1) \div 2
    IN  [k \in 1 .. 2 * m |->
            LET i == 2 * ((k + 1) \div 2) - 1
            IN  IF k % 2 = 1 THEN <<Hash(ns[i]), ns[i]>>
                ELSE <<ParentHash(ns[i]), IF i < Len(ns) THEN ns[i + 1] ELSE NoNumber>>]

\* Mutant: the block itself is not skipped when its number is odd.
Kept_noSkip(t) ==
    {i \in 1 .. PrevCount : i <= Len(Collected(t)) /\ Collected(t)[i][2] # NoNumber}

\* skip(odd_offset).take(PREVIOUS_HASHES_COUNT): the pairs that are stored, in this
\* order, those without a number aside.
Kept(t) ==
    {i \in OddOffset(t) + 1 .. OddOffset(t) + PrevCount :
        i <= Len(Collected(t)) /\ Collected(t)[i][2] # NoNumber}

\* The index computed, which must be one of the array: the most recent hash is last.
Slot(t, n) == PrevCount - (t - n)

PrevHashes(t) ==
    [k \in 0 .. (PrevCount - 1) |->
        LET here == {i \in Kept(t) : Slot(t, Collected(t)[i][2]) = k}
        IN  IF here = {} THEN Zero
            ELSE Collected(t)[CHOOSE i \in here : \A j \in here : j <= i][1]]

-----------------------------------------------------------------------------
(* The get_block calls of a block's input: the block with its transactions,  *)
(* its parent, the block with hashes only, and the blocks before it.         *)

Calls(t) ==
    {<<t, "trace", t>>, <<t, "other", t>>} \cup {<<t, "parent", t - 1>>}
        \cup {<<t, "prev", n>> : n \in Asked(t)}

AllCalls == UNION {Calls(t) : t \in InputBlocks}
KindOf(call) == IF call[2] = "trace" THEN "full" ELSE "hashes"
Idle == [state |-> "idle", tries |-> 0, got |-> "none"]
Got(kind) == [state |-> "done", tries |-> 0, got |-> kind]

InputTypeOK ==
    /\ sequential \in BOOLEAN
    /\ first \in 1 .. MaxFirst
    /\ length \in 1 .. MaxLength
    /\ cache \in [Chain -> Kinds \cup {"none"}]
    /\ DOMAIN task = AllCalls
    /\ \A c \in AllCalls : task[c] \in [state : {"idle", "sent", "done"}, tries : 0 .. MaxRetries,
                                        got : Kinds \cup {"none"}]
    /\ errors \in 0 .. MaxErrors
    /\ failed \subseteq InputBlocks

\* The checkpoint block, before the interval, has been fetched with its hashes.
InputInit ==
    /\ sequential \in BOOLEAN
    /\ first \in 1 .. MaxFirst
    /\ length \in 1 .. MaxLength
    /\ \E checkpoint \in 0 .. (first - 1) :
          cache = [n \in Chain |-> IF n = checkpoint THEN "hashes" ELSE "none"]
    /\ task = [c \in AllCalls |-> Idle]
    /\ errors = 0
    /\ failed = {}

Done(c) == task[c].state = "done"

\* process_transactions fails on a block without transactions.
Traced(t) == Done(<<t, "trace", t>>) /\ task[<<t, "trace", t>>].got = "full"

\* try_join! polls process_block_trace first; the parent is asked for once the
\* transactions are processed, the previous blocks once the block is there.
\* The leader's futures are first polled in block order; the rpc binary awaits
\* each block before it starts the next.
Ready(c) ==
    LET t == c[1]
    IN  CASE c[2] = "trace" ->
               IF t = first THEN TRUE
               ELSE IF sequential THEN \A d \in Calls(t - 1) : Done(d)
               ELSE task[<<t - 1, "trace", t - 1>>] # Idle
          [] c[2] = "other" -> task[<<t, "trace", t>>] # Idle
          [] c[2] = "parent" -> Traced(t)
          [] c[2] = "prev" -> Done(<<t, "other", t>>)

\* get_block: the cache is looked up by number only, whatever the kind.
Begin(c) ==
    /\ c[1] \notin failed
    /\ task[c].state = "idle"
    /\ Ready(c)
    /\ task' = [task EXCEPT ![c] =
                   IF cache[c[3]] # "none" THEN Got(cache[c[3]])
                   ELSE [@ EXCEPT !.state = "sent"]]
    /\ UNCHANGED <<sequential, first, length, cache, errors, failed>>

\* The node answers: the block is cached by its number, over what was there.
Answer(c) ==
    /\ c[1] \notin failed
    /\ task[c].state = "sent"
    /\ task' = [task EXCEPT ![c] = Got(KindOf(c))]
    /\ cache' = [cache EXCEPT ![c[3]] = KindOf(c)]
    /\ UNCHANGED <<sequential, first, length, errors, failed>>

\* RetryPolicy::retry: an error is retried max_retries times, then the input of
\* the block fails.
TransportError(c) ==
    /\ errors < MaxErrors
    /\ c[1] \notin failed
    /\ task[c].state = "sent"
    /\ errors' = errors + 1
    /\ IF task[c].tries < MaxRetries
       THEN task' = [task EXCEPT ![c].tries = @ + 1] /\ UNCHANGED failed
       ELSE failed' = failed \cup {c[1]} /\ UNCHANGED task
    /\ UNCHANGED <<sequential, first, length, cache>>

\* "No transactions in block".
NoTransactions(t) ==
    /\ t \notin failed
    /\ Done(<<t, "trace", t>>) /\ ~Traced(t)
    /\ failed' = failed \cup {t}
    /\ UNCHANGED <<sequential, first, length, cache, task, errors>>

Complete(t) == \A c \in Calls(t) : Done(c)
\* The rpc binary stops at the first error.
Over == \A t \in InputBlocks : Complete(t) \/ t \in failed \/ (sequential /\ \E u \in failed : u < t)

InputNext ==
    \/ \E c \in AllCalls : Begin(c) \/ Answer(c) \/ TransportError(c)
    \/ \E t \in InputBlocks : NoTransactions(t)
    \/ Over /\ UNCHANGED inputVars

\* Every call is polled and every request is answered or fails.
Progress == (\E c \in AllCalls : Begin(c) \/ Answer(c)) \/ (\E t \in InputBlocks : NoTransactions(t))

InputSpec == InputInit /\ [][InputNext]_inputVars /\ WF_inputVars(Progress)

-----------------------------------------------------------------------------
(* Properties. *)

\* A block whose transactions are asked for is never served from a cache entry
\* that another block's look-up of previous hashes has put there without them.
FullIsFull == \A t \in InputBlocks : Done(<<t, "trace", t>>) => Traced(t)

\* The array of previous hashes: entry k is the hash of block t - PrevCount + k,
\* zero before the genesis block, and no index is out of the array.
PrevHashesRight ==
    \A t \in InputBlocks :
        /\ \A i \in Kept(t) : Slot(t, Collected(t)[i][2]) \in 0 .. (PrevCount - 1)
        /\ \A k \in 0 .. (PrevCount - 1) :
              PrevHashes(t)[k] = IF t - PrevCount + k >= 0 THEN Hash(t - PrevCount + k) ELSE Zero

\* A block's input fails only after max_retries + 1 errors of one request.
FailsAfterRetries == failed # {} => errors > MaxRetries

\* All of it: a block's input has its own transactions and previous hashes, whoever
\* filled the cache of blocks, and fails only after the retries (provider.rs, rpc).
InputsRight == FullIsFull /\ PrevHashesRight /\ FailsAfterRetries
=============================================================================
