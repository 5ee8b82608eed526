---------------------------- MODULE BlockDecoder ----------------------------
(***************************************************************************)
(* trace_decoder: from the traces of a block's transactions to the         *)
(* payloads the prover starts from.  The transactions run on a node, which *)
(* reports what each did to each account; the decoder merges the reports   *)
(* of a batch of transactions, applies them to its own tries and writes    *)
(* down, per batch, the part of the tries it needs and the roots it ends   *)
(* with.  The kernel later executes the batch from that part and must      *)
(* arrive at these roots.                                                  *)
(* A trie is the map of its entries (what PartialTrie shows) and its root  *)
(* is that map; code is its own hash.                                      *)
(***************************************************************************)
EXTENDS Integers, Sequences, FiniteSets, SequencesExt, FiniteSetsExt

CONSTANTS
    BatchSize,     \* transactions per payload
    MaxTxns,       \* bound: transactions in the block
    Kinds,         \* what transactions do, a subset of AllKinds
    InitX,         \* what X is before the block: a subset of {"absent", "funded", "contract"}
    FreshCoinbase, \* whether the block's beneficiary does not exist yet
    Recipients     \* who may receive withdrawals

AllKinds == {"transfer", "create", "create_destroy", "call", "call_fail", "create_fail"}

DecoderAssumption ==
    /\ BatchSize \in Nat \ {0}
    /\ MaxTxns \in Nat
    /\ Kinds \subseteq AllKinds
    /\ InitX \subseteq {"absent", "funded", "contract"}
    /\ FreshCoinbase \in BOOLEAN

\* The sender of all transactions, a contract's address, the beneficiary, the
\* beacon roots contract.
Addr == {"S", "X", "C", "B"}
Slots == {1, 2}
NoSlots == [s \in Slots |-> 0]
NoCode == 0
Code == 1

None == <<>>
Some(x) == <<x>>
Or(o, x) == IF o = None THEN x ELSE o[1]

\* AccountRlp, with the map whose root it holds; ex: the account is in the trie.
NoAccount == [ex |-> FALSE, balance |-> 0, nonce |-> 0, code |-> NoCode, root |-> NoSlots]
Account(b, n, c, r) == [ex |-> TRUE, balance |-> b, nonce |-> n, code |-> c, root |-> r]

VARIABLES
    world,    \* the states of the chain: before the block, then after each transaction
    block,    \* the transactions of the block, with what the node reports of them
    header,   \* parent beacon root and withdrawals
    tries,    \* PartialTrieState
    extra,    \* ExtraBlockData: the counters
    code_db,  \* Hash2Code
    payloads, \* GenerationInputs made so far
    phase     \* "trace", "process", "withdraw", "done" or an error

vars == <<world, block, header, tries, extra, code_db, payloads, phase>>

-----------------------------------------------------------------------------
(* The chain: what transactions do to accounts (EIP-158, EIP-4788, EIP-6780). *)

BeaconWrite(w, root) == [w EXCEPT !["B"].root = [s \in Slots |-> IF s = 1 THEN 1 ELSE root]]

Withdraw(w, wd) ==
    FoldLeft(LAMBDA v, a : [v EXCEPT ![a].balance = @ + 1, ![a].ex = TRUE], w, wd)

Prune(w) ==
    [a \in Addr |-> IF w[a].balance = 0 /\ w[a].nonce = 0 /\ w[a].code = NoCode THEN NoAccount ELSE w[a]]

\* A transaction: sender pays a fee of 1 to the beneficiary and spends a nonce; value v
\* to X; creation writes slot 1, and so do calls.
Succeeds(k) == k \notin {"call_fail", "create_fail"}

Charged(w) ==
    [w EXCEPT !["S"].balance = @ - 1, !["S"].nonce = @ + 1, !["C"].balance = @ + 1, !["C"].ex = TRUE]

Moved(w, v) == [w EXCEPT !["S"].balance = @ - v, !["X"].balance = @ + v, !["X"].ex = TRUE]

Effect(w, k, v, n) ==
    LET c == Charged(w)
        m == Moved(c, v)
    IN  Prune(CASE k = "transfer" -> m
                [] k = "create" ->
                      [m EXCEPT !["X"].nonce = 1, !["X"].code = Code, !["X"].root[1] = n]
                [] k = "create_destroy" ->
                      [m EXCEPT !["S"].balance = @ + m["X"].balance, !["X"] = NoAccount]
                [] k = "call" -> [m EXCEPT !["X"].root[1] = n]
                [] OTHER -> c)

Possible(w, k) ==
    /\ k \in {"create", "create_destroy"} => w["X"].code = NoCode /\ w["X"].nonce = 0
    /\ k \in {"call", "call_fail"} => w["X"].code = Code

\* Slots of X the transaction looks at.
SlotsUsed(k) == IF k \in {"transfer", "create_fail"} THEN {} ELSE {1}

-----------------------------------------------------------------------------
(* The node's report, and the traces made of it. *)

Changed(old, new) == IF old = new THEN None ELSE Some(new)

Reported(k) == {"S", "C", "X"} \ (IF k = "create_fail" THEN {"X"} ELSE {})

process_code(pre, post) ==
    IF post.ex /\ post.code # pre.code THEN <<"Write", post.code>>
    ELSE IF pre.code # NoCode THEN <<"Read", pre.code>> ELSE None

process_nonce(pre, post) ==
    IF post.ex /\ post.nonce # pre.nonce THEN Some(post.nonce)
    ELSE IF process_code(pre, post) # None /\ process_code(pre, post)[1] = "Write" THEN Some(1)
    ELSE None

\* Slots that were held and are no longer count as written with zero.
process_storage(pre, post) ==
    [s \in {t \in Slots : post.root[t] # pre.root[t]} |-> post.root[s]]

process_self_destruct(pre, post) == pre.ex /\ ~post.ex /\ pre.code = NoCode /\ pre.root = NoSlots

NoTrace ==
    [balance |-> None, nonce |-> None, reads |-> {}, written |-> [s \in {} |-> 0], code |-> None, gone |-> FALSE]

\* process_tx_traces.  A creation that failed reports its address with an empty trace.
TraceOf(w, u, k, a) ==
    IF a \notin Reported(k) THEN NoTrace
    ELSE [balance |-> IF u[a].ex THEN Changed(w[a].balance, u[a].balance) ELSE None,
          nonce   |-> process_nonce(w[a], u[a]),
          reads   |-> IF a = "X" THEN SlotsUsed(k) ELSE {},
          written |-> process_storage(w[a], u[a]),
          code    |-> process_code(w[a], u[a]),
          gone    |-> process_self_destruct(w[a], u[a])]

\* process_transaction: what the decoder is told of a transaction.
TxnInfo(w, u, k) ==
    [traces |-> [a \in {"S", "C", "X"} |-> TraceOf(w, u, k, a)],
     status |-> Succeeds(k),
     gas    |-> IF k = "transfer" THEN 1 ELSE 2]

-----------------------------------------------------------------------------
(* Processing the traces of a batch: TxnInfo::into_processed_txn_info. *)

NoWrite == [balance |-> None, nonce |-> None, change |-> FALSE, code |-> None]

StateWrite(t) ==
    [balance |-> t.balance, nonce |-> t.nonce, change |-> t.written # NoTrace.written,
     code |-> IF t.code = None THEN None ELSE Some(t.code[2])]

\* Mutant: the later write replaces the earlier one, fields it does not set included.
MergeWrites_last(old, new) == new

\* Only the fields the later write sets are updated.
MergeWrites(old, new) ==
    [balance |-> IF new.balance # None THEN new.balance ELSE old.balance,
     nonce   |-> IF new.nonce # None THEN new.nonce ELSE old.nonce,
     change  |-> old.change \/ new.change,
     code    |-> IF new.code # None THEN new.code ELSE old.code]

NoNodes ==
    [accesses |-> {}, writes |-> [a \in Addr |-> NoWrite], slots |-> [a \in {} |-> {}],
     stored |-> [a \in Addr |-> NoTrace.written], unaccessed |-> [a \in {} |-> NoSlots], gone |-> {}]

\* A write takes the mark of a self-destruct earlier in the batch away.
GoneAfter(gone, writers, destroyed) == (gone \ writers) \cup destroyed

\* The batch's nodes with one more transaction; none of the addresses is a precompile.
\* pre: the accounts of the block's pre-image.
AddTxn(nodes, txn, pre, recipients) ==
    LET T == txn.traces
        writers == {a \in DOMAIN T : StateWrite(T[a]) # NoWrite}
        slots == [a \in DOMAIN nodes.slots \cup DOMAIN T |->
                    (IF a \in DOMAIN nodes.slots THEN nodes.slots[a] ELSE {})
                      \cup (IF a \in DOMAIN T THEN T[a].reads \cup DOMAIN T[a].written ELSE {})]
        untouched == {a \in Addr : /\ pre[a].ex /\ pre[a].root # NoSlots
                                   /\ a \in DOMAIN slots => slots[a] = {}}
    IN  [accesses   |-> nodes.accesses \cup DOMAIN T \cup recipients,
         writes     |-> [a \in Addr |-> IF a \in writers THEN MergeWrites(nodes.writes[a], StateWrite(T[a]))
                                        ELSE nodes.writes[a]],
         slots      |-> slots,
         stored     |-> [a \in Addr |-> IF a \in DOMAIN T THEN T[a].written @@ nodes.stored[a] ELSE nodes.stored[a]],
         unaccessed |-> [a \in untouched |-> pre[a].root] @@ nodes.unaccessed,
         gone       |-> GoneAfter(nodes.gone, writers, {a \in DOMAIN T : T[a].gone})]

\* TxnMetaState: accounts written that the pre-image does not have count as created.
Meta(txn, pre) ==
    [status |-> txn.status, gas |-> txn.gas,
     created |-> {a \in DOMAIN txn.traces : StateWrite(txn.traces[a]) # NoWrite /\ ~pre[a].ex}]

Codes(txn, usage) ==
    {txn.traces[a].code[2] : a \in {b \in DOMAIN txn.traces : txn.traces[b].code # None /\ txn.traces[b].code[1] = usage}}

into_processed_txn_info(txns, pre, recipients) ==
    [nodes |-> FoldLeft(LAMBDA n, t : AddTxn(n, t, pre, recipients), NoNodes, txns),
     meta  |-> [i \in DOMAIN txns |-> Meta(txns[i], pre)],
     read  |-> UNION {Codes(txns[i], "Read") : i \in DOMAIN txns},
     wrote |-> UNION {Codes(txns[i], "Write") : i \in DOMAIN txns}]

Dummy == [nodes |-> NoNodes, meta |-> <<>>, read |-> {}, wrote |-> {}]

\* The payloads of a block of n transactions: at least two.
Chunks(n) == LET c == (n + BatchSize - 1) \div BatchSize IN IF c < 2 THEN 2 ELSE c

Chunk(i) == SubSeq(block, (i - 1) * BatchSize + 1,
                   IF i * BatchSize < Len(block) THEN i * BatchSize ELSE Len(block))

\* Index of the batch with the last transactions; 1-based.
LastBatch == ((IF Len(block) = 0 THEN 0 ELSE Len(block) - 1) \div BatchSize) + 1

Processed(i) ==
    IF Chunk(i) = <<>> THEN Dummy
    ELSE into_processed_txn_info([j \in DOMAIN Chunk(i) |-> Chunk(i)[j]], world[1],
                                 IF i = LastBatch THEN ToSet(header.withdrawals) ELSE {})

-----------------------------------------------------------------------------
(* The tries and the changes of a batch. *)

\* A storage trie: absent from the map, only its root known, or all that is needed known.
NoTrie == [has |-> FALSE, known |-> FALSE, m |-> NoSlots]
HashTrie(m) == [has |-> TRUE, known |-> FALSE, m |-> m]
Trie(m) == [has |-> TRUE, known |-> TRUE, m |-> m]

init_any_needed_empty_storage_tries(storage, nodes) ==
    [a \in Addr |->
        IF a \in DOMAIN nodes.slots /\ ~storage[a].has
        THEN IF a \in DOMAIN nodes.unaccessed THEN HashTrie(nodes.unaccessed[a]) ELSE Trie(NoSlots)
        ELSE storage[a]]

apply_writes_to_state_node(write, account, trie) ==
    [ex |-> TRUE,
     balance |-> Or(write.balance, account.balance),
     nonce |-> Or(write.nonce, account.nonce),
     code |-> Or(write.code, account.code),
     root |-> IF write.change THEN trie.m ELSE account.root]

\* Storage after the batch's writes; a zero deletes.
Stored(storage, nodes) ==
    [a \in Addr |-> [storage[a] EXCEPT !.m = nodes.stored[a] @@ @]]

StorageMissing(storage, nodes) ==
    \E a \in Addr : nodes.stored[a] # NoTrace.written /\ ~storage[a].known

Written(nodes) == {a \in Addr : nodes.writes[a] # NoWrite}

\* Written accounts the state trie does not have, and those whose last creation in the
\* batch failed.
Created(state, nodes) == {a \in Written(nodes) : ~state[a].ex}
Creators(meta, a) == {i \in DOMAIN meta : a \in meta[i].created}
NoCreator(state, nodes, meta) == \E a \in Created(state, nodes) : Creators(meta, a) = {}
FailedCreations(state, nodes, meta) ==
    {a \in Created(state, nodes) : ~meta[Max(Creators(meta, a))].status}

StateAfter(state, storage, nodes, failed) ==
    [a \in Addr |->
        IF a \in failed \cup nodes.gone THEN NoAccount
        ELSE IF a \in Written(nodes) THEN apply_writes_to_state_node(nodes.writes[a], state[a], storage[a])
        ELSE state[a]]

\* apply_deltas_to_trie_state.  collapsed: the failed creations whose removal collapses a
\* branch; only they lose their storage trie.
apply_deltas_to_trie_state(t, nodes, meta, collapsed) ==
    LET storage == Stored(t.storage, nodes)
        failed == FailedCreations(t.state, nodes, meta)
    IN  [t EXCEPT !.state = StateAfter(t.state, storage, nodes, failed),
                  !.storage = [a \in Addr |-> IF a \in collapsed \cup nodes.gone THEN NoTrie ELSE storage[a]]]

\* update_beacon_block_root_contract_storage: a root of zero deletes the slot.
update_beacon_block_root_contract_storage(t, root) ==
    LET m == [s \in Slots |-> IF s = 1 THEN 1 ELSE root]
    IN  [t EXCEPT !.storage["B"].m = m, !.state["B"].root = m]

\* The i-th transaction of the batch goes in at txn_number_before + i.
update_txn_and_receipt_tries(t, before, metas, first) ==
    [t EXCEPT !.txn = [i \in before .. (before + Len(metas) - 1) |-> first + (i - before)] @@ @]

Sum(f) == FoldLeft(LAMBDA s, m : s + m.gas, 0, f)

\* A payload's part of the tries: accounts and slots that are not hashed away.
Minimal(t, nodes, initial) ==
    [state |-> t.state, storage |-> t.storage,
     accounts |-> nodes.accesses \cup (IF initial THEN {"B"} ELSE {}),
     slots |-> [a \in DOMAIN nodes.slots \cup (IF initial THEN {"B"} ELSE {}) |->
                   IF a = "B" THEN Slots ELSE nodes.slots[a]]]

\* txn_range.start == 0
IsInitial(i, n) == (i - 1) * BatchSize = 0 \/ n = 0

-----------------------------------------------------------------------------
(* Actions. *)

Empty(x) == x = <<>>

Init ==
    /\ \E x \in InitX :
          world = << [a \in Addr |->
            CASE a = "S" -> Account(20, 3, NoCode, NoSlots)
              [] a = "C" -> IF FreshCoinbase THEN NoAccount ELSE Account(5, 0, NoCode, NoSlots)
              [] a = "B" -> Account(0, 1, 2, [s \in Slots |-> 1])
              [] a = "X" -> CASE x = "absent" -> NoAccount
                              [] x = "funded" -> Account(2, 0, NoCode, NoSlots)
                              [] x = "contract" -> Account(2, 1, Code, [s \in Slots |-> 1])] >>
    /\ block = <<>>
    /\ \E root \in {0, 1}, wd \in {<<>>} \cup {<<r>> : r \in Recipients} \cup {<<r, r>> : r \in Recipients} :
          header = [root |-> root, withdrawals |-> wd]
    /\ tries = [state |-> world[1], storage |-> [a \in Addr |-> NoTrie], txn |-> [i \in {} |-> 0]]
    /\ extra = [number_before |-> 0, number_after |-> 0, gas_before |-> 0, gas_after |-> 0]
    /\ code_db = {}
    /\ payloads = <<>>
    /\ phase = "trace"

\* A transaction runs on the node and is reported.  The chain's first state is the one
\* before the block; the beacon roots contract is written before the first transaction.
Transaction(k, v, n) ==
    LET w == IF block = <<>> THEN BeaconWrite(world[1], header.root) ELSE Last(world)
        u == Effect(w, k, v, n)
    IN  /\ phase = "trace"
        /\ Len(block) < MaxTxns
        /\ Possible(w, k)
        /\ block' = Append(block, TxnInfo(w, u, k))
        /\ world' = Append(world, u)
        /\ code_db' = code_db \cup Codes(TxnInfo(w, u, k), "Read") \cup Codes(TxnInfo(w, u, k), "Write")
        /\ UNCHANGED <<header, tries, extra, payloads, phase>>

\* The traces go to the decoder, with the parts of the storage tries the block uses.
entrypoint ==
    LET used == {a \in {"S", "C", "X"} :
                    \E i \in DOMAIN block : block[i].traces[a].reads \cup DOMAIN block[i].traces[a].written # {}}
    IN  /\ phase = "trace"
        /\ phase' = "process"
        /\ tries' = [tries EXCEPT !.storage =
                [a \in Addr |-> IF a \in used \cup {"B"} /\ world[1][a].ex THEN Trie(world[1][a].root) ELSE NoTrie]]
        /\ UNCHANGED <<world, block, header, extra, code_db, payloads>>

\* process_txn_info, for the next batch.
process_txn_info ==
    LET i == Len(payloads) + 1
        info == Processed(i)
        t0 == [tries EXCEPT !.storage = init_any_needed_empty_storage_tries(@, info.nodes)]
        t1 == update_txn_and_receipt_tries(t0, extra.number_before, info.meta, (i - 1) * BatchSize + 1)
        initial == IsInitial(i, Len(block))
        number == extra.number_after + Len(info.meta)
        gas == extra.gas_after + Sum(info.meta)
        failed == FailedCreations(t1.state, info.nodes, info.meta)
    IN  /\ phase = "process"
        /\ i <= Chunks(Len(block))
        /\ IF \/ ~(info.read \subseteq code_db) \/ StorageMissing(t1.storage, info.nodes)
              \/ NoCreator(t1.state, info.nodes, info.meta)
           THEN /\ phase' = "error"
                /\ UNCHANGED <<tries, extra, payloads>>
           ELSE \E collapsed \in SUBSET failed :
                LET t2 == apply_deltas_to_trie_state(t1, info.nodes, info.meta, collapsed)
                    t3 == IF initial THEN update_beacon_block_root_contract_storage(t2, header.root) ELSE t2
                IN  /\ tries' = t3
                    /\ extra' = [number_before |-> number, number_after |-> number, gas_before |-> gas, gas_after |-> gas]
                    /\ payloads' = Append(payloads,
                         [number_before |-> extra.number_before, gas_before |-> extra.gas_before, gas_after |-> gas,
                          txns |-> Len(info.meta), withdrawals |-> <<>>, tries |-> Minimal(t0, info.nodes, initial),
                          roots |-> [state |-> t3.state, txn |-> t3.txn]])
                    /\ phase' = "process"
        /\ UNCHANGED <<world, block, header, code_db>>

\* A dummy payload has not been given the recipients' accounts.
LastPart(last, wd, state) ==
    IF last.txns > 0 THEN last.tries
    ELSE [last.tries EXCEPT !.state = state,
                            !.accounts = ToSet(wd) \cup (IF last.number_before = 0 THEN {"B"} ELSE {})]

\* add_withdrawals_to_txns: to the last payload.
add_withdrawals_to_txns ==
    LET n == Len(payloads)
        wd == header.withdrawals
        state == Withdraw(tries.state, wd)
    IN  /\ phase = "process"
        /\ n = Chunks(Len(block))
        /\ IF Empty(wd) THEN phase' = "done" /\ UNCHANGED <<tries, payloads>>
           ELSE IF \E a \in ToSet(wd) : ~tries.state[a].ex
           THEN phase' = "error" /\ UNCHANGED <<tries, payloads>>
           ELSE /\ tries' = [tries EXCEPT !.state = state]
                /\ payloads' = [payloads EXCEPT ![n].tries = LastPart(payloads[n], wd, tries.state), ![n].withdrawals = wd, ![n].roots.state = state]
                /\ phase' = "done"
        /\ UNCHANGED <<world, block, header, extra, code_db>>

Next ==
    \/ \E k \in Kinds, v \in {0, 1}, n \in {0, 1} : Transaction(k, v, n)
    \/ entrypoint
    \/ process_txn_info
    \/ add_withdrawals_to_txns

Spec == Init /\ [][Next]_vars

-----------------------------------------------------------------------------
(* Properties. *)

TxnsUpTo(i) == IF i * BatchSize < Len(block) THEN i * BatchSize ELSE Len(block)

\* The chain after n transactions, with the write of the beacon root.
ChainAt(n) == IF n = 0 THEN BeaconWrite(world[1], header.root) ELSE world[n + 1]

\* The state root a payload ends with is the chain's after its last transaction, and
\* after the withdrawals in the last payload once they are added.
StatesRight ==
    \A i \in DOMAIN payloads :
        payloads[i].roots.state = Withdraw(ChainAt(TxnsUpTo(i)), payloads[i].withdrawals)

\* The transactions trie a payload ends with has the block's transactions up to its last
\* one, each at its index in the block.
TxnTrieRight ==
    \A i \in DOMAIN payloads : payloads[i].roots.txn = [j \in 0 .. TxnsUpTo(i) - 1 |-> j + 1]

\* Two payloads at least; each starts from the state, transaction number and gas its
\* predecessor ends with, and the last one carries the withdrawals.
PayloadsChain ==
    /\ \A i \in 2 .. Len(payloads) :
          LET p == payloads[i - 1] q == payloads[i]
          IN  /\ q.tries.state = p.roots.state
              /\ q.number_before = p.number_before + p.txns
              /\ q.gas_before = p.gas_after
              /\ p.withdrawals = <<>>
    /\ phase = "done" =>
          /\ Len(payloads) >= 2
          /\ Last(payloads).withdrawals = header.withdrawals
          /\ Last(payloads).number_before + Last(payloads).txns = Len(block)

\* What the kernel touches while it executes a payload: the accounts of its transactions,
\* the beacon roots contract where no transaction came before, the recipients.
Touched(i) ==
    (IF payloads[i].txns > 0 THEN {"S", "C", "X"} ELSE {})
      \cup (IF payloads[i].number_before = 0 THEN {"B"} ELSE {})
      \cup ToSet(payloads[i].withdrawals)

\* The accounts a payload's execution touches are in its part of the state trie, and
\* each slot it uses is in a storage trie whose root is the account's.
PayloadSuffices ==
    \A i \in DOMAIN payloads :
        LET t == payloads[i].tries
        IN  /\ Touched(i) \subseteq t.accounts
            /\ \A a \in DOMAIN t.slots :
                  /\ t.storage[a].m = t.state[a].root
                  /\ t.slots[a] # {} => t.storage[a].known
            /\ payloads[i].number_before = 0 => "B" \in DOMAIN t.slots

\* The decoder has an answer for every block: nothing is missing and nothing panics.
Decodes == phase # "error"
==============================================================================
