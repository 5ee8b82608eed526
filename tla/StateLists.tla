----------------------------- MODULE StateLists -----------------------------
(***************************************************************************)
(* The state during the execution of a payload: the kernel keeps the       *)
(* accounts and the storage slots it may touch in two sorted circular      *)
(* linked lists, not in tries.  A node keeps its current and its initial   *)
(* payload.  Only at the end are the initial tries rebuilt from the        *)
(* initial payloads, in memory order, and the final tries derived from     *)
(* them: first the nodes of the initial state that were deleted are        *)
(* deleted from the tries, then everything in the lists is inserted.       *)
(*                                                                         *)
(* An account's fields other than its storage are one number.  Node 1 of a *)
(* list is the special node.  Hints are those of prover_input.rs.          *)
(***************************************************************************)
EXTENDS Integers, Sequences, FiniteSets

CONSTANTS Top,       \* @U256_MAX as a key, above all others
          Accts,     \* state keys
          Slots,     \* storage keys
          Values,    \* payloads of accounts and values of slots
          MaxAccounts, MaxSlots    \* bounds: nodes of the two segments

ASSUME StateListsAssumption ==
    /\ Top \in Nat \ {0}
    /\ Accts \subseteq 1 .. Top - 1
    /\ Slots \subseteq 1 .. Top - 1
    /\ Values \subseteq Nat \ {0}
    /\ MaxAccounts \in Nat /\ MaxSlots \in Nat

VARIABLES alist,     \* SEGMENT_ACCOUNTS_LINKED_LIST and the payloads it points to
          slist,     \* SEGMENT_STORAGE_LINKED_LIST
          pre,       \* the state before the payload, as the tries give it
          cur        \* the state the execution has reached

listVars == <<alist, slist, pre, cur>>

Deleted == 0

NoSlots == [k \in Slots |-> 0]
NoAccount == [val |-> 0, slots |-> NoSlots]      \* a state's entry for an absent account
Exists(s, a) == s[a].val # 0

-----------------------------------------------------------------------------
(* Building the lists from the tries, whose leaves come in the order of    *)
(* their keys.                                                             *)

Accounts(s) == {a \in Accts : Exists(s, a)}

\* The i-th leaf of the state trie.
AccountLeaf(s, i) == CHOOSE a \in Accounts(s) : Cardinality({b \in Accounts(s) : b <= a}) = i

\* The leaves of all storage tries, account by account.
Stored(s) == {e \in Accts \X Slots : s[e[1]].slots[e[2]] # 0}
UpTo(e, f) == e[1] < f[1] \/ (e[1] = f[1] /\ e[2] <= f[2])
SlotLeaf(s, i) == CHOOSE e \in Stored(s) : Cardinality({f \in Stored(s) : UpTo(f, e)}) = i

\* Nodes are in memory order; each points to the next one, the last to node 1.
Chained(i, n) == IF i = n THEN 1 ELSE i + 1

\* get_state_and_storage_leaves, with empty_list_mem's special node.  Storage roots
\* are filled in at the end.
LoadAccounts(s) ==
    LET n == 1 + Cardinality(Accounts(s))
    IN  [i \in 1 .. n |->
            [addr |-> IF i = 1 THEN Top ELSE AccountLeaf(s, i - 1),
             val |-> IF i = 1 THEN 0 ELSE s[AccountLeaf(s, i - 1)].val, root |-> NoSlots,
             ival |-> 0, iroot |-> NoSlots, next |-> Chained(i, n)]]

\* get_storage_leaves of every account, in the order of the accounts.
LoadSlots(s) ==
    LET n == 1 + Cardinality(Stored(s))
    IN  [i \in 1 .. n |->
            LET e == SlotLeaf(s, i - 1)
            IN  [addr |-> IF i = 1 THEN Top ELSE e[1], key |-> IF i = 1 THEN 0 ELSE e[2],
                 val |-> IF i = 1 THEN 0 ELSE s[e[1]].slots[e[2]],
                 ival |-> 0, next |-> Chained(i, n)]]

\* store_initial_accounts, store_initial_slots: a copy of every payload.
StoreInitial(list) == [i \in 1 .. Len(list) |-> [list[i] EXCEPT !.ival = list[i].val]]

States == [Accts -> {NoAccount} \cup [val : Values, slots : [Slots -> Values \cup {0}]]]

Loaded == /\ cur = pre
          /\ alist = StoreInitial(LoadAccounts(pre))
          /\ slist = StoreInitial(LoadSlots(pre))

ListsInit == pre \in States /\ Loaded

-----------------------------------------------------------------------------
(* Hints.                                                                  *)

Live(list) == {i \in 1 .. Len(list) : list[i].next # Deleted}

\* run_next_insert_account: addr of the node <= a < addr of the next one.
AccountHints(a) ==
    {p \in Live(alist) : (p = 1 \/ alist[p].addr <= a) /\ a < alist[alist[p].next].addr}

RemoveAccountHints(a) == {p \in Live(alist) : alist[alist[p].next].addr = a}

Below(n, a, k) == n.addr < a \/ (n.addr = a /\ n.key < k)
Above(n, a, k) == n.addr > a \/ (n.addr = a /\ n.key > k)

SlotHints(a, k) ==
    {p \in Live(slist) : /\ p = 1 \/ ~Above(slist[p], a, k)
                         /\ Above(slist[slist[p].next], a, k)}

RemoveSlotHints(a, k) ==
    {p \in Live(slist) : LET n == slist[slist[p].next] IN n.addr = a /\ n.key = k}

\* run_next_remove_address_slots: the node before the account's first slot.
AddressSlotsHints(a) ==
    {p \in Live(slist) : (p = 1 \/ slist[p].addr < a) /\ slist[slist[p].next].addr >= a}

Hint(S) == CHOOSE p \in S : TRUE

-----------------------------------------------------------------------------
(* The operations on the lists.                                            *)

\* A new node at the end of the segment, linked behind p.
Link(list, p, node) ==
    Append([list EXCEPT ![p].next = Len(list) + 1], [node EXCEPT !.next = list[p].next])

Unlink(list, p) ==
    [list EXCEPT ![p].next = list[list[p].next].next, ![list[p].next].next = Deleted]

\* insert_account_with_overwrite
insert_account_with_overwrite(a, v) ==
    LET p == Hint(AccountHints(a))
    IN  IF p = 1 \/ alist[p].addr < a
        THEN Link(alist, p, [addr |-> a, val |-> v, root |-> NoSlots,
                             ival |-> v, iroot |-> NoSlots, next |-> 1])
        ELSE [alist EXCEPT ![p].val = v, ![p].root = NoSlots]

\* search_account: the node, or 0.
search_account(a) ==
    LET p == Hint(AccountHints(a)) IN IF p = 1 \/ alist[p].addr < a THEN 0 ELSE p

remove_account(a) == Unlink(alist, Hint(RemoveAccountHints(a)))

insert_slot_with_value(a, k, v) ==
    LET p == Hint(SlotHints(a, k))
    IN  IF p = 1 \/ Below(slist[p], a, k)
        THEN Link(slist, p, [addr |-> a, key |-> k, val |-> v, ival |-> v, next |-> 1])
        ELSE [slist EXCEPT ![p].val = v]

\* search_slot with the default 0.
search_slot(a, k) ==
    LET p == Hint(SlotHints(a, k)) IN IF p = 1 \/ Below(slist[p], a, k) THEN 0 ELSE slist[p].val

remove_slot(a, k) == Unlink(slist, Hint(RemoveSlotHints(a, k)))

\* remove_all_slots_loop: unlink the successor of p while it belongs to the account.
\* T[n] is the list after n rounds, of which there cannot be more than it has nodes.
remove_all_slots_loop(list, p, a) ==
    LET T[n \in 0 .. Len(list)] ==
            IF n = 0 THEN list
            ELSE IF T[n - 1][T[n - 1][p].next].addr # a THEN T[n - 1]
            ELSE Unlink(T[n - 1], p)
    IN  T[Len(list)]

remove_all_account_slots(a) == remove_all_slots_loop(slist, Hint(AddressSlotsHints(a)), a)

-----------------------------------------------------------------------------
(* What the execution does to the state.                                   *)

\* mpt_insert_state_trie: a new account, or a new payload for an account that
\* has no storage (a contract is created at a funded address).
InsertAccount(a, v) ==
    /\ cur[a].slots = NoSlots
    /\ ~Exists(cur, a) => Len(alist) < MaxAccounts
    /\ alist' = insert_account_with_overwrite(a, v)
    /\ cur' = [cur EXCEPT ![a].val = v]
    /\ UNCHANGED <<slist, pre>>

\* Balance, nonce and code are changed through the pointer search_account gives.
WriteAccount(a, v) ==
    /\ search_account(a) # 0
    /\ alist' = [alist EXCEPT ![search_account(a)].val = v]
    /\ cur' = [cur EXCEPT ![a].val = v]
    /\ UNCHANGED <<slist, pre>>

\* delete_account, for an account that was created or is empty: an account whose
\* storage comes from the initial state is never deleted (EIP-6780).
DeleteAccount(a) ==
    /\ Exists(cur, a)
    /\ pre[a].slots = NoSlots
    /\ alist' = remove_account(a)
    /\ slist' = remove_all_account_slots(a)
    /\ cur' = [cur EXCEPT ![a] = NoAccount]
    /\ UNCHANGED pre

\* sys_sstore of an existing account, and the revert of one.
SStore(a, k, v) ==
    /\ Exists(cur, a)
    /\ v # search_slot(a, k)
    /\ IF v = 0 THEN slist' = remove_slot(a, k)
       ELSE (search_slot(a, k) = 0 => Len(slist) < MaxSlots) /\ slist' = insert_slot_with_value(a, k, v)
    /\ cur' = [cur EXCEPT ![a].slots[k] = v]
    /\ UNCHANGED <<alist, pre>>

\* The payload may end at any time: the tries it is then left with are what the
\* properties are about.
EndPayload == UNCHANGED listVars

ListsNext == \/ \E a \in Accts, v \in Values : InsertAccount(a, v)
             \/ \E a \in Accts, v \in Values : WriteAccount(a, v)
             \/ \E a \in Accts : DeleteAccount(a)
             \/ \E a \in Accts, k \in Slots, v \in Values \cup {0} : SStore(a, k, v)
             \/ EndPayload

ListsSpec == ListsInit /\ [][ListsNext]_listVars

-----------------------------------------------------------------------------
(* The tries at the end.  A trie is a state; a leaf is an entry of it.     *)

\* mpt_set_storage_payload: the leaves of the account's storage trie get, in order,
\* the initial values of the nodes of the segment from sp on.
SetStorage(a, sp) ==
    [k \in Slots |->
        IF pre[a].slots[k] = 0 THEN 0
        ELSE slist[sp + Cardinality({j \in Slots : j < k /\ pre[a].slots[j] # 0})].ival]

\* mpt_set_payload over the leaves of the given state trie, in order: the i-th
\* leaf gets node i + 1; its storage root goes into both payloads of the node.
mpt_set_payload ==
    LET T[i \in 0 .. Cardinality(Accounts(pre))] ==
            IF i = 0
            THEN [list |-> alist, trie |-> [a \in Accts |-> NoAccount], sp |-> 2]
            ELSE LET acc == T[i - 1]
                     a == AccountLeaf(pre, i)
                     root == SetStorage(a, acc.sp)
                 IN  [list |-> [acc.list EXCEPT ![i + 1].root = root, ![i + 1].iroot = root],
                      trie |-> [acc.trie EXCEPT ![a] = [val |-> acc.list[i + 1].ival, slots |-> root]],
                      sp |-> acc.sp + Cardinality({k \in Slots : pre[a].slots[k] # 0})]
    IN  T

set_initial_tries == mpt_set_payload[Cardinality(Accounts(pre))]

\* The lengths of the initial lists, as set_initial_tries leaves them.
InitialAccounts == 1 + Cardinality(Accounts(pre))
InitialSlots == 1 + Cardinality(Stored(pre))

\* Mutant: the deleted slots are skipped too.
delete_removed_slots_skip(a, root, sp) ==
    LET run == {n \in sp .. InitialSlots : \A i \in sp .. n : slist[i].addr = a}
    IN  [root |-> root, sp |-> sp + Cardinality(run)]

\* delete_removed_slots: from sp on, while the nodes belong to the account and
\* to the initial list.
delete_removed_slots(a, root, sp) ==
    LET run == {n \in sp .. InitialSlots : \A i \in sp .. n : slist[i].addr = a}
        gone == {slist[n].key : n \in {m \in run : slist[m].next = Deleted}}
    IN  [root |-> [k \in Slots |-> IF k \in gone THEN 0 ELSE root[k]], sp |-> sp + Cardinality(run)]

\* delete_removed_accounts: the nodes of the initial list in memory order.
delete_removed_accounts ==
    LET T[n \in 1 .. InitialAccounts] ==
            IF n = 1 THEN [set_initial_tries EXCEPT !.sp = 2]
            ELSE LET acc == T[n - 1]
                     a == acc.list[n].addr
                     d == delete_removed_slots(a, acc.list[n].iroot, acc.sp)
                 IN  IF acc.list[n].next = Deleted THEN [acc EXCEPT !.trie[a] = NoAccount]
                     ELSE [acc EXCEPT !.list[n].root = d.root, !.sp = d.sp]
    IN  T

\* insert_all_slots: the list from sp on, while its nodes belong to the account.
insert_all_slots(a, sp, root) ==
    LET T[n \in 0 .. Len(slist)] ==
            IF n = 0 THEN [sp |-> sp, root |-> root]
            ELSE LET acc == T[n - 1]
                     node == slist[acc.sp]
                 IN  IF node.addr # a THEN acc
                     ELSE [sp |-> node.next, root |-> [acc.root EXCEPT ![node.key] = node.val]]
    IN  T[Len(slist)]

\* insert_all_accounts: the list from its first node on, up to the special node.
insert_all_accounts(given) ==
    LET T[n \in 0 .. Len(alist)] ==
            IF n = 0 THEN [ap |-> alist[1].next, trie |-> given.trie, sp |-> slist[1].next]
            ELSE LET acc == T[n - 1]
                     node == given.list[acc.ap]
                     r == insert_all_slots(node.addr, acc.sp, node.root)
                 IN  IF node.addr = Top THEN acc
                     ELSE [ap |-> node.next, sp |-> r.sp,
                           trie |-> [acc.trie EXCEPT ![node.addr] = [val |-> node.val, slots |-> r.root]]]
    IN  T[Len(alist)].trie

set_final_tries == insert_all_accounts(delete_removed_accounts[InitialAccounts])

-----------------------------------------------------------------------------
(* Properties.                                                             *)

\* The initial trie that is rebuilt at the end is the one the payload started from,
\* although its leaves only get what the nodes kept in memory order (set_initial_tries;
\* main.asm asserts the hash STATE_TRIE_DIGEST_BEFORE).
InitialTrieKept == set_initial_tries.trie = pre

\* Deleting what was removed and inserting what is listed gives the state the execution
\* has reached, wherever it ends (set_final_tries; STATE_TRIE_DIGEST_AFTER).
FinalTrieRight == set_final_tries = cur

\* What the kernel reads from the lists is the state (search_account, search_slot).
ReadsRight ==
    \A a \in Accts :
        /\ search_account(a) = 0 <=> ~Exists(cur, a)
        /\ search_account(a) # 0 => alist[search_account(a)].val = cur[a].val
        /\ \A k \in Slots : search_slot(a, k) = cur[a].slots[k]

\* The prover finds exactly one node for everything it may be asked (prover_input.rs:
\* "If the element is not in the list, loops forever").
HintsUnique ==
    \A a \in Accts :
        /\ Cardinality(AccountHints(a)) = 1
        /\ Exists(cur, a) => Cardinality(RemoveAccountHints(a)) = 1
        /\ Cardinality(AddressSlotsHints(a)) = 1
        /\ \A k \in Slots :
              /\ Cardinality(SlotHints(a, k)) = 1
              /\ cur[a].slots[k] # 0 => Cardinality(RemoveSlotHints(a, k)) = 1

\* Wherever a payload ends, the tries the kernel derives from its lists are the ones
\* it began with and the ones it has reached; what it reads meanwhile is the state;
\* and the prover has exactly one hint for each of its questions (linked_list/,
\* set_initial_tries, set_final_tries, prover_input.rs).
StateListsRight == InitialTrieKept /\ FinalTrieRight /\ ReadsRight /\ HintsUnique
=============================================================================
