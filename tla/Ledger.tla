------------------------------- MODULE Ledger -------------------------------
(***************************************************************************)
(* The state the EVM kernel keeps while it executes a transaction, the     *)
(* journal that records how to take every change back, and the kernel      *)
(* routines that change the one and append to the other.                   *)
(*                                                                         *)
(* A kernel state  s  is a record                                          *)
(*   led        the journaled state ("ledger"): accounts, storage, access  *)
(*              lists, touched addresses, refund counter, logs, transient  *)
(*              storage                                                    *)
(*   journal    SEGMENT_JOURNAL / SEGMENT_JOURNAL_DATA up to JOURNAL_LEN   *)
(*   created    SEGMENT_CREATED_CONTRACTS up to CREATED_CONTRACTS_LEN      *)
(*   destroyed  the self-destruct list, as the number of occurrences       *)
(*   ripemd     whether RIP160 has been touched / loaded: the two facts    *)
(*              that the journal deliberately never takes back             *)
(* Routines are operators from kernel states to kernel states, so that a   *)
(* system call is the composition of the routines it calls.                *)
(***************************************************************************)
EXTENDS Integers, Sequences, FiniteSets

CONSTANTS Addr,      \* 160-bit addresses
          Slot,      \* storage slots (persistent and transient)
          RIP160,    \* the precompile that stays touched and loaded
          REFUND_SCLEAR, GAS_SSET, GAS_SRESET, GAS_WARMACCESS

Val == Nat

\* Account code: only whether there is any, and which, is told apart.
NoCode == "empty"        \* EMPTY_STRING_HASH
Codes == {NoCode, "code"}

Cold == -1               \* a storage key that is not in the access list

ASSUME LedgerAssumption ==
    /\ RIP160 \in Addr
    /\ IsFiniteSet(Addr)
    /\ {REFUND_SCLEAR, GAS_SSET, GAS_SRESET, GAS_WARMACCESS} \subseteq Nat

\* Restoring a slot is worth what its first write cost beyond a warm access: 20000 or
\* 2900 less 100.
ASSUME RefundAssumption == GAS_WARMACCESS <= GAS_SSET /\ GAS_WARMACCESS <= GAS_SRESET

-----------------------------------------------------------------------------
(* The ledger.                                                             *)

Account == [exists : BOOLEAN, nonce : Nat, balance : Int, code : Codes]

\* What a lookup of an account that is not in the state trie reads: the null
\* pointer, whose fields dereference to 0.
NoAccount == [exists |-> FALSE, nonce |-> 0, balance |-> 0, code |-> NoCode]

NewAccount(balance) ==
    [exists |-> TRUE, nonce |-> 0, balance |-> balance, code |-> NoCode]

Ledgers == [acct    : [Addr -> Account],
            slot    : [Addr -> [Slot -> Val]],
            loaded  : SUBSET Addr,
            orig    : [Addr -> [Slot -> Val \cup {Cold}]],
            touched : SUBSET Addr,
            refund  : Int,
            logs    : [len : Int, size : Nat],
            tran    : [Addr -> [Slot -> Val]]]

\* The ledgers that occur: no balance is negative, and an address without an account
\* has nothing in storage.
Solid ==
    {L \in Ledgers :
        \A a \in Addr :
            /\ L.acct[a].balance >= 0
            /\ ~L.acct[a].exists => /\ L.acct[a] = NoAccount
                                    /\ L.slot[a] = [i \in Slot |-> 0]}

is_non_existent(L, a) == ~L.acct[a].exists

is_empty(L, a) ==
    /\ L.acct[a].exists
    /\ L.acct[a].nonce = 0 /\ L.acct[a].balance = 0 /\ L.acct[a].code = NoCode

\* The wei there are, one pair for each, and how many.
Wei(L) == UNION {{a} \X (1 .. L.acct[a].balance) : a \in Addr}

Supply(L) == Cardinality(Wei(L))

\* delete_account: the account and every slot it has.
delete_account(L, a) ==
    [L EXCEPT !.acct[a] = NoAccount,
              !.slot[a] = [i \in Slot |-> 0]]

\* The balance arithmetic of deduct_eth and add_eth.
Credit(L, a, v) ==
    LET acct == L.acct[a]
    IN  [L EXCEPT !.acct[a] = IF acct.exists
                              THEN [acct EXCEPT !.balance = acct.balance + v]
                              ELSE NewAccount(v)]

MoveEth(L, from, to, v) ==
    Credit([L EXCEPT !.acct[from].balance = @ - v], to, v)

-----------------------------------------------------------------------------
(* Journal entries: the kinds of journal_entry.rs with their fields.       *)

AccountLoaded(a)             == [type |-> "AccountLoaded", addr |-> a]
AccountDestroyed(a, t, prev) == [type |-> "AccountDestroyed", addr |-> a, to |-> t, prev |-> prev]
AccountTouched(a)            == [type |-> "AccountTouched", addr |-> a]
BalanceTransfer(from, t, v)  == [type |-> "BalanceTransfer", addr |-> from, to |-> t, prev |-> v]
NonceChange(a, prev)         == [type |-> "NonceChange", addr |-> a, prev |-> prev]
StorageChange(a, k, prev)    == [type |-> "StorageChange", addr |-> a, slot |-> k, prev |-> prev]
StorageLoaded(a, k)          == [type |-> "StorageLoaded", addr |-> a, slot |-> k]
CodeChange(a, prev)          == [type |-> "CodeChange", addr |-> a, code |-> prev]
Refund(n)                    == [type |-> "Refund", prev |-> n]
AccountCreated(contract, a)  == [type |-> "AccountCreated", contract |-> contract, addr |-> a]
Log(size)                    == [type |-> "Log", prev |-> size]
TransientStorageChange(a, k, prev) ==
    [type |-> "TransientStorageChange", addr |-> a, slot |-> k, prev |-> prev]

Entry ==
         [type : {"AccountLoaded", "AccountTouched"}, addr : Addr]
    \cup [type : {"AccountDestroyed", "BalanceTransfer"}, addr : Addr, to : Addr, prev : Int]
    \cup [type : {"NonceChange"}, addr : Addr, prev : Nat]
    \cup [type : {"StorageChange", "TransientStorageChange"},
          addr : Addr, slot : Slot, prev : Val]
    \cup [type : {"StorageLoaded"}, addr : Addr, slot : Slot]
    \cup [type : {"CodeChange"}, addr : Addr, code : Codes]
    \cup [type : {"Refund"}, prev : Int]
    \cup [type : {"AccountCreated"}, contract : BOOLEAN, addr : Addr]
    \cup [type : {"Log"}, prev : Nat]

-----------------------------------------------------------------------------
(* Taking one entry back: revert_account_loaded and its siblings.          *)

\* What the reverting routine insists on; if it fails the kernel panics.
CanUndo(e, L) ==
    CASE e.type = "AccountLoaded"    -> e.addr = RIP160 \/ e.addr \in L.loaded
      [] e.type = "AccountDestroyed" -> L.acct[e.addr].exists /\ L.acct[e.to].exists
      [] e.type = "AccountTouched"   -> e.addr = RIP160 \/ e.addr \in L.touched
      [] e.type = "BalanceTransfer"  -> L.acct[e.to].exists /\ L.acct[e.to].balance >= e.prev
      [] e.type = "NonceChange"      -> L.acct[e.addr].exists
      [] e.type = "StorageLoaded"    -> L.orig[e.addr][e.slot] # Cold
      [] e.type = "CodeChange"       -> L.acct[e.addr].exists
      [] e.type = "AccountCreated"   -> L.acct[e.addr].exists
      [] OTHER -> TRUE

\* RIP160 stays loaded, and touched (EIP-716's exception).
revert_account_loaded(L, a) ==
    IF a = RIP160 THEN L ELSE [L EXCEPT !.loaded = @ \ {a}]

revert_account_touched(L, a) ==
    IF a = RIP160 THEN L ELSE [L EXCEPT !.touched = @ \ {a}]

revert_account_destroyed(L, a, target, prev) ==
    [[L EXCEPT !.acct[target].balance = @ - prev] EXCEPT !.acct[a].balance = prev]

\* The transfer back touches both ends again.  Should one not be touched, the touch it
\* journals lies above the length the batch ends with, and is cut off.
revert_balance_transfer(L, from, to, v) ==
    [MoveEth(L, to, from, v) EXCEPT !.touched = @ \cup ({to, from} \ {RIP160})]

revert_nonce_change(L, a, prev) == [L EXCEPT !.acct[a].nonce = prev]

revert_storage_change(L, a, i, prev) == [L EXCEPT !.slot[a][i] = prev]

revert_storage_loaded(L, a, i) == [L EXCEPT !.orig[a][i] = Cold]

revert_code_change(L, a, prev) == [L EXCEPT !.acct[a].code = prev]

revert_refund(L, n) == [L EXCEPT !.refund = @ - n]

revert_account_created(L, a) == delete_account(L, a)

revert_log(L, size) == [L EXCEPT !.logs = [len |-> @.len - 1, size |-> size]]

revert_transient_storage_change(L, a, i, prev) == [L EXCEPT !.tran[a][i] = prev]

\* The ledger after the entry has been taken back: the dispatch of %revert.
Undo(e, L) ==
    CASE e.type = "AccountLoaded"    -> revert_account_loaded(L, e.addr)
      [] e.type = "AccountDestroyed" -> revert_account_destroyed(L, e.addr, e.to, e.prev)
      [] e.type = "AccountTouched"   -> revert_account_touched(L, e.addr)
      [] e.type = "BalanceTransfer"  -> revert_balance_transfer(L, e.addr, e.to, e.prev)
      [] e.type = "NonceChange"      -> revert_nonce_change(L, e.addr, e.prev)
      [] e.type = "StorageChange"    -> revert_storage_change(L, e.addr, e.slot, e.prev)
      [] e.type = "StorageLoaded"    -> revert_storage_loaded(L, e.addr, e.slot)
      [] e.type = "CodeChange"       -> revert_code_change(L, e.addr, e.code)
      [] e.type = "Refund"           -> revert_refund(L, e.prev)
      [] e.type = "AccountCreated"   -> revert_account_created(L, e.addr)
      [] e.type = "Log"              -> revert_log(L, e.prev)
      [] e.type = "TransientStorageChange" ->
            revert_transient_storage_change(L, e.addr, e.slot, e.prev)

\* The same for the two lists that are not part of the ledger.
UndoCreated(e, created) ==
    IF e.type = "AccountCreated" /\ e.contract
    THEN SubSeq(created, 1, Len(created) - 1) ELSE created

UndoDestroyed(e, destroyed) ==
    IF e.type = "AccountDestroyed" /\ destroyed[e.addr] > 0
    THEN [destroyed EXCEPT ![e.addr] = @ - 1] ELSE destroyed

-----------------------------------------------------------------------------
(* Kernel states and the routines on them.                                 *)

Kernels == [led       : Ledgers,
            journal   : Seq(Entry),
            created   : Seq(Addr),
            destroyed : [Addr -> Nat],
            ripemd    : [touched : BOOLEAN, loaded : BOOLEAN]]

\* journal_add_1 .. journal_add_4, together with the change they record.
Record(s, L, e) == [s EXCEPT !.led = L, !.journal = Append(@, e)]

\* Mutant: an address that is already loaded is journaled again.
insert_accessed_addresses_always(s, a) ==
    Record(s, [s.led EXCEPT !.loaded = @ \cup ({a} \ {RIP160})], AccountLoaded(a))

insert_accessed_addresses(s, a) ==
    IF a = RIP160
    THEN IF s.ripemd.loaded THEN s
         ELSE Record([s EXCEPT !.ripemd.loaded = TRUE], s.led, AccountLoaded(a))
    ELSE IF a \in s.led.loaded THEN s
         ELSE Record(s, [s.led EXCEPT !.loaded = @ \cup {a}], AccountLoaded(a))

\* The value stored beside the key is the slot's value when it is first loaded.
insert_accessed_storage_keys(s, a, k) ==
    IF s.led.orig[a][k] # Cold THEN s
    ELSE Record(s, [s.led EXCEPT !.orig[a][k] = s.led.slot[a][k]], StorageLoaded(a, k))

insert_touched_addresses(s, a) ==
    IF a = RIP160
    THEN IF s.ripemd.touched THEN s
         ELSE Record([s EXCEPT !.ripemd.touched = TRUE], s.led, AccountTouched(a))
    ELSE IF a \in s.led.touched THEN s
         ELSE Record(s, [s.led EXCEPT !.touched = @ \cup {a}], AccountTouched(a))

\* Assumes that the account exists.
increment_nonce(s, a) ==
    LET n == s.led.acct[a].nonce
    IN  Record(s, [s.led EXCEPT !.acct[a].nonce = n + 1], NonceChange(a, n))

\* Mutant: a new contract is not journaled.
AddAccount_unjournaled(s, a, contract) ==
    IF s.led.acct[a].exists THEN s
    ELSE [s EXCEPT !.led.acct[a] = NewAccount(0)]

\* The account that add_eth, or create_contract_account, enters in the trie.
AddAccount(s, a, contract) ==
    IF s.led.acct[a].exists THEN s
    ELSE Record(s, [s.led EXCEPT !.acct[a] = NewAccount(0)], AccountCreated(contract, a))

\* add_eth up to the addition itself.
PrepareCredit(s, a, v) ==
    LET t == insert_touched_addresses(s, a)
    IN  IF v = 0 THEN t ELSE AddAccount(t, a, FALSE)

\* deduct_eth answers 1 (failure) for these.
CannotPay(s, a, v) == ~s.led.acct[a].exists \/ v > s.led.acct[a].balance

add_eth(s, a, v) ==
    LET t == PrepareCredit(s, a, v)
    IN  IF v = 0 THEN t ELSE [t EXCEPT !.led = Credit(@, a, v)]

deduct_eth(s, a, v) ==
    LET t == insert_touched_addresses(s, a)
    IN  [t EXCEPT !.led.acct[a].balance = @ - v]

\* transfer_eth when deduct_eth succeeds.
transfer_eth(s, from, to, v) == add_eth(deduct_eth(s, from, v), to, v)

\* transfer_eth followed by journal_add_balance_transfer, which records nothing
\* when nothing was transferred.
TransferAndJournal(s, from, to, v) ==
    LET t == PrepareCredit(insert_touched_addresses(s, from), to, v)
    IN  IF v = 0 THEN t
        ELSE Record(t, MoveEth(t.led, from, to, v), BalanceTransfer(from, to, v))

\* create_contract_account up to its collision test.  The address is appended to
\* the created contracts whatever the test then says.
AppendCreated(s, a) ==
    [insert_touched_addresses(s, a) EXCEPT !.created = Append(@, a)]

Collides(s, a) ==
    s.led.acct[a].exists /\ (s.led.acct[a].nonce # 0 \/ s.led.acct[a].code # NoCode)

\* create_contract_account after it.
InsertContract(s, a) ==
    LET t == AddAccount(s, a, TRUE)
    IN  Record(t, [t.led EXCEPT !.acct[a].nonce = 1], NonceChange(a, 0))

set_codehash(s, a, c) ==
    LET t == insert_touched_addresses(s, a)
    IN  Record(t, [t.led EXCEPT !.acct[a].code = c], CodeChange(a, t.led.acct[a].code))

refund_gas(s, n) == Record(s, [s.led EXCEPT !.refund = @ + n], Refund(n))

\* Mutant: clearing a slot that has its original value is worth nothing.
ClearRefund_noCredit(orig, cur, v) ==
    IF cur = orig \/ orig = 0 THEN 0
    ELSE IF cur = 0 THEN -REFUND_SCLEAR ELSE IF v = 0 THEN REFUND_SCLEAR ELSE 0

\* sstore_refund: what clearing, or un-clearing, a slot is worth, and what
\* restoring its original value is worth.
ClearRefund(orig, cur, v) ==
    CASE cur = orig             -> IF v = 0 THEN REFUND_SCLEAR ELSE 0
      [] cur # orig /\ orig = 0 -> 0
      [] cur # orig /\ orig # 0 -> IF cur = 0 THEN -REFUND_SCLEAR
                                  ELSE IF v = 0 THEN REFUND_SCLEAR ELSE 0

ResetRefund(orig, cur, v) ==
    IF cur = orig \/ v # orig THEN 0
    ELSE (IF orig = 0 THEN GAS_SSET ELSE GAS_SRESET) - GAS_WARMACCESS

MaybeRefund(s, n) == IF n = 0 THEN s ELSE refund_gas(s, n)

\* Mutant: the journal gets the new value.
SStore_newValue(s, a, k, v) ==
    IF v = s.led.slot[a][k] THEN s
    ELSE Record(s, [s.led EXCEPT !.slot[a][k] = v], StorageChange(a, k, v))

\* sys_sstore once the key is warm and the gas has been charged.
SStore(s, a, k, v) ==
    LET cur  == s.led.slot[a][k]
        orig == s.led.orig[a][k]
        t    == MaybeRefund(MaybeRefund(s, ClearRefund(orig, cur, v)),
                            ResetRefund(orig, cur, v))
    IN  IF v = cur THEN s
        ELSE Record(t, [t.led EXCEPT !.slot[a][k] = v], StorageChange(a, k, cur))

contract_just_created(s, a) == \E i \in 1 .. Len(s.created) : s.created[i] = a

\* sys_selfdestruct after the gas has been charged: the balance goes to the
\* recipient, unless the contract is new and its own recipient, when it is
\* burnt.  No entry is added when nothing was paid and the recipient does not
\* exist.
Selfdestruct(s, a, r) ==
    LET bal    == s.led.acct[a].balance
        new    == contract_just_created(s, a)
        amount == IF new /\ a = r THEN 0 ELSE bal
        t      == PrepareCredit(s, r, amount)
        paid   == [t.led EXCEPT !.acct[a].balance = 0]
        L      == IF amount = 0 THEN paid ELSE Credit(paid, r, amount)
        u      == IF new THEN [t EXCEPT !.destroyed[a] = @ + 1] ELSE t
    IN  IF bal = 0 /\ is_non_existent(L, r)
        THEN [u EXCEPT !.led = L]
        ELSE Record(u, L, AccountDestroyed(a, r, bal))

log_n(s, n) ==
    Record(s, [s.led EXCEPT !.logs = [len |-> @.len + 1, size |-> @.size + n]],
           Log(s.led.logs.size))

TStore(s, a, k, v) ==
    LET prev == s.led.tran[a][k]
    IN  IF v = prev THEN s
        ELSE Record(s, [s.led EXCEPT !.tran[a][k] = v], TransientStorageChange(a, k, prev))
=============================================================================
