------------------------------ MODULE KernelTxn ------------------------------
(***************************************************************************)
(* How the EVM kernel executes transactions: the stack of contexts, the    *)
(* checkpoints into the journal, the system calls of user code, the loop   *)
(* that reverts to a checkpoint one journal entry at a time, and the       *)
(* beginning and the end of a transaction.  User code is arbitrary: while  *)
(* it runs, any system call may come next.  Gas is not counted: wherever   *)
(* the kernel charges gas, running out of it is a possible outcome.        *)
(***************************************************************************)
EXTENDS Ledger

CONSTANTS Coinbase,          \* GLOBAL_METADATA_BLOCK_BENEFICIARY
          Senders,           \* transaction origins
          Precompiles,       \* addresses served by handle_precompiles
          Amounts,           \* values carried by calls and transactions
          Vals,              \* words written by SSTORE and TSTORE
          InitLedger,        \* the ledger before the first transaction
          Ops,               \* bound: the system calls user code makes
          GasLimit, BaseFee, PriorityFee,
          Leftovers,         \* gas that may be left when a transaction ends
          CALL_STACK_LIMIT, MAX_NONCE,
          AccessLists,       \* bound: the transactions' access lists, see AccessList
          MaxJournal,        \* bound: journal length, and
          MaxMarks,          \* bound: checkpoints of a transaction, at which user code stops calling
          MaxListed,         \* bound: length of the created and self-destruct lists
          MaxTxns            \* bound: transactions in the batch

ASSUME KernelAssumption ==
    /\ Coinbase \in Addr /\ Senders \subseteq Addr /\ Precompiles \subseteq Addr
    /\ Amounts \subseteq Nat /\ Vals \subseteq Nat
    /\ InitLedger \in Solid
    /\ GasLimit \in Nat /\ BaseFee \in Nat /\ PriorityFee \in Nat
    /\ Leftovers \subseteq 0 .. GasLimit
    /\ AccessLists \subseteq {<< >>} \cup (Addr \X Slot)

\* Between transactions nothing is warm and nothing is to be refunded, and by EIP-161
\* the state has no empty account.
ASSUME InitLedgerAssumption ==
    /\ InitLedger.refund = 0
    /\ \A a \in Addr : /\ ~is_empty(InitLedger, a)
                       /\ \A i \in Slot : InitLedger.orig[a][i] = Cold

VARIABLES k,        \* the kernel state, see Ledger
          marks,    \* JOURNAL_CHECKPOINTS up to CURRENT_CHECKPOINT
          ctxs,     \* the contexts, the kernel's own first, the running one last
          pc,       \* where the kernel is
          rv,       \* registers of the revert loop
          txn       \* the transaction: fields, and ghosts for the properties

vars == <<k, marks, ctxs, pc, rv, txn>>

-----------------------------------------------------------------------------
Top == ctxs[Len(ctxs)]
Self == Top.addr
Depth == Len(ctxs) - 1              \* GLOBAL_METADATA_CALL_STACK_DEPTH

\* A mark is the journal length at the checkpoint; led and destroyed are
\* ghosts: what a revert to it should restore.
Mark(s) == [size |-> Len(s.journal), led |-> s.led, destroyed |-> s.destroyed]

\* Kinds of code a context runs.
CodeOf(L, a) ==
    IF a \in Precompiles THEN "precompile"
    ELSE IF L.acct[a].code = NoCode THEN "none" ELSE "user"

\* %checkpoint in the running context of cs: ms is the list of marks.
WithCheckpoint(cs, ms) ==
    [cs EXCEPT ![Len(cs)].cps = Append(@, Len(ms))]

\* %pop_checkpoint
PopCheckpoint(cs) ==
    [cs EXCEPT ![Len(cs)].cps = SubSeq(@, 1, Len(@) - 1)]

NewCtx(a, code, static, ret, ms) ==
    [addr |-> a, code |-> code, static |-> static, ret |-> ret, cps |-> <<Len(ms)>>]

NoRevert == [target |-> 0, cp |-> 0, size |-> 0, next |-> "idle"]

\* revert_checkpoint up to its loop, from kernel state s, marks ms, contexts cs.
StartRevert(s, ms, cs, next) ==
    LET cps    == cs[Len(cs)].cps
        target == cps[Len(cps)]
    IN
    /\ k' = s /\ marks' = ms /\ ctxs' = cs
    /\ pc' = IF Len(ms) < target THEN "panic" ELSE "undo"
    /\ rv' = [target |-> target, cp |-> Len(ms), size |-> Len(s.journal), next |-> next]

\* The system call returns to the user code that made it.
Resume(s, ms, cs) ==
    /\ k' = s /\ marks' = ms /\ ctxs' = cs
    /\ UNCHANGED <<pc, rv, txn>>

Panic == /\ pc' = "panic"
         /\ UNCHANGED <<k, marks, ctxs, rv, txn>>

\* enter_new_ctx: push the context and take its own checkpoint.
Enter(s, ms, cs, a, code, static, ret) ==
    /\ k' = s
    /\ marks' = Append(ms, Mark(s))
    /\ ctxs' = Append(cs, NewCtx(a, code, static, ret, ms))
    /\ pc' = "user"
    /\ UNCHANGED rv

Running(op) == /\ pc = "user" /\ Top.code = "user"
               /\ op \in Ops
               /\ Len(k.journal) < MaxJournal /\ Len(marks) < txn.base + MaxMarks

\* revert_checkpoint, then terminate_common.
fault_exception(s) == StartRevert(s, marks, ctxs, "terminate") /\ UNCHANGED txn

-----------------------------------------------------------------------------
(* System calls of user code.                                              *)

\* Any exception, including a system call's when it fails before it has
\* changed anything: out of gas, a state change in a static context, ...
Fault == /\ pc = "user" /\ Top.code # "none"
         /\ fault_exception(k)

sys_sstore(i, v) ==
    /\ Running("sstore") /\ ~Top.static
    /\ LET s == insert_accessed_storage_keys(k, Self, i) IN
       \/ Resume(SStore(s, Self, i, v), marks, ctxs)
       \/ fault_exception(s)

sys_sload(i) ==
    /\ Running("sload")
    /\ LET s == insert_accessed_storage_keys(k, Self, i) IN
       \/ Resume(s, marks, ctxs)
       \/ fault_exception(s)

\* Mutant: static contexts may write transient storage.
sys_tstore_static(i, v) ==
    /\ Running("tstore")
    /\ Resume(TStore(k, Self, i, v), marks, ctxs)

sys_tstore(i, v) ==
    /\ Running("tstore") /\ ~Top.static
    /\ Resume(TStore(k, Self, i, v), marks, ctxs)

\* sys_log0 .. sys_log4
sys_log(n) ==
    /\ Running("log") /\ ~Top.static
    /\ Resume(log_n(k, n), marks, ctxs)

\* sys_balance, sys_extcodesize, sys_extcodehash, sys_extcodecopy: of the
\* state that is modelled they change the access list only.
sys_balance(a) ==
    /\ Running("balance")
    /\ LET s == insert_accessed_addresses(k, a) IN
       \/ Resume(s, marks, ctxs)
       \/ fault_exception(s)

\* sys_call, sys_callcode, sys_delegatecall, sys_staticcall.  The checkpoint is
\* taken before the transfer; call_insufficient_balance leaves it where it is.
CallKinds == {"call", "callcode", "delegatecall", "staticcall"}

MakeCall(kind, a, v) ==
    LET s1  == insert_accessed_addresses(k, a)
        ms  == Append(marks, Mark(s1))
        cs  == WithCheckpoint(ctxs, marks)
        own == kind \in {"callcode", "delegatecall"}
        s2  == insert_touched_addresses(s1, IF own THEN Self ELSE a)
        s3  == CASE kind = "call"     -> TransferAndJournal(s2, Self, a, v)
                 [] kind = "callcode" -> transfer_eth(s2, Self, Self, v)
                 [] OTHER             -> s2
        static == Top.static \/ kind = "staticcall"
    IN  \/ fault_exception(s1)                                 \* call_charge_gas
        \/ Depth > CALL_STACK_LIMIT /\ Resume(s1, marks, ctxs)  \* call_too_deep
        \/ /\ Depth <= CALL_STACK_LIMIT
           /\ IF kind \in {"call", "callcode"} /\ CannotPay(s2, Self, v)
              THEN Resume(insert_touched_addresses(s2, Self), ms, cs)
              ELSE /\ Enter(s3, ms, cs, IF own THEN Self ELSE a,
                            CodeOf(s3.led, a), static, "call")
                   /\ UNCHANGED txn

sys_call(kind, a, v) ==
    /\ Running(kind)
    /\ kind \in {"delegatecall", "staticcall"} => v = 0
    /\ ~(kind = "call" /\ Top.static /\ v # 0)
    /\ MakeCall(kind, a, v)

\* Mutant: the balance is not checked.
CreateRefused_noBalance(v) ==
    Depth > CALL_STACK_LIMIT \/ k.led.acct[Self].nonce = MAX_NONCE

\* create_too_deep, create_insufficient_balance, nonce_overflow.
CreateRefused(v) ==
    \/ Depth > CALL_STACK_LIMIT
    \/ k.led.acct[Self].balance < v
    \/ k.led.acct[Self].nonce = MAX_NONCE

\* sys_create and sys_create2: the address is any address, since nothing that
\* is modelled determines a hash, but never a precompile's.
sys_create(a, v) ==
    /\ Running("create") /\ ~Top.static
    /\ Len(k.created) < MaxListed
    /\ a \notin Precompiles
    /\ LET s1 == insert_accessed_addresses(k, a)
           s2 == increment_nonce(s1, Self)
           ms == Append(marks, Mark(s2))
           cs == WithCheckpoint(ctxs, marks)
           s3 == AppendCreated(TransferAndJournal(s2, Self, a, v), a)
       IN  IF CreateRefused(v)
           THEN Resume(s1, marks, ctxs)
           ELSE IF ~k.led.acct[Self].exists THEN Panic
           ELSE IF Collides(s3, a)
           THEN StartRevert(s3, ms, cs, "user") /\ UNCHANGED txn  \* create_collision
           ELSE /\ Enter(InsertContract(s3, a), ms, cs, a, "user", FALSE, "create")
                /\ UNCHANGED txn

-----------------------------------------------------------------------------
(* Terminating a context.                                                  *)

\* terminate_common: back to the parent, whose continuation runs next.
Terminate(s, ok) ==
    /\ k' = s
    /\ ctxs' = SubSeq(ctxs, 1, Len(ctxs) - 1)
    /\ pc' = Top.ret
    /\ txn' = [txn EXCEPT !.ok = ok, !.callee = Self]
    /\ UNCHANGED <<marks, rv>>

\* sys_stop, sys_return; a precompile's pop_and_return_success.
sys_stop == pc = "user" /\ Terminate(k, TRUE)

sys_revert == /\ pc = "user" /\ Top.code = "user"
              /\ fault_exception(k)

sys_selfdestruct(r) ==
    /\ Running("selfdestruct") /\ ~Top.static
    /\ k.destroyed[Self] < MaxListed
    /\ LET s == insert_accessed_addresses(k, r) IN
       IF ~k.led.acct[Self].exists THEN Panic
       ELSE \/ Terminate(Selfdestruct(s, Self, r), TRUE)
            \/ fault_exception(s)

-----------------------------------------------------------------------------
(* The revert loop.                                                        *)

\* One iteration of revert_batch's while_loop, its sanity check included.
UndoEntry ==
    /\ pc = "undo" /\ rv.cp # rv.target
    /\ rv.size # marks[rv.cp].size
    /\ LET e == k.journal[rv.size] IN
       IF rv.size > marks[rv.cp].size /\ CanUndo(e, k.led)
       THEN /\ k' = [k EXCEPT !.led = Undo(e, @),
                              !.created = UndoCreated(e, @),
                              !.destroyed = UndoDestroyed(e, @)]
            /\ rv' = [rv EXCEPT !.size = @ - 1]
            /\ UNCHANGED <<marks, ctxs, pc, txn>>
       ELSE Panic

\* Mutant: the loop stays at the same checkpoint.
BatchDone_same ==
    /\ pc = "undo" /\ rv.cp # rv.target
    /\ rv.size = marks[rv.cp].size
    /\ k' = [k EXCEPT !.journal = SubSeq(@, 1, rv.size)]
    /\ UNCHANGED <<marks, ctxs, pc, rv, txn>>

\* revert_batch_done, after_revert: on to the next older checkpoint.
BatchDone ==
    /\ pc = "undo" /\ rv.cp # rv.target
    /\ rv.size = marks[rv.cp].size
    /\ k' = [k EXCEPT !.journal = SubSeq(@, 1, rv.size)]
    /\ rv' = [rv EXCEPT !.cp = @ - 1]
    /\ UNCHANGED <<marks, ctxs, pc, txn>>

\* Mutant: the context keeps the checkpoint it has been reverted to.
RevertDone_noPop ==
    /\ pc = "undo" /\ rv.cp = rv.target
    /\ marks' = SubSeq(marks, 1, rv.target)
    /\ pc' = rv.next
    /\ UNCHANGED <<k, ctxs, rv, txn>>

\* revert_checkpoint_done.
RevertDone ==
    /\ pc = "undo" /\ rv.cp = rv.target
    /\ marks' = SubSeq(marks, 1, rv.target)
    /\ ctxs' = PopCheckpoint(ctxs)
    /\ pc' = rv.next
    /\ UNCHANGED <<k, rv, txn>>

\* The end of sys_revert and of fault_exception.
TerminateFailed == pc = "terminate" /\ Terminate(k, FALSE)

-----------------------------------------------------------------------------
(* Continuations in the parent context.                                    *)

after_call_instruction ==
    /\ pc = "call"
    /\ IF txn.ok
       THEN /\ pc' = "user"
            /\ ctxs' = PopCheckpoint(ctxs)
            /\ UNCHANGED <<k, marks, rv, txn>>
       ELSE StartRevert(k, marks, ctxs, "user") /\ UNCHANGED txn

\* The returned code may be rejected: first byte 0xEF, too large, too dear.
after_constructor ==
    /\ pc = "create"
    /\ \/ StartRevert(k, marks, ctxs, "user") /\ UNCHANGED txn
       \/ /\ txn.ok
          /\ \E c \in Codes : k' = set_codehash(k, txn.callee, c)
          /\ ctxs' = PopCheckpoint(ctxs)
          /\ pc' = "user"
          /\ UNCHANGED <<marks, rv, txn>>

process_contract_creation_txn_after_constructor ==
    /\ pc = "txn_create"
    /\ \/ StartRevert(k, marks, ctxs, "fault") /\ UNCHANGED txn
       \/ /\ txn.ok
          /\ \E c \in Codes : k' = set_codehash(k, txn.callee, c)
          /\ pc' = "finish"
          /\ UNCHANGED <<marks, ctxs, rv, txn>>

\* create_contract_account_fault, contract_creation_fault_3, _4
ContractCreationFault ==
    /\ pc = "fault"
    /\ pc' = "finish"
    /\ txn' = [txn EXCEPT !.ok = FALSE]
    /\ UNCHANGED <<k, marks, ctxs, rv>>

\* process_message_txn_fail gives the value back, unjournaled like the transfer
\* itself, and panics if the recipient no longer has it.
process_message_txn_after_call ==
    /\ pc = "txn_msg"
    /\ IF txn.ok \/ txn.value = 0
       THEN k' = k /\ pc' = "finish"
       ELSE IF CannotPay(k, txn.to, txn.value)
       THEN k' = k /\ pc' = "panic_fail"
       ELSE k' = transfer_eth(k, txn.to, txn.sender, txn.value) /\ pc' = "finish"
    /\ UNCHANGED <<marks, ctxs, rv, txn>>

-----------------------------------------------------------------------------
(* The transaction.                                                        *)

Price == BaseFee + PriorityFee
Upfront == GasLimit * Price

\* process_normalized_txn's checks.
ValidTxn(o, v) ==
    /\ k.led.acct[o].nonce # MAX_NONCE
    /\ k.led.acct[o].exists /\ k.led.acct[o].code = NoCode
    /\ k.led.acct[o].balance >= Upfront + v

\* decode_and_store_access_list: the transaction's access list has at most one
\* address, with one key.
AccessList(warm) ==
    IF warm = << >> THEN k
    ELSE insert_accessed_storage_keys(
             insert_accessed_addresses(k, warm[1]), warm[1], warm[2])

\* buy_gas, increment_sender_nonce, warm_origin, warm_precompiles,
\* warm_coinbase.
Bought(o, warm) ==
    LET s1 == increment_nonce(deduct_eth(AccessList(warm), o, Upfront), o)
    IN  insert_accessed_addresses(
            insert_accessed_addresses(insert_accessed_addresses(s1, o), RIP160),
            Coinbase)

\* reinitialize_memory_pre_txn: the touched addresses and the created contracts
\* are not reset.
Reinitialized(s) ==
    [led |-> [s.led EXCEPT !.loaded = {}, !.refund = 0,
                           !.orig = [a \in Addr |-> [i \in Slot |-> Cold]],
                           !.logs = [len |-> 0, size |-> 0],
                           !.tran = [a \in Addr |-> [i \in Slot |-> 0]]],
     journal |-> << >>,
     created |-> s.created,
     destroyed |-> [a \in Addr |-> 0],
     ripemd |-> [s.ripemd EXCEPT !.loaded = FALSE]]

NewTxn(kind, o, a, v) ==
    [kind |-> kind, sender |-> o, to |-> a, value |-> v, ok |-> TRUE, callee |-> o,
     count |-> txn.count + 1, base |-> Len(marks), start |-> k.led]

\* process_message_txn
process_message_txn(o, a, v, warm) ==
    /\ pc = "idle" /\ txn.count < MaxTxns
    /\ ValidTxn(o, v)
    /\ txn' = NewTxn("msg", o, a, v)
    /\ LET s == transfer_eth(insert_accessed_addresses(Bought(o, warm), a), o, a, v) IN
       IF a \notin Precompiles /\ s.led.acct[a].exists /\ s.led.acct[a].code = NoCode
       THEN /\ k' = s /\ pc' = "finish"                \* process_message_txn_return
            /\ UNCHANGED <<marks, ctxs, rv>>
       ELSE Enter(s, marks, ctxs, a, CodeOf(s.led, a), FALSE, "txn_msg")

\* process_contract_creation_txn
process_contract_creation_txn(o, a, v, warm) ==
    /\ pc = "idle" /\ txn.count < MaxTxns
    /\ ValidTxn(o, v)
    /\ "create_txn" \in Ops /\ a \notin Precompiles
    /\ txn' = NewTxn("create", o, a, v)
    /\ LET s0 == insert_accessed_addresses(Bought(o, warm), a)
           ms == Append(marks, Mark(s0))
           cs == WithCheckpoint(ctxs, marks)
           s1 == AppendCreated(s0, a)
       IN  IF Collides(s1, a)
           THEN StartRevert(s1, ms, cs, "fault")        \* create_contract_account_fault
           ELSE Enter(TransferAndJournal(InsertContract(s1, a), o, a, v), ms, cs,
                      a, "user", FALSE, "txn_create")

\* invalid_txn, _1, _2, _3: nothing is done, but memory is reinitialized.
invalid_txn(o, v, warm) ==
    /\ pc = "idle" /\ txn.count < MaxTxns
    /\ ~ValidTxn(o, v)
    /\ txn' = NewTxn("invalid", o, o, v)
    /\ k' = Reinitialized(AccessList(warm))
    /\ UNCHANGED <<marks, ctxs, pc, rv>>

\* Mutant: a reverted touch of RIP160 is forgotten.
Swept_noRipemd(s) ==
    LET dead == {a \in Addr : \/ a \in s.led.touched /\ is_empty(s.led, a)
                              \/ s.destroyed[a] > 0 /\ s.led.acct[a].exists}
    IN  [s.led EXCEPT
           !.acct = [a \in Addr |-> IF a \in dead THEN NoAccount ELSE s.led.acct[a]],
           !.slot = [a \in Addr |-> [i \in Slot |->
                        IF a \in dead THEN 0 ELSE s.led.slot[a][i]]]]

\* delete_all_touched_addresses, delete_all_selfdestructed_addresses.
Swept(s) ==
    LET touched == s.led.touched \cup (IF s.ripemd.touched THEN {RIP160} ELSE {})
        dead == {a \in Addr : \/ a \in touched /\ is_empty(s.led, a)
                              \/ s.destroyed[a] > 0 /\ s.led.acct[a].exists}
    IN  [s.led EXCEPT
           !.acct = [a \in Addr |-> IF a \in dead THEN NoAccount ELSE s.led.acct[a]],
           !.slot = [a \in Addr |-> [i \in Slot |->
                        IF a \in dead THEN 0 ELSE s.led.slot[a][i]]]]

\* Mutant: the refund is not capped.
Paid_uncapped(s, leftover) ==
    LET used == GasLimit - leftover
    IN  add_eth(add_eth(s, Coinbase, used * PriorityFee),
                txn.sender, (leftover + s.led.refund) * Price)

\* pay_coinbase_and_refund_sender for some leftover gas.  %min compares the refund
\* counter as an unsigned word, so that a negative one is larger than any cap.
Paid(s, leftover) ==
    LET used   == GasLimit - leftover
        capped == used \div 5
        refund == IF s.led.refund \in 0 .. capped THEN s.led.refund ELSE capped
    IN  add_eth(add_eth(s, Coinbase, (used - refund) * PriorityFee),
                txn.sender, (leftover + refund) * Price)

Finish(leftover) ==
    /\ pc = "finish"
    /\ LET s == Paid(k, leftover) IN
       k' = Reinitialized([s EXCEPT !.led = Swept(s)])
    /\ pc' = "idle"
    /\ UNCHANGED <<marks, ctxs, rv, txn>>

\* execute_withdrawals: one withdrawal, when the prover has no more transactions.
withdrawals(a, v) ==
    /\ pc = "idle" /\ txn.count > 0
    /\ k' = add_eth(k, a, v)
    /\ pc' = "halt"
    /\ UNCHANGED <<marks, ctxs, rv, txn>>

-----------------------------------------------------------------------------
KernelCtx == [addr |-> Coinbase, code |-> "kernel", static |-> FALSE, ret |-> "idle",
              cps |-> << >>]

Init ==
    /\ k = [led |-> InitLedger, journal |-> << >>, created |-> << >>,
            destroyed |-> [a \in Addr |-> 0],
            ripemd |-> [touched |-> FALSE, loaded |-> FALSE]]
    /\ marks = << >>
    /\ ctxs = <<KernelCtx>>
    /\ pc = "idle"
    /\ rv = NoRevert
    /\ txn = [kind |-> "none", sender |-> Coinbase, to |-> Coinbase, value |-> 0,
              ok |-> TRUE, callee |-> Coinbase, count |-> 0, base |-> 0,
              start |-> InitLedger]

UserStep ==
    \/ Fault
    \/ sys_stop
    \/ sys_revert
    \/ \E i \in Slot, v \in Vals : sys_sstore(i, v) \/ sys_tstore(i, v)
    \/ \E i \in Slot : sys_sload(i)
    \/ \E n \in {0, 1} : sys_log(n)
    \/ \E a \in Addr : sys_balance(a) \/ sys_selfdestruct(a)
    \/ \E a \in Addr, v \in Amounts :
          sys_create(a, v) \/ \E kind \in CallKinds : sys_call(kind, a, v)

RevertStep == UndoEntry \/ BatchDone \/ RevertDone \/ TerminateFailed

ParentStep ==
    \/ after_call_instruction
    \/ after_constructor
    \/ process_contract_creation_txn_after_constructor
    \/ ContractCreationFault
    \/ process_message_txn_after_call

TxnStep ==
    \/ \E o \in Senders, a \in Addr, v \in Amounts, warm \in AccessLists :
          \/ process_message_txn(o, a, v, warm)
          \/ process_contract_creation_txn(o, a, v, warm)
    \/ \E o \in Senders, v \in Amounts, warm \in AccessLists : invalid_txn(o, v, warm)
    \/ \E leftover \in Leftovers : Finish(leftover)
    \/ \E a \in Addr, v \in Amounts : withdrawals(a, v)

\* The kernel has halted.
Done == pc \in {"halt", "panic", "panic_fail"} /\ UNCHANGED vars

Next == UserStep \/ RevertStep \/ ParentStep \/ TxnStep \/ Done

Spec == Init /\ [][Next]_vars

\* The kernel is a sequential program: its revert loop keeps running.
FairSpec == Spec /\ WF_vars(RevertStep)

-----------------------------------------------------------------------------
(* Properties.                                                             *)

Context == [addr : Addr, code : {"kernel", "user", "none", "precompile"},
            static : BOOLEAN,
            ret : {"idle", "call", "create", "txn_create", "txn_msg"},
            cps : Seq(Nat)]

Marks == [size : Nat, led : Ledgers, destroyed : [Addr -> Nat]]

Labels == {"idle", "user", "undo", "terminate", "call", "create", "txn_create",
           "txn_msg", "fault", "finish", "halt", "panic", "panic_fail"}

Registers == [target : Nat, cp : Nat, size : Nat,
              next : {"idle", "user", "terminate", "fault"}]

Txns == [kind : {"none", "msg", "create", "invalid"}, sender : Addr, to : Addr,
         value : Nat, ok : BOOLEAN, callee : Addr, count : Nat, base : Nat,
         start : Ledgers]

\* The kernel's variables keep their types.
TypeOK ==
    /\ k \in Kernels
    /\ marks \in Seq(Marks)
    /\ ctxs \in Seq(Context)
    /\ pc \in Labels
    /\ rv \in Registers
    /\ txn \in Txns

\* When revert_checkpoint reaches its target, the ledger (accounts, storage, access
\* lists, touched addresses, refund counter, logs, transient storage) is exactly
\* what it was when the checkpoint was taken, whatever calls, creations, nested
\* reverts and self-destructs happened since.
RevertRestores ==
    pc = "undo" /\ rv.cp = rv.target => k.led = marks[rv.target + 1].led

\* No sanity check of the kernel ever fails: no revert loop runs past its target,
\* no entry is undone on an account or list that no longer has what it undoes, and
\* the transfers the kernel believes cannot fail do not.
NoPanic == pc # "panic"

\* The checkpoints of the contexts are nested: each is a live checkpoint, they
\* increase from the bottom of the call stack to its top, and inside the current
\* transaction the journal never gets shorter than the mark of one of them.
CheckpointsNested ==
    /\ \A i, j \in 1 .. Len(ctxs) :
          \A m \in 1 .. Len(ctxs[i].cps), n \in 1 .. Len(ctxs[j].cps) :
             /\ ctxs[i].cps[m] < Len(marks)
             /\ i < j \/ (i = j /\ m < n) => ctxs[i].cps[m] < ctxs[j].cps[n]
    /\ \A m, n \in txn.base + 1 .. Len(marks) :
          m <= n => marks[m].size <= marks[n].size
    /\ pc \notin {"undo", "idle", "halt"} =>
          \A m \in txn.base + 1 .. Len(marks) : marks[m].size <= Len(k.journal)

\* The refund counter, which the kernel compares as an unsigned word when the
\* transaction ends, is never negative, although un-clearing a slot subtracts from it.
RefundNonNegative == k.led.refund >= 0

\* The value kept beside a warm storage key, from which refunds are computed, is the
\* slot's value at the beginning of the transaction, whatever was written, reverted
\* and loaded again in between.
OriginalIsTxnStart ==
    pc # "idle" => \A a \in Addr, i \in Slot :
                      k.led.orig[a][i] # Cold => k.led.orig[a][i] = txn.start.slot[a][i]

\* Both: what a transaction is refunded is computed from the values the slots had at
\* its beginning, and never below zero.
RefundsRight == RefundNonNegative /\ OriginalIsTxnStart

\* No balance underflows, not even half way through a revert, although undoing a
\* self-destruct subtracts from its recipient without a check.
BalancesNonNegative == \A a \in Addr : k.led.acct[a].balance >= 0

\* Ether is only ever burnt: in a transaction the balances add up to no more than at
\* its beginning less the gas bought, and at its end to no more than at its beginning.
\* Only a withdrawal adds to them.
SupplyNeverGrows ==
    CASE pc = "idle" -> Supply(k.led) <= Supply(txn.start)
      [] pc = "halt" -> \E v \in Amounts : Supply(k.led) <= Supply(txn.start) + v
      [] OTHER       -> Supply(k.led) + Upfront <= Supply(txn.start)

\* A transaction that was not rejected has spent the sender's nonce when it ends,
\* however much of it was reverted.
NonceSpent ==
    pc = "idle" /\ txn.kind \in {"msg", "create"} =>
        k.led.acct[txn.sender].nonce = txn.start.acct[txn.sender].nonce + 1

\* EIP-161: no transaction leaves an empty account behind, not even RIP160 when the
\* touch that would have it deleted was reverted.
NoEmptyAccounts == pc = "idle" => \A a \in Addr : ~is_empty(k.led, a)

\* Both, of the state a transaction leaves to the next one of the batch.
TxnEndRight == NonceSpent /\ NoEmptyAccounts

\* A creation transaction that failed has changed no account and no slot, except the
\* sender's, who has spent a nonce and bought gas.
FailedCreationUndone ==
    pc = "finish" /\ txn.kind = "create" /\ ~txn.ok =>
        /\ k.led.slot = txn.start.slot
        /\ k.led.acct = [txn.start.acct EXCEPT ![txn.sender].nonce = @ + 1,
                                               ![txn.sender].balance = @ - Upfront]

\* A revert that has begun comes to its end.
RevertEnds == pc = "undo" ~> pc # "undo"

\* While a static context, or anything it called, runs, no account, slot, log or
\* transient slot differs from what it was when the context was entered.
Observable(L) == <<L.acct, L.slot, L.logs, L.tran>>

StaticChangesNothing ==
    \A i \in 1 .. Len(ctxs) :
        ctxs[i].static /\ ctxs[i].cps # << >> =>
            Observable(k.led) = Observable(marks[ctxs[i].cps[1] + 1].led)

-----------------------------------------------------------------------------
(* What the repository says of the kernel, and the code does not keep.     *)

\* "Pointer to the initial version of the state trie, at the creation of this
\* context.  Used when we need to revert a context": a context that fails takes
\* back everything since it was created.
FailedContextReverted ==
    pc = "undo" /\ rv.next = "terminate" /\ rv.cp = rv.target =>
        k.led = marks[Top.cps[1] + 1].led

\* "%transfer_eth %jumpi(panic)": the recipient of a failed message transaction can
\* always give the value back.
ValueGivenBack == pc # "panic_fail"

\* "Returns 1 if the address is present in SEGMENT_CREATED_CONTRACTS, meaning that it
\* has been created during this transaction": such an address held no contract when
\* the transaction began.
JustCreatedIsNew ==
    pc = "user" => \A a \in Addr :
        contract_just_created(k, a) => txn.start.acct[a].code = NoCode

\* "If the account doesn't exist, there is no need to add a journal entry": a revert
\* also takes back what was added to the self-destruct list.
DestroyedRestored ==
    pc = "undo" /\ rv.cp = rv.target => k.destroyed = marks[rv.target + 1].destroyed
=============================================================================
