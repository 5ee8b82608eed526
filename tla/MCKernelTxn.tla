---------------------------- MODULE MCKernelTxn ----------------------------
(***************************************************************************)
(* KernelTxn for TLC: four accounts, three scenarios that differ in what   *)
(* user code does and in the bounds that keep them small.  The scenario's  *)
(* constants replace the .cfg's.                                           *)
(***************************************************************************)
EXTENDS KernelTxn

CONSTANTS eoa,       \* the sender: an account without code
          con,       \* a contract
          vacant,    \* an address with no account
          rip        \* the precompile at RIP160

MCAddr == {eoa, con, vacant, rip}

Acct(nonce, balance, code) ==
    [exists |-> TRUE, nonce |-> nonce, balance |-> balance, code |-> code]

\* The sender can pay for every transaction; con has one wei and one slot set.
MCInitLedger ==
    [acct    |-> [a \in MCAddr |->
                    CASE a = eoa -> Acct(0, 20, NoCode)
                      [] a = con -> Acct(1, 1, "code")
                      [] OTHER   -> NoAccount],
     slot    |-> [a \in MCAddr |-> [i \in Slot |-> IF a = con THEN 1 ELSE 0]],
     loaded  |-> {},
     orig    |-> [a \in MCAddr |-> [i \in Slot |-> Cold]],
     touched |-> {},
     refund  |-> 0,
     logs    |-> [len |-> 0, size |-> 0],
     tran    |-> [a \in MCAddr |-> [i \in Slot |-> 0]]]

NoLists == {<< >>}

VARIABLE scenario   \* which of the three is played

\* Calls of every kind with storage, logs, transient storage and access lists.
Calls == INSTANCE KernelTxn WITH
    Ops <- {"sstore", "sload", "call", "callcode", "delegatecall", "staticcall", "balance", "log", "tstore"},
    AccessLists <- {<< >>, <<con, 1>>}, MaxJournal <- 10, MaxMarks <- 4, MaxTxns <- 1

\* Creations and self-destructs, with calls between them.
Creations == INSTANCE KernelTxn WITH
    Ops <- {"create", "create_txn", "selfdestruct", "call"},
    AccessLists <- NoLists, MaxJournal <- 10, MaxMarks <- 4, MaxTxns <- 1

\* A batch of two transactions.
Batch == INSTANCE KernelTxn WITH
    Ops <- {"create", "create_txn", "sstore", "selfdestruct"},
    AccessLists <- NoLists, MaxJournal <- 9, MaxMarks <- 3, MaxTxns <- 2

MCInit == Init /\ scenario \in {"calls", "creations", "batch"}

MCNext ==
    /\ \/ scenario = "calls" /\ Calls!Next
       \/ scenario = "creations" /\ Creations!Next
       \/ scenario = "batch" /\ Batch!Next
    /\ UNCHANGED scenario

MCSpec == MCInit /\ [][MCNext]_<<vars, scenario>>

FairInit == Init /\ scenario = "calls"

\* The .cfg's own constants, with the fairness of the revert loop: it is the kernel's
\* code, and goes on as long as the kernel runs.
MCFairSpec ==
    /\ FairInit
    /\ [][Next /\ UNCHANGED scenario]_<<vars, scenario>>
    /\ WF_vars(RevertStep)
=============================================================================
