---------------------------- MODULE LedgerProofs ----------------------------
(***************************************************************************)
(* Every routine of Ledger journals what it does: from the state it leaves *)
(* behind, undoing the entries it added, newest first, leads back to the   *)
(* ledger it started from, and every one of them can be undone.  The laws  *)
(* of a transaction (the refund counter, the original values of the slots, *)
(* the sender's account, the empty accounts and the supply of ether) hold  *)
(* of every ledger on the way.                                             *)
(***************************************************************************)
EXTENDS Ledger, FiniteSetTheorems, TLAPS

\* What an address without an account has.
Vacant(L, a) == L.acct[a] = NoAccount /\ L.slot[a] = [i \in Slot |-> 0]

\* A ledger is solid when its fields are typed and its accounts are.
LEMMA SolidIntro ==
    ASSUME NEW L \in Ledgers,
           \A a \in Addr : L.acct[a].balance >= 0 /\ (~L.acct[a].exists => Vacant(L, a))
    PROVE  L \in Solid
BY DEF Solid, Vacant

\* h is a history of the ledger indexed by journal length: undoing the entries
\* lo + 1 .. hi of the journal leads from h[hi] to h[lo].
Unwinds(h, journal, lo, hi) ==
    \A i \in lo + 1 .. hi : /\ CanUndo(journal[i], h[i])
                            /\ Undo(journal[i], h[i]) = h[i - 1]

\* t has the journal of s and more, and the rest of it unwinds to the ledger of s.
Journaled(s, t) ==
    /\ Len(s.journal) <= Len(t.journal)
    /\ \A i \in 1 .. Len(s.journal) : t.journal[i] = s.journal[i]
    /\ \E h \in [Nat -> Solid] :
          /\ h[Len(s.journal)] = s.led
          /\ h[Len(t.journal)] = t.led
          /\ Unwinds(h, t.journal, Len(s.journal), Len(t.journal))

Sound(s) == s \in Kernels /\ s.led \in Solid

\* What every routine does to a sound state.
Follows(s, t) ==
    /\ Sound(t)
    /\ Journaled(s, t)
    /\ \A a \in Addr : s.led.acct[a].exists => t.led.acct[a].exists

-----------------------------------------------------------------------------
(* A routine that does nothing, and one routine after another.             *)

\* A routine that does nothing follows.
LEMMA FollowsRefl ==
    ASSUME NEW s, Sound(s)
    PROVE  Follows(s, s)
<1> DEFINE h == [n \in Nat |-> s.led]
<1>1. s.journal \in Seq(Entry) /\ Len(s.journal) \in Nat
  BY DEF Sound, Kernels
<1>2. h \in [Nat -> Solid]
  BY DEF Sound
<1>3. Unwinds(h, s.journal, Len(s.journal), Len(s.journal))
  BY <1>1 DEF Unwinds
<1>4. Journaled(s, s)
  BY <1>1, <1>2, <1>3 DEF Journaled
<1> QED
  BY <1>4 DEF Follows

\* Routines compose: the journals of two steps explain the two together.
LEMMA FollowsTrans ==
    ASSUME NEW s, NEW t, NEW u, Sound(s), Follows(s, t), Follows(t, u)
    PROVE  Follows(s, u)
<1>1. /\ Len(s.journal) \in Nat /\ Len(t.journal) \in Nat /\ Len(u.journal) \in Nat
      /\ Len(s.journal) <= Len(t.journal) /\ Len(t.journal) <= Len(u.journal)
  BY DEF Sound, Kernels, Follows, Journaled
<1>2. PICK g \in [Nat -> Solid] :
          /\ g[Len(s.journal)] = s.led
          /\ g[Len(t.journal)] = t.led
          /\ Unwinds(g, t.journal, Len(s.journal), Len(t.journal))
  BY DEF Follows, Journaled
<1>3. PICK h \in [Nat -> Solid] :
          /\ h[Len(t.journal)] = t.led
          /\ h[Len(u.journal)] = u.led
          /\ Unwinds(h, u.journal, Len(t.journal), Len(u.journal))
  BY DEF Follows, Journaled
<1> DEFINE f == [n \in Nat |-> IF n <= Len(t.journal) THEN g[n] ELSE h[n]]
<1>4. f \in [Nat -> Solid]
  BY <1>2, <1>3
<1>5. f[Len(s.journal)] = s.led /\ f[Len(u.journal)] = u.led
  BY <1>1, <1>2, <1>3
<1>6. \A i \in 1 .. Len(t.journal) : u.journal[i] = t.journal[i]
  BY DEF Follows, Journaled
<1>7. Unwinds(f, u.journal, Len(s.journal), Len(u.journal))
  <2> SUFFICES ASSUME NEW i \in Len(s.journal) + 1 .. Len(u.journal)
               PROVE  /\ CanUndo(u.journal[i], f[i])
                      /\ Undo(u.journal[i], f[i]) = f[i - 1]
    BY DEF Unwinds
  <2>1. CASE i <= Len(t.journal)
    <3>1. u.journal[i] = t.journal[i] /\ f[i] = g[i] /\ f[i - 1] = g[i - 1]
      BY <1>1, <1>6, <2>1
    <3> QED
      BY <1>1, <1>2, <2>1, <3>1 DEF Unwinds
  <2>2. CASE i > Len(t.journal)
    <3>1. f[i] = h[i] /\ f[i - 1] = h[i - 1]
      BY <1>1, <1>2, <1>3, <2>2
    <3> QED
      BY <1>1, <1>3, <2>2, <3>1 DEF Unwinds
  <2> QED
    BY <1>1, <2>1, <2>2
<1>8. \A i \in 1 .. Len(s.journal) : u.journal[i] = s.journal[i]
  BY <1>1, <1>6 DEF Follows, Journaled
<1> HIDE DEF f
<1>9. Journaled(s, u)
  BY <1>1, <1>4, <1>5, <1>7, <1>8, SMTT(30) DEF Journaled
<1> QED
  BY <1>9 DEF Follows

\* One change, with the entry that undoes it.
LEMMA RecordFollows ==
    ASSUME NEW s, Sound(s), NEW L \in Solid, NEW e \in Entry,
           CanUndo(e, L), Undo(e, L) = s.led,
           \A a \in Addr : s.led.acct[a].exists => L.acct[a].exists
    PROVE  Follows(s, Record(s, L, e))
<1> DEFINE t == Record(s, L, e)
<1> DEFINE h == [n \in Nat |-> IF n <= Len(s.journal) THEN s.led ELSE L]
<1>1. s.journal \in Seq(Entry) /\ Len(s.journal) \in Nat
  BY DEF Sound, Kernels
<1>2. t.led = L /\ t.journal = Append(s.journal, e)
  BY DEF Record, Sound, Kernels
<1>3. Sound(t)
  <2>1. L \in Ledgers
    BY DEF Solid
  <2>2. Append(s.journal, e) \in Seq(Entry)
    BY <1>1
  <2> QED
    BY <2>1, <2>2 DEF Record, Sound, Kernels
<1>4. /\ Len(t.journal) = Len(s.journal) + 1
      /\ t.journal[Len(s.journal) + 1] = e
      /\ \A i \in 1 .. Len(s.journal) : t.journal[i] = s.journal[i]
  BY <1>1, <1>2
<1>5. h \in [Nat -> Solid]
  BY DEF Sound
<1>6. Unwinds(h, t.journal, Len(s.journal), Len(t.journal))
  BY <1>1, <1>4 DEF Unwinds
<1>7. Journaled(s, t)
  <2>1. h[Len(s.journal)] = s.led /\ h[Len(t.journal)] = t.led
    BY <1>1, <1>2, <1>4
  <2> QED
    BY <1>1, <1>4, <1>5, <1>6, <2>1, SMTT(30) DEF Journaled
<1> QED
  BY <1>2, <1>3, <1>7 DEF Follows

\* What is not in the ledger may change without an entry.
LEMMA FollowsSame ==
    ASSUME NEW s, NEW t, Sound(s), Sound(t), t.led = s.led, t.journal = s.journal
    PROVE  Follows(s, t)
<1>1. Follows(s, s)
  BY FollowsRefl
<1> QED
  BY <1>1 DEF Follows, Journaled

-----------------------------------------------------------------------------
(* What undoing each kind of entry comes down to, and equality of ledgers. *)

\* The dispatch of %revert, one kind of entry at a time.
LEMMA UndoIs ==
    ASSUME NEW L, NEW a, NEW b, NEW i, NEW n, NEW c
    PROVE  /\ Undo(AccountLoaded(a), L) = revert_account_loaded(L, a)
           /\ Undo(AccountDestroyed(a, b, n), L) = revert_account_destroyed(L, a, b, n)
           /\ Undo(AccountTouched(a), L) = revert_account_touched(L, a)
           /\ Undo(BalanceTransfer(a, b, n), L) = revert_balance_transfer(L, a, b, n)
           /\ Undo(NonceChange(a, n), L) = revert_nonce_change(L, a, n)
           /\ Undo(StorageChange(a, i, n), L) = revert_storage_change(L, a, i, n)
           /\ Undo(StorageLoaded(a, i), L) = revert_storage_loaded(L, a, i)
           /\ Undo(CodeChange(a, c), L) = revert_code_change(L, a, c)
           /\ Undo(Refund(n), L) = revert_refund(L, n)
           /\ Undo(AccountCreated(c, a), L) = revert_account_created(L, a)
           /\ Undo(Log(n), L) = revert_log(L, n)
           /\ Undo(TransientStorageChange(a, i, n), L)
                 = revert_transient_storage_change(L, a, i, n)
BY DEF Undo, AccountLoaded, AccountDestroyed, AccountTouched, BalanceTransfer,
       NonceChange, StorageChange, StorageLoaded, CodeChange, Refund,
       AccountCreated, Log, TransientStorageChange

\* The checks of the reverting routines, one kind of entry at a time.
LEMMA CanUndoIs ==
    ASSUME NEW L, NEW a, NEW b, NEW i, NEW n, NEW c
    PROVE  /\ CanUndo(AccountLoaded(a), L) <=> (a = RIP160 \/ a \in L.loaded)
           /\ CanUndo(AccountDestroyed(a, b, n), L) <=> (L.acct[a].exists /\ L.acct[b].exists)
           /\ CanUndo(AccountTouched(a), L) <=> (a = RIP160 \/ a \in L.touched)
           /\ CanUndo(BalanceTransfer(a, b, n), L)
                 <=> (L.acct[b].exists /\ L.acct[b].balance >= n)
           /\ CanUndo(NonceChange(a, n), L) <=> L.acct[a].exists
           /\ CanUndo(StorageChange(a, i, n), L)
           /\ CanUndo(StorageLoaded(a, i), L) <=> (L.orig[a][i] # Cold)
           /\ CanUndo(CodeChange(a, c), L) <=> L.acct[a].exists
           /\ CanUndo(Refund(n), L)
           /\ CanUndo(AccountCreated(c, a), L) <=> L.acct[a].exists
           /\ CanUndo(Log(n), L)
           /\ CanUndo(TransientStorageChange(a, i, n), L)
BY DEF CanUndo, AccountLoaded, AccountDestroyed, AccountTouched, BalanceTransfer,
       NonceChange, StorageChange, StorageLoaded, CodeChange, Refund,
       AccountCreated, Log, TransientStorageChange

\* Two ledgers with the same fields are the same.
LEMMA LedgerEq ==
    ASSUME NEW L \in Ledgers, NEW M \in Ledgers,
           L.acct = M.acct, L.slot = M.slot, L.loaded = M.loaded, L.orig = M.orig,
           L.touched = M.touched, L.refund = M.refund, L.logs = M.logs, L.tran = M.tran
    PROVE  L = M
BY DEF Ledgers

-----------------------------------------------------------------------------
(* Replacing one account, or one slot, of a ledger.                        *)

PutAcct(L, a, r) == [L EXCEPT !.acct = [L.acct EXCEPT ![a] = r]]

\* Replacing an account of a solid ledger by a typed one that exists.
LEMMA PutAcctSolid ==
    ASSUME NEW L \in Solid, NEW a \in Addr, NEW r \in Account, r.exists, r.balance >= 0
    PROVE  /\ PutAcct(L, a, r) \in Solid
           /\ PutAcct(L, a, r).acct[a] = r
           /\ \A b \in Addr : b # a => PutAcct(L, a, r).acct[b] = L.acct[b]
           /\ \A b \in Addr : L.acct[b].exists => PutAcct(L, a, r).acct[b].exists
<1>1. L \in Ledgers
  BY DEF Solid
<1>2. [L.acct EXCEPT ![a] = r] \in [Addr -> Account]
  BY <1>1 DEF Ledgers
<1>3. PutAcct(L, a, r) \in Ledgers
  BY <1>1, <1>2 DEF Ledgers, PutAcct
<1>4. /\ PutAcct(L, a, r).acct = [L.acct EXCEPT ![a] = r]
      /\ PutAcct(L, a, r).slot = L.slot
  BY <1>1 DEF Ledgers, PutAcct
<1>5. /\ PutAcct(L, a, r).acct[a] = r
      /\ \A b \in Addr : b # a => PutAcct(L, a, r).acct[b] = L.acct[b]
  BY <1>1, <1>4 DEF Ledgers
<1>6. \A b \in Addr :
         /\ PutAcct(L, a, r).acct[b].balance >= 0
         /\ ~PutAcct(L, a, r).acct[b].exists =>
               /\ PutAcct(L, a, r).acct[b] = NoAccount
               /\ PutAcct(L, a, r).slot[b] = [i \in Slot |-> 0]
  BY <1>4, <1>5 DEF Solid
<1>7. PutAcct(L, a, r) \in Solid
  BY <1>3, <1>6 DEF Solid
<1> QED
  BY <1>5, <1>7

\* Replacing an account and putting the old one back is no change.
LEMMA PutAcctBack ==
    ASSUME NEW L \in Ledgers, NEW a \in Addr, NEW r, NEW q
    PROVE  /\ PutAcct(PutAcct(L, a, r), a, q) = PutAcct(L, a, q)
           /\ PutAcct(L, a, L.acct[a]) = L
<1>1. [[L.acct EXCEPT ![a] = r] EXCEPT ![a] = q] = [L.acct EXCEPT ![a] = q]
  BY DEF Ledgers
<1>2. [L.acct EXCEPT ![a] = L.acct[a]] = L.acct
  BY DEF Ledgers
<1>3. PutAcct(L, a, r).acct = [L.acct EXCEPT ![a] = r]
  BY DEF Ledgers, PutAcct
<1> QED
  BY <1>1, <1>2, <1>3 DEF Ledgers, PutAcct

SlotMap(V) == [Addr -> [Slot -> V]]

PutSlot(f, a, i, v) == [f EXCEPT ![a] = [f[a] EXCEPT ![i] = v]]

\* Writing a slot and writing the old value back is no change.
LEMMA PutSlotBack ==
    ASSUME NEW V, NEW f \in SlotMap(V), NEW a \in Addr, NEW i \in Slot, NEW v \in V
    PROVE  /\ PutSlot(f, a, i, v) \in SlotMap(V)
           /\ PutSlot(f, a, i, v)[a][i] = v
           /\ \A b \in Addr : b # a => PutSlot(f, a, i, v)[b] = f[b]
           /\ PutSlot(PutSlot(f, a, i, v), a, i, f[a][i]) = f
<1>1. f \in [Addr -> [Slot -> V]] /\ f[a] \in [Slot -> V]
  BY DEF SlotMap
<1> DEFINE g == [f[a] EXCEPT ![i] = v]
<1>2. g \in [Slot -> V] /\ g[i] = v /\ [g EXCEPT ![i] = f[a][i]] = f[a]
  BY <1>1
<1>3. PutSlot(f, a, i, v) = [f EXCEPT ![a] = g]
  BY DEF PutSlot
<1> HIDE DEF g
<1>4. /\ [f EXCEPT ![a] = g] \in SlotMap(V)
      /\ [f EXCEPT ![a] = g][a] = g
      /\ \A b \in Addr : b # a => [f EXCEPT ![a] = g][b] = f[b]
      /\ [[f EXCEPT ![a] = g] EXCEPT ![a] = f[a]] = f
  BY <1>1, <1>2 DEF SlotMap
<1>5. PutSlot(PutSlot(f, a, i, v), a, i, f[a][i]) = f
  BY <1>2, <1>3, <1>4 DEF PutSlot
<1> QED
  BY <1>2, <1>3, <1>4, <1>5

\* A change that leaves accounts and storage alone.
LEMMA OtherSolid ==
    ASSUME NEW L \in Solid, NEW M \in Ledgers, M.acct = L.acct, M.slot = L.slot
    PROVE  M \in Solid /\ \A b \in Addr : L.acct[b].exists => M.acct[b].exists
BY DEF Solid

-----------------------------------------------------------------------------
(* The routines, one by one.                                               *)

\* insert_accessed_addresses journals what it does.
LEMMA LoadedFollows ==
    ASSUME NEW s, Sound(s), NEW a \in Addr
    PROVE  Follows(s, insert_accessed_addresses(s, a))
<1> DEFINE e == AccountLoaded(a)
<1>0. e \in Entry
  BY DEF AccountLoaded, Entry
<1>1. CASE a = RIP160
  <2> DEFINE u == [s EXCEPT !.ripemd.loaded = TRUE]
  <2>1. Sound(u) /\ u.led = s.led /\ u.journal = s.journal
    BY DEF Sound, Kernels
  <2>2. CanUndo(e, u.led) /\ Undo(e, u.led) = u.led
    BY <1>1, UndoIs, CanUndoIs, ZenonT(40) DEF revert_account_loaded
  <2>3. Follows(u, Record(u, u.led, e))
    BY <1>0, <2>1, <2>2, RecordFollows DEF Sound
  <2>4. Follows(s, Record(u, u.led, e))
    BY <2>1, <2>3, FollowsSame, FollowsTrans
  <2> QED
    BY <1>1, <2>1, <2>4, FollowsRefl DEF insert_accessed_addresses
<1>2. CASE a # RIP160 /\ a \notin s.led.loaded
  <2> DEFINE L == [s.led EXCEPT !.loaded = @ \cup {a}]
  <2>0. s.led \in Ledgers
    BY DEF Sound, Solid
  <2>1. L \in Ledgers /\ L.loaded = s.led.loaded \cup {a} /\ L.acct = s.led.acct
                       /\ L.slot = s.led.slot
    BY <2>0 DEF Ledgers
  <2>2. L \in Solid /\ \A b \in Addr : s.led.acct[b].exists => L.acct[b].exists
    BY <2>1, OtherSolid DEF Sound
  <2>3. CanUndo(e, L)
    BY <2>1, CanUndoIs
  <2>4. Undo(e, L) = [L EXCEPT !.loaded = @ \ {a}]
    BY <1>2, UndoIs DEF revert_account_loaded
  <2>5. (s.led.loaded \cup {a}) \ {a} = s.led.loaded
    BY <1>2
  <2>6. [L EXCEPT !.loaded = @ \ {a}] = s.led
    BY <2>0, <2>5 DEF Ledgers
  <2> HIDE DEF L
  <2>7. Follows(s, Record(s, L, e))
    BY <1>0, <2>2, <2>3, <2>4, <2>6, RecordFollows
  <2> QED
    BY <1>2, <2>7 DEF insert_accessed_addresses, L
<1> QED
  BY <1>1, <1>2, FollowsRefl DEF insert_accessed_addresses

\* insert_touched_addresses journals what it does.
LEMMA TouchedFollows ==
    ASSUME NEW s, Sound(s), NEW a \in Addr
    PROVE  Follows(s, insert_touched_addresses(s, a))
<1> DEFINE e == AccountTouched(a)
<1>0. e \in Entry
  BY DEF AccountTouched, Entry
<1>1. CASE a = RIP160
  <2> DEFINE u == [s EXCEPT !.ripemd.touched = TRUE]
  <2>1. Sound(u) /\ u.led = s.led /\ u.journal = s.journal
    BY DEF Sound, Kernels
  <2>2. CanUndo(e, u.led) /\ Undo(e, u.led) = u.led
    BY <1>1, UndoIs, CanUndoIs, ZenonT(40) DEF revert_account_touched
  <2>3. Follows(u, Record(u, u.led, e))
    BY <1>0, <2>1, <2>2, RecordFollows DEF Sound
  <2>4. Follows(s, Record(u, u.led, e))
    BY <2>1, <2>3, FollowsSame, FollowsTrans
  <2> QED
    BY <1>1, <2>1, <2>4, FollowsRefl DEF insert_touched_addresses
<1>2. CASE a # RIP160 /\ a \notin s.led.touched
  <2> DEFINE L == [s.led EXCEPT !.touched = @ \cup {a}]
  <2>0. s.led \in Ledgers
    BY DEF Sound, Solid
  <2>1. L \in Ledgers /\ L.touched = s.led.touched \cup {a} /\ L.acct = s.led.acct
                       /\ L.slot = s.led.slot
    BY <2>0 DEF Ledgers
  <2>2. L \in Solid /\ \A b \in Addr : s.led.acct[b].exists => L.acct[b].exists
    BY <2>1, OtherSolid DEF Sound
  <2>3. CanUndo(e, L)
    BY <2>1, CanUndoIs
  <2>4. Undo(e, L) = [L EXCEPT !.touched = @ \ {a}]
    BY <1>2, UndoIs DEF revert_account_touched
  <2>5. (s.led.touched \cup {a}) \ {a} = s.led.touched
    BY <1>2
  <2>6. [L EXCEPT !.touched = @ \ {a}] = s.led
    BY <2>0, <2>5 DEF Ledgers
  <2> HIDE DEF L
  <2>7. Follows(s, Record(s, L, e))
    BY <1>0, <2>2, <2>3, <2>4, <2>6, RecordFollows
  <2> QED
    BY <1>2, <2>7 DEF insert_touched_addresses, L
<1> QED
  BY <1>1, <1>2, FollowsRefl DEF insert_touched_addresses

\* insert_accessed_storage_keys journals what it does.
LEMMA KeyLoadedFollows ==
    ASSUME NEW s, Sound(s), NEW a \in Addr, NEW i \in Slot
    PROVE  Follows(s, insert_accessed_storage_keys(s, a, i))
<1> DEFINE e == StorageLoaded(a, i)
<1> DEFINE L == [s.led EXCEPT !.orig = PutSlot(s.led.orig, a, i, s.led.slot[a][i])]
<1>0. e \in Entry
  BY DEF StorageLoaded, Entry
<1>1. CASE s.led.orig[a][i] = Cold
  <2>0. s.led \in Ledgers /\ s.led.slot[a][i] \in Val
    BY DEF Sound, Solid, Ledgers
  <2>1. /\ PutSlot(s.led.orig, a, i, s.led.slot[a][i]) \in [Addr -> [Slot -> Val \cup {Cold}]]
        /\ PutSlot(s.led.orig, a, i, s.led.slot[a][i])[a][i] = s.led.slot[a][i]
        /\ PutSlot(PutSlot(s.led.orig, a, i, s.led.slot[a][i]), a, i, Cold) = s.led.orig
    <3> DEFINE f == s.led.orig
               v == s.led.slot[a][i]
               V == Val \cup {Cold}
    <3>1. f \in SlotMap(V) /\ v \in V /\ f[a][i] = Cold
      BY <1>1, <2>0 DEF Ledgers, SlotMap
    <3> HIDE DEF f, v, V
    <3>2. /\ PutSlot(f, a, i, v) \in SlotMap(V)
          /\ PutSlot(f, a, i, v)[a][i] = v
          /\ PutSlot(PutSlot(f, a, i, v), a, i, f[a][i]) = f
      BY <3>1, PutSlotBack
    <3> QED
      BY <3>1, <3>2 DEF f, v, V, SlotMap
  <2>2. L \in Ledgers /\ L.orig = PutSlot(s.led.orig, a, i, s.led.slot[a][i])
                       /\ L.acct = s.led.acct /\ L.slot = s.led.slot
    BY <2>0, <2>1 DEF Ledgers
  <2>3. L \in Solid /\ \A b \in Addr : s.led.acct[b].exists => L.acct[b].exists
    BY <2>2, OtherSolid DEF Sound
  <2>4. CanUndo(e, L)
    <3>1. L.orig[a][i] = s.led.slot[a][i]
      BY <2>1, <2>2
    <3>2. L.orig[a][i] # Cold
      BY <2>0, <3>1 DEF Cold, Val
    <3> QED
      BY <3>2, CanUndoIs
  <2>5. Undo(e, L) = [L EXCEPT !.orig = PutSlot(L.orig, a, i, Cold)]
    <3> HIDE DEF L
    <3>1. Undo(e, L) = revert_storage_loaded(L, a, i)
      BY UndoIs
    <3> QED
      BY <3>1 DEF revert_storage_loaded, PutSlot
  <2>6. [L EXCEPT !.orig = PutSlot(L.orig, a, i, Cold)] = s.led
    BY <2>0, <2>1, <2>2 DEF Ledgers
  <2>7. insert_accessed_storage_keys(s, a, i) = Record(s, L, e)
    BY <1>1 DEF insert_accessed_storage_keys, PutSlot
  <2> HIDE DEF L
  <2> QED
    BY <1>0, <2>3, <2>4, <2>5, <2>6, <2>7, RecordFollows
<1> QED
  BY <1>1, FollowsRefl DEF insert_accessed_storage_keys

\* Changes of one account that exists.
LEMMA AcctFollows ==
    ASSUME NEW s, Sound(s), NEW a \in Addr, NEW r \in Account, NEW e \in Entry,
           r.exists, r.balance >= 0,
           CanUndo(e, PutAcct(s.led, a, r)),
           Undo(e, PutAcct(s.led, a, r)) = PutAcct(PutAcct(s.led, a, r), a, s.led.acct[a])
    PROVE  Follows(s, Record(s, PutAcct(s.led, a, r), e))
<1>1. s.led \in Solid /\ s.led \in Ledgers
  BY DEF Sound, Solid
<1>2. PutAcct(PutAcct(s.led, a, r), a, s.led.acct[a]) = s.led
  BY <1>1, PutAcctBack
<1> QED
  BY <1>1, <1>2, PutAcctSolid, RecordFollows

\* A nonce change journals what it does.
LEMMA NonceFollows ==
    ASSUME NEW s, Sound(s), NEW a \in Addr, s.led.acct[a].exists, NEW n \in Nat
    PROVE  Follows(s, Record(s, [s.led EXCEPT !.acct[a].nonce = n],
                             NonceChange(a, s.led.acct[a].nonce)))
<1> DEFINE e == NonceChange(a, s.led.acct[a].nonce)
<1> DEFINE r == [s.led.acct[a] EXCEPT !.nonce = n]
<1>1. s.led \in Ledgers /\ s.led.acct[a] \in Account /\ s.led.acct[a].balance >= 0
  BY DEF Sound, Solid, Ledgers
<1>2. r \in Account /\ r.exists /\ r.balance >= 0 /\ e \in Entry
      /\ [r EXCEPT !.nonce = s.led.acct[a].nonce] = s.led.acct[a]
  BY <1>1 DEF Account, NonceChange, Entry
<1>3. PutAcct(s.led, a, r).acct[a] = r
  BY <1>1, <1>2 DEF PutAcct, Ledgers
<1>4. CanUndo(e, PutAcct(s.led, a, r))
  BY <1>2, <1>3, CanUndoIs
<1>5. Undo(e, PutAcct(s.led, a, r)) = PutAcct(PutAcct(s.led, a, r), a, s.led.acct[a])
  <2> DEFINE L == PutAcct(s.led, a, r)
  <2>1. L.acct[a] = r
    BY <1>3
  <2> HIDE DEF L
  <2>2. Undo(e, L) = revert_nonce_change(L, a, s.led.acct[a].nonce)
    BY UndoIs
  <2>3. revert_nonce_change(L, a, s.led.acct[a].nonce)
            = PutAcct(L, a, [L.acct[a] EXCEPT !.nonce = s.led.acct[a].nonce])
    BY DEF revert_nonce_change, PutAcct
  <2> QED
    BY <1>2, <2>1, <2>2, <2>3 DEF L
<1>6. [s.led EXCEPT !.acct[a].nonce = n] = PutAcct(s.led, a, r)
  BY DEF PutAcct
<1> HIDE DEF r, e
<1>7. Follows(s, Record(s, PutAcct(s.led, a, r), e))
  BY <1>2, <1>4, <1>5, AcctFollows
<1> QED
  BY <1>6, <1>7 DEF e

\* increment_nonce journals what it does.
LEMMA IncrementNonceFollows ==
    ASSUME NEW s, Sound(s), NEW a \in Addr, s.led.acct[a].exists
    PROVE  Follows(s, increment_nonce(s, a))
<1>1. s.led.acct[a].nonce + 1 \in Nat
  BY DEF Sound, Solid, Ledgers, Account
<1> QED
  BY <1>1, NonceFollows DEF increment_nonce

\* delete_account undoes the entry of an account in the trie.
LEMMA DeleteIsUndo ==
    ASSUME NEW L \in Solid, NEW a \in Addr, ~L.acct[a].exists, NEW r
    PROVE  delete_account(PutAcct(L, a, r), a) = L
<1> DEFINE z == [i \in Slot |-> 0]
<1>1. L \in Ledgers /\ L.acct[a] = NoAccount /\ L.slot[a] = z
  BY DEF Solid
<1>2. L.acct \in [Addr -> Account] /\ L.slot \in [Addr -> [Slot -> Val]]
  BY <1>1 DEF Ledgers
<1> HIDE DEF z
<1>3. [[L.acct EXCEPT ![a] = r] EXCEPT ![a] = NoAccount] = L.acct
  BY <1>1, <1>2
<1>4. [L.slot EXCEPT ![a] = z] = L.slot
  BY <1>1, <1>2
<1> DEFINE M == PutAcct(L, a, r)
<1>5. M.acct = [L.acct EXCEPT ![a] = r] /\ M.slot = L.slot
  BY <1>1 DEF Ledgers, PutAcct
<1>6. delete_account(M, a) = [M EXCEPT !.acct = [M.acct EXCEPT ![a] = NoAccount],
                                       !.slot = [M.slot EXCEPT ![a] = z]]
  BY DEF delete_account, z
<1>7. delete_account(M, a) = [M EXCEPT !.acct = L.acct, !.slot = L.slot]
  BY <1>3, <1>4, <1>5, <1>6
<1>8. [M EXCEPT !.acct = L.acct, !.slot = L.slot] = L
  BY <1>1 DEF Ledgers, PutAcct
<1> QED
  BY <1>7, <1>8

\* Entering a new account in the trie journals what it does.
LEMMA AddAccountFollows ==
    ASSUME NEW s, Sound(s), NEW a \in Addr, NEW c \in BOOLEAN
    PROVE  LET t == AddAccount(s, a, c) IN
           /\ Follows(s, t)
           /\ t.led.acct[a].exists
           /\ \A b \in Addr : s.led.acct[b].exists => t.led.acct[b] = s.led.acct[b]
           /\ ~s.led.acct[a].exists => t.led.acct[a] = NewAccount(0)
           /\ t.led.touched = s.led.touched /\ t.ripemd = s.ripemd
<1>1. CASE s.led.acct[a].exists
  BY <1>1, FollowsRefl DEF AddAccount
<1>2. CASE ~s.led.acct[a].exists
  <2> DEFINE r == NewAccount(0)
             L == PutAcct(s.led, a, r)
             e == AccountCreated(c, a)
             t == Record(s, L, e)
  <2>1. s.led \in Solid /\ s.led \in Ledgers
    BY DEF Sound, Solid
  <2>2. r \in Account /\ r.exists /\ r.balance >= 0
    BY DEF NewAccount, Account, Codes
  <2>3. e \in Entry
    BY DEF AccountCreated, Entry
  <2>4. AddAccount(s, a, c) = t
    BY <1>2 DEF AddAccount, PutAcct
  <2>5. /\ L \in Solid /\ L.acct[a] = r
        /\ \A b \in Addr : b # a => L.acct[b] = s.led.acct[b]
        /\ \A b \in Addr : s.led.acct[b].exists => L.acct[b].exists
    BY <2>1, <2>2, PutAcctSolid
  <2>6. L.touched = s.led.touched
    BY <2>1 DEF PutAcct, Ledgers
  <2>7. delete_account(L, a) = s.led
    BY <1>2, <2>1, DeleteIsUndo
  <2>8. t.led = L /\ t.ripemd = s.ripemd
    BY DEF Record, Sound, Kernels
  <2> HIDE DEF L, r, e
  <2>9. CanUndo(e, L)
    BY <2>2, <2>5, CanUndoIs DEF e
  <2>10. Undo(e, L) = s.led
    BY <2>7, UndoIs DEF e, revert_account_created
  <2>11. Follows(s, Record(s, L, e))
    BY <2>3, <2>5, <2>9, <2>10, RecordFollows
  <2> QED
    BY <1>2, <2>2, <2>4, <2>5, <2>6, <2>8, <2>11 DEF r
<1> QED
  BY <1>1, <1>2

-----------------------------------------------------------------------------
(* Ether.                                                                  *)

IsTouched(s, a) == IF a = RIP160 THEN s.ripemd.touched ELSE a \in s.led.touched

\* What the lists of addresses leave alone.
LEMMA TouchedIs ==
    ASSUME NEW s, Sound(s), NEW a \in Addr
    PROVE  LET t == insert_touched_addresses(s, a) IN
           /\ t.led.acct = s.led.acct /\ t.led.slot = s.led.slot /\ t.led.orig = s.led.orig
           /\ IsTouched(t, a)
           /\ \A b \in Addr : IsTouched(s, b) => IsTouched(t, b)
           /\ IsTouched(s, a) => t = s
<1>1. s \in Kernels /\ s.led \in Ledgers
  BY DEF Sound, Solid
<1>2. CASE a = RIP160 /\ s.ripemd.touched
  BY <1>2 DEF insert_touched_addresses, IsTouched
<1>3. CASE a = RIP160 /\ ~s.ripemd.touched
  <2> DEFINE t == Record([s EXCEPT !.ripemd.touched = TRUE], s.led, AccountTouched(a))
  <2>1. insert_touched_addresses(s, a) = t
    BY <1>3 DEF insert_touched_addresses
  <2>2. t.led = s.led /\ t.ripemd.touched
    BY <1>1 DEF Record, Kernels
  <2> HIDE DEF t
  <2> QED
    BY <1>3, <2>1, <2>2 DEF IsTouched
<1>4. CASE a # RIP160 /\ a \in s.led.touched
  BY <1>4 DEF insert_touched_addresses, IsTouched
<1>5. CASE a # RIP160 /\ a \notin s.led.touched
  <2> DEFINE L == [s.led EXCEPT !.touched = @ \cup {a}]
             t == Record(s, L, AccountTouched(a))
  <2>1. insert_touched_addresses(s, a) = t
    BY <1>5 DEF insert_touched_addresses
  <2>2. /\ L.acct = s.led.acct /\ L.slot = s.led.slot /\ L.orig = s.led.orig
        /\ L.touched = s.led.touched \cup {a}
    BY <1>1 DEF Ledgers
  <2>3. t.led = L /\ t.ripemd = s.ripemd
    BY <1>1 DEF Record, Kernels
  <2> HIDE DEF t, L
  <2> QED
    BY <1>5, <2>1, <2>2, <2>3 DEF IsTouched
<1> QED
  BY <1>2, <1>3, <1>4, <1>5

\* What insert_accessed_addresses leaves alone.
LEMMA LoadedIs ==
    ASSUME NEW s, Sound(s), NEW a \in Addr
    PROVE  /\ insert_accessed_addresses(s, a).led.acct = s.led.acct
           /\ insert_accessed_addresses(s, a).created = s.created
<1>1. s \in Kernels /\ s.led \in Ledgers
  BY DEF Sound, Solid
<1> QED
  BY <1>1 DEF insert_accessed_addresses, Record, Kernels, Ledgers

\* add_eth up to the addition journals what it does.
LEMMA PrepareCreditFollows ==
    ASSUME NEW s, Sound(s), NEW a \in Addr, NEW v
    PROVE  LET t == PrepareCredit(s, a, v) IN
           /\ Follows(s, t)
           /\ v # 0 => t.led.acct[a].exists
           /\ \A b \in Addr : s.led.acct[b].exists => t.led.acct[b] = s.led.acct[b]
           /\ v # 0 /\ ~s.led.acct[a].exists => t.led.acct[a] = NewAccount(0)
           /\ v = 0 => t.led.acct = s.led.acct
           /\ \A b \in Addr : IsTouched(s, b) \/ b = a => IsTouched(t, b)
<1> DEFINE u == insert_touched_addresses(s, a)
           t == AddAccount(u, a, FALSE)
<1>1. /\ Follows(s, u) /\ u.led.acct = s.led.acct
      /\ \A b \in Addr : IsTouched(s, b) \/ b = a => IsTouched(u, b)
  BY TouchedFollows, TouchedIs
<1>2. Sound(u)
  BY <1>1 DEF Follows
<1> HIDE DEF u
<1>3. CASE v = 0
  BY <1>1, <1>3 DEF PrepareCredit, u
<1>4. CASE v # 0
  <2>1. /\ Follows(u, t) /\ t.led.acct[a].exists
        /\ \A b \in Addr : u.led.acct[b].exists => t.led.acct[b] = u.led.acct[b]
        /\ ~u.led.acct[a].exists => t.led.acct[a] = NewAccount(0)
        /\ t.led.touched = u.led.touched /\ t.ripemd = u.ripemd
    <3> DEFINE c == FALSE
    <3>1. c \in BOOLEAN /\ t = AddAccount(u, a, c)
      OBVIOUS
    <3> HIDE DEF c, t
    <3> QED
      BY <1>2, <3>1, AddAccountFollows
  <2>2. PrepareCredit(s, a, v) = t
    BY <1>4 DEF PrepareCredit, u
  <2>3. Follows(s, t)
    BY <1>1, <2>1, FollowsTrans
  <2>4. \A b \in Addr : IsTouched(s, b) \/ b = a => IsTouched(t, b)
    BY <1>1, <2>1 DEF IsTouched
  <2> HIDE DEF t
  <2> QED
    BY <1>1, <1>4, <2>1, <2>2, <2>3, <2>4
<1> QED
  BY <1>3, <1>4

\* The accounts after v has moved from one to another, or the same.
Shifted(f, from, to, v) ==
    [a \in Addr |-> [f[a] EXCEPT !.balance =
        @ - (IF a = from THEN v ELSE 0) + (IF a = to THEN v ELSE 0)]]

\* The accounts after a transfer.
LEMMA MoveIs ==
    ASSUME NEW L \in Ledgers, NEW from \in Addr, NEW to \in Addr, NEW v \in Int,
           L.acct[to].exists
    PROVE  MoveEth(L, from, to, v) = [L EXCEPT !.acct = Shifted(L.acct, from, to, v)]
<1> DEFINE r == [L.acct[from] EXCEPT !.balance = @ - v]
           f == [L.acct EXCEPT ![from] = r]
           q == [f[to] EXCEPT !.balance = @ + v]
           M == [L EXCEPT !.acct = f]
<1>1. L.acct \in [Addr -> Account]
  BY DEF Ledgers
<1>2. /\ r \in Account /\ r.exists = L.acct[from].exists
      /\ r.nonce = L.acct[from].nonce /\ r.code = L.acct[from].code
      /\ r.balance = L.acct[from].balance - v
  BY <1>1 DEF Account
<1>3. f \in [Addr -> Account] /\ f[from] = r /\ \A a \in Addr : a # from => f[a] = L.acct[a]
  <2> HIDE DEF r
  <2> QED
    BY <1>1, <1>2
<1>4. M \in Ledgers /\ M.acct = f
  BY <1>3 DEF Ledgers
<1>5. [L EXCEPT !.acct[from].balance = @ - v] = M
  OBVIOUS
<1>6. f[to].exists
  BY <1>2, <1>3
<1> HIDE DEF r, f, q, M
<1>7. Credit(M, to, v) = [M EXCEPT !.acct = [f EXCEPT ![to] = q]]
  <2>1. Credit(M, to, v) = [M EXCEPT !.acct = [M.acct EXCEPT ![to] =
            IF M.acct[to].exists THEN [M.acct[to] EXCEPT !.balance = @ + v]
                                 ELSE NewAccount(v)]]
    BY DEF Credit
  <2>2. M.acct = f /\ M.acct[to].exists /\ q = [M.acct[to] EXCEPT !.balance = @ + v]
    BY <1>4, <1>6 DEF q
  <2> QED
    BY <2>1, <2>2
<1>8. /\ q \in Account /\ q.exists = f[to].exists
      /\ q.nonce = f[to].nonce /\ q.code = f[to].code
      /\ q.balance = f[to].balance + v
  BY <1>3 DEF q, Account
<1>9. \A a \in Addr : [f EXCEPT ![to] = q][a] = Shifted(L.acct, from, to, v)[a]
  <2> TAKE a \in Addr
  <2>1. [f EXCEPT ![to] = q][a] = IF a = to THEN q ELSE f[a]
    BY <1>3
  <2>2. L.acct[a] \in Account /\ L.acct[a].balance \in Int
    BY <1>1 DEF Account
  <2> DEFINE x == Shifted(L.acct, from, to, v)[a]
  <2>3. /\ x \in Account /\ x.exists = L.acct[a].exists
        /\ x.nonce = L.acct[a].nonce /\ x.code = L.acct[a].code
        /\ x.balance = L.acct[a].balance - (IF a = from THEN v ELSE 0)
                                         + (IF a = to THEN v ELSE 0)
    BY <2>2 DEF Shifted, Account
  <2> HIDE DEF x
  <2>4. CASE a = to
    <3>1. /\ q.balance = x.balance /\ q.exists = x.exists
          /\ q.nonce = x.nonce /\ q.code = x.code
      BY <1>2, <1>3, <1>8, <2>2, <2>3, <2>4
    <3>2. q = x
      BY <1>8, <2>3, <3>1 DEF Account
    <3> QED
      BY <2>1, <2>4, <3>2 DEF x
  <2>5. CASE a # to /\ a = from
    <3>1. r = x
      BY <1>2, <2>2, <2>3, <2>5 DEF Account
    <3> QED
      BY <1>3, <2>1, <2>5, <3>1 DEF x
  <2>6. CASE a # to /\ a # from
    <3>1. L.acct[a] = x
      BY <2>2, <2>3, <2>6 DEF Account
    <3> QED
      BY <1>3, <2>1, <2>6, <3>1 DEF x
  <2> QED
    BY <2>4, <2>5, <2>6
<1>10. [f EXCEPT ![to] = q] = Shifted(L.acct, from, to, v)
  BY <1>3, <1>8, <1>9 DEF Shifted
<1>11. [M EXCEPT !.acct = Shifted(L.acct, from, to, v)]
           = [L EXCEPT !.acct = Shifted(L.acct, from, to, v)]
  BY DEF M, Ledgers
<1> QED
  BY <1>5, <1>7, <1>10, <1>11 DEF MoveEth

\* Moving v, and moving it back.
LEMMA MoveSolid ==
    ASSUME NEW L \in Solid, NEW from \in Addr, NEW to \in Addr, NEW v \in Nat,
           L.acct[from].exists, L.acct[to].exists, L.acct[from].balance >= v
    PROVE  LET M == MoveEth(L, from, to, v) IN
           /\ M \in Solid
           /\ M.acct[to].balance >= v
           /\ \A a \in Addr : M.acct[a].exists = L.acct[a].exists
           /\ M.touched = L.touched
           /\ MoveEth(M, to, from, v) = L
<1> DEFINE f == Shifted(L.acct, from, to, v)
           M == [L EXCEPT !.acct = f]
<1>1. L \in Ledgers /\ L.acct \in [Addr -> Account]
      /\ \A a \in Addr : L.acct[a] \in Account /\ L.acct[a].balance >= 0
  BY DEF Solid, Ledgers
<1>2. \A a \in Addr :
         /\ f[a] \in Account /\ f[a].exists = L.acct[a].exists
         /\ f[a].nonce = L.acct[a].nonce /\ f[a].code = L.acct[a].code
         /\ f[a].balance = L.acct[a].balance - (IF a = from THEN v ELSE 0)
                                             + (IF a = to THEN v ELSE 0)
  BY <1>1 DEF Shifted, Account
<1>3. f \in [Addr -> Account] /\ DOMAIN f = Addr
  BY <1>2 DEF Shifted
<1>4. M \in Ledgers /\ M.acct = f /\ M.slot = L.slot /\ M.touched = L.touched
  BY <1>1, <1>3 DEF Ledgers
<1>5. MoveEth(L, from, to, v) = M
  BY <1>1, MoveIs
<1> HIDE DEF f
<1>6. \A a \in Addr : f[a].balance >= 0
  BY <1>1, <1>2 DEF Account
<1>7. f[to].balance >= v
  BY <1>1, <1>2 DEF Account
<1>8. \A a \in Addr : ~L.acct[a].exists => f[a] = L.acct[a]
  <2> TAKE a \in Addr
  <2> HAVE ~L.acct[a].exists
  <2>1. a # from /\ a # to
    OBVIOUS
  <2>2. f[a].balance = L.acct[a].balance
    BY <1>1, <1>2, <2>1 DEF Account
  <2> QED
    BY <1>1, <1>2, <2>2 DEF Account
<1>9. M \in Solid
  <2>1. \A a \in Addr : ~L.acct[a].exists => L.acct[a] = NoAccount /\ L.slot[a] = [i \in Slot |-> 0]
    BY DEF Solid
  <2> HIDE DEF M
  <2>2. \A a \in Addr : M.acct[a].balance >= 0 /\ (~M.acct[a].exists => Vacant(M, a))
    <3> TAKE a \in Addr
    <3>1. M.acct[a] = f[a] /\ M.slot[a] = L.slot[a]
      BY <1>4
    <3>2. ~f[a].exists => ~L.acct[a].exists
      BY <1>2
    <3> QED
      BY <1>6, <1>8, <2>1, <3>1, <3>2 DEF Vacant
  <2>3. M \in Ledgers
    BY <1>4
  <2> QED
    BY <2>2, <2>3, SolidIntro
<1> DEFINE g == Shifted(f, to, from, v)
<1>10. M.acct[from].exists
  BY <1>2, <1>4
<1>11. MoveEth(M, to, from, v) = [M EXCEPT !.acct = g]
  <2> HIDE DEF M
  <2>1. v \in Int
    OBVIOUS
  <2>2. MoveEth(M, to, from, v) = [M EXCEPT !.acct = Shifted(M.acct, to, from, v)]
    BY <1>4, <1>10, <2>1, MoveIs
  <2> QED
    BY <1>4, <2>2
<1>12. \A a \in Addr : g[a] = L.acct[a]
  <2> TAKE a \in Addr
  <2>1. /\ g[a] \in Account /\ g[a].exists = f[a].exists
        /\ g[a].nonce = f[a].nonce /\ g[a].code = f[a].code
        /\ g[a].balance = f[a].balance - (IF a = to THEN v ELSE 0)
                                       + (IF a = from THEN v ELSE 0)
    BY <1>2 DEF Shifted, Account
  <2> HIDE DEF g
  <2>2. g[a].balance = L.acct[a].balance
    BY <1>1, <1>2, <2>1 DEF Account
  <2> QED
    BY <1>1, <1>2, <2>1, <2>2 DEF Account
<1>13. g = L.acct
  BY <1>1, <1>12 DEF Shifted
<1> HIDE DEF g
<1>14. [M EXCEPT !.acct = L.acct] = L
  BY <1>1 DEF Ledgers
<1> HIDE DEF M
<1> QED
  BY <1>2, <1>4, <1>5, <1>7, <1>9, <1>11, <1>13, <1>14

\* Moving ether between two touched accounts journals what it does, the touches that the
\* transfer back repeats included.
LEMMA MoveFollows ==
    ASSUME NEW t, Sound(t), NEW from \in Addr, NEW to \in Addr, NEW v \in Nat,
           t.led.acct[from].exists, t.led.acct[to].exists, t.led.acct[from].balance >= v,
           IsTouched(t, from), IsTouched(t, to)
    PROVE  Follows(t, Record(t, MoveEth(t.led, from, to, v), BalanceTransfer(from, to, v)))
<1> DEFINE M == MoveEth(t.led, from, to, v)
           e == BalanceTransfer(from, to, v)
<1>1. t.led \in Solid
  BY DEF Sound
<1>2. /\ M \in Solid /\ M.acct[to].balance >= v /\ M.touched = t.led.touched
      /\ \A a \in Addr : M.acct[a].exists = t.led.acct[a].exists
      /\ MoveEth(M, to, from, v) = t.led
  BY <1>1, MoveSolid
<1> HIDE DEF M
<1>3. e \in Entry
  BY DEF BalanceTransfer, Entry
<1>4. CanUndo(e, M)
  BY <1>2, CanUndoIs
<1>5. Undo(e, M) = t.led
  <2>0. Undo(e, M) = revert_balance_transfer(M, from, to, v)
    BY UndoIs
  <2>1. Undo(e, M) = [t.led EXCEPT !.touched = @ \cup ({to, from} \ {RIP160})]
    BY <1>2, <2>0 DEF revert_balance_transfer
  <2>2. t.led.touched \cup ({to, from} \ {RIP160}) = t.led.touched
    BY DEF IsTouched
  <2>3. t.led \in Ledgers
    BY <1>1 DEF Solid
  <2> QED
    BY <2>1, <2>2, <2>3, ZenonT(40) DEF Ledgers
<1>6. \A a \in Addr : t.led.acct[a].exists => M.acct[a].exists
  BY <1>2
<1> HIDE DEF e
<1>7. Follows(t, Record(t, M, e))
  BY <1>2, <1>3, <1>4, <1>5, <1>6, RecordFollows
<1> QED
  BY <1>7 DEF M, e

\* A transfer and its entry.
LEMMA TransferFollows ==
    ASSUME NEW s, Sound(s), NEW from \in Addr, NEW to \in Addr, NEW v \in Nat,
           s.led.acct[from].exists, s.led.acct[from].balance >= v
    PROVE  Follows(s, TransferAndJournal(s, from, to, v))
<1> DEFINE w == insert_touched_addresses(s, from)
           t == PrepareCredit(w, to, v)
           u == Record(t, MoveEth(t.led, from, to, v), BalanceTransfer(from, to, v))
<1>1. Follows(s, w) /\ w.led.acct = s.led.acct /\ IsTouched(w, from)
  BY TouchedFollows, TouchedIs
<1>2. Sound(w)
  BY <1>1 DEF Follows
<1> HIDE DEF w
<1>3. /\ Follows(w, t)
      /\ v # 0 => t.led.acct[to].exists
      /\ \A b \in Addr : w.led.acct[b].exists => t.led.acct[b] = w.led.acct[b]
      /\ IsTouched(t, from) /\ IsTouched(t, to)
  BY <1>1, <1>2, PrepareCreditFollows
<1>4. Follows(s, t) /\ Sound(t)
  BY <1>1, <1>3, FollowsTrans DEF Follows
<1> HIDE DEF t
<1>5. CASE v = 0
  BY <1>4, <1>5 DEF TransferAndJournal, t, w
<1>6. CASE v # 0
  <2>1. t.led.acct[from].exists /\ t.led.acct[to].exists /\ t.led.acct[from].balance >= v
    BY <1>1, <1>3, <1>6
  <2>2. Follows(t, u)
    BY <1>3, <1>4, <2>1, MoveFollows
  <2>3. TransferAndJournal(s, from, to, v) = u
    BY <1>6 DEF TransferAndJournal, t, w, u
  <2> HIDE DEF u
  <2> QED
    BY <1>4, <2>2, <2>3, FollowsTrans
<1> QED
  BY <1>5, <1>6

-----------------------------------------------------------------------------
(* Balances as a function of their own.                                    *)

Balances == [Addr -> Int]

Bal(L) == [x \in Addr |-> L.acct[x].balance]

SetBal(L, g) == [L EXCEPT !.acct = [x \in Addr |-> [L.acct[x] EXCEPT !.balance = g[x]]]]

\* What setting a balance changes.
LEMMA SetBalIs ==
    ASSUME NEW L \in Ledgers, NEW g \in Balances
    PROVE  /\ SetBal(L, g) \in Ledgers
           /\ Bal(SetBal(L, g)) = g
           /\ SetBal(L, Bal(L)) = L
           /\ \A x \in Addr : SetBal(L, g).acct[x].exists = L.acct[x].exists
           /\ SetBal(L, g).slot = L.slot
           /\ \A h \in Balances : SetBal(SetBal(L, g), h) = SetBal(L, h)
<1> DEFINE f(h) == [x \in Addr |-> [L.acct[x] EXCEPT !.balance = h[x]]]
<1>1. \A x \in Addr : L.acct[x] \in Account
  BY DEF Ledgers
<1>2. ASSUME NEW h \in Balances, NEW x \in Addr
      PROVE  /\ f(h)[x] = [L.acct[x] EXCEPT !.balance = h[x]]
             /\ f(h)[x] \in Account /\ f(h)[x].balance = h[x]
             /\ f(h)[x].exists = L.acct[x].exists /\ f(h)[x].nonce = L.acct[x].nonce
             /\ f(h)[x].code = L.acct[x].code
  BY <1>1 DEF Account, Balances
<1>3. ASSUME NEW h \in Balances
      PROVE  /\ SetBal(L, h) = [L EXCEPT !.acct = f(h)]
             /\ SetBal(L, h) \in Ledgers
             /\ SetBal(L, h).acct = f(h) /\ SetBal(L, h).slot = L.slot
  <2>1. f(h) \in [Addr -> Account]
    BY <1>2
  <2> QED
    BY <2>1 DEF SetBal, Ledgers
<1>4. Bal(SetBal(L, g)) = g
  <2>1. \A x \in Addr : SetBal(L, g).acct[x].balance = g[x]
    <3> HIDE DEF f
    <3> TAKE x \in Addr
    <3>1. SetBal(L, g).acct = f(g)
      BY <1>3
    <3>2. f(g)[x].balance = g[x]
      BY <1>2
    <3> QED
      BY <3>1, <3>2
  <2> QED
    BY <2>1 DEF Bal, Balances
<1>5. SetBal(L, Bal(L)) = L
  <2>1. Bal(L) \in Balances
    BY <1>1 DEF Bal, Account, Balances
  <2>2. f(Bal(L)) = L.acct
    <3>1. \A x \in Addr : f(Bal(L))[x] = L.acct[x]
      BY <1>1 DEF Bal, Account
    <3> QED
      BY <3>1 DEF Ledgers
  <2> QED
    BY <1>3, <2>1, <2>2 DEF Ledgers
<1>6. ASSUME NEW h \in Balances
      PROVE  SetBal(SetBal(L, g), h) = SetBal(L, h)
  <2>1. \A x \in Addr : [f(g)[x] EXCEPT !.balance = h[x]] = [L.acct[x] EXCEPT !.balance = h[x]]
    BY <1>1 DEF Account
  <2>2. [x \in Addr |-> [f(g)[x] EXCEPT !.balance = h[x]]] = f(h)
    BY <2>1
  <2>3. SetBal(SetBal(L, g), h) = [SetBal(L, g) EXCEPT !.acct = f(h)]
    BY <1>3, <2>2 DEF SetBal
  <2>4. [[L EXCEPT !.acct = f(g)] EXCEPT !.acct = f(h)] = [L EXCEPT !.acct = f(h)]
    BY DEF Ledgers
  <2> QED
    BY <1>3, <2>3, <2>4
<1> HIDE DEF f
<1>7. ASSUME NEW x \in Addr
      PROVE  SetBal(L, g).acct[x].exists = L.acct[x].exists
  <2>1. SetBal(L, g).acct = f(g)
    BY <1>3
  <2>2. f(g)[x].exists = L.acct[x].exists
    BY <1>2
  <2> QED
    BY <2>1, <2>2
<1>8. SetBal(L, g) \in Ledgers /\ SetBal(L, g).slot = L.slot
  BY <1>3
<1> QED
  BY <1>4, <1>5, <1>6, <1>7, <1>8

-----------------------------------------------------------------------------
(* Storage, refunds, logs, transient storage and code.                     *)

\* refund_gas journals what it does.
LEMMA RefundFollows ==
    ASSUME NEW s, Sound(s), NEW n \in Int
    PROVE  Follows(s, refund_gas(s, n)) /\ refund_gas(s, n).led.acct = s.led.acct
                                        /\ refund_gas(s, n).led.slot = s.led.slot
<1> DEFINE L == [s.led EXCEPT !.refund = @ + n]
           e == Refund(n)
<1>1. s.led \in Ledgers /\ s.led.refund \in Int
  BY DEF Sound, Solid, Ledgers
<1>2. /\ L \in Ledgers /\ L.refund = s.led.refund + n
      /\ L.acct = s.led.acct /\ L.slot = s.led.slot
  BY <1>1 DEF Ledgers
<1>3. L \in Solid /\ \A b \in Addr : s.led.acct[b].exists => L.acct[b].exists
  BY <1>2, OtherSolid DEF Sound
<1>5. [L EXCEPT !.refund = s.led.refund] = s.led
  BY <1>1 DEF Ledgers
<1>6. e \in Entry /\ refund_gas(s, n) = Record(s, L, e)
  BY DEF Refund, Entry, refund_gas
<1>7. Record(s, L, e).led = L
  BY DEF Record, Sound, Kernels
<1> HIDE DEF L
<1>8. CanUndo(e, L)
  BY CanUndoIs
<1>9. Undo(e, L) = s.led
  <2>1. Undo(e, L) = revert_refund(L, n)
    BY UndoIs
  <2>2. L.refund - n = s.led.refund
    BY <1>1, <1>2
  <2>3. revert_refund(L, n) = [L EXCEPT !.refund = L.refund - n]
    BY DEF revert_refund
  <2> QED
    BY <1>5, <2>1, <2>2, <2>3
<1> HIDE DEF e
<1> QED
  BY <1>2, <1>3, <1>6, <1>7, <1>8, <1>9, RecordFollows

\* So does a refund that may be none.
LEMMA MaybeRefundFollows ==
    ASSUME NEW s, Sound(s), NEW n \in Int
    PROVE  Follows(s, MaybeRefund(s, n)) /\ MaybeRefund(s, n).led.acct = s.led.acct
                                         /\ MaybeRefund(s, n).led.slot = s.led.slot
BY RefundFollows, FollowsRefl DEF MaybeRefund

\* Writing a slot journals what it does.
LEMMA StorageChangeFollows ==
    ASSUME NEW s, Sound(s), NEW a \in Addr, NEW i \in Slot, NEW v \in Val,
           s.led.acct[a].exists
    PROVE  Follows(s, Record(s, [s.led EXCEPT !.slot[a][i] = v],
                             StorageChange(a, i, s.led.slot[a][i])))
<1> DEFINE f == s.led.slot
           g == PutSlot(f, a, i, v)
           L == [s.led EXCEPT !.slot = g]
           e == StorageChange(a, i, f[a][i])
<1>1. s.led \in Ledgers /\ f \in SlotMap(Val) /\ f[a][i] \in Val
  BY DEF Sound, Solid, Ledgers, SlotMap
<1>2. /\ g \in SlotMap(Val)
      /\ \A b \in Addr : b # a => g[b] = f[b]
      /\ PutSlot(g, a, i, f[a][i]) = f
  <2> HIDE DEF f
  <2> QED
    BY <1>1, PutSlotBack
<1>3. [s.led EXCEPT !.slot[a][i] = v] = L
  BY DEF PutSlot
<1> HIDE DEF g
<1>4. L \in Ledgers /\ L.acct = s.led.acct /\ L.slot = g
  BY <1>1, <1>2 DEF Ledgers, SlotMap
<1>5. L \in Solid
  <2> SUFFICES ASSUME NEW b \in Addr
               PROVE  L.acct[b].balance >= 0 /\ (~L.acct[b].exists => Vacant(L, b))
    BY <1>4, SolidIntro
  <2> QED
    BY <1>2, <1>4 DEF Sound, Solid, Vacant
<1>6. [L EXCEPT !.slot = f] = s.led
  BY <1>1 DEF Ledgers
<1>7. e \in Entry
  BY <1>1 DEF StorageChange, Entry
<1> HIDE DEF L
<1>8. CanUndo(e, L)
  BY CanUndoIs
<1>9. Undo(e, L) = s.led
  <2>1. Undo(e, L) = revert_storage_change(L, a, i, f[a][i])
    BY UndoIs
  <2>2. revert_storage_change(L, a, i, f[a][i]) = [L EXCEPT !.slot = PutSlot(L.slot, a, i, f[a][i])]
    BY DEF revert_storage_change, PutSlot
  <2> QED
    BY <1>2, <1>4, <1>6, <2>1, <2>2
<1> HIDE DEF e
<1>10. Follows(s, Record(s, L, e))
  BY <1>4, <1>5, <1>7, <1>8, <1>9, RecordFollows
<1> QED
  BY <1>3, <1>10 DEF e

\* sys_sstore, refunds included, journals what it does.
LEMMA SStoreFollows ==
    ASSUME NEW s, Sound(s), NEW a \in Addr, NEW i \in Slot, NEW v \in Val,
           s.led.acct[a].exists
    PROVE  Follows(s, SStore(s, a, i, v))
<1> DEFINE cur  == s.led.slot[a][i]
           orig == s.led.orig[a][i]
           m    == ClearRefund(orig, cur, v)
           n    == ResetRefund(orig, cur, v)
           t    == MaybeRefund(s, m)
           u    == MaybeRefund(t, n)
<1>1. m \in Int /\ n \in Int
  BY LedgerAssumption DEF ClearRefund, ResetRefund
<1> HIDE DEF m, n
<1>2. Follows(s, t) /\ t.led.acct = s.led.acct /\ t.led.slot = s.led.slot
  BY <1>1, MaybeRefundFollows
<1>3. Sound(t)
  BY <1>2 DEF Follows
<1> HIDE DEF t
<1>4. Follows(t, u) /\ u.led.acct = s.led.acct /\ u.led.slot = s.led.slot
  BY <1>1, <1>2, <1>3, MaybeRefundFollows
<1>5. Sound(u) /\ Follows(s, u)
  BY <1>2, <1>4, FollowsTrans DEF Follows
<1> HIDE DEF u
<1>6. Follows(u, Record(u, [u.led EXCEPT !.slot[a][i] = v], StorageChange(a, i, u.led.slot[a][i])))
  BY <1>4, <1>5, StorageChangeFollows
<1>7. Follows(s, Record(u, [u.led EXCEPT !.slot[a][i] = v], StorageChange(a, i, cur)))
  BY <1>4, <1>5, <1>6, FollowsTrans
<1> QED
  BY <1>7, FollowsRefl DEF SStore, u, t, m, n

\* log_n journals what it does.
LEMMA LogFollows ==
    ASSUME NEW s, Sound(s), NEW n \in Nat
    PROVE  Follows(s, log_n(s, n))
<1> DEFINE g == [len |-> s.led.logs.len + 1, size |-> s.led.logs.size + n]
           L == [s.led EXCEPT !.logs = g]
           e == Log(s.led.logs.size)
<1>1. s.led \in Ledgers /\ s.led.logs \in [len : Int, size : Nat]
  BY DEF Sound, Solid, Ledgers
<1>2. g \in [len : Int, size : Nat] /\ [len |-> g.len - 1, size |-> s.led.logs.size] = s.led.logs
  BY <1>1
<1>3. log_n(s, n) = Record(s, L, e)
  BY DEF log_n
<1> HIDE DEF g
<1>4. L \in Ledgers /\ L.logs = g /\ L.acct = s.led.acct /\ L.slot = s.led.slot
  BY <1>1, <1>2 DEF Ledgers
<1>5. L \in Solid /\ \A b \in Addr : s.led.acct[b].exists => L.acct[b].exists
  BY <1>4, OtherSolid DEF Sound
<1>6. [L EXCEPT !.logs = s.led.logs] = s.led
  BY <1>1 DEF Ledgers
<1>7. e \in Entry
  BY <1>1 DEF Log, Entry
<1> HIDE DEF L
<1>8. CanUndo(e, L)
  BY CanUndoIs
<1>9. Undo(e, L) = s.led
  <2>1. Undo(e, L) = revert_log(L, s.led.logs.size)
    BY UndoIs
  <2>2. revert_log(L, s.led.logs.size)
            = [L EXCEPT !.logs = [len |-> L.logs.len - 1, size |-> s.led.logs.size]]
    BY DEF revert_log
  <2> QED
    BY <1>2, <1>4, <1>6, <2>1, <2>2
<1> HIDE DEF e
<1> QED
  BY <1>3, <1>5, <1>7, <1>8, <1>9, RecordFollows

\* A transient store journals what it does.
LEMMA TStoreFollows ==
    ASSUME NEW s, Sound(s), NEW a \in Addr, NEW i \in Slot, NEW v \in Val
    PROVE  Follows(s, TStore(s, a, i, v))
<1> DEFINE f == s.led.tran
           g == PutSlot(f, a, i, v)
           L == [s.led EXCEPT !.tran = g]
           e == TransientStorageChange(a, i, f[a][i])
<1>1. s.led \in Ledgers /\ f \in SlotMap(Val) /\ f[a][i] \in Val
  BY DEF Sound, Solid, Ledgers, SlotMap
<1>2. g \in SlotMap(Val) /\ PutSlot(g, a, i, f[a][i]) = f
  <2> HIDE DEF f
  <2> QED
    BY <1>1, PutSlotBack
<1>3. v # f[a][i] => TStore(s, a, i, v) = Record(s, L, e)
  BY DEF TStore, PutSlot
<1> HIDE DEF g
<1>4. L \in Ledgers /\ L.tran = g /\ L.acct = s.led.acct /\ L.slot = s.led.slot
  BY <1>1, <1>2 DEF Ledgers, SlotMap
<1>5. L \in Solid /\ \A b \in Addr : s.led.acct[b].exists => L.acct[b].exists
  BY <1>4, OtherSolid DEF Sound
<1>6. [L EXCEPT !.tran = f] = s.led
  BY <1>1 DEF Ledgers
<1>7. e \in Entry
  BY <1>1 DEF TransientStorageChange, Entry
<1> HIDE DEF L
<1>8. CanUndo(e, L)
  BY CanUndoIs
<1>9. Undo(e, L) = s.led
  <2>1. Undo(e, L) = revert_transient_storage_change(L, a, i, f[a][i])
    BY UndoIs
  <2>2. revert_transient_storage_change(L, a, i, f[a][i])
            = [L EXCEPT !.tran = PutSlot(L.tran, a, i, f[a][i])]
    BY DEF revert_transient_storage_change, PutSlot
  <2> QED
    BY <1>2, <1>4, <1>6, <2>1, <2>2
<1> HIDE DEF e
<1>10. Follows(s, Record(s, L, e))
  BY <1>5, <1>7, <1>8, <1>9, RecordFollows
<1> QED
  BY <1>3, <1>10, FollowsRefl DEF TStore

\* A code change journals what it does.
LEMMA CodeFollows ==
    ASSUME NEW s, Sound(s), NEW a \in Addr, s.led.acct[a].exists, NEW c \in Codes
    PROVE  Follows(s, Record(s, [s.led EXCEPT !.acct[a].code = c],
                             CodeChange(a, s.led.acct[a].code)))
<1> DEFINE e == CodeChange(a, s.led.acct[a].code)
<1> DEFINE r == [s.led.acct[a] EXCEPT !.code = c]
<1>1. s.led \in Ledgers /\ s.led.acct[a] \in Account /\ s.led.acct[a].balance >= 0
  BY DEF Sound, Solid, Ledgers
<1>2. r \in Account /\ r.exists /\ r.balance >= 0 /\ e \in Entry
      /\ [r EXCEPT !.code = s.led.acct[a].code] = s.led.acct[a]
  BY <1>1 DEF Account, CodeChange, Entry
<1>3. PutAcct(s.led, a, r).acct[a] = r
  BY <1>1, <1>2 DEF PutAcct, Ledgers
<1>4. CanUndo(e, PutAcct(s.led, a, r))
  BY <1>2, <1>3, CanUndoIs, ZenonT(40)
<1>5. Undo(e, PutAcct(s.led, a, r)) = PutAcct(PutAcct(s.led, a, r), a, s.led.acct[a])
  <2> DEFINE L == PutAcct(s.led, a, r)
  <2>1. L.acct[a] = r
    BY <1>3
  <2> HIDE DEF L
  <2>2. Undo(e, L) = revert_code_change(L, a, s.led.acct[a].code)
    BY UndoIs
  <2>3. revert_code_change(L, a, s.led.acct[a].code)
            = PutAcct(L, a, [L.acct[a] EXCEPT !.code = s.led.acct[a].code])
    BY DEF revert_code_change, PutAcct
  <2> QED
    BY <1>2, <2>1, <2>2, <2>3 DEF L
<1>6. [s.led EXCEPT !.acct[a].code = c] = PutAcct(s.led, a, r)
  BY DEF PutAcct
<1> HIDE DEF r, e
<1>7. Follows(s, Record(s, PutAcct(s.led, a, r), e))
  BY <1>2, <1>4, <1>5, AcctFollows
<1> QED
  BY <1>6, <1>7 DEF e

\* set_codehash journals what it does.
LEMMA SetCodehashFollows ==
    ASSUME NEW s, Sound(s), NEW a \in Addr, s.led.acct[a].exists, NEW c \in Codes
    PROVE  Follows(s, set_codehash(s, a, c))
<1> DEFINE t == insert_touched_addresses(s, a)
<1>1. Follows(s, t) /\ t.led.acct = s.led.acct
  BY TouchedFollows, TouchedIs
<1>2. Sound(t)
  BY <1>1 DEF Follows
<1> HIDE DEF t
<1>3. Follows(t, Record(t, [t.led EXCEPT !.acct[a].code = c], CodeChange(a, t.led.acct[a].code)))
  BY <1>1, <1>2, CodeFollows
<1> QED
  BY <1>1, <1>3, FollowsTrans DEF set_codehash, t

\* create_contract_account up to its collision test journals what it does.
LEMMA AppendCreatedFollows ==
    ASSUME NEW s, Sound(s), NEW a \in Addr
    PROVE  Follows(s, AppendCreated(s, a)) /\ AppendCreated(s, a).led.acct = s.led.acct
<1> DEFINE t == insert_touched_addresses(s, a)
           u == [t EXCEPT !.created = Append(@, a)]
<1>1. Follows(s, t) /\ t.led.acct = s.led.acct
  BY TouchedFollows, TouchedIs
<1>2. Sound(t)
  BY <1>1 DEF Follows
<1> HIDE DEF t
<1>3. Append(t.created, a) \in Seq(Addr)
  BY <1>2 DEF Sound, Kernels
<1>4. Sound(u) /\ u.led = t.led /\ u.journal = t.journal
  BY <1>2, <1>3 DEF Sound, Kernels
<1>5. AppendCreated(s, a) = u
  BY DEF AppendCreated, t
<1> HIDE DEF u
<1>6. Follows(t, u)
  BY <1>2, <1>4, FollowsSame
<1> QED
  BY <1>1, <1>4, <1>5, <1>6, FollowsTrans

\* create_contract_account after it journals what it does.
LEMMA InsertContractFollows ==
    ASSUME NEW s, Sound(s), NEW a \in Addr, ~Collides(s, a)
    PROVE  LET t == InsertContract(s, a) IN
           /\ Follows(s, t)
           /\ t.led.acct[a].exists
           /\ \A b \in Addr : b # a /\ s.led.acct[b].exists => t.led.acct[b] = s.led.acct[b]
<1> DEFINE c == TRUE
           t == AddAccount(s, a, c)
           L == [t.led EXCEPT !.acct[a].nonce = 1]
           u == Record(t, L, NonceChange(a, 0))
<1>0. c \in BOOLEAN /\ InsertContract(s, a) = u
  BY DEF InsertContract
<1> HIDE DEF c
<1>1. /\ Follows(s, t)
      /\ t.led.acct[a].exists
      /\ \A b \in Addr : s.led.acct[b].exists => t.led.acct[b] = s.led.acct[b]
      /\ ~s.led.acct[a].exists => t.led.acct[a] = NewAccount(0)
  BY <1>0, AddAccountFollows
<1> HIDE DEF t
<1>2. Sound(t) /\ t.led.acct[a].nonce = 0
  BY <1>1 DEF Follows, Collides, NewAccount
<1>3. Follows(t, u)
  BY <1>1, <1>2, NonceFollows
<1>4. u.led = L
  BY <1>2 DEF Sound, Kernels, Record
<1>5. \A b \in Addr : b # a => L.acct[b] = t.led.acct[b]
  BY <1>2 DEF Sound, Solid, Ledgers
<1>6. u.led.acct[a].exists
  BY <1>1, <1>3 DEF Follows
<1> HIDE DEF L, u
<1>7. Follows(s, u)
  BY <1>1, <1>3, FollowsTrans
<1> QED
  BY <1>0, <1>1, <1>4, <1>5, <1>6, <1>7

-----------------------------------------------------------------------------
(* Ether that moves without an entry, and self-destruction.                *)

PutBalance(L, a, n) == [L EXCEPT !.acct[a].balance = n]

\* Balances of a solid ledger are natural numbers.
LEMMA BalTyped ==
    ASSUME NEW L \in Ledgers
    PROVE  Bal(L) \in Balances
BY DEF Bal, Balances, Ledgers, Account

\* Setting a balance to a natural number keeps a ledger solid.
LEMMA SetBalSolid ==
    ASSUME NEW L \in Solid, NEW g \in Balances,
           \A x \in Addr : g[x] >= 0 /\ (~L.acct[x].exists => g[x] = 0)
    PROVE  SetBal(L, g) \in Solid
<1> DEFINE M == SetBal(L, g)
<1>1. L \in Ledgers
  BY DEF Solid
<1>2. M \in Ledgers /\ M.slot = L.slot /\ \A x \in Addr : M.acct[x].exists = L.acct[x].exists
  BY <1>1, SetBalIs
<1>3. ASSUME NEW x \in Addr
      PROVE  M.acct[x] = [L.acct[x] EXCEPT !.balance = g[x]]
  BY <1>1 DEF SetBal, Ledgers
<1> HIDE DEF M
<1>4. ASSUME NEW x \in Addr
      PROVE  M.acct[x].balance >= 0 /\ (~M.acct[x].exists => Vacant(M, x))
  <2>1. L.acct[x] \in Account
    BY <1>1 DEF Ledgers
  <2>2. M.acct[x].balance = g[x]
    BY <1>3, <2>1 DEF Account
  <2>3. ASSUME ~L.acct[x].exists
        PROVE  M.acct[x] = NoAccount /\ M.slot[x] = [i \in Slot |-> 0]
    <3>1. L.acct[x] = NoAccount /\ L.slot[x] = [i \in Slot |-> 0] /\ g[x] = 0
      BY <2>3 DEF Solid
    <3>2. M.acct[x] = [NoAccount EXCEPT !.balance = 0]
      BY <1>3, <3>1
    <3> QED
      BY <1>2, <3>1, <3>2 DEF NoAccount
  <2> QED
    BY <1>2, <2>2, <2>3 DEF Vacant
<1> QED
  BY <1>2, <1>4, SolidIntro DEF M

\* Setting, or raising, one balance.
LEMMA OneBal ==
    ASSUME NEW L \in Ledgers, NEW a \in Addr, NEW n \in Int
    PROVE  /\ [Bal(L) EXCEPT ![a] = n] \in Balances
           /\ PutBalance(L, a, n) = SetBal(L, [Bal(L) EXCEPT ![a] = n])
<1> DEFINE g == [Bal(L) EXCEPT ![a] = n]
           f == [L.acct EXCEPT ![a] = [L.acct[a] EXCEPT !.balance = n]]
           q == [x \in Addr |-> [L.acct[x] EXCEPT !.balance = g[x]]]
<1>1. Bal(L) \in [Addr -> Int] /\ g \in Balances
  BY BalTyped DEF Balances
<1>2. /\ g[a] = n
      /\ \A x \in Addr : x # a => g[x] = L.acct[x].balance
  BY <1>1 DEF Bal
<1>3. L.acct \in [Addr -> Account]
  BY DEF Ledgers
<1> HIDE DEF g
<1>4. \A x \in Addr : f[x] = q[x]
  <2> TAKE x \in Addr
  <2>1. L.acct[x] \in Account
    BY <1>3
  <2>2. CASE x = a
    BY <1>2, <1>3, <2>2
  <2>3. CASE x # a
    <3>1. f[x] = L.acct[x]
      BY <1>3, <2>3
    <3>2. [L.acct[x] EXCEPT !.balance = L.acct[x].balance] = L.acct[x]
      BY <2>1 DEF Account
    <3> QED
      BY <1>2, <2>3, <3>1, <3>2
  <2> QED
    BY <2>2, <2>3
<1>5. f = q
  BY <1>3, <1>4
<1>6. PutBalance(L, a, n) = [L EXCEPT !.acct = f]
  BY DEF PutBalance
<1> HIDE DEF f
<1> QED
  BY <1>1, <1>5, <1>6 DEF SetBal, g

\* The accounts after add_eth's addition.
LEMMA CreditIs ==
    ASSUME NEW L \in Ledgers, NEW a \in Addr, NEW v \in Int, L.acct[a].exists
    PROVE  Credit(L, a, v) = PutBalance(L, a, L.acct[a].balance + v)
BY DEF Credit, PutBalance

\* The state with another ledger, or another list of self-destructs.
LEMMA WithLedger ==
    ASSUME NEW s, Sound(s), NEW L \in Solid
    PROVE  LET t == [s EXCEPT !.led = L] IN
           Sound(t) /\ t.led = L /\ t.journal = s.journal /\ t.ripemd = s.ripemd
                    /\ t.created = s.created /\ t.destroyed = s.destroyed
BY DEF Sound, Kernels, Solid

\* Setting the balance of an account that exists keeps a ledger solid.
LEMMA BalanceSolid ==
    ASSUME NEW L \in Solid, NEW a \in Addr, NEW n \in Nat, L.acct[a].exists
    PROVE  LET M == PutBalance(L, a, n) IN
           /\ M \in Solid
           /\ M.acct[a].exists /\ M.acct[a].balance = n /\ M.acct[a].nonce = L.acct[a].nonce
           /\ \A b \in Addr : b # a => M.acct[b] = L.acct[b]
           /\ \A b \in Addr : L.acct[b].exists => M.acct[b].exists
           /\ M.touched = L.touched
<1> DEFINE r == [L.acct[a] EXCEPT !.balance = n]
<1>1. L \in Ledgers /\ L.acct[a] \in Account
  BY DEF Solid, Ledgers
<1>2. r \in Account /\ r.exists /\ r.balance = n /\ r.balance >= 0 /\ r.nonce = L.acct[a].nonce
  BY <1>1 DEF Account
<1>3. PutBalance(L, a, n) = PutAcct(L, a, r)
  BY DEF PutAcct, PutBalance
<1>4. PutAcct(L, a, r).touched = L.touched
  BY <1>1 DEF PutAcct, Ledgers
<1>5. /\ PutAcct(L, a, r) \in Solid /\ PutAcct(L, a, r).acct[a] = r
      /\ \A b \in Addr : b # a => PutAcct(L, a, r).acct[b] = L.acct[b]
      /\ \A b \in Addr : L.acct[b].exists => PutAcct(L, a, r).acct[b].exists
  <2> HIDE DEF r
  <2> QED
    BY <1>2, PutAcctSolid
<1> QED
  BY <1>2, <1>3, <1>4, <1>5

\* deduct_eth keeps a kernel state sound when the account can pay.
LEMMA DeductSound ==
    ASSUME NEW s, Sound(s), NEW a \in Addr, NEW v \in Nat,
           s.led.acct[a].exists, s.led.acct[a].balance >= v
    PROVE  LET t == deduct_eth(s, a, v) IN
           /\ Sound(t)
           /\ \A b \in Addr : s.led.acct[b].exists => t.led.acct[b].exists
           /\ \A b \in Addr : b # a => t.led.acct[b] = s.led.acct[b]
           /\ t.led.acct[a].balance = s.led.acct[a].balance - v
           /\ t.led.acct[a].nonce = s.led.acct[a].nonce
           /\ IsTouched(t, a)
<1> DEFINE w == insert_touched_addresses(s, a)
           n == w.led.acct[a].balance - v
           L == PutBalance(w.led, a, n)
           t == [w EXCEPT !.led = L]
<1>1. Follows(s, w) /\ w.led.acct = s.led.acct /\ IsTouched(w, a)
  BY TouchedFollows, TouchedIs
<1>2. Sound(w) /\ w.led \in Solid
  BY <1>1 DEF Follows, Sound
<1>3. deduct_eth(s, a, v) = t
  BY DEF deduct_eth, PutBalance
<1> HIDE DEF w
<1>4. n \in Nat
  <2>1. w.led.acct[a].balance \in Int
    BY <1>2 DEF Solid, Ledgers, Account
  <2> QED
    BY <1>1, <2>1
<1>5. n = s.led.acct[a].balance - v
  BY <1>1
<1>51. w.led \in Solid /\ w.led.acct[a].exists
  BY <1>1, <1>2
<1> HIDE DEF n
<1>6. /\ L \in Solid
      /\ L.acct[a].exists /\ L.acct[a].balance = n /\ L.acct[a].nonce = w.led.acct[a].nonce
      /\ \A b \in Addr : b # a => L.acct[b] = w.led.acct[b]
      /\ \A b \in Addr : w.led.acct[b].exists => L.acct[b].exists
      /\ L.touched = w.led.touched
  BY <1>4, <1>51, BalanceSolid
<1> HIDE DEF L
<1>7. Sound(t) /\ t.led = L /\ t.ripemd = w.ripemd
  BY <1>2, <1>6, WithLedger
<1>8. IsTouched(t, a)
  BY <1>1, <1>6, <1>7 DEF IsTouched
<1> HIDE DEF t
<1> QED
  BY <1>1, <1>3, <1>5, <1>6, <1>7, <1>8

\* add_eth keeps a kernel state sound.
LEMMA AddEthSound ==
    ASSUME NEW s, Sound(s), NEW a \in Addr, NEW v \in Nat
    PROVE  LET t == add_eth(s, a, v) IN
           /\ Sound(t)
           /\ \A b \in Addr : s.led.acct[b].exists => t.led.acct[b].exists
<1> DEFINE w == PrepareCredit(s, a, v)
<1>1. /\ Follows(s, w)
      /\ v # 0 => w.led.acct[a].exists
  BY PrepareCreditFollows
<1>2. /\ Sound(w) /\ w.led \in Solid
      /\ \A b \in Addr : s.led.acct[b].exists => w.led.acct[b].exists
  BY <1>1 DEF Follows, Sound
<1> HIDE DEF w
<1>3. CASE v = 0
  BY <1>2, <1>3 DEF add_eth, w
<1>4. CASE v # 0
  <2> DEFINE n == w.led.acct[a].balance + v
             L == PutBalance(w.led, a, n)
             t == [w EXCEPT !.led = L]
  <2>1. w.led \in Ledgers /\ w.led.acct[a].balance \in Int /\ w.led.acct[a].balance >= 0
    BY <1>2 DEF Solid, Ledgers, Account
  <2>2. n \in Nat
    BY <2>1
  <2>3. Credit(w.led, a, v) = L
    BY <1>1, <1>4, <2>1, CreditIs
  <2>4. add_eth(s, a, v) = t
    BY <1>4, <2>3 DEF add_eth, w
  <2> HIDE DEF n
  <2>5. L \in Solid /\ \A b \in Addr : w.led.acct[b].exists => L.acct[b].exists
    BY <1>1, <1>2, <1>4, <2>2, BalanceSolid
  <2> HIDE DEF L
  <2>6. Sound(t) /\ t.led = L
    BY <1>2, <2>5, WithLedger
  <2> HIDE DEF t
  <2> QED
    BY <1>2, <2>4, <2>5, <2>6
<1> QED
  BY <1>3, <1>4

\* transfer_eth keeps a kernel state sound when the sender can pay.
LEMMA TransferSound ==
    ASSUME NEW s, Sound(s), NEW from \in Addr, NEW to \in Addr, NEW v \in Nat,
           s.led.acct[from].exists, s.led.acct[from].balance >= v
    PROVE  LET t == transfer_eth(s, from, to, v) IN
           /\ Sound(t)
           /\ \A b \in Addr : s.led.acct[b].exists => t.led.acct[b].exists
<1> DEFINE w == deduct_eth(s, from, v)
           t == add_eth(w, to, v)
<1>1. /\ Sound(w)
      /\ \A b \in Addr : s.led.acct[b].exists => w.led.acct[b].exists
  BY DeductSound
<1>2. transfer_eth(s, from, to, v) = t
  BY DEF transfer_eth
<1> HIDE DEF w
<1>3. Sound(t) /\ \A b \in Addr : w.led.acct[b].exists => t.led.acct[b].exists
  BY <1>1, AddEthSound
<1> HIDE DEF t
<1> QED
  BY <1>1, <1>2, <1>3

\* CALLCODE's transfer to itself comes to a touch.
LEMMA SelfTransferFollows ==
    ASSUME NEW s, Sound(s), NEW a \in Addr, NEW v \in Nat,
           s.led.acct[a].exists, s.led.acct[a].balance >= v
    PROVE  /\ transfer_eth(s, a, a, v) = insert_touched_addresses(s, a)
           /\ Follows(s, transfer_eth(s, a, a, v))
<1> DEFINE w == insert_touched_addresses(s, a)
           b == w.led.acct[a].balance
           n == b - v
           L == PutBalance(w.led, a, n)
           d == [w EXCEPT !.led = L]
<1>1. Follows(s, w) /\ w.led.acct = s.led.acct /\ IsTouched(w, a)
  BY TouchedFollows, TouchedIs
<1>2. Sound(w) /\ w.led \in Solid /\ w.led \in Ledgers
  BY <1>1 DEF Follows, Sound, Solid
<1>3. deduct_eth(s, a, v) = d
  BY DEF deduct_eth, PutBalance
<1> HIDE DEF w
<1>4. b \in Int /\ n \in Nat /\ n + v = b
  <2>1. w.led.acct[a].balance \in Int
    BY <1>2 DEF Solid, Ledgers, Account
  <2> QED
    BY <1>1, <2>1
<1> HIDE DEF n
<1>5. /\ L \in Solid
      /\ L.acct[a].exists /\ L.acct[a].balance = n
      /\ L.touched = w.led.touched
  BY <1>1, <1>2, <1>4, BalanceSolid
<1>51. L.acct[a] = [w.led.acct[a] EXCEPT !.balance = n]
  BY <1>2 DEF PutBalance, Ledgers
<1>6. PutBalance(L, a, b) = w.led
  <2>1. w.led.acct \in [Addr -> Account] /\ w.led.acct[a] \in Account
    BY <1>2 DEF Ledgers
  <2>2. [[w.led.acct[a] EXCEPT !.balance = n] EXCEPT !.balance = b] = w.led.acct[a]
    BY <2>1 DEF Account
  <2>3. L = PutAcct(w.led, a, [w.led.acct[a] EXCEPT !.balance = n])
    BY DEF PutAcct, PutBalance
  <2>4. PutBalance(L, a, b) = PutAcct(L, a, [L.acct[a] EXCEPT !.balance = b])
    BY DEF PutAcct, PutBalance
  <2>5. PutBalance(L, a, b) = PutAcct(L, a, w.led.acct[a])
    BY <1>51, <2>2, <2>4
  <2> HIDE DEF L
  <2>6. PutAcct(L, a, w.led.acct[a]) = w.led
    BY <1>2, <2>3, PutAcctBack
  <2> QED
    BY <2>5, <2>6
<1> HIDE DEF L
<1>7. Sound(d) /\ d.led = L /\ d.ripemd = w.ripemd
  BY <1>2, <1>5, WithLedger
<1>8. IsTouched(d, a)
  BY <1>1, <1>5, <1>7 DEF IsTouched
<1>9. [d EXCEPT !.led = w.led] = w
  BY <1>2 DEF Sound, Kernels
<1>10. v = 0 => L = w.led
  <2>1. PutBalance(w.led, a, b) = w.led
    <3>1. w.led.acct[a] \in Account
      BY <1>2 DEF Ledgers
    <3>2. [w.led.acct[a] EXCEPT !.balance = w.led.acct[a].balance] = w.led.acct[a]
      BY <3>1 DEF Account
    <3>3. PutBalance(w.led, a, b)
              = PutAcct(w.led, a, [w.led.acct[a] EXCEPT !.balance = w.led.acct[a].balance])
      BY DEF PutAcct, PutBalance
    <3> QED
      BY <1>2, <3>2, <3>3, PutAcctBack
  <2> QED
    BY <1>4, <2>1 DEF L
<1>11. v = 0 => d = w
  BY <1>9, <1>10
<1> HIDE DEF d
<1>12. insert_touched_addresses(d, a) = d
  BY <1>7, <1>8, TouchedIs
<1>13. PrepareCredit(d, a, v) = d
  BY <1>5, <1>7, <1>12 DEF PrepareCredit, AddAccount
<1>14. add_eth(d, a, v) = w
  <2>1. CASE v = 0
    BY <1>11, <1>13, <2>1 DEF add_eth
  <2>2. CASE v # 0
    <3>1. Credit(d.led, a, v) = w.led
      <4>1. L \in Ledgers /\ L.acct[a].exists /\ v \in Int
        BY <1>5 DEF Solid
      <4>2. Credit(L, a, v) = PutBalance(L, a, L.acct[a].balance + v)
        BY <4>1, CreditIs
      <4> QED
        BY <1>4, <1>5, <1>6, <1>7, <4>2
    <3> QED
      BY <1>9, <1>13, <2>2, <3>1 DEF add_eth
  <2> QED
    BY <2>1, <2>2
<1> QED
  BY <1>1, <1>3, <1>14 DEF transfer_eth, w

\* L is T when a has given up its balance and r has been paid n.
Bequeathed(T, L, a, r, n) ==
    \E g \in Balances :
        /\ L = SetBal(T, g)
        /\ \A x \in Addr : g[x] = (IF x = a THEN 0 ELSE T.acct[x].balance)
                                + (IF x = r THEN n ELSE 0)

\* sys_selfdestruct's changes of balances, and their undoing, as functions.
LEMMA SelfdestructBalances ==
    ASSUME NEW T \in Solid, NEW a \in Addr, NEW r \in Addr, NEW bal \in Nat, NEW amount \in Nat,
           T.acct[a].exists, T.acct[a].balance = bal,
           amount = bal \/ (amount = 0 /\ a = r),
           amount # 0 => T.acct[r].exists
    PROVE  LET paid == PutBalance(T, a, 0)
               L == IF amount = 0 THEN paid ELSE Credit(paid, r, amount)
           IN  /\ L \in Solid
               /\ \A x \in Addr : L.acct[x].exists = T.acct[x].exists
               /\ bal = 0 => L = T
               /\ PutBalance(PutBalance(L, r, L.acct[r].balance - bal), a, bal) = T
               /\ Bequeathed(T, L, a, r, amount)
<1> DEFINE B == Bal(T)
           P == [B EXCEPT ![a] = 0]
           G == IF amount = 0 THEN P ELSE [P EXCEPT ![r] = P[r] + amount]
           H == [G EXCEPT ![r] = G[r] - bal]
           paid == PutBalance(T, a, 0)
           L == IF amount = 0 THEN paid ELSE Credit(paid, r, amount)
<1>1. T \in Ledgers /\ B \in Balances /\ B \in [Addr -> Int]
  BY BalTyped DEF Solid, Balances
<1>2. B[a] = bal /\ \A x \in Addr : B[x] >= 0 /\ (~T.acct[x].exists => B[x] = 0)
  BY DEF Bal, Solid, NoAccount
<1>3. P \in Balances /\ paid = SetBal(T, P)
  <2> DEFINE z == 0
  <2>1. z \in Int /\ P = [Bal(T) EXCEPT ![a] = z] /\ paid = PutBalance(T, a, z)
    OBVIOUS
  <2> HIDE DEF z, P, paid
  <2> QED
    BY <1>1, <2>1, OneBal
<1> HIDE DEF B
<1>4. P \in [Addr -> Int] /\ P[a] = 0 /\ \A x \in Addr : x # a => P[x] = B[x]
  BY <1>1
<1> HIDE DEF P
<1>5. G \in [Addr -> Int] /\ G \in Balances
  BY <1>4 DEF Balances
<1>6. \A x \in Addr : G[x] = P[x] + (IF x = r THEN amount ELSE 0)
  BY <1>4
<1>7. \A x \in Addr : G[x] >= 0 /\ (~T.acct[x].exists => G[x] = 0)
  BY <1>2, <1>4, <1>6
<1>8. /\ paid \in Ledgers /\ Bal(paid) = P
      /\ \A x \in Addr : paid.acct[x].exists = T.acct[x].exists
  BY <1>1, <1>3, SetBalIs
<1> HIDE DEF paid
<1>9. L = SetBal(T, G)
  <2>1. CASE amount = 0
    BY <1>3, <2>1
  <2>2. CASE amount # 0
    <3>1. paid.acct[r].exists /\ amount \in Int
      BY <1>8, <2>2
    <3>2. Credit(paid, r, amount) = PutBalance(paid, r, paid.acct[r].balance + amount)
      BY <1>8, <3>1, CreditIs
    <3>3. paid.acct[r].balance = P[r]
      BY <1>8 DEF Bal
    <3>4. P[r] + amount \in Int
      BY <1>4
    <3>5. Credit(paid, r, amount) = SetBal(paid, [P EXCEPT ![r] = P[r] + amount])
      <4> DEFINE n == P[r] + amount
      <4>1. n \in Int /\ Credit(paid, r, amount) = PutBalance(paid, r, n)
        BY <3>2, <3>3, <3>4
      <4> HIDE DEF n
      <4>2. PutBalance(paid, r, n) = SetBal(paid, [Bal(paid) EXCEPT ![r] = n])
        BY <1>8, <4>1, OneBal
      <4> QED
        BY <1>8, <4>1, <4>2 DEF n
    <3>6. L = SetBal(SetBal(T, P), G)
      BY <1>3, <2>2, <3>5
    <3> HIDE DEF G, L
    <3> QED
      BY <1>1, <1>3, <1>5, <3>6, SetBalIs
  <2> QED
    BY <2>1, <2>2
<1> HIDE DEF L
<1>10. L \in Solid
  <2> HIDE DEF G
  <2> QED
    BY <1>5, <1>7, <1>9, SetBalSolid
<1>11. /\ L \in Ledgers /\ Bal(L) = G /\ SetBal(T, B) = T
       /\ \A x \in Addr : L.acct[x].exists = T.acct[x].exists
  <2> HIDE DEF G
  <2> QED
    BY <1>1, <1>5, <1>9, SetBalIs DEF B
<1>12. bal = 0 => L = T
  <2> SUFFICES ASSUME bal = 0 PROVE G = B
    BY <1>9, <1>11
  <2>1. \A x \in Addr : G[x] = B[x]
    BY <1>1, <1>2, <1>4, <1>6
  <2> HIDE DEF G
  <2> QED
    BY <1>1, <1>5, <2>1
<1>13. H \in Balances /\ PutBalance(L, r, L.acct[r].balance - bal) = SetBal(T, H)
  <2> HIDE DEF G
  <2> DEFINE n == G[r] - bal
  <2>1. n \in Int /\ L.acct[r].balance - bal = n
    BY <1>5, <1>11 DEF Bal
  <2>2. H = [Bal(L) EXCEPT ![r] = n]
    BY <1>11
  <2> HIDE DEF n
  <2>3. H \in Balances /\ PutBalance(L, r, n) = SetBal(L, H)
    BY <1>11, <2>1, <2>2, OneBal
  <2> HIDE DEF H
  <2>4. SetBal(SetBal(T, G), H) = SetBal(T, H)
    BY <1>1, <1>5, <2>3, SetBalIs
  <2> QED
    BY <1>9, <2>1, <2>3, <2>4
<1> DEFINE M == PutBalance(L, r, L.acct[r].balance - bal)
<1>14. M \in Ledgers /\ Bal(M) = H
  <2> HIDE DEF H, M
  <2> QED
    BY <1>1, <1>13, SetBalIs DEF M
<1>15. [H EXCEPT ![a] = bal] = B
  <2> DEFINE F == [H EXCEPT ![a] = bal]
  <2>1. F \in [Addr -> Int] /\ F[a] = bal /\ \A x \in Addr : x # a => F[x] = H[x]
    BY <1>13 DEF Balances
  <2>2. \A x \in Addr : x # a => H[x] = B[x]
    <3> SUFFICES ASSUME NEW x \in Addr, x # a PROVE H[x] = B[x]
      OBVIOUS
    <3>1. H[x] = G[x] - (IF x = r THEN bal ELSE 0)
      <4> HIDE DEF G
      <4> QED
        BY <1>5
    <3>2. G[x] = B[x] + (IF x = r THEN amount ELSE 0)
      <4> HIDE DEF G
      <4> QED
        BY <1>4, <1>6
    <3>3. x = r => amount = bal
      OBVIOUS
    <3> HIDE DEF G, H
    <3> QED
      BY <1>1, <3>1, <3>2, <3>3
  <2> HIDE DEF F
  <2>3. \A x \in Addr : F[x] = B[x]
    BY <1>2, <2>1, <2>2
  <2> QED
    BY <1>1, <2>1, <2>3 DEF F
<1> HIDE DEF M
<1>16. PutBalance(M, a, bal) = SetBal(M, B)
  <2>1. bal \in Int /\ M \in Ledgers
    BY <1>14
  <2>2. PutBalance(M, a, bal) = SetBal(M, [Bal(M) EXCEPT ![a] = bal])
    BY <2>1, OneBal
  <2> QED
    BY <1>14, <1>15, <2>2
<1>17. SetBal(M, B) = T
  <2> HIDE DEF H
  <2>1. M = SetBal(T, H)
    BY <1>13 DEF M
  <2>2. SetBal(SetBal(T, H), B) = SetBal(T, B)
    BY <1>1, <1>13, SetBalIs
  <2> QED
    BY <1>11, <2>1, <2>2
<1>18. Bequeathed(T, L, a, r, amount)
  <2>1. \A x \in Addr : G[x] = (IF x = a THEN 0 ELSE T.acct[x].balance)
                             + (IF x = r THEN amount ELSE 0)
    BY <1>4, <1>6 DEF B, Bal
  <2> HIDE DEF G
  <2> QED
    BY <1>5, <1>9, <2>1 DEF Bequeathed
<1> QED
  BY <1>10, <1>11, <1>12, <1>16, <1>17, <1>18 DEF M, L, paid

\* What sys_selfdestruct does once the recipient has been touched, and entered in the
\* trie if it is paid anything.
LEMMA SelfdestructIs ==
    ASSUME NEW s, Sound(s), NEW a \in Addr, NEW r \in Addr, s.led.acct[a].exists
    PROVE  \E amount \in Nat :
              LET t == PrepareCredit(s, r, amount)
                  d == Selfdestruct(s, a, r)
              IN  /\ Follows(s, t) /\ Follows(t, d)
                  /\ Len(d.journal) <= Len(t.journal) + 1
                  /\ d.ripemd = t.ripemd
                  /\ \A x \in Addr : x # a => d.destroyed[x] = t.destroyed[x]
                  /\ t.led.acct[a] = s.led.acct[a] /\ amount <= s.led.acct[a].balance
                  /\ amount # 0 => t.led.acct[r].exists
                  /\ Bequeathed(t.led, d.led, a, r, amount)
<1> DEFINE bal    == s.led.acct[a].balance
           new    == contract_just_created(s, a)
           amount == IF new /\ a = r THEN 0 ELSE bal
           t      == PrepareCredit(s, r, amount)
           paid   == PutBalance(t.led, a, 0)
           L      == IF amount = 0 THEN paid ELSE Credit(paid, r, amount)
           u      == IF new THEN [t EXCEPT !.destroyed[a] = @ + 1] ELSE t
           e      == AccountDestroyed(a, r, bal)
<1>0. Selfdestruct(s, a, r) = IF bal = 0 /\ is_non_existent(L, r)
                              THEN [u EXCEPT !.led = L] ELSE Record(u, L, e)
  BY DEF Selfdestruct, PutBalance
<1> DEFINE d == Selfdestruct(s, a, r)
<1>1. bal \in Nat /\ amount \in Nat /\ (amount = bal \/ (amount = 0 /\ a = r))
  BY DEF Sound, Solid, Ledgers, Account
<1> HIDE DEF new, amount
<1>2. /\ Follows(s, t)
      /\ amount # 0 => t.led.acct[r].exists
      /\ \A b \in Addr : s.led.acct[b].exists => t.led.acct[b] = s.led.acct[b]
  BY PrepareCreditFollows
<1>3. Sound(t) /\ t.led \in Solid
  BY <1>2 DEF Follows, Sound
<1> HIDE DEF t
<1>4. t.led.acct[a].exists /\ t.led.acct[a].balance = bal
  BY <1>2
<1>5. /\ Sound(u) /\ u.led = t.led /\ u.journal = t.journal /\ u.ripemd = t.ripemd
      /\ \A x \in Addr : x # a => u.destroyed[x] = t.destroyed[x]
  <2>1. CASE new
    <3>1. [t.destroyed EXCEPT ![a] = @ + 1] \in [Addr -> Nat]
      BY <1>3 DEF Sound, Kernels
    <3> QED
      BY <1>3, <2>1, <3>1 DEF Sound, Kernels
  <2>2. CASE ~new
    BY <1>3, <2>2
  <2> QED
    BY <2>1, <2>2
<1> HIDE DEF u
<1>60. Follows(t, u)
  BY <1>3, <1>5, FollowsSame
<1>6. Follows(t, u) /\ Len(t.journal) \in Nat
  BY <1>3, <1>60 DEF Sound, Kernels
<1> HIDE DEF bal
<1>7. /\ L \in Solid
      /\ \A x \in Addr : L.acct[x].exists = t.led.acct[x].exists
      /\ bal = 0 => L = t.led
      /\ PutBalance(PutBalance(L, r, L.acct[r].balance - bal), a, bal) = t.led
      /\ Bequeathed(t.led, L, a, r, amount)
  BY <1>1, <1>2, <1>3, <1>4, SelfdestructBalances
<1> HIDE DEF L
<1> DEFINE Right ==
              /\ Follows(t, d) /\ d.led = L /\ d.ripemd = t.ripemd
              /\ Len(d.journal) <= Len(t.journal) + 1
              /\ \A x \in Addr : x # a => d.destroyed[x] = t.destroyed[x]
<1>8. ASSUME bal = 0, is_non_existent(L, r) PROVE Right
  <2>1. [u EXCEPT !.led = L] = u
    BY <1>5, <1>7, <1>8 DEF Sound, Kernels
  <2>2. d = u
    BY <1>0, <1>8, <2>1
  <2> HIDE DEF d
  <2>3. Right
    BY <1>5, <1>6, <1>7, <1>8, <2>2
  <2> QED
    BY <2>3
<1>9. ASSUME ~(bal = 0 /\ is_non_existent(L, r)) PROVE Right
  <2>1. L.acct[a].exists /\ L.acct[r].exists
    <3>1. CASE bal = 0
      BY <1>4, <1>7, <1>9, <3>1 DEF is_non_existent
    <3>2. CASE bal # 0
      BY <1>1, <1>2, <1>4, <1>7, <3>2
    <3> QED
      BY <3>1, <3>2
  <2>2. e \in Entry
    BY <1>1 DEF AccountDestroyed, Entry
  <2>3. CanUndo(e, L)
    BY <2>1, CanUndoIs
  <2>4. Undo(e, L) = t.led
    <3>1. Undo(e, L) = revert_account_destroyed(L, a, r, bal)
      BY UndoIs
    <3>2. revert_account_destroyed(L, a, r, bal)
              = PutBalance(PutBalance(L, r, L.acct[r].balance - bal), a, bal)
      BY DEF revert_account_destroyed, PutBalance
    <3> QED
      BY <1>7, <3>1, <3>2
  <2> HIDE DEF e
  <2>5. \A x \in Addr : u.led.acct[x].exists => L.acct[x].exists
    BY <1>5, <1>7
  <2>6. Follows(u, Record(u, L, e))
    BY <1>5, <1>7, <2>2, <2>3, <2>4, <2>5, RecordFollows
  <2>7. Len(Append(u.journal, e)) = Len(u.journal) + 1
    BY <1>5, <2>2 DEF Sound, Kernels
  <2>8. Record(u, L, e).led = L /\ Record(u, L, e).journal = Append(u.journal, e)
        /\ Record(u, L, e).ripemd = u.ripemd /\ Record(u, L, e).destroyed = u.destroyed
    BY <1>5 DEF Record, Sound, Kernels
  <2>9. d = Record(u, L, e)
    BY <1>0, <1>9
  <2> HIDE DEF d
  <2>10. Follows(t, d)
    BY <1>3, <1>6, <2>6, <2>9, FollowsTrans
  <2> QED
    BY <1>5, <1>6, <2>7, <2>8, <2>9, <2>10
<1>10. Right
  BY <1>8, <1>9
<1>11. t.led.acct[a] = s.led.acct[a] /\ amount <= s.led.acct[a].balance
  BY <1>1, <1>2 DEF bal
<1> HIDE DEF d
<1>12. Bequeathed(t.led, d.led, a, r, amount)
  BY <1>7, <1>10
<1> QED
  BY <1>1, <1>2, <1>10, <1>11, <1>12, Zenon DEF t, d

\* sys_selfdestruct journals what it does to the ledger.
LEMMA SelfdestructFollows ==
    ASSUME NEW s, Sound(s), NEW a \in Addr, NEW r \in Addr, s.led.acct[a].exists
    PROVE  Follows(s, Selfdestruct(s, a, r))
<1>1. PICK amount \in Nat :
          /\ Follows(s, PrepareCredit(s, r, amount))
          /\ Follows(PrepareCredit(s, r, amount), Selfdestruct(s, a, r))
  BY SelfdestructIs
<1> QED
  BY <1>1, FollowsTrans

-----------------------------------------------------------------------------
(* The supply.                                                             *)

WeiOf(L, a) == {a} \X (1 .. L.acct[a].balance)

\* An account has as many wei as its balance says.
LEMMA WeiOfIs ==
    ASSUME NEW L \in Solid, NEW a \in Addr
    PROVE  /\ IsFiniteSet(WeiOf(L, a)) /\ Cardinality(WeiOf(L, a)) = L.acct[a].balance
           /\ L.acct[a].balance \in Nat
<1> DEFINE n == L.acct[a].balance
<1>1. n \in Nat
  BY DEF Solid, Ledgers, Account
<1> HIDE DEF n
<1>2. IsFiniteSet(1 .. n) /\ Cardinality(1 .. n) = n
  BY <1>1, FS_Interval
<1>3. IsFiniteSet({a}) /\ Cardinality({a}) = 1
  BY FS_Singleton
<1>4. IsFiniteSet({a} \X (1 .. n)) /\ Cardinality({a} \X (1 .. n)) = 1 * n
  BY <1>2, <1>3, FS_Product
<1> QED
  BY <1>1, <1>4 DEF WeiOf, n

\* There are finitely many wei.
LEMMA SupplyTyped ==
    ASSUME NEW L \in Solid
    PROVE  IsFiniteSet(Wei(L)) /\ Supply(L) \in Nat
<1> DEFINE f == [a \in Addr |-> WeiOf(L, a)]
           T == {f[a] : a \in Addr}
<1>1. f \in Surjection(Addr, T)
  BY DEF Surjection
<1>2. IsFiniteSet(T)
  BY <1>1, FS_Surjection, LedgerAssumption
<1>3. \A t \in T : IsFiniteSet(t)
  BY WeiOfIs
<1>4. Wei(L) = UNION T
  BY DEF Wei, WeiOf
<1> HIDE DEF T
<1>5. IsFiniteSet(Wei(L))
  BY <1>2, <1>3, <1>4, FS_UNION
<1> QED
  BY <1>5, FS_CardinalityType DEF Supply

\* Accounts with the same balances.
LEMMA SupplySame ==
    ASSUME NEW L, NEW M, \A a \in Addr : M.acct[a].balance = L.acct[a].balance
    PROVE  Supply(M) = Supply(L)
<1>1. Wei(M) = Wei(L)
  BY DEF Wei
<1> QED
  BY <1>1 DEF Supply

\* Another balance for one account.
LEMMA SupplyChange ==
    ASSUME NEW L \in Solid, NEW M \in Solid, NEW a \in Addr,
           \A b \in Addr : b # a => M.acct[b].balance = L.acct[b].balance
    PROVE  Supply(M) = Supply(L) - L.acct[a].balance + M.acct[a].balance
<1> DEFINE R(X) == Wei(X) \ WeiOf(X, a)
<1>1. ASSUME NEW X \in Solid
      PROVE  /\ Supply(X) = Cardinality(R(X)) + X.acct[a].balance
             /\ Cardinality(R(X)) \in Nat /\ X.acct[a].balance \in Nat
  <2>1. IsFiniteSet(Wei(X)) /\ Supply(X) \in Nat
    BY SupplyTyped
  <2>2. /\ IsFiniteSet(WeiOf(X, a)) /\ Cardinality(WeiOf(X, a)) = X.acct[a].balance
        /\ X.acct[a].balance \in Nat
    BY WeiOfIs
  <2>3. Wei(X) \cap WeiOf(X, a) = WeiOf(X, a)
    BY DEF Wei, WeiOf
  <2>4. IsFiniteSet(R(X)) /\ Cardinality(R(X)) = Cardinality(Wei(X)) - Cardinality(WeiOf(X, a))
    BY <2>1, <2>3, FS_Difference
  <2>5. Cardinality(R(X)) \in Nat
    BY <2>4, FS_CardinalityType
  <2> QED
    BY <2>1, <2>2, <2>4, <2>5 DEF Supply
<1>2. R(L) = R(M)
  <2>1. ASSUME NEW X
        PROVE  R(X) = UNION {{b} \X (1 .. X.acct[b].balance) : b \in Addr \ {a}}
    BY DEF Wei, WeiOf
  <2>2. \A b \in Addr \ {a} : {b} \X (1 .. L.acct[b].balance) = {b} \X (1 .. M.acct[b].balance)
    OBVIOUS
  <2> QED
    BY <2>1, <2>2
<1> HIDE DEF R
<1>3. /\ Supply(L) = Cardinality(R(L)) + L.acct[a].balance
      /\ Cardinality(R(L)) \in Nat /\ L.acct[a].balance \in Nat
  BY <1>1
<1>4. Supply(M) = Cardinality(R(L)) + M.acct[a].balance /\ M.acct[a].balance \in Nat
  BY <1>1, <1>2
<1> QED
  BY <1>3, <1>4

\* Smaller balances.
LEMMA SupplyLess ==
    ASSUME NEW L \in Solid, NEW M \in Solid,
           \A a \in Addr : M.acct[a].balance <= L.acct[a].balance
    PROVE  Supply(M) <= Supply(L)
<1>1. \A a \in Addr : M.acct[a].balance \in Nat /\ L.acct[a].balance \in Nat
  BY WeiOfIs
<1>2. \A a \in Addr : 1 .. M.acct[a].balance \subseteq 1 .. L.acct[a].balance
  BY <1>1
<1>3. Wei(M) \subseteq Wei(L)
  BY <1>2 DEF Wei
<1>4. IsFiniteSet(Wei(L))
  BY SupplyTyped
<1> QED
  BY <1>3, <1>4, FS_Subset DEF Supply

-----------------------------------------------------------------------------
(* The laws of a transaction.  g has the ledger it started from, its       *)
(* sender, and the most the balances may add up to while it runs.          *)

\* The slots that have been cleared, and that the counter has been credited for.
Cleared(L) ==
    {w \in Addr \X Slot : L.orig[w[1]][w[2]] \notin {Cold, 0} /\ L.slot[w[1]][w[2]] = 0}

Covered(L) ==
    IsFiniteSet(Cleared(L)) /\ L.refund >= REFUND_SCLEAR * Cardinality(Cleared(L))

\* A slot is as it was until it is warm, and then its original value is kept.
OrigRight(L, st) ==
    \A a \in Addr, i \in Slot :
        IF L.orig[a][i] = Cold THEN L.slot[a][i] = st.slot[a][i]
                               ELSE L.orig[a][i] = st.slot[a][i]

SenderRight(L, st, o) ==
    L.acct[o].exists /\ L.acct[o].nonce = st.acct[o].nonce + 1 /\ L.acct[o].code = NoCode

\* Every empty account has been touched.
EmptiesTouched(L, ript) ==
    \A a \in Addr : is_empty(L, a) => IF a = RIP160 THEN ript ELSE a \in L.touched

Lawful(g, ript) ==
    {L \in Solid : /\ L.refund >= 0
                   /\ OrigRight(L, g.start)
                   /\ SenderRight(L, g.start, g.sender)
                   /\ EmptiesTouched(L, ript)
                   /\ Supply(L) <= g.cap}

\* An account, once it has a nonce or code, is never empty again.
Sturdy(L, M) ==
    \A a \in Addr :
        /\ L.acct[a].exists => M.acct[a].exists
        /\ L.acct[a].nonce # 0 => M.acct[a].nonce # 0
        /\ L.acct[a].code # NoCode => M.acct[a].code # NoCode \/ M.acct[a].nonce # 0

\* What a static context must leave alone.
SameView(L, M) == M.acct = L.acct /\ M.slot = L.slot /\ M.logs = L.logs /\ M.tran = L.tran

-----------------------------------------------------------------------------
(* Histories in a set of ledgers.                                          *)

\* t has the journal of s and more, and the rest of it unwinds to the ledger of s
\* through ledgers of Q only.
Within(s, t, Q) ==
    /\ Len(s.journal) <= Len(t.journal)
    /\ \A i \in 1 .. Len(s.journal) : t.journal[i] = s.journal[i]
    /\ \E h \in [Nat -> Q] :
          /\ h[Len(s.journal)] = s.led
          /\ h[Len(t.journal)] = t.led
          /\ Unwinds(h, t.journal, Len(s.journal), Len(t.journal))

\* A larger set will do.
LEMMA WithinMore ==
    ASSUME NEW s, NEW t, NEW P, NEW Q, P \subseteq Q, Within(s, t, P)
    PROVE  Within(s, t, Q)
<1>1. PICK h \in [Nat -> P] :
          /\ h[Len(s.journal)] = s.led
          /\ h[Len(t.journal)] = t.led
          /\ Unwinds(h, t.journal, Len(s.journal), Len(t.journal))
  BY DEF Within
<1>2. h \in [Nat -> Q]
  OBVIOUS
<1> QED
  BY <1>1, <1>2 DEF Within

\* One routine after another.
LEMMA WithinTrans ==
    ASSUME NEW s, NEW t, NEW u, NEW Q, Sound(s), Sound(t), Sound(u),
           Within(s, t, Q), Within(t, u, Q)
    PROVE  Within(s, u, Q)
<1>1. /\ Len(s.journal) \in Nat /\ Len(t.journal) \in Nat /\ Len(u.journal) \in Nat
      /\ Len(s.journal) <= Len(t.journal) /\ Len(t.journal) <= Len(u.journal)
  BY DEF Sound, Kernels, Within
<1>2. PICK e \in [Nat -> Q] :
          /\ e[Len(s.journal)] = s.led
          /\ e[Len(t.journal)] = t.led
          /\ Unwinds(e, t.journal, Len(s.journal), Len(t.journal))
  BY DEF Within
<1>3. PICK h \in [Nat -> Q] :
          /\ h[Len(t.journal)] = t.led
          /\ h[Len(u.journal)] = u.led
          /\ Unwinds(h, u.journal, Len(t.journal), Len(u.journal))
  BY DEF Within
<1> DEFINE f == [n \in Nat |-> IF n <= Len(t.journal) THEN e[n] ELSE h[n]]
<1>4. f \in [Nat -> Q]
  BY <1>2, <1>3
<1>5. f[Len(s.journal)] = s.led /\ f[Len(u.journal)] = u.led
  BY <1>1, <1>2, <1>3
<1>6. \A i \in 1 .. Len(t.journal) : u.journal[i] = t.journal[i]
  BY DEF Within
<1>7. Unwinds(f, u.journal, Len(s.journal), Len(u.journal))
  <2> SUFFICES ASSUME NEW i \in Len(s.journal) + 1 .. Len(u.journal)
               PROVE  /\ CanUndo(u.journal[i], f[i])
                      /\ Undo(u.journal[i], f[i]) = f[i - 1]
    BY DEF Unwinds
  <2>1. CASE i <= Len(t.journal)
    <3>1. u.journal[i] = t.journal[i] /\ f[i] = e[i] /\ f[i - 1] = e[i - 1]
      BY <1>1, <1>6, <2>1
    <3> QED
      BY <1>1, <1>2, <2>1, <3>1 DEF Unwinds
  <2>2. CASE i > Len(t.journal)
    <3>1. f[i] = h[i] /\ f[i - 1] = h[i - 1]
      BY <1>1, <1>2, <1>3, <2>2
    <3> QED
      BY <1>1, <1>3, <2>2, <3>1 DEF Unwinds
  <2> QED
    BY <1>1, <2>1, <2>2
<1>8. \A i \in 1 .. Len(s.journal) : u.journal[i] = s.journal[i]
  BY <1>1, <1>6 DEF Within
<1> HIDE DEF f
<1>9. Len(s.journal) <= Len(u.journal)
  BY <1>1
<1>10. \E d \in [Nat -> Q] :
          /\ d[Len(s.journal)] = s.led
          /\ d[Len(u.journal)] = u.led
          /\ Unwinds(d, u.journal, Len(s.journal), Len(u.journal))
  BY <1>4, <1>5, <1>7
<1> QED
  BY <1>8, <1>9, <1>10, Zenon DEF Within

\* A routine that journals one entry at most passes through no ledger but the first
\* and the last.
LEMMA WithinOne ==
    ASSUME NEW s, NEW t, NEW Q, Sound(s), Follows(s, t),
           Len(t.journal) <= Len(s.journal) + 1, s.led \in Q, t.led \in Q
    PROVE  Within(s, t, Q)
<1>1. /\ Len(s.journal) \in Nat /\ Len(t.journal) \in Nat
      /\ Len(s.journal) <= Len(t.journal)
      /\ \A i \in 1 .. Len(s.journal) : t.journal[i] = s.journal[i]
  BY DEF Sound, Kernels, Follows, Journaled
<1>2. PICK h \in [Nat -> Solid] :
          /\ h[Len(s.journal)] = s.led
          /\ h[Len(t.journal)] = t.led
          /\ Unwinds(h, t.journal, Len(s.journal), Len(t.journal))
  BY DEF Follows, Journaled
<1> DEFINE f == [n \in Nat |-> IF n <= Len(s.journal) THEN s.led ELSE t.led]
<1>3. f \in [Nat -> Q]
  OBVIOUS
<1>4. f[Len(s.journal)] = s.led /\ f[Len(t.journal)] = t.led
  BY <1>1, <1>2
<1>5. Unwinds(f, t.journal, Len(s.journal), Len(t.journal))
  <2> SUFFICES ASSUME NEW i \in Len(s.journal) + 1 .. Len(t.journal)
               PROVE  /\ CanUndo(t.journal[i], f[i])
                      /\ Undo(t.journal[i], f[i]) = f[i - 1]
    BY DEF Unwinds
  <2>1. i = Len(t.journal) /\ i - 1 = Len(s.journal) /\ i \in Nat
    BY <1>1
  <2>2. CanUndo(t.journal[i], h[i]) /\ Undo(t.journal[i], h[i]) = h[i - 1]
    BY <1>2 DEF Unwinds
  <2>3. h[i] = t.led /\ f[i] = t.led /\ h[i - 1] = s.led /\ f[i - 1] = s.led
    BY <1>1, <1>2, <1>4, <2>1
  <2> QED
    BY <2>2, <2>3
<1> HIDE DEF f
<1> QED
  BY <1>1, <1>3, <1>4, <1>5 DEF Within

-----------------------------------------------------------------------------
(* Routines that keep the laws.                                            *)

Bound(L, g, ript, quiet) ==
    {M \in Lawful(g, ript) : Sturdy(L, M) /\ (quiet => SameView(L, M))}

\* t is what a routine makes of s: it keeps the laws at every entry it journals, and if
\* it is quiet also what a static context must leave alone.
Tame(s, t, g, quiet) ==
    /\ Sound(t)
    /\ s.ripemd.touched => t.ripemd.touched
    /\ s.destroyed[g.sender] = 0 => t.destroyed[g.sender] = 0
    /\ Covered(s.led) => Covered(t.led)
    /\ Within(s, t, Bound(s.led, g, t.ripemd.touched, quiet))

Abides(s, g) == Sound(s) /\ s.led \in Lawful(g, s.ripemd.touched)

\* Once RIP160 has been touched more is lawful.
LEMMA LawfulMore ==
    ASSUME NEW g, NEW r1, NEW r2, r1 => r2
    PROVE  Lawful(g, r1) \subseteq Lawful(g, r2)
<1> SUFFICES ASSUME NEW L \in Lawful(g, r1)
             PROVE  EmptiesTouched(L, r2)
  BY DEF Lawful
<1> QED
  BY DEF Lawful, EmptiesTouched

\* The ledger a tame routine leaves.
LEMMA TameIs ==
    ASSUME NEW s, NEW t, NEW g, NEW quiet, Tame(s, t, g, quiet), Sound(s)
    PROVE  /\ Abides(t, g) /\ Sturdy(s.led, t.led) /\ (quiet => SameView(s.led, t.led))
           /\ t.led \in Bound(s.led, g, t.ripemd.touched, quiet)
<1> DEFINE B == Bound(s.led, g, t.ripemd.touched, quiet)
<1>1. PICK h \in [Nat -> B] : h[Len(t.journal)] = t.led
  BY DEF Tame, Within
<1>2. Sound(t) /\ Len(t.journal) \in Nat
  BY DEF Tame, Sound, Kernels
<1>3. t.led \in B
  BY <1>1, <1>2
<1> QED
  BY <1>2, <1>3 DEF Bound, Abides

\* Sturdiness and the view of a static context carry over.
LEMMA SturdyTrans ==
    ASSUME NEW L, NEW M, NEW N, Sturdy(L, M), Sturdy(M, N)
    PROVE  Sturdy(L, N)
BY DEF Sturdy

\* Tame routines compose.
LEMMA TameTrans ==
    ASSUME NEW s, NEW t, NEW u, NEW g, NEW quiet, Sound(s),
           Tame(s, t, g, quiet), Tame(t, u, g, quiet)
    PROVE  Tame(s, u, g, quiet)
<1> DEFINE B == Bound(s.led, g, u.ripemd.touched, quiet)
<1>1. Sound(t) /\ Sound(u) /\ (t.ripemd.touched => u.ripemd.touched)
  BY DEF Tame
<1>2. Sturdy(s.led, t.led) /\ (quiet => SameView(s.led, t.led))
  BY TameIs
<1>3. Bound(s.led, g, t.ripemd.touched, quiet) \subseteq B
  <2>1. Lawful(g, t.ripemd.touched) \subseteq Lawful(g, u.ripemd.touched)
    BY <1>1, LawfulMore
  <2> QED
    BY <2>1 DEF Bound
<1>4. Bound(t.led, g, u.ripemd.touched, quiet) \subseteq B
  <2> SUFFICES ASSUME NEW M \in Bound(t.led, g, u.ripemd.touched, quiet)
               PROVE  Sturdy(s.led, M) /\ (quiet => SameView(s.led, M))
    BY DEF Bound
  <2>1. Sturdy(t.led, M) /\ (quiet => SameView(t.led, M))
    BY DEF Bound
  <2>2. Sturdy(s.led, M)
    BY <1>2, <2>1, SturdyTrans
  <2> QED
    BY <1>2, <2>1, <2>2 DEF SameView
<1> HIDE DEF B
<1>5. Within(s, t, B) /\ Within(t, u, B)
  <2>1. Within(s, t, Bound(s.led, g, t.ripemd.touched, quiet))
    BY DEF Tame
  <2>2. Within(t, u, Bound(t.led, g, u.ripemd.touched, quiet))
    BY DEF Tame
  <2>3. Within(s, t, B)
    BY <1>3, <2>1, WithinMore
  <2>4. Within(t, u, B)
    BY <1>4, <2>2, WithinMore
  <2> QED
    BY <2>3, <2>4
<1>6. Within(s, u, B)
  BY <1>1, <1>5, WithinTrans
<1> QED
  BY <1>6 DEF Tame, B

\* A routine that journals one entry at most is tame if it keeps the laws.
LEMMA TameOne ==
    ASSUME NEW s, NEW t, NEW g, NEW quiet, Abides(s, g), Follows(s, t),
           Len(t.journal) <= Len(s.journal) + 1,
           s.ripemd.touched => t.ripemd.touched,
           s.destroyed[g.sender] = 0 => t.destroyed[g.sender] = 0,
           Covered(s.led) => Covered(t.led),
           t.led \in Lawful(g, t.ripemd.touched),
           Sturdy(s.led, t.led), quiet => SameView(s.led, t.led)
    PROVE  Tame(s, t, g, quiet)
<1> DEFINE B == Bound(s.led, g, t.ripemd.touched, quiet)
<1>1. s.led \in B
  <2>1. s.led \in Lawful(g, t.ripemd.touched)
    BY LawfulMore DEF Abides
  <2>2. Sturdy(s.led, s.led) /\ SameView(s.led, s.led)
    BY DEF Sturdy, SameView
  <2> QED
    BY <2>1, <2>2 DEF Bound
<1>2. t.led \in B
  BY DEF Bound
<1> HIDE DEF B
<1>3. Within(s, t, B)
  BY <1>1, <1>2, WithinOne DEF Abides
<1> QED
  BY <1>3 DEF Tame, Follows, B

\* A routine that does nothing is tame.
LEMMA TameRefl ==
    ASSUME NEW s, NEW g, NEW quiet, Abides(s, g)
    PROVE  Tame(s, s, g, quiet)
<1>1. Follows(s, s) /\ Len(s.journal) \in Nat
  BY FollowsRefl DEF Abides, Sound, Kernels
<1>2. Sturdy(s.led, s.led) /\ SameView(s.led, s.led)
  BY DEF Sturdy, SameView
<1> QED
  BY <1>1, <1>2, TameOne DEF Abides

\* What a quiet routine is asked for is more.
LEMMA TameLoud ==
    ASSUME NEW s, NEW t, NEW g, Tame(s, t, g, TRUE), NEW quiet
    PROVE  Tame(s, t, g, quiet)
<1>1. Bound(s.led, g, t.ripemd.touched, TRUE) \subseteq Bound(s.led, g, t.ripemd.touched, quiet)
  BY DEF Bound
<1>2. Within(s, t, Bound(s.led, g, t.ripemd.touched, TRUE))
  BY DEF Tame
<1>3. Within(s, t, Bound(s.led, g, t.ripemd.touched, quiet))
  BY <1>1, <1>2, WithinMore
<1> QED
  BY <1>3 DEF Tame

-----------------------------------------------------------------------------
(* Changes of the ledger that keep the laws.                               *)

\* Access lists and touches.
LEMMA LawfulLists ==
    ASSUME NEW g, NEW r1, NEW r2, r1 => r2, NEW L \in Lawful(g, r1), NEW M \in Solid,
           M.acct = L.acct, M.slot = L.slot, M.orig = L.orig, M.refund = L.refund,
           L.touched \subseteq M.touched
    PROVE  M \in Lawful(g, r2) /\ Sturdy(L, M) /\ (Covered(L) => Covered(M))
<1>1. OrigRight(M, g.start) /\ SenderRight(M, g.start, g.sender)
  BY DEF Lawful, OrigRight, SenderRight
<1>2. EmptiesTouched(M, r2)
  BY DEF Lawful, EmptiesTouched, is_empty
<1>3. Supply(M) = Supply(L)
  BY SupplySame
<1>4. M \in Lawful(g, r2)
  BY <1>1, <1>2, <1>3 DEF Lawful
<1>5. Sturdy(L, M)
  BY DEF Sturdy
<1>6. Cleared(M) = Cleared(L)
  BY DEF Cleared
<1> QED
  BY <1>4, <1>5, <1>6 DEF Covered

\* Accounts.
LEMMA LawfulAcct ==
    ASSUME NEW g, NEW ript, NEW L \in Lawful(g, ript), NEW M \in Solid,
           M.slot = L.slot, M.orig = L.orig, M.refund = L.refund, M.touched = L.touched,
           SenderRight(M, g.start, g.sender),
           \A a \in Addr : is_empty(M, a) =>
              is_empty(L, a) \/ IF a = RIP160 THEN ript ELSE a \in L.touched,
           Supply(M) <= g.cap
    PROVE  M \in Lawful(g, ript) /\ (Covered(L) => Covered(M))
<1>1. OrigRight(M, g.start)
  BY DEF Lawful, OrigRight
<1>2. EmptiesTouched(M, ript)
  BY DEF Lawful, EmptiesTouched
<1>3. M \in Lawful(g, ript)
  BY <1>1, <1>2 DEF Lawful
<1>4. Cleared(M) = Cleared(L)
  BY DEF Cleared
<1> QED
  BY <1>3, <1>4 DEF Covered

-----------------------------------------------------------------------------
(* The routines, one by one.                                               *)

\* The journal after one entry.
LEMMA RecordIs ==
    ASSUME NEW s, Sound(s), NEW L, NEW e \in Entry
    PROVE  LET t == Record(s, L, e) IN
           /\ t.led = L /\ t.ripemd = s.ripemd /\ t.destroyed = s.destroyed
           /\ t.created = s.created
           /\ t.journal = Append(s.journal, e) /\ Len(t.journal) = Len(s.journal) + 1
           /\ Len(s.journal) \in Nat
<1>1. s.journal \in Seq(Entry) /\ Len(s.journal) \in Nat
  BY DEF Sound, Kernels
<1>2. Len(Append(s.journal, e)) = Len(s.journal) + 1
  BY <1>1
<1> QED
  BY <1>1, <1>2 DEF Record, Sound, Kernels

\* A routine that changes the access lists, the touched addresses or the two facts about
\* RIP160 only.
LEMMA ListsTame ==
    ASSUME NEW s, NEW t, NEW g, NEW quiet, Abides(s, g), Follows(s, t),
           Len(t.journal) <= Len(s.journal) + 1,
           s.ripemd.touched => t.ripemd.touched,
           t.destroyed = s.destroyed,
           t.led.orig = s.led.orig, t.led.refund = s.led.refund,
           SameView(s.led, t.led), s.led.touched \subseteq t.led.touched
    PROVE  Tame(s, t, g, quiet)
<1>1. t.led \in Solid
  BY DEF Follows, Sound
<1>2. /\ t.led \in Lawful(g, t.ripemd.touched) /\ Sturdy(s.led, t.led)
      /\ (Covered(s.led) => Covered(t.led))
  BY <1>1, LawfulLists DEF Abides, SameView
<1> QED
  BY <1>2, TameOne

\* The fields of the ledger that a change of one of the lists leaves alone.
LEMMA LoadedFields ==
    ASSUME NEW s, Sound(s), NEW a \in Addr
    PROVE  LET t == insert_accessed_addresses(s, a) IN
           /\ Len(t.journal) <= Len(s.journal) + 1
           /\ t.ripemd.touched = s.ripemd.touched /\ t.destroyed = s.destroyed
           /\ t.led.orig = s.led.orig /\ t.led.refund = s.led.refund
           /\ SameView(s.led, t.led) /\ t.led.touched = s.led.touched
<1> DEFINE e == AccountLoaded(a)
           u == [s EXCEPT !.ripemd.loaded = TRUE]
           L == [s.led EXCEPT !.loaded = @ \cup {a}]
<1>0. e \in Entry /\ Len(s.journal) \in Nat /\ s.led \in Ledgers
  BY DEF AccountLoaded, Entry, Sound, Kernels
<1>1. CASE insert_accessed_addresses(s, a) = s
  BY <1>0, <1>1 DEF SameView
<1>2. CASE insert_accessed_addresses(s, a) = Record(u, s.led, e)
  <2>1. Sound(u) /\ u.led = s.led /\ u.journal = s.journal /\ u.destroyed = s.destroyed
        /\ u.ripemd.touched = s.ripemd.touched
    BY DEF Sound, Kernels
  <2> HIDE DEF u, e
  <2> QED
    BY <1>0, <1>2, <2>1, RecordIs DEF SameView
<1>3. CASE insert_accessed_addresses(s, a) = Record(s, L, e)
  <2>1. /\ L.acct = s.led.acct /\ L.slot = s.led.slot /\ L.logs = s.led.logs
        /\ L.tran = s.led.tran /\ L.orig = s.led.orig /\ L.refund = s.led.refund
        /\ L.touched = s.led.touched
    BY <1>0 DEF Ledgers
  <2> HIDE DEF L, e
  <2> QED
    BY <1>0, <1>3, <2>1, RecordIs DEF SameView
<1> QED
  BY <1>1, <1>2, <1>3 DEF insert_accessed_addresses

\* insert_accessed_addresses keeps the laws.
LEMMA LoadedTame ==
    ASSUME NEW s, NEW g, Abides(s, g), NEW a \in Addr, NEW quiet
    PROVE  Tame(s, insert_accessed_addresses(s, a), g, quiet)
<1>1. Sound(s)
  BY DEF Abides
<1>2. Follows(s, insert_accessed_addresses(s, a))
  BY <1>1, LoadedFollows
<1> QED
  BY <1>1, <1>2, LoadedFields, ListsTame

\* The same for the touched addresses.
LEMMA TouchedFields ==
    ASSUME NEW s, Sound(s), NEW a \in Addr
    PROVE  LET t == insert_touched_addresses(s, a) IN
           /\ Len(t.journal) <= Len(s.journal) + 1
           /\ (s.ripemd.touched => t.ripemd.touched) /\ t.destroyed = s.destroyed
           /\ t.led.orig = s.led.orig /\ t.led.refund = s.led.refund
           /\ SameView(s.led, t.led) /\ s.led.touched \subseteq t.led.touched
<1> DEFINE e == AccountTouched(a)
           u == [s EXCEPT !.ripemd.touched = TRUE]
           L == [s.led EXCEPT !.touched = @ \cup {a}]
<1>0. e \in Entry /\ Len(s.journal) \in Nat /\ s.led \in Ledgers
  BY DEF AccountTouched, Entry, Sound, Kernels
<1>1. CASE insert_touched_addresses(s, a) = s
  BY <1>0, <1>1 DEF SameView
<1>2. CASE insert_touched_addresses(s, a) = Record(u, s.led, e)
  <2>1. Sound(u) /\ u.led = s.led /\ u.journal = s.journal /\ u.destroyed = s.destroyed
        /\ u.ripemd.touched = TRUE
    BY DEF Sound, Kernels
  <2> HIDE DEF u, e
  <2> QED
    BY <1>0, <1>2, <2>1, RecordIs DEF SameView
<1>3. CASE insert_touched_addresses(s, a) = Record(s, L, e)
  <2>1. /\ L.acct = s.led.acct /\ L.slot = s.led.slot /\ L.logs = s.led.logs
        /\ L.tran = s.led.tran /\ L.orig = s.led.orig /\ L.refund = s.led.refund
        /\ L.touched = s.led.touched \cup {a}
    BY <1>0 DEF Ledgers
  <2> HIDE DEF L, e
  <2> QED
    BY <1>0, <1>3, <2>1, RecordIs DEF SameView
<1> QED
  BY <1>1, <1>2, <1>3 DEF insert_touched_addresses

\* insert_touched_addresses keeps the laws.
LEMMA TouchedTame ==
    ASSUME NEW s, NEW g, Abides(s, g), NEW a \in Addr, NEW quiet
    PROVE  Tame(s, insert_touched_addresses(s, a), g, quiet)
<1>1. Sound(s)
  BY DEF Abides
<1>2. Follows(s, insert_touched_addresses(s, a))
  BY <1>1, TouchedFollows
<1> QED
  BY <1>1, <1>2, TouchedFields, ListsTame

\* insert_accessed_storage_keys keeps the laws: the value it keeps beside the key is the
\* slot's value at the beginning of the transaction, since a cold slot is unchanged.
LEMMA KeyLoadedTame ==
    ASSUME NEW s, NEW g, Abides(s, g), NEW a \in Addr, NEW i \in Slot, NEW quiet
    PROVE  /\ Tame(s, insert_accessed_storage_keys(s, a, i), g, quiet)
           /\ insert_accessed_storage_keys(s, a, i).led.orig[a][i] # Cold
           /\ insert_accessed_storage_keys(s, a, i).led.acct = s.led.acct
<1>0. Sound(s) /\ s.led \in Solid /\ s.led \in Ledgers /\ s.led \in Lawful(g, s.ripemd.touched)
  BY DEF Abides, Sound, Solid
<1>1. CASE s.led.orig[a][i] # Cold
  BY <1>1, TameRefl DEF insert_accessed_storage_keys
<1>2. CASE s.led.orig[a][i] = Cold
  <2> DEFINE e == StorageLoaded(a, i)
             v == s.led.slot[a][i]
             o == PutSlot(s.led.orig, a, i, v)
             L == [s.led EXCEPT !.orig = o]
             t == Record(s, L, e)
  <2>1. insert_accessed_storage_keys(s, a, i) = t
    BY <1>2 DEF insert_accessed_storage_keys, PutSlot
  <2>2. e \in Entry
    BY DEF StorageLoaded, Entry
  <2>3. v \in Val /\ v # Cold /\ s.led.orig \in SlotMap(Val \cup {Cold})
    BY <1>0 DEF Ledgers, SlotMap, Val, Cold
  <2>4. /\ o \in SlotMap(Val \cup {Cold}) /\ o[a][i] = v
        /\ \A b \in Addr : b # a => o[b] = s.led.orig[b]
        /\ \A j \in Slot : j # i => o[a][j] = s.led.orig[a][j]
    <3>1. s.led.orig[a] \in [Slot -> Val \cup {Cold}]
      BY <2>3 DEF SlotMap
    <3>2. o[a] = [s.led.orig[a] EXCEPT ![i] = v]
      BY <2>3 DEF SlotMap, PutSlot
    <3>3. v \in Val \cup {Cold}
      BY <2>3
    <3> HIDE DEF v
    <3>4. o \in SlotMap(Val \cup {Cold}) /\ o[a][i] = v /\ \A b \in Addr : b # a => o[b] = s.led.orig[b]
      BY <2>3, <3>3, PutSlotBack
    <3> QED
      BY <3>1, <3>2, <3>4
  <2> HIDE DEF o, v, e
  <2>5. /\ L.acct = s.led.acct /\ L.slot = s.led.slot /\ L.logs = s.led.logs
        /\ L.tran = s.led.tran /\ L.orig = o /\ L.refund = s.led.refund
        /\ L.touched = s.led.touched
    BY <1>0 DEF Ledgers
  <2> HIDE DEF L
  <2>6. /\ t.led = L /\ t.ripemd = s.ripemd /\ t.destroyed = s.destroyed
        /\ Len(t.journal) = Len(s.journal) + 1 /\ Len(s.journal) \in Nat
    BY <1>0, <2>2, RecordIs
  <2>7. Follows(s, t)
    BY <1>0, <2>1, KeyLoadedFollows
  <2> HIDE DEF t
  <2>8. OrigRight(L, g.start)
    <3> SUFFICES ASSUME NEW b \in Addr, NEW j \in Slot
                 PROVE  IF o[b][j] = Cold THEN s.led.slot[b][j] = g.start.slot[b][j]
                                          ELSE o[b][j] = g.start.slot[b][j]
      BY <2>5 DEF OrigRight
    <3>1. IF s.led.orig[b][j] = Cold THEN s.led.slot[b][j] = g.start.slot[b][j]
                                     ELSE s.led.orig[b][j] = g.start.slot[b][j]
      BY <1>0 DEF Lawful, OrigRight
    <3> QED
      BY <1>2, <2>3, <2>4, <3>1 DEF v
  <2>9. L \in Lawful(g, s.ripemd.touched)
    <3>1. L \in Solid
      BY <2>6, <2>7 DEF Follows, Sound
    <3>2. SenderRight(L, g.start, g.sender) /\ EmptiesTouched(L, s.ripemd.touched)
      BY <1>0, <2>5 DEF Lawful, SenderRight, EmptiesTouched, is_empty
    <3>3. Supply(L) = Supply(s.led)
      BY <2>5, SupplySame
    <3> QED
      BY <1>0, <2>5, <2>8, <3>1, <3>2, <3>3 DEF Lawful
  <2>10. Cleared(L) = Cleared(s.led)
    <3>1. ASSUME NEW b \in Addr, NEW j \in Slot
          PROVE  (o[b][j] \notin {Cold, 0} /\ s.led.slot[b][j] = 0)
                   <=> (s.led.orig[b][j] \notin {Cold, 0} /\ s.led.slot[b][j] = 0)
      BY <1>2, <2>3, <2>4 DEF v
    <3>2. \A w \in Addr \X Slot : w[1] \in Addr /\ w[2] \in Slot
      OBVIOUS
    <3> QED
      BY <2>5, <3>1, <3>2 DEF Cleared
  <2>11. Covered(s.led) => Covered(L)
    BY <2>5, <2>10 DEF Covered
  <2>12. Sturdy(s.led, L) /\ SameView(s.led, L)
    BY <2>5 DEF Sturdy, SameView
  <2>13. Tame(s, t, g, quiet)
    BY <2>6, <2>7, <2>9, <2>11, <2>12, TameOne
  <2> QED
    BY <2>1, <2>3, <2>4, <2>5, <2>6, <2>13
<1> QED
  BY <1>1, <1>2

\* A new state of an account that is not the sender's and keeps its balance.
LEMMA PutAcctTame ==
    ASSUME NEW s, NEW g, Abides(s, g), g.sender \in Addr, NEW a \in Addr, NEW r \in Account,
           NEW quiet, ~quiet, NEW e \in Entry, Follows(s, Record(s, PutAcct(s.led, a, r), e)),
           r.exists, r.balance = s.led.acct[a].balance,
           a = g.sender => r.nonce = s.led.acct[a].nonce /\ r.code = s.led.acct[a].code,
           s.led.acct[a].nonce # 0 => r.nonce # 0,
           s.led.acct[a].code # NoCode => r.code # NoCode \/ r.nonce # 0,
           r.nonce = 0 /\ r.code = NoCode => IsTouched(s, a)
    PROVE  Tame(s, Record(s, PutAcct(s.led, a, r), e), g, quiet)
<1> DEFINE L == PutAcct(s.led, a, r)
           t == Record(s, L, e)
<1>1. Sound(s) /\ s.led \in Solid /\ s.led \in Ledgers /\ s.led \in Lawful(g, s.ripemd.touched)
  BY DEF Abides, Sound, Solid
<1>2. s.led.acct[a].balance >= 0
  BY <1>1 DEF Solid
<1>3. /\ L \in Solid /\ L.acct[a] = r
      /\ \A b \in Addr : b # a => L.acct[b] = s.led.acct[b]
  BY <1>1, <1>2, PutAcctSolid
<1>4. /\ L.slot = s.led.slot /\ L.orig = s.led.orig /\ L.refund = s.led.refund
      /\ L.touched = s.led.touched
  BY <1>1 DEF PutAcct, Ledgers
<1> HIDE DEF L
<1>5. SenderRight(L, g.start, g.sender)
  BY <1>1, <1>3 DEF Lawful, SenderRight
<1>6. Supply(L) = Supply(s.led)
  <2>1. \A b \in Addr : L.acct[b].balance = s.led.acct[b].balance
    BY <1>3
  <2> QED
    BY <2>1, SupplySame
<1>7. ASSUME NEW b \in Addr, is_empty(L, b)
      PROVE  is_empty(s.led, b) \/ IF b = RIP160 THEN s.ripemd.touched ELSE b \in s.led.touched
  BY <1>3, <1>7 DEF is_empty, IsTouched
<1>8. L \in Lawful(g, s.ripemd.touched) /\ (Covered(s.led) => Covered(L))
  <2>1. Supply(L) <= g.cap
    BY <1>1, <1>6 DEF Lawful
  <2> QED
    BY <1>1, <1>3, <1>4, <1>5, <1>7, <2>1, LawfulAcct
<1>9. Sturdy(s.led, L)
  BY <1>3 DEF Sturdy
<1>10. /\ t.led = L /\ t.ripemd = s.ripemd /\ t.destroyed = s.destroyed
       /\ Len(t.journal) = Len(s.journal) + 1 /\ Len(s.journal) \in Nat
  BY <1>1, RecordIs
<1>11. Follows(s, t)
  BY DEF L
<1> HIDE DEF t
<1>12. Tame(s, t, g, quiet)
  BY <1>8, <1>9, <1>10, <1>11, TameOne
<1> QED
  BY <1>12 DEF t, L

WithNonce(s, a, n) ==
    Record(s, [s.led EXCEPT !.acct[a].nonce = n], NonceChange(a, s.led.acct[a].nonce))

\* The nonce of an account other than the sender's grows.
LEMMA NonceTame ==
    ASSUME NEW s, NEW g, Abides(s, g), g.sender \in Addr, NEW a \in Addr, a # g.sender,
           s.led.acct[a].exists, NEW n, n \in Nat \ {0}, NEW quiet, ~quiet
    PROVE  LET t == WithNonce(s, a, n)
           IN  /\ Tame(s, t, g, quiet) /\ t.led.acct[a].nonce # 0
               /\ t.led.acct[a].exists /\ t.led.acct[a].balance = s.led.acct[a].balance
               /\ \A b \in Addr : b # a => t.led.acct[b] = s.led.acct[b]
               /\ t.led.touched = s.led.touched /\ t.ripemd = s.ripemd
<1> DEFINE c == s.led.acct[a]
           r == [c EXCEPT !.nonce = n]
           e == NonceChange(a, c.nonce)
           L == PutAcct(s.led, a, r)
<1>1. Sound(s) /\ s.led \in Solid /\ s.led \in Ledgers /\ c \in Account /\ c.balance >= 0
  BY DEF Abides, Sound, Solid, Ledgers
<1>2. [s.led EXCEPT !.acct[a].nonce = n] = L
  BY DEF PutAcct
<1>3. Follows(s, Record(s, L, e))
  BY <1>1, <1>2, NonceFollows
<1>4. r \in Account /\ r.exists /\ r.nonce = n /\ r.balance = c.balance /\ r.code = c.code
  BY <1>1 DEF Account
<1>5. e \in Entry
  BY <1>1 DEF NonceChange, Entry, Account
<1> HIDE DEF r
<1>6. L.acct[a] = r /\ L.touched = s.led.touched /\ \A b \in Addr : b # a => L.acct[b] = s.led.acct[b]
  BY <1>1 DEF PutAcct, Ledgers
<1> HIDE DEF e, L
<1>7. Tame(s, Record(s, L, e), g, quiet)
  BY <1>1, <1>3, <1>4, <1>5, PutAcctTame DEF L
<1> DEFINE t == Record(s, L, e)
<1>8. t.led = L /\ t.ripemd = s.ripemd
  BY <1>1, <1>5, RecordIs
<1>9. WithNonce(s, a, n) = t
  BY <1>2 DEF e, WithNonce
<1> HIDE DEF t
<1>10. /\ Tame(s, t, g, quiet) /\ t.led.acct[a].nonce # 0
       /\ t.led.acct[a].exists /\ t.led.acct[a].balance = s.led.acct[a].balance
       /\ \A b \in Addr : b # a => t.led.acct[b] = s.led.acct[b]
       /\ t.led.touched = s.led.touched /\ t.ripemd = s.ripemd
  BY <1>4, <1>6, <1>7, <1>8 DEF t
<1> QED
  BY <1>9, <1>10

\* AddAccount keeps the laws once the address has been touched.
LEMMA AddAccountTame ==
    ASSUME NEW s, NEW g, Abides(s, g), g.sender \in Addr, NEW a \in Addr, NEW c \in BOOLEAN,
           IsTouched(s, a), NEW quiet, ~quiet
    PROVE  Tame(s, AddAccount(s, a, c), g, quiet)
<1>1. Sound(s) /\ s.led \in Solid /\ s.led \in Ledgers
  BY DEF Abides, Sound, Solid
<1>2. CASE s.led.acct[a].exists
  BY <1>2, TameRefl DEF AddAccount
<1>3. CASE ~s.led.acct[a].exists
  <2> DEFINE r == NewAccount(0)
             e == AccountCreated(c, a)
             L == PutAcct(s.led, a, r)
  <2>1. AddAccount(s, a, c) = Record(s, L, e)
    BY <1>3 DEF AddAccount, PutAcct
  <2>2. Follows(s, Record(s, L, e))
    BY <1>1, <2>1, AddAccountFollows
  <2>3. r \in Account /\ r.exists /\ r.nonce = 0 /\ r.balance = 0 /\ r.code = NoCode
    BY DEF NewAccount, Account, Codes, NoCode
  <2>4. s.led.acct[a] = NoAccount
    BY <1>1, <1>3 DEF Solid
  <2>5. s.led.acct[a].balance = 0 /\ s.led.acct[a].nonce = 0 /\ s.led.acct[a].code = NoCode
    BY <2>4 DEF NoAccount
  <2>6. a # g.sender
    BY <1>3 DEF Abides, Lawful, SenderRight
  <2>7. e \in Entry
    BY DEF AccountCreated, Entry
  <2> HIDE DEF e, r
  <2>8. Tame(s, Record(s, L, e), g, quiet)
    BY <2>2, <2>3, <2>5, <2>6, <2>7, PutAcctTame
  <2> QED
    BY <2>1, <2>8
<1> QED
  BY <1>2, <1>3

\* add_eth up to the addition keeps the laws, and is quiet if nothing is to be added.
LEMMA PrepareCreditTame ==
    ASSUME NEW s, NEW g, Abides(s, g), g.sender \in Addr, NEW a \in Addr, NEW v,
           NEW quiet, quiet => v = 0
    PROVE  /\ Tame(s, PrepareCredit(s, a, v), g, quiet)
           /\ PrepareCredit(s, a, v).destroyed = s.destroyed
<1> DEFINE t == insert_touched_addresses(s, a)
<1>1. Sound(s)
  BY DEF Abides
<1>2. Tame(s, t, g, quiet) /\ t.destroyed = s.destroyed
  BY <1>1, TouchedTame, TouchedFields
<1>3. Abides(t, g) /\ IsTouched(t, a)
  BY <1>1, <1>2, TameIs, TouchedIs
<1> HIDE DEF t
<1>4. CASE v = 0
  BY <1>2, <1>4 DEF PrepareCredit, t
<1>5. CASE v # 0
  <2> DEFINE u == AddAccount(t, a, FALSE)
  <2>1. PrepareCredit(s, a, v) = u
    BY <1>5 DEF PrepareCredit, t
  <2>2. Tame(t, u, g, quiet)
    BY <1>3, <1>5, AddAccountTame
  <2>3. u.destroyed = t.destroyed
    BY <1>3 DEF AddAccount, Record, Abides, Sound, Kernels
  <2> HIDE DEF u
  <2>4. Tame(s, u, g, quiet)
    BY <1>1, <1>2, <2>2, TameTrans
  <2> QED
    BY <1>2, <1>5, <2>1, <2>3, <2>4
<1> QED
  BY <1>4, <1>5

\* What moving ether changes.
LEMMA MoveFields ==
    ASSUME NEW L \in Solid, NEW from \in Addr, NEW to \in Addr, NEW v \in Nat,
           L.acct[from].exists, L.acct[to].exists, L.acct[from].balance >= v
    PROVE  LET M == MoveEth(L, from, to, v) IN
           /\ M \in Solid
           /\ M.slot = L.slot /\ M.orig = L.orig /\ M.refund = L.refund /\ M.touched = L.touched
           /\ \A a \in Addr : /\ M.acct[a].exists = L.acct[a].exists
                              /\ M.acct[a].nonce = L.acct[a].nonce
                              /\ M.acct[a].code = L.acct[a].code
                              /\ a \notin {from, to} => M.acct[a] = L.acct[a]
           /\ M.acct[to].balance >= v
           /\ Supply(M) = Supply(L)
<1> DEFINE M == MoveEth(L, from, to, v)
           f == Shifted(L.acct, from, to, v)
<1>1. M \in Solid /\ M.acct[to].balance >= v
  BY MoveSolid
<1>2. L \in Ledgers /\ v \in Int
  BY DEF Solid
<1>3. M = [L EXCEPT !.acct = f]
  BY <1>2, MoveIs
<1>4. /\ M.slot = L.slot /\ M.orig = L.orig /\ M.refund = L.refund /\ M.touched = L.touched
      /\ M.acct = f
  <2> HIDE DEF M, f
  <2> QED
    BY <1>2, <1>3 DEF Ledgers
<1>5. ASSUME NEW a \in Addr
      PROVE  /\ f[a].exists = L.acct[a].exists
             /\ f[a].nonce = L.acct[a].nonce /\ f[a].code = L.acct[a].code
             /\ f[a].balance = L.acct[a].balance - (IF a = from THEN v ELSE 0)
                                                 + (IF a = to THEN v ELSE 0)
             /\ L.acct[a].balance \in Nat
             /\ a \notin {from, to} => f[a] = L.acct[a]
  <2>1. L.acct[a] \in Account /\ L.acct[a].balance >= 0
    BY <1>2 DEF Ledgers, Solid
  <2>2. f[a] = [L.acct[a] EXCEPT !.balance = @ - (IF a = from THEN v ELSE 0)
                                               + (IF a = to THEN v ELSE 0)]
    BY DEF Shifted
  <2> DEFINE n == L.acct[a].balance - (IF a = from THEN v ELSE 0) + (IF a = to THEN v ELSE 0)
  <2>3. f[a] = [L.acct[a] EXCEPT !.balance = n] /\ n \in Int
    BY <2>1, <2>2 DEF Account
  <2>4. a \notin {from, to} => n = L.acct[a].balance
    BY <2>1 DEF Account
  <2>5. L.acct[a].balance \in Nat
    BY <2>1 DEF Account
  <2> HIDE DEF n, f
  <2>6. /\ f[a].exists = L.acct[a].exists /\ f[a].nonce = L.acct[a].nonce
        /\ f[a].code = L.acct[a].code /\ f[a].balance = n
        /\ n = L.acct[a].balance => f[a] = L.acct[a]
    BY <2>1, <2>3 DEF Account
  <2> QED
    BY <2>4, <2>5, <2>6 DEF n
<1> HIDE DEF M, f
<1>6. Supply(M) = Supply(L)
  <2>1. CASE from = to
    <3>1. \A a \in Addr : M.acct[a].balance = L.acct[a].balance
      BY <1>4, <1>5, <2>1
    <3> QED
      BY <3>1, SupplySame
  <2>2. CASE from # to
    <3> DEFINE n == L.acct[from].balance - v
               N == PutBalance(L, from, n)
    <3>1. n \in Nat /\ L.acct[from].balance \in Nat /\ n = L.acct[from].balance - v
      BY <1>5
    <3> HIDE DEF n
    <3>2. N \in Solid /\ N.acct[from].balance = n /\ \A b \in Addr : b # from => N.acct[b] = L.acct[b]
      <4>1. n \in Nat
        BY <3>1
      <4> QED
        BY <4>1, BalanceSolid
    <3> HIDE DEF N
    <3>3. Supply(N) = Supply(L) - L.acct[from].balance + n
      <4>1. \A b \in Addr : b # from => N.acct[b].balance = L.acct[b].balance
        BY <3>2
      <4>2. Supply(N) = Supply(L) - L.acct[from].balance + N.acct[from].balance
        BY <3>2, <4>1, SupplyChange
      <4> QED
        BY <3>2, <4>2
    <3>4. \A b \in Addr : b # to => M.acct[b].balance = N.acct[b].balance
      BY <1>4, <1>5, <2>2, <3>1, <3>2
    <3>5. Supply(M) = Supply(N) - N.acct[to].balance + M.acct[to].balance
      BY <1>1, <3>2, <3>4, SupplyChange
    <3>6. N.acct[to].balance = L.acct[to].balance /\ M.acct[to].balance = L.acct[to].balance + v
          /\ L.acct[to].balance \in Nat
      BY <1>4, <1>5, <2>2, <3>2
    <3>7. Supply(L) \in Nat /\ Supply(N) \in Nat /\ Supply(M) \in Nat
      BY <1>1, <3>2, SupplyTyped
    <3> QED
      BY <3>1, <3>3, <3>5, <3>6, <3>7
  <2> QED
    BY <2>1, <2>2
<1>7. \A a \in Addr : /\ M.acct[a].exists = L.acct[a].exists
                      /\ M.acct[a].nonce = L.acct[a].nonce
                      /\ M.acct[a].code = L.acct[a].code
                      /\ a \notin {from, to} => M.acct[a] = L.acct[a]
  BY <1>4, <1>5
<1> QED
  BY <1>1, <1>4, <1>6, <1>7 DEF M

\* The move of a transfer keeps the laws once both ends have been touched.
LEMMA MoveTame ==
    ASSUME NEW s, NEW g, Abides(s, g), g.sender \in Addr, NEW from \in Addr, NEW to \in Addr,
           NEW v \in Nat, s.led.acct[from].exists, s.led.acct[to].exists,
           s.led.acct[from].balance >= v, IsTouched(s, from), IsTouched(s, to),
           NEW quiet, ~quiet
    PROVE  LET t == Record(s, MoveEth(s.led, from, to, v), BalanceTransfer(from, to, v))
           IN  Tame(s, t, g, quiet) /\ t.created = s.created
<1> DEFINE L == MoveEth(s.led, from, to, v)
           e == BalanceTransfer(from, to, v)
           t == Record(s, L, e)
<1>1. Sound(s) /\ s.led \in Solid /\ s.led \in Lawful(g, s.ripemd.touched)
  BY DEF Abides, Sound, Solid
<1>2. Follows(s, t)
  BY <1>1, MoveFollows
<1>3. e \in Entry
  BY DEF BalanceTransfer, Entry
<1>4. /\ L \in Solid
      /\ L.slot = s.led.slot /\ L.orig = s.led.orig /\ L.refund = s.led.refund
      /\ L.touched = s.led.touched
      /\ \A a \in Addr : /\ L.acct[a].exists = s.led.acct[a].exists
                         /\ L.acct[a].nonce = s.led.acct[a].nonce
                         /\ L.acct[a].code = s.led.acct[a].code
                         /\ a \notin {from, to} => L.acct[a] = s.led.acct[a]
      /\ Supply(L) = Supply(s.led)
  BY <1>1, MoveFields
<1> HIDE DEF L, e
<1>5. SenderRight(L, g.start, g.sender)
  BY <1>1, <1>4 DEF Lawful, SenderRight
<1>6. ASSUME NEW b \in Addr, is_empty(L, b)
      PROVE  is_empty(s.led, b) \/ IF b = RIP160 THEN s.ripemd.touched ELSE b \in s.led.touched
  BY <1>4, <1>6 DEF is_empty, IsTouched
<1>7. L \in Lawful(g, s.ripemd.touched) /\ (Covered(s.led) => Covered(L))
  <2>1. Supply(L) <= g.cap
    BY <1>1, <1>4 DEF Lawful
  <2> QED
    BY <1>1, <1>4, <1>5, <1>6, <2>1, LawfulAcct
<1>8. Sturdy(s.led, L)
  BY <1>4 DEF Sturdy
<1>9. /\ t.led = L /\ t.ripemd = s.ripemd /\ t.destroyed = s.destroyed /\ t.created = s.created
      /\ Len(t.journal) = Len(s.journal) + 1 /\ Len(s.journal) \in Nat
  BY <1>1, <1>3, RecordIs
<1> HIDE DEF t
<1>10. Tame(s, t, g, quiet)
  BY <1>2, <1>7, <1>8, <1>9, TameOne
<1> QED
  BY <1>9, <1>10 DEF t, L, e

\* A transfer and its entry keep the laws, and are quiet if nothing is transferred.
LEMMA TransferTame ==
    ASSUME NEW s, NEW g, Abides(s, g), g.sender \in Addr, NEW from \in Addr, NEW to \in Addr,
           NEW v \in Nat, s.led.acct[from].exists, s.led.acct[from].balance >= v,
           NEW quiet, quiet => v = 0
    PROVE  /\ Tame(s, TransferAndJournal(s, from, to, v), g, quiet)
           /\ IsTouched(TransferAndJournal(s, from, to, v), to)
<1> DEFINE w == insert_touched_addresses(s, from)
           t == PrepareCredit(w, to, v)
           u == Record(t, MoveEth(t.led, from, to, v), BalanceTransfer(from, to, v))
<1>0. Sound(s)
  BY DEF Abides
<1>1. Tame(s, w, g, quiet) /\ w.led.acct = s.led.acct /\ IsTouched(w, from)
  BY <1>0, TouchedTame, TouchedIs
<1>2. Abides(w, g) /\ Sound(w)
  BY <1>0, <1>1, TameIs DEF Abides
<1> HIDE DEF w
<1>3. /\ Tame(w, t, g, quiet)
      /\ v # 0 => t.led.acct[to].exists
      /\ \A b \in Addr : w.led.acct[b].exists => t.led.acct[b] = w.led.acct[b]
      /\ IsTouched(t, from) /\ IsTouched(t, to)
  BY <1>1, <1>2, PrepareCreditFollows, PrepareCreditTame
<1>4. Tame(s, t, g, quiet) /\ Abides(t, g) /\ Sound(t)
  BY <1>0, <1>1, <1>2, <1>3, TameTrans, TameIs DEF Abides
<1> HIDE DEF t
<1>5. CASE v = 0
  BY <1>3, <1>4, <1>5 DEF TransferAndJournal, t, w
<1>6. CASE v # 0
  <2>1. t.led.acct[from].exists /\ t.led.acct[to].exists /\ t.led.acct[from].balance >= v
    BY <1>1, <1>3, <1>6
  <2>2. Tame(t, u, g, quiet)
    BY <1>3, <1>4, <1>6, <2>1, MoveTame
  <2>3. TransferAndJournal(s, from, to, v) = u
    BY <1>6 DEF TransferAndJournal, t, w, u
  <2>4. IsTouched(u, to)
    <3>1. BalanceTransfer(from, to, v) \in Entry
      BY DEF BalanceTransfer, Entry
    <3>2. u.led = MoveEth(t.led, from, to, v) /\ u.ripemd = t.ripemd
      BY <1>4, <3>1, RecordIs
    <3>3. u.led.touched = t.led.touched
      BY <1>4, <2>1, <3>2, MoveSolid DEF Sound
    <3> QED
      BY <1>3, <3>2, <3>3 DEF IsTouched
  <2> HIDE DEF u
  <2> QED
    BY <1>0, <1>4, <2>2, <2>3, <2>4, TameTrans
<1> QED
  BY <1>5, <1>6

\* Only the created contracts may differ.
LEMMA TameCreated ==
    ASSUME NEW s, NEW t, NEW u, NEW g, NEW quiet, Tame(s, t, g, quiet), Sound(u),
           u.led = t.led, u.journal = t.journal, u.ripemd = t.ripemd, u.destroyed = t.destroyed
    PROVE  Tame(s, u, g, quiet)
<1>1. Within(s, t, Bound(s.led, g, t.ripemd.touched, quiet))
  BY DEF Tame
<1>2. Within(s, u, Bound(s.led, g, t.ripemd.touched, quiet))
  BY <1>1 DEF Within
<1> QED
  BY <1>2 DEF Tame

\* create_contract_account up to its collision test keeps the laws.
LEMMA AppendCreatedTame ==
    ASSUME NEW s, NEW g, Abides(s, g), NEW a \in Addr, NEW quiet
    PROVE  Tame(s, AppendCreated(s, a), g, quiet) /\ IsTouched(AppendCreated(s, a), a)
<1> DEFINE t == insert_touched_addresses(s, a)
           u == [t EXCEPT !.created = Append(@, a)]
<1>1. Sound(s)
  BY DEF Abides
<1>2. Tame(s, t, g, quiet) /\ IsTouched(t, a)
  BY <1>1, TouchedTame, TouchedIs
<1>3. Sound(t)
  BY <1>2 DEF Tame
<1> HIDE DEF t
<1>4. Append(t.created, a) \in Seq(Addr)
  BY <1>3 DEF Sound, Kernels
<1>5. /\ Sound(u) /\ u.led = t.led /\ u.journal = t.journal /\ u.ripemd = t.ripemd
      /\ u.destroyed = t.destroyed
  BY <1>3, <1>4 DEF Sound, Kernels
<1>6. AppendCreated(s, a) = u
  BY DEF AppendCreated, t
<1> HIDE DEF u
<1> QED
  BY <1>2, <1>5, <1>6, TameCreated DEF IsTouched

\* increment_nonce, of a contract, keeps the laws.
LEMMA IncrementNonceTame ==
    ASSUME NEW s, NEW g, Abides(s, g), g.sender \in Addr, NEW a \in Addr, a # g.sender,
           s.led.acct[a].exists, NEW quiet, ~quiet
    PROVE  /\ Tame(s, increment_nonce(s, a), g, quiet)
           /\ increment_nonce(s, a).led.acct[a].exists
           /\ increment_nonce(s, a).led.acct[a].balance = s.led.acct[a].balance
<1> DEFINE m == s.led.acct[a].nonce
           n == m + 1
<1>1. n \in Nat /\ n # 0
  <2>1. m \in Nat
    BY DEF Abides, Sound, Solid, Ledgers, Account
  <2> QED
    BY <2>1
<1> DEFINE t == WithNonce(s, a, n)
<1>2. increment_nonce(s, a) = t
  BY DEF increment_nonce, WithNonce
<1> HIDE DEF n
<1>3. /\ Tame(s, t, g, quiet)
      /\ t.led.acct[a].exists /\ t.led.acct[a].balance = s.led.acct[a].balance
  <2>1. n \in Nat \ {0}
    BY <1>1
  <2> QED
    BY <2>1, NonceTame
<1> HIDE DEF t
<1> QED
  BY <1>2, <1>3

\* The sender of a transaction has a nonce while it runs.
LEMMA SenderFirm ==
    ASSUME NEW g, g.sender \in Addr, g.start \in Solid, NEW r, NEW L \in Lawful(g, r)
    PROVE  L.acct[g.sender].exists /\ L.acct[g.sender].nonce # 0
<1>1. g.start.acct[g.sender].nonce \in Nat
  BY DEF Solid, Ledgers, Account
<1> QED
  BY <1>1 DEF Lawful, SenderRight

\* create_contract_account after its test keeps the laws; the contract has a nonce.
LEMMA InsertContractTame ==
    ASSUME NEW s, NEW g, Abides(s, g), g.sender \in Addr, g.start \in Solid, NEW a \in Addr,
           ~Collides(s, a), IsTouched(s, a), NEW quiet, ~quiet
    PROVE  /\ Tame(s, InsertContract(s, a), g, quiet) /\ a # g.sender
           /\ InsertContract(s, a).led.acct[a].nonce # 0
<1> DEFINE c == TRUE
           n == 1
           t == AddAccount(s, a, c)
           u == WithNonce(t, a, n)
<1>0. Sound(s) /\ c \in BOOLEAN /\ n \in Nat /\ n # 0
  BY DEF Abides
<1>1. a # g.sender
  BY SenderFirm DEF Abides, Collides
<1> HIDE DEF c
<1>2. /\ Tame(s, t, g, quiet) /\ t.led.acct[a].exists
      /\ \A b \in Addr : s.led.acct[b].exists => t.led.acct[b] = s.led.acct[b]
      /\ ~s.led.acct[a].exists => t.led.acct[a] = NewAccount(0)
  BY <1>0, AddAccountFollows, AddAccountTame
<1>3. Abides(t, g)
  BY <1>0, <1>2, TameIs
<1> HIDE DEF t
<1>4. t.led.acct[a].nonce = 0
  BY <1>2 DEF Collides, NewAccount
<1>5. InsertContract(s, a) = u
  BY <1>4 DEF InsertContract, WithNonce, t, c
<1> HIDE DEF n
<1>6. Tame(t, u, g, quiet) /\ u.led.acct[a].nonce # 0
  <2>1. t.led.acct[a].exists
    BY <1>2
  <2>2. n \in Nat \ {0}
    BY <1>0
  <2> HIDE DEF u
  <2>3. u = WithNonce(t, a, n)
    BY DEF u
  <2>4. Tame(t, u, g, quiet)
    BY <1>1, <1>3, <2>1, <2>2, <2>3, NonceTame
  <2>5. u.led.acct[a].nonce # 0
    BY <1>1, <1>3, <2>1, <2>2, <2>3, <2>4, NonceTame
  <2> QED
    BY <2>4, <2>5
<1> HIDE DEF u
<1>7. Tame(s, u, g, quiet)
  BY <1>0, <1>2, <1>6, TameTrans
<1> QED
  BY <1>0, <1>1, <1>5, <1>6, <1>7

\* set_codehash keeps the laws, of an account that has a nonce and is not the sender's.
LEMMA SetCodehashTame ==
    ASSUME NEW s, NEW g, Abides(s, g), g.sender \in Addr, NEW a \in Addr, NEW c \in Codes,
           s.led.acct[a].exists, s.led.acct[a].nonce # 0, a # g.sender, NEW quiet, ~quiet
    PROVE  Tame(s, set_codehash(s, a, c), g, quiet)
<1> DEFINE t == insert_touched_addresses(s, a)
           q == t.led.acct[a]
           r == [q EXCEPT !.code = c]
           L == PutAcct(t.led, a, r)
           e == CodeChange(a, q.code)
<1>0. Sound(s)
  BY DEF Abides
<1>1. Tame(s, t, g, quiet) /\ t.led.acct = s.led.acct
  BY <1>0, TouchedTame, TouchedIs
<1>2. Abides(t, g) /\ Sound(t) /\ t.led \in Ledgers
  BY <1>0, <1>1, TameIs DEF Abides, Sound, Solid
<1> HIDE DEF t
<1>3. q \in Account /\ q.exists /\ q.nonce # 0
  BY <1>1, <1>2 DEF Ledgers
<1>4. [t.led EXCEPT !.acct[a].code = c] = L
  BY DEF PutAcct
<1>5. Follows(t, Record(t, L, e))
  BY <1>2, <1>3, <1>4, CodeFollows
<1>6. r \in Account /\ r.exists /\ r.nonce = q.nonce /\ r.balance = q.balance
  BY <1>3 DEF Account
<1>7. e \in Entry
  BY <1>3 DEF CodeChange, Entry, Account
<1>8. set_codehash(s, a, c) = Record(t, L, e)
  BY <1>4 DEF set_codehash, t
<1> HIDE DEF e, r
<1>9. Tame(t, Record(t, L, e), g, quiet)
  <2>1. /\ r.balance = t.led.acct[a].balance
        /\ r.nonce = t.led.acct[a].nonce /\ r.nonce # 0
    BY <1>3, <1>6
  <2> HIDE DEF q
  <2> QED
    BY <1>2, <1>5, <1>6, <1>7, <2>1, PutAcctTame
<1> HIDE DEF L
<1> QED
  BY <1>0, <1>1, <1>8, <1>9, TameTrans

\* transfer_eth of an account to itself, as CALLCODE makes, is a touch.
LEMMA SelfTransferTame ==
    ASSUME NEW s, NEW g, Abides(s, g), NEW a \in Addr, NEW v \in Nat,
           s.led.acct[a].exists, s.led.acct[a].balance >= v, NEW quiet
    PROVE  Tame(s, transfer_eth(s, a, a, v), g, quiet)
<1>1. transfer_eth(s, a, a, v) = insert_touched_addresses(s, a)
  BY SelfTransferFollows DEF Abides
<1> QED
  BY <1>1, TouchedTame

\* A log keeps the laws.
LEMMA LogTame ==
    ASSUME NEW s, NEW g, Abides(s, g), NEW n \in Nat, NEW quiet, ~quiet
    PROVE  Tame(s, log_n(s, n), g, quiet)
<1> DEFINE L == [s.led EXCEPT !.logs = [len |-> @.len + 1, size |-> @.size + n]]
           e == Log(s.led.logs.size)
           t == Record(s, L, e)
<1>1. Sound(s) /\ s.led \in Ledgers
  BY DEF Abides, Sound, Solid
<1>2. Follows(s, t) /\ log_n(s, n) = t
  BY <1>1, LogFollows DEF log_n
<1>3. e \in Entry
  BY <1>1 DEF Log, Entry, Ledgers
<1>4. /\ L.acct = s.led.acct /\ L.slot = s.led.slot /\ L.orig = s.led.orig
      /\ L.refund = s.led.refund /\ L.touched = s.led.touched
  BY <1>1 DEF Ledgers
<1> HIDE DEF L, e
<1>5. /\ t.led = L /\ t.ripemd = s.ripemd /\ t.destroyed = s.destroyed
      /\ Len(t.journal) = Len(s.journal) + 1 /\ Len(s.journal) \in Nat
  BY <1>1, <1>3, RecordIs
<1> HIDE DEF t
<1>6. L \in Solid
  BY <1>2, <1>5 DEF Follows, Sound
<1>7. L \in Lawful(g, s.ripemd.touched) /\ Sturdy(s.led, L) /\ (Covered(s.led) => Covered(L))
  BY <1>4, <1>6, LawfulLists DEF Abides
<1> QED
  BY <1>2, <1>5, <1>7, TameOne

\* A write of transient storage keeps the laws.
LEMMA TStoreTame ==
    ASSUME NEW s, NEW g, Abides(s, g), NEW a \in Addr, NEW i \in Slot, NEW v \in Val,
           NEW quiet, ~quiet
    PROVE  Tame(s, TStore(s, a, i, v), g, quiet)
<1> DEFINE L == [s.led EXCEPT !.tran[a][i] = v]
           e == TransientStorageChange(a, i, s.led.tran[a][i])
           t == Record(s, L, e)
<1>1. Sound(s) /\ s.led \in Ledgers
  BY DEF Abides, Sound, Solid
<1>2. CASE v = s.led.tran[a][i]
  BY <1>2, TameRefl DEF TStore
<1>3. CASE v # s.led.tran[a][i]
  <2>2. Follows(s, t) /\ TStore(s, a, i, v) = t
    BY <1>1, <1>3, TStoreFollows DEF TStore
  <2>3. e \in Entry
    BY <1>1 DEF TransientStorageChange, Entry, Ledgers
  <2>4. /\ L.acct = s.led.acct /\ L.slot = s.led.slot /\ L.orig = s.led.orig
        /\ L.refund = s.led.refund /\ L.touched = s.led.touched
    BY <1>1 DEF Ledgers
  <2> HIDE DEF L, e
  <2>5. /\ t.led = L /\ t.ripemd = s.ripemd /\ t.destroyed = s.destroyed
        /\ Len(t.journal) = Len(s.journal) + 1 /\ Len(s.journal) \in Nat
    BY <1>1, <2>3, RecordIs
  <2> HIDE DEF t
  <2>6. L \in Solid
    BY <2>2, <2>5 DEF Follows, Sound
  <2>7. L \in Lawful(g, s.ripemd.touched) /\ Sturdy(s.led, L) /\ (Covered(s.led) => Covered(L))
    BY <2>4, <2>6, LawfulLists DEF Abides
  <2> QED
    BY <2>2, <2>5, <2>7, TameOne
<1> QED
  BY <1>2, <1>3

\* What a refund changes.
LEMMA MaybeRefundIs ==
    ASSUME NEW s, Sound(s), NEW n \in Int
    PROVE  LET t == MaybeRefund(s, n) IN
           /\ t.led.refund = s.led.refund + n
           /\ t.led.acct = s.led.acct /\ t.led.slot = s.led.slot /\ t.led.orig = s.led.orig
           /\ t.led.touched = s.led.touched
           /\ t.ripemd = s.ripemd /\ t.destroyed = s.destroyed
           /\ Len(t.journal) <= Len(s.journal) + 1
<1> DEFINE L == [s.led EXCEPT !.refund = @ + n]
           e == Refund(n)
<1>1. s.led \in Ledgers /\ s.led.refund \in Int /\ Len(s.journal) \in Nat
  BY DEF Sound, Kernels, Ledgers
<1>2. CASE n = 0
  BY <1>1, <1>2 DEF MaybeRefund
<1>3. CASE n # 0
  <2>1. MaybeRefund(s, n) = Record(s, L, e)
    BY <1>3 DEF MaybeRefund, refund_gas
  <2>2. e \in Entry
    BY DEF Refund, Entry
  <2>3. /\ L.acct = s.led.acct /\ L.slot = s.led.slot /\ L.orig = s.led.orig
        /\ L.refund = s.led.refund + n /\ L.touched = s.led.touched
    BY <1>1 DEF Ledgers
  <2> HIDE DEF L, e
  <2> QED
    BY <1>1, <2>1, <2>2, <2>3, RecordIs
<1> QED
  BY <1>2, <1>3

\* Clearing a slot, or writing one that was cleared, is paid for exactly.
LEMMA ClearedIs ==
    ASSUME NEW L \in Ledgers, NEW M \in Ledgers, NEW a \in Addr, NEW i \in Slot, NEW v \in Val,
           IsFiniteSet(Cleared(L)), M.orig = L.orig, M.slot = PutSlot(L.slot, a, i, v),
           L.orig[a][i] # Cold, v # L.slot[a][i]
    PROVE  /\ IsFiniteSet(Cleared(M)) /\ Cardinality(Cleared(M)) \in Nat
           /\ REFUND_SCLEAR * Cardinality(Cleared(M))
                = REFUND_SCLEAR * Cardinality(Cleared(L))
                  + ClearRefund(L.orig[a][i], L.slot[a][i], v)
<1> DEFINE w == <<a, i>>
           C == Cleared(L)
           D == Cleared(M)
           S == REFUND_SCLEAR
           o == L.orig[a][i]
           cur == L.slot[a][i]
<1>1. o \in Nat /\ cur \in Nat /\ v \in Nat /\ S \in Nat
  BY LedgerAssumption DEF Ledgers, Val, Cold
<1>2. L.slot \in SlotMap(Val)
  BY DEF Ledgers, SlotMap
<1>3. M.slot[a][i] = v /\ \A b \in Addr, j \in Slot : <<b, j>> # w => M.slot[b][j] = L.slot[b][j]
  <2>1. M.slot[a] = [L.slot[a] EXCEPT ![i] = v] /\ \A b \in Addr : b # a => M.slot[b] = L.slot[b]
    BY <1>2 DEF PutSlot, SlotMap
  <2>2. L.slot[a] \in [Slot -> Val]
    BY <1>2 DEF SlotMap
  <2> QED
    BY <2>1, <2>2
<1>4. w \in C <=> o # 0 /\ cur = 0
  BY <1>1 DEF Cleared, Cold
<1>5. w \in D <=> o # 0 /\ v = 0
  BY <1>1, <1>3 DEF Cleared, Cold
<1>6. ASSUME NEW x, x # w PROVE x \in C <=> x \in D
  <2>1. CASE x \in Addr \X Slot
    <3>1. PICK b \in Addr, j \in Slot : x = <<b, j>>
      BY <2>1
    <3>2. x[1] = b /\ x[2] = j /\ M.slot[b][j] = L.slot[b][j]
      BY <1>3, <1>6, <3>1
    <3> QED
      BY <2>1, <3>2 DEF Cleared
  <2>2. CASE x \notin Addr \X Slot
    BY <2>2 DEF Cleared
  <2> QED
    BY <2>1, <2>2
<1>7. IsFiniteSet(C) /\ Cardinality(C) \in Nat
  BY FS_CardinalityType
<1> HIDE DEF C, D, w
<1>8. \A n \in Nat : S * (n + 1) = S * n + S
  BY <1>1
<1>9. CASE o = 0
  <2>1. C = D
    BY <1>4, <1>5, <1>6, <1>9
  <2>2. ClearRefund(o, cur, v) = 0
    BY <1>1, <1>9 DEF ClearRefund
  <2> HIDE DEF o, cur, S
  <2>3. S * Cardinality(C) \in Int
    BY <1>1, <1>7
  <2> QED
    BY <1>7, <2>1, <2>2, <2>3 DEF C, D, S, o, cur
<1>10. CASE o # 0 /\ v = 0
  <2>1. D = C \cup {w} /\ w \notin C
    BY <1>4, <1>5, <1>6, <1>10
  <2>2. ClearRefund(o, cur, v) = S
    BY <1>1, <1>10 DEF ClearRefund
  <2>3. IsFiniteSet(D) /\ Cardinality(D) = Cardinality(C) + 1
    BY <1>7, <2>1, FS_AddElement
  <2> HIDE DEF o, cur, S
  <2>4. S * Cardinality(D) = S * Cardinality(C) + S
    BY <1>7, <1>8, <2>3
  <2> QED
    BY <1>7, <2>2, <2>3, <2>4 DEF C, D, S, o, cur
<1>11. CASE o # 0 /\ v # 0 /\ cur = 0
  <2>1. D = C \ {w} /\ w \in C
    BY <1>4, <1>5, <1>6, <1>11
  <2>2. ClearRefund(o, cur, v) = -S
    BY <1>1, <1>11 DEF ClearRefund
  <2>3. IsFiniteSet(D) /\ Cardinality(D) = Cardinality(C) - 1 /\ Cardinality(D) \in Nat
    BY <1>7, <2>1, FS_RemoveElement, FS_CardinalityType
  <2> HIDE DEF o, cur, S
  <2>4. S * Cardinality(C) = S * Cardinality(D) + S
    BY <1>7, <1>8, <2>3
  <2>5. S * Cardinality(C) \in Int /\ S * Cardinality(D) \in Int
    BY <1>1, <1>7, <2>3
  <2>6. S * Cardinality(D) = S * Cardinality(C) + (-S)
    BY <1>1, <2>4, <2>5
  <2> QED
    BY <2>2, <2>3, <2>6 DEF C, D, S, o, cur
<1>12. CASE o # 0 /\ v # 0 /\ cur # 0
  <2>1. C = D
    BY <1>4, <1>5, <1>6, <1>12
  <2>2. ClearRefund(o, cur, v) = 0
    BY <1>1, <1>12 DEF ClearRefund
  <2> HIDE DEF o, cur, S
  <2>3. S * Cardinality(C) \in Int
    BY <1>1, <1>7
  <2> QED
    BY <1>7, <2>1, <2>2, <2>3 DEF C, D, S, o, cur
<1> QED
  BY <1>9, <1>10, <1>11, <1>12

\* The refund counter.
LEMMA LawfulRefund ==
    ASSUME NEW g, NEW ript, NEW L \in Lawful(g, ript), NEW M \in Solid,
           M.acct = L.acct, M.slot = L.slot, M.orig = L.orig, M.touched = L.touched,
           M.refund >= 0
    PROVE  M \in Lawful(g, ript)
<1>1. OrigRight(M, g.start) /\ SenderRight(M, g.start, g.sender) /\ EmptiesTouched(M, ript)
  BY DEF Lawful, OrigRight, SenderRight, EmptiesTouched, is_empty
<1>2. Supply(M) = Supply(L)
  BY SupplySame
<1> QED
  BY <1>1, <1>2 DEF Lawful

\* sys_sstore, refunds included, keeps the laws: the counter is never negative, since a
\* slot that is written again after it was cleared has been paid for.
LEMMA SStoreTame ==
    ASSUME NEW s, NEW g, Abides(s, g), NEW a \in Addr, NEW i \in Slot, NEW v \in Val,
           s.led.acct[a].exists, s.led.orig[a][i] # Cold, Covered(s.led), NEW quiet, ~quiet
    PROVE  Tame(s, SStore(s, a, i, v), g, quiet)
<1> DEFINE cur  == s.led.slot[a][i]
           orig == s.led.orig[a][i]
           m    == ClearRefund(orig, cur, v)
           n    == ResetRefund(orig, cur, v)
           t    == MaybeRefund(s, m)
           u    == MaybeRefund(t, n)
           L    == [u.led EXCEPT !.slot[a][i] = v]
           e    == StorageChange(a, i, cur)
           w    == Record(u, L, e)
           B    == Bound(s.led, g, s.ripemd.touched, quiet)
<1>0. Sound(s) /\ s.led \in Lawful(g, s.ripemd.touched) /\ s.led \in Ledgers
  BY DEF Abides, Sound, Solid
<1>1. m \in Int /\ n \in Nat
  BY LedgerAssumption, RefundAssumption DEF ClearRefund, ResetRefund
<1>2. CASE v = cur
  BY <1>2, TameRefl DEF SStore
<1>3. CASE v # cur
  <2>1. SStore(s, a, i, v) = w
    BY <1>3 DEF SStore
  <2> HIDE DEF m, n
  <2>2. /\ Follows(s, t) /\ Sound(t)
        /\ t.led.refund = s.led.refund + m
        /\ t.led.acct = s.led.acct /\ t.led.slot = s.led.slot /\ t.led.orig = s.led.orig
        /\ t.led.touched = s.led.touched /\ t.ripemd = s.ripemd /\ t.destroyed = s.destroyed
        /\ Len(t.journal) <= Len(s.journal) + 1
    BY <1>0, <1>1, MaybeRefundFollows, MaybeRefundIs DEF Follows
  <2> HIDE DEF t
  <2>3. /\ Follows(t, u) /\ Sound(u)
        /\ u.led.refund = t.led.refund + n
        /\ u.led.acct = s.led.acct /\ u.led.slot = s.led.slot /\ u.led.orig = s.led.orig
        /\ u.led.touched = s.led.touched /\ u.ripemd = s.ripemd /\ u.destroyed = s.destroyed
        /\ Len(u.journal) <= Len(t.journal) + 1
    <3>1. n \in Int
      BY <1>1
    <3>2. /\ Follows(t, u)
          /\ u.led.refund = t.led.refund + n
          /\ u.led.acct = t.led.acct /\ u.led.slot = t.led.slot /\ u.led.orig = t.led.orig
          /\ u.led.touched = t.led.touched /\ u.ripemd = t.ripemd /\ u.destroyed = t.destroyed
          /\ Len(u.journal) <= Len(t.journal) + 1
      BY <2>2, <3>1, MaybeRefundFollows, MaybeRefundIs
    <3> HIDE DEF u
    <3> QED
      BY <2>2, <3>2 DEF Follows
  <2> HIDE DEF u
  <2>4. e \in Entry /\ u.led \in Ledgers
    BY <1>0, <2>3 DEF StorageChange, Entry, Ledgers, Sound, Kernels
  <2>5. Follows(u, w)
    <3>1. Follows(u, Record(u, [u.led EXCEPT !.slot[a][i] = v],
                            StorageChange(a, i, u.led.slot[a][i])))
      BY <2>3, StorageChangeFollows
    <3> QED
      BY <2>3, <3>1
  <2>6. /\ L.acct = u.led.acct /\ L.slot = PutSlot(u.led.slot, a, i, v) /\ L.orig = u.led.orig
        /\ L.refund = u.led.refund /\ L.touched = u.led.touched
    BY <2>4 DEF Ledgers, PutSlot
  <2> HIDE DEF L, e
  <2>7. /\ w.led = L /\ w.ripemd = u.ripemd /\ w.destroyed = u.destroyed
        /\ Len(w.journal) <= Len(u.journal) + 1
    <3>1. Len(w.journal) = Len(u.journal) + 1 /\ Len(u.journal) \in Nat
      BY <2>3, <2>4, RecordIs
    <3> QED
      BY <2>3, <2>4, <3>1, RecordIs
  <2> HIDE DEF w
  <2>8. L \in Solid /\ L \in Ledgers
    BY <2>5, <2>7 DEF Follows, Sound, Solid
  <2>9. /\ IsFiniteSet(Cleared(L)) /\ Cardinality(Cleared(L)) \in Nat
        /\ REFUND_SCLEAR * Cardinality(Cleared(L))
             = REFUND_SCLEAR * Cardinality(Cleared(s.led)) + m
    BY <1>0, <1>3, <2>3, <2>6, <2>8, ClearedIs DEF m, Covered
  <2>10. /\ s.led.refund \in Int
         /\ REFUND_SCLEAR * Cardinality(Cleared(L)) \in Nat
         /\ REFUND_SCLEAR * Cardinality(Cleared(s.led)) \in Int
    <3>1. Cardinality(Cleared(s.led)) \in Nat
      BY FS_CardinalityType DEF Covered
    <3> QED
      BY <1>0, <2>9, <3>1, LedgerAssumption DEF Ledgers
  <2>11. /\ t.led.refund >= 0 /\ u.led.refund >= 0
         /\ u.led.refund >= REFUND_SCLEAR * Cardinality(Cleared(L))
    <3> DEFINE x == REFUND_SCLEAR * Cardinality(Cleared(L))
               y == REFUND_SCLEAR * Cardinality(Cleared(s.led))
    <3>1. x \in Nat /\ y \in Int /\ x = y + m /\ s.led.refund >= y
      BY <2>9, <2>10 DEF Covered
    <3> HIDE DEF x, y
    <3>2. t.led.refund >= x /\ t.led.refund >= 0 /\ u.led.refund >= x
      BY <1>1, <2>2, <2>3, <2>10, <3>1
    <3>3. u.led.refund >= 0
      BY <1>1, <2>2, <2>3, <2>10, <3>1
    <3> QED
      BY <3>2, <3>3 DEF x
  <2>12. t.led \in Lawful(g, s.ripemd.touched) /\ u.led \in Lawful(g, s.ripemd.touched)
    <3>1. t.led \in Solid /\ u.led \in Solid
      BY <2>2, <2>3 DEF Sound
    <3>2. t.led \in Lawful(g, s.ripemd.touched)
      BY <1>0, <2>2, <2>11, <3>1, LawfulRefund
    <3>3. u.led \in Lawful(g, s.ripemd.touched)
      BY <1>0, <2>3, <2>11, <3>1, LawfulRefund
    <3> QED
      BY <3>2, <3>3
  <2>13. L \in Lawful(g, s.ripemd.touched)
    <3>1. OrigRight(L, g.start)
      <4> SUFFICES ASSUME NEW b \in Addr, NEW j \in Slot
                   PROVE  IF s.led.orig[b][j] = Cold THEN L.slot[b][j] = g.start.slot[b][j]
                                                     ELSE s.led.orig[b][j] = g.start.slot[b][j]
        BY <2>3, <2>6 DEF OrigRight
      <4>1. IF s.led.orig[b][j] = Cold THEN s.led.slot[b][j] = g.start.slot[b][j]
                                       ELSE s.led.orig[b][j] = g.start.slot[b][j]
        BY <1>0 DEF Lawful, OrigRight
      <4>2. s.led.slot \in SlotMap(Val)
        BY <1>0 DEF Ledgers, SlotMap
      <4>3. b # a \/ j # i => L.slot[b][j] = s.led.slot[b][j]
        <5>1. b # a => L.slot[b] = s.led.slot[b]
          BY <2>3, <2>6, <4>2 DEF PutSlot, SlotMap
        <5>2. b = a => L.slot[b] = [s.led.slot[a] EXCEPT ![i] = v]
          BY <2>3, <2>6, <4>2 DEF PutSlot, SlotMap
        <5>3. s.led.slot[a] \in [Slot -> Val]
          BY <4>2 DEF SlotMap
        <5> QED
          BY <5>1, <5>2, <5>3
      <4> QED
        BY <4>1, <4>3
    <3>2. SenderRight(L, g.start, g.sender) /\ EmptiesTouched(L, s.ripemd.touched)
      BY <1>0, <2>3, <2>6 DEF Lawful, SenderRight, EmptiesTouched, is_empty
    <3>3. Supply(L) = Supply(s.led)
      BY <2>3, <2>6, SupplySame
    <3> QED
      BY <1>0, <2>6, <2>8, <2>11, <3>1, <3>2, <3>3 DEF Lawful
  <2>14. s.led \in B /\ t.led \in B /\ u.led \in B /\ L \in B
    <3>1. Sturdy(s.led, s.led) /\ Sturdy(s.led, t.led) /\ Sturdy(s.led, u.led) /\ Sturdy(s.led, L)
      BY <2>2, <2>3, <2>6 DEF Sturdy
    <3> QED
      BY <1>0, <2>12, <2>13, <3>1 DEF Bound
  <2> HIDE DEF B
  <2>15. Sound(w)
    BY <2>5 DEF Follows
  <2>16. Within(s, t, B)
    BY <1>0, <2>2, <2>14, WithinOne
  <2>17. Within(t, u, B)
    BY <2>2, <2>3, <2>14, WithinOne
  <2>18. Within(u, w, B)
    BY <2>3, <2>5, <2>7, <2>14, WithinOne
  <2>19. Within(s, w, B)
    BY <1>0, <2>2, <2>3, <2>15, <2>16, <2>17, <2>18, WithinTrans
  <2>20. Covered(L)
    BY <2>6, <2>9, <2>11 DEF Covered
  <2> QED
    BY <2>1, <2>3, <2>7, <2>15, <2>19, <2>20 DEF Tame, B
<1> QED
  BY <1>2, <1>3

\* The fields that other balances leave alone.
LEMMA SetBalFields ==
    ASSUME NEW L \in Ledgers, NEW f \in Balances
    PROVE  LET M == SetBal(L, f) IN
           /\ M.slot = L.slot /\ M.orig = L.orig /\ M.refund = L.refund /\ M.touched = L.touched
           /\ \A x \in Addr : /\ M.acct[x].exists = L.acct[x].exists
                              /\ M.acct[x].nonce = L.acct[x].nonce
                              /\ M.acct[x].code = L.acct[x].code
                              /\ M.acct[x].balance = f[x]
<1> DEFINE h == [x \in Addr |-> [L.acct[x] EXCEPT !.balance = f[x]]]
<1>1. SetBal(L, f) = [L EXCEPT !.acct = h]
  BY DEF SetBal
<1>2. \A x \in Addr : /\ h[x].exists = L.acct[x].exists /\ h[x].nonce = L.acct[x].nonce
                      /\ h[x].code = L.acct[x].code /\ h[x].balance = f[x]
  BY DEF Ledgers, Account, Balances
<1> HIDE DEF h
<1> QED
  BY <1>1, <1>2 DEF Ledgers

\* sys_selfdestruct keeps the laws, of an account that is not the sender's and that has a
\* nonce or code: no ether is made, and the account is not left empty.
LEMMA SelfdestructTame ==
    ASSUME NEW s, NEW g, Abides(s, g), g.sender \in Addr, g.cap \in Int, NEW a \in Addr,
           NEW r \in Addr, a # g.sender, s.led.acct[a].exists,
           s.led.acct[a].nonce # 0 \/ s.led.acct[a].code # NoCode, NEW quiet, ~quiet
    PROVE  Tame(s, Selfdestruct(s, a, r), g, quiet)
<1> DEFINE d == Selfdestruct(s, a, r)
<1>0. Sound(s)
  BY DEF Abides
<1>1. PICK n \in Nat :
          LET t == PrepareCredit(s, r, n)
          IN  /\ Follows(t, d) /\ Len(d.journal) <= Len(t.journal) + 1
              /\ d.ripemd = t.ripemd
              /\ \A x \in Addr : x # a => d.destroyed[x] = t.destroyed[x]
              /\ t.led.acct[a] = s.led.acct[a] /\ n <= s.led.acct[a].balance
              /\ n # 0 => t.led.acct[r].exists
              /\ Bequeathed(t.led, d.led, a, r, n)
  <2> HIDE DEF d
  <2> QED
    BY <1>0, SelfdestructIs DEF d
<1> DEFINE t == PrepareCredit(s, r, n)
<1>2. Tame(s, t, g, quiet) /\ t.destroyed = s.destroyed
  BY PrepareCreditTame
<1>3. /\ Follows(t, d) /\ Len(d.journal) <= Len(t.journal) + 1
      /\ d.ripemd = t.ripemd
      /\ \A x \in Addr : x # a => d.destroyed[x] = t.destroyed[x]
      /\ t.led.acct[a] = s.led.acct[a] /\ n <= s.led.acct[a].balance
      /\ n # 0 => t.led.acct[r].exists
      /\ Bequeathed(t.led, d.led, a, r, n)
  BY <1>1
<1> HIDE DEF t, d
<1>4. /\ Abides(t, g) /\ Sound(t) /\ t.led \in Solid /\ t.led \in Ledgers
      /\ t.led \in Lawful(g, t.ripemd.touched)
  BY <1>0, <1>2, TameIs DEF Abides, Sound, Solid
<1>5. d.led \in Solid
  BY <1>3 DEF Follows, Sound
<1>6. PICK f \in Balances :
          /\ d.led = SetBal(t.led, f)
          /\ \A x \in Addr : f[x] = (IF x = a THEN 0 ELSE t.led.acct[x].balance)
                                  + (IF x = r THEN n ELSE 0)
  BY <1>3 DEF Bequeathed
<1>7. /\ d.led.slot = t.led.slot /\ d.led.orig = t.led.orig /\ d.led.refund = t.led.refund
      /\ d.led.touched = t.led.touched
      /\ \A x \in Addr : /\ d.led.acct[x].exists = t.led.acct[x].exists
                         /\ d.led.acct[x].nonce = t.led.acct[x].nonce
                         /\ d.led.acct[x].code = t.led.acct[x].code
                         /\ d.led.acct[x].balance = (IF x = a THEN 0 ELSE t.led.acct[x].balance)
                                                    + (IF x = r THEN n ELSE 0)
  <2>1. /\ d.led.slot = t.led.slot /\ d.led.orig = t.led.orig /\ d.led.refund = t.led.refund
        /\ d.led.touched = t.led.touched
        /\ \A x \in Addr : /\ d.led.acct[x].exists = t.led.acct[x].exists
                           /\ d.led.acct[x].nonce = t.led.acct[x].nonce
                           /\ d.led.acct[x].code = t.led.acct[x].code
                           /\ d.led.acct[x].balance = f[x]
    <3>1. d.led = SetBal(t.led, f)
      BY <1>6
    <3> QED
      BY <1>4, <3>1, SetBalFields
  <2> QED
    BY <1>6, <2>1
<1>8. \A x \in Addr : t.led.acct[x].balance \in Nat
  BY <1>4 DEF Solid, Ledgers, Account
<1>9. SenderRight(d.led, g.start, g.sender)
  BY <1>4, <1>7 DEF Lawful, SenderRight
<1>10. \A x \in Addr : is_empty(d.led, x) => is_empty(t.led, x)
  <2> SUFFICES ASSUME NEW x \in Addr, is_empty(d.led, x)
               PROVE  is_empty(t.led, x)
    OBVIOUS
  <2>1. d.led.acct[x].exists /\ d.led.acct[x].nonce = 0 /\ d.led.acct[x].balance = 0
        /\ d.led.acct[x].code = NoCode
    BY DEF is_empty
  <2>2. t.led.acct[x].exists /\ t.led.acct[x].nonce = 0 /\ t.led.acct[x].code = NoCode
    BY <1>7, <2>1
  <2>3. x # a
    BY <1>3, <2>2
  <2>4. 0 = t.led.acct[x].balance + (IF x = r THEN n ELSE 0)
    BY <1>7, <2>1, <2>3
  <2>5. t.led.acct[x].balance = 0
    BY <1>8, <2>4
  <2> QED
    BY <2>2, <2>5 DEF is_empty
<1>11. Supply(d.led) <= g.cap
  <2> DEFINE z == 0
             N == PutBalance(t.led, a, z)
  <2>1. z \in Nat
    OBVIOUS
  <2>2. z = 0
    OBVIOUS
  <2> HIDE DEF z
  <2>3. t.led.acct[a].exists
    BY <1>3
  <2>4. N \in Solid /\ N.acct[a].balance = z /\ \A b \in Addr : b # a => N.acct[b] = t.led.acct[b]
    BY <1>4, <2>1, <2>3, BalanceSolid
  <2> HIDE DEF N
  <2>5. Supply(N) = Supply(t.led) - t.led.acct[a].balance + N.acct[a].balance
    BY <1>4, <2>4, SupplyChange
  <2>6. \A b \in Addr : b # r => d.led.acct[b].balance = N.acct[b].balance
    BY <1>7, <1>8, <2>2, <2>4
  <2>7. Supply(d.led) = Supply(N) - N.acct[r].balance + d.led.acct[r].balance
    BY <1>5, <2>4, <2>6, SupplyChange
  <2>8. d.led.acct[r].balance = N.acct[r].balance + n /\ N.acct[r].balance \in Nat
    BY <1>7, <1>8, <2>2, <2>4
  <2>9. Supply(N) \in Nat /\ Supply(t.led) \in Nat /\ Supply(d.led) \in Nat
    BY <1>4, <1>5, <2>4, SupplyTyped
  <2>10. Supply(d.led) = Supply(t.led) - t.led.acct[a].balance + n
    BY <1>8, <2>2, <2>4, <2>5, <2>7, <2>8, <2>9
  <2>11. Supply(t.led) <= g.cap /\ n <= t.led.acct[a].balance
    BY <1>3, <1>4 DEF Lawful
  <2> QED
    BY <1>8, <2>9, <2>10, <2>11
<1>12. d.led \in Lawful(g, t.ripemd.touched) /\ (Covered(t.led) => Covered(d.led))
  BY <1>4, <1>5, <1>7, <1>9, <1>10, <1>11, LawfulAcct
<1>13. Sturdy(t.led, d.led)
  BY <1>7 DEF Sturdy
<1>14. Tame(t, d, g, quiet)
  BY <1>3, <1>4, <1>12, <1>13, TameOne
<1> QED
  BY <1>0, <1>2, <1>14, TameTrans DEF d

-----------------------------------------------------------------------------
(* Ether that moves without an entry.                                      *)

\* The fields of the ledger that payments leave alone.
Unpaid(s, t) ==
    /\ t.led.slot = s.led.slot /\ t.led.orig = s.led.orig /\ t.led.refund = s.led.refund
    /\ s.led.touched \subseteq t.led.touched
    /\ s.ripemd.touched => t.ripemd.touched
    /\ t.destroyed = s.destroyed

\* PutBalance changes one balance.
LEMMA PutBalanceIs ==
    ASSUME NEW L \in Solid, NEW a \in Addr, NEW n, n \in Nat, L.acct[a].exists
    PROVE  LET M == PutBalance(L, a, n) IN
           /\ M \in Solid
           /\ M.slot = L.slot /\ M.orig = L.orig /\ M.refund = L.refund /\ M.touched = L.touched
           /\ M.acct[a].exists /\ M.acct[a].nonce = L.acct[a].nonce
           /\ M.acct[a].code = L.acct[a].code /\ M.acct[a].balance = n
           /\ \A b \in Addr : b # a => M.acct[b] = L.acct[b]
           /\ Supply(M) = Supply(L) - L.acct[a].balance + n
<1> DEFINE M == PutBalance(L, a, n)
<1>1. /\ M \in Solid /\ M.acct[a].exists /\ M.acct[a].balance = n
      /\ M.acct[a].nonce = L.acct[a].nonce /\ \A b \in Addr : b # a => M.acct[b] = L.acct[b]
  BY BalanceSolid
<1>2. L \in Ledgers
  BY DEF Solid
<1>3. /\ M.slot = L.slot /\ M.orig = L.orig /\ M.refund = L.refund /\ M.touched = L.touched
      /\ M.acct[a].code = L.acct[a].code
  BY <1>2 DEF PutBalance, Ledgers, Account
<1> HIDE DEF M
<1>4. \A b \in Addr : b # a => M.acct[b].balance = L.acct[b].balance
  BY <1>1
<1>5. Supply(M) = Supply(L) - L.acct[a].balance + M.acct[a].balance
  BY <1>1, <1>4, SupplyChange
<1> QED
  BY <1>1, <1>3, <1>5 DEF M

\* deduct_eth.
LEMMA DeductIs ==
    ASSUME NEW s, Sound(s), NEW a \in Addr, NEW v \in Nat,
           s.led.acct[a].exists, s.led.acct[a].balance >= v
    PROVE  LET t == deduct_eth(s, a, v) IN
           /\ Sound(t) /\ Unpaid(s, t) /\ IsTouched(t, a)
           /\ t.led.acct[a].exists /\ t.led.acct[a].nonce = s.led.acct[a].nonce
           /\ t.led.acct[a].code = s.led.acct[a].code
           /\ t.led.acct[a].balance = s.led.acct[a].balance - v
           /\ \A b \in Addr : b # a => t.led.acct[b] = s.led.acct[b]
           /\ Supply(t.led) = Supply(s.led) - v
<1> DEFINE w == insert_touched_addresses(s, a)
           n == w.led.acct[a].balance - v
           L == PutBalance(w.led, a, n)
           t == [w EXCEPT !.led = L]
<1>1. Follows(s, w) /\ w.led.acct = s.led.acct /\ IsTouched(w, a)
  BY TouchedFollows, TouchedIs
<1>2. Sound(w) /\ w.led \in Solid
  BY <1>1 DEF Follows, Sound
<1>3. Unpaid(s, w)
  BY TouchedFields DEF Unpaid, SameView
<1>4. deduct_eth(s, a, v) = t
  BY DEF deduct_eth, PutBalance
<1> HIDE DEF w
<1>5. n \in Nat /\ n = s.led.acct[a].balance - v /\ s.led.acct[a].balance \in Nat
  <2>1. w.led.acct[a].balance \in Nat
    BY <1>2 DEF Solid, Ledgers, Account
  <2> QED
    BY <1>1, <2>1
<1> HIDE DEF n
<1>6. /\ L \in Solid
      /\ L.slot = w.led.slot /\ L.orig = w.led.orig /\ L.refund = w.led.refund
      /\ L.touched = w.led.touched
      /\ L.acct[a].exists /\ L.acct[a].nonce = w.led.acct[a].nonce
      /\ L.acct[a].code = w.led.acct[a].code /\ L.acct[a].balance = n
      /\ \A b \in Addr : b # a => L.acct[b] = w.led.acct[b]
      /\ Supply(L) = Supply(w.led) - w.led.acct[a].balance + n
  <2>1. n \in Nat /\ w.led.acct[a].exists
    BY <1>1, <1>5
  <2> QED
    BY <1>2, <2>1, PutBalanceIs
<1> HIDE DEF L
<1>7. Sound(t) /\ t.led = L /\ t.ripemd = w.ripemd /\ t.destroyed = w.destroyed
  BY <1>2, <1>6, WithLedger
<1> HIDE DEF t
<1>8. Unpaid(s, t) /\ IsTouched(t, a)
  BY <1>1, <1>3, <1>6, <1>7 DEF IsTouched, Unpaid
<1>9. Supply(w.led) = Supply(s.led) /\ Supply(s.led) \in Nat
  BY <1>1, SupplySame, SupplyTyped DEF Sound
<1>10. Supply(t.led) = Supply(s.led) - v
  BY <1>1, <1>5, <1>6, <1>7, <1>9
<1>11. t.led.acct[a].balance = s.led.acct[a].balance - v
  BY <1>5, <1>6, <1>7
<1> QED
  BY <1>1, <1>4, <1>6, <1>7, <1>8, <1>10, <1>11

\* add_eth.
LEMMA AddEthIs ==
    ASSUME NEW s, Sound(s), NEW a \in Addr, NEW v \in Nat
    PROVE  LET t == add_eth(s, a, v) IN
           /\ Sound(t) /\ Unpaid(s, t)
           /\ \A b \in Addr : IsTouched(s, b) \/ b = a => IsTouched(t, b)
           /\ s.led.acct[a].exists => t.led.acct[a].exists
           /\ t.led.acct[a].nonce = s.led.acct[a].nonce
           /\ t.led.acct[a].code = s.led.acct[a].code
           /\ t.led.acct[a].balance = s.led.acct[a].balance + v
           /\ \A b \in Addr : b # a => t.led.acct[b] = s.led.acct[b]
           /\ Supply(t.led) = Supply(s.led) + v
<1> DEFINE x == insert_touched_addresses(s, a)
           w == PrepareCredit(s, a, v)
<1>1. Sound(x) /\ Unpaid(s, x) /\ x.led.acct = s.led.acct
  <2>1. Sound(x) /\ x.led.acct = s.led.acct
    BY TouchedFollows, TouchedIs DEF Follows
  <2>2. Unpaid(s, x)
    BY TouchedFields DEF Unpaid, SameView
  <2> QED
    BY <2>1, <2>2
<1>2. s.led.acct[a].balance \in Nat /\ s.led \in Solid /\ Supply(s.led) \in Nat
  <2>1. s.led \in Solid
    BY DEF Sound
  <2> QED
    BY <2>1, SupplyTyped, WeiOfIs
<1>3. /\ Sound(w) /\ w.led \in Solid /\ w.led \in Ledgers
      /\ v # 0 => w.led.acct[a].exists
      /\ s.led.acct[a].exists => w.led.acct[a].exists
      /\ \A b \in Addr : IsTouched(s, b) \/ b = a => IsTouched(w, b)
  <2>1. /\ Follows(s, w)
        /\ v # 0 => w.led.acct[a].exists
        /\ \A b \in Addr : IsTouched(s, b) \/ b = a => IsTouched(w, b)
    BY PrepareCreditFollows
  <2> QED
    BY <2>1 DEF Follows, Sound, Solid
<1>4. /\ Unpaid(s, w)
      /\ w.led.acct[a].nonce = s.led.acct[a].nonce /\ w.led.acct[a].code = s.led.acct[a].code
      /\ w.led.acct[a].balance = s.led.acct[a].balance
      /\ \A b \in Addr : b # a => w.led.acct[b] = s.led.acct[b]
  <2> HIDE DEF x
  <2>1. CASE v = 0 \/ x.led.acct[a].exists
    <3>1. w = x
      BY <2>1 DEF PrepareCredit, AddAccount, x
    <3> QED
      BY <1>1, <3>1
  <2>2. CASE ~(v = 0 \/ x.led.acct[a].exists)
    <3> DEFINE L == [x.led EXCEPT !.acct[a] = NewAccount(0)]
               e == AccountCreated(FALSE, a)
    <3>1. w = Record(x, L, e)
      BY <2>2 DEF PrepareCredit, AddAccount, x
    <3>2. x.led \in Ledgers /\ x.led \in Solid
      BY <1>1 DEF Sound, Solid
    <3>3. /\ L.slot = x.led.slot /\ L.orig = x.led.orig /\ L.refund = x.led.refund
          /\ L.touched = x.led.touched /\ L.acct[a] = NewAccount(0)
          /\ \A b \in Addr : b # a => L.acct[b] = x.led.acct[b]
      BY <3>2 DEF Ledgers
    <3>4. e \in Entry
      BY DEF AccountCreated, Entry
    <3> HIDE DEF L, e
    <3>5. w.led = L /\ w.ripemd = x.ripemd /\ w.destroyed = x.destroyed
      BY <1>1, <3>1, <3>4, RecordIs
    <3>6. x.led.acct[a] = NoAccount
      BY <2>2, <3>2 DEF Solid
    <3>7. /\ NewAccount(0).nonce = NoAccount.nonce /\ NewAccount(0).code = NoAccount.code
          /\ NewAccount(0).balance = NoAccount.balance
      BY DEF NewAccount, NoAccount
    <3> HIDE DEF w
    <3> QED
      BY <1>1, <3>3, <3>5, <3>6, <3>7 DEF Unpaid
  <2> QED
    BY <2>1, <2>2
<1>5. Supply(w.led) = Supply(s.led)
  <2>1. \A b \in Addr : w.led.acct[b].balance = s.led.acct[b].balance
    BY <1>4
  <2> QED
    BY <2>1, SupplySame
<1> HIDE DEF w
<1>6. CASE v = 0
  <2>1. add_eth(s, a, v) = w
    BY <1>6 DEF add_eth, w
  <2>2. s.led.acct[a].balance = s.led.acct[a].balance + v /\ Supply(s.led) = Supply(s.led) + v
    BY <1>2, <1>6
  <2> QED
    BY <1>3, <1>4, <1>5, <2>1, <2>2
<1>7. CASE v # 0
  <2> DEFINE n == w.led.acct[a].balance + v
             L == PutBalance(w.led, a, n)
             t == [w EXCEPT !.led = L]
  <2>1. n \in Nat /\ n = s.led.acct[a].balance + v
    BY <1>2, <1>4
  <2>2. Credit(w.led, a, v) = L
    BY <1>3, <1>7, CreditIs
  <2>3. add_eth(s, a, v) = t
    BY <1>7, <2>2 DEF add_eth, w
  <2> HIDE DEF n
  <2>4. /\ L \in Solid
        /\ L.slot = w.led.slot /\ L.orig = w.led.orig /\ L.refund = w.led.refund
        /\ L.touched = w.led.touched
        /\ L.acct[a].exists /\ L.acct[a].nonce = w.led.acct[a].nonce
        /\ L.acct[a].code = w.led.acct[a].code /\ L.acct[a].balance = n
        /\ \A b \in Addr : b # a => L.acct[b] = w.led.acct[b]
        /\ Supply(L) = Supply(w.led) - w.led.acct[a].balance + n
    <3>1. n \in Nat /\ w.led.acct[a].exists
      BY <1>3, <1>7, <2>1
    <3> QED
      BY <1>3, <3>1, PutBalanceIs
  <2> HIDE DEF L
  <2>5. Sound(t) /\ t.led = L /\ t.ripemd = w.ripemd /\ t.destroyed = w.destroyed
    BY <1>3, <2>4, WithLedger
  <2> HIDE DEF t
  <2>6. Unpaid(s, t) /\ \A b \in Addr : IsTouched(s, b) \/ b = a => IsTouched(t, b)
    BY <1>3, <1>4, <2>4, <2>5 DEF IsTouched, Unpaid
  <2>7. Supply(t.led) = Supply(s.led) + v
    BY <1>2, <1>4, <1>5, <2>1, <2>4, <2>5
  <2>8. t.led.acct[a].balance = s.led.acct[a].balance + v
    BY <2>1, <2>4, <2>5
  <2>9. t.led.acct[a].exists /\ t.led.acct[a].nonce = s.led.acct[a].nonce
        /\ t.led.acct[a].code = s.led.acct[a].code
        /\ \A b \in Addr : b # a => t.led.acct[b] = s.led.acct[b]
    BY <1>4, <2>4, <2>5
  <2> QED
    BY <2>3, <2>5, <2>6, <2>7, <2>8, <2>9
<1> QED
  BY <1>6, <1>7

\* Payments keep the laws if no account is left empty that has not been touched.
LEMMA LawfulPaid ==
    ASSUME NEW s, NEW t, NEW g, Abides(s, g), Sound(t), Unpaid(s, t),
           SenderRight(t.led, g.start, g.sender),
           \A a \in Addr : is_empty(t.led, a) => is_empty(s.led, a) \/ IsTouched(t, a),
           Supply(t.led) <= g.cap
    PROVE  Abides(t, g) /\ (Covered(s.led) => Covered(t.led))
<1>1. OrigRight(t.led, g.start)
  BY DEF Abides, Lawful, OrigRight, Unpaid
<1>2. EmptiesTouched(t.led, t.ripemd.touched)
  BY DEF Abides, Lawful, EmptiesTouched, IsTouched, Unpaid
<1>3. t.led \in Lawful(g, t.ripemd.touched)
  BY <1>1, <1>2 DEF Lawful, Abides, Sound, Unpaid
<1>4. Cleared(t.led) = Cleared(s.led)
  BY DEF Cleared, Unpaid
<1> QED
  BY <1>3, <1>4 DEF Abides, Covered, Unpaid

\* transfer_eth, which journals nothing of the transfer, keeps the laws.
LEMMA TransferLawful ==
    ASSUME NEW s, NEW g, Abides(s, g), g.sender \in Addr, NEW from \in Addr, NEW to \in Addr,
           NEW v \in Nat, s.led.acct[from].exists, s.led.acct[from].balance >= v
    PROVE  LET t == transfer_eth(s, from, to, v) IN
           /\ Abides(t, g) /\ t.destroyed = s.destroyed
           /\ (Covered(s.led) => Covered(t.led))
<1> DEFINE d == deduct_eth(s, from, v)
           t == add_eth(d, to, v)
<1>0. Sound(s) /\ Supply(s.led) \in Nat /\ s.led \in Lawful(g, s.ripemd.touched)
  BY SupplyTyped DEF Abides, Sound
<1>1. /\ Sound(d) /\ Unpaid(s, d) /\ IsTouched(d, from)
      /\ d.led.acct[from].exists /\ d.led.acct[from].nonce = s.led.acct[from].nonce
      /\ d.led.acct[from].code = s.led.acct[from].code
      /\ \A b \in Addr : b # from => d.led.acct[b] = s.led.acct[b]
      /\ Supply(d.led) = Supply(s.led) - v
  BY <1>0, DeductIs
<1> HIDE DEF d
<1>2. /\ Sound(t) /\ Unpaid(d, t)
      /\ \A b \in Addr : IsTouched(d, b) \/ b = to => IsTouched(t, b)
      /\ d.led.acct[to].exists => t.led.acct[to].exists
      /\ t.led.acct[to].nonce = d.led.acct[to].nonce
      /\ t.led.acct[to].code = d.led.acct[to].code
      /\ \A b \in Addr : b # to => t.led.acct[b] = d.led.acct[b]
      /\ Supply(t.led) = Supply(d.led) + v
  BY <1>1, AddEthIs
<1>3. transfer_eth(s, from, to, v) = t
  BY DEF transfer_eth, d
<1> HIDE DEF t
<1>4. Unpaid(s, t)
  BY <1>1, <1>2 DEF Unpaid
<1>5. Supply(t.led) = Supply(s.led)
  BY <1>0, <1>1, <1>2
<1>6. SenderRight(t.led, g.start, g.sender)
  BY <1>0, <1>1, <1>2 DEF Lawful, SenderRight
<1>7. \A a \in Addr : is_empty(t.led, a) => is_empty(s.led, a) \/ IsTouched(t, a)
  BY <1>1, <1>2 DEF is_empty
<1>8. Supply(t.led) <= g.cap
  BY <1>0, <1>5 DEF Lawful
<1>9. Abides(t, g) /\ (Covered(s.led) => Covered(t.led))
  BY <1>2, <1>4, <1>6, <1>7, <1>8, LawfulPaid
<1> QED
  BY <1>3, <1>4, <1>9 DEF Unpaid

-----------------------------------------------------------------------------
\* A tame routine journals what it does.
LEMMA TameFollows ==
    ASSUME NEW s, NEW t, NEW g, NEW quiet, Sound(s), Tame(s, t, g, quiet)
    PROVE  Follows(s, t)
<1>1. Bound(s.led, g, t.ripemd.touched, quiet) \subseteq Solid
  BY DEF Bound, Lawful
<1>2. Within(s, t, Solid)
  BY <1>1, WithinMore DEF Tame
<1>3. Journaled(s, t)
  BY <1>2 DEF Within, Journaled
<1>4. Sturdy(s.led, t.led)
  BY TameIs
<1> QED
  BY <1>3, <1>4 DEF Follows, Tame, Sturdy
=============================================================================
