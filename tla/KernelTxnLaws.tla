---------------------------- MODULE KernelTxnLaws ----------------------------
(***************************************************************************)
(* The laws of a transaction hold at every step of it: refunds are         *)
(* computed from the slots' values at its beginning, a static context      *)
(* changes nothing, ether is only burnt, a failed creation is undone, and  *)
(* the state the transaction leaves has the sender's nonce spent and no    *)
(* empty account.                                                          *)
(***************************************************************************)
EXTENDS KernelTxnProofs

-----------------------------------------------------------------------------
(* Histories in a set of ledgers.                                          *)

\* The ledger is in Q, and so is every ledger that undoing the entries above mark b
\* leads through.
Held(s, ms, b, c, n, Q) ==
    /\ s.led \in Q
    /\ b < c => \E h \in [Nat -> Q] :
                   /\ h[n] = s.led
                   /\ \A m \in b + 1 .. c : ms[m].size <= n /\ h[ms[m].size] = ms[m].led
                   /\ Unwinds(h, s.journal, ms[b + 1].size, n)

\* A larger set will do.
LEMMA HeldMore ==
    ASSUME NEW s, NEW ms, NEW b, NEW c, NEW n, NEW P, NEW Q, P \subseteq Q,
           Held(s, ms, b, c, n, P)
    PROVE  Held(s, ms, b, c, n, Q)
<1>1. s.led \in Q
  BY DEF Held
<1>2. ASSUME b < c
      PROVE  \E h \in [Nat -> Q] :
                /\ h[n] = s.led
                /\ \A m \in b + 1 .. c : ms[m].size <= n /\ h[ms[m].size] = ms[m].led
                /\ Unwinds(h, s.journal, ms[b + 1].size, n)
  <2>1. PICK h \in [Nat -> P] :
                /\ h[n] = s.led
                /\ \A m \in b + 1 .. c : ms[m].size <= n /\ h[ms[m].size] = ms[m].led
                /\ Unwinds(h, s.journal, ms[b + 1].size, n)
    BY <1>2 DEF Held
  <2>2. h \in [Nat -> Q]
    OBVIOUS
  <2> QED
    BY <2>1, <2>2
<1> QED
  BY <1>1, <1>2 DEF Held

\* Only the marks up to c count, and of the journal what n reaches.
LEMMA HeldSame ==
    ASSUME NEW s, NEW t, NEW ms, NEW ns, NEW b \in Nat, NEW c \in Nat, NEW n, n \in Nat, NEW Q,
           Held(s, ms, b, c, n, Q), t.led = s.led,
           \A m \in b + 1 .. c : ns[m] = ms[m] /\ ms[m].size \in Nat,
           \A i \in 1 .. n : t.journal[i] = s.journal[i]
    PROVE  Held(t, ns, b, c, n, Q)
<1>1. t.led \in Q
  BY DEF Held
<1>2. ASSUME b < c
      PROVE  \E h \in [Nat -> Q] :
                /\ h[n] = t.led
                /\ \A m \in b + 1 .. c : ns[m].size <= n /\ h[ns[m].size] = ns[m].led
                /\ Unwinds(h, t.journal, ns[b + 1].size, n)
  <2>1. PICK h \in [Nat -> Q] :
                /\ h[n] = s.led
                /\ \A m \in b + 1 .. c : ms[m].size <= n /\ h[ms[m].size] = ms[m].led
                /\ Unwinds(h, s.journal, ms[b + 1].size, n)
    BY <1>2 DEF Held
  <2>2. b + 1 \in b + 1 .. c /\ ns[b + 1] = ms[b + 1] /\ ms[b + 1].size \in Nat
    BY <1>2
  <2>3. \A m \in b + 1 .. c : ns[m].size <= n /\ h[ns[m].size] = ns[m].led
    BY <2>1
  <2>4. Unwinds(h, t.journal, ns[b + 1].size, n)
    <3>1. \A i \in ms[b + 1].size + 1 .. n : t.journal[i] = s.journal[i]
      BY <2>2
    <3> QED
      BY <2>1, <2>2, <3>1 DEF Unwinds
  <2> QED
    BY <2>1, <2>3, <2>4
<1> QED
  BY <1>1, <1>2 DEF Held

\* The marks of a transaction have sizes.
LEMMA SizesNat ==
    ASSUME NEW ms \in Seq(Marks), NEW b \in Nat, NEW c \in Nat, c <= Len(ms)
    PROVE  \A m \in b + 1 .. c : m \in 1 .. Len(ms) /\ ms[m].size \in Nat
<1> TAKE m \in b + 1 .. c
<1>1. m \in 1 .. Len(ms)
  OBVIOUS
<1> QED
  BY <1>1, MarkTyped

\* A routine extends the history.
LEMMA HeldWithin ==
    ASSUME NEW s, NEW t, Sound(s), Sound(t), NEW ms \in Seq(Marks), NEW b \in Nat, b <= Len(ms),
           NEW P, NEW Q, P \subseteq Q, Held(s, ms, b, Len(ms), Len(s.journal), P),
           Within(s, t, Q)
    PROVE  Held(t, ms, b, Len(ms), Len(t.journal), Q)
<1> DEFINE c == Len(ms)
           i1 == Len(s.journal)
           i2 == Len(t.journal)
<1>0. c \in Nat /\ i1 \in Nat /\ i2 \in Nat /\ i1 <= i2 /\ b <= c
      /\ \A i \in 1 .. i1 : t.journal[i] = s.journal[i]
  BY DEF Sound, Kernels, Within
<1>1. Held(s, ms, b, c, i1, Q)
  BY HeldMore
<1>2. PICK h \in [Nat -> Q] : h[i1] = s.led /\ h[i2] = t.led /\ Unwinds(h, t.journal, i1, i2)
  BY DEF Within
<1>3. \A m \in b + 1 .. c : m \in 1 .. Len(ms) /\ ms[m].size \in Nat
  <2>1. c <= Len(ms)
    BY <1>0
  <2> HIDE DEF c
  <2> QED
    BY <1>0, <2>1, SizesNat
<1> HIDE DEF c, i1, i2
<1>4. t.led \in Q
  BY <1>0, <1>2
<1>5. ASSUME b < c
      PROVE  \E f \in [Nat -> Q] :
                /\ f[i2] = t.led
                /\ \A m \in b + 1 .. c : ms[m].size <= i2 /\ f[ms[m].size] = ms[m].led
                /\ Unwinds(f, t.journal, ms[b + 1].size, i2)
  <2>1. PICK g \in [Nat -> Q] :
                /\ g[i1] = s.led
                /\ \A m \in b + 1 .. c : ms[m].size <= i1 /\ g[ms[m].size] = ms[m].led
                /\ Unwinds(g, s.journal, ms[b + 1].size, i1)
    BY <1>1, <1>5 DEF Held
  <2> DEFINE f == [n \in Nat |-> IF n <= i1 THEN g[n] ELSE h[n]]
             lo == ms[b + 1].size
  <2>2. f \in [Nat -> Q]
    OBVIOUS
  <2>3. f[i2] = t.led
    BY <1>0, <1>2, <2>1
  <2>4. \A m \in b + 1 .. c : ms[m].size <= i2 /\ f[ms[m].size] = ms[m].led
    BY <1>0, <1>3, <2>1
  <2>5. lo \in Nat /\ lo <= i1
    <3>1. b + 1 \in b + 1 .. c
      BY <1>0, <1>5
    <3> QED
      BY <1>3, <2>1, <3>1
  <2> HIDE DEF lo
  <2>6. Unwinds(f, t.journal, lo, i2)
    <3> SUFFICES ASSUME NEW i \in lo + 1 .. i2
                 PROVE  CanUndo(t.journal[i], f[i]) /\ Undo(t.journal[i], f[i]) = f[i - 1]
      BY DEF Unwinds
    <3>1. CASE i <= i1
      <4>1. i \in 1 .. i1 /\ i \in lo + 1 .. i1 /\ i \in Nat /\ i - 1 \in Nat /\ i - 1 <= i1
        BY <1>0, <2>5, <3>1
      <4>2. t.journal[i] = s.journal[i] /\ f[i] = g[i] /\ f[i - 1] = g[i - 1]
        BY <1>0, <3>1, <4>1
      <4>3. Unwinds(g, s.journal, lo, i1)
        BY <2>1 DEF lo
      <4> HIDE DEF f
      <4> QED
        BY <4>1, <4>2, <4>3 DEF Unwinds
    <3>2. CASE i > i1
      <4>1. i \in i1 + 1 .. i2 /\ i \in Nat /\ i - 1 \in Nat
        BY <1>0, <2>5, <3>2
      <4>11. g[i1] = h[i1]
        BY <1>2, <2>1
      <4>12. f[i] = h[i]
        BY <1>0, <3>2, <4>1
      <4>13. f[i - 1] = h[i - 1]
        <5>1. CASE i - 1 = i1
          BY <1>0, <4>1, <4>11, <5>1
        <5>2. CASE i - 1 # i1
          <6>1. ~(i - 1 <= i1)
            BY <1>0, <3>2, <4>1, <5>2
          <6> QED
            BY <4>1, <6>1
        <5> QED
          BY <5>1, <5>2
      <4>2. f[i] = h[i] /\ f[i - 1] = h[i - 1]
        BY <4>12, <4>13
      <4> HIDE DEF f
      <4> QED
        BY <1>2, <4>1, <4>2 DEF Unwinds
    <3> QED
      BY <1>0, <2>5, <3>1, <3>2
  <2> HIDE DEF f
  <2> QED
    BY <2>2, <2>3, <2>4, <2>6, Zenon DEF lo
<1> QED
  BY <1>4, <1>5, Zenon DEF Held, c, i2

\* A new mark is part of the history.
LEMMA HeldMark ==
    ASSUME NEW s, Sound(s), NEW ms \in Seq(Marks), NEW b \in Nat, b <= Len(ms), NEW Q,
           Held(s, ms, b, Len(ms), Len(s.journal), Q)
    PROVE  Held(s, Append(ms, Mark(s)), b, Len(ms) + 1, Len(s.journal), Q)
<1> DEFINE ns == Append(ms, Mark(s))
           n == Len(s.journal)
           c == Len(ms)
<1>1. n \in Nat /\ c \in Nat /\ b <= c
  BY DEF Sound, Kernels
<1>2. /\ Len(ns) = c + 1 /\ \A m \in 1 .. c : ns[m] = ms[m]
      /\ ns[c + 1].size = n /\ ns[c + 1].led = s.led
  BY MarkIs
<1>21. Held(s, ms, b, c, n, Q)
  OBVIOUS
<1> HIDE DEF ns, n, c
<1>22. s.led \in Q
  BY <1>21 DEF Held
<1>3. \E h \in [Nat -> Q] :
         /\ h[n] = s.led
         /\ \A m \in b + 1 .. c + 1 : ns[m].size <= n /\ h[ns[m].size] = ns[m].led
         /\ Unwinds(h, s.journal, ns[b + 1].size, n)
  <2>1. CASE b < c
    <3>1. PICK h \in [Nat -> Q] :
                /\ h[n] = s.led
                /\ \A m \in b + 1 .. c : ms[m].size <= n /\ h[ms[m].size] = ms[m].led
                /\ Unwinds(h, s.journal, ms[b + 1].size, n)
      BY <1>21, <2>1 DEF Held
    <3>2. ns[b + 1] = ms[b + 1]
      BY <1>1, <1>2, <2>1
    <3>3. ASSUME NEW m \in b + 1 .. c + 1
          PROVE  ns[m].size <= n /\ h[ns[m].size] = ns[m].led
      <4>1. CASE m = c + 1
        BY <1>1, <1>2, <3>1, <4>1
      <4>2. CASE m # c + 1
        <5>1. m \in b + 1 .. c /\ m \in 1 .. c
          BY <1>1, <4>2
        <5> QED
          BY <1>2, <3>1, <5>1
      <4> QED
        BY <4>1, <4>2
    <3> QED
      BY <3>1, <3>2, <3>3
  <2>2. CASE b = c
    <3> DEFINE h == [i \in Nat |-> s.led]
    <3>1. h \in [Nat -> Q] /\ h[n] = s.led
      BY <1>1, <1>22
    <3>2. \A m \in b + 1 .. c + 1 : m = c + 1
      BY <1>1, <2>2
    <3>3. \A m \in b + 1 .. c + 1 : ns[m].size <= n /\ h[ns[m].size] = ns[m].led
      BY <1>1, <1>2, <3>1, <3>2
    <3>4. Unwinds(h, s.journal, ns[b + 1].size, n)
      BY <1>1, <1>2, <2>2 DEF Unwinds
    <3> HIDE DEF h
    <3> QED
      BY <3>1, <3>3, <3>4
  <2> QED
    BY <1>1, <2>1, <2>2
<1> QED
  BY <1>22, <1>3, Zenon DEF Held, ns, n, c

\* One iteration of the revert loop goes back in the history.
LEMMA HeldUndo ==
    ASSUME NEW s, NEW t, NEW ms \in Seq(Marks), NEW b \in Nat, NEW c \in Nat, NEW n \in Nat,
           b < c, c <= Len(ms), NEW Q, Held(s, ms, b, c, n, Q), t.journal = s.journal,
           t.led = Undo(s.journal[n], s.led), ms[c].size < n,
           \A m \in b + 1 .. c : ms[m].size <= ms[c].size
    PROVE  Held(t, ms, b, c, n - 1, Q)
<1>1. \A m \in b + 1 .. c : m \in 1 .. Len(ms) /\ ms[m].size \in Nat
  BY SizesNat
<1>2. PICK h \in [Nat -> Q] :
          /\ h[n] = s.led
          /\ \A m \in b + 1 .. c : ms[m].size <= n /\ h[ms[m].size] = ms[m].led
          /\ Unwinds(h, s.journal, ms[b + 1].size, n)
  BY DEF Held
<1> DEFINE lo == ms[b + 1].size
           hi == ms[c].size
<1>3. lo \in Nat /\ hi \in Nat /\ lo <= hi /\ hi < n
  <2>1. b + 1 \in b + 1 .. c /\ c \in b + 1 .. c
    OBVIOUS
  <2> QED
    BY <1>1, <2>1
<1>31. \A m \in b + 1 .. c : ms[m].size <= hi
  OBVIOUS
<1>32. Unwinds(h, s.journal, lo, n)
  BY <1>2
<1> HIDE DEF lo, hi
<1>4. n - 1 \in Nat /\ n \in lo + 1 .. n
  BY <1>3
<1>5. t.led = h[n - 1]
  BY <1>2, <1>4, <1>32 DEF Unwinds
<1>6. t.led \in Q
  BY <1>4, <1>5
<1>7. \A m \in b + 1 .. c : ms[m].size <= n - 1 /\ h[ms[m].size] = ms[m].led
  BY <1>1, <1>2, <1>3, <1>31
<1>8. Unwinds(h, t.journal, lo, n - 1)
  <2>1. \A i \in lo + 1 .. n - 1 : i \in lo + 1 .. n
    BY <1>3
  <2> QED
    BY <1>32, <2>1 DEF Unwinds
<1> QED
  BY <1>5, <1>6, <1>7, <1>8 DEF Held, lo

\* revert_batch_done: one mark less.
LEMMA HeldLess ==
    ASSUME NEW s, NEW ms, NEW b \in Nat, NEW c \in Nat, NEW n, NEW Q,
           Held(s, ms, b, c, n, Q), NEW d \in Nat, d <= c
    PROVE  Held(s, ms, b, d, n, Q)
<1>1. \A m \in b + 1 .. d : m \in b + 1 .. c
  OBVIOUS
<1>2. b < d => b < c
  OBVIOUS
<1>3. s.led \in Q
  BY DEF Held
<1>4. ASSUME b < d
      PROVE  \E h \in [Nat -> Q] :
                /\ h[n] = s.led
                /\ \A m \in b + 1 .. d : ms[m].size <= n /\ h[ms[m].size] = ms[m].led
                /\ Unwinds(h, s.journal, ms[b + 1].size, n)
  <2>1. PICK h \in [Nat -> Q] :
                /\ h[n] = s.led
                /\ \A m \in b + 1 .. c : ms[m].size <= n /\ h[ms[m].size] = ms[m].led
                /\ Unwinds(h, s.journal, ms[b + 1].size, n)
    BY <1>2, <1>4 DEF Held
  <2>2. \A m \in b + 1 .. d : ms[m].size <= n /\ h[ms[m].size] = ms[m].led
    BY <1>1, <2>1
  <2> QED
    BY <2>1, <2>2
<1> QED
  BY <1>3, <1>4 DEF Held

-----------------------------------------------------------------------------
(* What holds while a transaction runs.                                    *)

\* The laws of transaction x.
Deal(x) == [start |-> x.start, sender |-> x.sender, cap |-> Supply(x.start) - Upfront]

\* An account that is not left empty whatever happens to its balance.
Firm(L, a) == L.acct[a].exists /\ (L.acct[a].nonce # 0 \/ L.acct[a].code # NoCode)

Constructor == {"create", "txn_create"}

\* The ledgers there may be while context c, entered with ledger L0, is on the stack.
Allowed(c, L0) ==
    {L \in Solid : /\ c.code = "user" => Firm(L, c.addr)
                   /\ c.ret \in Constructor => L.acct[c.addr].nonce # 0
                   /\ c.static => Observable(L) = Observable(L0)}

Own(ms, c) == Allowed(c, ms[c.cps[1] + 1].led)

Owns(s, ms, cs, c, n) ==
    \A i \in 2 .. Len(cs) :
        Len(cs[i].cps) >= 1 => Held(s, ms, cs[i].cps[1], c, n, Own(ms, cs[i]))

\* The contexts above a static one are static, a constructor's is not, and no context
\* runs the sender's code.
Shape(cs, x) ==
    /\ ~cs[1].static
    /\ \A i, j \in 1 .. Len(cs) : i <= j /\ cs[i].static => cs[j].static
    /\ \A i \in 2 .. Len(cs) : /\ cs[i].ret \in Constructor => ~cs[i].static
                               /\ cs[i].code = "user" => cs[i].addr # x.sender
    /\ x.kind = "create" /\ Len(cs) >= 2 => cs[2].ret = "txn_create"

\* Nothing has changed but the sender's account.
Undone(L, x) ==
    /\ L.slot = x.start.slot
    /\ L.acct = [x.start.acct EXCEPT ![x.sender].nonce = @ + 1,
                                     ![x.sender].balance = @ - Upfront]

\* A creation transaction's checkpoint is the first of the transaction.
Creating(ms, cs, x) ==
    x.kind = "create" =>
        /\ x.base < Len(ms) /\ Undone(ms[x.base + 1].led, x)
        /\ Len(cs[1].cps) >= 1 /\ cs[1].cps[Len(cs[1].cps)] = x.base

MarksCovered(ms, b) == \A m \in b + 1 .. Len(ms) : Covered(ms[m].led)

Busy(s, ms, cs, c, n, x) ==
    /\ Held(s, ms, x.base, c, n, Lawful(Deal(x), s.ripemd.touched))
    /\ Owns(s, ms, cs, c, n)
    /\ Shape(cs, x)
    /\ MarksCovered(ms, x.base)
    /\ Creating(ms, cs, x)

\* A live state that keeps the laws.
Orderly(s, ms, cs, x) ==
    /\ Live(s, ms, cs, x.base)
    /\ x \in Txns /\ x.start \in Solid
    /\ Busy(s, ms, cs, Len(ms), Len(s.journal), x)
    /\ Covered(s.led)
    /\ s.destroyed[x.sender] = 0

\* The laws' parameters.
LEMMA DealIs ==
    ASSUME NEW x \in Txns, x.start \in Solid
    PROVE  /\ Deal(x).start = x.start /\ Deal(x).sender = x.sender /\ x.sender \in Addr
           /\ Deal(x).cap = Supply(x.start) - Upfront /\ Deal(x).cap \in Int
           /\ Upfront \in Nat /\ Supply(x.start) \in Nat /\ x.base \in Nat
<1>1. Upfront \in Nat
  BY KernelAssumption, ProductNat DEF Upfront, Price
<1>2. Supply(x.start) \in Nat
  BY SupplyTyped
<1> QED
  BY <1>1, <1>2 DEF Deal, Txns

\* An orderly state abides by the laws.
LEMMA OrderlyIs ==
    ASSUME NEW s, NEW ms, NEW cs, NEW x, Orderly(s, ms, cs, x)
    PROVE  /\ Abides(s, Deal(x)) /\ Sound(s) /\ Live(s, ms, cs, x.base)
           /\ x \in Txns /\ x.start \in Solid /\ x.sender \in Addr /\ x.base \in Nat
           /\ cs \in Seq(Context) /\ ms \in Seq(Marks) /\ Len(cs) \in Nat /\ Len(cs) >= 1
           /\ Len(ms) \in Nat /\ x.base <= Len(ms) /\ Len(s.journal) \in Nat
           /\ Busy(s, ms, cs, Len(ms), Len(s.journal), x)
           /\ Covered(s.led) /\ s.destroyed[x.sender] = 0
<1>1. Sound(s) /\ cs \in Seq(Context) /\ ms \in Seq(Marks) /\ Len(cs) >= 1 /\ x.base <= Len(ms)
  BY DEF Orderly, Live, Stack
<1>2. Len(s.journal) \in Nat
  BY <1>1 DEF Sound, Kernels
<1>3. s.led \in Lawful(Deal(x), s.ripemd.touched)
  BY DEF Orderly, Busy, Held
<1>4. x \in Txns /\ x.start \in Solid /\ x.sender \in Addr /\ x.base \in Nat
  BY DealIs DEF Orderly
<1> QED
  BY <1>1, <1>2, <1>3, <1>4 DEF Orderly, Abides

\* A context is left what it is allowed by a routine that is quiet if the context is static.
LEMMA BoundAllowed ==
    ASSUME NEW c, c.addr \in Addr, NEW L0, NEW L \in Allowed(c, L0), NEW g, NEW r, NEW quiet,
           c.static => quiet
    PROVE  Bound(L, g, r, quiet) \subseteq Allowed(c, L0)
<1> SUFFICES ASSUME NEW M \in Bound(L, g, r, quiet)
             PROVE  M \in Allowed(c, L0)
  OBVIOUS
<1>1. M \in Solid /\ Sturdy(L, M) /\ (quiet => SameView(L, M))
  BY DEF Bound, Lawful
<1>2. c.code = "user" => Firm(M, c.addr)
  BY <1>1 DEF Allowed, Firm, Sturdy
<1>3. c.ret \in Constructor => M.acct[c.addr].nonce # 0
  BY <1>1 DEF Allowed, Sturdy
<1>4. c.static => Observable(M) = Observable(L0)
  BY <1>1 DEF Allowed, Observable, SameView
<1> QED
  BY <1>1, <1>2, <1>3, <1>4 DEF Allowed

\* The first checkpoint of a context that has one.
LEMMA FirstIs ==
    ASSUME NEW ms \in Seq(Marks), NEW cs \in Seq(Context), Nested(ms, cs), NEW i \in 1 .. Len(cs),
           Len(cs[i].cps) >= 1
    PROVE  /\ cs[i].cps[1] \in Nat /\ cs[i].cps[1] < Len(ms)
           /\ cs[i].cps[1] + 1 \in 1 .. Len(ms) /\ cs[i].addr \in Addr
<1>1. /\ Len(cs[i].cps) \in Nat /\ cs[i].addr \in Addr
      /\ \A m \in 1 .. Len(cs[i].cps) : cs[i].cps[m] \in Nat
  BY CtxTyped
<1>2. 1 \in 1 .. Len(cs[i].cps)
  BY <1>1
<1>3. cs[i].cps[1] < Len(ms)
  BY <1>2 DEF Nested
<1> QED
  BY <1>1, <1>2, <1>3

\* A tame routine keeps an orderly state orderly.
LEMMA OrderlyTame ==
    ASSUME NEW s, NEW t, NEW ms, NEW cs, NEW x, Orderly(s, ms, cs, x), NEW quiet,
           cs[Len(cs)].static => quiet, Tame(s, t, Deal(x), quiet)
    PROVE  Orderly(t, ms, cs, x)
<1> DEFINE g == Deal(x)
           B == Bound(s.led, g, t.ripemd.touched, quiet)
           N == Len(cs)
<1>1. /\ Sound(s) /\ Live(s, ms, cs, x.base) /\ x \in Txns /\ x.start \in Solid
      /\ x.base \in Nat /\ cs \in Seq(Context) /\ ms \in Seq(Marks) /\ N \in Nat /\ N >= 1
      /\ Len(ms) \in Nat /\ x.base <= Len(ms)
      /\ Busy(s, ms, cs, Len(ms), Len(s.journal), x) /\ Covered(s.led)
      /\ s.destroyed[x.sender] = 0
  BY OrderlyIs
<1>2. /\ Sound(t) /\ (s.ripemd.touched => t.ripemd.touched) /\ Within(s, t, B)
      /\ Covered(t.led) /\ t.destroyed[x.sender] = 0
  <2>1. g.sender = x.sender
    BY <1>1, DealIs
  <2> QED
    BY <1>1, <2>1 DEF Tame
<1>3. Live(t, ms, cs, x.base)
  <2>1. Follows(s, t)
    BY <1>1, TameFollows
  <2> QED
    BY <1>1, <2>1, LiveFollows
<1>4. Held(t, ms, x.base, Len(ms), Len(t.journal), Lawful(g, t.ripemd.touched))
  <2>1. Lawful(g, s.ripemd.touched) \subseteq Lawful(g, t.ripemd.touched)
    BY <1>2, LawfulMore
  <2>2. B \subseteq Lawful(g, t.ripemd.touched)
    BY DEF Bound
  <2>3. Within(s, t, Lawful(g, t.ripemd.touched))
    BY <1>2, <2>2, WithinMore
  <2>4. Held(s, ms, x.base, Len(ms), Len(s.journal), Lawful(g, s.ripemd.touched))
    BY <1>1 DEF Busy
  <2> HIDE DEF B, g
  <2> QED
    BY <1>1, <1>2, <2>1, <2>3, <2>4, HeldWithin
<1>5. Owns(t, ms, cs, Len(ms), Len(t.journal))
  <2> SUFFICES ASSUME NEW i \in 2 .. N, Len(cs[i].cps) >= 1
               PROVE  Held(t, ms, cs[i].cps[1], Len(ms), Len(t.journal), Own(ms, cs[i]))
    BY DEF Owns
  <2> DEFINE f == cs[i].cps[1]
             Q == Own(ms, cs[i])
  <2>1. i \in 1 .. N /\ N \in 1 .. N /\ i <= N
    BY <1>1
  <2>2. f \in Nat /\ f <= Len(ms) /\ cs[i].addr \in Addr
    <3>1. Nested(ms, cs)
      BY <1>1 DEF Live
    <3>2. f \in Nat /\ f < Len(ms) /\ cs[i].addr \in Addr
      BY <1>1, <2>1, <3>1, FirstIs
    <3> QED
      BY <1>1, <3>2
  <2>3. Held(s, ms, f, Len(ms), Len(s.journal), Q)
    BY <1>1 DEF Busy, Owns
  <2>4. s.led \in Q
    BY <2>3 DEF Held
  <2>5. cs[i].static => quiet
    BY <1>1, <2>1 DEF Busy, Shape
  <2>6. B \subseteq Q
    BY <2>2, <2>4, <2>5, BoundAllowed DEF Own
  <2> HIDE DEF B, g, f, Q
  <2>7. Within(s, t, Q)
    BY <1>2, <2>6, WithinMore
  <2>8. Held(t, ms, f, Len(ms), Len(t.journal), Q)
    BY <1>1, <1>2, <2>2, <2>3, <2>7, HeldWithin
  <2> QED
    BY <2>8 DEF f, Q
<1>6. Busy(t, ms, cs, Len(ms), Len(t.journal), x)
  BY <1>1, <1>4, <1>5 DEF Busy
<1> QED
  BY <1>1, <1>2, <1>3, <1>6 DEF Orderly

-----------------------------------------------------------------------------
(* Checkpoints and contexts.                                               *)

\* d is context c with other checkpoints above its first.
Same(c, d) ==
    /\ d.addr = c.addr /\ d.code = c.code /\ d.static = c.static /\ d.ret = c.ret
    /\ Len(d.cps) >= 1 => Len(c.cps) >= 1 /\ d.cps[1] = c.cps[1]

\* Transactions under the same laws.
Alike(x, y) == y.kind = x.kind /\ y.sender = x.sender /\ y.base = x.base /\ y.start = x.start

\* The same contexts, or fewer, have the same shape,
LEMMA ShapeSame ==
    ASSUME NEW cs, NEW ds, NEW x, NEW y, Shape(cs, x), y.kind = x.kind, y.sender = x.sender,
           Len(cs) \in Nat, Len(ds) \in Nat, Len(ds) >= 1, Len(ds) <= Len(cs),
           \A i \in 1 .. Len(ds) : Same(cs[i], ds[i])
    PROVE  Shape(ds, y)
<1>1. 1 \in 1 .. Len(ds) /\ \A i \in 1 .. Len(ds) : i \in 1 .. Len(cs)
  OBVIOUS
<1>2. \A i \in 2 .. Len(ds) : i \in 2 .. Len(cs) /\ i \in 1 .. Len(ds)
  OBVIOUS
<1>3. ~ds[1].static
  BY <1>1 DEF Shape, Same
<1>4. \A i, j \in 1 .. Len(ds) : i <= j /\ ds[i].static => ds[j].static
  BY <1>1 DEF Shape, Same
<1>5. \A i \in 2 .. Len(ds) : /\ ds[i].ret \in Constructor => ~ds[i].static
                              /\ ds[i].code = "user" => ds[i].addr # y.sender
  BY <1>2 DEF Shape, Same
<1>6. y.kind = "create" /\ Len(ds) >= 2 => ds[2].ret = "txn_create"
  <2>1. Len(ds) >= 2 => 2 \in 1 .. Len(ds) /\ Len(cs) >= 2
    OBVIOUS
  <2> QED
    BY <2>1 DEF Shape, Same
<1> QED
  BY <1>3, <1>4, <1>5, <1>6 DEF Shape

\* and are left what they are allowed.
LEMMA OwnsSame ==
    ASSUME NEW s, NEW ms, NEW cs, NEW ds, NEW c, NEW n, Owns(s, ms, cs, c, n),
           Len(cs) \in Nat, Len(ds) \in Nat, Len(ds) <= Len(cs),
           \A i \in 1 .. Len(ds) : Same(cs[i], ds[i])
    PROVE  Owns(s, ms, ds, c, n)
<1> SUFFICES ASSUME NEW i \in 2 .. Len(ds), Len(ds[i].cps) >= 1
             PROVE  Held(s, ms, ds[i].cps[1], c, n, Own(ms, ds[i]))
  BY DEF Owns
<1>1. i \in 2 .. Len(cs) /\ i \in 1 .. Len(ds)
  OBVIOUS
<1>2. Same(cs[i], ds[i])
  BY <1>1
<1>3. Len(cs[i].cps) >= 1 /\ ds[i].cps[1] = cs[i].cps[1]
  BY <1>2 DEF Same
<1>4. Own(ms, ds[i]) = Own(ms, cs[i])
  BY <1>2, <1>3 DEF Own, Allowed, Same
<1>5. Held(s, ms, cs[i].cps[1], c, n, Own(ms, cs[i]))
  BY <1>1, <1>3 DEF Owns
<1> QED
  BY <1>3, <1>4, <1>5

\* Other checkpoints, fewer contexts.
LEMMA OrderlyChange ==
    ASSUME NEW s, NEW ms, NEW cs, NEW ds, NEW x, NEW y \in Txns, Orderly(s, ms, cs, x),
           Alike(x, y), Live(s, ms, ds, x.base), Len(ds) <= Len(cs),
           \A i \in 1 .. Len(ds) : Same(cs[i], ds[i]), ds[1].cps = cs[1].cps
    PROVE  Orderly(s, ms, ds, y)
<1>1. /\ Len(cs) \in Nat /\ Busy(s, ms, cs, Len(ms), Len(s.journal), x) /\ Covered(s.led)
      /\ s.destroyed[x.sender] = 0 /\ x.start \in Solid
  BY OrderlyIs
<1>2. Len(ds) \in Nat /\ Len(ds) >= 1
  BY DEF Live, Stack
<1>3. Shape(ds, y)
  BY <1>1, <1>2, ShapeSame DEF Busy, Alike
<1>4. Owns(s, ms, ds, Len(ms), Len(s.journal))
  BY <1>1, <1>2, OwnsSame DEF Busy
<1>5. Creating(ms, ds, y)
  BY <1>1 DEF Busy, Creating, Undone, Alike
<1>6. Deal(y) = Deal(x) /\ y.base = x.base
  BY DEF Deal, Alike
<1>7. Busy(s, ms, ds, Len(ms), Len(s.journal), y)
  BY <1>1, <1>3, <1>4, <1>5, <1>6 DEF Busy
<1> QED
  BY <1>1, <1>7 DEF Orderly, Alike

\* A new mark.
LEMMA OrderlyMark ==
    ASSUME NEW s, NEW ms, NEW cs, NEW x, Orderly(s, ms, cs, x)
    PROVE  Orderly(s, Append(ms, Mark(s)), cs, x)
<1> DEFINE ns == Append(ms, Mark(s))
           n == Len(s.journal)
<1>1. /\ Sound(s) /\ Live(s, ms, cs, x.base) /\ x.base \in Nat /\ Len(cs) \in Nat
      /\ cs \in Seq(Context) /\ ms \in Seq(Marks) /\ Len(ms) \in Nat /\ x.base <= Len(ms)
      /\ Busy(s, ms, cs, Len(ms), n, x) /\ Covered(s.led)
      /\ s.destroyed[x.sender] = 0 /\ x \in Txns /\ x.start \in Solid
  BY OrderlyIs
<1>2. /\ Len(ns) = Len(ms) + 1 /\ \A m \in 1 .. Len(ms) : ns[m] = ms[m]
      /\ ns[Len(ms) + 1].led = s.led
  BY <1>1, MarkIs
<1>3. Live(s, ns, cs, x.base)
  BY <1>1, LiveMark
<1>4. Held(s, ns, x.base, Len(ms) + 1, n, Lawful(Deal(x), s.ripemd.touched))
  <2> DEFINE Q == Lawful(Deal(x), s.ripemd.touched)
  <2>1. Held(s, ms, x.base, Len(ms), n, Q)
    BY <1>1 DEF Busy
  <2> HIDE DEF Q
  <2>2. Held(s, ns, x.base, Len(ms) + 1, n, Q)
    BY <1>1, <2>1, HeldMark
  <2> QED
    BY <2>2 DEF Q
<1>5. Owns(s, ns, cs, Len(ms) + 1, n)
  <2> SUFFICES ASSUME NEW i \in 2 .. Len(cs), Len(cs[i].cps) >= 1
               PROVE  Held(s, ns, cs[i].cps[1], Len(ms) + 1, n, Own(ns, cs[i]))
    BY DEF Owns
  <2> DEFINE f == cs[i].cps[1]
             Q == Own(ms, cs[i])
  <2>1. i \in 1 .. Len(cs) /\ Nested(ms, cs)
    BY <1>1 DEF Live
  <2>2. f \in Nat /\ f < Len(ms) /\ f + 1 \in 1 .. Len(ms)
    BY <1>1, <2>1, FirstIs
  <2>3. Held(s, ms, f, Len(ms), n, Q)
    BY <1>1 DEF Busy, Owns
  <2>4. Own(ns, cs[i]) = Q
    BY <1>2, <2>2 DEF Own
  <2>5. f <= Len(ms)
    BY <1>1, <2>2
  <2> HIDE DEF Q, f, ns
  <2>6. Held(s, Append(ms, Mark(s)), f, Len(ms) + 1, n, Q)
    BY <1>1, <2>2, <2>3, <2>5, HeldMark
  <2> QED
    BY <2>4, <2>6 DEF f, ns
<1>6. MarksCovered(ns, x.base)
  <2> SUFFICES ASSUME NEW m \in x.base + 1 .. Len(ms) + 1
               PROVE  Covered(ns[m].led)
    BY <1>2 DEF MarksCovered
  <2>1. CASE m = Len(ms) + 1
    BY <1>1, <1>2, <2>1
  <2>2. CASE m # Len(ms) + 1
    <3>1. m \in x.base + 1 .. Len(ms) /\ m \in 1 .. Len(ms)
      BY <1>1, <2>2
    <3> QED
      BY <1>1, <1>2, <3>1 DEF Busy, MarksCovered
  <2> QED
    BY <2>1, <2>2
<1>7. Creating(ns, cs, x)
  <2> SUFFICES ASSUME x.kind = "create"
               PROVE  /\ x.base < Len(ns) /\ Undone(ns[x.base + 1].led, x)
                      /\ Len(cs[1].cps) >= 1 /\ cs[1].cps[Len(cs[1].cps)] = x.base
    BY DEF Creating
  <2>1. /\ x.base < Len(ms) /\ Undone(ms[x.base + 1].led, x)
        /\ Len(cs[1].cps) >= 1 /\ cs[1].cps[Len(cs[1].cps)] = x.base
    BY <1>1 DEF Busy, Creating
  <2>2. x.base + 1 \in 1 .. Len(ms) /\ x.base < Len(ns)
    BY <1>1, <1>2, <2>1
  <2> QED
    BY <1>2, <2>1, <2>2
<1> HIDE DEF ns
<1>8. Busy(s, ns, cs, Len(ns), n, x)
  BY <1>1, <1>2, <1>4, <1>5, <1>6, <1>7 DEF Busy
<1> QED
  BY <1>1, <1>3, <1>8 DEF Orderly, ns

\* %checkpoint.
LEMMA OrderlyCheckpoint ==
    ASSUME NEW s, NEW ms, NEW cs, NEW x, Orderly(s, ms, cs, x), Len(cs) >= 2,
           Len(cs[Len(cs)].cps) >= 1
    PROVE  Orderly(s, Append(ms, Mark(s)), WithCheckpoint(cs, ms), x)
<1> DEFINE ns == Append(ms, Mark(s))
           N == Len(cs)
           q == Append(cs[N].cps, Len(ms))
           ds == SetCps(cs, q)
<1>1. /\ Live(s, ms, cs, x.base) /\ cs \in Seq(Context) /\ Len(ms) \in Nat /\ N \in Nat
      /\ x \in Txns
  BY OrderlyIs
<1>2. WithCheckpoint(cs, ms) = ds
  BY DEF WithCheckpoint, SetCps
<1>3. Live(s, ns, ds, x.base)
  BY <1>1, <1>2, LiveCheckpoint
<1>4. Orderly(s, ns, cs, x)
  BY OrderlyMark
<1>5. cs[N].cps \in Seq(Nat) /\ N \in 1 .. N
  BY <1>1, CtxTyped
<1>6. q \in Seq(Nat) /\ Len(q) >= 1 /\ q[1] = cs[N].cps[1]
  BY <1>1, <1>5
<1> HIDE DEF q
<1>7. /\ Len(ds) = N
      /\ \A i \in 1 .. N :
            /\ ds[i].addr = cs[i].addr /\ ds[i].code = cs[i].code
            /\ ds[i].static = cs[i].static /\ ds[i].ret = cs[i].ret
            /\ i # N => ds[i] = cs[i]
      /\ ds[N].cps = q
  BY <1>1, <1>6, SetCpsIs
<1> HIDE DEF ds, ns
<1>8. \A i \in 1 .. Len(ds) : Same(cs[i], ds[i])
  BY <1>6, <1>7 DEF Same
<1>9. ds[1].cps = cs[1].cps
  BY <1>1, <1>7
<1>10. Alike(x, x) /\ Len(ds) <= N
  BY <1>1, <1>7 DEF Alike
<1>11. Orderly(s, ns, ds, x)
  BY <1>1, <1>3, <1>4, <1>8, <1>9, <1>10, OrderlyChange
<1> QED
  BY <1>2, <1>11 DEF ns

\* The new context is left what it is allowed, and so are the others.
LEMMA OrderlyPush ==
    ASSUME NEW s, NEW ms, NEW cs, NEW x, Orderly(s, ms, cs, x),
           NEW a \in Addr, NEW code \in {"user", "none", "precompile"},
           NEW static \in BOOLEAN, NEW ret,
           MayEnter(cs, x.base, ret),
           ret \in Constructor => code = "user" /\ ~static /\ s.led.acct[a].nonce # 0,
           code = "user" => Firm(s.led, a) /\ a # x.sender,
           cs[Len(cs)].static => static,
           x.kind = "create" /\ Len(cs) = 1 => ret = "txn_create"
    PROVE  Orderly(s, Append(ms, Mark(s)), Append(cs, NewCtx(a, code, static, ret, ms)), x)
<1> DEFINE ns == Append(ms, Mark(s))
           d == NewCtx(a, code, static, ret, ms)
           ds == Append(cs, d)
           N == Len(cs)
           n == Len(s.journal)
<1>1. /\ Sound(s) /\ Live(s, ms, cs, x.base) /\ cs \in Seq(Context) /\ ms \in Seq(Marks)
      /\ N \in Nat /\ N >= 1 /\ Len(ms) \in Nat /\ x \in Txns /\ x.start \in Solid
      /\ Covered(s.led) /\ s.destroyed[x.sender] = 0
  BY OrderlyIs
<1>2. Live(s, ns, ds, x.base)
  <2>1. ret \in {"create", "txn_create"} => code = "user"
    BY DEF Constructor
  <2>2. code = "user" => s.led.acct[a].exists
    BY DEF Firm
  <2> QED
    BY <1>1, <2>1, <2>2, LivePush
<1>3. Orderly(s, ns, cs, x)
  BY OrderlyMark
<1>4. Busy(s, ns, cs, Len(ns), n, x) /\ Len(ns) = Len(ms) + 1 /\ ns[Len(ms) + 1].led = s.led
  BY <1>1, <1>3, OrderlyIs, MarkIs
<1>5. /\ Len(ds) = N + 1 /\ ds[N + 1] = d /\ \A i \in 1 .. N : ds[i] = cs[i]
  BY <1>1
<1>6. /\ d.addr = a /\ d.code = code /\ d.static = static /\ d.ret = ret /\ d.cps = <<Len(ms)>>
  BY DEF NewCtx
<1>7. s.led \in Allowed(d, s.led)
  <2>1. s.led \in Solid
    BY <1>1 DEF Sound
  <2> QED
    BY <1>6, <2>1 DEF Allowed
<1> HIDE DEF d
<1>8. Held(s, ns, Len(ms), Len(ms) + 1, n, Allowed(d, s.led))
  <2> DEFINE Q == Allowed(d, s.led)
  <2>1. Held(s, ms, Len(ms), Len(ms), n, Q)
    BY <1>1, <1>7 DEF Held
  <2>2. Len(ms) <= Len(ms)
    BY <1>1
  <2> HIDE DEF Q
  <2>3. Held(s, ns, Len(ms), Len(ms) + 1, n, Q)
    BY <1>1, <2>1, <2>2, HeldMark
  <2> QED
    BY <2>3 DEF Q
<1> HIDE DEF ns, ds
<1>9. Owns(s, ns, ds, Len(ns), n)
  <2> SUFFICES ASSUME NEW i \in 2 .. N + 1, Len(ds[i].cps) >= 1
               PROVE  Held(s, ns, ds[i].cps[1], Len(ns), n, Own(ns, ds[i]))
    BY <1>5 DEF Owns
  <2>1. CASE i = N + 1
    <3>1. ds[i] = d /\ d.cps[1] = Len(ms)
      BY <1>5, <1>6, <2>1
    <3>2. Own(ns, d) = Allowed(d, s.led)
      BY <1>4, <3>1 DEF Own
    <3> QED
      BY <1>4, <1>8, <3>1, <3>2
  <2>2. CASE i # N + 1
    <3>1. i \in 2 .. N /\ i \in 1 .. N
      BY <1>1, <2>2
    <3>2. ds[i] = cs[i]
      BY <1>5, <3>1
    <3> QED
      BY <1>4, <3>1, <3>2 DEF Busy, Owns
  <2> QED
    BY <2>1, <2>2
<1>10. Shape(ds, x)
  <2>1. Shape(cs, x)
    BY <1>4 DEF Busy
  <2>2. 1 \in 1 .. N /\ N \in 1 .. N
    BY <1>1
  <2>3. ~ds[1].static
    BY <1>5, <2>1, <2>2 DEF Shape
  <2>4. ASSUME NEW i \in 1 .. N + 1, NEW j \in 1 .. N + 1, i <= j, ds[i].static
        PROVE  ds[j].static
    <3>1. CASE j = N + 1 /\ i = N + 1
      BY <2>4, <3>1
    <3>2. CASE j = N + 1 /\ i # N + 1
      <4>1. i \in 1 .. N /\ i <= N
        BY <1>1, <3>2
      <4>2. cs[N].static
        BY <1>5, <2>1, <2>2, <2>4, <4>1 DEF Shape
      <4> QED
        BY <1>5, <1>6, <3>2, <4>2
    <3>3. CASE j # N + 1
      <4>1. i \in 1 .. N /\ j \in 1 .. N
        BY <1>1, <2>4, <3>3
      <4> QED
        BY <1>5, <2>1, <2>4, <4>1 DEF Shape
    <3> QED
      BY <3>1, <3>2, <3>3
  <2>5. ASSUME NEW i \in 2 .. N + 1
        PROVE  /\ ds[i].ret \in Constructor => ~ds[i].static
               /\ ds[i].code = "user" => ds[i].addr # x.sender
    <3>1. CASE i = N + 1
      BY <1>5, <1>6, <3>1
    <3>2. CASE i # N + 1
      <4>1. i \in 2 .. N /\ i \in 1 .. N
        BY <1>1, <3>2
      <4> QED
        BY <1>5, <2>1, <4>1 DEF Shape
    <3> QED
      BY <3>1, <3>2
  <2>6. x.kind = "create" => ds[2].ret = "txn_create"
    <3>1. CASE N = 1
      BY <1>5, <1>6, <3>1
    <3>2. CASE N # 1
      <4>0. N \in Nat /\ N >= 1
        BY <1>1
      <4> HIDE DEF N
      <4>1. 2 \in 1 .. N /\ N >= 2
        BY <3>2, <4>0
      <4> USE DEF N
      <4> QED
        BY <1>5, <2>1, <4>1 DEF Shape
    <3> QED
      BY <3>1, <3>2
  <2> QED
    BY <1>5, <2>3, <2>4, <2>5, <2>6 DEF Shape
<1>11. Creating(ns, ds, x)
  <2>1. ds[1] = cs[1]
    BY <1>1, <1>5
  <2> QED
    BY <1>4, <2>1 DEF Busy, Creating
<1>12. Busy(s, ns, ds, Len(ns), n, x)
  BY <1>4, <1>9, <1>10, <1>11 DEF Busy
<1>13. Orderly(s, ns, ds, x)
  BY <1>1, <1>2, <1>12 DEF Orderly
<1> QED
  BY <1>13 DEF ns, ds, d

\* Leaving a context.
LEMMA OrderlyPopCtx ==
    ASSUME NEW s, NEW ms, NEW cs, NEW x, Orderly(s, ms, cs, x), Len(cs) >= 2,
           NEW y \in Txns, Alike(x, y)
    PROVE  Orderly(s, ms, SubSeq(cs, 1, Len(cs) - 1), y)
<1> DEFINE ds == SubSeq(cs, 1, Len(cs) - 1)
<1>1. Live(s, ms, cs, x.base) /\ Len(cs) \in Nat
  BY OrderlyIs
<1>2. /\ Live(s, ms, ds, x.base) /\ Len(ds) = Len(cs) - 1
      /\ \A i \in 1 .. Len(ds) : ds[i] = cs[i]
  BY <1>1, LivePopCtx
<1> HIDE DEF ds
<1>3. \A i \in 1 .. Len(ds) : Same(cs[i], ds[i])
  BY <1>2 DEF Same
<1>4. ds[1].cps = cs[1].cps /\ Len(ds) <= Len(cs)
  BY <1>1, <1>2
<1>5. Orderly(s, ms, ds, y)
  BY <1>2, <1>3, <1>4, OrderlyChange
<1> QED
  BY <1>5 DEF ds

\* %pop_checkpoint.
LEMMA PopSame ==
    ASSUME NEW cs \in Seq(Context), Len(cs) >= 1, Len(cs[Len(cs)].cps) >= 1
    PROVE  LET ds == PopCheckpoint(cs) IN
           /\ Len(ds) = Len(cs) /\ \A i \in 1 .. Len(ds) : Same(cs[i], ds[i])
           /\ \A i \in 1 .. Len(cs) : i # Len(cs) => ds[i] = cs[i]
<1> DEFINE N == Len(cs)
           q == SubSeq(cs[N].cps, 1, Len(cs[N].cps) - 1)
           ds == SetCps(cs, q)
<1>1. PopCheckpoint(cs) = ds
  BY DEF PopCheckpoint, SetCps
<1>2. N \in Nat /\ N \in 1 .. N
  OBVIOUS
<1>3. cs[N].cps \in Seq(Nat) /\ Len(cs[N].cps) \in Nat
  BY <1>2, CtxTyped
<1>4. q \in Seq(Nat) /\ (Len(q) >= 1 => q[1] = cs[N].cps[1])
  BY <1>3
<1> HIDE DEF q
<1>5. /\ Len(ds) = N
      /\ \A i \in 1 .. N :
            /\ ds[i].addr = cs[i].addr /\ ds[i].code = cs[i].code
            /\ ds[i].static = cs[i].static /\ ds[i].ret = cs[i].ret
            /\ i # N => ds[i] = cs[i]
      /\ ds[N].cps = q
  BY <1>2, <1>4, SetCpsIs
<1> HIDE DEF ds
<1>6. \A i \in 1 .. Len(ds) : Same(cs[i], ds[i])
  BY <1>4, <1>5 DEF Same
<1> QED
  BY <1>1, <1>5, <1>6

LEMMA OrderlyPopCp ==
    ASSUME NEW s, NEW ms, NEW cs, NEW x, Orderly(s, ms, cs, x), Len(cs) >= 2,
           Len(cs[Len(cs)].cps) >= 1
    PROVE  Orderly(s, ms, PopCheckpoint(cs), x)
<1> DEFINE ds == PopCheckpoint(cs)
<1>1. Live(s, ms, cs, x.base) /\ Len(cs) \in Nat /\ cs \in Seq(Context) /\ x \in Txns
  BY OrderlyIs
<1>2. Live(s, ms, ds, x.base)
  BY <1>1, LivePopCp
<1>3. /\ Len(ds) = Len(cs) /\ \A i \in 1 .. Len(ds) : Same(cs[i], ds[i])
      /\ ds[1] = cs[1]
  BY <1>1, PopSame
<1> HIDE DEF ds
<1>4. Alike(x, x)
  BY DEF Alike
<1>5. Orderly(s, ms, ds, x)
  BY <1>1, <1>2, <1>3, <1>4, OrderlyChange
<1> QED
  BY <1>5 DEF ds

-----------------------------------------------------------------------------
(* The inductive invariant.                                                *)

\* Nothing is warm, nothing is to be refunded, nothing is to be deleted.
Resting(s) ==
    /\ s.led.refund = 0
    /\ \A a \in Addr : s.destroyed[a] = 0 /\ \A i \in Slot : s.led.orig[a][i] = Cold

\* What transaction x leaves to the next one.
Settled(s, x) ==
    /\ Resting(s)
    /\ x.kind \in {"msg", "create"} =>
          s.led.acct[x.sender].nonce = x.start.acct[x.sender].nonce + 1
    /\ \A a \in Addr : ~is_empty(s.led, a)
    /\ Supply(s.led) <= Supply(x.start)

\* In the kernel's own context, before the transaction is settled.
Closing == {"txn_msg", "fault", "finish", "panic_fail"}

Kept(s, ms, cs, p, r, x) ==
    /\ x.start \in Solid /\ ~cs[1].static
    /\ Executing(p) => Orderly(s, ms, cs, x)
    /\ p = "undo" => Busy(s, ms, cs, r.cp, r.size, x) /\ s.destroyed[x.sender] = 0
    /\ p \in Closing => Abides(s, Deal(x)) /\ s.destroyed[x.sender] = 0
    /\ p = "create" => ~cs[Len(cs)].static
    /\ p \in Constructor /\ x.ok => x.callee # x.sender /\ s.led.acct[x.callee].nonce # 0
    /\ p = "txn_msg" => x.kind # "create"
    /\ x.kind = "create" /\ (p = "fault" \/ (p = "finish" /\ ~x.ok)) => Undone(s.led, x)
    /\ p = "idle" => Settled(s, x)
    /\ p = "halt" => Resting(s) /\ \E v \in Amounts : Supply(s.led) <= Supply(x.start) + v

TxnInv == Kept(k, marks, ctxs, pc, rv, txn)

LEMMA KeptExec ==
    ASSUME NEW s, NEW ms, NEW cs, NEW x, Orderly(s, ms, cs, x), NEW r,
           NEW p \in {"user", "terminate", "call"}
    PROVE  Kept(s, ms, cs, p, r, x)
<1>1. x.start \in Solid /\ ~cs[1].static
  BY DEF Orderly, Busy, Shape
<1> QED
  BY <1>1 DEF Kept, Executing, Closing, Constructor

LEMMA KeptUndo ==
    ASSUME NEW s, NEW ms, NEW cs, NEW x, Orderly(s, ms, cs, x), NEW r,
           r.cp = Len(ms), r.size = Len(s.journal), NEW p, p = "undo"
    PROVE  Kept(s, ms, cs, p, r, x)
<1>1. /\ x.start \in Solid /\ ~cs[1].static /\ Busy(s, ms, cs, r.cp, r.size, x)
      /\ s.destroyed[x.sender] = 0
  BY DEF Orderly, Busy, Shape
<1> QED
  BY <1>1 DEF Kept, Executing, Closing, Constructor

\* Where user code runs.
LEMMA InUser ==
    ASSUME KernelInv, TxnInv, pc = "user"
    PROVE  /\ Orderly(k, marks, ctxs, txn) /\ Abides(k, Deal(txn)) /\ Sound(k)
           /\ Covered(k.led) /\ txn \in Txns /\ txn.start \in Solid /\ txn.sender \in Addr
           /\ Deal(txn).sender = txn.sender /\ Deal(txn).start = txn.start
           /\ Deal(txn).cap \in Int
           /\ Len(ctxs) \in Nat /\ Len(ctxs) >= 2
           /\ Len(ctxs[Len(ctxs)].cps) >= 1 /\ Self \in Addr /\ Top = ctxs[Len(ctxs)]
           /\ Top.code = "user" => Firm(k.led, Self) /\ Self # txn.sender
           /\ Top.ret \in Constructor => Top.code = "user" /\ k.led.acct[Self].nonce # 0
<1> DEFINE N == Len(ctxs)
<1>1. Orderly(k, marks, ctxs, txn)
  BY DEF TxnInv, Kept, Executing
<1>2. /\ Abides(k, Deal(txn)) /\ Sound(k) /\ Covered(k.led)
      /\ txn \in Txns /\ txn.start \in Solid /\ txn.sender \in Addr
      /\ Busy(k, marks, ctxs, Len(marks), Len(k.journal), txn)
      /\ Live(k, marks, ctxs, txn.base)
  BY <1>1, OrderlyIs
<1>3. /\ N \in Nat /\ N >= 2 /\ Len(ctxs[N].cps) >= 1 /\ Self \in Addr
      /\ Top = ctxs[N]
  BY AtUser DEF Top
<1>4. N \in 2 .. N
  BY <1>3
<1>5. k.led \in Own(marks, Top)
  BY <1>2, <1>3, <1>4 DEF Busy, Owns, Held
<1>6. Top.code = "user" => Firm(k.led, Self) /\ Self # txn.sender
  BY <1>2, <1>3, <1>4, <1>5 DEF Busy, Shape, Own, Allowed, Self
<1>7. Top.ret \in Constructor => Top.code = "user" /\ k.led.acct[Self].nonce # 0
  BY <1>2, <1>3, <1>4, <1>5 DEF Live, Stack, Own, Allowed, Self, Constructor
<1>8. Deal(txn).sender = txn.sender /\ Deal(txn).start = txn.start /\ Deal(txn).cap \in Int
  BY <1>2, DealIs
<1> QED
  BY <1>1, <1>2, <1>3, <1>6, <1>7, <1>8

\* A system call that returns,
LEMMA ResumeKept ==
    ASSUME pc = "user", NEW s, NEW ms, NEW cs, Orderly(s, ms, cs, txn), Resume(s, ms, cs)
    PROVE  TxnInv'
<1> DEFINE p == "user"
<1>1. k' = s /\ marks' = ms /\ ctxs' = cs /\ pc' = p /\ rv' = rv /\ txn' = txn
  BY DEF Resume
<1>2. p \in {"user", "terminate", "call"}
  OBVIOUS
<1> HIDE DEF p
<1>3. Kept(s, ms, cs, p, rv, txn)
  BY <1>2, KeptExec
<1> QED
  BY <1>1, <1>3 DEF TxnInv

\* one whose routines are tame,
LEMMA ResumeTame ==
    ASSUME KernelInv, TxnInv, pc = "user", NEW s, NEW quiet, Top.static => quiet,
           Tame(k, s, Deal(txn), quiet), Resume(s, marks, ctxs)
    PROVE  TxnInv'
<1>1. Orderly(s, marks, ctxs, txn)
  BY InUser, OrderlyTame
<1> QED
  BY <1>1, ResumeKept

\* a revert,
LEMMA RevertKept ==
    ASSUME NEW s, NEW ms, NEW cs, NEW x, Orderly(s, ms, cs, x),
           NEW next, StartRevert(s, ms, cs, next), txn' = x, pc' # "panic"
    PROVE  TxnInv'
<1> DEFINE p == "undo"
           c == cs[Len(cs)].cps
           r == [target |-> c[Len(c)], cp |-> Len(ms), size |-> Len(s.journal), next |-> next]
<1>1. k' = s /\ marks' = ms /\ ctxs' = cs /\ pc' = p /\ rv' = r /\ txn' = x
  BY DEF StartRevert
<1>2. p = "undo" /\ r.cp = Len(ms) /\ r.size = Len(s.journal)
  OBVIOUS
<1> HIDE DEF p, r
<1>3. Kept(s, ms, cs, p, r, x)
  BY <1>2, KeptUndo
<1> QED
  BY <1>1, <1>3 DEF TxnInv

\* an exception after tame routines,
LEMMA FaultTame ==
    ASSUME KernelInv, KernelInv', TxnInv, pc = "user", NEW s, NEW quiet, Top.static => quiet,
           Tame(k, s, Deal(txn), quiet), fault_exception(s)
    PROVE  TxnInv'
<1>1. Orderly(s, marks, ctxs, txn)
  BY InUser, OrderlyTame
<1>2. pc' # "panic"
  BY DEF KernelInv, Good, AtLabel
<1>3. StartRevert(s, marks, ctxs, "terminate") /\ txn' = txn
  BY DEF fault_exception
<1> DEFINE nx == "terminate"
<1>4. StartRevert(s, marks, ctxs, nx)
  BY <1>3
<1> HIDE DEF nx
<1> QED
  BY <1>1, <1>2, <1>3, <1>4, RevertKept

\* and enter_new_ctx keep the invariant.
LEMMA EnterKept ==
    ASSUME NEW s, NEW ms, NEW cs, NEW x, Orderly(s, ms, cs, x),
           NEW a \in Addr, NEW code \in {"user", "none", "precompile"},
           NEW static \in BOOLEAN, NEW ret,
           MayEnter(cs, x.base, ret),
           ret \in Constructor => code = "user" /\ ~static /\ s.led.acct[a].nonce # 0,
           code = "user" => Firm(s.led, a) /\ a # x.sender,
           cs[Len(cs)].static => static,
           x.kind = "create" /\ Len(cs) = 1 => ret = "txn_create",
           Enter(s, ms, cs, a, code, static, ret), txn' = x
    PROVE  TxnInv'
<1> DEFINE ns == Append(ms, Mark(s))
           ds == Append(cs, NewCtx(a, code, static, ret, ms))
           p == "user"
<1>1. Orderly(s, ns, ds, x)
  BY OrderlyPush
<1>2. k' = s /\ marks' = ns /\ ctxs' = ds /\ pc' = p /\ rv' = rv
  BY DEF Enter
<1>3. p \in {"user", "terminate", "call"}
  OBVIOUS
<1> HIDE DEF ns, ds, p
<1>4. Kept(s, ns, ds, p, rv, x)
  BY <1>1, <1>3, KeptExec
<1> QED
  BY <1>2, <1>4 DEF TxnInv

\* terminate_common.
LEMMA TerminateKept ==
    ASSUME NEW s, Orderly(s, marks, ctxs, txn), Len(ctxs) >= 2, NEW ok \in BOOLEAN,
           ok /\ Top.ret \in Constructor => s.led.acct[Self].nonce # 0 /\ Self # txn.sender,
           Terminate(s, ok)
    PROVE  TxnInv'
<1> DEFINE N == Len(ctxs)
           ds == SubSeq(ctxs, 1, N - 1)
           x == [txn EXCEPT !.ok = ok, !.callee = Self]
           p == Top.ret
<1>1. /\ Live(s, marks, ctxs, txn.base) /\ ctxs \in Seq(Context) /\ N \in Nat
      /\ txn \in Txns /\ Busy(s, marks, ctxs, Len(marks), Len(s.journal), txn)
  BY OrderlyIs
<1>2. N \in 1 .. N /\ N \in 2 .. N /\ N - 1 \in 1 .. N /\ N - 1 <= N
  BY <1>1
<1>3. Self \in Addr
  BY <1>1, <1>2, CtxTyped DEF Self, Top
<1>4. x \in Txns /\ x.ok = ok /\ x.callee = Self /\ Alike(txn, x)
  BY <1>1, <1>3 DEF Txns, Alike
<1>5. k' = s /\ marks' = marks /\ ctxs' = ds /\ pc' = p /\ rv' = rv /\ txn' = x
  BY DEF Terminate
<1>6. Len(ds) = N - 1 /\ \A i \in 1 .. N - 1 : ds[i] = ctxs[i]
  BY <1>1, LivePopCtx
<1> HIDE DEF x
<1>7. Orderly(s, marks, ds, x)
  BY <1>4, OrderlyPopCtx
<1> HIDE DEF ds
<1>8. /\ N = 2 => p \in {"txn_create", "txn_msg"}
      /\ N > 2 => p \in {"call", "create"}
  BY <1>1, <1>2 DEF Live, Stack, Top
<1>9. N = 2 \/ N > 2
  <2> HIDE DEF N
  <2> QED
    BY <1>1, <1>2
<1>10. p = "create" => ~ds[Len(ds)].static
  <2> SUFFICES ASSUME p = "create"
               PROVE  ~ds[Len(ds)].static
    OBVIOUS
  <2>1. ~ctxs[N].static
    BY <1>1, <1>2 DEF Busy, Shape, Top, Constructor
  <2>2. ~ctxs[N - 1].static
    BY <1>1, <1>2, <2>1 DEF Busy, Shape
  <2>3. N - 1 \in 1 .. N - 1
    <3> HIDE DEF N
    <3> QED
      BY <1>1, <1>2
  <2> QED
    BY <1>6, <2>2, <2>3
<1>11. p \in Constructor /\ x.ok => x.callee # x.sender /\ s.led.acct[x.callee].nonce # 0
  BY <1>4 DEF Alike
<1>12. p = "txn_msg" => x.kind # "create"
  <2> SUFFICES ASSUME p = "txn_msg"
               PROVE  x.kind # "create"
    OBVIOUS
  <2>1. N = 2
    BY <1>8, <1>9
  <2> QED
    BY <1>1, <1>4, <2>1 DEF Busy, Shape, Top, Alike
<1>13. x.start \in Solid /\ ~ds[1].static /\ Abides(s, Deal(x)) /\ s.destroyed[x.sender] = 0
  BY <1>7, OrderlyIs DEF Busy, Shape
<1>14. p \in {"call", "create", "txn_create", "txn_msg"}
  BY <1>8, <1>9
<1> HIDE DEF p
<1>15. Kept(s, marks, ds, p, rv, x)
  BY <1>7, <1>10, <1>11, <1>12, <1>13, <1>14 DEF Kept, Closing
<1> QED
  BY <1>5, <1>15 DEF TxnInv

-----------------------------------------------------------------------------
(* System calls.                                                           *)

\* One lemma per system call: sys_sstore,
LEMMA SStoreKept ==
    ASSUME KernelInv, KernelInv', TxnInv, NEW i \in Slot, NEW v \in Vals, sys_sstore(i, v)
    PROVE  TxnInv'
<1> DEFINE s == insert_accessed_storage_keys(k, Self, i)
           t == SStore(s, Self, i, v)
           g == Deal(txn)
<1>1. pc = "user" /\ Top.code = "user" /\ ~Top.static
  BY DEF sys_sstore, Running
<1>2. /\ Abides(k, g) /\ Sound(k) /\ Covered(k.led) /\ Self \in Addr /\ Firm(k.led, Self)
      /\ v \in Val
  BY <1>1, InUser, KernelAssumption DEF Val
<1>3. Resume(t, marks, ctxs) \/ fault_exception(s)
  BY DEF sys_sstore
<1> SUFFICES ASSUME NEW quiet, ~quiet
             PROVE  TxnInv'
  OBVIOUS
<1>4. Tame(k, s, g, quiet) /\ s.led.orig[Self][i] # Cold /\ s.led.acct = k.led.acct
  BY <1>2, KeyLoadedTame
<1> HIDE DEF s
<1>5. Abides(s, g) /\ Covered(s.led) /\ s.led.acct[Self].exists
  <2>1. Abides(s, g)
    BY <1>2, <1>4, TameIs
  <2> QED
    BY <1>2, <1>4, <2>1 DEF Tame, Firm
<1>6. Tame(s, t, g, quiet)
  BY <1>2, <1>4, <1>5, SStoreTame
<1> HIDE DEF t
<1>7. Tame(k, t, g, quiet)
  BY <1>2, <1>4, <1>6, TameTrans
<1>8. CASE Resume(t, marks, ctxs)
  BY <1>1, <1>7, <1>8, ResumeTame
<1>9. CASE fault_exception(s)
  BY <1>1, <1>4, <1>9, FaultTame
<1> QED
  BY <1>3, <1>8, <1>9

\* sys_sload,
LEMMA SLoadKept ==
    ASSUME KernelInv, KernelInv', TxnInv, NEW i \in Slot, sys_sload(i)
    PROVE  TxnInv'
<1> DEFINE s == insert_accessed_storage_keys(k, Self, i)
<1>1. pc = "user"
  BY DEF sys_sload, Running
<1> SUFFICES ASSUME NEW quiet, Top.static => quiet
             PROVE  TxnInv'
  OBVIOUS
<1>2. Tame(k, s, Deal(txn), quiet)
  BY <1>1, InUser, KeyLoadedTame
<1>3. Resume(s, marks, ctxs) \/ fault_exception(s)
  BY DEF sys_sload
<1> HIDE DEF s
<1> QED
  BY <1>1, <1>2, <1>3, ResumeTame, FaultTame

\* sys_tstore,
LEMMA TStoreKept ==
    ASSUME KernelInv, TxnInv, NEW i \in Slot, NEW v \in Vals, sys_tstore(i, v)
    PROVE  TxnInv'
<1> DEFINE s == TStore(k, Self, i, v)
<1>1. pc = "user" /\ Resume(s, marks, ctxs) /\ ~Top.static
  BY DEF sys_tstore, Running
<1> SUFFICES ASSUME NEW quiet, ~quiet
             PROVE  TxnInv'
  OBVIOUS
<1>2. Abides(k, Deal(txn)) /\ Self \in Addr /\ v \in Val
  BY <1>1, InUser, KernelAssumption DEF Val
<1>3. Tame(k, s, Deal(txn), quiet)
  BY <1>2, TStoreTame
<1> HIDE DEF s
<1> QED
  BY <1>1, <1>3, ResumeTame

\* sys_log0 .. sys_log4,
LEMMA LogKept ==
    ASSUME KernelInv, TxnInv, NEW n \in {0, 1}, sys_log(n)
    PROVE  TxnInv'
<1> DEFINE s == log_n(k, n)
<1>1. pc = "user" /\ Resume(s, marks, ctxs) /\ ~Top.static
  BY DEF sys_log, Running
<1> SUFFICES ASSUME NEW quiet, ~quiet
             PROVE  TxnInv'
  OBVIOUS
<1>2. Abides(k, Deal(txn)) /\ n \in Nat
  BY <1>1, InUser
<1>3. Tame(k, s, Deal(txn), quiet)
  BY <1>2, LogTame
<1> HIDE DEF s
<1> QED
  BY <1>1, <1>3, ResumeTame

\* sys_balance and its siblings,
LEMMA BalanceKept ==
    ASSUME KernelInv, KernelInv', TxnInv, NEW a \in Addr, sys_balance(a)
    PROVE  TxnInv'
<1> DEFINE s == insert_accessed_addresses(k, a)
<1>1. pc = "user"
  BY DEF sys_balance, Running
<1> SUFFICES ASSUME NEW quiet, Top.static => quiet
             PROVE  TxnInv'
  OBVIOUS
<1>2. Tame(k, s, Deal(txn), quiet)
  BY <1>1, InUser, LoadedTame
<1>3. Resume(s, marks, ctxs) \/ fault_exception(s)
  BY DEF sys_balance
<1> HIDE DEF s
<1> QED
  BY <1>1, <1>2, <1>3, ResumeTame, FaultTame

\* an exception and sys_revert,
LEMMA FaultStepKept ==
    ASSUME KernelInv, KernelInv', TxnInv, Fault \/ sys_revert
    PROVE  TxnInv'
<1>1. pc = "user" /\ fault_exception(k)
  BY DEF Fault, sys_revert
<1> SUFFICES ASSUME NEW quiet, Top.static => quiet
             PROVE  TxnInv'
  OBVIOUS
<1>2. Tame(k, k, Deal(txn), quiet)
  BY <1>1, InUser, TameRefl
<1> QED
  BY <1>1, <1>2, FaultTame

\* sys_stop,
LEMMA StopKept ==
    ASSUME KernelInv, TxnInv, sys_stop
    PROVE  TxnInv'
<1>1. pc = "user" /\ Terminate(k, TRUE)
  BY DEF sys_stop
<1>2. /\ Orderly(k, marks, ctxs, txn) /\ Len(ctxs) >= 2
      /\ Top.ret \in Constructor => k.led.acct[Self].nonce # 0 /\ Self # txn.sender
  BY <1>1, InUser
<1> DEFINE ok == TRUE
<1>3. ok \in BOOLEAN /\ Terminate(k, ok)
  BY <1>1
<1> HIDE DEF ok
<1> QED
  BY <1>2, <1>3, TerminateKept

\* the end of a failed context,
LEMMA TerminateFailedKept ==
    ASSUME KernelInv, TxnInv, TerminateFailed
    PROVE  TxnInv'
<1>1. pc = "terminate" /\ Terminate(k, FALSE)
  BY DEF TerminateFailed
<1>2. Orderly(k, marks, ctxs, txn) /\ Len(ctxs) >= 2
  BY <1>1 DEF KernelInv, Good, AtLabel, TxnInv, Kept, Executing
<1> DEFINE ok == FALSE
<1>3. ok \in BOOLEAN /\ Terminate(k, ok) /\ ~ok
  BY <1>1
<1> HIDE DEF ok
<1> QED
  BY <1>2, <1>3, TerminateKept

\* and sys_selfdestruct.
LEMMA SelfdestructKept ==
    ASSUME KernelInv, KernelInv', TxnInv, NEW r \in Addr, sys_selfdestruct(r)
    PROVE  TxnInv'
<1> DEFINE s == insert_accessed_addresses(k, r)
           t == Selfdestruct(s, Self, r)
           g == Deal(txn)
<1>1. pc = "user" /\ Top.code = "user" /\ ~Top.static
  BY DEF sys_selfdestruct, Running
<1>2. /\ Abides(k, g) /\ Sound(k) /\ Self \in Addr /\ Firm(k.led, Self) /\ Self # txn.sender
      /\ g.sender = txn.sender /\ g.sender \in Addr /\ g.cap \in Int /\ Len(ctxs) >= 2
      /\ Orderly(k, marks, ctxs, txn) /\ Top = ctxs[Len(ctxs)]
      /\ Top.ret \in Constructor => k.led.acct[Self].nonce # 0
  BY <1>1, InUser
<1>3. Terminate(t, TRUE) \/ fault_exception(s)
  BY <1>2 DEF sys_selfdestruct, Firm
<1> SUFFICES ASSUME NEW quiet, ~quiet
             PROVE  TxnInv'
  OBVIOUS
<1>4. Tame(k, s, g, quiet)
  BY <1>2, LoadedTame
<1>5. s.led.acct = k.led.acct
  BY <1>2, LoadedFields DEF SameView
<1> HIDE DEF s
<1>6. /\ Abides(s, g) /\ s.led.acct[Self].exists
      /\ s.led.acct[Self].nonce # 0 \/ s.led.acct[Self].code # NoCode
  <2>1. Abides(s, g)
    BY <1>2, <1>4, TameIs
  <2> QED
    BY <1>2, <1>5, <2>1 DEF Firm
<1> HIDE DEF g
<1>7. Tame(s, t, g, quiet)
  BY <1>2, <1>6, SelfdestructTame
<1> HIDE DEF t
<1>8. Tame(k, t, g, quiet)
  BY <1>2, <1>4, <1>7, TameTrans
<1>9. CASE Terminate(t, TRUE)
  <2>1. Orderly(t, marks, ctxs, txn)
    BY <1>1, <1>2, <1>8, OrderlyTame DEF g
  <2>2. Sturdy(k.led, t.led)
    BY <1>2, <1>8, TameIs
  <2>3. Top.ret \in Constructor => t.led.acct[Self].nonce # 0
    BY <1>2, <2>2 DEF Sturdy
  <2> DEFINE ok == TRUE
  <2>4. ok \in BOOLEAN /\ Terminate(t, ok)
    BY <1>9
  <2> HIDE DEF ok
  <2> QED
    BY <1>2, <2>1, <2>3, <2>4, TerminateKept
<1>10. CASE fault_exception(s)
  BY <1>1, <1>4, <1>10, FaultTame DEF g
<1> QED
  BY <1>3, <1>9, <1>10

\* A checkpoint leaves the running context as static as it was.
LEMMA CheckpointStatic ==
    ASSUME NEW cs \in Seq(Context), Len(cs) >= 1, NEW ms \in Seq(Marks)
    PROVE  LET ds == WithCheckpoint(cs, ms) IN
           Len(ds) = Len(cs) /\ ds[Len(ds)].static = cs[Len(cs)].static
<1> DEFINE N == Len(cs)
           q == Append(cs[N].cps, Len(ms))
<1>1. WithCheckpoint(cs, ms) = SetCps(cs, q)
  BY DEF WithCheckpoint, SetCps
<1>2. N \in Nat /\ N \in 1 .. N
  OBVIOUS
<1>3. q \in Seq(Nat)
  BY <1>2, CtxTyped
<1> HIDE DEF q
<1> DEFINE ds == SetCps(cs, q)
<1>4. Len(ds) = N /\ ds[N].static = cs[N].static
  BY <1>2, <1>3, SetCpsIs
<1> HIDE DEF ds
<1> QED
  BY <1>1, <1>4 DEF ds

\* The value of a call is paid by tame routines.
LEMMA CallTame ==
    ASSUME NEW s, NEW g, Abides(s, g), g.sender \in Addr, NEW self \in Addr, NEW a \in Addr,
           NEW v \in Nat, NEW kind, kind \in {"call", "callcode"} => ~CannotPay(s, self, v),
           NEW quiet, quiet => (kind = "call" => v = 0)
    PROVE  Tame(s, CASE kind = "call"     -> TransferAndJournal(s, self, a, v)
                     [] kind = "callcode" -> transfer_eth(s, self, self, v)
                     [] OTHER             -> s, g, quiet)
<1>1. s.led.acct[self].balance \in Int
  BY DEF Abides, Sound, Kernels, Ledgers, Account
<1>2. kind \in {"call", "callcode"} =>
         s.led.acct[self].exists /\ s.led.acct[self].balance >= v
  BY <1>1 DEF CannotPay
<1>3. CASE kind = "call"
  <2>1. Tame(s, TransferAndJournal(s, self, a, v), g, quiet)
    BY <1>2, <1>3, TransferTame
  <2> QED
    BY <1>3, <2>1
<1>4. CASE kind = "callcode"
  <2>1. Tame(s, transfer_eth(s, self, self, v), g, quiet)
    BY <1>2, <1>4, SelfTransferTame
  <2> QED
    BY <1>4, <2>1
<1>5. CASE kind # "call" /\ kind # "callcode"
  <2>1. Tame(s, s, g, quiet)
    BY TameRefl
  <2> QED
    BY <1>5, <2>1
<1> QED
  BY <1>3, <1>4, <1>5

\* The four calls.
LEMMA CallKept ==
    ASSUME KernelInv, KernelInv', TxnInv, NEW kind \in CallKinds, NEW a \in Addr,
           NEW v \in Amounts, sys_call(kind, a, v)
    PROVE  TxnInv'
<1> DEFINE s1 == insert_accessed_addresses(k, a)
           ms == Append(marks, Mark(s1))
           cs == WithCheckpoint(ctxs, marks)
           own == kind \in {"callcode", "delegatecall"}
           to == IF own THEN Self ELSE a
           s2 == insert_touched_addresses(s1, to)
           s3 == CASE kind = "call"     -> TransferAndJournal(s2, Self, a, v)
                   [] kind = "callcode" -> transfer_eth(s2, Self, Self, v)
                   [] OTHER             -> s2
           static == Top.static \/ kind = "staticcall"
           b == txn.base
           g == Deal(txn)
           quiet == Top.static
<1>1. pc = "user" /\ Top.code = "user" /\ MakeCall(kind, a, v)
  BY DEF sys_call, Running
<1>2. /\ Sound(k) /\ Self \in Addr /\ v \in Nat /\ Self # txn.sender
      /\ Orderly(k, marks, ctxs, txn) /\ Abides(k, g) /\ g.sender = txn.sender
      /\ g.sender \in Addr /\ Top = ctxs[Len(ctxs)] /\ Firm(k.led, Self)
      /\ Len(ctxs) >= 2 /\ Len(ctxs) \in Nat /\ Len(ctxs[Len(ctxs)].cps) >= 1
  BY <1>1, InUser, KernelAssumption
<1>20. ctxs \in Seq(Context) /\ marks \in Seq(Marks) /\ static \in BOOLEAN /\ to \in Addr
  BY <1>1, AtUser
<1>21. Top.static => quiet
  OBVIOUS
<1>22. quiet => (kind = "call" => v = 0)
  BY DEF sys_call
<1>23. Top.static => static
  OBVIOUS
<1> HIDE DEF quiet, static, g
<1>3. Tame(k, s1, g, quiet)
  BY <1>2, LoadedTame
<1>4. \/ fault_exception(s1)
      \/ Resume(s1, marks, ctxs)
      \/ /\ kind \in {"call", "callcode"} /\ CannotPay(s2, Self, v)
         /\ Resume(insert_touched_addresses(s2, Self), ms, cs)
      \/ /\ ~(kind \in {"call", "callcode"} /\ CannotPay(s2, Self, v))
         /\ Enter(s3, ms, cs, to, CodeOf(s3.led, a), static, "call") /\ txn' = txn
  BY <1>1 DEF MakeCall, static
<1> HIDE DEF s1
<1>5. Orderly(s1, marks, ctxs, txn)
  BY <1>2, <1>3, <1>21, OrderlyTame DEF g
<1>6. Orderly(s1, ms, cs, txn)
  BY <1>2, <1>5, OrderlyCheckpoint
<1>61. /\ Len(cs) = Len(ctxs) /\ cs[Len(cs)].static = Top.static
       /\ cs[Len(cs)].code = "user" /\ Len(cs[Len(cs)].cps) >= 2
  <2>1. Len(ctxs) >= 1
    BY <1>2
  <2>2. Len(ctxs[Len(ctxs)].cps) \in Nat
    BY <1>1, <1>2, AtUser
  <2> QED
    BY <1>1, <1>2, <1>20, <2>1, <2>2, CheckpointStatic, WithCheckpointIs
<1>62. cs[Len(cs)].static => quiet
  BY <1>21, <1>61
<1> HIDE DEF ms, cs
<1>7. Abides(s1, g) /\ Sound(s1)
  BY <1>2, <1>3, TameIs DEF Abides
<1>8. Tame(s1, s2, g, quiet)
  BY <1>7, <1>20, TouchedTame
<1> HIDE DEF s2, to
<1>9. Abides(s2, g) /\ Sound(s2) /\ Orderly(s2, ms, cs, txn)
  <2>1. Abides(s2, g)
    BY <1>7, <1>8, TameIs
  <2> QED
    BY <1>6, <1>8, <1>62, <2>1, OrderlyTame DEF Abides, g
<1>10. CASE fault_exception(s1)
  BY <1>1, <1>3, <1>10, <1>21, FaultTame DEF g
<1>11. CASE Resume(s1, marks, ctxs)
  BY <1>1, <1>3, <1>11, <1>21, ResumeTame DEF g
<1>12. CASE Resume(insert_touched_addresses(s2, Self), ms, cs)
  <2> DEFINE t == insert_touched_addresses(s2, Self)
  <2>1. Tame(s2, t, g, quiet) /\ Resume(t, ms, cs)
    BY <1>2, <1>9, <1>12, TouchedTame
  <2> HIDE DEF t
  <2>2. Orderly(t, ms, cs, txn)
    BY <1>9, <1>62, <2>1, OrderlyTame DEF g
  <2> QED
    BY <1>1, <2>1, <2>2, ResumeKept
<1>13. CASE /\ ~(kind \in {"call", "callcode"} /\ CannotPay(s2, Self, v))
            /\ Enter(s3, ms, cs, to, CodeOf(s3.led, a), static, "call") /\ txn' = txn
  <2>1. Tame(s2, s3, g, quiet)
    BY <1>2, <1>9, <1>13, <1>22, CallTame
  <2> HIDE DEF s3
  <2>2. Orderly(s3, ms, cs, txn) /\ Abides(s3, g)
    BY <1>9, <1>62, <2>1, OrderlyTame, TameIs DEF g
  <2> DEFINE code == CodeOf(s3.led, a)
             ret == "call"
  <2>3. s3.led \in Solid /\ SenderRight(s3.led, txn.start, txn.sender)
    BY <2>2, <1>2 DEF Abides, Lawful, g, Deal
  <2>4. /\ code \in {"user", "none", "precompile"}
        /\ code = "user" => s3.led.acct[a].exists /\ s3.led.acct[a].code # NoCode
    BY <2>3, CodeOfIs DEF CodeOf
  <2>5. Firm(s3.led, Self)
    <3>1. Sturdy(k.led, s1.led) /\ Sturdy(s1.led, s2.led) /\ Sturdy(s2.led, s3.led)
      BY <1>2, <1>3, <1>7, <1>8, <1>9, <2>1, TameIs
    <3>2. Sturdy(k.led, s3.led)
      BY <3>1, SturdyTrans
    <3> QED
      BY <1>2, <3>2 DEF Sturdy, Firm
  <2>6. code = "user" => Firm(s3.led, to) /\ to # txn.sender
    <3>1. CASE own
      BY <1>2, <2>5, <3>1 DEF to
    <3>2. CASE ~own
      BY <2>3, <2>4, <3>2 DEF to, Firm, SenderRight
    <3> QED
      BY <3>1, <3>2
  <2>7. MayEnter(cs, b, ret) /\ ret \notin Constructor
    BY <1>2, <1>61 DEF MayEnter, Constructor
  <2>8. Enter(s3, ms, cs, to, code, static, ret) /\ txn' = txn
    BY <1>13
  <2>9. cs[Len(cs)].static => static
    BY <1>23, <1>61
  <2>10. Len(cs) # 1
    BY <1>2, <1>61
  <2> HIDE DEF code, ret
  <2> QED
    BY <1>20, <2>2, <2>4, <2>6, <2>7, <2>8, <2>9, <2>10, EnterKept
<1> QED
  BY <1>4, <1>10, <1>11, <1>12, <1>13

\* sys_create and sys_create2.
LEMMA CreateKept ==
    ASSUME KernelInv, KernelInv', TxnInv, NEW a \in Addr, NEW v \in Amounts, sys_create(a, v)
    PROVE  TxnInv'
<1> DEFINE s1 == insert_accessed_addresses(k, a)
           s2 == increment_nonce(s1, Self)
           ms == Append(marks, Mark(s2))
           cs == WithCheckpoint(ctxs, marks)
           u == TransferAndJournal(s2, Self, a, v)
           s3 == AppendCreated(u, a)
           g == Deal(txn)
<1>1. pc = "user" /\ Top.code = "user" /\ ~Top.static
  BY DEF sys_create, Running
<1>2. /\ Sound(k) /\ Self \in Addr /\ v \in Nat /\ Self # txn.sender
      /\ Orderly(k, marks, ctxs, txn) /\ Abides(k, g) /\ g.sender = txn.sender
      /\ g.sender \in Addr /\ g.start \in Solid /\ Top = ctxs[Len(ctxs)] /\ Firm(k.led, Self)
      /\ Len(ctxs) >= 2 /\ Len(ctxs) \in Nat /\ Len(ctxs[Len(ctxs)].cps) >= 1
  BY <1>1, InUser, KernelAssumption
<1>3. /\ ctxs \in Seq(Context) /\ marks \in Seq(Marks) /\ k.led.acct[Self].balance \in Int
      /\ txn.base \in Nat
  <2>1. k.led.acct[Self].balance \in Int
    BY <1>2 DEF Sound, Kernels, Ledgers, Account
  <2> QED
    BY <1>1, <2>1, AtUser
<1>4. \/ CreateRefused(v) /\ Resume(s1, marks, ctxs)
      \/ ~CreateRefused(v) /\ Collides(s3, a) /\ StartRevert(s3, ms, cs, "user") /\ txn' = txn
      \/ /\ ~CreateRefused(v) /\ ~Collides(s3, a)
         /\ Enter(InsertContract(s3, a), ms, cs, a, "user", FALSE, "create") /\ txn' = txn
  BY <1>2 DEF sys_create, Firm
<1> HIDE DEF g
<1> SUFFICES ASSUME NEW quiet, ~quiet
             PROVE  TxnInv'
  OBVIOUS
<1>5. Tame(k, s1, g, quiet) /\ s1.led.acct = k.led.acct
  BY <1>2, LoadedTame, LoadedFields DEF SameView
<1> HIDE DEF s1
<1>6. Abides(s1, g) /\ Sound(s1) /\ Orderly(s1, marks, ctxs, txn)
  BY <1>1, <1>2, <1>5, TameIs, OrderlyTame DEF Abides, g
<1>7. CASE CreateRefused(v) /\ Resume(s1, marks, ctxs)
  BY <1>1, <1>6, <1>7, ResumeKept
<1>8. ASSUME ~CreateRefused(v)
      PROVE  /\ Orderly(s3, ms, cs, txn) /\ Abides(s3, g) /\ IsTouched(s3, a)
             /\ Len(cs) = Len(ctxs) /\ ~cs[Len(cs)].static /\ cs[Len(cs)].code = "user"
             /\ Len(cs[Len(cs)].cps) >= 2
  <2>1. s1.led.acct[Self].exists
    BY <1>2, <1>5 DEF Firm
  <2>2. /\ Tame(s1, s2, g, quiet) /\ s2.led.acct[Self].exists
        /\ s2.led.acct[Self].balance = k.led.acct[Self].balance
    BY <1>2, <1>5, <1>6, <2>1, IncrementNonceTame
  <2> HIDE DEF s2
  <2>3. Abides(s2, g) /\ s2.led.acct[Self].balance >= v /\ Orderly(s2, marks, ctxs, txn)
    <3>1. Orderly(s2, marks, ctxs, txn)
      BY <1>1, <1>2, <1>6, <2>2, OrderlyTame DEF g
    <3> QED
      BY <1>2, <1>3, <1>6, <1>8, <2>2, <3>1, TameIs DEF CreateRefused
  <2>4. Orderly(s2, ms, cs, txn)
    BY <1>2, <2>3, OrderlyCheckpoint
  <2>5. /\ Len(cs) = Len(ctxs) /\ cs[Len(cs)].static = Top.static
        /\ cs[Len(cs)].code = "user" /\ Len(cs[Len(cs)].cps) >= 2
    <3>1. Len(ctxs) >= 1
      BY <1>2
    <3>2. Len(ctxs[Len(ctxs)].cps) \in Nat
      BY <1>1, <1>2, AtUser
    <3> QED
      BY <1>1, <1>2, <1>3, <3>1, <3>2, CheckpointStatic, WithCheckpointIs
  <2> HIDE DEF ms, cs
  <2>6. Tame(s2, u, g, quiet)
    BY <1>2, <2>2, <2>3, TransferTame
  <2> HIDE DEF u
  <2>7. Abides(u, g) /\ Sound(u) /\ Orderly(u, ms, cs, txn)
    <3>1. Sound(s2)
      BY <2>3 DEF Abides
    <3>2. Abides(u, g)
      BY <2>6, <3>1, TameIs
    <3>3. Orderly(u, ms, cs, txn)
      BY <1>1, <2>4, <2>5, <2>6, OrderlyTame DEF g
    <3> QED
      BY <3>2, <3>3 DEF Abides
  <2>8. Tame(u, s3, g, quiet) /\ IsTouched(s3, a)
    BY <2>7, AppendCreatedTame
  <2> HIDE DEF s3
  <2>9. Abides(s3, g)
    BY <2>7, <2>8, TameIs
  <2>10. Orderly(s3, ms, cs, txn)
    BY <1>1, <2>5, <2>7, <2>8, OrderlyTame DEF g
  <2> QED
    BY <1>1, <2>5, <2>8, <2>9, <2>10
<1> HIDE DEF ms, cs, s3
<1>9. CASE ~CreateRefused(v) /\ StartRevert(s3, ms, cs, "user") /\ txn' = txn
  <2> DEFINE nx == "user"
  <2>1. StartRevert(s3, ms, cs, nx)
    BY <1>9
  <2>2. pc' # "panic"
    BY DEF KernelInv, Good, AtLabel
  <2> HIDE DEF nx
  <2> QED
    BY <1>8, <1>9, <2>1, <2>2, RevertKept
<1>10. CASE /\ ~CreateRefused(v) /\ ~Collides(s3, a)
            /\ Enter(InsertContract(s3, a), ms, cs, a, "user", FALSE, "create") /\ txn' = txn
  <2> DEFINE t == InsertContract(s3, a)
             code == "user"
             ret == "create"
             static == FALSE
  <2>1. Tame(s3, t, g, quiet) /\ a # txn.sender /\ t.led.acct[a].nonce # 0
    BY <1>2, <1>8, <1>10, InsertContractTame
  <2>2. t.led.acct[a].exists
    <3>1. Sound(s3)
      BY <1>8, <1>10 DEF Abides
    <3> QED
      BY <1>10, <3>1, InsertContractFollows
  <2> HIDE DEF t
  <2>3. Orderly(t, ms, cs, txn)
    BY <1>8, <1>10, <2>1, OrderlyTame DEF g
  <2>4. /\ MayEnter(cs, txn.base, ret) /\ code \in {"user", "none", "precompile"}
        /\ static \in BOOLEAN /\ code = "user" /\ ~static
    BY <1>2, <1>8, <1>10 DEF MayEnter
  <2>5. Enter(t, ms, cs, a, code, static, ret) /\ txn' = txn
    BY <1>10 DEF t
  <2>6. Firm(t.led, a) /\ Len(cs) # 1 /\ ~cs[Len(cs)].static
    BY <1>2, <1>8, <1>10, <2>1, <2>2 DEF Firm
  <2> HIDE DEF code, ret, static
  <2> QED
    BY <2>1, <2>3, <2>4, <2>5, <2>6, EnterKept
<1> QED
  BY <1>4, <1>7, <1>9, <1>10

-----------------------------------------------------------------------------
(* The revert loop.                                                        *)

\* No context was entered after the checkpoint that the loop goes back to.
LEMMA FirstBelow ==
    ASSUME NEW s, NEW ms, NEW cs, NEW r, NEW x, Good(s, ms, cs, "undo", r, x),
           NEW i \in 2 .. Len(cs), Len(cs[i].cps) >= 1
    PROVE  cs[i].cps[1] \in Nat /\ x.base <= cs[i].cps[1] /\ cs[i].cps[1] <= r.target
<1> DEFINE N == Len(cs)
           c == cs[N].cps
<1>1. Basic(s, ms, cs, x.base) /\ Undoing(s, ms, cs, r, x.base) /\ r.target \in Nat
  BY InLoop
<1>2. /\ cs \in Seq(Context) /\ ms \in Seq(Marks) /\ N \in Nat /\ i \in 1 .. N /\ N \in 1 .. N
      /\ Nested(ms, cs) /\ Stack(cs, x.base)
  BY <1>1 DEF Basic
<1>3. cs[i].cps[1] \in Nat
  BY <1>2, FirstIs
<1>4. 1 \in 1 .. Len(cs[i].cps) /\ Len(cs[i].cps) \in Nat /\ Len(c) \in Nat
  BY <1>2, CtxTyped
<1>5. x.base <= cs[i].cps[1]
  BY <1>2, <1>4 DEF Stack
<1>6. Len(c) >= 1 /\ r.target = c[Len(c)]
  BY <1>1 DEF Undoing, Anchored
<1>7. Len(c) \in 1 .. Len(c)
  BY <1>4, <1>6
<1>8. CASE i < N \/ (i = N /\ 1 < Len(c))
  <2>1. cs[i].cps[1] < c[Len(c)]
    BY <1>2, <1>4, <1>7, <1>8 DEF Nested
  <2> QED
    BY <1>1, <1>3, <1>5, <1>6, <2>1
<1>9. CASE i = N /\ Len(c) = 1
  <2>1. cs[i].cps[1] = r.target
    BY <1>6, <1>9
  <2> QED
    BY <1>1, <1>3, <1>5, <2>1
<1>10. i < N \/ i = N
  <2> HIDE DEF N
  <2> QED
    BY <1>2
<1>11. 1 < Len(c) \/ Len(c) = 1
  <2> DEFINE l == Len(c)
  <2>1. l \in Nat /\ l >= 1
    BY <1>4, <1>6
  <2> HIDE DEF l
  <2>2. 1 < l \/ l = 1
    BY <2>1
  <2> QED
    BY <2>2 DEF l
<1> QED
  BY <1>8, <1>9, <1>10, <1>11

\* One entry,
LEMMA UndoEntryKept ==
    ASSUME KernelInv, KernelInv', TxnInv, UndoEntry
    PROVE  TxnInv'
<1> DEFINE e == k.journal[rv.size]
           t == [k EXCEPT !.led = Undo(e, @), !.created = UndoCreated(e, @),
                          !.destroyed = UndoDestroyed(e, @)]
           q == [rv EXCEPT !.size = @ - 1]
           g == Deal(txn)
           c == rv.cp
           n == rv.size
           p == "undo"
<1>1. pc = p /\ rv.cp # rv.target /\ rv.size # marks[rv.cp].size
  BY DEF UndoEntry
<1>2. Good(k, marks, ctxs, p, rv, txn) /\ pc' # "panic"
  BY <1>1 DEF KernelInv, Good, AtLabel
<1>3. k' = t /\ rv' = q /\ marks' = marks /\ ctxs' = ctxs /\ pc' = p /\ txn' = txn
  BY <1>1, <1>2 DEF UndoEntry, Panic
<1>4. /\ Busy(k, marks, ctxs, c, n, txn) /\ k.destroyed[txn.sender] = 0
      /\ txn.start \in Solid /\ ~ctxs[1].static
  BY <1>1 DEF TxnInv, Kept
<1>5. /\ Basic(k, marks, ctxs, txn.base) /\ rv.target \in Nat /\ c \in Nat /\ n \in Nat
      /\ txn.base \in Nat /\ txn.base <= rv.target /\ rv.target <= c /\ c <= Len(marks)
      /\ marks \in Seq(Marks) /\ rv \in Registers /\ txn \in Txns
  BY <1>2, InLoop
<1>6. PICK h \in [Nat -> Solid] :
        /\ \A m \in txn.base + 1 .. c : marks[m].size \in Nat /\ marks[m].size <= marks[c].size
        /\ marks[c].size \in Nat /\ marks[c].size <= n
  BY <1>1, <1>2, LoopHistory
<1>7. rv.target < c /\ marks[c].size < n
  BY <1>1, <1>5, <1>6
<1>8. k \in Kernels
  BY <1>5 DEF Basic, Sound
<1>9. /\ t.journal = k.journal /\ t.led = Undo(k.journal[n], k.led) /\ t.ripemd = k.ripemd
      /\ t.destroyed = UndoDestroyed(e, k.destroyed) /\ q.cp = c /\ q.size = n - 1
  BY <1>5, <1>8 DEF Kernels, Registers
<1>10. t.destroyed[txn.sender] = 0
  <2>1. txn.sender \in Addr /\ k.destroyed \in [Addr -> Nat]
    BY <1>5, <1>8 DEF Txns, Kernels
  <2> QED
    BY <1>4, <1>9, <2>1 DEF UndoDestroyed
<1> HIDE DEF t, q, c, n, g
<1>11. Held(t, marks, txn.base, c, n - 1, Lawful(g, t.ripemd.touched))
  <2> DEFINE Q == Lawful(g, t.ripemd.touched)
  <2>1. Held(k, marks, txn.base, c, n, Q)
    BY <1>4, <1>9 DEF Busy, g
  <2>2. txn.base < c
    BY <1>5, <1>7
  <2>3. \A m \in txn.base + 1 .. c : marks[m].size <= marks[c].size
    BY <1>6
  <2> HIDE DEF Q
  <2>4. Held(t, marks, txn.base, c, n - 1, Q)
    BY <1>5, <1>7, <1>9, <2>1, <2>2, <2>3, HeldUndo
  <2> QED
    BY <2>4 DEF Q
<1>12. Owns(t, marks, ctxs, c, n - 1)
  <2> SUFFICES ASSUME NEW i \in 2 .. Len(ctxs), Len(ctxs[i].cps) >= 1
               PROVE  Held(t, marks, ctxs[i].cps[1], c, n - 1, Own(marks, ctxs[i]))
    BY DEF Owns
  <2> DEFINE f == ctxs[i].cps[1]
             Q == Own(marks, ctxs[i])
  <2>1. f \in Nat /\ txn.base <= f /\ f <= rv.target
    BY <1>2, FirstBelow
  <2>2. Held(k, marks, f, c, n, Q)
    BY <1>4 DEF Busy, Owns
  <2> HIDE DEF f, Q
  <2>3. f < c
    BY <1>5, <1>7, <2>1
  <2>4. \A m \in f + 1 .. c : marks[m].size <= marks[c].size
    <3> TAKE m \in f + 1 .. c
    <3>1. m \in txn.base + 1 .. c
      BY <1>5, <2>1
    <3> QED
      BY <1>6, <3>1
  <2>5. Held(t, marks, f, c, n - 1, Q)
    BY <1>5, <1>7, <1>9, <2>1, <2>2, <2>3, <2>4, HeldUndo
  <2> QED
    BY <2>5 DEF f, Q
<1>13. Busy(t, marks, ctxs, q.cp, q.size, txn)
  BY <1>4, <1>9, <1>11, <1>12 DEF Busy, g
<1>14. Kept(t, marks, ctxs, p, q, txn)
  BY <1>4, <1>10, <1>13 DEF Kept, Executing, Closing, Constructor
<1> QED
  BY <1>3, <1>14 DEF TxnInv

\* one batch,
LEMMA BatchDoneKept ==
    ASSUME KernelInv, TxnInv, BatchDone
    PROVE  TxnInv'
<1> DEFINE t == [k EXCEPT !.journal = SubSeq(@, 1, rv.size)]
           q == [rv EXCEPT !.cp = @ - 1]
           c == rv.cp
           n == rv.size
           p == "undo"
<1>1. pc = p /\ rv.cp # rv.target
  BY DEF BatchDone
<1>2. Good(k, marks, ctxs, p, rv, txn)
  BY <1>1 DEF KernelInv
<1>3. k' = t /\ rv' = q /\ marks' = marks /\ ctxs' = ctxs /\ pc' = p /\ txn' = txn
  BY <1>1 DEF BatchDone
<1>4. /\ Busy(k, marks, ctxs, c, n, txn) /\ k.destroyed[txn.sender] = 0
      /\ txn.start \in Solid /\ ~ctxs[1].static
  BY <1>1 DEF TxnInv, Kept
<1>5. /\ Basic(k, marks, ctxs, txn.base) /\ rv.target \in Nat /\ c \in Nat /\ n \in Nat
      /\ txn.base \in Nat /\ txn.base <= rv.target /\ rv.target <= c /\ c <= Len(marks)
      /\ marks \in Seq(Marks) /\ rv \in Registers /\ txn \in Txns
      /\ n <= Len(k.journal) /\ k.journal \in Seq(Entry)
  BY <1>2, InLoop
<1>6. c - 1 \in Nat /\ c - 1 <= c
  BY <1>1, <1>5
<1>7. k \in Kernels
  BY <1>5 DEF Basic, Sound
<1>8. /\ t.led = k.led /\ t.ripemd = k.ripemd /\ t.destroyed = k.destroyed
      /\ q.cp = c - 1 /\ q.size = n
      /\ t.journal = SubSeq(k.journal, 1, n)
  BY <1>5, <1>7 DEF Kernels, Registers
<1>9. \A i \in 1 .. n : t.journal[i] = k.journal[i]
  BY <1>5, <1>8
<1> HIDE DEF t, q, c, n
<1>10. ASSUME NEW b \in Nat, NEW Q, Held(k, marks, b, c, n, Q)
       PROVE  Held(t, marks, b, c - 1, n, Q)
  <2>1. \A m \in b + 1 .. c : marks[m] = marks[m] /\ marks[m].size \in Nat
    BY <1>5, SizesNat
  <2>2. Held(t, marks, b, c, n, Q)
    BY <1>5, <1>8, <1>9, <1>10, <2>1, HeldSame
  <2> QED
    BY <1>5, <1>6, <2>2, HeldLess
<1>11. Held(t, marks, txn.base, c - 1, n, Lawful(Deal(txn), t.ripemd.touched))
  BY <1>4, <1>5, <1>8, <1>10 DEF Busy
<1>12. Owns(t, marks, ctxs, c - 1, n)
  <2> SUFFICES ASSUME NEW i \in 2 .. Len(ctxs), Len(ctxs[i].cps) >= 1
               PROVE  Held(t, marks, ctxs[i].cps[1], c - 1, n, Own(marks, ctxs[i]))
    BY DEF Owns
  <2>1. ctxs[i].cps[1] \in Nat
    BY <1>2, FirstBelow
  <2>2. Held(k, marks, ctxs[i].cps[1], c, n, Own(marks, ctxs[i]))
    BY <1>4 DEF Busy, Owns
  <2> QED
    BY <1>10, <2>1, <2>2
<1>13. Busy(t, marks, ctxs, q.cp, q.size, txn)
  BY <1>4, <1>8, <1>11, <1>12 DEF Busy
<1>14. Kept(t, marks, ctxs, p, q, txn)
  BY <1>4, <1>8, <1>13 DEF Kept, Executing, Closing, Constructor
<1> QED
  BY <1>3, <1>14 DEF TxnInv

\* what is left of the marks,
LEMMA OrderlyReverted ==
    ASSUME NEW s, NEW ms, NEW cs, NEW r, NEW x, Good(s, ms, cs, "undo", r, x),
           r.cp = r.target, Busy(s, ms, cs, r.cp, r.size, x), s.destroyed[x.sender] = 0,
           x.start \in Solid, r.next \in {"user", "terminate"}
    PROVE  Orderly(s, SubSeq(ms, 1, r.target), PopCheckpoint(cs), x)
<1> DEFINE t == r.target
           ns == SubSeq(ms, 1, t)
           ds == PopCheckpoint(cs)
           N == Len(cs)
           c == cs[N].cps
           n == Len(s.journal)
<1>1. /\ Basic(s, ms, cs, x.base) /\ Undoing(s, ms, cs, r, x.base) /\ x \in Txns
      /\ t \in Nat /\ x.base \in Nat /\ x.base <= t /\ r.size \in Nat
      /\ ms \in Seq(Marks) /\ Len(ms) \in Nat
  BY InLoop
<1>2. /\ N >= 2 /\ N \in Nat /\ r.size = n /\ s.led = ms[t + 1].led /\ t = c[Len(c)]
      /\ Len(c) >= 1 /\ cs \in Seq(Context) /\ Nested(ms, cs)
  BY <1>1 DEF Undoing, Anchored, Basic
<1>3. t + 1 <= Len(ms) /\ Live(s, SubSeq(ms, 1, t + 1), cs, x.base)
  BY LiveReverted
<1>4. \A i \in 1 .. Len(ds) : \A m \in 1 .. Len(ds[i].cps) : ds[i].cps[m] < t
  <2> HIDE DEF ds
  <2> DEFINE ns1 == SubSeq(ms, 1, t + 1)
  <2>1. Live(s, ns1, cs, x.base) /\ Len(cs[Len(cs)].cps) >= 1
    BY <1>2, <1>3
  <2> HIDE DEF ns1
  <2>2. \A i \in 1 .. Len(ds) : \A m \in 1 .. Len(ds[i].cps) : ds[i].cps[m] < c[Len(c)]
    BY <2>1, LivePopCp DEF ds
  <2> QED
    BY <1>2, <2>2
<1>5. /\ Len(ds) = N /\ \A i \in 1 .. Len(ds) : Same(cs[i], ds[i])
      /\ ds[1] = cs[1]
  <2>1. N >= 1 /\ 1 \in 1 .. N /\ 1 # N
    BY <1>2
  <2> QED
    BY <1>2, <2>1, PopSame
<1>6. Live(s, ns, ds, x.base)
  <2>1. Good(s, ns, ds, r.next, r, x)
    BY GoodRevertDone
  <2> QED
    BY <2>1 DEF Good, AtLabel, Executing
<1>7. Len(ns) = t /\ \A m \in 1 .. t : ns[m] = ms[m]
  BY <1>1, <1>3
<1> HIDE DEF ns, ds, t
<1>8. ASSUME NEW b \in Nat, NEW Q, Held(s, ms, b, r.cp, r.size, Q)
      PROVE  Held(s, ns, b, t, n, Q)
  <2>1. t <= Len(ms) /\ n \in Nat /\ r.cp = t
    BY <1>1, <1>2, <1>3 DEF t
  <2>2. \A m \in b + 1 .. t : m \in 1 .. Len(ms) /\ ms[m].size \in Nat
    BY <1>1, <2>1, SizesNat
  <2>3. \A m \in b + 1 .. t : ns[m] = ms[m] /\ ms[m].size \in Nat
    <3> TAKE m \in b + 1 .. t
    <3>1. m \in 1 .. t
      BY <1>1
    <3> QED
      BY <1>7, <2>2, <3>1
  <2>4. Held(s, ms, b, t, n, Q)
    BY <1>2, <1>8, <2>1
  <2>5. \A i \in 1 .. n : s.journal[i] = s.journal[i]
    OBVIOUS
  <2> HIDE DEF n
  <2> QED
    BY <1>1, <2>1, <2>3, <2>4, <2>5, HeldSame
<1>9. Held(s, ns, x.base, t, n, Lawful(Deal(x), s.ripemd.touched))
  BY <1>1, <1>8 DEF Busy
<1>10. Owns(s, ns, ds, t, n)
  <2> SUFFICES ASSUME NEW i \in 2 .. Len(ds), Len(ds[i].cps) >= 1
               PROVE  Held(s, ns, ds[i].cps[1], t, n, Own(ns, ds[i]))
    BY DEF Owns
  <2>1. i \in 1 .. Len(ds) /\ i \in 2 .. N /\ i \in 1 .. N
    BY <1>2, <1>5
  <2>2. Same(cs[i], ds[i]) /\ Len(cs[i].cps) >= 1 /\ ds[i].cps[1] = cs[i].cps[1]
    BY <1>5, <2>1 DEF Same
  <2>3. cs[i].cps[1] \in Nat
    BY <1>1, <1>2, <2>1, <2>2, FirstIs
  <2>4. ds \in Seq(Context)
    BY <1>6 DEF Live
  <2>5. 1 \in 1 .. Len(ds[i].cps)
    BY <2>1, <2>4, CtxTyped
  <2>6. cs[i].cps[1] < t
    BY <1>4, <2>1, <2>2, <2>5
  <2>7. cs[i].cps[1] + 1 \in 1 .. t
    BY <1>1, <2>3, <2>6 DEF t
  <2>8. ns[cs[i].cps[1] + 1] = ms[cs[i].cps[1] + 1]
    BY <1>7, <2>7
  <2>9. Own(ns, ds[i]) = Own(ms, cs[i])
    BY <2>2, <2>8 DEF Own, Allowed, Same
  <2>10. Held(s, ms, cs[i].cps[1], r.cp, r.size, Own(ms, cs[i]))
    BY <2>1, <2>2 DEF Busy, Owns
  <2> QED
    BY <1>8, <2>2, <2>3, <2>9, <2>10
<1>11. Shape(ds, x)
  BY <1>2, <1>5, ShapeSame DEF Busy
<1>12. MarksCovered(ns, x.base)
  <2> SUFFICES ASSUME NEW m \in x.base + 1 .. t
               PROVE  Covered(ns[m].led)
    BY <1>7 DEF MarksCovered
  <2>1. m \in 1 .. t /\ m \in x.base + 1 .. Len(ms)
    BY <1>1, <1>3 DEF t
  <2> QED
    BY <1>7, <2>1 DEF Busy, MarksCovered
<1>13. Covered(s.led)
  <2>1. t + 1 \in x.base + 1 .. Len(ms)
    BY <1>1, <1>3 DEF t
  <2> QED
    BY <1>2, <2>1 DEF Busy, MarksCovered, t
<1>14. Creating(ns, ds, x)
  <2> SUFFICES ASSUME x.kind = "create"
               PROVE  /\ x.base < t /\ Undone(ns[x.base + 1].led, x)
                      /\ Len(cs[1].cps) >= 1 /\ cs[1].cps[Len(cs[1].cps)] = x.base
    BY <1>5, <1>7 DEF Creating
  <2>1. /\ Undone(ms[x.base + 1].led, x)
        /\ Len(cs[1].cps) >= 1 /\ cs[1].cps[Len(cs[1].cps)] = x.base
    BY DEF Busy, Creating
  <2>2. 1 \in 1 .. N /\ N \in 1 .. N /\ 1 < N
    BY <1>2
  <2>3. Len(cs[1].cps) \in 1 .. Len(cs[1].cps) /\ Len(c) \in 1 .. Len(c)
    BY <1>2, <2>1, <2>2, CtxTyped
  <2>4. x.base < t
    BY <1>2, <2>1, <2>2, <2>3 DEF Nested, t
  <2>5. x.base + 1 \in 1 .. t
    BY <1>1, <2>4 DEF t
  <2> QED
    BY <1>7, <2>1, <2>4, <2>5
<1>15. Busy(s, ns, ds, Len(ns), n, x)
  BY <1>7, <1>9, <1>10, <1>11, <1>12, <1>14 DEF Busy
<1>16. Orderly(s, ns, ds, x)
  BY <1>1, <1>6, <1>13, <1>15 DEF Orderly
<1> QED
  BY <1>16 DEF ns, ds, t

\* and the end of the loop.
LEMMA RevertDoneKept ==
    ASSUME KernelInv, TxnInv, RevertDone
    PROVE  TxnInv'
<1> DEFINE ns == SubSeq(marks, 1, rv.target)
           ds == PopCheckpoint(ctxs)
           p == rv.next
<1>1. pc = "undo" /\ rv.cp = rv.target
  BY DEF RevertDone
<1>2. Good(k, marks, ctxs, "undo", rv, txn)
  BY <1>1 DEF KernelInv
<1>3. k' = k /\ rv' = rv /\ marks' = ns /\ ctxs' = ds /\ pc' = p /\ txn' = txn
  BY DEF RevertDone
<1>4. /\ Busy(k, marks, ctxs, rv.cp, rv.size, txn) /\ k.destroyed[txn.sender] = 0
      /\ txn.start \in Solid /\ ~ctxs[1].static
  BY <1>1 DEF TxnInv, Kept
<1>5. CASE rv.next \in {"user", "terminate"}
  <2>1. Orderly(k, ns, ds, txn)
    BY <1>1, <1>2, <1>4, <1>5, OrderlyReverted
  <2>2. p \in {"user", "terminate", "call"}
    BY <1>5
  <2> HIDE DEF ns, ds, p
  <2>3. Kept(k, ns, ds, p, rv, txn)
    BY <2>1, <2>2, KeptExec
  <2> QED
    BY <1>3, <2>3 DEF TxnInv
<1>6. CASE rv.next = "fault"
  <2>1. /\ Undoing(k, marks, ctxs, rv, txn.base) /\ Basic(k, marks, ctxs, txn.base)
        /\ txn \in Txns /\ txn.base \in Nat
    BY <1>2, InLoop
  <2>2. /\ Len(ctxs) = 1 /\ k.led = marks[rv.target + 1].led
        /\ Len(ctxs[1].cps) >= 1 /\ rv.target = ctxs[1].cps[Len(ctxs[1].cps)]
        /\ ctxs \in Seq(Context) /\ Sound(k)
    BY <1>1, <1>6, <2>1 DEF Undoing, Anchored, Basic
  <2>3. Abides(k, Deal(txn))
    BY <1>4, <2>2 DEF Busy, Held, Abides
  <2>4. txn.kind = "create" => Undone(k.led, txn)
    BY <1>4, <2>2 DEF Busy, Creating
  <2>5. ~ds[1].static
    <3>1. Len(ctxs) >= 1 /\ Len(ctxs[Len(ctxs)].cps) >= 1
      BY <2>2
    <3>2. Len(ds) = Len(ctxs) /\ \A i \in 1 .. Len(ds) : Same(ctxs[i], ds[i])
      BY <2>2, <3>1, PopSame
    <3>3. 1 \in 1 .. Len(ds)
      BY <2>2, <3>2
    <3> QED
      BY <1>4, <3>2, <3>3 DEF Same
  <2> HIDE DEF ns, ds
  <2>6. Kept(k, ns, ds, p, rv, txn)
    BY <1>4, <1>6, <2>3, <2>4, <2>5 DEF Kept, Executing, Closing, Constructor
  <2> HIDE DEF p
  <2> QED
    BY <1>3, <2>6 DEF TxnInv
<1>7. rv.next \in {"user", "terminate", "fault"}
  BY <1>2, InLoop DEF Undoing
<1> QED
  BY <1>5, <1>6, <1>7

-----------------------------------------------------------------------------
(* Continuations in the parent context.                                    *)

\* The call's, or the creation's, checkpoint is dropped,
LEMMA ParentPopsKept ==
    ASSUME KernelInv, TxnInv, pc \in {"call", "create"}, NEW s, Orderly(s, marks, ctxs, txn),
           k' = s, marks' = marks, ctxs' = PopCheckpoint(ctxs), pc' = "user", rv' = rv,
           txn' = txn
    PROVE  TxnInv'
<1> DEFINE ds == PopCheckpoint(ctxs)
           p == "user"
<1>1. Len(ctxs) >= 2 /\ Len(ctxs[Len(ctxs)].cps) >= 1
  BY AtParent
<1>2. Orderly(s, marks, ds, txn)
  BY <1>1, OrderlyPopCp
<1>3. p \in {"user", "terminate", "call"} /\ pc' = p /\ ctxs' = ds
  OBVIOUS
<1> HIDE DEF ds, p
<1>4. Kept(s, marks, ds, p, rv, txn)
  BY <1>2, <1>3, KeptExec
<1> QED
  BY <1>3, <1>4 DEF TxnInv

\* or reverted to.
LEMMA ParentRevertsKept ==
    ASSUME KernelInv', TxnInv, pc \in {"call", "create", "txn_create"}, NEW next,
           StartRevert(k, marks, ctxs, next), txn' = txn
    PROVE  TxnInv'
<1>1. Orderly(k, marks, ctxs, txn)
  BY DEF TxnInv, Kept, Executing
<1>2. pc' # "panic"
  BY DEF KernelInv, Good, AtLabel
<1> QED
  BY <1>1, <1>2, RevertKept

\* after_call_instruction,
LEMMA AfterCallKept ==
    ASSUME KernelInv, KernelInv', TxnInv, after_call_instruction
    PROVE  TxnInv'
<1>1. pc \in {"call", "create"} /\ pc \in {"call", "create", "txn_create"}
  BY DEF after_call_instruction
<1>2. Orderly(k, marks, ctxs, txn)
  BY <1>1 DEF TxnInv, Kept, Executing
<1>3. CASE txn.ok
  <2>1. /\ k' = k /\ marks' = marks /\ ctxs' = PopCheckpoint(ctxs) /\ pc' = "user"
        /\ rv' = rv /\ txn' = txn
    BY <1>3 DEF after_call_instruction
  <2> QED
    BY <1>1, <1>2, <2>1, ParentPopsKept
<1>4. CASE ~txn.ok
  <2> DEFINE nx == "user"
  <2>1. StartRevert(k, marks, ctxs, nx) /\ txn' = txn
    BY <1>4 DEF after_call_instruction
  <2> HIDE DEF nx
  <2> QED
    BY <1>1, <2>1, ParentRevertsKept
<1> QED
  BY <1>3, <1>4

\* what storing the code of a new contract does,
LEMMA NewCodeTame ==
    ASSUME KernelInv, TxnInv, pc \in Constructor, txn.ok, NEW c \in Codes, NEW quiet, ~quiet
    PROVE  /\ Tame(k, set_codehash(k, txn.callee, c), Deal(txn), quiet)
           /\ Orderly(k, marks, ctxs, txn)
<1>1. Orderly(k, marks, ctxs, txn)
  BY DEF TxnInv, Kept, Executing, Constructor
<1>2. Abides(k, Deal(txn)) /\ txn \in Txns /\ txn.start \in Solid
  BY <1>1, OrderlyIs
<1>3. k.led.acct[txn.callee].exists
  BY DEF KernelInv, Good, AtLabel, Constructor
<1>4. txn.callee # txn.sender /\ k.led.acct[txn.callee].nonce # 0
  BY DEF TxnInv, Kept
<1>5. txn.callee \in Addr /\ Deal(txn).sender = txn.sender /\ txn.sender \in Addr
  BY <1>2, DealIs DEF Txns
<1> DEFINE g == Deal(txn)
<1> HIDE DEF g
<1>6. Tame(k, set_codehash(k, txn.callee, c), g, quiet)
  BY <1>2, <1>3, <1>4, <1>5, SetCodehashTame DEF g
<1> QED
  BY <1>1, <1>6 DEF g

\* after_constructor,
LEMMA AfterConstructorKept ==
    ASSUME KernelInv, KernelInv', TxnInv, after_constructor
    PROVE  TxnInv'
<1>1. pc = "create" /\ pc \in {"call", "create"} /\ pc \in {"call", "create", "txn_create"}
      /\ pc \in Constructor
  BY DEF after_constructor, Constructor
<1>2. CASE StartRevert(k, marks, ctxs, "user") /\ txn' = txn
  <2> DEFINE nx == "user"
  <2>1. StartRevert(k, marks, ctxs, nx)
    BY <1>2
  <2> HIDE DEF nx
  <2> QED
    BY <1>1, <1>2, <2>1, ParentRevertsKept
<1>3. CASE /\ txn.ok
           /\ \E c \in Codes : k' = set_codehash(k, txn.callee, c)
           /\ ctxs' = PopCheckpoint(ctxs)
           /\ pc' = "user"
           /\ UNCHANGED <<marks, rv, txn>>
  <2> SUFFICES ASSUME NEW quiet, ~quiet
               PROVE  TxnInv'
    OBVIOUS
  <2>1. PICK c \in Codes : k' = set_codehash(k, txn.callee, c)
    BY <1>3
  <2> DEFINE s == set_codehash(k, txn.callee, c)
  <2>2. Tame(k, s, Deal(txn), quiet) /\ Orderly(k, marks, ctxs, txn)
    BY <1>1, <1>3, NewCodeTame
  <2>3. k' = s
    BY <2>1
  <2> HIDE DEF s
  <2>4. ~ctxs[Len(ctxs)].static
    BY <1>1 DEF TxnInv, Kept
  <2>5. Orderly(s, marks, ctxs, txn)
    BY <2>2, <2>4, OrderlyTame
  <2> QED
    BY <1>1, <1>3, <2>3, <2>5, ParentPopsKept
<1> QED
  BY <1>2, <1>3 DEF after_constructor

\* process_contract_creation_txn_after_constructor,
LEMMA AfterCreationTxnKept ==
    ASSUME KernelInv, KernelInv', TxnInv, process_contract_creation_txn_after_constructor
    PROVE  TxnInv'
<1>1. pc = "txn_create" /\ pc \in {"call", "create", "txn_create"} /\ pc \in Constructor
  BY DEF process_contract_creation_txn_after_constructor, Constructor
<1>2. CASE StartRevert(k, marks, ctxs, "fault") /\ txn' = txn
  <2> DEFINE nx == "fault"
  <2>1. StartRevert(k, marks, ctxs, nx)
    BY <1>2
  <2> HIDE DEF nx
  <2> QED
    BY <1>1, <1>2, <2>1, ParentRevertsKept
<1>3. CASE /\ txn.ok
           /\ \E c \in Codes : k' = set_codehash(k, txn.callee, c)
           /\ pc' = "finish"
           /\ UNCHANGED <<marks, ctxs, rv, txn>>
  <2> SUFFICES ASSUME NEW quiet, ~quiet
               PROVE  TxnInv'
    OBVIOUS
  <2>1. PICK c \in Codes : k' = set_codehash(k, txn.callee, c)
    BY <1>3
  <2> DEFINE s == set_codehash(k, txn.callee, c)
             p == "finish"
  <2>2. Tame(k, s, Deal(txn), quiet) /\ Orderly(k, marks, ctxs, txn)
    BY <1>1, <1>3, NewCodeTame
  <2>3. k' = s /\ pc' = p
    BY <1>3, <2>1
  <2> HIDE DEF s
  <2>4. /\ Sound(k) /\ k.destroyed[txn.sender] = 0 /\ txn \in Txns /\ txn.start \in Solid
        /\ Deal(txn).sender = txn.sender
    BY <2>2, OrderlyIs, DealIs
  <2>5. Abides(s, Deal(txn)) /\ s.destroyed[txn.sender] = 0
    BY <2>2, <2>4, TameIs DEF Tame
  <2>6. ~ctxs[1].static
    BY DEF TxnInv, Kept
  <2>7. Kept(s, marks, ctxs, p, rv, txn)
    BY <1>3, <2>4, <2>5, <2>6 DEF Kept, Executing, Closing, Constructor
  <2> HIDE DEF p
  <2> QED
    BY <1>3, <2>3, <2>7 DEF TxnInv
<1> QED
  BY <1>2, <1>3 DEF process_contract_creation_txn_after_constructor

\* the creation transaction that has been reverted,
LEMMA ContractCreationFaultKept ==
    ASSUME KernelInv, TxnInv, ContractCreationFault
    PROVE  TxnInv'
<1> DEFINE x == [txn EXCEPT !.ok = FALSE]
           p == "finish"
<1>1. /\ pc = "fault" /\ k' = k /\ marks' = marks /\ ctxs' = ctxs /\ rv' = rv /\ txn' = x
      /\ pc' = p
  BY DEF ContractCreationFault
<1>2. txn \in Txns
  BY DEF KernelInv, Good
<1>3. Alike(txn, x) /\ x.ok = FALSE
  BY <1>2 DEF Txns, Alike
<1>4. /\ Abides(k, Deal(txn)) /\ k.destroyed[txn.sender] = 0 /\ ~ctxs[1].static
      /\ txn.start \in Solid /\ (txn.kind = "create" => Undone(k.led, txn))
  BY <1>1 DEF TxnInv, Kept, Closing
<1> HIDE DEF x
<1>5. Deal(x) = Deal(txn) /\ (x.kind = "create" => Undone(k.led, x)) /\ x.start \in Solid
      /\ k.destroyed[x.sender] = 0
  <2>1. /\ x.kind = txn.kind /\ x.sender = txn.sender /\ x.start = txn.start
    BY <1>3 DEF Alike
  <2>2. Undone(k.led, txn) => Undone(k.led, x)
    BY <2>1, Zenon DEF Undone
  <2>3. Deal(x) = Deal(txn)
    BY <2>1 DEF Deal
  <2> QED
    BY <1>4, <2>1, <2>2, <2>3
<1>6. Kept(k, marks, ctxs, p, rv, x)
  BY <1>4, <1>5 DEF Kept, Executing, Closing, Constructor
<1> HIDE DEF p
<1> QED
  BY <1>1, <1>6 DEF TxnInv

\* and process_message_txn_after_call.
LEMMA AfterMessageKept ==
    ASSUME KernelInv, TxnInv, process_message_txn_after_call
    PROVE  TxnInv'
<1> DEFINE g == Deal(txn)
           t == transfer_eth(k, txn.to, txn.sender, txn.value)
<1>1. pc = "txn_msg"
  BY DEF process_message_txn_after_call
<1>2. /\ Abides(k, g) /\ k.destroyed[txn.sender] = 0 /\ ~ctxs[1].static
      /\ txn.start \in Solid /\ txn.kind # "create"
  BY <1>1 DEF TxnInv, Kept, Closing
<1>3. txn \in Txns
  BY DEF KernelInv, Good
<1>4. txn.sender \in Addr /\ txn.to \in Addr /\ txn.value \in Nat /\ g.sender = txn.sender
  BY <1>2, <1>3, DealIs DEF Txns
<1>5. marks' = marks /\ ctxs' = ctxs /\ rv' = rv /\ txn' = txn
  BY DEF process_message_txn_after_call
<1>6. ASSUME NEW s, Abides(s, g), s.destroyed = k.destroyed, NEW p \in {"finish", "panic_fail"},
             k' = s, pc' = p
      PROVE  TxnInv'
  <2>1. Kept(s, marks, ctxs, p, rv, txn)
    BY <1>2, <1>6 DEF Kept, Executing, Closing, Constructor
  <2> QED
    BY <1>5, <1>6, <2>1 DEF TxnInv
<1>7. CASE k' = k /\ pc' \in {"finish", "panic_fail"}
  BY <1>2, <1>6, <1>7
<1>8. CASE k' = t /\ pc' = "finish" /\ ~CannotPay(k, txn.to, txn.value)
  <2>1. k.led.acct[txn.to].balance \in Int
    BY <1>2, <1>4 DEF Abides, Sound, Kernels, Ledgers, Account
  <2>2. k.led.acct[txn.to].exists /\ k.led.acct[txn.to].balance >= txn.value
    BY <1>4, <1>8, <2>1 DEF CannotPay
  <2> HIDE DEF g
  <2>3. Abides(t, g) /\ t.destroyed = k.destroyed
    BY <1>2, <1>4, <2>2, TransferLawful
  <2> HIDE DEF t
  <2> QED
    BY <1>6, <1>8, <2>3
<1> QED
  BY <1>7, <1>8 DEF process_message_txn_after_call

\* What a transaction finds: the invariant between two transactions.
LEMMA AtIdle ==
    ASSUME KernelInv, TxnInv, pc = "idle"
    PROVE  /\ Sound(k) /\ Settled(k, txn) /\ Resting(k) /\ \A a \in Addr : ~is_empty(k.led, a)
           /\ Basic(k, marks, ctxs, txn.base) /\ Len(ctxs) = 1 /\ ~ctxs[1].static
           /\ marks \in Seq(Marks) /\ ctxs \in Seq(Context) /\ k.led \in Solid
<1>1. pc \in Bottom
  BY DEF Bottom
<1>2. /\ Basic(k, marks, ctxs, txn.base) /\ Sound(k) /\ Len(ctxs) = 1
      /\ marks \in Seq(Marks) /\ ctxs \in Seq(Context)
  BY <1>1, AtBottom
<1>3. Settled(k, txn) /\ ~ctxs[1].static
  BY DEF TxnInv, Kept
<1> QED
  BY <1>2, <1>3 DEF Settled, Sound

\* decode_and_store_access_list warms keys with the values of the transaction's start.
LEMMA AccessListRight ==
    ASSUME Sound(k), Resting(k), \A a \in Addr : ~is_empty(k.led, a), NEW o \in Addr,
           k.led.acct[o].exists, k.led.acct[o].code = NoCode, NEW warm \in AccessLists
    PROVE  LET s == AccessList(warm) IN
           /\ Sound(s) /\ s.led.acct = k.led.acct /\ s.led.slot = k.led.slot
           /\ OrigRight(s.led, k.led) /\ s.led.refund >= 0 /\ Covered(s.led)
           /\ s.destroyed[o] = 0
<1> DEFINE st == [slot |-> k.led.slot,
                  acct |-> [a \in Addr |-> [nonce |-> k.led.acct[o].nonce - 1]]]
           g == [start |-> st, sender |-> o, cap |-> Supply(k.led)]
           s == AccessList(warm)
<1>1. k.led \in Solid /\ k.led \in Ledgers /\ k.led.acct[o].nonce \in Nat
  BY DEF Sound, Solid, Ledgers, Account
<1>2. /\ g.sender = o /\ g.cap = Supply(k.led) /\ g.start.slot = k.led.slot
      /\ g.start.acct[o].nonce + 1 = k.led.acct[o].nonce
  BY <1>1
<1>3. Supply(k.led) \in Nat
  BY <1>1, SupplyTyped
<1> HIDE DEF g
<1>4. OrigRight(k.led, g.start) /\ SenderRight(k.led, g.start, g.sender)
  BY <1>2 DEF OrigRight, SenderRight, Resting
<1>5. Abides(k, g)
  <2>1. k.led.refund >= 0 /\ Supply(k.led) <= g.cap
    BY <1>2, <1>3 DEF Resting
  <2>2. EmptiesTouched(k.led, k.ripemd.touched)
    BY DEF EmptiesTouched
  <2> QED
    BY <1>1, <1>4, <2>1, <2>2 DEF Abides, Lawful
<1>6. Covered(k.led)
  <2>1. Cleared(k.led) = {}
    BY DEF Cleared, Resting
  <2>2. IsFiniteSet(Cleared(k.led)) /\ Cardinality(Cleared(k.led)) = 0
    BY <2>1, FS_EmptySet
  <2>3. REFUND_SCLEAR * 0 = 0
    BY LedgerAssumption
  <2> QED
    BY <2>2, <2>3 DEF Covered, Resting
<1>7. k.destroyed[o] = 0
  BY DEF Resting
<1> SUFFICES ASSUME NEW quiet, quiet
             PROVE  /\ Sound(s) /\ s.led.acct = k.led.acct /\ s.led.slot = k.led.slot
                    /\ OrigRight(s.led, k.led) /\ s.led.refund >= 0 /\ Covered(s.led)
                    /\ s.destroyed[o] = 0
  OBVIOUS
<1>8. Tame(k, s, g, quiet)
  <2>1. CASE warm = << >>
    BY <1>5, <2>1, TameRefl DEF AccessList
  <2>2. CASE warm # << >>
    <3>1. warm[1] \in Addr /\ warm[2] \in Slot
      BY <2>2, KernelAssumption
    <3> DEFINE t == insert_accessed_addresses(k, warm[1])
    <3>2. Tame(k, t, g, quiet)
      BY <1>5, <3>1, LoadedTame
    <3>3. Abides(t, g)
      BY <3>2, TameIs
    <3>4. s = insert_accessed_storage_keys(t, warm[1], warm[2])
      BY <2>2 DEF AccessList
    <3> HIDE DEF t, s
    <3>5. Tame(t, s, g, quiet)
      BY <3>1, <3>3, <3>4, KeyLoadedTame
    <3> QED
      BY <3>2, <3>5, TameTrans
  <2> QED
    BY <2>1, <2>2
<1> HIDE DEF s
<1>9. Abides(s, g) /\ SameView(k.led, s.led)
  BY <1>8, TameIs
<1>10. Covered(s.led) /\ s.destroyed[o] = 0
  BY <1>2, <1>6, <1>7, <1>8 DEF Tame
<1>11. Sound(s) /\ OrigRight(s.led, g.start) /\ s.led.refund >= 0
  BY <1>9 DEF Abides, Lawful
<1>12. OrigRight(s.led, k.led)
  BY <1>2, <1>11 DEF OrigRight
<1> QED
  BY <1>9, <1>10, <1>11, <1>12 DEF SameView

\* increment_nonce changes a nonce and nothing else of what the laws are about.
LEMMA IncrementNonceFields ==
    ASSUME NEW s, Sound(s), NEW a \in Addr, s.led.acct[a].exists
    PROVE  LET t == increment_nonce(s, a) IN
           /\ Sound(t) /\ Unpaid(s, t)
           /\ t.led.acct[a].exists /\ t.led.acct[a].code = s.led.acct[a].code
           /\ t.led.acct[a].balance = s.led.acct[a].balance
           /\ t.led.acct[a].nonce = s.led.acct[a].nonce + 1
           /\ \A b \in Addr : b # a => t.led.acct[b] = s.led.acct[b]
           /\ Supply(t.led) = Supply(s.led)
<1> DEFINE t == increment_nonce(s, a)
           L == [s.led EXCEPT !.acct[a].nonce = s.led.acct[a].nonce + 1]
<1>1. Sound(t)
  BY IncrementNonceFollows DEF Follows
<1>2. /\ t.led.acct[a].balance = s.led.acct[a].balance
      /\ t.led.acct[a].nonce = s.led.acct[a].nonce + 1
      /\ \A b \in Addr : b # a => t.led.acct[b] = s.led.acct[b]
  BY IncrementNonceIs
<1>3. t.led = L /\ t.ripemd = s.ripemd /\ t.destroyed = s.destroyed
  BY DEF increment_nonce, Record, Sound, Kernels
<1>4. s.led \in Ledgers
  BY DEF Sound, Kernels
<1>5. /\ L.acct[a].exists = s.led.acct[a].exists /\ L.acct[a].code = s.led.acct[a].code
      /\ L.slot = s.led.slot /\ L.orig = s.led.orig /\ L.refund = s.led.refund
      /\ L.touched = s.led.touched
  BY <1>4 DEF Ledgers, Account
<1>6. Supply(t.led) = Supply(s.led)
  BY <1>2, SupplySame
<1> HIDE DEF t, L
<1>7. Unpaid(s, t)
  BY <1>3, <1>5 DEF Unpaid
<1> QED
  BY <1>1, <1>2, <1>3, <1>5, <1>6, <1>7 DEF t

\* A transaction that has only bought its gas and warmed addresses.
Opened(s, x) ==
    Abides(s, Deal(x)) /\ Covered(s.led) /\ s.destroyed[x.sender] = 0 /\ Undone(s.led, x)

LEMMA OpenedLoaded ==
    ASSUME NEW s, NEW x \in Txns, x.start \in Solid, Opened(s, x), NEW a \in Addr
    PROVE  Opened(insert_accessed_addresses(s, a), x)
<1> SUFFICES ASSUME NEW quiet, quiet
             PROVE  Opened(insert_accessed_addresses(s, a), x)
  OBVIOUS
<1> DEFINE t == insert_accessed_addresses(s, a)
<1>1. Abides(s, Deal(x)) /\ Sound(s) /\ Deal(x).sender = x.sender
  BY DealIs DEF Opened, Abides
<1>2. Tame(s, t, Deal(x), quiet)
  BY <1>1, LoadedTame
<1> HIDE DEF t
<1>3. Abides(t, Deal(x)) /\ SameView(s.led, t.led)
  BY <1>1, <1>2, TameIs
<1>4. Covered(t.led) /\ t.destroyed[x.sender] = 0
  BY <1>1, <1>2 DEF Tame, Opened
<1>5. Undone(t.led, x)
  BY <1>3 DEF Undone, SameView, Opened
<1> QED
  BY <1>3, <1>4, <1>5 DEF Opened, t

\* The account function after a sender has bought gas and spent a nonce.
Spent(f, o, u) == [f EXCEPT ![o].nonce = @ + 1, ![o].balance = @ - u]

LEMMA SpentIs ==
    ASSUME NEW f \in [Addr -> Account], NEW h \in [Addr -> Account], NEW o \in Addr, NEW u \in Nat,
           \A b \in Addr : b # o => h[b] = f[b],
           h[o].exists = f[o].exists, h[o].code = f[o].code, h[o].nonce = f[o].nonce + 1,
           h[o].balance = f[o].balance - u
    PROVE  h = Spent(f, o, u)
<1> DEFINE g == [f EXCEPT ![o].nonce = @ + 1, ![o].balance = @ - u]
<1>1. f[o] \in Account /\ h[o] \in Account
  OBVIOUS
<1>2. /\ DOMAIN g = Addr /\ g = [b \in Addr |-> g[b]]
      /\ \A b \in Addr : b # o => g[b] = f[b]
      /\ g[o] = [f[o] EXCEPT !.nonce = @ + 1, !.balance = @ - u]
  OBVIOUS
<1>3. [f[o] EXCEPT !.nonce = @ + 1, !.balance = @ - u] =
      [exists |-> f[o].exists, nonce |-> f[o].nonce + 1, balance |-> f[o].balance - u,
       code |-> f[o].code]
  BY <1>1 DEF Account
<1>4. h[o] = [exists |-> h[o].exists, nonce |-> h[o].nonce, balance |-> h[o].balance,
              code |-> h[o].code]
  BY <1>1 DEF Account
<1>5. g[o] = h[o]
  BY <1>2, <1>3, <1>4
<1> HIDE DEF g
<1>6. \A b \in Addr : g[b] = h[b]
  BY <1>2, <1>5
<1>7. h = [b \in Addr |-> h[b]]
  OBVIOUS
<1>8. g = h
  BY <1>2, <1>6, <1>7
<1> QED
  BY <1>8 DEF g, Spent

\* process_normalized_txn up to the call or the creation: gas bought, nonce spent,
\* addresses warm, and every law in force.
LEMMA TxnOpened ==
    ASSUME KernelInv, TxnInv, pc = "idle", NEW o \in Addr, NEW a \in Addr, NEW v \in Nat,
           NEW warm \in AccessLists, ValidTxn(o, v), NEW x \in Txns, x.start = k.led, x.sender = o
    PROVE  Opened(insert_accessed_addresses(Bought(o, warm), a), x)
<1> DEFINE s0 == AccessList(warm)
           s1 == deduct_eth(s0, o, Upfront)
           s2 == increment_nonce(s1, o)
           s3 == insert_accessed_addresses(s2, o)
           s4 == insert_accessed_addresses(s3, RIP160)
           s5 == insert_accessed_addresses(s4, Coinbase)
<1>1. /\ Sound(k) /\ Resting(k) /\ (\A b \in Addr : ~is_empty(k.led, b)) /\ k.led \in Solid
  BY AtIdle
<1>2. /\ k.led.acct[o].exists /\ k.led.acct[o].code = NoCode
      /\ k.led.acct[o].balance >= Upfront + v
  BY DEF ValidTxn
<1>3. Upfront \in Nat /\ Coinbase \in Addr /\ RIP160 \in Addr
  BY KernelAssumption, LedgerAssumption, ProductNat DEF Upfront, Price
<1>4. /\ Sound(s0) /\ s0.led.acct = k.led.acct /\ s0.led.slot = k.led.slot
      /\ OrigRight(s0.led, k.led) /\ s0.led.refund >= 0 /\ Covered(s0.led)
      /\ s0.destroyed[o] = 0
  BY <1>1, <1>2, AccessListRight
<1>5. Bought(o, warm) = s5
  BY DEF Bought
<1> HIDE DEF s0
<1>6. k.led.acct[o].balance \in Int /\ k.led.acct[o].nonce \in Nat
  BY <1>1 DEF Solid, Ledgers, Account
<1>7. s0.led.acct[o].exists /\ s0.led.acct[o].balance >= Upfront
  BY <1>2, <1>3, <1>4, <1>6
<1>8. /\ Sound(s1) /\ Unpaid(s0, s1)
      /\ s1.led.acct[o].exists /\ s1.led.acct[o].nonce = s0.led.acct[o].nonce
      /\ s1.led.acct[o].code = s0.led.acct[o].code
      /\ s1.led.acct[o].balance = s0.led.acct[o].balance - Upfront
      /\ \A b \in Addr : b # o => s1.led.acct[b] = s0.led.acct[b]
      /\ Supply(s1.led) = Supply(s0.led) - Upfront
  BY <1>3, <1>4, <1>7, DeductIs
<1> HIDE DEF s1
<1>9. /\ Sound(s2) /\ Unpaid(s1, s2)
      /\ s2.led.acct[o].exists /\ s2.led.acct[o].code = s1.led.acct[o].code
      /\ s2.led.acct[o].balance = s1.led.acct[o].balance
      /\ s2.led.acct[o].nonce = s1.led.acct[o].nonce + 1
      /\ \A b \in Addr : b # o => s2.led.acct[b] = s1.led.acct[b]
      /\ Supply(s2.led) = Supply(s1.led)
  BY <1>8, IncrementNonceFields
<1> HIDE DEF s2
<1>10. /\ s2.led.slot = s0.led.slot /\ s2.led.orig = s0.led.orig
       /\ s2.led.refund = s0.led.refund /\ s2.destroyed = s0.destroyed
  BY <1>8, <1>9 DEF Unpaid
<1>11. /\ s2.led.acct[o].nonce = k.led.acct[o].nonce + 1
       /\ s2.led.acct[o].balance = k.led.acct[o].balance - Upfront
       /\ s2.led.acct[o].code = NoCode
       /\ \A b \in Addr : b # o => s2.led.acct[b] = k.led.acct[b]
  BY <1>2, <1>4, <1>8, <1>9
<1>12. Opened(s2, x)
  <2>1. /\ Deal(x).start = k.led /\ Deal(x).sender = o
        /\ Deal(x).cap = Supply(k.led) - Upfront /\ Supply(k.led) \in Nat
    BY <1>1, DealIs
  <2>2. Supply(s2.led) <= Deal(x).cap
    <3>1. Supply(s0.led) = Supply(k.led)
      BY <1>4, SupplySame
    <3> QED
      BY <1>3, <1>8, <1>9, <2>1, <3>1
  <2>3. OrigRight(s2.led, k.led)
    BY <1>4, <1>10 DEF OrigRight
  <2>4. SenderRight(s2.led, k.led, o)
    BY <1>9, <1>11 DEF SenderRight
  <2>5. s2.led.acct[o].nonce # 0
    BY <1>6, <1>11
  <2>6. \A b \in Addr : ~is_empty(s2.led, b)
    BY <1>1, <1>11, <2>5 DEF is_empty
  <2>7. EmptiesTouched(s2.led, s2.ripemd.touched)
    BY <2>6 DEF EmptiesTouched
  <2>8. s2.led \in Solid /\ s2.led.refund >= 0
    BY <1>4, <1>9, <1>10 DEF Sound
  <2>9. Abides(s2, Deal(x))
    BY <1>9, <2>1, <2>2, <2>3, <2>4, <2>7, <2>8 DEF Abides, Lawful
  <2>10. Covered(s2.led)
    <3>1. Cleared(s2.led) = Cleared(s0.led)
      BY <1>10 DEF Cleared
    <3> QED
      BY <1>4, <1>10, <3>1 DEF Covered
  <2>11. Undone(s2.led, x)
    <3>1. k.led.acct \in [Addr -> Account] /\ s2.led.acct \in [Addr -> Account]
      BY <1>1, <2>8 DEF Solid, Ledgers
    <3>2. s2.led.acct[o].exists \in BOOLEAN /\ k.led.acct[o].exists \in BOOLEAN
      BY <3>1 DEF Account
    <3>3. s2.led.acct[o].exists = k.led.acct[o].exists
      BY <1>2, <1>9, <3>2
    <3> DEFINE f == k.led.acct
               h == s2.led.acct
    <3>4. /\ f \in [Addr -> Account] /\ h \in [Addr -> Account]
          /\ h[o].exists = f[o].exists /\ h[o].code = f[o].code
          /\ h[o].nonce = f[o].nonce + 1 /\ h[o].balance = f[o].balance - Upfront
          /\ \A b \in Addr : b # o => h[b] = f[b]
      BY <1>2, <1>11, <3>1, <3>3
    <3> HIDE DEF f, h
    <3>5. h = Spent(f, o, Upfront)
      BY <1>3, <3>4, SpentIs, Zenon
    <3> QED
      BY <1>4, <1>10, <3>5 DEF Undone, Spent, f, h
  <2> QED
    BY <1>4, <1>10, <2>9, <2>10, <2>11 DEF Opened
<1>13. x.start \in Solid
  BY <1>1
<1>14. Opened(s3, x)
  BY <1>12, <1>13, OpenedLoaded
<1> HIDE DEF s3
<1>15. Opened(s4, x)
  BY <1>3, <1>13, <1>14, OpenedLoaded
<1> HIDE DEF s4
<1>16. Opened(s5, x)
  BY <1>3, <1>13, <1>15, OpenedLoaded
<1> HIDE DEF s5
<1> QED
  BY <1>5, <1>13, <1>16, OpenedLoaded

\* At the start of a transaction only the kernel's own context is there.
LEMMA OrderlyFresh ==
    ASSUME NEW s0, NEW s, NEW ms, NEW cs, NEW b, Basic(s0, ms, cs, b), Len(cs) = 1, ~cs[1].static,
           NEW x \in Txns, x.start \in Solid, x.base = Len(ms), x.kind # "create",
           Abides(s, Deal(x)), Covered(s.led), s.destroyed[x.sender] = 0
    PROVE  Orderly(s, ms, cs, x)
<1>1. Sound(s) /\ s.led \in Lawful(Deal(x), s.ripemd.touched)
  BY DEF Abides
<1>2. Live(s, ms, cs, x.base) /\ Len(ms) \in Nat
  BY <1>1, Fresh DEF Basic
<1>3. Held(s, ms, x.base, Len(ms), Len(s.journal), Lawful(Deal(x), s.ripemd.touched))
  BY <1>1, <1>2 DEF Held
<1>4. Owns(s, ms, cs, Len(ms), Len(s.journal)) /\ MarksCovered(ms, x.base)
  BY <1>2 DEF Owns, MarksCovered
<1>5. Shape(cs, x)
  BY DEF Shape
<1>6. Creating(ms, cs, x)
  BY DEF Creating
<1> QED
  BY <1>2, <1>3, <1>4, <1>5, <1>6 DEF Orderly, Busy

\* process_message_txn keeps the invariant.
LEMMA MessageTxnKept ==
    ASSUME KernelInv, TxnInv, NEW o \in Senders, NEW a \in Addr, NEW v \in Amounts,
           NEW warm \in AccessLists, process_message_txn(o, a, v, warm)
    PROVE  TxnInv'
<1> DEFINE s0 == Bought(o, warm)
           s1 == insert_accessed_addresses(s0, a)
           s == transfer_eth(s1, o, a, v)
           kind == "msg"
           x == NewTxn(kind, o, a, v)
<1>1. pc = "idle" /\ ValidTxn(o, v) /\ o \in Addr /\ v \in Nat
  BY KernelAssumption DEF process_message_txn
<1>2. /\ Basic(k, marks, ctxs, txn.base) /\ Sound(k) /\ Len(ctxs) = 1 /\ ~ctxs[1].static
      /\ k.led \in Solid
  BY <1>1, AtIdle
<1>3. kind \in {"none", "msg", "create", "invalid"} /\ kind # "create"
  OBVIOUS
<1>4. /\ txn' = x
      /\ \/ k' = s /\ pc' = "finish" /\ UNCHANGED <<marks, ctxs, rv>>
         \/ Enter(s, marks, ctxs, a, CodeOf(s.led, a), FALSE, "txn_msg")
  BY DEF process_message_txn
<1> HIDE DEF kind
<1>5. x \in Txns /\ x.base = Len(marks)
  BY <1>1, <1>3, NewTxnIs
<1>6. x.start = k.led /\ x.sender = o /\ x.kind # "create" /\ x.start \in Solid
  BY <1>2, <1>3 DEF NewTxn
<1> HIDE DEF x
<1>7. Sound(s0) /\ s0.led.acct[o].exists /\ s0.led.acct[o].balance >= v
  BY <1>1, <1>2, BoughtIs
<1>8. Opened(s1, x)
  BY <1>1, <1>5, <1>6, TxnOpened
<1> HIDE DEF s0
<1>9. s1.led.acct = s0.led.acct
  BY <1>7, LoadedIs
<1> HIDE DEF s1
<1>10. Abides(s1, Deal(x)) /\ Covered(s1.led) /\ s1.destroyed[x.sender] = 0
  BY <1>8 DEF Opened
<1>11. Deal(x).sender = x.sender /\ Deal(x).start = x.start
  BY <1>5, <1>6, DealIs
<1>12. Abides(s, Deal(x)) /\ Covered(s.led) /\ s.destroyed[x.sender] = 0
  BY <1>1, <1>6, <1>7, <1>9, <1>10, <1>11, TransferLawful
<1> HIDE DEF s
<1>13. CASE k' = s /\ pc' = "finish" /\ UNCHANGED <<marks, ctxs, rv>>
  <2> DEFINE p == "finish"
  <2>1. pc' = p /\ p \in Closing
    BY <1>13 DEF Closing
  <2>2. Kept(s, marks, ctxs, p, rv, x)
    BY <1>2, <1>6, <1>12, <2>1 DEF Kept, Executing, Constructor
  <2> HIDE DEF p
  <2> QED
    BY <1>4, <1>13, <2>1, <2>2 DEF TxnInv
<1>14. CASE Enter(s, marks, ctxs, a, CodeOf(s.led, a), FALSE, "txn_msg")
  <2> DEFINE code == CodeOf(s.led, a)
             static == FALSE
             ret == "txn_msg"
  <2>1. Orderly(s, marks, ctxs, x)
    BY <1>2, <1>5, <1>6, <1>12, OrderlyFresh
  <2>2. s.led \in Solid /\ SenderRight(s.led, x.start, x.sender)
    BY <1>11, <1>12 DEF Abides, Lawful
  <2>3. code \in {"user", "none", "precompile"} /\ (code = "user" => s.led.acct[a].exists)
    BY <2>2, CodeOfIs
  <2>4. code = "user" => Firm(s.led, a) /\ a # x.sender
    BY <2>2, <2>3 DEF CodeOf, Firm, SenderRight
  <2>5. /\ static \in BOOLEAN /\ ret \notin Constructor
        /\ MayEnter(ctxs, x.base, ret)
        /\ Enter(s, marks, ctxs, a, code, static, ret)
    BY <1>2, <1>14 DEF MayEnter, Constructor
  <2> HIDE DEF code, static, ret
  <2>6. ctxs[Len(ctxs)].static => static
    BY <1>2
  <2> QED
    BY <1>4, <1>6, <2>1, <2>3, <2>4, <2>5, <2>6, EnterKept
<1> QED
  BY <1>4, <1>13, <1>14

\* The checkpoint a creation transaction takes: what it undoes is the gas bought.
LEMMA OrderlyOpening ==
    ASSUME NEW s0, NEW s, NEW marx, NEW ctxz, NEW b, Basic(s0, marx, ctxz, b), Len(ctxz) = 1,
           ~ctxz[1].static, NEW x \in Txns, x.start \in Solid, x.base = Len(marx), Opened(s, x)
    PROVE  LET ms == Append(marx, Mark(s))
               cs == WithCheckpoint(ctxz, marx)
           IN  /\ Orderly(s, ms, cs, x) /\ Len(cs) = 1 /\ ~cs[1].static
               /\ Anchored(cs[1].cps, x.base)
<1> DEFINE ms == Append(marx, Mark(s))
           cs == WithCheckpoint(ctxz, marx)
           n == Len(ctxz[1].cps)
<1>1. /\ Abides(s, Deal(x)) /\ Covered(s.led) /\ s.destroyed[x.sender] = 0 /\ Undone(s.led, x)
  BY DEF Opened
<1>2. Sound(s) /\ s.led \in Lawful(Deal(x), s.ripemd.touched)
  BY <1>1 DEF Abides
<1>3. marx \in Seq(Marks) /\ ctxz \in Seq(Context) /\ x.base \in Nat /\ x.base <= Len(marx)
  BY DEF Basic
<1>4. Live(s, marx, ctxz, x.base)
  BY <1>2, Fresh
<1>5. Live(s, ms, cs, x.base)
  BY <1>4, LiveCheckpoint
<1>6. Held(s, marx, x.base, Len(marx), Len(s.journal), Lawful(Deal(x), s.ripemd.touched))
  BY <1>2, <1>3 DEF Held
<1>7. Held(s, ms, x.base, Len(marx) + 1, Len(s.journal), Lawful(Deal(x), s.ripemd.touched))
  BY <1>2, <1>3, <1>6, HeldMark
<1>8. /\ Len(ms) = Len(marx) + 1 /\ ms[Len(marx) + 1] = Mark(s)
  BY <1>3
<1>9. Mark(s).led = s.led
  BY DEF Mark
<1>10. n \in Nat
  BY <1>3, CtxTyped
<1>11. Len(cs) = 1 /\ Len(cs[1].cps) = n + 1 /\ cs[1].cps[n + 1] = Len(marx)
  <2>1. Len(ctxz) >= 1
    OBVIOUS
  <2>2. /\ Len(cs) = Len(ctxz) /\ Len(cs[Len(ctxz)].cps) = Len(ctxz[Len(ctxz)].cps) + 1
        /\ cs[Len(ctxz)].cps[Len(ctxz[Len(ctxz)].cps) + 1] = Len(marx)
    BY <1>3, <2>1, WithCheckpointIs
  <2> HIDE DEF cs
  <2> QED
    BY <2>2
<1>12. ~cs[1].static
  <2>1. Len(ctxz) >= 1
    OBVIOUS
  <2>2. Len(cs) = Len(ctxz) /\ cs[Len(cs)].static = ctxz[Len(ctxz)].static
    BY <1>3, <2>1, CheckpointStatic
  <2> HIDE DEF cs
  <2> QED
    BY <2>2
<1> HIDE DEF ms, cs, n
<1>13. Owns(s, ms, cs, Len(ms), Len(s.journal))
  BY <1>11 DEF Owns
<1>14. Shape(cs, x)
  BY <1>11, <1>12 DEF Shape
<1>15. MarksCovered(ms, x.base)
  <2>1. ms[Len(marx) + 1].led = s.led
    BY <1>8, <1>9
  <2>2. Covered(ms[Len(marx) + 1].led)
    BY <1>1, <2>1
  <2>3. Len(marx) \in Nat
    BY <1>3
  <2>4. \A m \in x.base + 1 .. Len(ms) : m = Len(marx) + 1
    BY <1>8, <2>3
  <2> QED
    BY <2>2, <2>4, Zenon DEF MarksCovered
<1>16. Len(cs[1].cps) >= 1 /\ cs[1].cps[Len(cs[1].cps)] = x.base
  BY <1>3, <1>10, <1>11
<1>17. Creating(ms, cs, x)
  <2>1. x.base < Len(ms) /\ ms[x.base + 1].led = s.led
    BY <1>3, <1>8, <1>9
  <2> QED
    BY <1>1, <1>16, <2>1 DEF Creating
<1>18. Orderly(s, ms, cs, x)
  BY <1>1, <1>5, <1>7, <1>8, <1>13, <1>14, <1>15, <1>17 DEF Orderly, Busy
<1>19. Anchored(cs[1].cps, x.base)
  BY <1>3, <1>16 DEF Anchored
<1> QED
  BY <1>11, <1>12, <1>18, <1>19 DEF ms, cs

\* process_contract_creation_txn keeps the invariant.
LEMMA CreationTxnKept ==
    ASSUME KernelInv, KernelInv', TxnInv, NEW o \in Senders, NEW a \in Addr, NEW v \in Amounts,
           NEW warm \in AccessLists, process_contract_creation_txn(o, a, v, warm)
    PROVE  TxnInv'
<1> DEFINE s00 == Bought(o, warm)
           s0 == insert_accessed_addresses(s00, a)
           ms == Append(marks, Mark(s0))
           cs == WithCheckpoint(ctxs, marks)
           s1 == AppendCreated(s0, a)
           s2 == InsertContract(s1, a)
           s3 == TransferAndJournal(s2, o, a, v)
           kind == "create"
           x == NewTxn(kind, o, a, v)
<1> SUFFICES ASSUME NEW quiet, ~quiet
             PROVE  TxnInv'
  OBVIOUS
<1>1. pc = "idle" /\ ValidTxn(o, v) /\ o \in Addr /\ v \in Nat
  BY KernelAssumption DEF process_contract_creation_txn
<1>2. /\ Basic(k, marks, ctxs, txn.base) /\ Sound(k) /\ Len(ctxs) = 1 /\ ~ctxs[1].static
      /\ k.led \in Solid
  BY <1>1, AtIdle
<1>3. kind \in {"none", "msg", "create", "invalid"}
  OBVIOUS
<1>4. /\ txn' = x
      /\ \/ Collides(s1, a) /\ StartRevert(s1, ms, cs, "fault")
         \/ ~Collides(s1, a) /\ Enter(s3, ms, cs, a, "user", FALSE, "txn_create")
  BY DEF process_contract_creation_txn
<1> HIDE DEF kind
<1>5. x \in Txns /\ x.base = Len(marks)
  BY <1>1, <1>3, NewTxnIs
<1>6. x.start = k.led /\ x.sender = o /\ x.start \in Solid
  BY <1>2 DEF NewTxn
<1> HIDE DEF x
<1>7. Sound(s00) /\ s00.led.acct[o].exists /\ s00.led.acct[o].balance >= v
  BY <1>1, <1>2, BoughtIs
<1>8. Opened(s0, x)
  BY <1>1, <1>5, <1>6, TxnOpened
<1> HIDE DEF s00
<1>9. s0.led.acct = s00.led.acct
  BY <1>7, LoadedIs
<1> HIDE DEF s0
<1>10. /\ Orderly(s0, ms, cs, x) /\ Len(cs) = 1 /\ ~cs[1].static /\ Anchored(cs[1].cps, x.base)
  BY <1>2, <1>5, <1>6, <1>8, OrderlyOpening
<1> HIDE DEF ms, cs
<1>11. cs[Len(cs)].static => quiet
  BY <1>10
<1>12. Abides(s0, Deal(x)) /\ Sound(s0)
  BY <1>8 DEF Opened, Abides
<1>13. Deal(x).sender = x.sender /\ Deal(x).start = x.start
  BY <1>5, <1>6, DealIs
<1>14. Tame(s0, s1, Deal(x), quiet) /\ IsTouched(s1, a)
  BY <1>12, AppendCreatedTame
<1>15. s1.led.acct = s0.led.acct
  BY <1>12, AppendCreatedFollows
<1> HIDE DEF s1
<1>16. Orderly(s1, ms, cs, x) /\ Abides(s1, Deal(x)) /\ Sound(s1)
  <2>1. Orderly(s1, ms, cs, x)
    BY <1>10, <1>11, <1>14, OrderlyTame
  <2> QED
    BY <2>1, OrderlyIs
<1>17. CASE StartRevert(s1, ms, cs, "fault")
  <2> DEFINE nx == "fault"
  <2>1. StartRevert(s1, ms, cs, nx)
    BY <1>17
  <2> HIDE DEF nx
  <2>2. pc' # "panic"
    BY DEF KernelInv, Good, AtLabel
  <2> QED
    BY <1>4, <1>16, <2>1, <2>2, RevertKept
<1>18. CASE ~Collides(s1, a) /\ Enter(s3, ms, cs, a, "user", FALSE, "txn_create")
  <2>1. Tame(s1, s2, Deal(x), quiet) /\ a # x.sender /\ s2.led.acct[a].nonce # 0
    BY <1>1, <1>6, <1>13, <1>14, <1>16, <1>18, InsertContractTame
  <2>2. /\ s2.led.acct[a].exists
        /\ \A c \in Addr : c # a /\ s1.led.acct[c].exists => s2.led.acct[c] = s1.led.acct[c]
    BY <1>16, <1>18, InsertContractFollows
  <2> HIDE DEF s2
  <2>3. s1.led.acct[o] = s00.led.acct[o]
    BY <1>9, <1>15
  <2>4. s2.led.acct[o].exists /\ s2.led.acct[o].balance >= v
    BY <1>1, <1>6, <1>7, <2>1, <2>2, <2>3
  <2>5. Abides(s2, Deal(x)) /\ Sound(s2)
    BY <1>16, <2>1, TameIs DEF Abides
  <2>6. Orderly(s2, ms, cs, x)
    BY <1>11, <1>16, <2>1, OrderlyTame
  <2>7. quiet => v = 0
    OBVIOUS
  <2>8. Tame(s2, s3, Deal(x), quiet)
    BY <1>1, <1>6, <1>13, <2>4, <2>5, <2>7, TransferTame
  <2> HIDE DEF s3
  <2>9. Orderly(s3, ms, cs, x)
    BY <1>11, <2>6, <2>8, OrderlyTame
  <2>10. Sturdy(s2.led, s3.led)
    BY <2>5, <2>8, TameIs
  <2>11. s3.led.acct[a].nonce # 0 /\ Firm(s3.led, a)
    BY <2>1, <2>2, <2>10 DEF Sturdy, Firm
  <2> DEFINE code == "user"
             static == FALSE
             ret == "txn_create"
  <2>12. /\ code \in {"user", "none", "precompile"} /\ code = "user" /\ static \in BOOLEAN
         /\ ~static /\ ret = "txn_create"
         /\ MayEnter(cs, x.base, ret)
         /\ Enter(s3, ms, cs, a, code, static, ret)
    BY <1>10, <1>18 DEF MayEnter
  <2> HIDE DEF code, static, ret
  <2>13. cs[Len(cs)].static => static
    BY <1>10
  <2> QED
    BY <1>4, <2>1, <2>9, <2>11, <2>12, <2>13, EnterKept
<1> QED
  BY <1>4, <1>17, <1>18

\* reinitialize_memory_pre_txn leaves the accounts and forgets the rest.
LEMMA ReinitializedIs ==
    ASSUME NEW s, Sound(s)
    PROVE  Resting(Reinitialized(s)) /\ Reinitialized(s).led.acct = s.led.acct
<1> DEFINE z == 0
           og == [a \in Addr |-> [i \in Slot |-> Cold]]
           L == [s.led EXCEPT !.loaded = {}, !.refund = z, !.orig = og,
                              !.logs = [len |-> 0, size |-> 0],
                              !.tran = [a \in Addr |-> [i \in Slot |-> 0]]]
           t == Reinitialized(s)
<1>1. s.led \in Ledgers
  BY DEF Sound, Kernels
<1>2. t.led = L /\ t.destroyed = [a \in Addr |-> 0]
  BY DEF Reinitialized
<1>3. L.acct = s.led.acct /\ L.refund = z /\ L.orig = og
  BY <1>1 DEF Ledgers
<1> HIDE DEF L, t
<1>4. t.led.refund = 0 /\ t.led.orig = og /\ t.led.acct = s.led.acct
  BY <1>2, <1>3
<1>5. Resting(t)
  BY <1>2, <1>4 DEF Resting
<1> QED
  BY <1>4, <1>5 DEF t

\* What the sender and the coinbase are paid is at most what the sender bought.
LEMMA PayOut ==
    ASSUME NEW A \in Nat, NEW B \in Nat, NEW p \in Nat, NEW q \in Nat
    PROVE  A * q + B * (p + q) <= (A + B) * (p + q)
<1>1. A * q \in Nat /\ A * p \in Nat /\ B * (p + q) \in Nat
  BY ProductNat
<1>2. A * (p + q) = A * p + A * q
  OBVIOUS
<1>3. (A + B) * (p + q) = A * (p + q) + B * (p + q)
  OBVIOUS
<1> QED
  BY <1>1, <1>2, <1>3

\* pay_coinbase_and_refund_sender.
LEMMA PaidIs ==
    ASSUME NEW s, Sound(s), txn \in Txns, NEW leftover \in Leftovers
    PROVE  LET t == Paid(s, leftover) IN
           /\ Sound(t) /\ t.destroyed = s.destroyed
           /\ Supply(t.led) <= Supply(s.led) + Upfront
           /\ \A b \in Addr :
                 /\ t.led.acct[b].nonce = s.led.acct[b].nonce
                 /\ s.led.acct[b].exists => t.led.acct[b].exists
                 /\ IsTouched(s, b) => IsTouched(t, b)
                 /\ t.led.acct[b] = s.led.acct[b] \/ IsTouched(t, b)
<1> DEFINE used == GasLimit - leftover
           capped == used \div 5
           refund == IF s.led.refund \in 0 .. capped THEN s.led.refund ELSE capped
           v == (used - refund) * PriorityFee
           w == (leftover + refund) * Price
           t == add_eth(s, Coinbase, v)
           u == add_eth(t, txn.sender, w)
<1>1. /\ leftover \in Nat /\ used \in Nat /\ PriorityFee \in Nat /\ Price \in Nat
      /\ BaseFee \in Nat /\ used + leftover = GasLimit
  <2>1. GasLimit \in Nat /\ leftover \in 0 .. GasLimit /\ BaseFee \in Nat /\ PriorityFee \in Nat
    BY KernelAssumption
  <2> QED
    BY <2>1 DEF Price
<1>2. Coinbase \in Addr /\ txn.sender \in Addr
  BY KernelAssumption DEF Txns
<1> HIDE DEF used
<1>3. capped \in Nat /\ capped <= used
  BY <1>1
<1> HIDE DEF capped
<1>4. refund \in Nat /\ refund <= used
  BY <1>1, <1>3
<1> HIDE DEF refund
<1>5. used - refund \in Nat /\ leftover + refund \in Nat
  BY <1>1, <1>4
<1>6. v \in Nat /\ w \in Nat
  BY <1>1, <1>5, ProductNat
<1>7. v + w <= Upfront
  <2> DEFINE A == used - refund
             B == leftover + refund
  <2>1. A \in Nat /\ B \in Nat /\ A + B = GasLimit
    BY <1>1, <1>4, <1>5
  <2> HIDE DEF A, B
  <2>2. A * PriorityFee + B * (BaseFee + PriorityFee) <= (A + B) * (BaseFee + PriorityFee)
    BY <1>1, <2>1, PayOut
  <2>3. A * PriorityFee + B * Price <= GasLimit * Price
    BY <2>1, <2>2 DEF Price
  <2> QED
    BY <2>3 DEF A, B, Upfront
<1>8. Paid(s, leftover) = u
  BY DEF Paid, used, capped, refund
<1> HIDE DEF v, w
<1>9. /\ Sound(t) /\ Unpaid(s, t)
      /\ \A b \in Addr : IsTouched(s, b) \/ b = Coinbase => IsTouched(t, b)
      /\ s.led.acct[Coinbase].exists => t.led.acct[Coinbase].exists
      /\ t.led.acct[Coinbase].nonce = s.led.acct[Coinbase].nonce
      /\ \A b \in Addr : b # Coinbase => t.led.acct[b] = s.led.acct[b]
      /\ Supply(t.led) = Supply(s.led) + v
  BY <1>2, <1>6, AddEthIs
<1> HIDE DEF t
<1>10. /\ Sound(u) /\ Unpaid(t, u)
       /\ \A b \in Addr : IsTouched(t, b) \/ b = txn.sender => IsTouched(u, b)
       /\ t.led.acct[txn.sender].exists => u.led.acct[txn.sender].exists
       /\ u.led.acct[txn.sender].nonce = t.led.acct[txn.sender].nonce
       /\ \A b \in Addr : b # txn.sender => u.led.acct[b] = t.led.acct[b]
       /\ Supply(u.led) = Supply(t.led) + w
  <2> DEFINE o == txn.sender
             y == add_eth(t, o, w)
  <2>1. o \in Addr /\ u = y
    BY <1>2
  <2>2. Sound(t)
    BY <1>9
  <2> HIDE DEF o, u
  <2>3. /\ Sound(y) /\ Unpaid(t, y)
        /\ \A b \in Addr : IsTouched(t, b) \/ b = o => IsTouched(y, b)
        /\ t.led.acct[o].exists => y.led.acct[o].exists
        /\ y.led.acct[o].nonce = t.led.acct[o].nonce
        /\ \A b \in Addr : b # o => y.led.acct[b] = t.led.acct[b]
        /\ Supply(y.led) = Supply(t.led) + w
    BY <1>6, <2>1, <2>2, AddEthIs
  <2> HIDE DEF y
  <2> QED
    BY <2>1, <2>3 DEF o
<1> HIDE DEF u
<1>11. Supply(s.led) \in Nat /\ Upfront \in Nat
  BY <1>1, KernelAssumption, SupplyTyped, ProductNat DEF Sound, Upfront
<1>12. Supply(u.led) <= Supply(s.led) + Upfront
  BY <1>6, <1>7, <1>9, <1>10, <1>11
<1>13. u.destroyed = s.destroyed
  BY <1>9, <1>10 DEF Unpaid
<1>14. \A b \in Addr :
          /\ u.led.acct[b].nonce = s.led.acct[b].nonce
          /\ s.led.acct[b].exists => u.led.acct[b].exists
          /\ IsTouched(s, b) => IsTouched(u, b)
          /\ u.led.acct[b] = s.led.acct[b] \/ IsTouched(u, b)
  <2> TAKE b \in Addr
  <2>1. CASE b = Coinbase
    BY <1>2, <1>9, <1>10, <2>1
  <2>2. CASE b # Coinbase
    BY <1>2, <1>9, <1>10, <2>2
  <2> QED
    BY <2>1, <2>2
<1> QED
  BY <1>8, <1>10, <1>12, <1>13, <1>14

\* delete_all_touched_addresses and delete_all_selfdestructed_addresses: what is left.
LEMMA SweptIs ==
    ASSUME NEW s, Sound(s)
    PROVE  /\ \A a \in Addr :
                 \/ Swept(s).acct[a] = NoAccount
                 \/ Swept(s).acct[a] = s.led.acct[a] /\ ~(IsTouched(s, a) /\ is_empty(s.led, a))
           /\ \A a \in Addr : s.destroyed[a] = 0 /\ ~is_empty(s.led, a)
                                 => Swept(s).acct[a] = s.led.acct[a]
           /\ Supply(Swept(s)) <= Supply(s.led)
<1> DEFINE touched == s.led.touched \cup (IF s.ripemd.touched THEN {RIP160} ELSE {})
           dead == {a \in Addr : \/ a \in touched /\ is_empty(s.led, a)
                                 \/ s.destroyed[a] > 0 /\ s.led.acct[a].exists}
           f == [a \in Addr |-> IF a \in dead THEN NoAccount ELSE s.led.acct[a]]
           g == [a \in Addr |-> [i \in Slot |-> IF a \in dead THEN 0 ELSE s.led.slot[a][i]]]
           M == [s.led EXCEPT !.acct = f, !.slot = g]
<1>1. s.led \in Solid /\ s.led \in Ledgers
  BY DEF Sound, Kernels
<1>2. Swept(s) = M
  BY DEF Swept
<1>3. M.acct = f
  BY <1>1 DEF Ledgers
<1>4. \A a \in Addr : IsTouched(s, a) => a \in touched
  BY DEF IsTouched
<1> HIDE DEF M, touched
<1>5. \A a \in Addr : IsTouched(s, a) /\ is_empty(s.led, a) => a \in dead
  BY <1>4
<1>6. \A a \in Addr : s.destroyed[a] = 0 /\ ~is_empty(s.led, a) => a \notin dead
  OBVIOUS
<1> HIDE DEF dead
<1>7. \A a \in Addr : M.acct[a] = IF a \in dead THEN NoAccount ELSE s.led.acct[a]
  BY <1>3
<1>8. Supply(M) <= Supply(s.led)
  <2>1. M \in Solid
    BY <1>2, SweptSolid
  <2>2. \A a \in Addr : M.acct[a].balance <= s.led.acct[a].balance
    <3> TAKE a \in Addr
    <3>1. s.led.acct[a].balance \in Int /\ s.led.acct[a].balance >= 0
      BY <1>1 DEF Solid, Ledgers, Account
    <3>2. NoAccount.balance = 0
      BY DEF NoAccount
    <3> QED
      BY <1>7, <3>1, <3>2
  <2> QED
    BY <1>1, <2>1, <2>2, SupplyLess
<1> QED
  BY <1>2, <1>5, <1>6, <1>7, <1>8

\* What the invariant says at idle and at halt.
LEMMA KeptIdle ==
    ASSUME NEW s, NEW ms, NEW cs, NEW r, NEW x, x.start \in Solid, ~cs[1].static, NEW p,
           p \in {"idle", "halt"},
           p = "idle" => Settled(s, x),
           p = "halt" => Resting(s) /\ \E v \in Amounts : Supply(s.led) <= Supply(x.start) + v
    PROVE  Kept(s, ms, cs, p, r, x)
BY DEF Kept, Executing, Closing, Constructor

\* invalid_txn keeps the invariant.
LEMMA InvalidTxnKept ==
    ASSUME KernelInv, TxnInv, NEW o \in Senders, NEW v \in Amounts, NEW warm \in AccessLists,
           invalid_txn(o, v, warm)
    PROVE  TxnInv'
<1> DEFINE kind == "invalid"
           t == AccessList(warm)
           s == Reinitialized(t)
           x == NewTxn(kind, o, o, v)
           p == "idle"
<1>1. /\ pc = "idle" /\ k' = s /\ pc' = p /\ marks' = marks /\ ctxs' = ctxs /\ rv' = rv
      /\ txn' = x
  BY DEF invalid_txn
<1>2. /\ Sound(k) /\ k.led \in Solid /\ ~ctxs[1].static
      /\ \A a \in Addr : ~is_empty(k.led, a)
  BY <1>1, AtIdle
<1>3. x.start = k.led /\ x.kind \notin {"msg", "create"} /\ p = "idle"
  BY DEF NewTxn
<1> HIDE DEF x, p
<1>4. Sound(t) /\ t.led.acct = k.led.acct
  BY <1>2, AccessListIs
<1> HIDE DEF t
<1>5. Resting(s) /\ s.led.acct = k.led.acct
  BY <1>4, ReinitializedIs
<1> HIDE DEF s
<1>6. Supply(s.led) = Supply(k.led) /\ Supply(k.led) \in Nat
  BY <1>2, <1>5, SupplySame, SupplyTyped
<1>7. \A a \in Addr : ~is_empty(s.led, a)
  BY <1>2, <1>5 DEF is_empty
<1>8. Supply(s.led) <= Supply(x.start)
  BY <1>3, <1>6
<1>9. Settled(s, x)
  BY <1>3, <1>5, <1>7, <1>8 DEF Settled
<1>10. Kept(s, marks, ctxs, p, rv, x)
  BY <1>2, <1>3, <1>9, KeptIdle
<1> QED
  BY <1>1, <1>10 DEF TxnInv

\* The end of a transaction keeps the invariant.
LEMMA FinishKept ==
    ASSUME KernelInv, TxnInv, NEW leftover \in Leftovers, Finish(leftover)
    PROVE  TxnInv'
<1> DEFINE s == Paid(k, leftover)
           t == [s EXCEPT !.led = Swept(s)]
           u == Reinitialized(t)
           p == "idle"
           o == txn.sender
<1>1. /\ pc = "finish" /\ pc \in Bottom /\ k' = u /\ pc' = p
      /\ marks' = marks /\ ctxs' = ctxs /\ rv' = rv /\ txn' = txn
  BY DEF Finish, Bottom
<1>2. Sound(k) /\ txn \in Txns
  BY <1>1, AtBottom
<1>3. /\ Abides(k, Deal(txn)) /\ k.destroyed[o] = 0 /\ txn.start \in Solid /\ ~ctxs[1].static
  BY <1>1 DEF TxnInv, Kept, Closing
<1>4. /\ Deal(txn).start = txn.start /\ Deal(txn).sender = o /\ o \in Addr
      /\ Deal(txn).cap = Supply(txn.start) - Upfront /\ Upfront \in Nat
      /\ Supply(txn.start) \in Nat
  BY <1>2, <1>3, DealIs
<1>5. p = "idle"
  OBVIOUS
<1> HIDE DEF p, o
<1>6. /\ SenderRight(k.led, txn.start, o) /\ EmptiesTouched(k.led, k.ripemd.touched)
      /\ Supply(k.led) <= Supply(txn.start) - Upfront /\ k.led \in Solid
  BY <1>3, <1>4 DEF Abides, Lawful
<1>7. /\ Sound(s) /\ s.destroyed = k.destroyed
      /\ Supply(s.led) <= Supply(k.led) + Upfront
      /\ \A b \in Addr : /\ s.led.acct[b].nonce = k.led.acct[b].nonce
                         /\ k.led.acct[b].exists => s.led.acct[b].exists
                         /\ IsTouched(k, b) => IsTouched(s, b)
                         /\ s.led.acct[b] = k.led.acct[b] \/ IsTouched(s, b)
  BY <1>2, PaidIs
<1> HIDE DEF s
<1>8. s.led \in Solid /\ Supply(s.led) \in Nat /\ Supply(k.led) \in Nat
  BY <1>6, <1>7, SupplyTyped DEF Sound
<1>9. \A b \in Addr : is_empty(s.led, b) => IsTouched(s, b)
  <2> SUFFICES ASSUME NEW b \in Addr, is_empty(s.led, b), s.led.acct[b] = k.led.acct[b]
               PROVE  IsTouched(s, b)
    BY <1>7
  <2>1. is_empty(k.led, b)
    BY DEF is_empty
  <2>2. IsTouched(k, b)
    BY <1>6, <2>1 DEF EmptiesTouched, IsTouched
  <2> QED
    BY <1>7, <2>2
<1>10. s.led.acct[o].nonce = txn.start.acct[o].nonce + 1 /\ s.led.acct[o].nonce # 0
  <2>1. txn.start.acct[o].nonce \in Nat
    BY <1>3, <1>4 DEF Solid, Ledgers, Account
  <2> QED
    BY <1>4, <1>6, <1>7, <2>1 DEF SenderRight
<1>11. ~is_empty(s.led, o) /\ s.destroyed[o] = 0
  BY <1>3, <1>7, <1>10 DEF is_empty
<1>12. /\ \A a \in Addr :
             \/ Swept(s).acct[a] = NoAccount
             \/ Swept(s).acct[a] = s.led.acct[a] /\ ~(IsTouched(s, a) /\ is_empty(s.led, a))
       /\ Swept(s).acct[o] = s.led.acct[o]
       /\ Supply(Swept(s)) <= Supply(s.led)
  BY <1>4, <1>7, <1>11, SweptIs
<1>13. Swept(s) \in Solid
  BY <1>7, SweptSolid
<1>14. Sound(t) /\ t.led = Swept(s)
  BY <1>7, <1>13, WithLedger
<1> HIDE DEF t
<1>15. Resting(u) /\ u.led.acct = Swept(s).acct
  BY <1>14, ReinitializedIs
<1> HIDE DEF u
<1>16. \A a \in Addr : ~is_empty(u.led, a)
  <2> TAKE a \in Addr
  <2>1. CASE u.led.acct[a] = NoAccount
    BY <2>1 DEF NoAccount, is_empty
  <2>2. CASE u.led.acct[a] = s.led.acct[a] /\ ~(IsTouched(s, a) /\ is_empty(s.led, a))
    BY <1>9, <2>2 DEF is_empty
  <2> QED
    BY <1>12, <1>15, <2>1, <2>2
<1>17. Supply(u.led) = Supply(Swept(s)) /\ Supply(Swept(s)) \in Nat
  BY <1>13, <1>15, SupplySame, SupplyTyped
<1>18. Supply(u.led) <= Supply(txn.start)
  BY <1>4, <1>6, <1>7, <1>8, <1>12, <1>17
<1>19. Settled(u, txn)
  BY <1>10, <1>12, <1>15, <1>16, <1>18 DEF Settled, o
<1>20. Kept(u, marks, ctxs, p, rv, txn)
  BY <1>3, <1>5, <1>19, KeptIdle
<1> QED
  BY <1>1, <1>20 DEF TxnInv

\* Withdrawals keep the invariant.
LEMMA WithdrawalsKept ==
    ASSUME KernelInv, TxnInv, NEW a \in Addr, NEW v \in Amounts, withdrawals(a, v)
    PROVE  TxnInv'
<1> DEFINE s == add_eth(k, a, v)
           p == "halt"
<1>1. /\ pc = "idle" /\ k' = s /\ pc' = p /\ v \in Nat
      /\ marks' = marks /\ ctxs' = ctxs /\ rv' = rv /\ txn' = txn
  BY KernelAssumption DEF withdrawals
<1>2. p = "halt"
  OBVIOUS
<1> HIDE DEF p
<1>3. Sound(k) /\ Settled(k, txn) /\ Resting(k) /\ ~ctxs[1].static /\ k.led \in Solid
  BY <1>1, AtIdle
<1>4. txn.start \in Solid
  BY DEF TxnInv, Kept
<1>5. Unpaid(k, s) /\ Supply(s.led) = Supply(k.led) + v
  BY <1>1, <1>3, AddEthIs
<1> HIDE DEF s
<1>6. Resting(s)
  BY <1>3, <1>5 DEF Resting, Unpaid
<1>7. Supply(k.led) \in Nat /\ Supply(txn.start) \in Nat /\ Supply(k.led) <= Supply(txn.start)
  BY <1>3, <1>4, SupplyTyped DEF Settled
<1>8. Supply(s.led) <= Supply(txn.start) + v
  BY <1>1, <1>5, <1>7
<1>9. Kept(s, marks, ctxs, p, rv, txn)
  BY <1>2, <1>3, <1>4, <1>6, <1>8, KeptIdle
<1> QED
  BY <1>1, <1>9 DEF TxnInv

\* The initial state satisfies the invariant.
LEMMA InitTxnInv ==
    ASSUME Init
    PROVE  TxnInv
<1>1. /\ k.led = InitLedger /\ k.destroyed = [a \in Addr |-> 0] /\ ctxs[1] = KernelCtx
      /\ pc = "idle" /\ txn.start = InitLedger /\ txn.kind \notin {"msg", "create"}
  BY DEF Init
<1>2. InitLedger \in Solid /\ ~KernelCtx.static
  BY KernelAssumption DEF KernelCtx
<1>3. Supply(InitLedger) \in Nat
  BY <1>2, SupplyTyped
<1>4. Resting(k) /\ \A a \in Addr : ~is_empty(k.led, a)
  BY <1>1, InitLedgerAssumption DEF Resting
<1>5. Supply(k.led) <= Supply(txn.start)
  BY <1>1, <1>3
<1>6. Settled(k, txn)
  BY <1>1, <1>4, <1>5 DEF Settled
<1>7. txn.start \in Solid /\ ~ctxs[1].static /\ pc \in {"idle", "halt"} /\ pc # "halt"
  BY <1>1, <1>2
<1>8. Kept(k, marks, ctxs, pc, rv, txn)
  BY <1>6, <1>7, KeptIdle
<1> QED
  BY <1>8 DEF TxnInv

LEMMA StutterKept ==
    ASSUME TxnInv, UNCHANGED vars
    PROVE  TxnInv'
<1>1. k' = k /\ marks' = marks /\ ctxs' = ctxs /\ pc' = pc /\ rv' = rv /\ txn' = txn
  BY DEF vars
<1> QED
  BY <1>1 DEF TxnInv

\* Every step keeps the invariant.
LEMMA NextTxnInv ==
    ASSUME KernelInv, TxnInv, [Next]_vars
    PROVE  TxnInv'
<1>1. KernelInv'
  BY NextKernelInv
<1>2. CASE UserStep
  <2>1. CASE Fault \/ sys_revert
    BY <1>1, <2>1, FaultStepKept
  <2>2. CASE sys_stop
    BY <2>2, StopKept
  <2>3. CASE \E i \in Slot, v \in Vals : sys_sstore(i, v) \/ sys_tstore(i, v)
    BY <1>1, <2>3, SStoreKept, TStoreKept
  <2>4. CASE \E i \in Slot : sys_sload(i)
    BY <1>1, <2>4, SLoadKept
  <2>5. CASE \E n \in {0, 1} : sys_log(n)
    BY <2>5, LogKept
  <2>6. CASE \E a \in Addr : sys_balance(a) \/ sys_selfdestruct(a)
    BY <1>1, <2>6, BalanceKept, SelfdestructKept
  <2>7. CASE \E a \in Addr, v \in Amounts :
                sys_create(a, v) \/ \E kind \in CallKinds : sys_call(kind, a, v)
    BY <1>1, <2>7, CreateKept, CallKept
  <2> QED
    BY <1>2, <2>1, <2>2, <2>3, <2>4, <2>5, <2>6, <2>7 DEF UserStep
<1>3. CASE RevertStep
  BY <1>1, <1>3, UndoEntryKept, BatchDoneKept, RevertDoneKept, TerminateFailedKept
     DEF RevertStep
<1>4. CASE ParentStep
  BY <1>1, <1>4, AfterCallKept, AfterConstructorKept, AfterCreationTxnKept,
     ContractCreationFaultKept, AfterMessageKept DEF ParentStep
<1>5. CASE TxnStep
  <2>1. CASE \E o \in Senders, a \in Addr, v \in Amounts, warm \in AccessLists :
                \/ process_message_txn(o, a, v, warm)
                \/ process_contract_creation_txn(o, a, v, warm)
    BY <1>1, <2>1, MessageTxnKept, CreationTxnKept
  <2>2. CASE \E o \in Senders, v \in Amounts, warm \in AccessLists : invalid_txn(o, v, warm)
    BY <2>2, InvalidTxnKept
  <2>3. CASE \E leftover \in Leftovers : Finish(leftover)
    BY <2>3, FinishKept
  <2>4. CASE \E a \in Addr, v \in Amounts : withdrawals(a, v)
    BY <2>4, WithdrawalsKept
  <2> QED
    BY <1>5, <2>1, <2>2, <2>3, <2>4 DEF TxnStep
<1>6. CASE Done \/ UNCHANGED vars
  BY <1>6, StutterKept DEF Done
<1> QED
  BY <1>2, <1>3, <1>4, <1>5, <1>6 DEF Next

-----------------------------------------------------------------------------
(* What the invariant says.                                                *)

\* The second inductive invariant holds in every state the kernel reaches, for any sets
\* of addresses, slots and amounts and any bounds: together with KernelInv it is what
\* makes the end of a transaction right.
THEOREM KernelIsLawful == Spec => [](KernelInv /\ TxnInv)
<1>1. Init => KernelInv /\ TxnInv
  BY InitKernelInv, InitTxnInv
<1>2. KernelInv /\ TxnInv /\ [Next]_vars => (KernelInv /\ TxnInv)'
  BY NextKernelInv, NextTxnInv
<1> QED
  BY <1>1, <1>2, PTL DEF Spec

\* In a transaction the ledger is lawful, even half way through a revert.
LEMMA LedgerLawful ==
    ASSUME KernelInv, TxnInv, pc \notin {"idle", "halt"}
    PROVE  k.led \in Lawful(Deal(txn), k.ripemd.touched)
<1>1. pc \in Labels /\ pc # "panic"
  BY DEF KernelInv, Good, AtLabel
<1>2. CASE Executing(pc)
  <2>1. Orderly(k, marks, ctxs, txn)
    BY <1>2 DEF TxnInv, Kept
  <2> QED
    BY <2>1, OrderlyIs DEF Abides
<1>3. CASE pc = "undo"
  BY <1>3 DEF TxnInv, Kept, Busy, Held
<1>4. CASE pc \in Closing
  BY <1>4 DEF TxnInv, Kept, Abides
<1>5. Executing(pc) \/ pc = "undo" \/ pc \in Closing
  BY <1>1 DEF Labels, Executing, Closing
<1> QED
  BY <1>2, <1>3, <1>4, <1>5

LEMMA Whole ==
    ASSUME KernelInv, TxnInv
    PROVE  /\ txn \in Txns /\ txn.start \in Solid /\ k.led \in Solid
           /\ Deal(txn).start = txn.start /\ Deal(txn).cap = Supply(txn.start) - Upfront
           /\ Upfront \in Nat /\ Supply(txn.start) \in Nat /\ Supply(k.led) \in Nat
<1>1. txn \in Txns /\ Sound(k)
  BY DEF KernelInv, Good, AtLabel, Basic
<1>2. txn.start \in Solid /\ k.led \in Solid
  BY <1>1 DEF TxnInv, Kept, Sound
<1> QED
  BY <1>1, <1>2, DealIs, SupplyTyped

\* The refund counter, which the kernel reads as an unsigned word, is never negative, and
\* refunds are computed from the values slots had when the transaction began, whatever was
\* written, reverted and loaded again in between.
THEOREM RefundsAreRight == Spec => []RefundsRight
<1>1. ASSUME KernelInv, TxnInv
      PROVE  RefundsRight
  <2>1. CASE pc \in {"idle", "halt"}
    <3>1. Resting(k)
      BY <1>1, <2>1 DEF TxnInv, Kept, Settled
    <3> QED
      BY <3>1 DEF RefundsRight, RefundNonNegative, OriginalIsTxnStart, Resting
  <2>2. CASE pc \notin {"idle", "halt"}
    <3>1. k.led.refund >= 0 /\ OrigRight(k.led, txn.start)
      BY <1>1, <2>2, LedgerLawful, Whole DEF Lawful
    <3> QED
      BY <3>1 DEF RefundsRight, RefundNonNegative, OriginalIsTxnStart, OrigRight
  <2> QED
    BY <2>1, <2>2
<1> QED
  BY <1>1, KernelIsLawful, PTL

\* Ether is only ever burnt: calls, transfers, self-destructs and reverts never add to the
\* balances, and what the coinbase is paid and the sender gets back is at most the gas
\* bought.  Only a withdrawal adds to the supply.
THEOREM EtherIsOnlyBurnt == Spec => []SupplyNeverGrows
<1>1. ASSUME KernelInv, TxnInv
      PROVE  SupplyNeverGrows
  <2>1. CASE pc = "idle"
    <3>1. Supply(k.led) <= Supply(txn.start)
      BY <1>1, <2>1 DEF TxnInv, Kept, Settled
    <3> QED
      BY <2>1, <3>1 DEF SupplyNeverGrows
  <2>2. CASE pc = "halt"
    <3>1. \E v \in Amounts : Supply(k.led) <= Supply(txn.start) + v
      BY <1>1, <2>2 DEF TxnInv, Kept
    <3> QED
      BY <2>2, <3>1 DEF SupplyNeverGrows
  <2>3. CASE pc \notin {"idle", "halt"}
    <3>1. Supply(k.led) <= Supply(txn.start) - Upfront
      BY <1>1, <2>3, LedgerLawful, Whole DEF Lawful
    <3>2. Supply(k.led) + Upfront <= Supply(txn.start)
      BY <1>1, <3>1, Whole
    <3> QED
      BY <2>3, <3>2 DEF SupplyNeverGrows
  <2> QED
    BY <2>1, <2>2, <2>3
<1> QED
  BY <1>1, KernelIsLawful, PTL

\* A transaction that was not rejected has spent its sender's nonce when it ends, however
\* much of it was reverted, and leaves no empty account behind (EIP-161), RIP160 included.
THEOREM TxnEndsRight == Spec => []TxnEndRight
<1>1. KernelInv /\ TxnInv => TxnEndRight
  BY DEF TxnInv, Kept, Settled, TxnEndRight, NonceSpent, NoEmptyAccounts
<1> QED
  BY <1>1, KernelIsLawful, PTL

\* A creation transaction that failed, by collision, by a fault of the constructor or by
\* code that was refused, has changed nothing but its sender's nonce and balance.
THEOREM FailedCreationsAreUndone == Spec => []FailedCreationUndone
<1>1. KernelInv /\ TxnInv => FailedCreationUndone
  BY DEF TxnInv, Kept, Undone, FailedCreationUndone
<1> QED
  BY <1>1, KernelIsLawful, PTL

\* Nothing that runs below a static context changes an account, a slot, a log or transient
\* storage, not even for a while: a revert half way through changes none either.
THEOREM StaticContextsChangeNothing == Spec => []StaticChangesNothing
<1>1. ASSUME KernelInv, TxnInv
      PROVE  StaticChangesNothing
  <2> SUFFICES ASSUME NEW i \in 1 .. Len(ctxs), ctxs[i].static, ctxs[i].cps # << >>
               PROVE  Observable(k.led) = Observable(marks[ctxs[i].cps[1] + 1].led)
    BY DEF StaticChangesNothing
  <2>1. /\ ctxs \in Seq(Context) /\ Len(ctxs) \in Nat /\ pc \in Labels /\ pc # "panic"
        /\ pc \in Bottom => Len(ctxs) = 1
    BY <1>1, AtBottom DEF KernelInv, Good, AtLabel, Basic
  <2>2. ctxs[i].cps \in Seq(Nat)
    BY <2>1, CtxTyped
  <2>3. Len(ctxs[i].cps) >= 1
    BY <2>2
  <2>4. i # 1
    BY <1>1 DEF TxnInv, Kept
  <2>5. i \in 2 .. Len(ctxs) /\ pc \notin Bottom
    BY <2>1, <2>4
  <2>6. \E c, n : Owns(k, marks, ctxs, c, n)
    <3>1. CASE pc = "undo"
      BY <1>1, <3>1 DEF TxnInv, Kept, Busy
    <3>2. CASE pc # "undo"
      <4>1. Executing(pc)
        BY <2>1, <2>5, <3>2 DEF Labels, Bottom, Executing
      <4>2. Orderly(k, marks, ctxs, txn)
        BY <1>1, <4>1 DEF TxnInv, Kept
      <4> QED
        BY <4>2 DEF Orderly, Busy
    <3> QED
      BY <3>1, <3>2
  <2>7. k.led \in Own(marks, ctxs[i])
    BY <2>3, <2>5, <2>6 DEF Owns, Held
  <2> QED
    BY <2>7 DEF Own, Allowed
<1> QED
  BY <1>1, KernelIsLawful, PTL
=============================================================================
