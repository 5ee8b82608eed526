--------------------------- MODULE KernelTxnProofs ---------------------------
(***************************************************************************)
(* A revert restores its checkpoint, whatever the transaction did, for any *)
(* number of addresses, slots, calls and transactions.                     *)
(***************************************************************************)
EXTENDS KernelTxn, LedgerProofs, SequenceTheorems

\* The checkpoints of the contexts increase, and each has its mark.
Nested(ms, cs) ==
    \A i, j \in 1 .. Len(cs) :
        \A m \in 1 .. Len(cs[i].cps), n \in 1 .. Len(cs[j].cps) :
            /\ cs[i].cps[m] < Len(ms)
            /\ i < j \/ (i = j /\ m < n) => cs[i].cps[m] < cs[j].cps[n]

\* The last checkpoint of a context belongs to the current transaction.
Anchored(q, b) == Len(q) >= 1 /\ b <= q[Len(q)]

\* The kernel's context at the bottom, the transaction's above it, then calls and
\* creations.  A context that waits for another has its own checkpoint, and the call's.
Stack(cs, b) ==
    /\ Len(cs) >= 1
    /\ cs[1].code = "kernel"
    /\ \A i \in 2 .. Len(cs) :
          /\ cs[i].code # "kernel"
          /\ i = 2 => cs[i].ret \in {"txn_create", "txn_msg"}
          /\ i > 2 => cs[i].ret \in {"call", "create"}
          /\ cs[i].ret \in {"create", "txn_create"} => cs[i].code = "user"
          /\ \A m \in 1 .. Len(cs[i].cps) : b <= cs[i].cps[m]
          /\ i < Len(cs) => cs[i].code = "user" /\ Len(cs[i].cps) >= 2
    /\ Len(cs) >= 2 /\ cs[2].ret = "txn_create" => Anchored(cs[1].cps, b)

\* Inside a transaction the marks rise.
Rising(ms, b) ==
    \A m, n \in b + 1 .. Len(ms) : m <= n => ms[m].size <= ms[n].size

\* The account of a context that runs user code exists, and did at every mark since
\* the context was entered.
ExistsAtMarks(ms, cs) ==
    \A i \in 2 .. Len(cs) : cs[i].code = "user" /\ Len(cs[i].cps) >= 1 =>
        \A m \in cs[i].cps[1] + 1 .. Len(ms) : ms[m].led.acct[cs[i].addr].exists

ExistsNow(L, cs) ==
    \A i \in 2 .. Len(cs) : cs[i].code = "user" /\ Len(cs[i].cps) >= 1 =>
        L.acct[cs[i].addr].exists

\* The first n entries of the journal explain the ledger: undoing them one by one leads
\* through the ledgers of the marks b + 1 .. c.
Explains(s, ms, b, c, n) ==
    \E h \in [Nat -> Solid] :
        /\ h[n] = s.led
        /\ \A m \in b + 1 .. c : ms[m].size <= n /\ h[ms[m].size] = ms[m].led
        /\ Unwinds(h, s.journal, ms[b + 1].size, n)

History(s, ms, b, c, n) == b < c => Explains(s, ms, b, c, n)

\* What holds while a transaction runs and nothing is being reverted.
Live(s, ms, cs, b) ==
    /\ Sound(s)
    /\ ms \in Seq(Marks) /\ cs \in Seq(Context) /\ b \in Nat /\ b <= Len(ms)
    /\ Stack(cs, b)
    /\ Nested(ms, cs)
    /\ Rising(ms, b)
    /\ ExistsAtMarks(ms, cs)
    /\ ExistsNow(s.led, cs)
    /\ History(s, ms, b, Len(ms), Len(s.journal))

-----------------------------------------------------------------------------
(* Elements of the sequences.                                              *)

\* A checkpoint's mark is typed.
LEMMA MarkTyped ==
    ASSUME NEW ms \in Seq(Marks), NEW m \in 1 .. Len(ms)
    PROVE  ms[m] \in Marks /\ ms[m].size \in Nat /\ ms[m].led \in Ledgers
<1>1. ms[m] \in Marks
  BY ElementOfSeq
<1> QED
  BY <1>1 DEF Marks

\* A context is typed.
LEMMA CtxTyped ==
    ASSUME NEW cs \in Seq(Context), NEW i \in 1 .. Len(cs)
    PROVE  /\ cs[i] \in Context /\ cs[i].addr \in Addr /\ cs[i].static \in BOOLEAN
           /\ cs[i].cps \in Seq(Nat) /\ Len(cs[i].cps) \in Nat
           /\ \A m \in 1 .. Len(cs[i].cps) : cs[i].cps[m] \in Nat
<1>1. cs[i] \in Context
  BY ElementOfSeq
<1>2. cs[i].addr \in Addr /\ cs[i].static \in BOOLEAN /\ cs[i].cps \in Seq(Nat)
  BY <1>1 DEF Context
<1> QED
  BY <1>1, <1>2, ElementOfSeq

-----------------------------------------------------------------------------
(* A routine that follows keeps a live state live.                         *)

\* The history of a state extends over what a routine journals.
LEMMA HistoryFollows ==
    ASSUME NEW s, NEW t, Sound(s), Follows(s, t), NEW ms \in Seq(Marks),
           NEW b \in Nat, b <= Len(ms),
           History(s, ms, b, Len(ms), Len(s.journal))
    PROVE  History(t, ms, b, Len(ms), Len(t.journal))
<1> SUFFICES ASSUME b < Len(ms)
             PROVE  Explains(t, ms, b, Len(ms), Len(t.journal))
  BY DEF History
<1>0. Explains(s, ms, b, Len(ms), Len(s.journal))
  BY DEF History
<1>1. /\ Len(s.journal) \in Nat /\ Len(t.journal) \in Nat
      /\ Len(s.journal) <= Len(t.journal)
      /\ \A i \in 1 .. Len(s.journal) : t.journal[i] = s.journal[i]
  <2>1. Len(s.journal) \in Nat
    BY DEF Sound, Kernels
  <2>2. Sound(t) /\ Journaled(s, t)
    BY DEF Follows
  <2>3. Len(t.journal) \in Nat
    BY <2>2 DEF Sound, Kernels
  <2>4. /\ Len(s.journal) <= Len(t.journal)
        /\ \A i \in 1 .. Len(s.journal) : t.journal[i] = s.journal[i]
    BY <2>2 DEF Journaled
  <2> QED
    BY <2>1, <2>3, <2>4
<1>2. PICK g \in [Nat -> Solid] :
          /\ g[Len(s.journal)] = s.led
          /\ \A m \in b + 1 .. Len(ms) :
                ms[m].size <= Len(s.journal) /\ g[ms[m].size] = ms[m].led
          /\ Unwinds(g, s.journal, ms[b + 1].size, Len(s.journal))
  BY <1>0 DEF Explains
<1>3. PICK h \in [Nat -> Solid] :
          /\ h[Len(s.journal)] = s.led
          /\ h[Len(t.journal)] = t.led
          /\ Unwinds(h, t.journal, Len(s.journal), Len(t.journal))
  BY DEF Follows, Journaled
<1>4. \A m \in b + 1 .. Len(ms) : ms[m].size \in Nat
  BY MarkTyped
<1>41. b + 1 \in b + 1 .. Len(ms)
  OBVIOUS
<1> DEFINE f == [n \in Nat |-> IF n <= Len(s.journal) THEN g[n] ELSE h[n]]
<1>5. f \in [Nat -> Solid]
  BY <1>2, <1>3
<1>6. f[Len(t.journal)] = t.led
  BY <1>1, <1>2, <1>3
<1>7. \A m \in b + 1 .. Len(ms) : ms[m].size <= Len(t.journal) /\ f[ms[m].size] = ms[m].led
  BY <1>1, <1>2, <1>4
<1>8. Unwinds(f, t.journal, ms[b + 1].size, Len(t.journal))
  <2> DEFINE lo == ms[b + 1].size
  <2>1. lo \in Nat /\ lo <= Len(s.journal)
    BY <1>2, <1>4, <1>41
  <2> SUFFICES ASSUME NEW i \in lo + 1 .. Len(t.journal)
               PROVE  /\ CanUndo(t.journal[i], f[i])
                      /\ Undo(t.journal[i], f[i]) = f[i - 1]
    BY DEF Unwinds
  <2> HIDE DEF lo
  <2>2. CASE i <= Len(s.journal)
    <3>0. i \in Nat /\ i - 1 \in Nat /\ i \in 1 .. Len(s.journal)
      BY <1>1, <2>1, <2>2
    <3>01. t.journal[i] = s.journal[i]
      BY <1>1, <3>0
    <3>02. f[i] = g[i] /\ f[i - 1] = g[i - 1]
      BY <1>1, <2>2, <3>0
    <3>1. t.journal[i] = s.journal[i] /\ f[i] = g[i] /\ f[i - 1] = g[i - 1]
      BY <3>01, <3>02
    <3>2. i \in lo + 1 .. Len(s.journal)
      BY <1>1, <2>1, <2>2
    <3>3. Unwinds(g, s.journal, lo, Len(s.journal))
      BY <1>2 DEF lo
    <3> QED
      BY <3>1, <3>2, <3>3 DEF Unwinds
  <2>3. CASE i > Len(s.journal)
    <3>1. f[i] = h[i] /\ f[i - 1] = h[i - 1]
      BY <1>1, <1>2, <1>3, <2>1, <2>3
    <3>2. i \in Len(s.journal) + 1 .. Len(t.journal)
      BY <1>1, <2>1, <2>3
    <3> QED
      BY <1>3, <3>1, <3>2 DEF Unwinds
  <2> QED
    BY <1>1, <2>1, <2>2, <2>3
<1> HIDE DEF f
<1> QED
  BY <1>5, <1>6, <1>7, <1>8 DEF Explains

\* A routine that follows keeps a live state live.
LEMMA LiveFollows ==
    ASSUME NEW s, NEW t, NEW ms, NEW cs, NEW b, Live(s, ms, cs, b), Follows(s, t)
    PROVE  Live(t, ms, cs, b)
<1>1. History(t, ms, b, Len(ms), Len(t.journal))
  BY HistoryFollows DEF Live
<1>2. ExistsNow(t.led, cs)
  <2>1. \A i \in 2 .. Len(cs) : cs[i].addr \in Addr
    BY CtxTyped DEF Live
  <2> QED
    BY <2>1 DEF Live, ExistsNow, Follows
<1>3. Sound(t)
  BY DEF Follows
<1> QED
  BY <1>1, <1>2, <1>3 DEF Live

-----------------------------------------------------------------------------
(* A new mark.                                                             *)

\* The marks after %checkpoint.
LEMMA MarkIs ==
    ASSUME NEW s, Sound(s), NEW ms \in Seq(Marks)
    PROVE  LET ns == Append(ms, Mark(s)) IN
           /\ ns \in Seq(Marks)
           /\ Len(ns) = Len(ms) + 1
           /\ \A m \in 1 .. Len(ms) : ns[m] = ms[m]
           /\ ns[Len(ms) + 1].size = Len(s.journal) /\ ns[Len(ms) + 1].led = s.led
<1>1. Mark(s) \in Marks /\ Mark(s).size = Len(s.journal) /\ Mark(s).led = s.led
  BY DEF Mark, Marks, Sound, Kernels, Solid
<1> HIDE DEF Mark
<1> QED
  BY <1>1

\* In a live state no mark lies beyond the journal.
LEMMA SizesBelow ==
    ASSUME NEW s, NEW ms, NEW cs, NEW b, Live(s, ms, cs, b), NEW m \in b + 1 .. Len(ms)
    PROVE  ms[m].size <= Len(s.journal)
<1>1. b \in Nat /\ b < Len(ms) /\ ms \in Seq(Marks)
  BY DEF Live
<1>2. Explains(s, ms, b, Len(ms), Len(s.journal))
  BY <1>1 DEF Live, History
<1> QED
  BY <1>2 DEF Explains

\* %checkpoint keeps the marks rising.
LEMMA RisingMark ==
    ASSUME NEW s, NEW ms, NEW cs, NEW b, Live(s, ms, cs, b)
    PROVE  Rising(Append(ms, Mark(s)), b)
<1> DEFINE ns == Append(ms, Mark(s))
<1>1. Sound(s) /\ ms \in Seq(Marks) /\ b \in Nat /\ Len(ms) \in Nat /\ Len(s.journal) \in Nat
  BY DEF Live, Sound, Kernels
<1>2. /\ Len(ns) = Len(ms) + 1
      /\ \A m \in 1 .. Len(ms) : ns[m] = ms[m]
      /\ ns[Len(ms) + 1].size = Len(s.journal)
  BY <1>1, MarkIs
<1> HIDE DEF ns
<1> SUFFICES ASSUME NEW m \in b + 1 .. Len(ms) + 1, NEW n \in b + 1 .. Len(ms) + 1, m <= n
             PROVE  ns[m].size <= ns[n].size
  BY <1>2 DEF Rising, ns
<1>3. CASE n <= Len(ms)
  BY <1>1, <1>2, <1>3 DEF Live, Rising
<1>4. CASE n = Len(ms) + 1 /\ m <= Len(ms)
  <2>1. m \in b + 1 .. Len(ms) /\ m \in 1 .. Len(ms)
    BY <1>1, <1>4
  <2>2. ms[m].size <= Len(s.journal)
    BY <2>1, SizesBelow
  <2> QED
    BY <1>2, <1>4, <2>1, <2>2
<1>5. CASE n = Len(ms) + 1 /\ m = Len(ms) + 1
  BY <1>1, <1>2, <1>5
<1> QED
  BY <1>1, <1>3, <1>4, <1>5

\* At a new checkpoint the accounts of the contexts exist.
LEMMA ExistsAtMark ==
    ASSUME NEW s, NEW ms, NEW cs, NEW b, Live(s, ms, cs, b)
    PROVE  ExistsAtMarks(Append(ms, Mark(s)), cs)
<1> DEFINE ns == Append(ms, Mark(s))
<1>1. Sound(s) /\ ms \in Seq(Marks) /\ Len(ms) \in Nat /\ cs \in Seq(Context)
  BY DEF Live
<1>2. /\ Len(ns) = Len(ms) + 1
      /\ \A m \in 1 .. Len(ms) : ns[m] = ms[m]
      /\ ns[Len(ms) + 1].led = s.led
  BY <1>1, MarkIs
<1> HIDE DEF ns
<1> SUFFICES ASSUME NEW i \in 2 .. Len(cs), cs[i].code = "user", Len(cs[i].cps) >= 1,
                    NEW m \in cs[i].cps[1] + 1 .. Len(ms) + 1
             PROVE  ns[m].led.acct[cs[i].addr].exists
  BY <1>2 DEF ExistsAtMarks, ns
<1>3. cs[i].cps[1] \in Nat
  BY <1>1, CtxTyped
<1>4. CASE m <= Len(ms)
  <2>1. m \in cs[i].cps[1] + 1 .. Len(ms) /\ m \in 1 .. Len(ms)
    BY <1>1, <1>3, <1>4
  <2>2. ms[m].led.acct[cs[i].addr].exists
    BY <2>1 DEF Live, ExistsAtMarks
  <2> QED
    BY <1>2, <2>1, <2>2
<1>5. CASE m = Len(ms) + 1
  BY <1>2, <1>5 DEF Live, ExistsNow
<1> QED
  BY <1>1, <1>3, <1>4, <1>5

\* The history also passes through a new checkpoint.
LEMMA HistoryMark ==
    ASSUME NEW s, NEW ms, NEW cs, NEW b, Live(s, ms, cs, b)
    PROVE  History(s, Append(ms, Mark(s)), b, Len(ms) + 1, Len(s.journal))
<1> DEFINE ns == Append(ms, Mark(s))
           n == Len(s.journal)
<1>1. Sound(s) /\ ms \in Seq(Marks) /\ Len(ms) \in Nat /\ b \in Nat /\ b <= Len(ms) /\ n \in Nat
  BY DEF Live, Sound, Kernels
<1>2. /\ Len(ns) = Len(ms) + 1
      /\ \A m \in 1 .. Len(ms) : ns[m] = ms[m]
      /\ ns[Len(ms) + 1].size = n /\ ns[Len(ms) + 1].led = s.led
  BY <1>1, MarkIs
<1> HIDE DEF ns
<1> SUFFICES Explains(s, ns, b, Len(ms) + 1, n)
  BY DEF History, ns
<1>3. CASE b < Len(ms)
  <2>1. Explains(s, ms, b, Len(ms), n)
    BY <1>3 DEF Live, History
  <2>2. PICK h \in [Nat -> Solid] :
          /\ h[n] = s.led
          /\ \A m \in b + 1 .. Len(ms) : ms[m].size <= n /\ h[ms[m].size] = ms[m].led
          /\ Unwinds(h, s.journal, ms[b + 1].size, n)
    BY <2>1 DEF Explains
  <2>3. ns[b + 1] = ms[b + 1]
    BY <1>1, <1>2, <1>3
  <2>4. \A m \in b + 1 .. Len(ms) + 1 : ns[m].size <= n /\ h[ns[m].size] = ns[m].led
    <3> TAKE m \in b + 1 .. Len(ms) + 1
    <3>1. CASE m <= Len(ms)
      BY <1>1, <1>2, <2>2, <3>1
    <3>2. CASE m = Len(ms) + 1
      BY <1>1, <1>2, <2>2, <3>2
    <3> QED
      BY <1>1, <3>1, <3>2
  <2> QED
    BY <2>2, <2>3, <2>4 DEF Explains
<1>4. CASE b = Len(ms)
  <2> DEFINE h == [i \in Nat |-> s.led]
  <2>1. h \in [Nat -> Solid] /\ h[n] = s.led
    BY <1>1 DEF Sound
  <2>2. \A m \in b + 1 .. Len(ms) + 1 : ns[m].size <= n /\ h[ns[m].size] = ns[m].led
    BY <1>1, <1>2, <1>4
  <2>3. Unwinds(h, s.journal, ns[b + 1].size, n)
    BY <1>1, <1>2, <1>4 DEF Unwinds
  <2> HIDE DEF h
  <2> QED
    BY <2>1, <2>2, <2>3 DEF Explains
<1> QED
  BY <1>1, <1>3, <1>4

\* %checkpoint keeps a live state live.
LEMMA LiveMark ==
    ASSUME NEW s, NEW ms, NEW cs, NEW b, Live(s, ms, cs, b)
    PROVE  Live(s, Append(ms, Mark(s)), cs, b)
<1> DEFINE ns == Append(ms, Mark(s))
<1>1. Sound(s) /\ ms \in Seq(Marks) /\ Len(ms) \in Nat /\ b \in Nat /\ b <= Len(ms)
      /\ cs \in Seq(Context)
  BY DEF Live
<1>2. ns \in Seq(Marks) /\ Len(ns) = Len(ms) + 1
  BY <1>1, MarkIs
<1>3. Rising(ns, b) /\ ExistsAtMarks(ns, cs) /\ History(s, ns, b, Len(ns), Len(s.journal))
  BY <1>2, RisingMark, ExistsAtMark, HistoryMark
<1> HIDE DEF ns
<1>4. Nested(ns, cs)
  <2>1. \A i \in 1 .. Len(cs) : \A m \in 1 .. Len(cs[i].cps) : cs[i].cps[m] \in Nat
    BY <1>1, CtxTyped
  <2> QED
    BY <1>1, <1>2, <2>1, SMTT(30) DEF Live, Nested
<1>5. b <= Len(ns)
  BY <1>1, <1>2
<1> QED
  BY <1>1, <1>2, <1>3, <1>4, <1>5 DEF Live, ns

-----------------------------------------------------------------------------
(* The checkpoints of the running context.                                 *)

SetCps(cs, q) == [cs EXCEPT ![Len(cs)].cps = q]

\* The contexts after the running one's checkpoints change.
LEMMA SetCpsIs ==
    ASSUME NEW cs \in Seq(Context), Len(cs) >= 1, NEW q \in Seq(Nat)
    PROVE  LET ds == SetCps(cs, q) IN
           /\ ds \in Seq(Context) /\ Len(ds) = Len(cs)
           /\ \A i \in 1 .. Len(cs) :
                 /\ ds[i].addr = cs[i].addr /\ ds[i].code = cs[i].code
                 /\ ds[i].static = cs[i].static /\ ds[i].ret = cs[i].ret
                 /\ i # Len(cs) => ds[i] = cs[i]
           /\ ds[Len(cs)].cps = q
<1> DEFINE n == Len(cs)
           c == [cs[n] EXCEPT !.cps = q]
           ds == [cs EXCEPT ![n] = c]
<1>1. n \in 1 .. Len(cs) /\ cs[n] \in Context
  BY CtxTyped
<1>2. /\ c \in Context /\ c.cps = q /\ c.addr = cs[n].addr /\ c.code = cs[n].code
      /\ c.static = cs[n].static /\ c.ret = cs[n].ret
  BY <1>1 DEF Context
<1>3. SetCps(cs, q) = ds
  BY DEF SetCps
<1> HIDE DEF c
<1>4. ds \in Seq(Context) /\ Len(ds) = Len(cs)
  BY <1>1, <1>2
<1>5. \A i \in 1 .. Len(cs) : ds[i] = IF i = n THEN c ELSE cs[i]
  BY <1>1
<1> HIDE DEF ds, n
<1> QED
  BY <1>1, <1>2, <1>3, <1>4, <1>5 DEF n

\* Another list of checkpoints for the running context, that begins as the old one.
LEMMA LiveCps ==
    ASSUME NEW s, NEW ms, NEW cs, NEW b, Live(s, ms, cs, b),
           NEW q \in Seq(Nat),
           \A m \in 1 .. Len(q) : q[m] < Len(ms),
           \A m, n \in 1 .. Len(q) : m < n => q[m] < q[n],
           \A i \in 1 .. Len(cs) - 1 :
              \A m \in 1 .. Len(cs[i].cps), n \in 1 .. Len(q) : cs[i].cps[m] < q[n],
           Len(cs) >= 2 =>
              /\ \A m \in 1 .. Len(q) : b <= q[m]
              /\ Len(q) >= 1 => Len(cs[Len(cs)].cps) >= 1 /\ q[1] = cs[Len(cs)].cps[1]
    PROVE  Live(s, ms, SetCps(cs, q), b)
<1> DEFINE ds == SetCps(cs, q)
           N == Len(cs)
<1>1. cs \in Seq(Context) /\ N \in Nat /\ N >= 1 /\ Len(q) \in Nat
  BY DEF Live, Stack
<1>2. /\ ds \in Seq(Context) /\ Len(ds) = N
      /\ \A i \in 1 .. N :
            /\ ds[i].addr = cs[i].addr /\ ds[i].code = cs[i].code /\ ds[i].ret = cs[i].ret
            /\ i # N => ds[i] = cs[i]
      /\ ds[N].cps = q
  BY <1>1, SetCpsIs
<1> HIDE DEF ds
<1>3. Stack(ds, b)
  <2>1. Len(ds) >= 1 /\ ds[1].code = "kernel"
    BY <1>1, <1>2 DEF Live, Stack
  <2>2. ASSUME NEW i \in 2 .. N
        PROVE  /\ ds[i].code # "kernel"
               /\ i = 2 => ds[i].ret \in {"txn_create", "txn_msg"}
               /\ i > 2 => ds[i].ret \in {"call", "create"}
               /\ ds[i].ret \in {"create", "txn_create"} => ds[i].code = "user"
               /\ \A m \in 1 .. Len(ds[i].cps) : b <= ds[i].cps[m]
               /\ i < N => ds[i].code = "user" /\ Len(ds[i].cps) >= 2
    <3>1. i \in 1 .. N /\ ds[i].code = cs[i].code /\ ds[i].ret = cs[i].ret
      BY <1>1, <1>2
    <3>2. /\ cs[i].code # "kernel"
          /\ i = 2 => cs[i].ret \in {"txn_create", "txn_msg"}
          /\ i > 2 => cs[i].ret \in {"call", "create"}
          /\ cs[i].ret \in {"create", "txn_create"} => cs[i].code = "user"
          /\ \A m \in 1 .. Len(cs[i].cps) : b <= cs[i].cps[m]
          /\ i < N => cs[i].code = "user" /\ Len(cs[i].cps) >= 2
      BY DEF Live, Stack
    <3>3. CASE i # N
      <4>1. ds[i] = cs[i]
        BY <1>2, <3>1, <3>3
      <4> QED
        BY <3>2, <4>1
    <3>4. CASE i = N
      <4>1. \A m \in 1 .. Len(ds[i].cps) : b <= ds[i].cps[m]
        BY <1>1, <1>2, <3>4
      <4>2. ~(i < N)
        BY <1>1, <3>4
      <4> QED
        BY <3>1, <3>2, <4>1, <4>2
    <3> QED
      BY <3>3, <3>4
  <2>3. N >= 2 /\ ds[2].ret = "txn_create" => Anchored(ds[1].cps, b)
    BY <1>1, <1>2 DEF Live, Stack
  <2> QED
    BY <1>2, <2>1, <2>2, <2>3 DEF Stack
<1>4. Nested(ms, ds)
  <2> SUFFICES ASSUME NEW i \in 1 .. N, NEW j \in 1 .. N,
                      NEW m \in 1 .. Len(ds[i].cps), NEW n \in 1 .. Len(ds[j].cps)
               PROVE  /\ ds[i].cps[m] < Len(ms)
                      /\ i < j \/ (i = j /\ m < n) => ds[i].cps[m] < ds[j].cps[n]
    BY <1>2 DEF Nested
  <2>1. CASE i # N /\ j # N
    BY <1>2, <2>1 DEF Live, Nested
  <2>2. CASE i # N /\ j = N
    <3>1. i \in 1 .. N - 1
      BY <1>1, <2>2
    <3>2. ds[i].cps[m] < Len(ms)
      BY <1>2, <2>2 DEF Live, Nested
    <3> QED
      BY <1>2, <2>2, <3>1, <3>2
  <2>3. CASE i = N /\ j # N
    <3>1. j < N /\ ~(i < j) /\ i # j
      BY <1>1, <2>3
    <3>2. ds[i].cps[m] < Len(ms)
      BY <1>2, <2>3
    <3> QED
      BY <3>1, <3>2
  <2>4. CASE i = N /\ j = N
    BY <1>1, <1>2, <2>4
  <2> QED
    BY <2>1, <2>2, <2>3, <2>4
<1>5. ExistsAtMarks(ms, ds)
  <2> SUFFICES ASSUME NEW i \in 2 .. N, ds[i].code = "user", Len(ds[i].cps) >= 1,
                      NEW m \in ds[i].cps[1] + 1 .. Len(ms)
               PROVE  ms[m].led.acct[ds[i].addr].exists
    BY <1>2 DEF ExistsAtMarks
  <2>1. cs[i].code = "user" /\ cs[i].addr = ds[i].addr
    BY <1>2
  <2>2. Len(cs[i].cps) >= 1 /\ cs[i].cps[1] = ds[i].cps[1]
    BY <1>1, <1>2, SMTT(30)
  <2> QED
    BY <2>1, <2>2 DEF Live, ExistsAtMarks
<1>6. ExistsNow(s.led, ds)
  <2> SUFFICES ASSUME NEW i \in 2 .. N, ds[i].code = "user", Len(ds[i].cps) >= 1
               PROVE  s.led.acct[ds[i].addr].exists
    BY <1>2 DEF ExistsNow
  <2>1. cs[i].code = "user" /\ cs[i].addr = ds[i].addr
    BY <1>2
  <2>2. Len(cs[i].cps) >= 1
    BY <1>1, <1>2
  <2> QED
    BY <2>1, <2>2 DEF Live, ExistsNow
<1> QED
  BY <1>2, <1>3, <1>4, <1>5, <1>6 DEF Live, ds

\* %checkpoint.
LEMMA WithCheckpointIs ==
    ASSUME NEW cs \in Seq(Context), Len(cs) >= 1, NEW ms \in Seq(Marks)
    PROVE  LET ds == WithCheckpoint(cs, ms) IN
           /\ Len(ds) = Len(cs)
           /\ ds[Len(cs)].code = cs[Len(cs)].code
           /\ Len(ds[Len(cs)].cps) = Len(cs[Len(cs)].cps) + 1
           /\ ds[Len(cs)].cps[Len(cs[Len(cs)].cps) + 1] = Len(ms)
<1> DEFINE N == Len(cs)
           c == cs[N].cps
           q == Append(c, Len(ms))
<1>1. N \in 1 .. N /\ c \in Seq(Nat) /\ Len(c) \in Nat
  BY CtxTyped
<1>2. q \in Seq(Nat) /\ Len(q) = Len(c) + 1 /\ q[Len(c) + 1] = Len(ms)
  BY <1>1
<1>3. WithCheckpoint(cs, ms) = SetCps(cs, q)
  BY DEF WithCheckpoint, SetCps
<1> HIDE DEF q, c
<1>4. /\ Len(SetCps(cs, q)) = N /\ SetCps(cs, q)[N].cps = q
      /\ SetCps(cs, q)[N].code = cs[N].code
  BY <1>1, <1>2, SetCpsIs
<1> QED
  BY <1>2, <1>3, <1>4 DEF c

\* Elements of a sequence that has been appended to.
LEMMA AppendCases ==
    ASSUME NEW S, NEW c \in Seq(S), NEW y \in S, NEW m \in 1 .. Len(Append(c, y))
    PROVE  m \in Nat /\ \/ m \in 1 .. Len(c) /\ Append(c, y)[m] = c[m]
                        \/ m = Len(c) + 1 /\ Append(c, y)[m] = y
<1>1. m \in 1 .. Len(c) + 1 /\ Len(c) \in Nat
  OBVIOUS
<1>2. CASE m = Len(c) + 1
  BY <1>2
<1>3. CASE m \in 1 .. Len(c)
  BY <1>3
<1> QED
  BY <1>1, <1>2, <1>3

\* A checkpoint of the running context keeps a live state live.
LEMMA LiveCheckpoint ==
    ASSUME NEW s, NEW ms, NEW cs, NEW b, Live(s, ms, cs, b),
           Len(cs) = 1 \/ Len(cs[Len(cs)].cps) >= 1
    PROVE  Live(s, Append(ms, Mark(s)), WithCheckpoint(cs, ms), b)
<1> DEFINE N == Len(cs)
           c == cs[N].cps
           q == Append(c, Len(ms))
           ns == Append(ms, Mark(s))
<1>1. /\ cs \in Seq(Context) /\ N \in Nat /\ N >= 1 /\ ms \in Seq(Marks) /\ Len(ms) \in Nat
      /\ b \in Nat /\ b <= Len(ms) /\ Sound(s)
  BY DEF Live, Stack
<1>2. c \in Seq(Nat) /\ Len(c) \in Nat /\ \A m \in 1 .. Len(c) : c[m] \in Nat
  BY <1>1, CtxTyped
<1>3. /\ q \in Seq(Nat) /\ Len(q) = Len(c) + 1
      /\ \A m \in 1 .. Len(c) : q[m] = c[m]
      /\ q[Len(c) + 1] = Len(ms)
  BY <1>1, <1>2
<1>4. Len(ns) = Len(ms) + 1
  BY <1>1, MarkIs
<1>5. \A i \in 1 .. N : \A m \in 1 .. Len(cs[i].cps) : cs[i].cps[m] \in Nat /\ cs[i].cps[m] < Len(ms)
  BY <1>1, CtxTyped DEF Live, Nested
<1>6. WithCheckpoint(cs, ms) = SetCps(cs, q)
  BY DEF WithCheckpoint, SetCps
<1>7. Live(s, ns, cs, b)
  BY LiveMark
<1> HIDE DEF ns, q
<1>71. \A m \in 1 .. Len(q) : m \in Nat /\ \/ m \in 1 .. Len(c) /\ q[m] = c[m]
                                           \/ m = Len(c) + 1 /\ q[m] = Len(ms)
  BY <1>1, <1>2, AppendCases DEF q
<1>72. N \in 1 .. N
  BY <1>1
<1> HIDE DEF c
<1>73. \A m \in 1 .. Len(c) : c[m] \in Nat /\ c[m] < Len(ms)
  BY <1>5, <1>72 DEF c
<1>74. \A m, n \in 1 .. Len(c) : m < n => c[m] < c[n]
  BY <1>72 DEF c, Live, Nested
<1>75. \A i \in 1 .. N - 1 :
          \A m \in 1 .. Len(cs[i].cps), n \in 1 .. Len(c) : cs[i].cps[m] < c[n]
  <2> TAKE i \in 1 .. N - 1
  <2>1. i \in 1 .. N /\ i < N
    BY <1>1
  <2> QED
    BY <1>72, <2>1 DEF c, Live, Nested
<1>8. \A m \in 1 .. Len(q) : q[m] < Len(ns)
  BY <1>1, <1>4, <1>71, <1>73
<1>9. \A m, n \in 1 .. Len(q) : m < n => q[m] < q[n]
  <2> SUFFICES ASSUME NEW m \in 1 .. Len(q), NEW n \in 1 .. Len(q), m < n
               PROVE  q[m] < q[n]
    OBVIOUS
  <2>1. m \in 1 .. Len(c) /\ q[m] = c[m]
    BY <1>2, <1>3, <1>71
  <2> QED
    BY <1>71, <1>73, <1>74, <2>1
<1>10. \A i \in 1 .. N - 1 :
          \A m \in 1 .. Len(cs[i].cps), n \in 1 .. Len(q) : cs[i].cps[m] < q[n]
  <2> TAKE i \in 1 .. N - 1
  <2>1. i \in 1 .. N
    BY <1>1
  <2> QED
    BY <1>5, <1>71, <1>75, <2>1
<1>11. N >= 2 => /\ \A m \in 1 .. Len(q) : b <= q[m]
                 /\ Len(q) >= 1 => Len(c) >= 1 /\ q[1] = c[1]
  <2> SUFFICES ASSUME N >= 2
               PROVE  /\ \A m \in 1 .. Len(q) : b <= q[m]
                      /\ Len(c) >= 1 /\ q[1] = c[1]
    OBVIOUS
  <2>1. Len(c) >= 1 /\ q[1] = c[1]
    BY <1>1, <1>2, <1>3 DEF c
  <2>2. \A m \in 1 .. Len(c) : b <= c[m]
    BY <1>1 DEF c, Live, Stack
  <2>3. \A m \in 1 .. Len(q) : b <= q[m]
    BY <1>1, <1>71, <2>2
  <2> QED
    BY <2>1, <2>3
<1>12. Live(s, ns, SetCps(cs, q), b)
  BY <1>3, <1>7, <1>8, <1>9, <1>10, <1>11, LiveCps DEF c
<1> QED
  BY <1>6, <1>12 DEF ns

\* %pop_checkpoint.
LEMMA LivePopCp ==
    ASSUME NEW s, NEW ms, NEW cs, NEW b, Live(s, ms, cs, b), Len(cs[Len(cs)].cps) >= 1
    PROVE  LET ds == PopCheckpoint(cs)
               c  == cs[Len(cs)].cps
           IN  /\ Live(s, ms, ds, b)
               /\ Len(ds) = Len(cs)
               /\ ds[Len(cs)].code = cs[Len(cs)].code
               /\ Len(ds[Len(cs)].cps) = Len(c) - 1
               /\ \A i \in 1 .. Len(ds) : \A m \in 1 .. Len(ds[i].cps) : ds[i].cps[m] < c[Len(c)]
<1> DEFINE N == Len(cs)
           c == cs[N].cps
           q == SubSeq(c, 1, Len(c) - 1)
<1>1. cs \in Seq(Context) /\ N \in Nat /\ N >= 1 /\ N \in 1 .. N
  BY DEF Live, Stack
<1>2. c \in Seq(Nat) /\ Len(c) \in Nat /\ Len(c) >= 1 /\ \A m \in 1 .. Len(c) : c[m] \in Nat
  BY <1>1, CtxTyped
<1>3. /\ q \in Seq(Nat) /\ Len(q) = Len(c) - 1
      /\ \A m \in 1 .. Len(c) - 1 : q[m] = c[m]
  BY <1>2, SMTT(30)
<1>4. PopCheckpoint(cs) = SetCps(cs, q)
  BY DEF PopCheckpoint, SetCps
<1>5. \A m \in 1 .. Len(q) : m \in 1 .. Len(c) /\ q[m] = c[m] /\ m < Len(c)
  BY <1>2, <1>3, SMTT(30)
<1>51. Len(c) \in 1 .. Len(c)
  BY <1>2
<1> HIDE DEF q
<1>6. \A m \in 1 .. Len(q) : q[m] < Len(ms) /\ q[m] < c[Len(c)]
  BY <1>1, <1>5, <1>51 DEF Live, Nested
<1>7. \A m, n \in 1 .. Len(q) : m < n => q[m] < q[n]
  BY <1>1, <1>5 DEF Live, Nested
<1>8. ASSUME NEW i \in 1 .. N - 1, NEW m \in 1 .. Len(cs[i].cps)
      PROVE  /\ cs[i].cps[m] < c[Len(c)]
             /\ \A n \in 1 .. Len(q) : cs[i].cps[m] < q[n]
  <2>1. i \in 1 .. N /\ i < N
    BY <1>1
  <2> QED
    BY <1>1, <1>5, <1>51, <2>1 DEF Live, Nested
<1>9. ASSUME N >= 2
      PROVE  /\ \A m \in 1 .. Len(q) : b <= q[m]
             /\ Len(q) >= 1 => Len(c) >= 1 /\ q[1] = c[1]
  <2>1. \A m \in 1 .. Len(c) : b <= c[m]
    BY <1>1, <1>9 DEF Live, Stack
  <2>2. Len(q) >= 1 => 1 \in 1 .. Len(q)
    BY <1>2, <1>3
  <2> QED
    BY <1>2, <1>5, <2>1, <2>2
<1>10. Live(s, ms, SetCps(cs, q), b)
  BY <1>3, <1>6, <1>7, <1>8, <1>9, LiveCps
<1>11. /\ Len(SetCps(cs, q)) = N /\ SetCps(cs, q)[N].cps = q
       /\ SetCps(cs, q)[N].code = cs[N].code
       /\ \A i \in 1 .. N : i # N => SetCps(cs, q)[i] = cs[i]
  <2>1. Len(cs) >= 1 /\ q \in Seq(Nat)
    BY <1>1, <1>3
  <2>2. /\ Len(SetCps(cs, q)) = N /\ SetCps(cs, q)[N].cps = q
        /\ \A i \in 1 .. N : /\ SetCps(cs, q)[i].code = cs[i].code
                             /\ i # N => SetCps(cs, q)[i] = cs[i]
    BY <1>1, <2>1, SetCpsIs
  <2> HIDE DEF N
  <2> QED
    BY <1>1, <2>2
<1>12. \A i \in 1 .. N : \A m \in 1 .. Len(SetCps(cs, q)[i].cps) :
          SetCps(cs, q)[i].cps[m] < c[Len(c)]
  <2> TAKE i \in 1 .. N
  <2>1. CASE i = N
    BY <1>6, <1>11, <2>1
  <2>2. CASE i # N
    <3>1. i \in 1 .. N - 1
      BY <1>1, <2>2
    <3> QED
      BY <1>8, <1>11, <2>2, <3>1
  <2> QED
    BY <2>1, <2>2
<1> QED
  BY <1>3, <1>4, <1>10, <1>11, <1>12

-----------------------------------------------------------------------------
(* Entering and leaving a context, and dropping marks.                     *)

\* Who may enter whom.
MayEnter(cs, b, ret) ==
    \/ /\ Len(cs) = 1
       /\ ret \in {"txn_msg", "txn_create"}
       /\ ret = "txn_create" => Anchored(cs[1].cps, b)
    \/ /\ Len(cs) >= 2 /\ cs[Len(cs)].code = "user" /\ Len(cs[Len(cs)].cps) >= 2
       /\ ret \in {"call", "create"}

\* enter_new_ctx.
LEMMA LivePush ==
    ASSUME NEW s, NEW ms, NEW cs, NEW b, Live(s, ms, cs, b),
           NEW a \in Addr, NEW code \in {"user", "none", "precompile"},
           NEW static \in BOOLEAN, NEW ret,
           MayEnter(cs, b, ret),
           ret \in {"create", "txn_create"} => code = "user",
           code = "user" => s.led.acct[a].exists
    PROVE  LET ds == Append(cs, NewCtx(a, code, static, ret, ms)) IN
           /\ Live(s, Append(ms, Mark(s)), ds, b)
           /\ Len(ds) >= 2 /\ Len(ds[Len(ds)].cps) >= 1
<1> DEFINE ns == Append(ms, Mark(s))
           N == Len(cs)
           c == NewCtx(a, code, static, ret, ms)
           ds == Append(cs, c)
<1>1. /\ cs \in Seq(Context) /\ N \in Nat /\ N >= 1 /\ ms \in Seq(Marks) /\ Len(ms) \in Nat
      /\ b \in Nat /\ b <= Len(ms) /\ Sound(s)
  BY DEF Live, Stack
<1>2. Live(s, ns, cs, b)
  BY LiveMark
<1>3. Len(ns) = Len(ms) + 1 /\ ns[Len(ms) + 1].led = s.led
  BY <1>1, MarkIs
<1>4. ret \in {"call", "create", "txn_create", "txn_msg"}
  BY DEF MayEnter
<1>5. /\ c \in Context /\ c.addr = a /\ c.code = code /\ c.ret = ret
      /\ Len(c.cps) = 1 /\ c.cps[1] = Len(ms)
  BY <1>1, <1>4 DEF NewCtx, Context
<1> HIDE DEF c
<1>6. /\ ds \in Seq(Context) /\ Len(ds) = N + 1 /\ ds[N + 1] = c
      /\ \A i \in 1 .. N : ds[i] = cs[i]
  BY <1>1, <1>5
<1> HIDE DEF ds, ns
<1>7. \A i \in 1 .. N : \A m \in 1 .. Len(cs[i].cps) : cs[i].cps[m] \in Nat /\ cs[i].cps[m] < Len(ms)
  BY <1>1, CtxTyped DEF Live, Nested
<1>8. Stack(ds, b)
  <2>1. Len(ds) >= 1 /\ ds[1].code = "kernel"
    BY <1>1, <1>6 DEF Live, Stack
  <2>2. ASSUME NEW i \in 2 .. N + 1
        PROVE  /\ ds[i].code # "kernel"
               /\ i = 2 => ds[i].ret \in {"txn_create", "txn_msg"}
               /\ i > 2 => ds[i].ret \in {"call", "create"}
               /\ ds[i].ret \in {"create", "txn_create"} => ds[i].code = "user"
               /\ \A m \in 1 .. Len(ds[i].cps) : b <= ds[i].cps[m]
               /\ i < N + 1 => ds[i].code = "user" /\ Len(ds[i].cps) >= 2
    <3>1. CASE i = N + 1
      BY <1>1, <1>5, <1>6, <3>1 DEF MayEnter
    <3>2. CASE i = N
      <4>1. i \in 2 .. Len(cs) /\ i \in 1 .. N /\ N >= 2
        BY <1>1, <3>2
      <4>2. cs[i].code = "user" /\ Len(cs[i].cps) >= 2
        BY <3>2, <4>1 DEF MayEnter
      <4> QED
        BY <1>6, <4>1, <4>2 DEF Live, Stack
    <3>3. CASE i < N
      <4>1. i \in 2 .. Len(cs) /\ i \in 1 .. N
        BY <1>1, <3>3
      <4> QED
        BY <1>6, <3>3, <4>1 DEF Live, Stack
    <3> QED
      BY <1>1, <3>1, <3>2, <3>3
  <2>3. ds[2].ret = "txn_create" => Anchored(ds[1].cps, b)
    <3>1. CASE N = 1
      BY <1>1, <1>5, <1>6, <3>1 DEF MayEnter
    <3>2. CASE N >= 2
      <4>1. 1 \in 1 .. N /\ 2 \in 1 .. N
        BY <1>1, <3>2
      <4> QED
        BY <1>6, <3>2, <4>1 DEF Live, Stack
    <3>3. N = 1 \/ N >= 2
      <4>1. N \in Nat /\ N >= 1
        BY <1>1
      <4> HIDE DEF N
      <4> QED
        BY <4>1
    <3> QED
      BY <3>1, <3>2, <3>3
  <2> QED
    BY <1>6, <2>1, <2>2, <2>3 DEF Stack
<1>9. Nested(ns, ds)
  <2> SUFFICES ASSUME NEW i \in 1 .. N + 1, NEW j \in 1 .. N + 1,
                      NEW m \in 1 .. Len(ds[i].cps), NEW n \in 1 .. Len(ds[j].cps)
               PROVE  /\ ds[i].cps[m] < Len(ns)
                      /\ i < j \/ (i = j /\ m < n) => ds[i].cps[m] < ds[j].cps[n]
    BY <1>6 DEF Nested
  <2>1. CASE i \in 1 .. N /\ j \in 1 .. N
    BY <1>2, <1>6, <2>1 DEF Live, Nested
  <2>2. CASE i \in 1 .. N /\ j = N + 1
    <3>1. ds[i].cps[m] \in Nat /\ ds[i].cps[m] < Len(ms)
      BY <1>6, <1>7, <2>2
    <3>2. n = 1 /\ ds[j].cps[n] = Len(ms)
      <4>1. ds[j] = c
        BY <1>6, <2>2
      <4>2. n \in 1 .. 1
        BY <1>5, <4>1
      <4> QED
        BY <1>5, <4>1, <4>2
    <3>3. i # j
      BY <1>1, <2>2
    <3>4. ds[i].cps[m] < Len(ns)
      BY <1>1, <1>3, <3>1
    <3>5. ds[i].cps[m] < ds[j].cps[n]
      BY <3>1, <3>2
    <3> QED
      BY <3>3, <3>4, <3>5
  <2>3. CASE i = N + 1 /\ j \in 1 .. N
    BY <1>1, <1>3, <1>5, <1>6, <2>3
  <2>4. CASE i = N + 1 /\ j = N + 1
    BY <1>1, <1>3, <1>5, <1>6, <2>4
  <2>5. (i \in 1 .. N \/ i = N + 1) /\ (j \in 1 .. N \/ j = N + 1)
    BY <1>1
  <2> QED
    BY <2>1, <2>2, <2>3, <2>4, <2>5
<1>10. ExistsAtMarks(ns, ds)
  <2> SUFFICES ASSUME NEW i \in 2 .. N + 1, ds[i].code = "user", Len(ds[i].cps) >= 1,
                      NEW m \in ds[i].cps[1] + 1 .. Len(ns)
               PROVE  ns[m].led.acct[ds[i].addr].exists
    BY <1>6 DEF ExistsAtMarks
  <2>1. CASE i = N + 1
    <3>1. m = Len(ms) + 1
      BY <1>1, <1>3, <1>5, <1>6, <2>1
    <3> QED
      BY <1>3, <1>5, <1>6, <2>1, <3>1
  <2>2. CASE i # N + 1
    <3>1. i \in 2 .. Len(cs) /\ i \in 1 .. N
      BY <1>1, <2>2
    <3> QED
      BY <1>2, <1>6, <3>1 DEF Live, ExistsAtMarks
  <2> QED
    BY <2>1, <2>2
<1>11. ExistsNow(s.led, ds)
  <2> SUFFICES ASSUME NEW i \in 2 .. N + 1, ds[i].code = "user", Len(ds[i].cps) >= 1
               PROVE  s.led.acct[ds[i].addr].exists
    BY <1>6 DEF ExistsNow
  <2>1. CASE i = N + 1
    BY <1>5, <1>6, <2>1
  <2>2. CASE i # N + 1
    <3>1. i \in 2 .. Len(cs) /\ i \in 1 .. N
      BY <1>1, <2>2
    <3> QED
      BY <1>2, <1>6, <3>1 DEF Live, ExistsNow
  <2> QED
    BY <2>1, <2>2
<1>12. Live(s, ns, ds, b)
  BY <1>2, <1>6, <1>8, <1>9, <1>10, <1>11 DEF Live
<1> QED
  BY <1>1, <1>5, <1>6, <1>12 DEF ds, ns, c

\* terminate_common.
LEMMA LivePopCtx ==
    ASSUME NEW s, NEW ms, NEW cs, NEW b, Live(s, ms, cs, b), Len(cs) >= 2
    PROVE  LET ds == SubSeq(cs, 1, Len(cs) - 1) IN
           /\ Live(s, ms, ds, b)
           /\ Len(ds) = Len(cs) - 1
           /\ \A i \in 1 .. Len(ds) : ds[i] = cs[i]
<1> DEFINE N == Len(cs)
           ds == SubSeq(cs, 1, N - 1)
<1>1. cs \in Seq(Context) /\ N \in Nat /\ N >= 2
  BY DEF Live
<1>2. ds \in Seq(Context) /\ Len(ds) = N - 1 /\ \A i \in 1 .. N - 1 : ds[i] = cs[i]
  BY <1>1
<1> HIDE DEF ds
<1>3. Stack(ds, b)
  <2>1. Len(ds) >= 1 /\ ds[1].code = "kernel"
    BY <1>1, <1>2 DEF Live, Stack
  <2>2. ASSUME NEW i \in 2 .. N - 1
        PROVE  i \in 1 .. N - 1 /\ i \in 2 .. Len(cs) /\ ds[i] = cs[i] /\ i < N
    BY <1>1, <1>2
  <2>3. N - 1 >= 2 => ds[1] = cs[1] /\ ds[2] = cs[2]
    BY <1>1, <1>2
  <2>4. Stack(cs, b)
    BY DEF Live
  <2>5. ASSUME NEW i \in 2 .. N - 1
        PROVE  /\ ds[i].code # "kernel"
               /\ i = 2 => ds[i].ret \in {"txn_create", "txn_msg"}
               /\ i > 2 => ds[i].ret \in {"call", "create"}
               /\ ds[i].ret \in {"create", "txn_create"} => ds[i].code = "user"
               /\ \A m \in 1 .. Len(ds[i].cps) : b <= ds[i].cps[m]
               /\ ds[i].code = "user" /\ Len(ds[i].cps) >= 2
    <3>1. i \in 2 .. Len(cs) /\ i < Len(cs) /\ ds[i] = cs[i]
      BY <2>2
    <3>2. cs[i].code = "user" /\ Len(cs[i].cps) >= 2 /\ cs[i].code # "kernel"
      BY <2>4, <3>1 DEF Stack
    <3>3. \A m \in 1 .. Len(cs[i].cps) : b <= cs[i].cps[m]
      BY <2>4, <3>1 DEF Stack
    <3>4. /\ i = 2 => cs[i].ret \in {"txn_create", "txn_msg"}
          /\ i > 2 => cs[i].ret \in {"call", "create"}
      BY <2>4, <3>1 DEF Stack
    <3> QED
      BY <3>1, <3>2, <3>3, <3>4
  <2>6. Len(ds) >= 2 /\ ds[2].ret = "txn_create" => Anchored(ds[1].cps, b)
    BY <1>1, <1>2, <2>3, <2>4 DEF Stack
  <2> HIDE DEF N
  <2> QED
    BY <1>2, <2>1, <2>5, <2>6 DEF Stack
<1>4. Nested(ms, ds)
  <2>1. \A i \in 1 .. N - 1 : i \in 1 .. Len(cs) /\ ds[i] = cs[i]
    BY <1>1, <1>2
  <2>2. Nested(ms, cs)
    BY DEF Live
  <2> QED
    BY <1>2, <2>1, <2>2 DEF Nested
<1>5. ExistsAtMarks(ms, ds) /\ ExistsNow(s.led, ds)
  <2>1. ASSUME NEW i \in 2 .. N - 1
        PROVE  i \in 2 .. Len(cs) /\ ds[i] = cs[i]
    BY <1>1, <1>2
  <2> QED
    BY <1>2, <2>1 DEF Live, ExistsAtMarks, ExistsNow
<1> QED
  BY <1>1, <1>2, <1>3, <1>4, <1>5 DEF Live, ds

\* The marks above the checkpoints of every context may be dropped.
LEMMA LiveCut ==
    ASSUME NEW s, NEW ms, NEW cs, NEW b, Live(s, ms, cs, b), NEW t \in Nat,
           b <= t, t <= Len(ms),
           \A i \in 1 .. Len(cs) : \A m \in 1 .. Len(cs[i].cps) : cs[i].cps[m] < t
    PROVE  Live(s, SubSeq(ms, 1, t), cs, b)
<1> DEFINE ns == SubSeq(ms, 1, t)
<1>1. ms \in Seq(Marks) /\ b \in Nat /\ Len(ms) \in Nat /\ cs \in Seq(Context)
  BY DEF Live
<1>2. ns \in Seq(Marks) /\ Len(ns) = t /\ \A m \in 1 .. t : ns[m] = ms[m]
  BY <1>1
<1> HIDE DEF ns
<1>3. Nested(ns, cs)
  BY <1>2 DEF Live, Nested
<1>4. Rising(ns, b)
  <2>1. \A m \in b + 1 .. t : m \in b + 1 .. Len(ms) /\ ns[m] = ms[m]
    BY <1>1, <1>2
  <2> QED
    BY <1>2, <2>1 DEF Live, Rising
<1>5. ExistsAtMarks(ns, cs)
  <2> SUFFICES ASSUME NEW i \in 2 .. Len(cs), cs[i].code = "user", Len(cs[i].cps) >= 1,
                      NEW m \in cs[i].cps[1] + 1 .. t
               PROVE  ns[m].led.acct[cs[i].addr].exists
    BY <1>2 DEF ExistsAtMarks
  <2>1. cs[i].cps[1] \in Nat
    BY <1>1, CtxTyped
  <2>2. m \in cs[i].cps[1] + 1 .. Len(ms) /\ ns[m] = ms[m]
    BY <1>1, <1>2, <2>1
  <2> QED
    BY <2>2 DEF Live, ExistsAtMarks
<1>6. History(s, ns, b, t, Len(s.journal))
  <2> SUFFICES ASSUME b < t
               PROVE  Explains(s, ns, b, t, Len(s.journal))
    BY DEF History
  <2>1. Explains(s, ms, b, Len(ms), Len(s.journal))
    BY <1>1 DEF Live, History
  <2>2. \A m \in b + 1 .. t : m \in b + 1 .. Len(ms) /\ ns[m] = ms[m]
    BY <1>1, <1>2
  <2>3. ns[b + 1] = ms[b + 1]
    BY <1>1, <1>2
  <2> QED
    BY <2>1, <2>2, <2>3 DEF Explains
<1> QED
  BY <1>2, <1>3, <1>4, <1>5, <1>6 DEF Live, ns

-----------------------------------------------------------------------------
(* The inductive invariant, of the values of the variables.                *)

\* Every mark of the transaction lies in the journal.
InJournal(s, ms, b) == \A m \in b + 1 .. Len(ms) : ms[m].size <= Len(s.journal)

\* What holds all the time.
Basic(s, ms, cs, b) ==
    /\ Sound(s)
    /\ ms \in Seq(Marks) /\ cs \in Seq(Context) /\ b \in Nat /\ b <= Len(ms)
    /\ Stack(cs, b)
    /\ Nested(ms, cs)
    /\ Rising(ms, b)

\* What holds in the revert loop: what the journal explains shrinks with it.
Undoing(s, ms, cs, r, b) ==
    LET c == cs[Len(cs)].cps IN
    /\ Anchored(c, b) /\ r.target = c[Len(c)]
    /\ r.target <= r.cp /\ r.cp <= Len(ms)
    /\ r.size <= Len(s.journal)
    /\ r.next \in {"user", "terminate", "fault"}
    /\ r.next = "user" => Len(cs) >= 2 /\ Len(c) >= 2
    /\ r.next = "terminate" => Len(cs) >= 2
    /\ r.next = "fault" => Len(cs) = 1
    /\ ExistsAtMarks(ms, cs)
    /\ History(s, ms, b, r.cp, r.size)
    /\ r.cp = r.target => /\ Len(s.journal) = r.size
                          /\ r.size = ms[r.target + 1].size
                          /\ s.led = ms[r.target + 1].led

\* The labels at which only the kernel's context is left.
Bottom == {"idle", "txn_msg", "fault", "finish", "halt", "panic_fail"}

Executing(p) == p \in {"user", "terminate", "call", "create", "txn_create"}

AtLabel(s, ms, cs, p, r, x) ==
    LET top == cs[Len(cs)] IN
    /\ p \in Labels /\ p # "panic"
    /\ Executing(p) => Live(s, ms, cs, x.base)
    /\ p \in {"user", "terminate", "call", "create"} => Len(cs) >= 2
    /\ p = "user" => Len(top.cps) >= 1
    /\ p \in {"call", "create"} => top.code = "user" /\ Len(top.cps) >= 2
    /\ p = "txn_create" => Len(cs) = 1 /\ Anchored(top.cps, x.base)
    /\ p \in {"create", "txn_create"} /\ x.ok => s.led.acct[x.callee].exists
    /\ p = "undo" => Undoing(s, ms, cs, r, x.base)
    /\ p \in Bottom => Len(cs) = 1
    /\ p \notin {"undo", "idle", "halt"} => InJournal(s, ms, x.base)

Good(s, ms, cs, p, r, x) ==
    /\ Basic(s, ms, cs, x.base)
    /\ r \in Registers /\ x \in Txns
    /\ AtLabel(s, ms, cs, p, r, x)

KernelInv == Good(k, marks, ctxs, pc, rv, txn)

\* A live state is good at each label that asks for one.
LEMMA LiveBasic ==
    ASSUME NEW s, NEW ms, NEW cs, NEW b, Live(s, ms, cs, b)
    PROVE  Basic(s, ms, cs, b) /\ InJournal(s, ms, b)
<1>1. Basic(s, ms, cs, b)
  BY DEF Live, Basic
<1> QED
  BY <1>1, SizesBelow DEF InJournal

\* A live state in which a context runs.
LEMMA GoodUser ==
    ASSUME NEW s, NEW ms, NEW cs, NEW r \in Registers, NEW x \in Txns,
           Live(s, ms, cs, x.base), Len(cs) >= 2, Len(cs[Len(cs)].cps) >= 1
    PROVE  Good(s, ms, cs, "user", r, x)
<1>1. Basic(s, ms, cs, x.base) /\ InJournal(s, ms, x.base)
  BY LiveBasic
<1>2. AtLabel(s, ms, cs, "user", r, x)
  BY <1>1 DEF AtLabel, Executing, Bottom, Labels
<1> QED
  BY <1>1, <1>2 DEF Good

\* A live state in which a context ends.
LEMMA GoodTerminate ==
    ASSUME NEW s, NEW ms, NEW cs, NEW r \in Registers, NEW x \in Txns,
           Live(s, ms, cs, x.base), Len(cs) >= 2
    PROVE  Good(s, ms, cs, "terminate", r, x)
<1>1. Basic(s, ms, cs, x.base) /\ InJournal(s, ms, x.base)
  BY LiveBasic
<1>2. AtLabel(s, ms, cs, "terminate", r, x)
  BY <1>1 DEF AtLabel, Executing, Bottom, Labels
<1> QED
  BY <1>1, <1>2 DEF Good

\* A state of the revert loop.
LEMMA GoodUndo ==
    ASSUME NEW s, NEW ms, NEW cs, NEW r \in Registers, NEW x \in Txns,
           Basic(s, ms, cs, x.base), Undoing(s, ms, cs, r, x.base)
    PROVE  Good(s, ms, cs, "undo", r, x)
<1>1. AtLabel(s, ms, cs, "undo", r, x)
  BY DEF AtLabel, Executing, Bottom, Labels
<1> QED
  BY <1>1 DEF Good

\* A context has ended: the continuation of the one below it.
LEMMA GoodReturn ==
    ASSUME NEW s, NEW ms, NEW cs, NEW r \in Registers, NEW x \in Txns,
           NEW p \in {"call", "create", "txn_create", "txn_msg"},
           Live(s, ms, cs, x.base),
           p \in {"call", "create"} =>
              Len(cs) >= 2 /\ cs[Len(cs)].code = "user" /\ Len(cs[Len(cs)].cps) >= 2,
           p \in {"txn_create", "txn_msg"} => Len(cs) = 1,
           p = "txn_create" => Anchored(cs[Len(cs)].cps, x.base),
           p \in {"create", "txn_create"} /\ x.ok => s.led.acct[x.callee].exists
    PROVE  Good(s, ms, cs, p, r, x)
<1>1. Basic(s, ms, cs, x.base) /\ InJournal(s, ms, x.base)
  BY LiveBasic
<1>2. AtLabel(s, ms, cs, p, r, x)
  BY <1>1 DEF AtLabel, Executing, Bottom, Labels
<1> QED
  BY <1>1, <1>2 DEF Good

\* A state of the kernel's own context.
LEMMA GoodBottom ==
    ASSUME NEW s, NEW ms, NEW cs, NEW r \in Registers, NEW x \in Txns, NEW p \in Bottom,
           Basic(s, ms, cs, x.base), Len(cs) = 1,
           p \notin {"idle", "halt"} => InJournal(s, ms, x.base)
    PROVE  Good(s, ms, cs, p, r, x)
<1>1. AtLabel(s, ms, cs, p, r, x)
  BY DEF AtLabel, Executing, Bottom, Labels
<1> QED
  BY <1>1 DEF Good

-----------------------------------------------------------------------------
(* The revert loop.                                                        *)

\* revert_checkpoint up to its loop.
LEMMA GoodRevert ==
    ASSUME NEW s, NEW ms, NEW cs, NEW x \in Txns, Live(s, ms, cs, x.base),
           Anchored(cs[Len(cs)].cps, x.base),
           NEW next \in {"user", "terminate", "fault"},
           next = "user" => Len(cs) >= 2 /\ Len(cs[Len(cs)].cps) >= 2,
           next = "terminate" => Len(cs) >= 2,
           next = "fault" => Len(cs) = 1
    PROVE  LET c == cs[Len(cs)].cps
               r == [target |-> c[Len(c)], cp |-> Len(ms), size |-> Len(s.journal),
                     next |-> next]
           IN  ~(Len(ms) < c[Len(c)]) /\ Good(s, ms, cs, "undo", r, x)
<1> DEFINE N == Len(cs)
           c == cs[N].cps
           target == c[Len(c)]
           r == [target |-> target, cp |-> Len(ms), size |-> Len(s.journal), next |-> next]
<1>1. /\ cs \in Seq(Context) /\ N \in 1 .. N /\ ms \in Seq(Marks) /\ Len(ms) \in Nat
      /\ x.base \in Nat /\ Len(s.journal) \in Nat
  BY DEF Live, Stack, Sound, Kernels
<1>2. c \in Seq(Nat) /\ Len(c) \in Nat /\ Len(c) \in 1 .. Len(c) /\ target \in Nat
  BY <1>1, CtxTyped DEF Anchored
<1>3. target < Len(ms)
  BY <1>1, <1>2 DEF Live, Nested
<1>4. /\ r \in Registers /\ r.target = target /\ r.cp = Len(ms) /\ r.size = Len(s.journal)
      /\ r.next = next
  BY <1>1, <1>2 DEF Registers
<1> HIDE DEF r, target
<1>5. Undoing(s, ms, cs, r, x.base)
  <2>1. r.target <= r.cp /\ r.cp <= Len(ms) /\ r.size <= Len(s.journal) /\ r.cp # r.target
    BY <1>1, <1>2, <1>3, <1>4
  <2>2. ExistsAtMarks(ms, cs) /\ History(s, ms, x.base, r.cp, r.size)
    BY <1>4 DEF Live
  <2>3. r.target = c[Len(c)]
    BY <1>4 DEF target
  <2> QED
    BY <1>4, <2>1, <2>2, <2>3 DEF Undoing
<1>6. Basic(s, ms, cs, x.base)
  BY LiveBasic
<1>7. Good(s, ms, cs, "undo", r, x)
  BY <1>4, <1>5, <1>6, GoodUndo
<1> QED
  BY <1>1, <1>2, <1>3, <1>7 DEF r, target

\* What the invariant says in the loop, spelt out.
LEMMA InLoop ==
    ASSUME NEW s, NEW ms, NEW cs, NEW r, NEW x, Good(s, ms, cs, "undo", r, x)
    PROVE  /\ Basic(s, ms, cs, x.base) /\ Undoing(s, ms, cs, r, x.base)
           /\ r \in Registers /\ x \in Txns
           /\ r.target \in Nat /\ r.cp \in Nat /\ r.size \in Nat
           /\ x.base \in Nat /\ x.base <= r.target /\ r.target <= r.cp /\ r.cp <= Len(ms)
           /\ r.size <= Len(s.journal) /\ Len(s.journal) \in Nat
           /\ s.journal \in Seq(Entry) /\ ms \in Seq(Marks) /\ Len(ms) \in Nat
<1>1. /\ Basic(s, ms, cs, x.base) /\ Undoing(s, ms, cs, r, x.base)
      /\ r \in Registers /\ x \in Txns
  BY DEF Good, AtLabel
<1>2. r.target \in Nat /\ r.cp \in Nat /\ r.size \in Nat
  BY <1>1 DEF Registers
<1>3. /\ x.base \in Nat /\ s.journal \in Seq(Entry) /\ Len(s.journal) \in Nat
      /\ ms \in Seq(Marks) /\ Len(ms) \in Nat
  BY <1>1 DEF Basic, Sound, Kernels
<1>4. x.base <= r.target /\ r.target <= r.cp /\ r.cp <= Len(ms) /\ r.size <= Len(s.journal)
  BY <1>1 DEF Undoing, Anchored
<1> QED
  BY <1>1, <1>2, <1>3, <1>4

\* One iteration of the loop finds an entry that can be undone.
LEMMA LoopHistory ==
    ASSUME NEW s, NEW ms, NEW cs, NEW r, NEW x, Good(s, ms, cs, "undo", r, x),
           r.cp # r.target
    PROVE  \E h \in [Nat -> Solid] :
              /\ h[r.size] = s.led
              /\ \A m \in x.base + 1 .. r.cp :
                    /\ ms[m].size \in Nat /\ ms[m].size <= ms[r.cp].size
                    /\ h[ms[m].size] = ms[m].led
              /\ ms[r.cp].size \in Nat /\ ms[r.cp].size <= r.size
              /\ Unwinds(h, s.journal, ms[x.base + 1].size, r.size)
              /\ ms[x.base + 1].size \in Nat /\ ms[x.base + 1].size <= ms[r.cp].size
<1> DEFINE b == x.base
<1>1. /\ r.cp \in Nat /\ b \in Nat /\ b < r.cp /\ ms \in Seq(Marks) /\ Len(ms) \in Nat
      /\ r.cp <= Len(ms)
  BY InLoop
<1>2. Undoing(s, ms, cs, r, b) /\ Basic(s, ms, cs, b)
  BY InLoop
<1> HIDE DEF b
<1>3. Explains(s, ms, b, r.cp, r.size)
  BY <1>1, <1>2 DEF Undoing, History
<1>4. PICK h \in [Nat -> Solid] :
          /\ h[r.size] = s.led
          /\ \A m \in b + 1 .. r.cp : ms[m].size <= r.size /\ h[ms[m].size] = ms[m].led
          /\ Unwinds(h, s.journal, ms[b + 1].size, r.size)
  BY <1>3 DEF Explains
<1>5. r.cp \in b + 1 .. r.cp /\ b + 1 \in b + 1 .. r.cp /\ r.cp \in b + 1 .. Len(ms)
  BY <1>1
<1>6. ASSUME NEW m \in b + 1 .. r.cp
      PROVE  ms[m].size \in Nat /\ ms[m].size <= ms[r.cp].size
  <2>1. m \in 1 .. Len(ms) /\ m \in b + 1 .. Len(ms) /\ m <= r.cp
    BY <1>1
  <2>2. ms[m].size \in Nat
    BY <1>1, <2>1, MarkTyped
  <2>3. ms[m].size <= ms[r.cp].size
    BY <1>2, <1>5, <2>1 DEF Basic, Rising
  <2> QED
    BY <2>2, <2>3
<1> QED
  BY <1>4, <1>5, <1>6 DEF b

\* One iteration of the revert loop passes its check and stays in the history.
LEMMA GoodUndoEntry ==
    ASSUME NEW s, NEW ms, NEW cs, NEW r, NEW x, Good(s, ms, cs, "undo", r, x),
           r.cp # r.target, r.size # ms[r.cp].size
    PROVE  LET e == s.journal[r.size] IN
           /\ r.size > ms[r.cp].size /\ CanUndo(e, s.led)
           /\ Good([s EXCEPT !.led = Undo(e, @), !.created = UndoCreated(e, @),
                             !.destroyed = UndoDestroyed(e, @)],
                   ms, cs, "undo", [r EXCEPT !.size = @ - 1], x)
<1> DEFINE b == x.base
           e == s.journal[r.size]
           L == Undo(e, s.led)
           cr == UndoCreated(e, s.created)
           de == UndoDestroyed(e, s.destroyed)
           t == [s EXCEPT !.led = L, !.created = cr, !.destroyed = de]
           q == [r EXCEPT !.size = r.size - 1]
<1>1. /\ r \in Registers /\ x \in Txns /\ r.target \in Nat /\ r.cp \in Nat /\ r.size \in Nat
      /\ b \in Nat /\ b <= r.target /\ r.target <= r.cp /\ r.cp <= Len(ms)
      /\ r.size <= Len(s.journal) /\ Len(s.journal) \in Nat /\ s.journal \in Seq(Entry)
      /\ ms \in Seq(Marks) /\ Len(ms) \in Nat
  BY InLoop
<1>2. Undoing(s, ms, cs, r, b) /\ Basic(s, ms, cs, b)
  BY InLoop
<1>3. PICK h \in [Nat -> Solid] :
          /\ h[r.size] = s.led
          /\ \A m \in b + 1 .. r.cp : /\ ms[m].size \in Nat /\ ms[m].size <= ms[r.cp].size
                                      /\ h[ms[m].size] = ms[m].led
          /\ ms[r.cp].size \in Nat /\ ms[r.cp].size <= r.size
          /\ Unwinds(h, s.journal, ms[b + 1].size, r.size)
          /\ ms[b + 1].size \in Nat /\ ms[b + 1].size <= ms[r.cp].size
  BY LoopHistory
<1> HIDE DEF b
<1>4. r.size > ms[r.cp].size /\ r.size \in ms[b + 1].size + 1 .. r.size
  BY <1>1, <1>3
<1>5. CanUndo(e, s.led) /\ L = h[r.size - 1] /\ r.size - 1 \in Nat
  <2>1. CanUndo(s.journal[r.size], h[r.size]) /\ Undo(s.journal[r.size], h[r.size]) = h[r.size - 1]
    BY <1>3, <1>4 DEF Unwinds
  <2>2. r.size - 1 \in Nat
    BY <1>1, <1>3, <1>4
  <2> QED
    BY <1>3, <2>1, <2>2
<1>6. L \in Solid /\ L \in Ledgers
  BY <1>3, <1>5 DEF Solid
<1>7. e \in Entry
  <2>1. r.size \in 1 .. Len(s.journal)
    BY <1>1, <1>3, <1>4
  <2> QED
    BY <1>1, <2>1, ElementOfSeq
<1> HIDE DEF e
<1>8. s \in Kernels /\ s.created \in Seq(Addr) /\ s.destroyed \in [Addr -> Nat]
  BY <1>2 DEF Basic, Sound, Kernels
<1>9. cr \in Seq(Addr)
  <2> DEFINE c == s.created
  <2>1. c \in Seq(Addr) /\ Len(c) \in Nat
    BY <1>8
  <2>2. SubSeq(c, 1, Len(c) - 1) \in Seq(Addr)
    BY <2>1
  <2> QED
    BY <2>1, <2>2 DEF UndoCreated
<1>10. de \in [Addr -> Nat]
  <2>1. CASE e.type = "AccountDestroyed" /\ s.destroyed[e.addr] > 0
    <3>1. e.addr \in Addr
      BY <1>7, <2>1 DEF Entry
    <3>2. s.destroyed[e.addr] - 1 \in Nat
      BY <1>8, <2>1, <3>1
    <3>3. de = [s.destroyed EXCEPT ![e.addr] = s.destroyed[e.addr] - 1]
      BY <2>1 DEF UndoDestroyed
    <3> QED
      BY <1>8, <3>2, <3>3
  <2>2. CASE ~(e.type = "AccountDestroyed" /\ s.destroyed[e.addr] > 0)
    BY <1>8, <2>2 DEF UndoDestroyed
  <2> QED
    BY <2>1, <2>2
<1> HIDE DEF L, cr, de
<1>11. Sound(t) /\ t.led = L /\ t.journal = s.journal
  BY <1>6, <1>8, <1>9, <1>10 DEF Sound, Kernels
<1>12. q \in Registers /\ q.target = r.target /\ q.cp = r.cp /\ q.size = r.size - 1
       /\ q.next = r.next
  BY <1>1, <1>5 DEF Registers
<1> HIDE DEF t, q
<1>13. Basic(t, ms, cs, b)
  BY <1>2, <1>11 DEF Basic
<1>14. Explains(t, ms, b, r.cp, r.size - 1)
  <2>1. \A m \in b + 1 .. r.cp : ms[m].size <= r.size - 1 /\ h[ms[m].size] = ms[m].led
    BY <1>1, <1>3, <1>4, SMTT(30)
  <2>2. Unwinds(h, t.journal, ms[b + 1].size, r.size - 1)
    <3>1. \A i \in ms[b + 1].size + 1 .. r.size - 1 : i \in ms[b + 1].size + 1 .. r.size
      BY <1>1, <1>3
    <3> QED
      BY <1>3, <1>11, <3>1 DEF Unwinds
  <2>3. h[r.size - 1] = t.led
    BY <1>5, <1>11
  <2> QED
    BY <2>1, <2>2, <2>3 DEF Explains
<1>15. Undoing(t, ms, cs, q, b)
  <2>1. q.size <= Len(t.journal)
    BY <1>1, <1>11, <1>12
  <2>2. History(t, ms, b, q.cp, q.size)
    BY <1>12, <1>14 DEF History
  <2> QED
    BY <1>2, <1>12, <2>1, <2>2 DEF Undoing
<1>16. Good(t, ms, cs, "undo", q, x)
  BY <1>1, <1>12, <1>13, <1>15, GoodUndo DEF b
<1> QED
  BY <1>4, <1>5, <1>16 DEF t, q, L, cr, de, e

\* revert_batch_done stays in the history.
LEMMA GoodBatchDone ==
    ASSUME NEW s, NEW ms, NEW cs, NEW r, NEW x, Good(s, ms, cs, "undo", r, x),
           r.cp # r.target, r.size = ms[r.cp].size
    PROVE  Good([s EXCEPT !.journal = SubSeq(@, 1, r.size)], ms, cs, "undo",
                [r EXCEPT !.cp = @ - 1], x)
<1> DEFINE b == x.base
           j == SubSeq(s.journal, 1, r.size)
           t == [s EXCEPT !.journal = j]
           q == [r EXCEPT !.cp = r.cp - 1]
<1>1. /\ r \in Registers /\ x \in Txns /\ r.target \in Nat /\ r.cp \in Nat /\ r.size \in Nat
      /\ b \in Nat /\ b <= r.target /\ r.target <= r.cp /\ r.cp <= Len(ms)
      /\ r.size <= Len(s.journal) /\ Len(s.journal) \in Nat /\ s.journal \in Seq(Entry)
      /\ ms \in Seq(Marks) /\ Len(ms) \in Nat
  BY InLoop
<1>2. Undoing(s, ms, cs, r, b) /\ Basic(s, ms, cs, b)
  BY InLoop
<1>3. PICK h \in [Nat -> Solid] :
          /\ h[r.size] = s.led
          /\ \A m \in b + 1 .. r.cp : /\ ms[m].size \in Nat /\ ms[m].size <= ms[r.cp].size
                                      /\ h[ms[m].size] = ms[m].led
          /\ ms[r.cp].size \in Nat /\ ms[r.cp].size <= r.size
          /\ Unwinds(h, s.journal, ms[b + 1].size, r.size)
          /\ ms[b + 1].size \in Nat /\ ms[b + 1].size <= ms[r.cp].size
  BY LoopHistory
<1> HIDE DEF b
<1>4. j \in Seq(Entry) /\ Len(j) = r.size /\ \A i \in 1 .. r.size : j[i] = s.journal[i]
  BY <1>1
<1> HIDE DEF j
<1>5. Sound(t) /\ t.led = s.led /\ t.journal = j
  BY <1>2, <1>4 DEF Basic, Sound, Kernels
<1>6. q \in Registers /\ q.target = r.target /\ q.cp = r.cp - 1 /\ q.size = r.size
      /\ q.next = r.next
  BY <1>1, SMTT(30) DEF Registers
<1> HIDE DEF t, q
<1>7. Basic(t, ms, cs, b)
  BY <1>2, <1>5 DEF Basic
<1>8. Explains(t, ms, b, r.cp - 1, r.size)
  <2>1. \A m \in b + 1 .. r.cp - 1 : ms[m].size <= r.size /\ h[ms[m].size] = ms[m].led
    BY <1>1, <1>3
  <2>2. Unwinds(h, t.journal, ms[b + 1].size, r.size)
    <3>1. \A i \in ms[b + 1].size + 1 .. r.size : t.journal[i] = s.journal[i]
      BY <1>1, <1>3, <1>4, <1>5
    <3> QED
      BY <1>3, <3>1 DEF Unwinds
  <2> QED
    BY <1>3, <1>5, <2>1, <2>2 DEF Explains
<1>9. r.cp \in b + 1 .. r.cp /\ s.led = ms[r.cp].led
  BY <1>1, <1>3
<1>10. Undoing(t, ms, cs, q, b)
  <2>1. q.target <= q.cp /\ q.cp <= Len(ms) /\ q.size <= Len(t.journal)
    BY <1>1, <1>4, <1>5, <1>6
  <2>2. History(t, ms, b, q.cp, q.size)
    BY <1>6, <1>8 DEF History
  <2>3. q.cp = q.target => /\ Len(t.journal) = q.size
                           /\ q.size = ms[q.target + 1].size
                           /\ t.led = ms[q.target + 1].led
    <3> SUFFICES ASSUME q.cp = q.target
                 PROVE  q.target + 1 = r.cp
      BY <1>4, <1>5, <1>6, <1>9
    <3> QED
      BY <1>1, <1>6
  <2> QED
    BY <1>2, <1>6, <2>1, <2>2, <2>3 DEF Undoing
<1>11. Good(t, ms, cs, "undo", q, x)
  BY <1>1, <1>6, <1>7, <1>10, GoodUndo DEF b
<1> QED
  BY <1>11 DEF t, q, j

\* At the end of the loop the state is live up to the mark that was reverted to.
LEMMA LiveReverted ==
    ASSUME NEW s, NEW ms, NEW cs, NEW r, NEW x, Good(s, ms, cs, "undo", r, x),
           r.cp = r.target
    PROVE  r.target + 1 <= Len(ms) /\ Live(s, SubSeq(ms, 1, r.target + 1), cs, x.base)
<1> DEFINE b == x.base
           g == r.target
           ns == SubSeq(ms, 1, g + 1)
           N == Len(cs)
           c == cs[N].cps
<1>1. /\ g \in Nat /\ b \in Nat /\ b <= g /\ r.size \in Nat
      /\ Len(s.journal) \in Nat /\ ms \in Seq(Marks) /\ Len(ms) \in Nat
  BY InLoop
<1>2. Undoing(s, ms, cs, r, b) /\ Basic(s, ms, cs, b)
  BY InLoop
<1>3. /\ Anchored(c, b) /\ g = c[Len(c)] /\ ExistsAtMarks(ms, cs)
      /\ History(s, ms, b, g, Len(s.journal))
      /\ ms[g + 1].size = Len(s.journal) /\ ms[g + 1].led = s.led
  BY <1>2 DEF Undoing
<1>4. cs \in Seq(Context) /\ N \in 1 .. N /\ N \in Nat
  BY <1>2 DEF Basic, Stack
<1>5. \A i \in 1 .. N : /\ cs[i].cps \in Seq(Nat) /\ Len(cs[i].cps) \in Nat
                        /\ \A m \in 1 .. Len(cs[i].cps) : cs[i].cps[m] \in Nat
  BY <1>4, CtxTyped
<1>6. Len(c) \in 1 .. Len(c)
  BY <1>3, <1>4, <1>5 DEF Anchored
<1>7. g < Len(ms)
  BY <1>2, <1>3, <1>4, <1>6 DEF Basic, Nested
<1> HIDE DEF b, g
<1>8. ns \in Seq(Marks) /\ Len(ns) = g + 1 /\ \A m \in 1 .. g + 1 : ns[m] = ms[m]
  BY <1>1, <1>7
<1> HIDE DEF ns
<1>81. ns[g + 1].size = Len(s.journal) /\ ns[g + 1].led = s.led
  <2>1. g + 1 \in 1 .. g + 1
    BY <1>1
  <2> QED
    BY <1>3, <1>8, <2>1
<1>9. ASSUME NEW i \in 1 .. N, NEW m \in 1 .. Len(cs[i].cps)
      PROVE  cs[i].cps[m] \in Nat /\ cs[i].cps[m] <= g
  <2>0. cs[i].cps[m] \in Nat
    BY <1>5
  <2>1. CASE i = N /\ m = Len(c)
    BY <1>1, <1>3, <2>0, <2>1
  <2>2. CASE i < N \/ (i = N /\ m < Len(c))
    <3>1. cs[i].cps[m] < c[Len(c)]
      BY <1>2, <1>4, <1>6, <2>2 DEF Basic, Nested
    <3> QED
      BY <1>1, <1>3, <2>0, <3>1, SMTT(30)
  <2>3. (i = N /\ m = Len(c)) \/ i < N \/ (i = N /\ m < Len(c))
    BY <1>4, <1>5
  <2> QED
    BY <2>1, <2>2, <2>3
<1>10. Nested(ns, cs)
  <2>1. \A i \in 1 .. N : \A m \in 1 .. Len(cs[i].cps) : cs[i].cps[m] < Len(ns)
    <3> TAKE i \in 1 .. N
    <3> TAKE m \in 1 .. Len(cs[i].cps)
    <3>1. cs[i].cps[m] \in Nat /\ cs[i].cps[m] <= g
      BY <1>9
    <3> QED
      BY <1>1, <1>8, <3>1
  <2> QED
    BY <1>2, <2>1 DEF Basic, Nested
<1>11. Rising(ns, b)
  <2>1. \A m \in b + 1 .. g + 1 : m \in b + 1 .. Len(ms) /\ ns[m] = ms[m]
    BY <1>1, <1>7, <1>8
  <2> QED
    BY <1>2, <1>8, <2>1 DEF Basic, Rising
<1>12. ExistsAtMarks(ns, cs) /\ ExistsNow(s.led, cs)
  <2> SUFFICES ASSUME NEW i \in 2 .. N, cs[i].code = "user", Len(cs[i].cps) >= 1
               PROVE  /\ \A m \in cs[i].cps[1] + 1 .. g + 1 : ns[m].led.acct[cs[i].addr].exists
                      /\ s.led.acct[cs[i].addr].exists
    BY <1>8 DEF ExistsAtMarks, ExistsNow
  <2>1. cs[i].cps[1] \in Nat /\ cs[i].cps[1] <= g
    <3>1. i \in 1 .. N /\ 1 \in 1 .. Len(cs[i].cps)
      BY <1>4, <1>5
    <3> QED
      BY <1>9, <3>1
  <2>2. \A m \in cs[i].cps[1] + 1 .. g + 1 :
           m \in cs[i].cps[1] + 1 .. Len(ms) /\ ns[m] = ms[m]
    BY <1>1, <1>7, <1>8, <2>1
  <2>3. \A m \in cs[i].cps[1] + 1 .. Len(ms) : ms[m].led.acct[cs[i].addr].exists
    BY <1>3 DEF ExistsAtMarks
  <2>4. g + 1 \in cs[i].cps[1] + 1 .. g + 1
    BY <1>1, <2>1
  <2> QED
    BY <1>3, <2>2, <2>3, <2>4
<1>13. Explains(s, ns, b, g + 1, Len(s.journal))
  <2> DEFINE n == Len(s.journal)
  <2>1. CASE b = g
    <3> DEFINE h == [i \in Nat |-> s.led]
    <3>1. h \in [Nat -> Solid] /\ h[n] = s.led
      BY <1>1, <1>2 DEF Basic, Sound
    <3>2. ns[g + 1].size = n /\ ns[g + 1].led = s.led
      BY <1>81
    <3>3. \A m \in b + 1 .. g + 1 : m = g + 1
      BY <1>1, <2>1
    <3>4. Unwinds(h, s.journal, ns[b + 1].size, n)
      BY <1>1, <2>1, <3>2 DEF Unwinds
    <3>5. \A m \in b + 1 .. g + 1 : ns[m].size <= n /\ h[ns[m].size] = ns[m].led
      BY <1>1, <3>1, <3>2, <3>3, SMTT(30)
    <3> HIDE DEF h
    <3> QED
      BY <3>1, <3>4, <3>5 DEF Explains
  <2>2. CASE b < g
    <3>1. Explains(s, ms, b, g, n)
      BY <1>3, <2>2 DEF History
    <3>2. PICK h \in [Nat -> Solid] :
            /\ h[n] = s.led
            /\ \A m \in b + 1 .. g : ms[m].size <= n /\ h[ms[m].size] = ms[m].led
            /\ Unwinds(h, s.journal, ms[b + 1].size, n)
      BY <3>1 DEF Explains
    <3>3. ns[b + 1] = ms[b + 1]
      BY <1>1, <1>8, <2>2
    <3>4. ASSUME NEW m \in b + 1 .. g + 1
          PROVE  ns[m].size <= n /\ h[ns[m].size] = ns[m].led
      <4>1. CASE m = g + 1
        BY <1>1, <1>81, <3>2, <4>1
      <4>2. CASE m # g + 1
        <5>1. m \in b + 1 .. g /\ ns[m] = ms[m]
          BY <1>1, <1>8, <4>2
        <5> QED
          BY <3>2, <5>1
      <4> QED
        BY <4>1, <4>2
    <3> QED
      BY <3>2, <3>3, <3>4 DEF Explains
  <2> QED
    BY <1>1, <2>1, <2>2
<1>14. Live(s, ns, cs, b)
  <2>1. b <= Len(ns)
    BY <1>1, <1>8
  <2>2. History(s, ns, b, Len(ns), Len(s.journal))
    BY <1>8, <1>13 DEF History
  <2> QED
    BY <1>2, <1>8, <1>10, <1>11, <1>12, <2>1, <2>2 DEF Live, Basic
<1> QED
  BY <1>1, <1>7, <1>14 DEF ns, g, b

\* revert_checkpoint_done leaves a live state.
LEMMA GoodRevertDone ==
    ASSUME NEW s, NEW ms, NEW cs, NEW r, NEW x, Good(s, ms, cs, "undo", r, x),
           r.cp = r.target
    PROVE  Good(s, SubSeq(ms, 1, r.target), PopCheckpoint(cs), r.next, r, x)
<1> DEFINE b == x.base
           g == r.target
           ns == SubSeq(ms, 1, g + 1)
           os == SubSeq(ms, 1, g)
           ds == PopCheckpoint(cs)
           c == cs[Len(cs)].cps
<1>1. /\ r \in Registers /\ x \in Txns /\ g \in Nat /\ b \in Nat /\ b <= g
      /\ ms \in Seq(Marks) /\ Len(ms) \in Nat
  BY InLoop
<1>2. Undoing(s, ms, cs, r, b)
  BY InLoop
<1>3. g + 1 <= Len(ms) /\ Live(s, ns, cs, b)
  BY LiveReverted
<1>4. Anchored(c, b) /\ g = c[Len(c)]
  BY <1>2 DEF Undoing
<1>5. Len(ns) = g + 1 /\ SubSeq(ns, 1, g) = os
  BY <1>1, <1>3
<1> HIDE DEF ns, os, g, b
<1>6. /\ Live(s, ns, ds, b) /\ Len(ds) = Len(cs) /\ Len(ds[Len(cs)].cps) = Len(c) - 1
      /\ \A i \in 1 .. Len(ds) : \A m \in 1 .. Len(ds[i].cps) : ds[i].cps[m] < g
  BY <1>3, <1>4, LivePopCp DEF Anchored
<1> HIDE DEF ds
<1>7. Live(s, os, ds, b)
  <2>1. b <= g /\ g <= Len(ns)
    BY <1>1, <1>5
  <2>2. Live(s, SubSeq(ns, 1, g), ds, b)
    BY <1>1, <1>6, <2>1, LiveCut
  <2> QED
    BY <1>5, <2>2
<1>8. /\ r.next \in {"user", "terminate", "fault"}
      /\ r.next = "user" => Len(cs) >= 2 /\ Len(c) >= 2
      /\ r.next = "terminate" => Len(cs) >= 2
      /\ r.next = "fault" => Len(cs) = 1
  BY <1>2 DEF Undoing
<1>9. CASE r.next = "user"
  <2>1. Len(c) \in Nat
    <3>1. cs \in Seq(Context) /\ Len(cs) \in 1 .. Len(cs)
      BY <1>3 DEF Live, Stack
    <3> QED
      BY <3>1, CtxTyped
  <2>2. Len(ds) >= 2 /\ Len(ds[Len(ds)].cps) >= 1
    BY <1>6, <1>8, <1>9, <2>1
  <2>3. Good(s, os, ds, "user", r, x)
    BY <1>1, <1>7, <2>2, GoodUser DEF b
  <2> QED
    BY <1>9, <2>3 DEF os, ds, g
<1>10. CASE r.next = "terminate"
  <2>1. Good(s, os, ds, "terminate", r, x)
    BY <1>1, <1>6, <1>7, <1>8, <1>10, GoodTerminate DEF b
  <2> QED
    BY <1>10, <2>1 DEF os, ds, g
<1>11. CASE r.next = "fault"
  <2>1. Basic(s, os, ds, b) /\ InJournal(s, os, b)
    BY <1>7, LiveBasic
  <2>2. r.next \in Bottom
    BY <1>11 DEF Bottom
  <2>3. Good(s, os, ds, r.next, r, x)
    BY <1>1, <1>6, <1>8, <1>11, <2>1, <2>2, GoodBottom DEF b
  <2> QED
    BY <2>3 DEF os, ds, g
<1> QED
  BY <1>8, <1>9, <1>10, <1>11

-----------------------------------------------------------------------------
(* The ways in which a step goes on.                                       *)

\* What holds where a context runs.
LEMMA AtUser ==
    ASSUME KernelInv, pc = "user"
    PROVE  /\ Live(k, marks, ctxs, txn.base) /\ Sound(k)
           /\ rv \in Registers /\ txn \in Txns /\ txn.base \in Nat
           /\ ctxs \in Seq(Context) /\ marks \in Seq(Marks)
           /\ Len(ctxs) >= 2 /\ Len(ctxs) \in Nat
           /\ Len(Top.cps) >= 1 /\ Len(Top.cps) \in Nat /\ Anchored(Top.cps, txn.base)
           /\ Top \in Context /\ Self \in Addr /\ Top.static \in BOOLEAN
           /\ Top.code = "user" => k.led.acct[Self].exists
<1>1. /\ Live(k, marks, ctxs, txn.base) /\ Len(ctxs) >= 2 /\ Len(Top.cps) >= 1
      /\ rv \in Registers /\ txn \in Txns
  BY DEF KernelInv, Good, AtLabel, Executing, Top
<1>2. /\ Sound(k) /\ ctxs \in Seq(Context) /\ marks \in Seq(Marks) /\ txn.base \in Nat
      /\ Len(ctxs) \in Nat /\ Len(ctxs) \in 1 .. Len(ctxs) /\ Len(ctxs) \in 2 .. Len(ctxs)
  BY <1>1 DEF Live
<1>3. /\ Top \in Context /\ Self \in Addr /\ Top.static \in BOOLEAN /\ Len(Top.cps) \in Nat
  BY <1>2, CtxTyped DEF Top, Self
<1>4. Anchored(Top.cps, txn.base)
  <2>1. Len(Top.cps) \in 1 .. Len(Top.cps)
    BY <1>1, <1>3
  <2>2. \A m \in 1 .. Len(Top.cps) : txn.base <= Top.cps[m]
    BY <1>1, <1>2 DEF Live, Stack, Top
  <2> QED
    BY <1>1, <2>1, <2>2 DEF Anchored
<1>5. Top.code = "user" => k.led.acct[Self].exists
  BY <1>1, <1>2 DEF Live, ExistsNow, Top, Self
<1> QED
  BY <1>1, <1>2, <1>3, <1>4, <1>5

\* A system call that returns keeps the invariant.
LEMMA ResumeKeeps ==
    ASSUME KernelInv, pc = "user", NEW s, NEW ms, NEW cs,
           Live(s, ms, cs, txn.base), Len(cs) >= 2, Len(cs[Len(cs)].cps) >= 1,
           Resume(s, ms, cs)
    PROVE  KernelInv'
<1>1. rv \in Registers /\ txn \in Txns
  BY AtUser
<1>2. Good(s, ms, cs, "user", rv, txn)
  BY <1>1, GoodUser
<1>3. k' = s /\ marks' = ms /\ ctxs' = cs /\ pc' = "user" /\ rv' = rv /\ txn' = txn
  BY DEF Resume
<1> QED
  BY <1>2, <1>3 DEF KernelInv

\* A system call that only ran routines that follow.
LEMMA ResumeFollows ==
    ASSUME KernelInv, pc = "user", NEW s, Follows(k, s), Resume(s, marks, ctxs)
    PROVE  KernelInv'
<1>1. Live(s, marks, ctxs, txn.base)
  BY AtUser, LiveFollows
<1>2. Len(ctxs) >= 2 /\ Len(ctxs[Len(ctxs)].cps) >= 1
  BY AtUser DEF Top
<1> QED
  BY <1>1, <1>2, ResumeKeeps

\* A revert to the running context's last checkpoint keeps the invariant.
LEMMA RevertKeeps ==
    ASSUME NEW s, NEW ms, NEW cs, NEW x \in Txns, Live(s, ms, cs, x.base),
           Anchored(cs[Len(cs)].cps, x.base),
           NEW next \in {"user", "terminate", "fault"},
           next = "user" => Len(cs) >= 2 /\ Len(cs[Len(cs)].cps) >= 2,
           next = "terminate" => Len(cs) >= 2,
           next = "fault" => Len(cs) = 1,
           StartRevert(s, ms, cs, next), txn' = x
    PROVE  KernelInv'
<1> DEFINE c == cs[Len(cs)].cps
           r == [target |-> c[Len(c)], cp |-> Len(ms), size |-> Len(s.journal), next |-> next]
<1>1. ~(Len(ms) < c[Len(c)]) /\ Good(s, ms, cs, "undo", r, x)
  BY GoodRevert
<1>2. k' = s /\ marks' = ms /\ ctxs' = cs /\ pc' = "undo" /\ rv' = r
  BY <1>1 DEF StartRevert
<1> HIDE DEF r
<1> QED
  BY <1>1, <1>2 DEF KernelInv

\* fault_exception keeps the invariant.
LEMMA FaultKeeps ==
    ASSUME KernelInv, pc = "user", NEW s, Follows(k, s), fault_exception(s)
    PROVE  KernelInv'
<1>1. Live(s, marks, ctxs, txn.base) /\ txn \in Txns /\ Len(ctxs) >= 2
  BY AtUser, LiveFollows
<1>2. Anchored(ctxs[Len(ctxs)].cps, txn.base)
  BY AtUser DEF Top
<1>3. StartRevert(s, marks, ctxs, "terminate") /\ txn' = txn
  BY DEF fault_exception
<1> DEFINE nx == "terminate"
<1>4. /\ nx \in {"user", "terminate", "fault"} /\ nx # "user" /\ nx # "fault"
      /\ StartRevert(s, marks, ctxs, nx)
  BY <1>3
<1> HIDE DEF nx
<1> QED
  BY <1>1, <1>2, <1>3, <1>4, RevertKeeps

\* enter_new_ctx keeps the invariant.
LEMMA EnterKeeps ==
    ASSUME NEW s, NEW ms, NEW cs, NEW x \in Txns, Live(s, ms, cs, x.base),
           NEW a \in Addr, NEW code \in {"user", "none", "precompile"},
           NEW static \in BOOLEAN, NEW ret,
           MayEnter(cs, x.base, ret),
           ret \in {"create", "txn_create"} => code = "user",
           code = "user" => s.led.acct[a].exists,
           rv \in Registers,
           Enter(s, ms, cs, a, code, static, ret), txn' = x
    PROVE  KernelInv'
<1> DEFINE ns == Append(ms, Mark(s))
           ds == Append(cs, NewCtx(a, code, static, ret, ms))
<1>1. Live(s, ns, ds, x.base) /\ Len(ds) >= 2 /\ Len(ds[Len(ds)].cps) >= 1
  BY LivePush
<1>2. k' = s /\ marks' = ns /\ ctxs' = ds /\ pc' = "user" /\ rv' = rv
  BY DEF Enter
<1> HIDE DEF ns, ds
<1>3. Good(s, ns, ds, "user", rv, x)
  BY <1>1, GoodUser
<1> QED
  BY <1>2, <1>3 DEF KernelInv

\* terminate_common keeps the invariant.
LEMMA TerminateKeeps ==
    ASSUME KernelInv, Live(k, marks, ctxs, txn.base), Len(ctxs) >= 2,
           NEW s, Follows(k, s), NEW ok \in BOOLEAN,
           ok /\ Top.code = "user" => k.led.acct[Self].exists,
           Terminate(s, ok)
    PROVE  KernelInv'
<1> DEFINE N == Len(ctxs)
           ds == SubSeq(ctxs, 1, N - 1)
           x == [txn EXCEPT !.ok = ok, !.callee = Self]
           b == txn.base
<1>1. Live(s, marks, ctxs, b)
  BY LiveFollows
<1>2. Live(s, marks, ds, b) /\ Len(ds) = N - 1 /\ \A i \in 1 .. N - 1 : ds[i] = ctxs[i]
  BY <1>1, LivePopCtx
<1>3. ctxs \in Seq(Context) /\ N \in Nat /\ N \in 1 .. N /\ N \in 2 .. N
  BY DEF Live
<1>4. Self \in Addr
  BY <1>3, CtxTyped DEF Self, Top
<1>5. rv \in Registers /\ txn \in Txns
  BY DEF KernelInv, Good
<1>6. x \in Txns /\ x.base = b /\ x.ok = ok /\ x.callee = Self
  BY <1>4, <1>5 DEF Txns
<1>7. /\ k' = s /\ marks' = marks /\ ctxs' = ds /\ pc' = Top.ret /\ rv' = rv /\ txn' = x
  BY DEF Terminate
<1> HIDE DEF x, ds, b
<1>8. /\ N = 2 => Top.ret \in {"txn_create", "txn_msg"}
      /\ N > 2 => Top.ret \in {"call", "create"}
      /\ Top.ret \in {"create", "txn_create"} => Top.code = "user"
  BY <1>1, <1>3 DEF Live, Stack, Top
<1>9. N = 2 \/ N > 2
  <2> HIDE DEF N
  <2> QED
    BY <1>3
<1>10. Top.ret \in {"call", "create", "txn_create", "txn_msg"}
  BY <1>8, <1>9
<1>11. ASSUME Top.ret \in {"call", "create"}
       PROVE  Len(ds) >= 2 /\ ds[Len(ds)].code = "user" /\ Len(ds[Len(ds)].cps) >= 2
  <2>1. N > 2 /\ N - 1 \in 1 .. N - 1 /\ N - 1 \in 2 .. N /\ N - 1 < N
    BY <1>3, <1>8, <1>9, <1>11
  <2>2. ctxs[N - 1].code = "user" /\ Len(ctxs[N - 1].cps) >= 2
    BY <1>1, <2>1 DEF Live, Stack
  <2>3. Len(ds) >= 2
    BY <1>2, <1>3, <2>1
  <2> QED
    BY <1>2, <2>1, <2>2, <2>3
<1>12. ASSUME Top.ret \in {"txn_create", "txn_msg"}
       PROVE  N = 2 /\ Len(ds) = 1
  <2>1. N = 2
    BY <1>8, <1>9, <1>12
  <2> QED
    BY <1>2, <2>1
<1>13. ASSUME Top.ret = "txn_create"
       PROVE  Anchored(ds[Len(ds)].cps, x.base)
  <2>1. N = 2 /\ Len(ds) = 1 /\ ds[1] = ctxs[1]
    <3>1. N = 2 /\ Len(ds) = 1
      BY <1>12, <1>13
    <3>2. 1 \in 1 .. N - 1
      BY <3>1
    <3> QED
      BY <1>2, <3>1, <3>2
  <2>2. Anchored(ctxs[1].cps, b)
    BY <1>1, <1>13, <2>1 DEF Live, Stack, Top
  <2> QED
    BY <1>6, <2>1, <2>2
<1>14. ASSUME Top.ret \in {"create", "txn_create"}, x.ok
       PROVE  s.led.acct[x.callee].exists
  <2>1. k.led.acct[Self].exists
    BY <1>6, <1>8, <1>14
  <2> QED
    BY <1>4, <1>6, <2>1 DEF Follows
<1>15. Live(s, marks, ds, x.base)
  BY <1>2, <1>6
<1> DEFINE p == Top.ret
<1>16. /\ p \in {"call", "create", "txn_create", "txn_msg"}
       /\ p \in {"call", "create"} =>
             Len(ds) >= 2 /\ ds[Len(ds)].code = "user" /\ Len(ds[Len(ds)].cps) >= 2
       /\ p \in {"txn_create", "txn_msg"} => Len(ds) = 1
       /\ p = "txn_create" => Anchored(ds[Len(ds)].cps, x.base)
       /\ p \in {"create", "txn_create"} /\ x.ok => s.led.acct[x.callee].exists
  BY <1>10, <1>11, <1>12, <1>13, <1>14
<1> HIDE DEF p
<1>17. Good(s, marks, ds, p, rv, x)
  BY <1>5, <1>6, <1>15, <1>16, GoodReturn
<1> QED
  BY <1>7, <1>17 DEF KernelInv, p

-----------------------------------------------------------------------------
(* System calls.                                                           *)

\* One lemma per system call: sys_sstore,
LEMMA SStoreKeeps ==
    ASSUME KernelInv, NEW i \in Slot, NEW v \in Vals, sys_sstore(i, v)
    PROVE  KernelInv'
<1> DEFINE s == insert_accessed_storage_keys(k, Self, i)
<1>1. pc = "user" /\ Top.code = "user"
  BY DEF sys_sstore, Running
<1>2. Sound(k) /\ Self \in Addr /\ k.led.acct[Self].exists /\ v \in Val
  BY <1>1, AtUser, KernelAssumption DEF Val
<1>3. Follows(k, s)
  BY <1>2, KeyLoadedFollows
<1>4. Resume(SStore(s, Self, i, v), marks, ctxs) \/ fault_exception(s)
  BY DEF sys_sstore
<1> HIDE DEF s
<1>5. Sound(s) /\ s.led.acct[Self].exists
  BY <1>2, <1>3 DEF Follows
<1>6. Follows(s, SStore(s, Self, i, v))
  BY <1>2, <1>5, SStoreFollows
<1>7. Follows(k, SStore(s, Self, i, v))
  BY <1>2, <1>3, <1>6, FollowsTrans
<1>8. CASE Resume(SStore(s, Self, i, v), marks, ctxs)
  BY <1>1, <1>7, <1>8, ResumeFollows
<1>9. CASE fault_exception(s)
  BY <1>1, <1>3, <1>9, FaultKeeps
<1> QED
  BY <1>4, <1>8, <1>9

\* sys_sload,
LEMMA SLoadKeeps ==
    ASSUME KernelInv, NEW i \in Slot, sys_sload(i)
    PROVE  KernelInv'
<1> DEFINE s == insert_accessed_storage_keys(k, Self, i)
<1>1. pc = "user"
  BY DEF sys_sload, Running
<1>2. Follows(k, s)
  BY <1>1, AtUser, KeyLoadedFollows
<1>3. Resume(s, marks, ctxs) \/ fault_exception(s)
  BY DEF sys_sload
<1> HIDE DEF s
<1> QED
  BY <1>1, <1>2, <1>3, ResumeFollows, FaultKeeps

\* sys_tstore,
LEMMA TStoreKeeps ==
    ASSUME KernelInv, NEW i \in Slot, NEW v \in Vals, sys_tstore(i, v)
    PROVE  KernelInv'
<1>1. pc = "user" /\ Resume(TStore(k, Self, i, v), marks, ctxs)
  BY DEF sys_tstore, Running
<1>2. Sound(k) /\ Self \in Addr /\ v \in Val
  BY <1>1, AtUser, KernelAssumption DEF Val
<1>3. Follows(k, TStore(k, Self, i, v))
  BY <1>2, TStoreFollows
<1> QED
  BY <1>1, <1>3, ResumeFollows

\* sys_log0 .. sys_log4,
LEMMA LogKeeps ==
    ASSUME KernelInv, NEW n \in {0, 1}, sys_log(n)
    PROVE  KernelInv'
<1>1. pc = "user" /\ Resume(log_n(k, n), marks, ctxs)
  BY DEF sys_log, Running
<1>2. Sound(k) /\ n \in Nat
  BY <1>1, AtUser
<1>3. Follows(k, log_n(k, n))
  BY <1>2, LogFollows
<1> QED
  BY <1>1, <1>3, ResumeFollows

\* sys_balance and its siblings,
LEMMA BalanceKeeps ==
    ASSUME KernelInv, NEW a \in Addr, sys_balance(a)
    PROVE  KernelInv'
<1> DEFINE s == insert_accessed_addresses(k, a)
<1>1. pc = "user"
  BY DEF sys_balance, Running
<1>2. Follows(k, s)
  BY <1>1, AtUser, LoadedFollows
<1>3. Resume(s, marks, ctxs) \/ fault_exception(s)
  BY DEF sys_balance
<1> HIDE DEF s
<1> QED
  BY <1>1, <1>2, <1>3, ResumeFollows, FaultKeeps

\* an exception,
LEMMA FaultStepKeeps ==
    ASSUME KernelInv, Fault \/ sys_revert
    PROVE  KernelInv'
<1>1. pc = "user" /\ fault_exception(k)
  BY DEF Fault, sys_revert
<1>2. Follows(k, k)
  BY <1>1, AtUser, FollowsRefl
<1> QED
  BY <1>1, <1>2, FaultKeeps

\* sys_stop and sys_revert,
LEMMA StopKeeps ==
    ASSUME KernelInv, sys_stop
    PROVE  KernelInv'
<1>1. pc = "user" /\ Terminate(k, TRUE)
  BY DEF sys_stop
<1>2. /\ Live(k, marks, ctxs, txn.base) /\ Len(ctxs) >= 2 /\ Sound(k)
      /\ Top.code = "user" => k.led.acct[Self].exists
  BY <1>1, AtUser
<1>3. Follows(k, k)
  BY <1>2, FollowsRefl
<1> DEFINE ok == TRUE
<1>4. ok \in BOOLEAN /\ Terminate(k, ok)
  BY <1>1
<1> HIDE DEF ok
<1> QED
  BY <1>2, <1>3, <1>4, TerminateKeeps

\* the end of a failed context,
LEMMA TerminateFailedKeeps ==
    ASSUME KernelInv, TerminateFailed
    PROVE  KernelInv'
<1>1. pc = "terminate" /\ Terminate(k, FALSE)
  BY DEF TerminateFailed
<1>2. Live(k, marks, ctxs, txn.base) /\ Len(ctxs) >= 2 /\ Sound(k)
  BY <1>1 DEF KernelInv, Good, AtLabel, Executing, Live
<1>3. Follows(k, k)
  BY <1>2, FollowsRefl
<1> DEFINE ok == FALSE
<1>4. ok \in BOOLEAN /\ Terminate(k, ok) /\ ~ok
  BY <1>1
<1> HIDE DEF ok
<1> QED
  BY <1>2, <1>3, <1>4, TerminateKeeps

\* and sys_selfdestruct.
LEMMA SelfdestructKeeps ==
    ASSUME KernelInv, NEW r \in Addr, sys_selfdestruct(r)
    PROVE  KernelInv'
<1> DEFINE s == insert_accessed_addresses(k, r)
           t == Selfdestruct(s, Self, r)
<1>1. pc = "user" /\ Top.code = "user"
  BY DEF sys_selfdestruct, Running
<1>2. /\ Live(k, marks, ctxs, txn.base) /\ Len(ctxs) >= 2 /\ Sound(k)
      /\ k.led.acct[Self].exists /\ Self \in Addr
  BY <1>1, AtUser
<1>3. Follows(k, s)
  BY <1>2, LoadedFollows
<1>4. Terminate(t, TRUE) \/ fault_exception(s)
  BY <1>2 DEF sys_selfdestruct
<1> HIDE DEF s
<1>5. Sound(s) /\ s.led.acct[Self].exists
  BY <1>2, <1>3 DEF Follows
<1>6. Follows(s, t)
  BY <1>2, <1>5, SelfdestructFollows
<1> HIDE DEF t
<1>7. Follows(k, t)
  BY <1>2, <1>3, <1>6, FollowsTrans
<1> DEFINE ok == TRUE
<1>8. CASE Terminate(t, ok)
  <2>1. ok \in BOOLEAN
    OBVIOUS
  <2> HIDE DEF ok
  <2> QED
    BY <1>2, <1>7, <1>8, <2>1, TerminateKeeps
<1>9. CASE fault_exception(s)
  BY <1>1, <1>3, <1>9, FaultKeeps
<1> QED
  BY <1>4, <1>8, <1>9

\* A system call that takes a checkpoint.
LEMMA CheckpointInUser ==
    ASSUME KernelInv, pc = "user", Top.code = "user", NEW s, Follows(k, s)
    PROVE  LET cs == WithCheckpoint(ctxs, marks) IN
           /\ Live(s, Append(marks, Mark(s)), cs, txn.base)
           /\ Len(cs) >= 2 /\ cs[Len(cs)].code = "user" /\ Len(cs[Len(cs)].cps) >= 2
           /\ Anchored(cs[Len(cs)].cps, txn.base)
<1> DEFINE cs == WithCheckpoint(ctxs, marks)
           c == Top.cps
           N == Len(ctxs)
           b == txn.base
<1>1. /\ Live(s, marks, ctxs, b) /\ N >= 2 /\ Len(c) >= 1 /\ Len(c) \in Nat
      /\ b \in Nat
  BY AtUser, LiveFollows
<1>2. N = 1 \/ Len(ctxs[N].cps) >= 1
  BY <1>1 DEF Top
<1> HIDE DEF b
<1>3. /\ Live(s, Append(marks, Mark(s)), cs, b) /\ Len(cs) = N
      /\ cs[N].code = ctxs[N].code
      /\ Len(cs[N].cps) = Len(ctxs[N].cps) + 1
      /\ cs[N].cps[Len(ctxs[N].cps) + 1] = Len(marks)
  <2>1. Live(s, Append(marks, Mark(s)), cs, b)
    BY <1>1, <1>2, LiveCheckpoint
  <2>2. ctxs \in Seq(Context) /\ Len(ctxs) >= 1 /\ marks \in Seq(Marks)
    BY AtUser
  <2> QED
    BY <2>1, <2>2, WithCheckpointIs
<1>4. b <= Len(marks) /\ ctxs[N] = Top
  BY <1>1 DEF Live, Top
<1> HIDE DEF cs, N
<1>5. Len(cs[N].cps) = Len(c) + 1 /\ cs[N].cps[Len(c) + 1] = Len(marks) /\ cs[N].code = "user"
  BY <1>3, <1>4
<1>6. Anchored(cs[N].cps, b) /\ Len(cs[N].cps) >= 2
  <2>1. Len(cs[N].cps) >= 2
    BY <1>1, <1>5
  <2>2. b <= cs[N].cps[Len(cs[N].cps)]
    BY <1>4, <1>5
  <2> QED
    BY <2>1, <2>2 DEF Anchored
<1> QED
  BY <1>1, <1>3, <1>5, <1>6 DEF cs, b

\* The value of a call that can be paid.
LEMMA CallFollows ==
    ASSUME NEW s, Sound(s), NEW self \in Addr, NEW a \in Addr, NEW v \in Nat, NEW kind,
           kind \in {"call", "callcode"} => ~CannotPay(s, self, v)
    PROVE  Follows(s, CASE kind = "call"     -> TransferAndJournal(s, self, a, v)
                        [] kind = "callcode" -> transfer_eth(s, self, self, v)
                        [] OTHER             -> s)
<1>1. s.led.acct[self].balance \in Int
  BY DEF Sound, Kernels, Ledgers, Account
<1>2. kind \in {"call", "callcode"} =>
         s.led.acct[self].exists /\ s.led.acct[self].balance >= v
  BY <1>1 DEF CannotPay
<1>3. CASE kind = "call"
  <2>1. Follows(s, TransferAndJournal(s, self, a, v))
    BY <1>2, <1>3, TransferFollows
  <2> QED
    BY <1>3, <2>1
<1>4. CASE kind = "callcode"
  <2>1. Follows(s, transfer_eth(s, self, self, v))
    BY <1>2, <1>4, SelfTransferFollows
  <2> QED
    BY <1>4, <2>1
<1>5. CASE kind # "call" /\ kind # "callcode"
  <2>1. Follows(s, s)
    BY FollowsRefl
  <2> QED
    BY <1>5, <2>1
<1> QED
  BY <1>3, <1>4, <1>5

\* The kinds of code a called context can run.
LEMMA CodeOfIs ==
    ASSUME NEW L \in Solid, NEW a \in Addr
    PROVE  /\ CodeOf(L, a) \in {"user", "none", "precompile"}
           /\ CodeOf(L, a) = "user" => L.acct[a].exists
BY DEF CodeOf, Solid, NoAccount

\* The four calls keep the invariant.
LEMMA CallKeeps ==
    ASSUME KernelInv, NEW kind \in CallKinds, NEW a \in Addr, NEW v \in Amounts,
           sys_call(kind, a, v)
    PROVE  KernelInv'
<1> DEFINE s1 == insert_accessed_addresses(k, a)
           ms == Append(marks, Mark(s1))
           cs == WithCheckpoint(ctxs, marks)
           own == kind \in {"callcode", "delegatecall"}
           to == IF own THEN Self ELSE a
           s2 == insert_touched_addresses(s1, to)
           s3 == CASE kind = "call"     -> TransferAndJournal(s2, Self, a, v)
                   [] kind = "callcode" -> transfer_eth(s2, Self, Self, v)
                   [] OTHER             -> s2
           static == Top.static \/ kind = "staticcall"
           b == txn.base
<1>1. pc = "user" /\ Top.code = "user" /\ MakeCall(kind, a, v)
  BY DEF sys_call, Running
<1>2. /\ Sound(k) /\ Self \in Addr /\ k.led.acct[Self].exists /\ v \in Nat
      /\ rv \in Registers /\ txn \in Txns /\ static \in BOOLEAN /\ to \in Addr
  BY <1>1, AtUser, KernelAssumption
<1>3. Follows(k, s1)
  BY <1>2, LoadedFollows
<1>4. \/ fault_exception(s1)
      \/ Resume(s1, marks, ctxs)
      \/ /\ kind \in {"call", "callcode"} /\ CannotPay(s2, Self, v)
         /\ Resume(insert_touched_addresses(s2, Self), ms, cs)
      \/ /\ ~(kind \in {"call", "callcode"} /\ CannotPay(s2, Self, v))
         /\ Enter(s3, ms, cs, to, CodeOf(s3.led, a), static, "call") /\ txn' = txn
  BY <1>1 DEF MakeCall
<1>5. /\ Live(s1, ms, cs, b) /\ Len(cs) >= 2 /\ cs[Len(cs)].code = "user"
      /\ Len(cs[Len(cs)].cps) >= 2
  BY <1>1, <1>3, CheckpointInUser
<1> HIDE DEF s1, ms, cs
<1>6. Sound(s1) /\ Follows(s1, s2)
  BY <1>2, <1>3, TouchedFollows DEF Follows
<1> HIDE DEF s2
<1>7. Live(s2, ms, cs, b) /\ Sound(s2)
  BY <1>5, <1>6, LiveFollows DEF Follows
<1>8. CASE fault_exception(s1)
  BY <1>1, <1>3, <1>8, FaultKeeps
<1>9. CASE Resume(s1, marks, ctxs)
  BY <1>1, <1>3, <1>9, ResumeFollows
<1>10. CASE Resume(insert_touched_addresses(s2, Self), ms, cs)
  <2> DEFINE t == insert_touched_addresses(s2, Self)
  <2>1. Follows(s2, t) /\ Resume(t, ms, cs)
    BY <1>2, <1>7, <1>10, TouchedFollows
  <2> HIDE DEF t
  <2>2. Live(t, ms, cs, b)
    BY <1>7, <2>1, LiveFollows
  <2> QED
    BY <1>1, <1>5, <2>1, <2>2, ResumeKeeps
<1>11. CASE /\ ~(kind \in {"call", "callcode"} /\ CannotPay(s2, Self, v))
            /\ Enter(s3, ms, cs, to, CodeOf(s3.led, a), static, "call") /\ txn' = txn
  <2>1. Follows(s2, s3)
    BY <1>2, <1>7, <1>11, CallFollows
  <2> HIDE DEF s3, static
  <2>2. Live(s3, ms, cs, b) /\ s3.led \in Solid
    BY <1>7, <2>1, LiveFollows DEF Follows, Sound
  <2> DEFINE code == CodeOf(s3.led, a)
             ret == "call"
  <2>3. code \in {"user", "none", "precompile"} /\ (code = "user" => s3.led.acct[a].exists)
    BY <2>2, CodeOfIs
  <2>4. s3.led.acct[Self].exists
    BY <1>2, <1>3, <1>6, <2>1 DEF Follows
  <2>5. code = "user" => s3.led.acct[to].exists
    BY <2>3, <2>4
  <2>6. MayEnter(cs, b, ret) /\ ret \notin {"create", "txn_create"}
    BY <1>5 DEF MayEnter
  <2>7. Enter(s3, ms, cs, to, code, static, ret) /\ txn' = txn
    BY <1>11
  <2> HIDE DEF code, ret, to
  <2> QED
    BY <1>2, <2>2, <2>3, <2>5, <2>6, <2>7, EnterKeeps
<1> QED
  BY <1>4, <1>8, <1>9, <1>10, <1>11

\* The accounts after increment_nonce.
LEMMA IncrementNonceIs ==
    ASSUME NEW s, Sound(s), NEW a \in Addr
    PROVE  /\ increment_nonce(s, a).led.acct[a].balance = s.led.acct[a].balance
           /\ increment_nonce(s, a).led.acct[a].nonce = s.led.acct[a].nonce + 1
           /\ \A b \in Addr : b # a =>
                 increment_nonce(s, a).led.acct[b] = s.led.acct[b]
<1> DEFINE n == s.led.acct[a].nonce
           L == [s.led EXCEPT !.acct[a].nonce = n + 1]
<1>1. increment_nonce(s, a).led = L
  BY DEF increment_nonce, Record, Sound, Kernels
<1>2. s.led \in Ledgers
  BY DEF Sound, Kernels
<1>3. /\ L.acct[a].balance = s.led.acct[a].balance /\ L.acct[a].nonce = n + 1
      /\ \A b \in Addr : b # a => L.acct[b] = s.led.acct[b]
  BY <1>2 DEF Ledgers, Account
<1> QED
  BY <1>1, <1>3

\* sys_create and sys_create2 keep the invariant.
LEMMA CreateKeeps ==
    ASSUME KernelInv, NEW a \in Addr, NEW v \in Amounts, sys_create(a, v)
    PROVE  KernelInv'
<1> DEFINE s1 == insert_accessed_addresses(k, a)
           s2 == increment_nonce(s1, Self)
           ms == Append(marks, Mark(s2))
           cs == WithCheckpoint(ctxs, marks)
           u == TransferAndJournal(s2, Self, a, v)
           s3 == AppendCreated(u, a)
           b == txn.base
<1>1. pc = "user" /\ Top.code = "user"
  BY DEF sys_create, Running
<1>2. /\ Sound(k) /\ Self \in Addr /\ k.led.acct[Self].exists /\ v \in Nat
      /\ rv \in Registers /\ txn \in Txns /\ k.led.acct[Self].balance \in Int
  <2>1. Sound(k) /\ Self \in Addr
    BY <1>1, AtUser
  <2>2. k.led.acct[Self].balance \in Int
    BY <2>1 DEF Sound, Kernels, Ledgers, Account
  <2> QED
    BY <1>1, <2>1, <2>2, AtUser, KernelAssumption
<1>3. Follows(k, s1) /\ s1.led.acct = k.led.acct
  BY <1>2, LoadedFollows, LoadedIs
<1>4. \/ CreateRefused(v) /\ Resume(s1, marks, ctxs)
      \/ ~CreateRefused(v) /\ Collides(s3, a) /\ StartRevert(s3, ms, cs, "user") /\ txn' = txn
      \/ /\ ~CreateRefused(v) /\ ~Collides(s3, a)
         /\ Enter(InsertContract(s3, a), ms, cs, a, "user", FALSE, "create") /\ txn' = txn
  BY <1>2 DEF sys_create
<1> HIDE DEF s1
<1>5. CASE CreateRefused(v) /\ Resume(s1, marks, ctxs)
  BY <1>1, <1>3, <1>5, ResumeFollows
<1>6. ASSUME ~CreateRefused(v)
      PROVE  /\ Live(s3, ms, cs, b) /\ Sound(s3) /\ Len(cs) >= 2 /\ cs[Len(cs)].code = "user"
             /\ Len(cs[Len(cs)].cps) >= 2 /\ Anchored(cs[Len(cs)].cps, b)
  <2>1. Sound(s1) /\ s1.led.acct[Self].exists
    BY <1>2, <1>3 DEF Follows
  <2>2. Follows(s1, s2)
    BY <1>2, <2>1, IncrementNonceFollows
  <2>3. Follows(k, s2)
    BY <1>2, <1>3, <2>2, FollowsTrans
  <2>4. s2.led.acct[Self].balance = k.led.acct[Self].balance
    BY <1>2, <1>3, <2>1, IncrementNonceIs
  <2> HIDE DEF s2
  <2>5. Sound(s2) /\ s2.led.acct[Self].exists /\ s2.led.acct[Self].balance >= v
    BY <1>2, <1>6, <2>3, <2>4 DEF Follows, CreateRefused
  <2>6. /\ Live(s2, ms, cs, b) /\ Len(cs) >= 2 /\ cs[Len(cs)].code = "user"
        /\ Len(cs[Len(cs)].cps) >= 2 /\ Anchored(cs[Len(cs)].cps, b)
    BY <1>1, <2>3, CheckpointInUser
  <2>7. Follows(s2, u)
    BY <1>2, <2>5, TransferFollows
  <2> HIDE DEF u, ms, cs
  <2>8. Sound(u) /\ Follows(u, s3)
    BY <2>7, AppendCreatedFollows DEF Follows
  <2> HIDE DEF s3
  <2>9. Live(u, ms, cs, b)
    BY <2>6, <2>7, LiveFollows
  <2>10. Live(s3, ms, cs, b) /\ Sound(s3)
    BY <2>8, <2>9, LiveFollows DEF Follows
  <2> QED
    BY <2>6, <2>10
<1> HIDE DEF ms, cs, s3
<1>7. CASE ~CreateRefused(v) /\ StartRevert(s3, ms, cs, "user") /\ txn' = txn
  <2> DEFINE nx == "user"
  <2>1. nx \in {"user", "terminate", "fault"} /\ nx # "terminate" /\ nx # "fault"
        /\ StartRevert(s3, ms, cs, nx)
    BY <1>7
  <2> HIDE DEF nx
  <2> QED
    BY <1>2, <1>6, <1>7, <2>1, RevertKeeps
<1>8. CASE /\ ~CreateRefused(v) /\ ~Collides(s3, a)
           /\ Enter(InsertContract(s3, a), ms, cs, a, "user", FALSE, "create") /\ txn' = txn
  <2> DEFINE t == InsertContract(s3, a)
             code == "user"
             ret == "create"
             static == FALSE
  <2>1. Follows(s3, t) /\ t.led.acct[a].exists
    BY <1>6, <1>8, InsertContractFollows
  <2> HIDE DEF t
  <2>2. Live(t, ms, cs, b)
    BY <1>6, <1>8, <2>1, LiveFollows
  <2>3. MayEnter(cs, b, ret) /\ code \in {"user", "none", "precompile"} /\ code = "user"
        /\ static \in BOOLEAN
    BY <1>6, <1>8 DEF MayEnter
  <2>4. Enter(t, ms, cs, a, code, static, ret) /\ txn' = txn
    BY <1>8 DEF t
  <2> HIDE DEF code, ret, static
  <2> QED
    BY <1>2, <2>1, <2>2, <2>3, <2>4, EnterKeeps
<1> QED
  BY <1>4, <1>5, <1>7, <1>8

-----------------------------------------------------------------------------
(* The revert loop and the continuations.                                  *)

\* The revert loop keeps the invariant.
LEMMA LoopKeeps ==
    ASSUME KernelInv, UndoEntry \/ BatchDone \/ RevertDone
    PROVE  KernelInv'
<1>1. pc = "undo" /\ Good(k, marks, ctxs, "undo", rv, txn)
  BY DEF KernelInv, UndoEntry, BatchDone, RevertDone
<1>2. CASE UndoEntry
  <2> DEFINE e == k.journal[rv.size]
             t == [k EXCEPT !.led = Undo(e, @), !.created = UndoCreated(e, @),
                            !.destroyed = UndoDestroyed(e, @)]
             q == [rv EXCEPT !.size = @ - 1]
  <2>1. rv.cp # rv.target /\ rv.size # marks[rv.cp].size
    BY <1>2 DEF UndoEntry
  <2>2. /\ rv.size > marks[rv.cp].size /\ CanUndo(e, k.led)
        /\ Good(t, marks, ctxs, "undo", q, txn)
    BY <1>1, <2>1, GoodUndoEntry
  <2>3. k' = t /\ rv' = q /\ marks' = marks /\ ctxs' = ctxs /\ pc' = "undo" /\ txn' = txn
    BY <1>1, <1>2, <2>2 DEF UndoEntry
  <2> HIDE DEF t, q
  <2> QED
    BY <2>2, <2>3 DEF KernelInv
<1>3. CASE BatchDone
  <2> DEFINE t == [k EXCEPT !.journal = SubSeq(@, 1, rv.size)]
             q == [rv EXCEPT !.cp = @ - 1]
  <2>1. rv.cp # rv.target /\ rv.size = marks[rv.cp].size
    BY <1>3 DEF BatchDone
  <2>2. Good(t, marks, ctxs, "undo", q, txn)
    BY <1>1, <2>1, GoodBatchDone
  <2>3. k' = t /\ rv' = q /\ marks' = marks /\ ctxs' = ctxs /\ pc' = "undo" /\ txn' = txn
    BY <1>1, <1>3 DEF BatchDone
  <2> HIDE DEF t, q
  <2> QED
    BY <2>2, <2>3 DEF KernelInv
<1>4. CASE RevertDone
  <2> DEFINE ns == SubSeq(marks, 1, rv.target)
             ds == PopCheckpoint(ctxs)
  <2>1. rv.cp = rv.target
    BY <1>4 DEF RevertDone
  <2>2. Good(k, ns, ds, rv.next, rv, txn)
    BY <1>1, <2>1, GoodRevertDone
  <2>3. k' = k /\ rv' = rv /\ marks' = ns /\ ctxs' = ds /\ pc' = rv.next /\ txn' = txn
    BY <1>4 DEF RevertDone
  <2> HIDE DEF ns, ds
  <2> QED
    BY <2>2, <2>3 DEF KernelInv
<1> QED
  BY <1>2, <1>3, <1>4

\* The parent of a call or a creation that has ended.
LEMMA AtParent ==
    ASSUME KernelInv, pc \in {"call", "create"}
    PROVE  /\ Live(k, marks, ctxs, txn.base) /\ Sound(k) /\ Len(ctxs) >= 2
           /\ rv \in Registers /\ txn \in Txns
           /\ ctxs[Len(ctxs)].code = "user" /\ Len(ctxs[Len(ctxs)].cps) >= 2
           /\ Len(ctxs[Len(ctxs)].cps) \in Nat
           /\ Anchored(ctxs[Len(ctxs)].cps, txn.base)
<1> DEFINE N == Len(ctxs)
           c == ctxs[N].cps
<1>1. /\ Live(k, marks, ctxs, txn.base) /\ N >= 2 /\ rv \in Registers /\ txn \in Txns
      /\ ctxs[N].code = "user" /\ Len(c) >= 2
  BY DEF KernelInv, Good, AtLabel, Executing
<1>2. ctxs \in Seq(Context) /\ N \in 1 .. N /\ N \in 2 .. N /\ Sound(k)
  BY <1>1 DEF Live
<1>3. Len(c) \in Nat
  BY <1>2, CtxTyped
<1>4. \A m \in 1 .. Len(c) : txn.base <= c[m]
  BY <1>1, <1>2 DEF Live, Stack
<1>5. Len(c) \in 1 .. Len(c)
  BY <1>1, <1>3
<1>6. Anchored(c, txn.base)
  BY <1>1, <1>3, <1>4, <1>5 DEF Anchored
<1> QED
  BY <1>1, <1>2, <1>3, <1>6

\* The checkpoint of the call or creation is dropped, or reverted to.
LEMMA ParentPops ==
    ASSUME KernelInv, pc \in {"call", "create"}, NEW s, Follows(k, s),
           k' = s, marks' = marks, ctxs' = PopCheckpoint(ctxs), pc' = "user", rv' = rv,
           txn' = txn
    PROVE  KernelInv'
<1> DEFINE ds == PopCheckpoint(ctxs)
           c == ctxs[Len(ctxs)].cps
<1>1. /\ Live(s, marks, ctxs, txn.base) /\ Len(ctxs) >= 2 /\ rv \in Registers /\ txn \in Txns
      /\ Len(c) >= 2 /\ Len(c) \in Nat
  BY AtParent, LiveFollows
<1>2. Len(c) >= 1
  BY <1>1
<1>3. /\ Live(s, marks, ds, txn.base) /\ Len(ds) = Len(ctxs)
      /\ Len(ds[Len(ctxs)].cps) = Len(c) - 1
  BY <1>1, <1>2, LivePopCp
<1> HIDE DEF ds
<1>4. Len(ds) >= 2 /\ Len(ds[Len(ds)].cps) >= 1
  BY <1>1, <1>3
<1>5. Good(s, marks, ds, "user", rv, txn)
  BY <1>1, <1>3, <1>4, GoodUser
<1> QED
  BY <1>5 DEF KernelInv, ds

\* The parent of a failed context can revert to the call's checkpoint.
LEMMA ParentReverts ==
    ASSUME KernelInv, pc \in {"call", "create"},
           StartRevert(k, marks, ctxs, "user"), txn' = txn
    PROVE  KernelInv'
<1>1. /\ Live(k, marks, ctxs, txn.base) /\ Len(ctxs) >= 2 /\ txn \in Txns
      /\ Len(ctxs[Len(ctxs)].cps) >= 2 /\ Anchored(ctxs[Len(ctxs)].cps, txn.base)
  BY AtParent
<1> DEFINE nx == "user"
<1>2. nx \in {"user", "terminate", "fault"} /\ nx # "terminate" /\ nx # "fault"
      /\ StartRevert(k, marks, ctxs, nx)
  OBVIOUS
<1> HIDE DEF nx
<1> QED
  BY <1>1, <1>2, RevertKeeps

\* after_call_instruction keeps the invariant.
LEMMA AfterCallKeeps ==
    ASSUME KernelInv, after_call_instruction
    PROVE  KernelInv'
<1>1. pc \in {"call", "create"}
  BY DEF after_call_instruction
<1>2. Follows(k, k)
  BY <1>1, AtParent, FollowsRefl
<1>3. CASE txn.ok
  BY <1>1, <1>2, <1>3, ParentPops DEF after_call_instruction
<1>4. CASE ~txn.ok
  BY <1>1, <1>4, ParentReverts DEF after_call_instruction
<1> QED
  BY <1>3, <1>4

\* after_constructor keeps the invariant.
LEMMA AfterConstructorKeeps ==
    ASSUME KernelInv, after_constructor
    PROVE  KernelInv'
<1>1. pc = "create" /\ pc \in {"call", "create"}
  BY DEF after_constructor
<1>2. CASE StartRevert(k, marks, ctxs, "user") /\ txn' = txn
  BY <1>1, <1>2, ParentReverts
<1>3. CASE /\ txn.ok
           /\ \E c \in Codes : k' = set_codehash(k, txn.callee, c)
           /\ ctxs' = PopCheckpoint(ctxs)
           /\ pc' = "user"
           /\ UNCHANGED <<marks, rv, txn>>
  <2>1. Sound(k) /\ txn.callee \in Addr /\ k.led.acct[txn.callee].exists
    <3>1. Sound(k) /\ txn \in Txns
      BY <1>1, AtParent
    <3>2. k.led.acct[txn.callee].exists
      BY <1>1, <1>3 DEF KernelInv, Good, AtLabel
    <3> QED
      BY <3>1, <3>2 DEF Txns
  <2>2. PICK c \in Codes : k' = set_codehash(k, txn.callee, c)
    BY <1>3
  <2>3. Follows(k, set_codehash(k, txn.callee, c))
    BY <2>1, SetCodehashFollows
  <2> QED
    BY <1>1, <1>3, <2>2, <2>3, ParentPops
<1> QED
  BY <1>2, <1>3 DEF after_constructor

\* process_contract_creation_txn_after_constructor keeps the invariant.
LEMMA AfterCreationTxnKeeps ==
    ASSUME KernelInv, process_contract_creation_txn_after_constructor
    PROVE  KernelInv'
<1>1. pc = "txn_create"
  BY DEF process_contract_creation_txn_after_constructor
<1>2. /\ Live(k, marks, ctxs, txn.base) /\ Len(ctxs) = 1 /\ rv \in Registers /\ txn \in Txns
      /\ Anchored(ctxs[Len(ctxs)].cps, txn.base)
      /\ txn.ok => k.led.acct[txn.callee].exists
  BY <1>1 DEF KernelInv, Good, AtLabel, Executing
<1>3. CASE StartRevert(k, marks, ctxs, "fault") /\ txn' = txn
  <2> DEFINE nx == "fault"
  <2>1. nx \in {"user", "terminate", "fault"} /\ nx # "terminate" /\ nx # "user"
        /\ StartRevert(k, marks, ctxs, nx)
    BY <1>3
  <2> HIDE DEF nx
  <2> QED
    BY <1>2, <1>3, <2>1, RevertKeeps
<1>4. CASE /\ txn.ok
           /\ \E c \in Codes : k' = set_codehash(k, txn.callee, c)
           /\ pc' = "finish"
           /\ UNCHANGED <<marks, ctxs, rv, txn>>
  <2>1. Sound(k) /\ txn.callee \in Addr
    BY <1>2 DEF Live, Txns
  <2>2. PICK c \in Codes : k' = set_codehash(k, txn.callee, c)
    BY <1>4
  <2> DEFINE s == set_codehash(k, txn.callee, c)
             p == "finish"
  <2>3. Follows(k, s)
    BY <1>2, <1>4, <2>1, SetCodehashFollows
  <2>4. k' = s
    BY <2>2
  <2> HIDE DEF s
  <2>5. Live(s, marks, ctxs, txn.base)
    BY <1>2, <2>3, LiveFollows
  <2>6. Basic(s, marks, ctxs, txn.base) /\ InJournal(s, marks, txn.base)
    BY <2>5, LiveBasic
  <2>7. p \in Bottom /\ pc' = p
    BY <1>4 DEF Bottom
  <2> HIDE DEF p
  <2>8. Good(s, marks, ctxs, p, rv, txn)
    BY <1>2, <2>6, <2>7, GoodBottom
  <2> QED
    BY <1>4, <2>4, <2>7, <2>8 DEF KernelInv
<1> QED
  BY <1>3, <1>4 DEF process_contract_creation_txn_after_constructor

\* So does a creation transaction that has been reverted.
LEMMA ContractCreationFaultKeeps ==
    ASSUME KernelInv, ContractCreationFault
    PROVE  KernelInv'
<1> DEFINE x == [txn EXCEPT !.ok = FALSE]
           p == "finish"
<1>1. /\ pc = "fault" /\ k' = k /\ marks' = marks /\ ctxs' = ctxs /\ rv' = rv /\ txn' = x
      /\ pc' = p
  BY DEF ContractCreationFault
<1>2. /\ Basic(k, marks, ctxs, txn.base) /\ rv \in Registers /\ txn \in Txns
      /\ Len(ctxs) = 1 /\ InJournal(k, marks, txn.base)
  BY <1>1 DEF KernelInv, Good, AtLabel, Bottom
<1>3. x \in Txns /\ x.base = txn.base
  BY <1>2 DEF Txns
<1>4. p \in Bottom
  BY DEF Bottom
<1> HIDE DEF x, p
<1>5. Good(k, marks, ctxs, p, rv, x)
  BY <1>2, <1>3, <1>4, GoodBottom
<1> QED
  BY <1>1, <1>5 DEF KernelInv

-----------------------------------------------------------------------------
(* The beginning and the end of a transaction.                             *)

\* transfer_eth never shortens the journal.
LEMMA TransferGrows ==
    ASSUME NEW s, Sound(s), NEW from \in Addr, NEW to \in Addr, NEW v \in Nat,
           s.led.acct[from].exists, s.led.acct[from].balance >= v
    PROVE  Len(s.journal) <= Len(transfer_eth(s, from, to, v).journal)
<1> DEFINE t == insert_touched_addresses(s, from)
           u == deduct_eth(s, from, v)
           w == PrepareCredit(u, to, v)
<1>1. Sound(u)
  BY DeductSound
<1>2. Follows(s, t)
  BY TouchedFollows
<1>3. Follows(u, w)
  BY <1>1, PrepareCreditFollows
<1>4. u.journal = t.journal
  BY <1>2 DEF deduct_eth, Follows, Sound, Kernels
<1>5. transfer_eth(s, from, to, v) = add_eth(u, to, v)
  BY DEF transfer_eth
<1> HIDE DEF u, t
<1>6. add_eth(u, to, v).journal = w.journal
  <2>1. Sound(w) /\ add_eth(u, to, v) = IF v = 0 THEN w ELSE [w EXCEPT !.led = Credit(@, to, v)]
    BY <1>3 DEF add_eth, Follows
  <2> HIDE DEF w
  <2> QED
    BY <2>1 DEF Sound, Kernels
<1> HIDE DEF w
<1>7. /\ Len(s.journal) \in Nat /\ Len(u.journal) \in Nat /\ Len(w.journal) \in Nat
      /\ Len(s.journal) <= Len(t.journal) /\ Len(u.journal) <= Len(w.journal)
  <2>1. Sound(s) /\ Sound(u) /\ Sound(w) /\ Journaled(s, t) /\ Journaled(u, w)
    BY <1>1, <1>2, <1>3 DEF Follows
  <2>2. Len(s.journal) \in Nat /\ Len(u.journal) \in Nat /\ Len(w.journal) \in Nat
    BY <2>1 DEF Sound, Kernels
  <2>3. Len(s.journal) <= Len(t.journal)
    BY <2>1 DEF Journaled
  <2>4. Len(u.journal) <= Len(w.journal)
    BY <2>1 DEF Journaled
  <2> QED
    BY <2>2, <2>3, <2>4
<1>8. Len(s.journal) <= Len(w.journal)
  BY <1>4, <1>7
<1> QED
  BY <1>5, <1>6, <1>8

\* What holds where the transaction's own continuation runs.
LEMMA AtBottom ==
    ASSUME KernelInv, pc \in Bottom
    PROVE  /\ Basic(k, marks, ctxs, txn.base) /\ Sound(k) /\ Len(ctxs) = 1
           /\ rv \in Registers /\ txn \in Txns
           /\ marks \in Seq(Marks) /\ ctxs \in Seq(Context)
           /\ pc \notin {"idle", "halt"} => InJournal(k, marks, txn.base)
<1>1. /\ Basic(k, marks, ctxs, txn.base) /\ Len(ctxs) = 1 /\ rv \in Registers /\ txn \in Txns
      /\ pc \notin {"undo", "idle", "halt"} => InJournal(k, marks, txn.base)
  BY DEF KernelInv, Good, AtLabel
<1>2. pc # "undo"
  BY DEF Bottom
<1> QED
  BY <1>1, <1>2 DEF Basic

\* process_message_txn_after_call keeps the invariant.
LEMMA AfterMessageKeeps ==
    ASSUME KernelInv, process_message_txn_after_call
    PROVE  KernelInv'
<1>1. pc = "txn_msg" /\ pc \in Bottom /\ UNCHANGED <<marks, ctxs, rv, txn>>
  BY DEF process_message_txn_after_call, Bottom
<1>2. /\ Basic(k, marks, ctxs, txn.base) /\ Sound(k) /\ Len(ctxs) = 1 /\ rv \in Registers
      /\ txn \in Txns /\ InJournal(k, marks, txn.base) /\ marks \in Seq(Marks)
  BY <1>1, AtBottom
<1>3. ASSUME NEW s, NEW p \in {"finish", "panic_fail"}, k' = s, pc' = p, Sound(s),
             Len(k.journal) <= Len(s.journal)
      PROVE  KernelInv'
  <2>1. Basic(s, marks, ctxs, txn.base)
    BY <1>2, <1>3 DEF Basic
  <2>2. InJournal(s, marks, txn.base)
    <3> SUFFICES ASSUME NEW m \in txn.base + 1 .. Len(marks)
                 PROVE  marks[m].size <= Len(s.journal)
      BY DEF InJournal
    <3>1. marks[m].size <= Len(k.journal)
      BY <1>2 DEF InJournal
    <3>2. m \in 1 .. Len(marks)
      BY <1>2 DEF Basic
    <3>3. marks[m].size \in Nat /\ Len(k.journal) \in Nat /\ Len(s.journal) \in Nat
      BY <1>2, <1>3, <3>2, MarkTyped DEF Sound, Kernels
    <3> QED
      BY <1>3, <3>1, <3>3
  <2>3. p \in Bottom
    BY DEF Bottom
  <2>4. Good(s, marks, ctxs, p, rv, txn)
    BY <1>2, <2>1, <2>2, <2>3, GoodBottom
  <2> QED
    BY <1>1, <1>3, <2>4 DEF KernelInv
<1>4. CASE k' = k /\ pc' \in {"finish", "panic_fail"}
  <2>1. Len(k.journal) <= Len(k.journal)
    BY <1>2 DEF Sound, Kernels
  <2> QED
    BY <1>2, <1>3, <1>4, <2>1
<1>5. CASE /\ ~CannotPay(k, txn.to, txn.value)
           /\ k' = transfer_eth(k, txn.to, txn.sender, txn.value) /\ pc' = "finish"
  <2> DEFINE t == transfer_eth(k, txn.to, txn.sender, txn.value)
  <2>1. txn.to \in Addr /\ txn.sender \in Addr /\ txn.value \in Nat
    BY <1>2 DEF Txns
  <2>2. k.led.acct[txn.to].balance \in Int
    BY <1>2, <2>1 DEF Sound, Kernels, Ledgers, Account
  <2>3. k.led.acct[txn.to].exists /\ k.led.acct[txn.to].balance >= txn.value
    BY <1>5, <2>1, <2>2 DEF CannotPay
  <2>4. Sound(t) /\ Len(k.journal) <= Len(t.journal)
    BY <1>2, <2>1, <2>3, TransferSound, TransferGrows
  <2> HIDE DEF t
  <2> QED
    BY <1>3, <1>5, <2>4 DEF t
<1> QED
  BY <1>4, <1>5 DEF process_message_txn_after_call

\* A new transaction: its base is above every mark.
LEMMA Fresh ==
    ASSUME NEW s, Sound(s), NEW ms, NEW cs, NEW b, NEW s0, Basic(s0, ms, cs, b), Len(cs) = 1
    PROVE  Live(s, ms, cs, Len(ms)) /\ Basic(s, ms, cs, Len(ms)) /\ InJournal(s, ms, Len(ms))
<1> DEFINE n == Len(ms)
<1>1. ms \in Seq(Marks) /\ n \in Nat /\ cs \in Seq(Context) /\ n <= Len(ms)
  BY DEF Basic
<1>2. Stack(cs, n)
  BY DEF Basic, Stack
<1>3. Nested(ms, cs)
  BY DEF Basic
<1>4. Rising(ms, n) /\ History(s, ms, n, Len(ms), Len(s.journal))
  BY <1>1 DEF Rising, History
<1>5. ExistsAtMarks(ms, cs) /\ ExistsNow(s.led, cs)
  BY DEF ExistsAtMarks, ExistsNow
<1>6. Live(s, ms, cs, n)
  BY <1>1, <1>2, <1>3, <1>4, <1>5 DEF Live
<1> HIDE DEF n
<1>7. Basic(s, ms, cs, n) /\ InJournal(s, ms, n)
  BY <1>6, LiveBasic
<1> QED
  BY <1>6, <1>7 DEF n

\* What insert_accessed_storage_keys leaves alone.
LEMMA KeyLoadedIs ==
    ASSUME NEW s, Sound(s), NEW a \in Addr, NEW i \in Slot
    PROVE  insert_accessed_storage_keys(s, a, i).led.acct = s.led.acct
BY DEF insert_accessed_storage_keys, Record, Sound, Kernels, Ledgers

\* Decoding an access list keeps a kernel state sound.
LEMMA AccessListIs ==
    ASSUME Sound(k), NEW warm \in AccessLists
    PROVE  Sound(AccessList(warm)) /\ AccessList(warm).led.acct = k.led.acct
<1>1. CASE warm = << >>
  BY <1>1 DEF AccessList
<1>2. CASE warm # << >>
  <2>1. warm \in Addr \X Slot
    BY <1>2, KernelAssumption
  <2>2. warm[1] \in Addr /\ warm[2] \in Slot
    BY <2>1
  <2> DEFINE s == insert_accessed_addresses(k, warm[1])
  <2>3. Sound(s) /\ s.led.acct = k.led.acct
    BY <2>2, LoadedFollows, LoadedIs DEF Follows
  <2>4. AccessList(warm) = insert_accessed_storage_keys(s, warm[1], warm[2])
    BY <1>2 DEF AccessList
  <2> HIDE DEF s
  <2>5. Follows(s, AccessList(warm)) /\ AccessList(warm).led.acct = s.led.acct
    BY <2>2, <2>3, <2>4, KeyLoadedFollows, KeyLoadedIs
  <2> QED
    BY <2>3, <2>5 DEF Follows
<1> QED
  BY <1>1, <1>2

\* The price of the gas is a natural number.
LEMMA ProductNat ==
    ASSUME NEW m \in Nat, NEW n \in Nat
    PROVE  m * n \in Nat
OBVIOUS

\* Buying gas and warming addresses keeps a kernel state sound.
LEMMA BoughtIs ==
    ASSUME Sound(k), NEW o \in Addr, NEW v \in Nat, NEW warm \in AccessLists, ValidTxn(o, v)
    PROVE  LET s == Bought(o, warm) IN
           /\ Sound(s) /\ s.led.acct[o].exists /\ s.led.acct[o].balance >= v
           /\ s.led.acct[o].nonce # 0
<1> DEFINE s0 == AccessList(warm)
           s1 == deduct_eth(s0, o, Upfront)
           s2 == increment_nonce(s1, o)
           s3 == insert_accessed_addresses(s2, o)
           s4 == insert_accessed_addresses(s3, RIP160)
           s5 == insert_accessed_addresses(s4, Coinbase)
<1>1. Upfront \in Nat /\ Coinbase \in Addr /\ RIP160 \in Addr
  BY KernelAssumption, LedgerAssumption, ProductNat DEF Upfront, Price
<1>2. Sound(s0) /\ s0.led.acct = k.led.acct
  BY AccessListIs
<1>3. s0.led.acct[o].balance \in Int /\ s0.led.acct[o].nonce \in Nat
  BY <1>2 DEF Sound, Kernels, Ledgers, Account
<1>4. s0.led.acct[o].exists /\ s0.led.acct[o].balance >= Upfront + v
  BY <1>2 DEF ValidTxn
<1>5. Bought(o, warm) = s5
  BY DEF Bought
<1> HIDE DEF s0
<1>6. s0.led.acct[o].balance >= Upfront
  BY <1>1, <1>3, <1>4
<1>7. /\ Sound(s1) /\ s1.led.acct[o].exists
      /\ s1.led.acct[o].balance = s0.led.acct[o].balance - Upfront
      /\ s1.led.acct[o].nonce = s0.led.acct[o].nonce
  BY <1>1, <1>2, <1>4, <1>6, DeductSound
<1> HIDE DEF s1
<1>8. Sound(s2) /\ s2.led.acct[o].exists
  BY <1>7, IncrementNonceFollows DEF Follows
<1>9. /\ s2.led.acct[o].balance = s1.led.acct[o].balance
      /\ s2.led.acct[o].nonce = s1.led.acct[o].nonce + 1
  BY <1>7, IncrementNonceIs
<1> HIDE DEF s2
<1>10. Sound(s3) /\ s3.led.acct = s2.led.acct
  BY <1>8, LoadedFollows, LoadedIs DEF Follows
<1> HIDE DEF s3
<1>11. Sound(s4) /\ s4.led.acct = s3.led.acct
  BY <1>1, <1>10, LoadedFollows, LoadedIs DEF Follows
<1> HIDE DEF s4
<1>12. Sound(s5) /\ s5.led.acct = s4.led.acct
  BY <1>1, <1>11, LoadedFollows, LoadedIs DEF Follows
<1> HIDE DEF s5
<1>13. s5.led.acct[o] = s2.led.acct[o]
  BY <1>10, <1>11, <1>12
<1>14. s2.led.acct[o].balance >= v /\ s2.led.acct[o].nonce # 0
  BY <1>1, <1>3, <1>4, <1>7, <1>9
<1> QED
  BY <1>5, <1>8, <1>12, <1>13, <1>14

\* The transaction's fields are typed.
LEMMA NewTxnIs ==
    ASSUME KernelInv, pc = "idle", NEW o \in Addr, NEW a \in Addr, NEW v \in Nat,
           NEW kind \in {"none", "msg", "create", "invalid"}
    PROVE  NewTxn(kind, o, a, v) \in Txns /\ NewTxn(kind, o, a, v).base = Len(marks)
<1>1. Sound(k) /\ txn \in Txns /\ marks \in Seq(Marks)
  BY AtBottom DEF Bottom
<1>2. k.led \in Ledgers /\ txn.count + 1 \in Nat /\ Len(marks) \in Nat
  BY <1>1 DEF Sound, Kernels, Txns
<1> QED
  BY <1>2 DEF NewTxn, Txns

\* process_message_txn keeps the invariant.
LEMMA MessageTxnKeeps ==
    ASSUME KernelInv, NEW o \in Senders, NEW a \in Addr, NEW v \in Amounts,
           NEW warm \in AccessLists, process_message_txn(o, a, v, warm)
    PROVE  KernelInv'
<1> DEFINE s0 == Bought(o, warm)
           s1 == insert_accessed_addresses(s0, a)
           s == transfer_eth(s1, o, a, v)
           kind == "msg"
           x == NewTxn(kind, o, a, v)
<1>1. pc = "idle" /\ pc \in Bottom /\ ValidTxn(o, v) /\ o \in Addr /\ v \in Nat
  BY KernelAssumption DEF process_message_txn, Bottom
<1>2. /\ Basic(k, marks, ctxs, txn.base) /\ Sound(k) /\ Len(ctxs) = 1 /\ rv \in Registers
  BY <1>1, AtBottom
<1>3. kind \in {"none", "msg", "create", "invalid"}
  OBVIOUS
<1>4. /\ txn' = x
      /\ \/ k' = s /\ pc' = "finish" /\ UNCHANGED <<marks, ctxs, rv>>
         \/ Enter(s, marks, ctxs, a, CodeOf(s.led, a), FALSE, "txn_msg")
  BY DEF process_message_txn
<1> HIDE DEF kind
<1>5. x \in Txns /\ x.base = Len(marks)
  BY <1>1, <1>3, NewTxnIs
<1> HIDE DEF x
<1>6. Sound(s0) /\ s0.led.acct[o].exists /\ s0.led.acct[o].balance >= v
  BY <1>1, <1>2, BoughtIs
<1> HIDE DEF s0
<1>7. Sound(s1) /\ s1.led.acct = s0.led.acct
  BY <1>6, LoadedFollows, LoadedIs DEF Follows
<1> HIDE DEF s1
<1>8. Sound(s)
  BY <1>1, <1>6, <1>7, TransferSound
<1> HIDE DEF s
<1>9. Live(s, marks, ctxs, x.base) /\ Basic(s, marks, ctxs, x.base) /\ InJournal(s, marks, x.base)
  BY <1>2, <1>5, <1>8, Fresh
<1>10. CASE k' = s /\ pc' = "finish" /\ UNCHANGED <<marks, ctxs, rv>>
  <2> DEFINE p == "finish"
  <2>1. p \in Bottom /\ pc' = p
    BY <1>10 DEF Bottom
  <2> HIDE DEF p
  <2>2. Good(s, marks, ctxs, p, rv, x)
    BY <1>2, <1>5, <1>9, <2>1, GoodBottom
  <2> QED
    BY <1>4, <1>10, <2>1, <2>2 DEF KernelInv
<1>11. CASE Enter(s, marks, ctxs, a, CodeOf(s.led, a), FALSE, "txn_msg")
  <2> DEFINE code == CodeOf(s.led, a)
             static == FALSE
             ret == "txn_msg"
  <2>1. s.led \in Solid
    BY <1>8 DEF Sound
  <2>2. code \in {"user", "none", "precompile"} /\ (code = "user" => s.led.acct[a].exists)
    BY <2>1, CodeOfIs
  <2>3. /\ static \in BOOLEAN /\ ret \notin {"create", "txn_create"}
        /\ MayEnter(ctxs, x.base, ret)
        /\ Enter(s, marks, ctxs, a, code, static, ret)
    BY <1>2, <1>11 DEF MayEnter
  <2> HIDE DEF code, static, ret
  <2> QED
    BY <1>2, <1>4, <1>5, <1>9, <2>2, <2>3, EnterKeeps
<1> QED
  BY <1>4, <1>10, <1>11

\* process_contract_creation_txn keeps the invariant.
LEMMA CreationTxnKeeps ==
    ASSUME KernelInv, NEW o \in Senders, NEW a \in Addr, NEW v \in Amounts,
           NEW warm \in AccessLists, process_contract_creation_txn(o, a, v, warm)
    PROVE  KernelInv'
<1> DEFINE s00 == Bought(o, warm)
           s0 == insert_accessed_addresses(s00, a)
           ms == Append(marks, Mark(s0))
           cs == WithCheckpoint(ctxs, marks)
           s1 == AppendCreated(s0, a)
           s2 == InsertContract(s1, a)
           s3 == TransferAndJournal(s2, o, a, v)
           kind == "create"
           x == NewTxn(kind, o, a, v)
<1>1. pc = "idle" /\ pc \in Bottom /\ ValidTxn(o, v) /\ o \in Addr /\ v \in Nat
  BY KernelAssumption DEF process_contract_creation_txn, Bottom
<1>2. /\ Basic(k, marks, ctxs, txn.base) /\ Sound(k) /\ Len(ctxs) = 1 /\ rv \in Registers
      /\ marks \in Seq(Marks) /\ ctxs \in Seq(Context)
  BY <1>1, AtBottom
<1>3. kind \in {"none", "msg", "create", "invalid"}
  OBVIOUS
<1>4. /\ txn' = x
      /\ \/ Collides(s1, a) /\ StartRevert(s1, ms, cs, "fault")
         \/ ~Collides(s1, a) /\ Enter(s3, ms, cs, a, "user", FALSE, "txn_create")
  BY DEF process_contract_creation_txn
<1> HIDE DEF kind
<1>5. x \in Txns /\ x.base = Len(marks) /\ x.base \in Nat
  BY <1>1, <1>2, <1>3, NewTxnIs
<1> HIDE DEF x
<1>6. /\ Sound(s00) /\ s00.led.acct[o].exists /\ s00.led.acct[o].balance >= v
      /\ s00.led.acct[o].nonce # 0
  BY <1>1, <1>2, BoughtIs
<1> HIDE DEF s00
<1>7. Sound(s0) /\ s0.led.acct = s00.led.acct
  BY <1>6, LoadedFollows, LoadedIs DEF Follows
<1> HIDE DEF s0
<1>8. Live(s0, marks, ctxs, x.base)
  BY <1>2, <1>5, <1>7, Fresh
<1>9. Live(s0, ms, cs, x.base)
  BY <1>2, <1>8, LiveCheckpoint
<1>10. Len(cs) = 1 /\ Anchored(cs[1].cps, x.base)
  <2> DEFINE n == Len(ctxs[1].cps)
  <2>1. n \in Nat
    BY <1>2, CtxTyped
  <2>2. Len(cs) = 1 /\ Len(cs[1].cps) = n + 1 /\ cs[1].cps[n + 1] = Len(marks)
    <3>1. Len(ctxs) >= 1
      BY <1>2
    <3>2. /\ Len(cs) = Len(ctxs) /\ Len(cs[Len(ctxs)].cps) = Len(ctxs[Len(ctxs)].cps) + 1
          /\ cs[Len(ctxs)].cps[Len(ctxs[Len(ctxs)].cps) + 1] = Len(marks)
      BY <1>2, <3>1, WithCheckpointIs
    <3> HIDE DEF cs
    <3> QED
      BY <1>2, <3>2
  <2> HIDE DEF n, cs
  <2>3. Len(cs[1].cps) >= 1 /\ x.base <= cs[1].cps[Len(cs[1].cps)]
    BY <1>5, <2>1, <2>2
  <2> QED
    BY <2>2, <2>3 DEF Anchored
<1> HIDE DEF ms, cs
<1>11. Follows(s0, s1) /\ s1.led.acct = s0.led.acct
  BY <1>7, AppendCreatedFollows
<1> HIDE DEF s1
<1>12. Live(s1, ms, cs, x.base) /\ Sound(s1)
  BY <1>9, <1>11, LiveFollows DEF Follows
<1>13. CASE StartRevert(s1, ms, cs, "fault")
  <2> DEFINE nx == "fault"
  <2>1. nx \in {"user", "terminate", "fault"} /\ nx # "terminate" /\ nx # "user"
        /\ StartRevert(s1, ms, cs, nx)
    BY <1>13
  <2>2. Anchored(cs[Len(cs)].cps, x.base)
    BY <1>10
  <2> HIDE DEF nx
  <2> QED
    BY <1>4, <1>5, <1>10, <1>12, <2>1, <2>2, RevertKeeps
<1>14. CASE ~Collides(s1, a) /\ Enter(s3, ms, cs, a, "user", FALSE, "txn_create")
  <2>1. s1.led.acct[o] = s00.led.acct[o]
    BY <1>7, <1>11
  <2>2. o # a
    BY <1>6, <1>14, <2>1 DEF Collides
  <2>3. /\ Follows(s1, s2) /\ s2.led.acct[a].exists
        /\ \A c \in Addr : c # a /\ s1.led.acct[c].exists => s2.led.acct[c] = s1.led.acct[c]
    BY <1>12, <1>14, InsertContractFollows
  <2> HIDE DEF s2
  <2>4. s2.led.acct[o].exists /\ s2.led.acct[o].balance >= v /\ Sound(s2)
    BY <1>1, <1>6, <2>1, <2>2, <2>3 DEF Follows
  <2>5. Follows(s2, s3)
    BY <1>1, <2>4, TransferFollows
  <2> HIDE DEF s3
  <2>6. Live(s2, ms, cs, x.base)
    BY <1>12, <2>3, LiveFollows
  <2>7. Live(s3, ms, cs, x.base) /\ s3.led.acct[a].exists
    BY <2>3, <2>5, <2>6, LiveFollows DEF Follows
  <2> DEFINE code == "user"
             static == FALSE
             ret == "txn_create"
  <2>8. /\ code \in {"user", "none", "precompile"} /\ code = "user" /\ static \in BOOLEAN
        /\ MayEnter(cs, x.base, ret)
        /\ Enter(s3, ms, cs, a, code, static, ret)
    BY <1>10, <1>14 DEF MayEnter
  <2> HIDE DEF code, static, ret
  <2> QED
    BY <1>2, <1>4, <1>5, <2>7, <2>8, EnterKeeps
<1> QED
  BY <1>4, <1>13, <1>14

\* reinitialize_memory_pre_txn keeps a kernel state sound.
LEMMA ReinitializedSound ==
    ASSUME NEW s, Sound(s)
    PROVE  Sound(Reinitialized(s))
<1> DEFINE L == [s.led EXCEPT !.loaded = {}, !.refund = 0,
                              !.orig = [a \in Addr |-> [i \in Slot |-> Cold]],
                              !.logs = [len |-> 0, size |-> 0],
                              !.tran = [a \in Addr |-> [i \in Slot |-> 0]]]
           t == Reinitialized(s)
<1>1. s \in Kernels /\ s.led \in Ledgers /\ s.led \in Solid
  BY DEF Sound, Kernels
<1>2. L.acct = s.led.acct /\ L.slot = s.led.slot
  BY <1>1 DEF Ledgers
<1>3. L \in Ledgers
  <2> DEFINE og == [a \in Addr |-> [i \in Slot |-> Cold]]
             lg == [len |-> 0, size |-> 0]
             tr == [a \in Addr |-> [i \in Slot |-> 0]]
             em == {}
             z == 0
             G == [s.led EXCEPT !.loaded = em, !.refund = z, !.orig = og, !.logs = lg,
                                !.tran = tr]
  <2>1. /\ og \in [Addr -> [Slot -> Val \cup {Cold}]] /\ lg \in [len : Int, size : Nat]
        /\ tr \in [Addr -> [Slot -> Val]] /\ em \in SUBSET Addr /\ z \in Int
    BY DEF Val
  <2>2. L = G
    OBVIOUS
  <2> HIDE DEF og, lg, tr, em, z, L
  <2>3. G \in Ledgers
    BY <1>1, <2>1 DEF Ledgers
  <2> QED
    BY <2>2, <2>3
<1>4. t.led = L
  BY DEF Reinitialized
<1>5. t = [led |-> t.led, journal |-> << >>, created |-> s.created,
           destroyed |-> [a \in Addr |-> 0],
           ripemd |-> [s.ripemd EXCEPT !.loaded = FALSE]]
  BY DEF Reinitialized
<1> HIDE DEF L, t
<1>6. L \in Solid
  BY <1>1, <1>2, <1>3, OtherSolid
<1>7. s.created \in Seq(Addr) /\ s.ripemd \in [touched : BOOLEAN, loaded : BOOLEAN]
  BY <1>1 DEF Kernels
<1>8. [s.ripemd EXCEPT !.loaded = FALSE] \in [touched : BOOLEAN, loaded : BOOLEAN]
  BY <1>7
<1>9. << >> \in Seq(Entry) /\ [a \in Addr |-> 0] \in [Addr -> Nat]
  OBVIOUS
<1>10. t \in Kernels
  <2> DEFINE ds == [a \in Addr |-> 0]
             jn == << >>
             rp == [s.ripemd EXCEPT !.loaded = FALSE]
  <2>1. t = [led |-> t.led, journal |-> jn, created |-> s.created, destroyed |-> ds,
             ripemd |-> rp]
    BY <1>5
  <2>2. /\ jn \in Seq(Entry) /\ ds \in [Addr -> Nat]
        /\ rp \in [touched : BOOLEAN, loaded : BOOLEAN]
    BY <1>8, <1>9
  <2>3. t.led \in Ledgers
    BY <1>3, <1>4
  <2> HIDE DEF ds, jn, rp
  <2> QED
    BY <1>7, <2>1, <2>2, <2>3 DEF Kernels
<1> QED
  BY <1>4, <1>6, <1>10 DEF Sound, t

\* Deleting touched and self-destructed accounts keeps a ledger solid.
LEMMA SweptSolid ==
    ASSUME NEW s, Sound(s)
    PROVE  Swept(s) \in Solid
<1> DEFINE touched == s.led.touched \cup (IF s.ripemd.touched THEN {RIP160} ELSE {})
           dead == {a \in Addr : \/ a \in touched /\ is_empty(s.led, a)
                                 \/ s.destroyed[a] > 0 /\ s.led.acct[a].exists}
           f == [a \in Addr |-> IF a \in dead THEN NoAccount ELSE s.led.acct[a]]
           g == [a \in Addr |-> [i \in Slot |-> IF a \in dead THEN 0 ELSE s.led.slot[a][i]]]
           M == [s.led EXCEPT !.acct = f, !.slot = g]
<1>1. s.led \in Solid /\ s.led \in Ledgers
  BY DEF Sound, Kernels
<1>2. Swept(s) = M
  BY DEF Swept
<1> HIDE DEF dead
<1>3. f \in [Addr -> Account]
  BY <1>1 DEF Ledgers, NoAccount, Account, Codes, NoCode
<1>4. g \in [Addr -> [Slot -> Val]]
  BY <1>1 DEF Ledgers, Val
<1>5. \A a \in Addr : /\ f[a].balance >= 0
                      /\ ~f[a].exists => f[a] = NoAccount /\ g[a] = [i \in Slot |-> 0]
  <2> TAKE a \in Addr
  <2>1. CASE a \in dead
    <3>1. f[a] = NoAccount /\ g[a] = [i \in Slot |-> 0]
      BY <2>1
    <3> QED
      BY <3>1 DEF NoAccount
  <2>2. CASE a \notin dead
    <3>1. f[a] = s.led.acct[a] /\ g[a] = [i \in Slot |-> s.led.slot[a][i]]
      BY <2>2
    <3>2. /\ s.led.acct[a].balance >= 0
          /\ ~s.led.acct[a].exists => /\ s.led.acct[a] = NoAccount
                                      /\ s.led.slot[a] = [i \in Slot |-> 0]
      BY <1>1 DEF Solid
    <3>3. g[a] = s.led.slot[a]
      BY <1>1, <3>1 DEF Ledgers
    <3> QED
      BY <3>1, <3>2, <3>3
  <2> QED
    BY <2>1, <2>2
<1> HIDE DEF f, g
<1>6. M \in Ledgers /\ M.acct = f /\ M.slot = g
  BY <1>1, <1>3, <1>4 DEF Ledgers
<1> HIDE DEF M
<1>7. M \in Solid
  BY <1>5, <1>6 DEF Solid
<1> QED
  BY <1>2, <1>7

\* pay_coinbase_and_refund_sender keeps a kernel state sound.
LEMMA PaidSound ==
    ASSUME NEW s, Sound(s), txn \in Txns, NEW leftover \in Leftovers
    PROVE  Sound(Paid(s, leftover))
<1> DEFINE used == GasLimit - leftover
           capped == used \div 5
           refund == IF s.led.refund \in 0 .. capped THEN s.led.refund ELSE capped
           v == (used - refund) * PriorityFee
           w == (leftover + refund) * Price
           t == add_eth(s, Coinbase, v)
<1>1. leftover \in Nat /\ used \in Nat /\ PriorityFee \in Nat /\ Price \in Nat
  <2>1. GasLimit \in Nat /\ leftover \in 0 .. GasLimit /\ BaseFee \in Nat /\ PriorityFee \in Nat
    BY KernelAssumption
  <2> QED
    BY <2>1 DEF Price
<1>2. Coinbase \in Addr /\ txn.sender \in Addr
  BY KernelAssumption DEF Txns
<1> HIDE DEF used
<1>3. capped \in Nat /\ capped <= used
  BY <1>1
<1> HIDE DEF capped
<1>4. refund \in Nat /\ refund <= used
  BY <1>1, <1>3
<1> HIDE DEF refund
<1>5. used - refund \in Nat /\ leftover + refund \in Nat
  BY <1>1, <1>4
<1>6. v \in Nat /\ w \in Nat
  BY <1>1, <1>5, ProductNat
<1>7. Paid(s, leftover) = add_eth(t, txn.sender, w)
  BY DEF Paid, used, capped, refund
<1> HIDE DEF v, w
<1>8. Sound(t)
  BY <1>2, <1>6, AddEthSound
<1> HIDE DEF t
<1>9. Sound(add_eth(t, txn.sender, w))
  BY <1>2, <1>6, <1>8, AddEthSound
<1> QED
  BY <1>7, <1>9

\* Back at idle, or halted: only soundness counts.
LEMMA IdleKeeps ==
    ASSUME KernelInv, pc \in Bottom, NEW s, Sound(s), NEW p \in {"idle", "halt"},
           k' = s, pc' = p, marks' = marks, ctxs' = ctxs, rv' = rv,
           txn' = txn \/ (txn' \in Txns /\ txn'.base = Len(marks))
    PROVE  KernelInv'
<1>1. /\ Basic(k, marks, ctxs, txn.base) /\ Len(ctxs) = 1 /\ rv \in Registers /\ txn \in Txns
  BY AtBottom
<1>2. p \in Bottom
  BY DEF Bottom
<1>3. Basic(s, marks, ctxs, txn.base) /\ Basic(s, marks, ctxs, Len(marks))
  BY <1>1, Fresh DEF Basic
<1>4. CASE txn' = txn
  <2>1. Good(s, marks, ctxs, p, rv, txn)
    BY <1>1, <1>2, <1>3, GoodBottom
  <2> QED
    BY <1>4, <2>1 DEF KernelInv
<1>5. CASE txn' \in Txns /\ txn'.base = Len(marks)
  <2> DEFINE x == txn'
  <2>1. x \in Txns /\ Basic(s, marks, ctxs, x.base)
    BY <1>3, <1>5
  <2> HIDE DEF x
  <2>2. Good(s, marks, ctxs, p, rv, x)
    BY <1>1, <1>2, <2>1, GoodBottom
  <2> QED
    BY <2>2 DEF KernelInv, x
<1> QED
  BY <1>4, <1>5

\* invalid_txn keeps the invariant.
LEMMA InvalidTxnKeeps ==
    ASSUME KernelInv, NEW o \in Senders, NEW v \in Amounts, NEW warm \in AccessLists,
           invalid_txn(o, v, warm)
    PROVE  KernelInv'
<1> DEFINE kind == "invalid"
           s == Reinitialized(AccessList(warm))
           p == "idle"
<1>1. /\ pc = "idle" /\ pc \in Bottom /\ o \in Addr /\ v \in Nat
      /\ k' = s /\ pc' = p /\ marks' = marks /\ ctxs' = ctxs /\ rv' = rv
      /\ txn' = NewTxn(kind, o, o, v)
  BY KernelAssumption DEF invalid_txn, Bottom
<1>2. kind \in {"none", "msg", "create", "invalid"} /\ p \in {"idle", "halt"}
  OBVIOUS
<1> HIDE DEF kind, p
<1>3. txn' \in Txns /\ txn'.base = Len(marks)
  BY <1>1, <1>2, NewTxnIs
<1>4. Sound(s)
  BY <1>1, AtBottom, AccessListIs, ReinitializedSound
<1> HIDE DEF s
<1> QED
  BY <1>1, <1>2, <1>3, <1>4, IdleKeeps

\* The end of a transaction keeps the invariant.
LEMMA FinishKeeps ==
    ASSUME KernelInv, NEW leftover \in Leftovers, Finish(leftover)
    PROVE  KernelInv'
<1> DEFINE s == Paid(k, leftover)
           t == [s EXCEPT !.led = Swept(s)]
           u == Reinitialized(t)
           p == "idle"
<1>1. /\ pc = "finish" /\ pc \in Bottom /\ k' = u /\ pc' = p
      /\ marks' = marks /\ ctxs' = ctxs /\ rv' = rv /\ txn' = txn
  BY DEF Finish, Bottom
<1>2. p \in {"idle", "halt"}
  OBVIOUS
<1> HIDE DEF p
<1>3. Sound(s)
  BY <1>1, AtBottom, PaidSound
<1> HIDE DEF s
<1>4. Sound(t)
  BY <1>3, SweptSolid, WithLedger
<1> HIDE DEF t
<1>5. Sound(u)
  BY <1>4, ReinitializedSound
<1> HIDE DEF u
<1> QED
  BY <1>1, <1>2, <1>5, IdleKeeps

\* Withdrawals keep the invariant.
LEMMA WithdrawalsKeep ==
    ASSUME KernelInv, NEW a \in Addr, NEW v \in Amounts, withdrawals(a, v)
    PROVE  KernelInv'
<1> DEFINE s == add_eth(k, a, v)
           p == "halt"
<1>1. /\ pc \in Bottom /\ k' = s /\ pc' = p /\ v \in Nat
      /\ marks' = marks /\ ctxs' = ctxs /\ rv' = rv /\ txn' = txn
  BY KernelAssumption DEF withdrawals, Bottom
<1>2. p \in {"idle", "halt"}
  OBVIOUS
<1> HIDE DEF p
<1>3. Sound(s)
  BY <1>1, AtBottom, AddEthSound
<1> HIDE DEF s
<1> QED
  BY <1>1, <1>2, <1>3, IdleKeeps

-----------------------------------------------------------------------------
(* The invariant holds.                                                    *)

\* The invariant holds when the kernel starts.
LEMMA InitKernelInv ==
    ASSUME Init
    PROVE  KernelInv
<1>1. /\ k = [led |-> InitLedger, journal |-> << >>, created |-> << >>,
              destroyed |-> [a \in Addr |-> 0],
              ripemd |-> [touched |-> FALSE, loaded |-> FALSE]]
      /\ marks = << >> /\ ctxs = <<KernelCtx>> /\ pc = "idle" /\ rv = NoRevert
      /\ txn = [kind |-> "none", sender |-> Coinbase, to |-> Coinbase, value |-> 0,
                ok |-> TRUE, callee |-> Coinbase, count |-> 0, base |-> 0,
                start |-> InitLedger]
  BY DEF Init
<1>2. InitLedger \in Solid /\ InitLedger \in Ledgers /\ Coinbase \in Addr
  BY KernelAssumption DEF Solid
<1>3. Sound(k)
  <2> DEFINE em == << >>
             ds == [a \in Addr |-> 0]
             rp == [touched |-> FALSE, loaded |-> FALSE]
  <2>1. k = [led |-> InitLedger, journal |-> em, created |-> em, destroyed |-> ds, ripemd |-> rp]
    BY <1>1
  <2>2. /\ em \in Seq(Entry) /\ em \in Seq(Addr) /\ ds \in [Addr -> Nat]
        /\ rp \in [touched : BOOLEAN, loaded : BOOLEAN]
    OBVIOUS
  <2> HIDE DEF em, ds, rp
  <2>3. k \in Kernels /\ k.led = InitLedger
    BY <1>2, <2>1, <2>2 DEF Kernels
  <2> QED
    BY <1>2, <2>3 DEF Sound
<1>4. rv \in Registers
  BY <1>1 DEF NoRevert, Registers
<1>5. txn \in Txns /\ txn.base = 0
  <2> DEFINE z == 0
             y == TRUE
             kd == "none"
  <2>1. z \in Nat /\ y \in BOOLEAN /\ kd \in {"none", "msg", "create", "invalid"}
    OBVIOUS
  <2>2. txn = [kind |-> kd, sender |-> Coinbase, to |-> Coinbase, value |-> z,
               ok |-> y, callee |-> Coinbase, count |-> z, base |-> z, start |-> InitLedger]
    BY <1>1
  <2> HIDE DEF z, y, kd
  <2>3. txn \in Txns /\ txn.base = z
    BY <1>2, <2>1, <2>2 DEF Txns
  <2> QED
    BY <2>3 DEF z
<1>6. KernelCtx \in Context /\ KernelCtx.code = "kernel" /\ Len(KernelCtx.cps) = 0
  BY <1>2 DEF KernelCtx, Context
<1> HIDE DEF KernelCtx
<1>7. /\ ctxs \in Seq(Context) /\ Len(ctxs) = 1 /\ ctxs[1] = KernelCtx
      /\ marks \in Seq(Marks) /\ Len(marks) = 0
  BY <1>1, <1>6
<1>8. Stack(ctxs, txn.base)
  BY <1>6, <1>7 DEF Stack
<1>9. Nested(marks, ctxs)
  <2>1. \A i \in 1 .. Len(ctxs) : Len(ctxs[i].cps) = 0
    BY <1>6, <1>7
  <2> QED
    BY <2>1 DEF Nested
<1>10. Rising(marks, txn.base)
  BY <1>5, <1>7 DEF Rising
<1>11. Basic(k, marks, ctxs, txn.base)
  BY <1>3, <1>5, <1>7, <1>8, <1>9, <1>10 DEF Basic
<1>12. pc \in Bottom /\ pc \in {"idle", "halt"}
  BY <1>1 DEF Bottom
<1>13. Good(k, marks, ctxs, pc, rv, txn)
  BY <1>4, <1>5, <1>7, <1>11, <1>12, GoodBottom
<1> QED
  BY <1>13 DEF KernelInv

\* A step that changes nothing keeps the invariant.
LEMMA StutterKeeps ==
    ASSUME KernelInv, UNCHANGED vars
    PROVE  KernelInv'
<1>1. k' = k /\ marks' = marks /\ ctxs' = ctxs /\ pc' = pc /\ rv' = rv /\ txn' = txn
  BY DEF vars
<1> QED
  BY <1>1 DEF KernelInv

\* Every step keeps the invariant.
LEMMA NextKernelInv ==
    ASSUME KernelInv, [Next]_vars
    PROVE  KernelInv'
<1>1. CASE UserStep
  <2>1. CASE Fault \/ sys_revert
    BY <2>1, FaultStepKeeps
  <2>2. CASE sys_stop
    BY <2>2, StopKeeps
  <2>3. CASE \E i \in Slot, v \in Vals : sys_sstore(i, v) \/ sys_tstore(i, v)
    BY <2>3, SStoreKeeps, TStoreKeeps
  <2>4. CASE \E i \in Slot : sys_sload(i)
    BY <2>4, SLoadKeeps
  <2>5. CASE \E n \in {0, 1} : sys_log(n)
    BY <2>5, LogKeeps
  <2>6. CASE \E a \in Addr : sys_balance(a) \/ sys_selfdestruct(a)
    BY <2>6, BalanceKeeps, SelfdestructKeeps
  <2>7. CASE \E a \in Addr, v \in Amounts :
                sys_create(a, v) \/ \E kind \in CallKinds : sys_call(kind, a, v)
    BY <2>7, CreateKeeps, CallKeeps
  <2> QED
    BY <1>1, <2>1, <2>2, <2>3, <2>4, <2>5, <2>6, <2>7 DEF UserStep
<1>2. CASE RevertStep
  BY <1>2, LoopKeeps, TerminateFailedKeeps DEF RevertStep
<1>3. CASE ParentStep
  BY <1>3, AfterCallKeeps, AfterConstructorKeeps, AfterCreationTxnKeeps,
     ContractCreationFaultKeeps, AfterMessageKeeps DEF ParentStep
<1>4. CASE TxnStep
  <2>1. CASE \E o \in Senders, a \in Addr, v \in Amounts, warm \in AccessLists :
                \/ process_message_txn(o, a, v, warm)
                \/ process_contract_creation_txn(o, a, v, warm)
    BY <2>1, MessageTxnKeeps, CreationTxnKeeps
  <2>2. CASE \E o \in Senders, v \in Amounts, warm \in AccessLists : invalid_txn(o, v, warm)
    BY <2>2, InvalidTxnKeeps
  <2>3. CASE \E leftover \in Leftovers : Finish(leftover)
    BY <2>3, FinishKeeps
  <2>4. CASE \E a \in Addr, v \in Amounts : withdrawals(a, v)
    BY <2>4, WithdrawalsKeep
  <2> QED
    BY <1>4, <2>1, <2>2, <2>3, <2>4 DEF TxnStep
<1>5. CASE Done \/ UNCHANGED vars
  BY <1>5, StutterKeeps DEF Done
<1> QED
  BY <1>1, <1>2, <1>3, <1>4, <1>5 DEF Next

\* The inductive invariant holds in every state the kernel reaches, for any sets of
\* addresses, slots and amounts and any bounds.
THEOREM KernelIsSound == Spec => []KernelInv
<1>1. Init => KernelInv
  BY InitKernelInv
<1>2. KernelInv /\ [Next]_vars => KernelInv'
  BY NextKernelInv
<1> QED
  BY <1>1, <1>2, PTL DEF Spec

\* The kernel's variables keep their types.
THEOREM KernelTypes == Spec => []TypeOK
<1>1. KernelInv => TypeOK
  BY DEF KernelInv, Good, AtLabel, Basic, Sound, TypeOK
<1> QED
  BY <1>1, KernelIsSound, PTL

\* revert_checkpoint: when its loop ends, the ledger is exactly the one of the
\* checkpoint, whatever the transaction did since.
THEOREM RevertsRestore == Spec => []RevertRestores
<1>1. KernelInv => RevertRestores
  BY DEF KernelInv, Good, AtLabel, Undoing, RevertRestores
<1> QED
  BY <1>1, KernelIsSound, PTL

\* No sanity check of revert_batch, no reverting routine and no transfer that the
\* kernel believes cannot fail ever fails.
THEOREM KernelNeverPanics == Spec => []NoPanic
<1>1. KernelInv => NoPanic
  BY DEF KernelInv, Good, AtLabel, NoPanic
<1> QED
  BY <1>1, KernelIsSound, PTL

\* The checkpoints of the contexts are nested, and their marks lie in the journal.
THEOREM CheckpointsAreNested == Spec => []CheckpointsNested
<1>1. KernelInv => CheckpointsNested
  BY DEF KernelInv, Good, AtLabel, Basic, Nested, Rising, InJournal, CheckpointsNested
<1> QED
  BY <1>1, KernelIsSound, PTL

\* No balance underflows, not even half way through a revert.
THEOREM NoBalanceUnderflows == Spec => []BalancesNonNegative
<1>1. KernelInv => BalancesNonNegative
  BY DEF KernelInv, Good, Basic, Sound, Solid, BalancesNonNegative
<1> QED
  BY <1>1, KernelIsSound, PTL
=============================================================================
