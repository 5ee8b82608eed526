------------------------------ MODULE MemoryTable ------------------------------
(***************************************************************************)
(* The memory table of a segment (memory/memory_stark.rs).  It holds every *)
(* memory operation, ordered by address and time; its constraints make a   *)
(* read return the value of the row before it.  The packed and the circuit *)
(* version of the constraints say the same and share these definitions.    *)
(*                                                                         *)
(* Spec makes the table: the operations logged by the CPU and the values   *)
(* left by the segment before are sorted, gaps that are too long for the   *)
(* range check are filled with dummy reads, the table is padded to a power *)
(* of two, and the columns that depend on the next row are filled in.      *)
(* PairSpec takes any two rows that follow each other, whatever a prover   *)
(* puts into them, that the constraints and the range check accept.        *)
(*                                                                         *)
(* A value is one limb: the eight limbs have the same constraints.         *)
(***************************************************************************)
EXTENDS Integers, Sequences, FiniteSets, FiniteSetsExt, SequencesExt

CONSTANTS
    P,                                        \* the field's modulus
    Code, TrieData, AccountsList, StorageList, \* the preinitialized segments
    Addresses,       \* <<context, segment, virtual address>>
    Values,
    Waits,           \* how far the clock may advance between two operations
    MaxOps,          \* operations of the segment
    PairHeight,      \* rows of the table two rows of which are taken
    Ctxs, Segs, Virts, Times                  \* what those may hold

MemoryAssumption ==
    /\ P \in Nat \ {0, 1}
    /\ {Code, TrieData, AccountsList, StorageList} \subseteq 0 .. P - 1
    /\ Addresses \subseteq Nat \X Nat \X Nat /\ Values \subseteq Nat /\ 0 \in Values
    /\ Waits \subseteq Nat \ {0} /\ MaxOps \in Nat \ {0}
    /\ PairHeight \in Nat \ {0} /\ Ctxs \cup Segs \cup Virts \cup Times \cup Values \subseteq 0 .. P - 1

VARIABLES
    phase,           \* "run", then the steps of the generation; or "one" and "pair"
    clock,
    before,          \* mem_before_values: address -> value, on a subset of Addresses
    mem,             \* the memory during the execution
    ops,             \* the memory operations
    stale,           \* the contexts that were pruned
    rows             \* the table, or the rows taken

vars == <<phase, clock, before, mem, ops, stale, rows>>

----------------------------------------------------------------------------
(* The constraints.                                                        *)

F == 0 .. P - 1
Bool(b) == IF b THEN 1 ELSE 0
Inverse0(x) == IF \E y \in F : (x * y) % P = 1 THEN CHOOSE y \in F : (x * y) % P = 1 ELSE 0

Preinitialized == {Code, TrieData, AccountsList, StorageList}

\* The polynomial that is zero on the preinitialized segments, and its factor.
PreinitAux(seg) == ((seg - AccountsList) * (seg - StorageList)) % P
Preinit(seg) == ((seg - Code) * (seg - TrieData) * PreinitAux(seg)) % P

SameAddress(lv, nv) == lv.ctx = nv.ctx /\ lv.seg = nv.seg /\ lv.virt = nv.virt
Unchanged(lv) == 1 - lv.cfc - lv.sfc - lv.vfc
Zero(x) == x % P = 0

\* A row that is no operation of another table is a read.
OpConstraints(lv) ==
    /\ Zero(lv.filter * (lv.filter - 1))
    /\ Zero((1 - lv.filter) * (1 - lv.isRead))

\* What holds in every row.
RowConstraints(lv) ==
    /\ OpConstraints(lv)
    /\ Zero(lv.cfc * (1 - lv.cfc)) /\ Zero(lv.sfc * (1 - lv.sfc)) /\ Zero(lv.vfc * (1 - lv.vfc))
    /\ Zero(Unchanged(lv) * (1 - Unchanged(lv)))
    /\ Zero(lv.after * (lv.after - 1))
    /\ Zero((lv.after - lv.maybe) * lv.pre * lv.val)
    /\ Zero(lv.ts * (lv.ts * lv.tsInv - 1))

\* Mutant: the range check is not tied to the difference.
OrderConstraints_norange(lv, nv) ==
    /\ Zero(Unchanged(lv) * (nv.ctx - lv.ctx))
    /\ Zero(Unchanged(lv) * (nv.seg - lv.seg))
    /\ Zero(Unchanged(lv) * (nv.virt - lv.virt))

\* Only a column left of the one that is said to change first stays as it is,
\* and the first to change is range-checked.
OrderConstraints(lv, nv) ==
    /\ Zero(lv.sfc * (nv.ctx - lv.ctx))
    /\ Zero(lv.vfc * (nv.ctx - lv.ctx)) /\ Zero(lv.vfc * (nv.seg - lv.seg))
    /\ Zero(Unchanged(lv) * (nv.ctx - lv.ctx))
    /\ Zero(Unchanged(lv) * (nv.seg - lv.seg))
    /\ Zero(Unchanged(lv) * (nv.virt - lv.virt))
    /\ Zero(lv.rc - (  lv.cfc * (nv.ctx - lv.ctx - 1) + lv.sfc * (nv.seg - lv.seg - 1)
                     + lv.vfc * (nv.virt - lv.virt - 1) + Unchanged(lv) * (nv.ts - lv.ts)))

ValueConstraints(lv, nv) ==
    /\ Zero(lv.preAux - PreinitAux(nv.seg))
    /\ Zero(lv.pre - (nv.seg - Code) * (nv.seg - TrieData) * lv.preAux)
    /\ Zero(lv.init - lv.pre * (1 - Unchanged(lv)) * nv.isRead)
    /\ Zero(nv.isRead * Unchanged(lv) * (nv.val - lv.val))
    /\ Zero(lv.init * nv.val)
    /\ Zero(lv.maybe + lv.filter * (1 - Unchanged(lv)) * (lv.isStale - 1))

\* What holds between a row and the next.
TransitionConstraints(lv, nv) == OrderConstraints(lv, nv) /\ ValueConstraints(lv, nv)

----------------------------------------------------------------------------
(* The execution, and the generation of its table.                         *)

Contexts == {a[1] : a \in Addresses}
Op(filter, ts, a, isRead, v) ==
    [filter |-> Bool(filter), ts |-> ts, ctx |-> a[1], seg |-> a[2], virt |-> a[3],
     isRead |-> Bool(isRead), val |-> v]
AddressOf(op) == <<op.ctx, op.seg, op.virt>>

\* Memory that no segment wrote holds zero; a preinitialized segment is read
\* only where it was initialized.
Init ==
    /\ phase = "run" /\ clock = 0
    /\ \E D \in SUBSET Addresses : before \in [D -> Values]
    /\ \A a \in Addresses : a[2] \in Preinitialized => a \in DOMAIN before
    /\ \A a \in DOMAIN before : before[a] = 0 => a[2] \in Preinitialized
    /\ mem = [a \in Addresses |-> IF a \in DOMAIN before THEN before[a] ELSE 0]
    /\ ops = <<>> /\ stale = {} /\ rows = <<>>

Log(a, isRead, v) ==
    /\ phase = "run" /\ Len(ops) < MaxOps /\ a[1] \notin stale
    /\ \E w \in Waits : clock' = clock + w
    /\ ops' = Append(ops, Op(TRUE, clock', a, isRead, v))
    /\ UNCHANGED <<phase, before, stale, rows>>

Read(a) == Log(a, TRUE, mem[a]) /\ UNCHANGED mem
Write(a, v) == Log(a, FALSE, v) /\ mem' = [mem EXCEPT ![a] = v]

\* SET_CONTEXT may prune the context it leaves; the kernel's is never pruned.
Prune(c) ==
    /\ phase = "run" /\ c \notin stale /\ c # 0
    /\ stale' = stale \cup {c}
    /\ UNCHANGED <<phase, clock, before, mem, ops, rows>>

(***************************************************************************)
(* Generation.                                                             *)
(***************************************************************************)
\* MemoryOp::sorting_key
Before(x, y) ==
    LET k == <<x.ctx, x.seg, x.virt, x.ts>>
        l == <<y.ctx, y.seg, y.virt, y.ts>>
    IN  \E i \in 1 .. 4 : k[i] < l[i] /\ \A j \in 1 .. i - 1 : k[j] = l[j]
Sorted(s) == SortSeq(s, Before)

NextPowerOfTwo(n) == CHOOSE x \in 1 .. 2 * n : x >= n /\ \E k \in 0 .. n : x = 2 ^ k /\ (k > 0 => 2 ^ (k - 1) < n)

\* A dummy at address zero if the table would start elsewhere.
WithFirst(s) ==
    IF s[1].virt = 0 THEN s ELSE <<Op(FALSE, 1, <<0, 0, 0>>, TRUE, 0)>> \o s

\* The dummies between operation c and the next, n: where the segment
\* changes, down from n's address; where the virtual address does, up from
\* c's; else from c's time on.  k counts the turns of the loop.
Dummies(c, n, max) ==
    LET dummy(virt, ts, v) == Op(FALSE, ts, <<n.ctx, n.seg, virt>>, TRUE, v)
    IN  IF c.ctx # n.ctx \/ c.seg # n.seg
        THEN {dummy(n.virt - k * max, c.ts + 1, 0) :
                 k \in {k \in 1 .. n.virt : n.virt - (k - 1) * max > max}}
        ELSE IF c.virt # n.virt
        THEN {dummy(c.virt + k * (max + 1), c.ts + k, 0) :
                 k \in {k \in 1 .. n.virt : n.virt - (c.virt + (k - 1) * (max + 1)) - 1 > max}}
        ELSE {dummy(c.virt, c.ts + k * max, c.val) :
                 k \in {k \in 1 .. n.ts : n.ts - (c.ts + (k - 1) * max) > max}}

FillGaps(s) ==
    LET t == WithFirst(s)
        max == NextPowerOfTwo(Len(t)) - 1
    IN  t \o SetToSeq(UNION {Dummies(t[i], t[i + 1], max) : i \in 1 .. Len(t) - 1})

\* pad_memory_ops: at least one read behind the last address.
Pad(s) ==
    LET last == Last(s)
        pad == Op(FALSE, last.ts + 1, <<last.ctx, last.seg, last.virt + 1>>, TRUE, 0)
    IN  s \o [i \in 1 .. NextPowerOfTwo(Len(s) + 1) - Len(s) |-> pad]

MemBeforeOps == {Op(TRUE, 0, a, FALSE, before[a]) : a \in DOMAIN before}

Generate ==
    /\ phase = "run" /\ Len(ops) + Cardinality(DOMAIN before) > 1
    /\ ops' = Sorted(ops \o SetToSeq(MemBeforeOps))
    /\ phase' = "sorted"
    /\ UNCHANGED <<clock, before, mem, stale, rows>>

Fill ==
    /\ phase = "sorted"
    /\ ops' = Sorted(FillGaps(ops))
    /\ phase' = "filled"
    /\ UNCHANGED <<clock, before, mem, stale, rows>>

PadTable ==
    /\ phase = "filled"
    /\ ops' = Sorted(Pad(ops))
    /\ phase' = "padded"
    /\ UNCHANGED <<clock, before, mem, stale, rows>>

\* generate_first_change_flags_and_rc, for operation i of s and the one after,
\* the first one for the last.
FirstChange(s, i) ==
    LET r == s[i]
        n == IF i = Len(s) THEN s[1] ELSE s[i + 1]
        cfc == r.ctx # n.ctx
        sfc == ~cfc /\ r.seg # n.seg
        vfc == ~cfc /\ ~sfc /\ r.virt # n.virt
    IN  [cfc |-> Bool(cfc), sfc |-> Bool(sfc), vfc |-> Bool(vfc),
         rc |-> CASE i = Len(s) -> 0
                  [] i < Len(s) /\ cfc -> (n.ctx - r.ctx - 1) % P
                  [] i < Len(s) /\ sfc -> (n.seg - r.seg - 1) % P
                  [] i < Len(s) /\ vfc -> (n.virt - r.virt - 1) % P
                  [] OTHER -> (n.ts - r.ts) % P,
         preAux |-> PreinitAux(n.seg), pre |-> Preinit(n.seg),
         init |-> (Preinit(n.seg) * Bool(cfc \/ sfc \/ vfc) * n.isRead) % P]

\* generate_trace_col_major: which rows are handed to the next segment.
Propagated(r, isStale) ==
    LET maybe == ~isStale /\ r.filter = 1 /\ r.cfc + r.sfc + r.vfc > 0
    IN  [isStale |-> Bool(isStale), maybe |-> Bool(maybe),
         after |-> Bool(maybe /\ (r.val # 0 \/ r.seg \in Preinitialized))]

Columns(s, i) ==
    LET r == FirstChange(s, i) @@ s[i]
    IN  Propagated(r, r.ctx \in stale)
            @@ [tsInv |-> Inverse0(r.ts)] @@ [stales |-> IF i - 1 \in stale THEN i ELSE 0] @@ r

FillColumns ==
    /\ phase = "padded"
    /\ rows' = [i \in 1 .. Len(ops) |-> Columns(ops, i)]
    /\ phase' = "done"
    /\ UNCHANGED <<clock, before, mem, ops, stale>>

Done == phase = "done" /\ UNCHANGED vars

Next ==
    \/ \E a \in Addresses : Read(a) \/ \E v \in Values : Write(a, v)
    \/ \E c \in Contexts : Prune(c)
    \/ Generate \/ Fill \/ PadTable \/ FillColumns \/ Done

Spec == Init /\ [][Next]_vars

----------------------------------------------------------------------------
Height == Len(rows)
NextRow(i) == IF i = Height THEN 1 ELSE i + 1

\* The table satisfies every constraint, for whatever execution it records.
TableAccepted ==
    phase = "done" =>
        /\ \A i \in 1 .. Height : RowConstraints(rows[i])
        /\ \A i \in 1 .. Height - 1 : TransitionConstraints(rows[i], rows[i + 1])

\* The gaps are filled: every difference, and the first virtual address of
\* every segment, is found among the row numbers; so is the context of every
\* pruned row among the stale contexts.
LookupsFound ==
    phase = "done" =>
        \A i \in 1 .. Height :
            /\ rows[i].rc < Height
            /\ rows[i].cfc + rows[i].sfc = 1 => rows[NextRow(i)].virt < Height
            /\ rows[i].isStale = 1 => \E j \in 1 .. Height : rows[j].stales = rows[i].ctx + 1
            /\ \A c \in stale : c < Height

\* The rows at time zero are the values the segment started from, and the rows
\* handed on are the memory it leaves: no value is lost, none is handed on
\* twice, and what a pruned context left behind is dropped.
MemoryHandedOn ==
    phase = "done" =>
        LET atZero == {i \in 1 .. Height : rows[i].ts * rows[i].tsInv % P = 0 /\ rows[i].filter = 1}
            after == {i \in 1 .. Height : rows[i].after = 1}
            kept == {a \in Addresses :
                        /\ a[1] \notin stale
                        /\ mem[a] # 0 \/ a[2] \in Preinitialized}
        IN  /\ {<<AddressOf(rows[i]), rows[i].val>> : i \in atZero} = {<<a, before[a]>> : a \in DOMAIN before}
            /\ {<<AddressOf(rows[i]), rows[i].val>> : i \in after} = {<<a, mem[a]>> : a \in kept}
            /\ \A i, j \in after : i # j => AddressOf(rows[i]) # AddressOf(rows[j])

----------------------------------------------------------------------------
(* Any two rows that are accepted.  The range check looks the difference   *)
(* up among the row numbers, and the first virtual address of a segment    *)
(* too.                                                                    *)

Operations == [filter : {0, 1}, isRead : {0, 1}, ctx : Ctxs, seg : Segs, virt : Virts,
               ts : Times, val : Values]

PairInit ==
    /\ phase = "one" /\ rows \in {<<r>> : r \in {r \in Operations : OpConstraints(r)}}
    /\ clock = 0 /\ before = <<>> /\ mem = <<>> /\ ops = <<>> /\ stale = {}

\* The columns that depend on the next row, as far as no constraint fixes them;
\* the constraints on a row let at most one of the change flags be raised.
Flags ==
    {f \in [cfc : {0, 1}, sfc : {0, 1}, vfc : {0, 1}, rc : 0 .. PairHeight - 1,
            isStale : {0, 1}, maybe : {0, 1}, after : {0, 1}] : f.cfc + f.sfc + f.vfc <= 1}

Full(r, next, f) ==
    [filter |-> r.filter, isRead |-> r.isRead, ctx |-> r.ctx, seg |-> r.seg, virt |-> r.virt,
     ts |-> r.ts, val |-> r.val, tsInv |-> Inverse0(r.ts),
     cfc |-> f.cfc, sfc |-> f.sfc, vfc |-> f.vfc, rc |-> f.rc,
     isStale |-> f.isStale, maybe |-> f.maybe, after |-> f.after,
     preAux |-> PreinitAux(next.seg), pre |-> Preinit(next.seg),
     init |-> (Preinit(next.seg) * (f.cfc + f.sfc + f.vfc) * next.isRead) % P]

\* The prover chooses the next row and the flags of this one.
Choose ==
    /\ phase = "one"
    /\ \E next \in {n \in Operations : OpConstraints(n)},
          f \in Flags :
          /\ f.cfc + f.sfc = 1 => next.virt \in 0 .. PairHeight - 1
          /\ \E row \in {Full(rows[1], next, f)} :
                /\ RowConstraints(row) /\ TransitionConstraints(row, next)
                /\ rows' = <<row, next>>
    /\ phase' = "pair"
    /\ UNCHANGED <<clock, before, mem, ops, stale>>

PairSpec == PairInit /\ [][Choose]_vars

Local == rows[1]
Following == rows[2]

\* A read of the same address returns the value of the row before, and time
\* does not go back there: the range check leaves no way to call an address
\* changed that is the same.
ReadsPrevious ==
    phase = "pair" /\ SameAddress(Local, Following) =>
        /\ Following.isRead = 1 => Following.val = Local.val
        /\ (Following.ts - Local.ts) % P < PairHeight

\* A first read outside the preinitialized segments returns zero.
FirstReadZero ==
    phase = "pair" /\ ~SameAddress(Local, Following) /\ Following.isRead = 1
        /\ Following.seg \notin Preinitialized => Following.val = 0

\* Only the last row of an address is handed to the next segment, and only if
\* it is a real operation of a context that was not pruned.
MemAfterLastRow ==
    phase = "pair" /\ Local.maybe = 1 =>
        Local.filter = 1 /\ Local.isStale = 0 /\ ~SameAddress(Local, Following)

\* memory_stark.rs: "`mem_after_filter` is equal to `maybe_in_mem_after` if:
\* segment is not preinitialized OR value is not zero."
MemAfterFilter ==
    phase = "pair" /\ (Local.seg \notin Preinitialized \/ Local.val # 0) => Local.after = Local.maybe
=============================================================================
