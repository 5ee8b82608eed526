---------------------------- MODULE StackManipulation ----------------------------
(***************************************************************************)
(* How the assembler expands %stack (before) -> (after)                    *)
(* (stack/stack_manipulation.rs): the cheapest sequence of PUSH, POP, DUP  *)
(* and SWAP that turns the one stack into the other, found by Dijkstra's   *)
(* algorithm over a pruned set of operations.  The same search without the *)
(* pruning gives the cost the result is compared with.                     *)
(*                                                                         *)
(* Stacks have their top at the end.  All nodes of the least cost leave    *)
(* the queue together: every operation costs something, so they do not     *)
(* affect each other, and the heap's order among them is not specified.    *)
(*                                                                         *)
(* Where the stacks are rearrangements of one another the search takes the *)
(* first of the swaps that get_stack_ops_for_perm finds                    *)
(* (stack/permutations.rs): a permutation as a list of cycles, cycles      *)
(* joined through equal items, and the swaps of a cycle.  They are also    *)
(* explored by themselves (PermuteInit, PermuteNext), on every pair of     *)
(* rearrangements.  There, positions count from the top, 0.                *)
(***************************************************************************)
EXTENDS Naturals, Sequences, FiniteSets, FiniteSetsExt, SequencesExt

CONSTANTS
    Names,           \* named items, in the order of the source stack
    Targets,         \* what may be pushed
    MaxDst,          \* longest destination
    MaxStack,        \* longest stack the permutations and the reference search visit
    CpuColumns, MemColumns, PushBytes

StackManipulationAssumption ==
    /\ MaxDst \in Nat /\ MaxStack \in Nat /\ MaxDst <= MaxStack
    /\ CpuColumns \in Nat \ {0} /\ MemColumns \in Nat \ {0} /\ PushBytes \in Nat

VARIABLES
    src, dst,
    phase,           \* where the search, or the permutation, is
    queue,           \* nodes to visit: [stack, cost]
    info,            \* stack -> [cost, op], and the stack it was reached from
    settled,         \* stacks the reference search is done with
    path,            \* the operations found
    pathCost,
    todo,            \* the repeated items that are still to be combined
    perm, swaps      \* the cycles, and the swaps made of them

vars == <<src, dst, phase, queue, info, settled, path, pathCost>>
permuteVars == <<src, dst, phase, todo, perm, swaps>>

----------------------------------------------------------------------------
(* permutations.rs *)

\* The occurrences of x in s.
Count(s, x) == Cardinality({i \in 1 .. Len(s) : s[i] = x})
IsPermutation(a, b) ==
    Len(a) = Len(b) /\ \A x \in ToSet(a) \cup ToSet(b) : Count(a, x) = Count(b, x)

Misplaced(a, b) == {i \in 0 .. Len(a) - 1 : a[i + 1] # b[i + 1]}

\* loc_b: the positions where b has x and a has not, popped from the end.
LocB(a, b, x) == {i \in Misplaced(a, b) : b[i + 1] = x}

\* The cycle through j, given the positions of b that are used up; each
\* position is followed by the last free one of its item.
RECURSIVE Cycle(_, _, _, _, _)
Cycle(a, b, start, cycle, popped) ==
    LET j == Max(LocB(a, b, a[Last(cycle) + 1]) \ popped)
    IN  IF j = start THEN cycle ELSE Cycle(a, b, start, Append(cycle, j), popped \cup {j})

RECURSIVE Cycles(_, _, _, _)
Cycles(a, b, done, popped) ==
    LET left == Misplaced(a, b) \ done
    IN  IF left = {} THEN <<>>
        ELSE LET c == Cycle(a, b, Min(left), <<Min(left)>>, popped)
             IN  <<c>> \o Cycles(a, b, done \cup ToSet(c), popped \cup ToSet(c))

\* STEP 1, with the trivial cycle of the top if the top is in its place.
FindPermutation(a, b) ==
    (IF 0 \in Misplaced(a, b) THEN <<>> ELSE <<<<0>>>>) \o Cycles(a, b, {}, {})

\* The first of the positions (in their order) that the cycle contains.
FirstOf(cycle, positions) == Min(positions \cap ToSet(cycle))
PosOf(cycle, x) == CHOOSE i \in 1 .. Len(cycle) : cycle[i] = x

\* Two cycles with equal items become one.
Join(joined, at, cycle, positions) ==
    LET n == PosOf(cycle, FirstOf(cycle, positions))
    IN  SubSeq(joined, 1, at) \o SubSeq(cycle, n + 1, Len(cycle)) \o SubSeq(cycle, 1, n)
            \o SubSeq(joined, at + 1, Len(joined))

\* STEP 2 for one item: the cycles that contain a position of it are joined,
\* and moved behind the others.
CombineItem(cycles, positions) ==
    LET meets(c) == positions \cap ToSet(c) # {}
        with == SelectSeq(cycles, meets)
        at == PosOf(with[1], FirstOf(with[1], positions))
        joined == FoldLeft(LAMBDA acc, c : Join(acc, at, c, positions), with[1], Tail(with))
    IN  IF with = <<>> THEN cycles
        ELSE SelectSeq(cycles, LAMBDA c : ~meets(c)) \o <<joined>>

\* STEP 3.
Transpositions(cycle) ==
    LET n == Len(cycle)
    IN  IF 0 \in ToSet(cycle)
        THEN LET pos == PosOf(cycle, 0) - 1 IN [i \in 1 .. n - 1 |-> cycle[((n + pos - i) % n) + 1]]
        ELSE [i \in 1 .. n + 1 |-> cycle[((n - (i - 1)) % n) + 1]]
PermutationToTranspositions(cycles) == FlattenSeq([i \in 1 .. Len(cycles) |-> Transpositions(cycles[i])])

\* Swap the top with position i.
SwapTop(s, i) == [s EXCEPT ![1] = s[i + 1], ![i + 1] = s[1]]

\* The last transposition is applied first.
ApplySwaps(s, list) == FoldRight(LAMBDA i, t : SwapTop(t, i), list, s)

\* The items with more than one position, and whether there is anything to join.
Repeated(a) == {x \in ToSet(a) : Count(a, x) > 1}
PositionsOf(a, x) == {i \in 0 .. Len(a) - 1 : a[i + 1] = x}

AllStacks == UNION {[1 .. n -> ToSet(Names)] : n \in 1 .. MaxStack}

PermuteInit ==
    /\ src \in AllStacks
    /\ dst \in {s \in [1 .. Len(src) -> ToSet(Names)] : IsPermutation(src, s) /\ s # src}
    /\ phase = "find" /\ todo = {} /\ perm = <<>> /\ swaps = <<>>

Find ==
    /\ phase = "find"
    /\ perm' = FindPermutation(src, dst)
    /\ todo' = IF Len(perm') = 1 THEN {} ELSE Repeated(src)
    /\ phase' = "combine"
    /\ UNCHANGED <<src, dst, swaps>>

\* combine_cycles takes the items in the order of a hash map: in any order.
Combine ==
    /\ phase = "combine"
    /\ \E x \in todo :
          /\ perm' = CombineItem(perm, PositionsOf(src, x))
          /\ todo' = todo \ {x}
    /\ UNCHANGED <<src, dst, phase, swaps>>

ToSwaps ==
    /\ phase = "combine" /\ todo = {}
    /\ swaps' = PermutationToTranspositions(perm)
    /\ phase' = "done"
    /\ UNCHANGED <<src, dst, todo, perm>>

Permuted == phase = "done" /\ UNCHANGED permuteVars

PermuteNext == Find \/ Combine \/ ToSwaps \/ Permuted

PermuteSpec == PermuteInit /\ [][PermuteNext]_permuteVars

----------------------------------------------------------------------------
(* stack_manipulation.rs *)

Op(o, n, x) == [op |-> o, n |-> n, item |-> x]
Pop == Op("pop", 0, "")

Cost(o) ==
    CpuColumns + MemColumns * (CASE o.op = "push" -> PushBytes + 1
                                 [] o.op = "pop" -> 1
                                 [] o.op = "dup" -> 2
                                 [] o.op = "swap" -> 3)

Valid(o, s) == CASE o.op = "push" -> TRUE
                 [] o.op = "pop" -> s # <<>>
                 [] o.op = "dup" -> o.n <= Len(s)
                 [] o.op = "swap" -> o.n + 1 <= Len(s)

ApplyTo(o, s) ==
    CASE o.op = "push" -> Append(s, o.item)
      [] o.op = "pop" -> Front(s)
      [] o.op = "dup" -> Append(s, s[Len(s) + 1 - o.n])
      [] o.op = "swap" -> [s EXCEPT ![Len(s)] = s[Len(s) - o.n], ![Len(s) - o.n] = s[Len(s)]]

\* The swap to apply first to a rearrangement of the destination.
FirstSwap(s, d) ==
    LET a == Reverse(s)
        found == FindPermutation(a, Reverse(d))
        cycles == IF Len(found) = 1 THEN found
                  ELSE FoldLeft(LAMBDA p, x : CombineItem(p, PositionsOf(a, x)), found, SetToSeq(Repeated(a)))
    IN  Op("swap", Last(PermutationToTranspositions(cycles)), "")

\* Positions here are from the bottom, 1.
ShouldTrySwap(s, d, i) ==
    LET from == Len(s)
        to == from - i
    IN  \/ to <= Len(d) /\ s[from] = d[to]
        \/ from <= Len(d) /\ s[to] = d[from]

Missing(s, d, x) == Count(s, x) < Count(d, x)

\* Mutant: what can be pushed is never duplicated.
NextOps_pushed(s, d) ==
    IF s # <<>> /\ Last(s) \notin ToSet(d) THEN {Pop}
    ELSE IF IsPermutation(s, d) THEN {FirstSwap(s, d)}
    ELSE {Pop}
         \cup {Op("push", 0, t) : t \in {t \in Targets \cap ToSet(d) : Missing(s, d, t)}}
         \cup {Op("dup", i, "") : i \in {i \in 1 .. Len(s) : LET x == s[Len(s) + 1 - i]
                                                             IN  x \notin Targets /\ Missing(s, d, x)}}
         \cup {Op("swap", i, "") : i \in {i \in 1 .. Len(s) - 1 : ShouldTrySwap(s, d, i)}}

NextOps(s, d) ==
    IF s # <<>> /\ Last(s) \notin ToSet(d) THEN {Pop}
    ELSE IF IsPermutation(s, d) THEN {FirstSwap(s, d)}
    ELSE {Pop}
         \cup {Op("push", 0, t) : t \in {t \in Targets \cap ToSet(d) : Missing(s, d, t)}}
         \cup {Op("dup", i, "") : i \in {i \in 1 .. Len(s) : Missing(s, d, s[Len(s) + 1 - i])}}
         \cup {Op("swap", i, "") : i \in {i \in 1 .. Len(s) - 1 : ShouldTrySwap(s, d, i)}}

\* Every operation there is, on stacks that do not grow past the bound.
AllOps(s, d) ==
    {Pop} \cup {Op("swap", i, "") : i \in 1 .. Len(s) - 1}
          \cup IF Len(s) = MaxStack THEN {}
               ELSE {Op("push", 0, t) : t \in Targets} \cup {Op("dup", i, "") : i \in 1 .. Len(s)}

----------------------------------------------------------------------------
Node(s, c) == [stack |-> s, cost |-> c]
Start == Node(src, 0)
NoOp == Op("none", 0, "")

Init ==
    /\ src \in {SubSeq(Names, 1, n) : n \in 0 .. Len(Names)}
    /\ dst \in UNION {[1 .. n -> ToSet(Names) \cup Targets] : n \in 0 .. MaxDst}
    /\ \A x \in ToSet(dst) : x \in ToSet(src) \cup Targets
    /\ phase = "search"
    /\ queue = {Start}
    /\ info = (src :> [cost |-> 0, op |-> NoOp, parent |-> src])
    /\ settled = {} /\ path = <<>> /\ pathCost = 0

LeastCost == Min({n.cost : n \in queue})
Least == {n \in queue : n.cost = LeastCost}
Found == \E n \in Least : n.stack = dst

Edges(nodes, ops(_, _)) ==
    UNION {{[from |-> n.stack, op |-> o, to |-> ApplyTo(o, n.stack), cost |-> n.cost + Cost(o)] :
               o \in {o \in ops(n.stack, dst) : Valid(o, n.stack)}} : n \in nodes}

\* The neighbours of the least nodes, but for nodes that were reached cheaper
\* since they were queued, and for neighbours that are known as cheap.
Expand ==
    LET live == {n \in Least : info[n.stack].cost = n.cost}
        better == {e \in Edges(live, NextOps) : e.to \in DOMAIN info => e.cost < info[e.to].cost}
        best == [s \in {e.to : e \in better} |->
                    CHOOSE e \in better : e.to = s /\ \A g \in better : g.to = s => e.cost <= g.cost]
    IN  /\ queue' = (queue \ Least) \cup {Node(s, best[s].cost) : s \in DOMAIN best}
        /\ info' = [s \in DOMAIN best |-> [cost |-> best[s].cost, op |-> best[s].op, parent |-> best[s].from]]
                       @@ info

\* Back from the destination to the source.
RECURSIVE Rewind(_)
Rewind(s) ==
    IF info[s].op = NoOp THEN <<>> ELSE Append(Rewind(info[s].parent), info[s].op)

\* An empty queue is "No path found".
Search ==
    /\ phase = "search"
    /\ IF queue = {} THEN phase' = "panic" /\ UNCHANGED <<queue, info>>
       ELSE ~Found /\ Expand /\ UNCHANGED phase
    /\ UNCHANGED <<src, dst, settled, path, pathCost>>

Finish ==
    /\ phase = "search" /\ queue # {} /\ Found
    /\ path' = Rewind(dst) /\ pathCost' = LeastCost
    /\ phase' = "reference"
    /\ queue' = {Start}
    /\ info' = <<>>
    /\ UNCHANGED <<src, dst, settled>>

\* The reference: every operation, in the order of the costs.
Reference ==
    /\ phase = "reference" /\ LeastCost < pathCost /\ ~Found
    /\ LET done == settled \cup {n.stack : n \in Least}
           new == {e \in Edges({n \in Least : n.stack \notin settled}, AllOps) : e.to \notin done}
       IN  /\ settled' = done
           /\ queue' = (queue \ Least) \cup {Node(e.to, e.cost) : e \in new}
    /\ UNCHANGED <<src, dst, phase, info, path, pathCost>>

Compare ==
    /\ phase = "reference"
    /\ LeastCost >= pathCost \/ Found
    /\ phase' = IF LeastCost < pathCost THEN "dearer" ELSE "done"
    /\ queue' = {} /\ settled' = {}
    /\ UNCHANGED <<src, dst, info, path, pathCost>>

Done == phase \in {"done", "dearer", "panic"} /\ UNCHANGED vars

Next == Search \/ Finish \/ Reference \/ Compare \/ Done

Spec == Init /\ [][Next]_vars

----------------------------------------------------------------------------
\* The pruning never cuts the search off from the destination.
PathFound == phase # "panic"

\* The operations found turn the source stack into the destination.
PathRight ==
    phase \in {"done", "dearer"} =>
        FoldLeft(LAMBDA s, o : IF Valid(o, s) THEN ApplyTo(o, s) ELSE <<"underflow">>, src, path) = dst

\* stack_manipulation.rs: shortest_path "finds the lowest-cost sequence of
\* `StackOp`s that transforms `src` to `dst`".
PathCheapest == phase # "dearer"

\* The stacks that n swaps can reach from s.
RECURSIVE ReachIn(_, _)
ReachIn(S, n) ==
    IF n = 0 THEN S
    ELSE ReachIn(S \cup {SwapTop(s, i) : s \in S, i \in 1 .. Len(src) - 1}, n - 1)

\* The swaps turn the one stack into the other, and there is at least one: the
\* assembler takes the one to apply first without looking.
SwapsRight == phase = "done" => swaps # <<>> /\ ApplySwaps(src, swaps) = dst

\* The cycles stay disjoint while they are joined, and hold every misplaced
\* position.
CyclesDisjoint ==
    phase = "combine" =>
        LET all == FlattenSeq(perm)
        IN  /\ Cardinality(ToSet(all)) = Len(all)
            /\ Misplaced(src, dst) \subseteq ToSet(all)

\* No shorter list of swaps does it: the sequence is optimal, as
\* get_stack_ops_for_perm says, in whatever order the items were combined.
SwapsFewest == phase = "done" => dst \notin ReachIn({src}, Len(swaps) - 1)
=============================================================================
