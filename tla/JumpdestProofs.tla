---------------------------- MODULE JumpdestProofs ----------------------------
(***************************************************************************)
(* The bits of SEGMENT_JUMPDEST_BITS, for every length of the longest PUSH *)
(* and every length of the code: whatever addresses and proofs the prover  *)
(* sends, the kernel sets a bit only at a jump destination; and the table  *)
(* the repository's prover sends is accepted and marks every destination   *)
(* it was asked for.                                                       *)
(*                                                                         *)
(* The reference IsInstruction, the kernel's walk Path, the prover's walk  *)
(* CodeIterator and its fold over the instructions are recursive           *)
(* functions.  Each is shown to satisfy its equation by giving a function  *)
(* that does, made from the smallest set closed under one step.  What the  *)
(* equations say of every position then follows from the least position at *)
(* which it would fail.                                                    *)
(*                                                                         *)
(* And the table itself: the simulation of a call records every target the *)
(* real execution of it jumps to.                                          *)
(***************************************************************************)
EXTENDS JumpdestAnalysis, JumpdestSimulation, WellFoundedInduction, TLAPS

\* A nonempty set of numbers has a least one.
LEMMA LeastNumber ==
    ASSUME NEW T, T \subseteq Nat, T # {}
    PROVE  \E n \in T : \A m \in T : n <= m
<1> DEFINE R == OpToRel(<, Nat)
<1>1. IsWellFoundedOn(R, Nat)
  BY NatLessThanWellFounded
<1>2. \A m, n \in Nat : m < n => <<m, n>> \in R
  BY DEF OpToRel
<1> HIDE DEF R
<1>3. PICK n \in T : \A m \in T : ~ (<<m, n>> \in R)
  BY <1>1, WFMin
<1>4. ASSUME NEW m \in T
      PROVE  n <= m
  <2>1. m \in Nat /\ n \in Nat
    OBVIOUS
  <2>2. ~ (m < n)
    BY <1>2, <1>3, <2>1
  <2> QED
    BY <2>1, <2>2
<1> QED
  BY <1>4

\* The position behind the instruction at i.
Behind(c, i) == i + BytesToSkip(At(c, i))

LEMMA ByteTyped ==
    ASSUME NEW c \in Codes, NEW i \in Nat
    PROVE  /\ Len(c) \in 0 .. MaxLen
           /\ At(c, i) \in Bytes
<1>1. PICK n \in 0 .. MaxLen : c \in [1 .. n -> Bytes]
  BY DEF Codes
<1>2. n \in Nat /\ MaxLen \in Nat /\ W \in Nat
  BY JumpdestAssumption
<1>3. c \in Seq(Bytes) /\ Len(c) = n
  BY <1>1, <1>2
<1>4. 0 \in Bytes
  BY <1>2 DEF Bytes
<1>5. CASE i < Len(c)
  <2>1. i + 1 \in 1 .. n
    BY <1>2, <1>3, <1>5
  <2> QED
    BY <1>1, <1>3, <1>5, <2>1 DEF At
<1>6. CASE ~(i < Len(c))
  BY <1>3, <1>4, <1>6 DEF At
<1> QED
  BY <1>3, <1>5, <1>6

\* An instruction is one byte and the argument of its PUSH.
LEMMA BehindTyped ==
    ASSUME NEW c \in Codes, NEW i \in Nat
    PROVE  /\ Behind(c, i) \in Nat
           /\ i < Behind(c, i)
           /\ Behind(c, i) <= i + W + 1
<1>1. At(c, i) \in Bytes
  BY ByteTyped
<1> QED
  BY <1>1, JumpdestAssumption DEF Behind, BytesToSkip, IsPush, Bytes

\* The equation of IsInstruction, solved by the positions that lie in every
\* set that holds 0 and, with a position, the one behind its instruction.
LEMMA InstructionEquation ==
    ASSUME NEW c \in Codes
    PROVE  LET I == IsInstruction(c)
           IN  I = [i \in 0 .. MaxLen |->
                       i = 0 \/ \E j \in 0 .. i - 1 : I[j] /\ j + BytesToSkip(At(c, j)) = i]
<1> DEFINE Closed(T) == 0 \in T /\ \A j \in T : Behind(c, j) \in T
           Starts == {i \in Nat : \A T \in SUBSET Nat : Closed(T) => i \in T}
           f == [i \in 0 .. MaxLen |-> i \in Starts]
           Body(g, i) == i = 0 \/ \E j \in 0 .. i - 1 : g[j] /\ j + BytesToSkip(At(c, j)) = i
<1>0. MaxLen \in Nat
  BY JumpdestAssumption
<1>1. Closed(Starts)
  <2>1. 0 \in Starts
    OBVIOUS
  <2>2. ASSUME NEW j \in Starts
        PROVE  Behind(c, j) \in Starts
    <3>1. Behind(c, j) \in Nat
      BY BehindTyped
    <3>2. ASSUME NEW T \in SUBSET Nat, Closed(T)
          PROVE  Behind(c, j) \in T
      BY <3>2
    <3> QED
      BY <3>1, <3>2
  <2> QED
    BY <2>1, <2>2
<1>2. ASSUME NEW i \in Starts, i # 0
      PROVE  \E j \in Starts : Behind(c, j) = i
  <2> SUFFICES ASSUME \A j \in Starts : Behind(c, j) # i
               PROVE  FALSE
    OBVIOUS
  <2>1. Closed(Starts \ {i})
    BY <1>1, <1>2
  <2>2. Starts \ {i} \in SUBSET Nat
    OBVIOUS
  <2> QED
    BY <2>1, <2>2
<1> HIDE DEF Starts
<1>3. Starts \subseteq Nat
  BY DEF Starts
<1>4. ASSUME NEW i \in 0 .. MaxLen
      PROVE  f[i] = Body(f, i)
  <2>1. i \in Nat /\ \A j \in 0 .. i - 1 : j \in 0 .. MaxLen /\ j \in Nat /\ j < i
    BY <1>0
  <2>2. ASSUME i \in Starts, i # 0
        PROVE  \E j \in 0 .. i - 1 : f[j] /\ j + BytesToSkip(At(c, j)) = i
    <3>1. PICK j \in Starts : Behind(c, j) = i
      BY <1>2, <2>2
    <3>2. j \in Nat /\ j < i
      BY <1>3, <3>1, BehindTyped
    <3>3. j \in 0 .. i - 1 /\ j \in 0 .. MaxLen
      BY <1>0, <2>1, <3>2
    <3> QED
      BY <3>1, <3>3 DEF Behind
  <2>3. ASSUME NEW j \in 0 .. i - 1, f[j], j + BytesToSkip(At(c, j)) = i
        PROVE  i \in Starts
    <3>1. j \in Starts
      BY <2>1, <2>3
    <3>2. Behind(c, j) = i
      BY <2>3 DEF Behind
    <3> QED
      BY <1>1, <3>1, <3>2
  <2>4. 0 \in Starts
    BY <1>1
  <2>5. f[i] = (i \in Starts)
    OBVIOUS
  <2> HIDE DEF f
  <2>6. (i \in Starts) <=> Body(f, i)
    BY <2>2, <2>3, <2>4
  <2>7. (i \in Starts) = Body(f, i)
    BY <2>6
  <2> QED
    BY <2>5, <2>7
<1>5. f = [i \in 0 .. MaxLen |-> Body(f, i)]
  BY <1>4
<1> HIDE DEF f
<1>6. \E g : g = [i \in 0 .. MaxLen |-> Body(g, i)]
  BY <1>5
<1> QED
  BY <1>6 DEF IsInstruction

\* The first byte starts an instruction, and so does the one behind one.
LEMMA InstructionsClosed ==
    ASSUME NEW c \in Codes
    PROVE  /\ IsInstruction(c)[0]
           /\ \A j \in 0 .. MaxLen :
                 IsInstruction(c)[j] /\ Behind(c, j) <= MaxLen => IsInstruction(c)[Behind(c, j)]
<1> DEFINE I == IsInstruction(c)
<1>1. I = [i \in 0 .. MaxLen |->
              i = 0 \/ \E j \in 0 .. i - 1 : I[j] /\ j + BytesToSkip(At(c, j)) = i]
  BY InstructionEquation
<1> HIDE DEF I
<1>2. MaxLen \in Nat
  BY JumpdestAssumption
<1>3. \A i \in 0 .. MaxLen :
          (i = 0 \/ \E j \in 0 .. i - 1 : I[j] /\ j + BytesToSkip(At(c, j)) = i) => I[i]
  <2> TAKE i \in 0 .. MaxLen
  <2> DEFINE X == i = 0 \/ \E j \in 0 .. i - 1 : I[j] /\ j + BytesToSkip(At(c, j)) = i
  <2>1. I[i] = X
    BY <1>1, Zenon
  <2> QED
    BY <2>1, Zenon
<1>4. I[0]
  BY <1>2, <1>3
<1>5. ASSUME NEW j \in 0 .. MaxLen, I[j], Behind(c, j) <= MaxLen
      PROVE  I[Behind(c, j)]
  <2>1. j \in Nat
    BY <1>2
  <2>2. Behind(c, j) \in 0 .. MaxLen /\ j \in 0 .. Behind(c, j) - 1
    BY <1>2, <1>5, <2>1, BehindTyped
  <2>3. j + BytesToSkip(At(c, j)) = Behind(c, j)
    BY DEF Behind
  <2> QED
    BY <1>3, <1>5, <2>2, <2>3
<1> QED
  BY <1>4, <1>5 DEF I

\* A window of W bytes that no PUSH leaves ends at an instruction: the last
\* instruction that starts before its end would have to reach over it.
LEMMA PrefixStartsInstruction ==
    ASSUME NEW c \in Codes, NEW p \in Nat,
           PrefixOK(c, p), p + W <= MaxLen
    PROVE  IsInstruction(c)[p + W]
<1> DEFINE I == IsInstruction(c)
           T == {d \in 0 .. p + W : I[p + W - d]}
<1>0. W \in Nat /\ MaxLen \in Nat
  BY JumpdestAssumption
<1>1. T \subseteq Nat
  BY <1>0
<1>2. p + W \in T
  <2>1. p + W - (p + W) = 0 /\ p + W \in 0 .. p + W
    BY <1>0
  <2> QED
    BY <2>1, InstructionsClosed
<1>3. PICK d \in T : \A m \in T : d <= m
  BY <1>1, <1>2, LeastNumber
<1> DEFINE j == p + W - d
<1>4. /\ d \in 0 .. p + W
      /\ j \in 0 .. MaxLen
      /\ j \in Nat
      /\ j <= p + W
      /\ j + d = p + W
      /\ I[j]
  BY <1>0, <1>3
<1>5. CASE d = 0
  <2>1. j = p + W
    BY <1>0, <1>5
  <2> QED
    BY <1>4, <2>1
<1>6. CASE d # 0
  <2> HIDE DEF j, I
  <2>1. Behind(c, j) \in Nat /\ j < Behind(c, j)
    BY <1>4, BehindTyped
  <2>2. Behind(c, j) > p + W
    <3> SUFFICES ASSUME Behind(c, j) <= p + W
                 PROVE  FALSE
      BY <1>0, <2>1
    <3>1. I[Behind(c, j)]
      BY <1>0, <1>4, <2>1, InstructionsClosed DEF I
    <3> DEFINE m == p + W - Behind(c, j)
    <3>2. m \in 0 .. p + W /\ p + W - m = Behind(c, j) /\ m < d
      BY <1>0, <1>4, <2>1
    <3>3. m \in T
      BY <3>1, <3>2
    <3> QED
      BY <1>3, <1>4, <3>2, <3>3
  <2>3. At(c, j) \in Nat
    BY <1>0, <1>4, ByteTyped DEF Bytes
  <2>4. IsPush(At(c, j)) /\ Behind(c, j) = j + At(c, j) + 1
    BY <1>0, <1>4, <1>6, <2>2, <2>3 DEF Behind, BytesToSkip
  <2>5. At(c, j) <= W
    BY <1>0, <2>3, <2>4 DEF IsPush
  <2> DEFINE k == j - p
  <2>6. k \in 0 .. W - 1 /\ p + k = j /\ At(c, j) >= W - k
    BY <1>0, <1>4, <1>6, <2>2, <2>3, <2>4, <2>5
  <2> QED
    BY <2>4, <2>6 DEF PrefixOK
<1> QED
  BY <1>5, <1>6

\* What the walk from j reaches, stopping at the first position at or behind
\* final: the positions of every set that holds j and, with a position before
\* final, the one behind its instruction.
ClosedUpTo(c, final, T) == \A k \in T : k < final => Behind(c, k) \in T
From(c, final, j) ==
    {k \in Nat : \A T \in SUBSET Nat : j \in T /\ ClosedUpTo(c, final, T) => k \in T}

LEMMA FromLeast ==
    ASSUME NEW c \in Codes, NEW final \in Nat, NEW j \in Nat
    PROVE  /\ From(c, final, j) \in SUBSET Nat
           /\ j \in From(c, final, j)
           /\ ClosedUpTo(c, final, From(c, final, j))
           /\ \A T \in SUBSET Nat :
                 j \in T /\ ClosedUpTo(c, final, T) => From(c, final, j) \subseteq T
<1>1. From(c, final, j) \in SUBSET Nat /\ j \in From(c, final, j)
  BY DEF From
<1>2. ASSUME NEW k \in From(c, final, j), k < final
      PROVE  Behind(c, k) \in From(c, final, j)
  <2>1. k \in Nat
    BY <1>1
  <2>2. Behind(c, k) \in Nat
    BY <2>1, BehindTyped
  <2>3. ASSUME NEW T \in SUBSET Nat, j \in T, ClosedUpTo(c, final, T)
        PROVE  Behind(c, k) \in T
    BY <1>2, <2>3 DEF From, ClosedUpTo
  <2> QED
    BY <2>2, <2>3 DEF From
<1>3. \A T \in SUBSET Nat :
          j \in T /\ ClosedUpTo(c, final, T) => From(c, final, j) \subseteq T
  BY DEF From
<1>4. ClosedUpTo(c, final, From(c, final, j))
  BY <1>2 DEF ClosedUpTo
<1> QED
  BY <1>1, <1>3, <1>4

LEMMA FromIs ==
    ASSUME NEW c \in Codes, NEW final \in Nat, NEW j \in Nat
    PROVE  /\ j >= final => From(c, final, j) = {j}
           /\ j < final => From(c, final, j) = {j} \cup From(c, final, Behind(c, j))
<1>1. ASSUME j >= final
      PROVE  From(c, final, j) = {j}
  <2>1. {j} \in SUBSET Nat /\ j \in {j}
    OBVIOUS
  <2>2. ClosedUpTo(c, final, {j})
    BY <1>1 DEF ClosedUpTo
  <2>3. From(c, final, j) \subseteq {j}
    BY <2>1, <2>2, FromLeast
  <2> QED
    BY <2>3, FromLeast
<1>2. ASSUME j < final
      PROVE  From(c, final, j) = {j} \cup From(c, final, Behind(c, j))
  <2> DEFINE b == Behind(c, j)
             T == {j} \cup From(c, final, b)
  <2>1. b \in Nat
    BY BehindTyped
  <2>2. /\ From(c, final, b) \in SUBSET Nat
        /\ b \in From(c, final, b)
        /\ ClosedUpTo(c, final, From(c, final, b))
    BY <2>1, FromLeast
  <2>3. T \in SUBSET Nat /\ j \in T /\ ClosedUpTo(c, final, T)
    BY <2>2 DEF ClosedUpTo
  <2>4. From(c, final, j) \subseteq T
    BY <2>3, FromLeast
  <2>5. /\ j \in From(c, final, j)
        /\ ClosedUpTo(c, final, From(c, final, j))
        /\ From(c, final, j) \in SUBSET Nat
    BY FromLeast
  <2>6. b \in From(c, final, j)
    BY <1>2, <2>5 DEF ClosedUpTo
  <2>7. From(c, final, b) \subseteq From(c, final, j)
    BY <2>1, <2>5, <2>6, FromLeast
  <2> QED
    BY <2>4, <2>5, <2>7
<1> QED
  BY <1>1, <1>2

\* The equation of the two walks, the kernel's, which keeps the position at or
\* behind final where it ends, and the prover's, which does not.
Walks(c, final, ends, P) ==
    P = [j \in 0 .. final + W |->
           IF j >= final THEN (IF ends THEN {j} ELSE {})
           ELSE {j} \cup P[j + BytesToSkip(At(c, j))]]

\* It has one solution.
LEMMA WalkIs ==
    ASSUME NEW c \in Codes, NEW final \in Nat, NEW ends \in BOOLEAN,
           NEW P, Walks(c, final, ends, P),
           NEW i \in 0 .. final + W
    PROVE  P[i] = {k \in From(c, final, i) : ends \/ k < final}
<1> DEFINE Right(j) == {k \in From(c, final, j) : ends \/ k < final}
           Wrong == {d \in 0 .. final + W : P[final + W - d] # Right(final + W - d)}
<1>0. W \in Nat /\ final + W \in Nat
  BY JumpdestAssumption
<1>1. ASSUME NEW j \in 0 .. final + W
      PROVE  P[j] = IF j >= final THEN (IF ends THEN {j} ELSE {}) ELSE {j} \cup P[Behind(c, j)]
  BY DEF Behind, Walks
<1>2. ASSUME NEW j \in 0 .. final + W, j >= final
      PROVE  P[j] = Right(j)
  <2>1. j \in Nat
    BY <1>0
  <2>2. From(c, final, j) = {j}
    BY <1>2, <2>1, FromIs
  <2>3. P[j] = IF ends THEN {j} ELSE {}
    BY <1>1, <1>2
  <2> QED
    BY <1>2, <2>1, <2>2, <2>3
<1>3. ASSUME NEW j \in 0 .. final + W, j < final, P[Behind(c, j)] = Right(Behind(c, j))
      PROVE  P[j] = Right(j)
  <2>1. j \in Nat
    BY <1>0
  <2>2. From(c, final, j) = {j} \cup From(c, final, Behind(c, j))
    BY <1>3, <2>1, FromIs
  <2>3. ~(j >= final)
    BY <1>3, <2>1
  <2>4. P[j] = {j} \cup P[Behind(c, j)]
    BY <1>1, <2>3
  <2> QED
    BY <1>3, <2>2, <2>4
<1> HIDE DEF Right
<1>4. Wrong = {}
  <2> SUFFICES ASSUME Wrong # {}
               PROVE  FALSE
    OBVIOUS
  <2>1. Wrong \subseteq Nat
    BY <1>0
  <2>2. PICK d \in Wrong : \A m \in Wrong : d <= m
    BY <2>1, LeastNumber
  <2> DEFINE j == final + W - d
  <2>3. d \in 0 .. final + W /\ j \in 0 .. final + W /\ j \in Nat /\ j + d = final + W
    BY <1>0, <2>2
  <2>4. P[j] # Right(j)
    BY <2>2
  <2> HIDE DEF j
  <2>5. j < final
    BY <1>2, <2>3, <2>4
  <2> DEFINE b == Behind(c, j)
             m == final + W - b
  <2>6. b \in Nat /\ j < b /\ b \in 0 .. final + W
    BY <1>0, <2>3, <2>5, BehindTyped
  <2>7. P[b] # Right(b)
    BY <1>3, <2>3, <2>4, <2>5
  <2> HIDE DEF b
  <2>8. m \in 0 .. final + W /\ final + W - m = b /\ m < d
    BY <1>0, <2>3, <2>6
  <2>9. m \in Wrong
    BY <2>7, <2>8
  <2>10. d <= m
    BY <2>2, <2>9
  <2> QED
    BY <1>0, <2>3, <2>8, <2>10
<1> DEFINE d == final + W - i
<1>5. d \in 0 .. final + W /\ final + W - d = i
  BY <1>0
<1>6. P[i] = Right(i)
  BY <1>4, <1>5
<1> QED
  BY <1>6 DEF Right

\* That equation has a solution.
LEMMA WalkExists ==
    ASSUME NEW c \in Codes, NEW final \in Nat, NEW ends \in BOOLEAN
    PROVE  \E P : Walks(c, final, ends, P)
<1> DEFINE Body(g, j) == IF j >= final THEN (IF ends THEN {j} ELSE {})
                         ELSE {j} \cup g[j + BytesToSkip(At(c, j))]
           Right(j) == {k \in From(c, final, j) : ends \/ k < final}
           f == [j \in 0 .. final + W |-> Right(j)]
<1>0. W \in Nat
  BY JumpdestAssumption
<1>1. ASSUME NEW j \in 0 .. final + W
      PROVE  f[j] = Body(f, j)
  <2>1. j \in Nat
    BY <1>0
  <2>2. CASE j >= final
    <3>1. From(c, final, j) = {j}
      BY <2>1, <2>2, FromIs
    <3>2. Right(j) = IF ends THEN {j} ELSE {}
      BY <2>1, <2>2, <3>1
    <3> QED
      BY <2>2, <3>2
  <2>3. CASE ~(j >= final)
    <3>1. j < final
      BY <2>1, <2>3
    <3>2. Behind(c, j) \in 0 .. final + W
      BY <1>0, <2>1, <3>1, BehindTyped
    <3>3. f[Behind(c, j)] = Right(Behind(c, j)) /\ f[j] = Right(j)
      BY <3>2
    <3>4. Right(j) = {j} \cup Right(Behind(c, j))
      BY <2>1, <3>1, FromIs
    <3>5. Behind(c, j) = j + BytesToSkip(At(c, j))
      BY DEF Behind
    <3> HIDE DEF f, Right
    <3> QED
      BY <2>3, <3>3, <3>4, <3>5
  <2> QED
    BY <2>2, <2>3
<1>2. f = [j \in 0 .. final + W |-> Body(f, j)]
  BY <1>1
<1> HIDE DEF f
<1> QED
  BY <1>2 DEF Walks

\* The kernel's walk reaches its positions.
LEMMA PathIs ==
    ASSUME NEW c \in Codes, NEW final \in Nat, NEW i \in Nat
    PROVE  Path(c, i, final) = From(c, final, i)
<1>0. W \in Nat
  BY JumpdestAssumption
<1>1. CASE i >= final
  BY <1>1, FromIs DEF Path
<1>2. CASE ~(i >= final)
  <2> DEFINE Is(P) == P = [j \in 0 .. final + W |->
                             IF j >= final THEN {j} ELSE {j} \cup P[j + BytesToSkip(At(c, j))]]
             F == CHOOSE P : Is(P)
  <2>1. \E P : Is(P)
    <3>1. \E P : Walks(c, final, TRUE, P)
      BY WalkExists
    <3> QED
      BY <3>1 DEF Walks
  <2>2. Is(F)
    BY <2>1
  <2>3. Path(c, i, final) = F[i]
    BY <1>2 DEF Path
  <2> HIDE DEF F
  <2> DEFINE ends == TRUE
  <2>4. ends \in BOOLEAN /\ Walks(c, final, ends, F)
    BY <2>2 DEF Walks
  <2> HIDE DEF ends
  <2>5. i \in 0 .. final + W
    BY <1>0, <1>2
  <2>6. F[i] = {k \in From(c, final, i) : ends \/ k < final}
    BY <2>4, <2>5, WalkIs
  <2> QED
    BY <2>3, <2>6 DEF ends
<1> QED
  BY <1>1, <1>2

\* Every position of a walk that starts at an instruction is one.
LEMMA WalkKeepsInstructions ==
    ASSUME NEW c \in Codes, NEW i \in Nat, NEW final \in 0 .. MaxLen,
           i <= MaxLen => IsInstruction(c)[i]
    PROVE  \A k \in From(c, final, i) : k \in Nat /\ (k <= MaxLen => IsInstruction(c)[k])
<1> DEFINE T == {k \in Nat : k <= MaxLen => IsInstruction(c)[k]}
<1>0. MaxLen \in Nat /\ final \in Nat
  BY JumpdestAssumption
<1>1. T \in SUBSET Nat /\ i \in T
  OBVIOUS
<1>2. ASSUME NEW k \in T, k < final
      PROVE  Behind(c, k) \in T
  <2>1. k \in 0 .. MaxLen /\ IsInstruction(c)[k]
    BY <1>0, <1>2
  <2>2. Behind(c, k) \in Nat
    BY BehindTyped
  <2> QED
    BY <2>1, <2>2, InstructionsClosed
<1>3. ClosedUpTo(c, final, T)
  BY <1>2 DEF ClosedUpTo
<1>4. From(c, final, i) \subseteq T
  BY <1>0, <1>1, <1>3, FromLeast
<1> QED
  BY <1>4

\* The instructions CodeIterator::until yields are the walk's, before its end.
LEMMA IteratorIs ==
    ASSUME NEW c \in Codes, NEW end \in Nat
    PROVE  LET stop == IF Len(c) <= end THEN Len(c) ELSE end
           IN  CodeIterator(c, end) = {k \in From(c, stop, 0) : k < stop}
<1> DEFINE stop == IF Len(c) <= end THEN Len(c) ELSE end
           Is(P, s) == P = [i \in 0 .. s + W |->
                              IF i >= s THEN {} ELSE {i} \cup P[i + BytesToSkip(At(c, i))]]
           F(s) == CHOOSE P : Is(P, s)
<1>0. Len(c) \in Nat /\ W \in Nat
  BY ByteTyped, JumpdestAssumption
<1>1. stop \in Nat /\ 0 \in 0 .. stop + W
  BY <1>0
<1>2. Min({Len(c), end}) = stop
  <2>1. stop \in {Len(c), end} /\ \A y \in {Len(c), end} : stop <= y
    BY <1>0
  <2>2. \A x \in {Len(c), end} : (\A y \in {Len(c), end} : x <= y) => x = stop
    BY <1>0
  <2> HIDE DEF stop
  <2> QED
    BY <2>1, <2>2 DEF Min
<1>3. CodeIterator(c, end) = F(stop)[0]
  <2> HIDE DEF stop
  <2> QED
    BY <1>2 DEF CodeIterator
<1> HIDE DEF stop
<1> DEFINE ends == FALSE
<1>4. ends \in BOOLEAN /\ \A P : Walks(c, stop, ends, P) <=> Is(P, stop)
  BY DEF Walks
<1>5. Is(F(stop), stop)
  <2> HIDE DEF ends
  <2>1. \E P : Walks(c, stop, ends, P)
    BY <1>1, <1>4, WalkExists
  <2>2. \E P : Is(P, stop)
    BY <1>4, <2>1
  <2> HIDE DEF Is
  <2> QED
    BY <2>2
<1> HIDE DEF ends, F, Is
<1>6. F(stop)[0] = {k \in From(c, stop, 0) : ends \/ k < stop}
  BY <1>1, <1>4, <1>5, WalkIs
<1>7. CodeIterator(c, end) = {k \in From(c, stop, 0) : k < stop}
  BY <1>3, <1>6 DEF ends
<1> QED
  BY <1>7 DEF stop

\* An instruction that is not the first one follows another.
LEMMA InstructionFollows ==
    ASSUME NEW c \in Codes, NEW i \in 0 .. MaxLen,
           IsInstruction(c)[i], i # 0
    PROVE  \E j \in 0 .. i - 1 : IsInstruction(c)[j] /\ Behind(c, j) = i
<1> DEFINE I == IsInstruction(c)
           X == i = 0 \/ \E j \in 0 .. i - 1 : I[j] /\ j + BytesToSkip(At(c, j)) = i
<1>1. I = [k \in 0 .. MaxLen |->
              k = 0 \/ \E j \in 0 .. k - 1 : I[j] /\ j + BytesToSkip(At(c, j)) = k]
  BY InstructionEquation
<1>2. I[i]
  OBVIOUS
<1> HIDE DEF I
<1>3. I[i] = X
  BY <1>1, Zenon
<1>4. X
  BY <1>2, <1>3, Zenon
<1> QED
  BY <1>4 DEF Behind, I

\* No instruction starts inside another.
LEMMA InstructionsApart ==
    ASSUME NEW c \in Codes, NEW x \in Nat, NEW a \in 0 .. MaxLen,
           IsInstruction(c)[x], IsInstruction(c)[a], x < a
    PROVE  Behind(c, x) <= a
<1> DEFINE I == IsInstruction(c)
           Inside(y, b) == y < b /\ I[y] /\ I[b] /\ ~(Behind(c, y) <= b)
           Bad == {b \in 0 .. MaxLen : \E y \in Nat : Inside(y, b)}
<1>0. MaxLen \in Nat
  BY JumpdestAssumption
<1>1. Bad = {}
  <2> SUFFICES ASSUME Bad # {}
               PROVE  FALSE
    OBVIOUS
  <2>1. Bad \subseteq Nat
    BY <1>0
  <2>2. PICK b \in Bad : \A m \in Bad : b <= m
    BY <2>1, LeastNumber
  <2>3. PICK y \in Nat : Inside(y, b)
    BY <2>2
  <2>4. b \in 0 .. MaxLen /\ b \in Nat /\ I[b] /\ b # 0 /\ y < b
    BY <2>1, <2>2, <2>3
  <2>5. PICK j \in 0 .. b - 1 : I[j] /\ Behind(c, j) = b
    BY <2>4, InstructionFollows
  <2>6. j \in Nat /\ j < b /\ j \in 0 .. MaxLen /\ y \in 0 .. MaxLen
    BY <1>0, <2>4, <2>5
  <2>7. Behind(c, y) \in Nat /\ Behind(c, j) \in Nat
    BY <2>6, BehindTyped
  <2>8. CASE j = y
    BY <2>3, <2>4, <2>5, <2>8
  <2>9. CASE y < j
    <3>1. ~(b <= j) /\ ~(Behind(c, y) <= j)
      BY <2>3, <2>4, <2>6, <2>7, <2>9
    <3>2. j \in Bad
      BY <2>3, <2>5, <2>6, <2>9, <3>1
    <3> QED
      BY <2>2, <3>1, <3>2
  <2>10. CASE j < y
    <3>1. ~(b <= y) /\ ~(Behind(c, j) <= y)
      BY <2>4, <2>5
    <3>2. y \in Bad
      BY <2>3, <2>5, <2>6, <2>10, <3>1
    <3> QED
      BY <2>2, <3>1, <3>2
  <2> QED
    BY <2>6, <2>8, <2>9, <2>10
<1> QED
  BY <1>1

\* A walk from an instruction reaches every instruction up to its end.
LEMMA WalkReaches ==
    ASSUME NEW c \in Codes, NEW x \in Nat, NEW a \in 0 .. MaxLen,
           NEW final \in Nat, x <= a, a <= final,
           IsInstruction(c)[x], IsInstruction(c)[a]
    PROVE  a \in From(c, final, x)
<1> DEFINE I == IsInstruction(c)
           Missed == {d \in 0 .. a : I[a - d] /\ a \notin From(c, final, a - d)}
<1>0. MaxLen \in Nat /\ a \in Nat
  BY JumpdestAssumption
<1>1. Missed = {}
  <2> SUFFICES ASSUME Missed # {}
               PROVE  FALSE
    OBVIOUS
  <2>1. Missed \subseteq Nat
    BY <1>0
  <2>2. PICK d \in Missed : \A m \in Missed : d <= m
    BY <2>1, LeastNumber
  <2> DEFINE y == a - d
  <2>3. d \in 0 .. a /\ d \in Nat /\ y \in Nat /\ y + d = a /\ y \in 0 .. MaxLen
    BY <1>0, <2>2
  <2>4. I[y] /\ a \notin From(c, final, y)
    BY <2>2
  <2> HIDE DEF y
  <2>5. y # a
    BY <2>3, <2>4, FromLeast
  <2>6. y < a /\ y < final
    BY <1>0, <2>3, <2>5
  <2> DEFINE b == Behind(c, y)
             m == a - b
  <2>7. b \in Nat /\ y < b
    BY <2>3, BehindTyped
  <2>8. b <= a
    BY <2>3, <2>4, <2>6, InstructionsApart
  <2>9. I[b]
    BY <1>0, <2>3, <2>4, <2>7, <2>8, InstructionsClosed
  <2>10. a \notin From(c, final, b)
    BY <2>3, <2>4, <2>6, FromIs
  <2> HIDE DEF b
  <2>11. m \in 0 .. a /\ a - m = b /\ ~(d <= m)
    BY <1>0, <2>3, <2>7, <2>8
  <2>12. m \in Missed
    BY <2>9, <2>10, <2>11
  <2> QED
    BY <2>2, <2>11, <2>12
<1>2. a - x \in 0 .. a /\ a - (a - x) = x
  BY <1>0
<1> QED
  BY <1>1, <1>2

\* CodeIterator::until yields the instructions of the code before end.
LEMMA IteratorMembers ==
    ASSUME NEW c \in Codes, NEW end \in Nat
    PROVE  CodeIterator(c, end) =
               {k \in 0 .. Len(c) - 1 : k < end /\ IsInstruction(c)[k]}
<1> DEFINE stop == IF Len(c) <= end THEN Len(c) ELSE end
<1>0. MaxLen \in Nat /\ Len(c) \in Nat /\ Len(c) <= MaxLen
  BY ByteTyped, JumpdestAssumption
<1>1. stop \in Nat /\ stop \in 0 .. MaxLen
  BY <1>0
<1>2. CodeIterator(c, end) = {k \in From(c, stop, 0) : k < stop}
  BY IteratorIs
<1>3. \A k \in Nat : k < stop <=> k \in 0 .. Len(c) - 1 /\ k < end
  BY <1>0
<1> HIDE DEF stop
<1>4. IsInstruction(c)[0]
  BY InstructionsClosed
<1>5. ASSUME NEW k \in From(c, stop, 0), k < stop
      PROVE  k \in Nat /\ IsInstruction(c)[k]
  <2>1. k \in Nat /\ (k <= MaxLen => IsInstruction(c)[k])
    BY <1>1, <1>4, WalkKeepsInstructions
  <2> QED
    BY <1>0, <1>1, <1>5, <2>1
<1>6. ASSUME NEW k \in Nat, k < stop, IsInstruction(c)[k]
      PROVE  k \in From(c, stop, 0)
  <2>1. 0 \in Nat /\ 0 <= k /\ k <= stop /\ k \in 0 .. MaxLen
    BY <1>0, <1>1, <1>6
  <2> QED
    BY <1>1, <1>4, <1>6, <2>1, WalkReaches
<1> QED
  BY <1>2, <1>3, <1>5, <1>6

LEMMA MaxIs ==
    ASSUME NEW n \in Nat, NEW S, S \subseteq 0 .. n, S # {}
    PROVE  Max(S) \in S /\ \A y \in S : y <= Max(S)
<1> DEFINE T == {n - x : x \in S}
<1>1. T \subseteq Nat /\ T # {}
  <2>1. \A x \in S : n - x \in Nat
    OBVIOUS
  <2>2. \E x \in S : n - x \in T
    OBVIOUS
  <2> QED
    BY <2>1, <2>2
<1>2. PICK d \in T : \A m \in T : d <= m
  BY <1>1, LeastNumber
<1>3. PICK x \in S : d = n - x
  BY <1>2
<1>4. \A y \in S : x >= y
  <2> TAKE y \in S
  <2>1. n - x <= n - y
    BY <1>2, <1>3
  <2> QED
    BY <2>1
<1>5. Max(S) \in S /\ \A y \in S : Max(S) >= y
  BY <1>4 DEF Max
<1> QED
  BY <1>5

\* The window the prover looks for before an instruction is the one the kernel
\* checks, counted from the other end.
LEMMA PrefixesAgree ==
    ASSUME NEW c \in Codes, NEW a \in Nat, HasPrefix(c, a)
    PROVE  a >= W /\ PrefixOK(c, a - W)
<1>0. W \in Nat
  BY JumpdestAssumption
<1>1. a >= W
  BY DEF HasPrefix
<1>2. ASSUME NEW j \in 0 .. W - 1
      PROVE  LET b == At(c, a - W + j) IN ~(IsPush(b) /\ b >= W - j)
  <2> DEFINE i == W - 1 - j
             b == At(c, a - W + j)
  <2>1. i \in 0 .. W - 1 /\ a - 1 - i = a - W + j /\ 1 + i = W - j /\ a - W + j \in Nat
    BY <1>0, <1>1
  <2> HIDE DEF i
  <2>2. ~IsPush(b) \/ b < 1 + i
    BY <2>1 DEF HasPrefix
  <2>3. b \in Nat
    BY <1>0, <2>1, ByteTyped DEF Bytes
  <2> QED
    BY <1>0, <2>1, <2>2, <2>3
<1> QED
  BY <1>1, <1>2 DEF PrefixOK

\* The proof the prover sends for an address passes the kernel's check and
\* does not lead behind the address.
LEMMA LastProofFits ==
    ASSUME NEW c \in Codes, NEW a \in Nat
    PROVE  /\ LastProof(c, a) \in Nat
           /\ LastProof(c, a) # 0 =>
                 /\ PrefixOK(c, LastProof(c, a))
                 /\ LastProof(c, a) + W <= a
<1> DEFINE good == {x \in CodeIterator(c, a + 1) : HasPrefix(c, x)}
<1>0. W \in Nat /\ Len(c) \in Nat
  BY ByteTyped, JumpdestAssumption
<1>1. CodeIterator(c, a + 1) = {k \in 0 .. Len(c) - 1 : k < a + 1 /\ IsInstruction(c)[k]}
  BY IteratorMembers
<1>2. good \subseteq 0 .. a
  BY <1>0, <1>1
<1>3. CASE good = {}
  BY <1>3 DEF LastProof
<1>4. CASE good # {}
  <2> DEFINE x == Max(good)
  <2>1. x \in good
    BY <1>2, <1>4, MaxIs
  <2>2. LastProof(c, a) = x - W
    BY <1>4 DEF LastProof
  <2> HIDE DEF x
  <2>3. x \in Nat /\ x <= a /\ HasPrefix(c, x)
    BY <1>2, <2>1
  <2> HIDE DEF good
  <2>4. x >= W /\ PrefixOK(c, x - W)
    BY <2>3, PrefixesAgree
  <2> QED
    BY <1>0, <2>2, <2>3, <2>4
<1> QED
  BY <1>3, <1>4

\* Decoding from a proof that fits marks the destination it is for.
LEMMA FittingProofMarks ==
    ASSUME NEW c \in Codes, NEW a \in ValidDests(c), NEW proof \in Nat,
           proof # 0 => PrefixOK(c, proof) /\ proof + W <= a,
           NEW marked
    PROVE  /\ ~Aborts(c, proof, a)
           /\ marked \subseteq WriteTable(c, proof, a, marked)
           /\ a \in WriteTable(c, proof, a, marked)
<1>0. W \in Nat /\ MaxLen \in Nat /\ Len(c) \in Nat /\ Len(c) <= MaxLen
  BY ByteTyped, JumpdestAssumption
<1>1. a \in Nat /\ a \in 0 .. MaxLen /\ IsInstruction(c)[a] /\ At(c, a) = JUMPDEST
  BY <1>0 DEF ValidDests
<1>2. ~Aborts(c, proof, a)
  BY DEF Aborts
<1> DEFINE i == IF proof = 0 THEN 0 ELSE proof + W
<1>3. i \in Nat /\ i <= a
  BY <1>0, <1>1
<1>4. IsInstruction(c)[i]
  <2>1. CASE proof = 0
    BY <2>1, InstructionsClosed
  <2>2. CASE proof # 0
    <3>1. i = proof + W /\ proof + W <= MaxLen
      BY <1>0, <1>1, <1>3, <2>2
    <3> HIDE DEF i
    <3> QED
      BY <2>2, <3>1, PrefixStartsInstruction
  <2> QED
    BY <2>1, <2>2
<1> HIDE DEF i
<1>5. a \in From(c, a, i)
  BY <1>1, <1>3, <1>4, WalkReaches
<1>6. a \in Path(c, i, a)
  BY <1>1, <1>3, <1>5, PathIs
<1>7. WriteTable(c, proof, a, marked) = VerifyPath(c, i, a, marked)
  BY <1>1 DEF WriteTable, i
<1> QED
  BY <1>2, <1>6, <1>7 DEF VerifyPath

\* A function on the numbers defined from its value at the number before.
Iterates(S, s0, step, f) ==
    /\ f \in [Nat -> S]
    /\ f[0] = s0
    /\ \A n \in Nat : f[n + 1] = step[n][f[n]]

LEMMA PrimitiveRecursion ==
    ASSUME NEW S, NEW s0 \in S, NEW step \in [Nat -> [S -> S]]
    PROVE  \E f : Iterates(S, s0, step, f)
<1> DEFINE Closed(G) == <<0, s0>> \in G
                        /\ \A n \in Nat, s \in S : <<n, s>> \in G => <<n + 1, step[n][s]>> \in G
           L == {g \in Nat \X S : \A G \in SUBSET (Nat \X S) : Closed(G) => g \in G}
           One(n) == \E s \in S : <<n, s>> \in L /\ \A t \in S : <<n, t>> \in L => t = s
           Bad == {n \in Nat : ~One(n)}
<1>0. \A n \in Nat, s \in S : step[n][s] \in S
  OBVIOUS
<1>1. L \in SUBSET (Nat \X S) /\ Closed(L)
  <2>1. <<0, s0>> \in L
    OBVIOUS
  <2>2. ASSUME NEW n \in Nat, NEW s \in S, <<n, s>> \in L
        PROVE  <<n + 1, step[n][s]>> \in L
    <3>1. <<n + 1, step[n][s]>> \in Nat \X S
      <4>1. step[n][s] \in S /\ n + 1 \in Nat
        BY <1>0
      <4> HIDE DEF L
      <4> QED
        BY <4>1, Zenon
    <3>2. ASSUME NEW G \in SUBSET (Nat \X S), Closed(G)
          PROVE  <<n + 1, step[n][s]>> \in G
      BY <2>2, <3>2
    <3> QED
      BY <3>1, <3>2
  <2> QED
    BY <2>1, <2>2
<1>2. \A G \in SUBSET (Nat \X S) : Closed(G) => L \subseteq G
  OBVIOUS
<1> HIDE DEF L
<1>3. One(0)
  <2>1. ASSUME NEW t \in S, <<0, t>> \in L, t # s0
        PROVE  FALSE
    <3> DEFINE G == L \ {<<0, t>>}
    <3>1. G \in SUBSET (Nat \X S) /\ <<0, s0>> \in G
      BY <1>1, <2>1
    <3>2. \A n \in Nat, s \in S : <<n, s>> \in G => <<n + 1, step[n][s]>> \in G
      BY <1>1
    <3>3. L \subseteq G
      BY <1>2, <3>1, <3>2
    <3> QED
      BY <2>1, <3>3
  <2> QED
    BY <1>1, <2>1
<1>4. ASSUME NEW m \in Nat, One(m)
      PROVE  One(m + 1)
  <2>1. PICK s \in S : <<m, s>> \in L /\ \A t \in S : <<m, t>> \in L => t = s
    BY <1>4
  <2> DEFINE u == step[m][s]
  <2>2. u \in S /\ <<m + 1, u>> \in L
    BY <1>0, <1>1, <2>1
  <2>3. ASSUME NEW t \in S, <<m + 1, t>> \in L, t # u
        PROVE  FALSE
    <3> DEFINE G == L \ {<<m + 1, t>>}
    <3>1. G \in SUBSET (Nat \X S) /\ <<0, s0>> \in G
      BY <1>1
    <3>2. ASSUME NEW n \in Nat, NEW r \in S, <<n, r>> \in G
          PROVE  <<n + 1, step[n][r]>> \in G
      <4>1. <<n + 1, step[n][r]>> \in L
        BY <1>1, <3>2
      <4>2. CASE n = m
        <5>1. r = s
          BY <2>1, <3>2, <4>2
        <5> QED
          BY <2>3, <4>1, <4>2, <5>1
      <4>3. CASE n # m
        BY <4>1, <4>3
      <4> QED
        BY <4>2, <4>3
    <3>3. L \subseteq G
      BY <1>2, <3>1, <3>2
    <3> QED
      BY <2>3, <3>3
  <2> QED
    BY <2>2, <2>3
<1> HIDE DEF One
<1>5. Bad = {}
  <2> SUFFICES ASSUME Bad # {}
               PROVE  FALSE
    OBVIOUS
  <2>1. PICK n \in Bad : \A m \in Bad : n <= m
    BY LeastNumber
  <2>2. n \in Nat /\ n # 0 /\ ~One(n)
    BY <1>3, <2>1
  <2>3. n - 1 \in Nat /\ ~(n <= n - 1) /\ (n - 1) + 1 = n
    BY <2>2
  <2>4. One(n - 1)
    BY <2>1, <2>3
  <2> QED
    BY <1>4, <2>2, <2>3, <2>4
<1>6. \A n \in Nat : One(n)
  BY <1>5
<1> DEFINE f == [n \in Nat |-> CHOOSE s \in S : <<n, s>> \in L]
<1>7. ASSUME NEW n \in Nat
      PROVE  f[n] \in S /\ <<n, f[n]>> \in L /\ \A t \in S : <<n, t>> \in L => t = f[n]
  BY <1>6 DEF One
<1>8. f \in [Nat -> S]
  BY <1>7
<1> HIDE DEF f
<1>9. f[0] = s0
  BY <1>1, <1>7
<1>10. ASSUME NEW n \in Nat
       PROVE  f[n + 1] = step[n][f[n]]
  <2>1. n + 1 \in Nat
    OBVIOUS
  <2>2. <<n + 1, step[n][f[n]]>> \in L
    BY <1>1, <1>7
  <2>3. step[n][f[n]] \in S
    BY <1>0, <1>7
  <2> QED
    BY <1>7, <2>1, <2>2, <2>3
<1> QED
  BY <1>8, <1>9, <1>10 DEF Iterates

\* What get_proofs_and_jumpdests has pushed for the instructions below n.
Found(c, asked) == CodeIterator(c, Max(asked) + 1) \cap asked
Pushed(c, asked) ==
    LET found == CodeIterator(c, Max(asked) + 1) \cap asked
        T[n \in 0 .. Max(asked) + 1] ==
            IF n = 0 THEN <<>>
            ELSE IF n - 1 \in found THEN T[n - 1] \o <<LastProof(c, n - 1), n - 1>>
            ELSE T[n - 1]
    IN  T

LEMMA PushedEquation ==
    ASSUME NEW c \in Codes, NEW asked, Max(asked) \in Nat
    PROVE  Pushed(c, asked) =
             [n \in 0 .. Max(asked) + 1 |->
                IF n = 0 THEN <<>>
                ELSE IF n - 1 \in Found(c, asked)
                     THEN Pushed(c, asked)[n - 1] \o <<LastProof(c, n - 1), n - 1>>
                ELSE Pushed(c, asked)[n - 1]]
<1> DEFINE top == Max(asked) + 1
           found == Found(c, asked)
           Body(g, n) == IF n = 0 THEN <<>>
                         ELSE IF n - 1 \in found THEN g[n - 1] \o <<LastProof(c, n - 1), n - 1>>
                         ELSE g[n - 1]
           S == Seq(Nat)
           step == [n \in Nat |-> [s \in S |-> IF n \in found THEN s \o <<LastProof(c, n), n>> ELSE s]]
<1>1. step \in [Nat -> [S -> S]]
  <2>1. ASSUME NEW n \in Nat, NEW s \in S
        PROVE  (IF n \in found THEN s \o <<LastProof(c, n), n>> ELSE s) \in S
    <3>1. LastProof(c, n) \in Nat
      BY LastProofFits
    <3>2. <<LastProof(c, n), n>> \in Seq(Nat)
      BY <3>1
    <3> QED
      BY <3>2
  <2> HIDE DEF S, found
  <2> QED
    BY <2>1
<1>2. <<>> \in S
  OBVIOUS
<1>3. \A n \in Nat : \A s \in S :
         step[n][s] = IF n \in found THEN s \o <<LastProof(c, n), n>> ELSE s
  OBVIOUS
<1> DEFINE s0 == <<>>
<1> HIDE DEF step, S, found, top, Body
<1>4. PICK f \in [Nat -> S] : f[0] = <<>> /\ \A n \in Nat : f[n + 1] = step[n][f[n]]
  <2> HIDE DEF s0
  <2>1. s0 \in S
    BY <1>2 DEF s0
  <2>2. \E f : Iterates(S, s0, step, f)
    BY <1>1, <2>1, PrimitiveRecursion
  <2> QED
    BY <2>2 DEF s0, Iterates
<1> USE DEF found, top, Body
<1> DEFINE g == [n \in 0 .. top |-> f[n]]
<1>5. ASSUME NEW n \in 0 .. top
      PROVE  g[n] = Body(g, n)
  <2>1. CASE n = 0
    BY <1>4, <2>1
  <2>2. CASE n # 0
    <3> DEFINE m == n - 1
    <3>1. m \in Nat /\ m \in 0 .. top /\ n = m + 1
      BY <2>2
    <3>2. f[n] = step[m][f[m]] /\ f[m] \in S
      BY <1>4, <3>1
    <3>3. f[n] = IF m \in found THEN f[m] \o <<LastProof(c, m), m>> ELSE f[m]
      BY <1>3, <3>1, <3>2
    <3>4. g[n] = f[n] /\ g[m] = f[m]
      BY <3>1
    <3> HIDE DEF g, found
    <3> QED
      BY <2>2, <3>3, <3>4
  <2> QED
    BY <2>1, <2>2
<1>6. g = [n \in 0 .. top |-> Body(g, n)]
  BY <1>5
<1> HIDE DEF g
<1>7. \E h : h = [n \in 0 .. top |-> Body(h, n)]
  BY <1>6
<1> QED
  BY <1>7 DEF Pushed, Found

\* A table is empty, and no address below n is asked for, or ends in the last
\* such address and its proof.
LEMMA PushedIs ==
    ASSUME NEW c \in Codes, NEW asked, Max(asked) \in Nat,
           NEW n \in 0 .. Max(asked) + 1
    PROVE  /\ Pushed(c, asked)[n] \in Seq(Nat)
           /\ \/ /\ Pushed(c, asked)[n] = <<>>
                 /\ \A x \in Found(c, asked) : ~(x < n)
              \/ \E m \in 0 .. n - 1 :
                    /\ m \in Found(c, asked)
                    /\ Pushed(c, asked)[n] = Pushed(c, asked)[m] \o <<LastProof(c, m), m>>
                    /\ Pushed(c, asked)[m] \in Seq(Nat)
                    /\ \A x \in Found(c, asked) : m < x => ~(x < n)
<1> DEFINE top == Max(asked) + 1
           T == Pushed(c, asked)
           found == Found(c, asked)
           Right(k) == /\ T[k] \in Seq(Nat)
                       /\ \/ /\ T[k] = <<>>
                             /\ \A x \in found : ~(x < k)
                          \/ \E m \in 0 .. k - 1 :
                                /\ m \in found
                                /\ T[k] = T[m] \o <<LastProof(c, m), m>>
                                /\ T[m] \in Seq(Nat)
                                /\ \A x \in found : m < x => ~(x < k)
           Bad == {k \in 0 .. top : ~Right(k)}
<1>0. found \subseteq Nat
  <2>1. CodeIterator(c, top) \subseteq 0 .. Len(c) - 1
    BY IteratorMembers
  <2>2. Len(c) \in Nat
    BY ByteTyped, JumpdestAssumption
  <2> QED
    BY <2>1, <2>2 DEF Found
<1>1. \A k \in 0 .. top :
         T[k] = IF k = 0 THEN <<>>
                ELSE IF k - 1 \in found THEN T[k - 1] \o <<LastProof(c, k - 1), k - 1>>
                ELSE T[k - 1]
  <2>1. T = [k \in 0 .. top |->
               IF k = 0 THEN <<>>
               ELSE IF k - 1 \in found THEN T[k - 1] \o <<LastProof(c, k - 1), k - 1>>
               ELSE T[k - 1]]
    BY PushedEquation
  <2> HIDE DEF T, found
  <2> QED
    BY <2>1, Zenon
<1> HIDE DEF T, found
<1>2. Right(0)
  <2>1. 0 \in 0 .. top
    OBVIOUS
  <2>2. T[0] = <<>>
    BY <1>1, <2>1, Zenon
  <2>3. \A x \in found : ~(x < 0)
    BY <1>0
  <2> QED
    BY <2>2, <2>3
<1>3. ASSUME NEW k \in 0 .. top, k # 0, Right(k - 1)
      PROVE  Right(k)
  <2>0. k - 1 \in 0 .. k - 1 /\ k \in Nat /\ k - 1 \in Nat
    BY <1>3
  <2>1. CASE k - 1 \in found
    <3>1. T[k] = T[k - 1] \o <<LastProof(c, k - 1), k - 1>>
      BY <1>1, <1>3, <2>1
    <3>2. <<LastProof(c, k - 1), k - 1>> \in Seq(Nat)
      BY <2>0, LastProofFits
    <3>3. T[k] \in Seq(Nat)
      BY <1>3, <3>1, <3>2
    <3>4. \A x \in found : k - 1 < x => ~(x < k)
      BY <1>0, <2>0
    <3> QED
      BY <1>3, <2>0, <2>1, <3>1, <3>3, <3>4
  <2>2. CASE k - 1 \notin found
    <3>1. T[k] = T[k - 1]
      BY <1>1, <1>3, <2>2
    <3>2. \A x \in found : ~(x < k - 1) => ~(x < k)
      BY <1>0, <2>0, <2>2
    <3>3. CASE T[k - 1] = <<>> /\ \A x \in found : ~(x < k - 1)
      BY <1>3, <3>1, <3>2, <3>3
    <3>4. CASE \E m \in 0 .. (k - 1) - 1 :
                  /\ m \in found
                  /\ T[k - 1] = T[m] \o <<LastProof(c, m), m>>
                  /\ T[m] \in Seq(Nat)
                  /\ \A x \in found : m < x => ~(x < k - 1)
      <4>1. PICK m \in 0 .. (k - 1) - 1 :
                  /\ m \in found
                  /\ T[k - 1] = T[m] \o <<LastProof(c, m), m>>
                  /\ T[m] \in Seq(Nat)
                  /\ \A x \in found : m < x => ~(x < k - 1)
        BY <3>4
      <4>2. m \in 0 .. k - 1
        BY <2>0
      <4>3. \A x \in found : m < x => ~(x < k)
        BY <3>2, <4>1
      <4>4. T[k] \in Seq(Nat)
        BY <1>3, <3>1
      <4> QED
        BY <3>1, <4>1, <4>2, <4>3, <4>4
    <3> QED
      BY <1>3, <3>3, <3>4
  <2> QED
    BY <2>1, <2>2
<1> HIDE DEF Right
<1>4. Bad = {}
  <2> SUFFICES ASSUME Bad # {}
               PROVE  FALSE
    OBVIOUS
  <2>0. Bad \subseteq Nat
    OBVIOUS
  <2>1. PICK k \in Bad : \A m \in Bad : k <= m
    BY <2>0, LeastNumber
  <2>2. k \in 0 .. top /\ k # 0 /\ ~Right(k)
    BY <1>2, <2>1
  <2>3. k - 1 \in 0 .. top /\ ~(k <= k - 1)
    BY <2>2
  <2>4. Right(k - 1)
    BY <2>1, <2>3
  <2> QED
    BY <1>3, <2>2, <2>4
<1>5. Right(n)
  BY <1>4
<1> QED
  BY <1>5 DEF Right, T, found

\* A write the kernel does not abort sets bits at destinations only.
LEMMA WriteTableValid ==
    ASSUME NEW c \in Codes, NEW proof \in Nat, NEW a \in Nat,
           NEW marked, marked \subseteq ValidDests(c), ~Aborts(c, proof, a)
    PROVE  WriteTable(c, proof, a, marked) \subseteq ValidDests(c)
<1>1. CASE At(c, a) # JUMPDEST
  BY <1>1 DEF WriteTable
<1>2. CASE At(c, a) = JUMPDEST
  <2>0. W \in Nat /\ W # 0 /\ MaxLen \in Nat /\ Len(c) \in 0 .. MaxLen
    BY ByteTyped, JumpdestAssumption
  <2>1. a < Len(c) /\ a \in 0 .. MaxLen
    BY <1>2, <2>0 DEF At, JUMPDEST
  <2> DEFINE i == IF proof = 0 THEN 0 ELSE proof + W
             path == Path(c, i, a)
  <2>2. i \in Nat
    BY <2>0
  <2>3. i <= MaxLen => IsInstruction(c)[i]
    <3>1. CASE proof = 0
      BY <3>1, InstructionsClosed
    <3>2. CASE proof # 0
      <4>1. PrefixOK(c, proof) /\ i = proof + W
        BY <1>2, <3>2 DEF Aborts
      <4> HIDE DEF i
      <4> QED
        BY <4>1, PrefixStartsInstruction
    <3> QED
      BY <3>1, <3>2
  <2> HIDE DEF i
  <2>4. \A k \in path : k \in Nat /\ (k <= MaxLen => IsInstruction(c)[k])
    BY <2>0, <2>1, <2>2, <2>3, PathIs, WalkKeepsInstructions
  <2>5. WriteTable(c, proof, a, marked) =
            marked \cup {j \in path : j < a /\ At(c, j) = JUMPDEST} \cup (path \cap {a})
    BY <1>2 DEF WriteTable, VerifyPath, i
  <2> HIDE DEF path
  <2>6. ASSUME NEW k \in path, k < a \/ k = a, At(c, k) = JUMPDEST
        PROVE  k \in ValidDests(c)
    <3>1. k \in Nat /\ k \in 0 .. Len(c) - 1 /\ k <= MaxLen
      BY <2>0, <2>1, <2>4, <2>6
    <3> QED
      BY <2>4, <2>6, <3>1 DEF ValidDests
  <2> QED
    BY <1>2, <2>5, <2>6
<1> QED
  BY <1>1, <1>2

-----------------------------------------------------------------------------
(* A prover that sends any addresses and proofs.                           *)

\* The context's code is a code, and its marked positions are destinations.
AnyInv ==
    /\ ~honest
    /\ used = {}
    /\ code \in Codes
    /\ addr \in Nat
    /\ BitsValid

LEMMA NextAny ==
    ASSUME AnyInv, [AnalysisNext]_analysisVars
    PROVE  AnyInv'
<1> USE DEF AnyInv
<1>0. Positions \subseteq Nat
  BY JumpdestAssumption DEF Positions
<1>1. CASE TakeAddress
  <2>1. PICK a \in NextAddress : addr' = IF a = 0 THEN 0 ELSE a - 1
    BY <1>1 DEF TakeAddress
  <2>2. a \in Nat
    BY <1>0, <2>1 DEF NextAddress
  <2>3. addr' \in Nat
    BY <2>1, <2>2
  <2>4. honest' = honest /\ used' = used /\ code' = code /\ bits' = bits
    BY <1>1 DEF TakeAddress
  <2> QED
    BY <2>3, <2>4 DEF BitsValid
<1>2. CASE TakeProof
  <2>1. PICK proof \in NextProof :
            bits' = IF Aborts(code, proof, addr) THEN bits
                    ELSE WriteTable(code, proof, addr, bits)
    BY <1>2 DEF TakeProof
  <2>2. proof \in Nat
    BY <1>0, <2>1 DEF NextProof
  <2>3. honest' = honest /\ used' = used /\ code' = code /\ addr' = 0
    BY <1>2 DEF TakeProof
  <2>4. bits' \subseteq ValidDests(code)
    BY <2>1, <2>2, WriteTableValid DEF BitsValid
  <2> QED
    BY <2>3, <2>4 DEF BitsValid
<1>3. CASE FaultingJump
  <2>1. PICK a, proof :
            /\ a \in Positions
            /\ proof \in JumpProofs(a)
            /\ addr' = a
            /\ bits' = IF proof > a \/ Aborts(code, proof, a) THEN bits
                       ELSE WriteTable(code, proof, a, bits)
    BY <1>3, Zenon DEF FaultingJump
  <2>2. a \in Nat /\ proof \in Nat
    BY <1>0, <2>1 DEF JumpProofs
  <2>3. honest' = honest /\ used' = used /\ code' = code
    BY <1>3 DEF FaultingJump
  <2>4. bits' \subseteq ValidDests(code)
    BY <2>1, <2>2, WriteTableValid DEF BitsValid
  <2> QED
    BY <2>1, <2>2, <2>3, <2>4 DEF BitsValid
<1>4. CASE Halted \/ UNCHANGED analysisVars
  BY <1>4 DEF Halted, analysisVars, BitsValid
<1> QED
  BY <1>1, <1>2, <1>3, <1>4 DEF AnalysisNext

-----------------------------------------------------------------------------
(* The prover of prover_input.rs.                                          *)

\* A write keeps the bits that are set.
LEMMA WriteTableKeeps ==
    ASSUME NEW c, NEW proof, NEW a, NEW marked
    PROVE  marked \subseteq WriteTable(c, proof, a, marked)
BY DEF WriteTable, VerifyPath

\* Popping an address from a table, and then its proof.
LEMMA PopTwice ==
    ASSUME NEW t \in Seq(Nat), NEW p \in Nat, NEW a \in Nat
    PROVE  LET s == t \o <<p, a>>
               r == t \o <<p>>
           IN  /\ s # <<>> /\ s[Len(s)] = a /\ SubSeq(s, 1, Len(s) - 1) = r
               /\ r # <<>> /\ r[Len(r)] = p /\ SubSeq(r, 1, Len(r) - 1) = t
<1> DEFINE s == t \o <<p, a>>
           r == t \o <<p>>
<1>1. /\ s \in Seq(Nat) /\ Len(s) = Len(t) + 2 /\ s[Len(t) + 2] = a /\ s[Len(t) + 1] = p
      /\ \A i \in 1 .. Len(t) : s[i] = t[i]
      /\ r \in Seq(Nat) /\ Len(r) = Len(t) + 1 /\ r[Len(t) + 1] = p
      /\ \A i \in 1 .. Len(t) : r[i] = t[i]
  OBVIOUS
<1> HIDE DEF s, r
<1>2. s # <<>> /\ r # <<>> /\ s[Len(s)] = a /\ r[Len(r)] = p
  BY <1>1
<1>3. SubSeq(s, 1, Len(s) - 1) = r
  <2>1. Len(s) - 1 = Len(t) + 1
    BY <1>1
  <2>2. /\ SubSeq(s, 1, Len(t) + 1) \in Seq(Nat)
        /\ Len(SubSeq(s, 1, Len(t) + 1)) = Len(r)
        /\ \A i \in 1 .. Len(t) + 1 : SubSeq(s, 1, Len(t) + 1)[i] = s[i]
    BY <1>1
  <2>3. \A i \in 1 .. Len(t) + 1 : s[i] = r[i]
    <3> TAKE i \in 1 .. Len(t) + 1
    <3>1. Len(t) \in Nat /\ (i = Len(t) + 1 \/ i \in 1 .. Len(t))
      OBVIOUS
    <3> QED
      BY <1>1, <3>1
  <2> QED
    BY <1>1, <2>1, <2>2, <2>3
<1>4. SubSeq(r, 1, Len(r) - 1) = t
  <2>1. Len(r) - 1 = Len(t)
    BY <1>1
  <2>2. /\ SubSeq(r, 1, Len(t)) \in Seq(Nat)
        /\ Len(SubSeq(r, 1, Len(t))) = Len(t)
        /\ \A i \in 1 .. Len(t) : SubSeq(r, 1, Len(t))[i] = r[i]
    BY <1>1
  <2> QED
    BY <1>1, <2>1, <2>2
<1> QED
  BY <1>2, <1>3, <1>4 DEF s, r

\* The asked addresses the prover finds are instructions of the code, and
\* every destination among them is found.
LEMMA FoundRight ==
    ASSUME NEW c \in Codes, NEW asked, asked \subseteq Positions,
           asked # {}
    PROVE  /\ Max(asked) \in Nat
           /\ \A x \in Found(c, asked) :
                 x \in 0 .. Len(c) - 1 /\ x < Max(asked) + 1 /\ IsInstruction(c)[x]
           /\ asked \cap ValidDests(c) \subseteq Found(c, asked)
<1>1. MaxLen \in Nat /\ Positions = 0 .. MaxLen
  BY JumpdestAssumption DEF Positions
<1>2. Max(asked) \in asked /\ \A y \in asked : y <= Max(asked)
  BY <1>1, MaxIs
<1>3. Max(asked) \in Nat
  <2>1. Max(asked) \in 0 .. MaxLen
    BY <1>1, <1>2
  <2> QED
    BY <1>1, <2>1
<1>4. CodeIterator(c, Max(asked) + 1) =
          {k \in 0 .. Len(c) - 1 : k < Max(asked) + 1 /\ IsInstruction(c)[k]}
  BY <1>3, IteratorMembers
<1>5. ASSUME NEW x \in asked, x \in ValidDests(c)
      PROVE  x \in Found(c, asked)
  <2>1. x \in 0 .. Len(c) - 1 /\ IsInstruction(c)[x]
    BY <1>5 DEF ValidDests
  <2>2. x \in Nat /\ x < Max(asked) + 1
    BY <1>1, <1>2, <1>3
  <2> QED
    BY <1>4, <2>1, <2>2 DEF Found
<1> QED
  BY <1>3, <1>4, <1>5 DEF Found

\* The destinations found at or behind position n have their bits.
MarkedFrom(n) ==
    \A x \in Found(code, used) : n <= x /\ At(code, x) = JUMPDEST => x \in bits

\* What is left of the table names what has no bit yet; an address that was
\* taken is one of the code, with its own proof next in the table.
OwnInv ==
    /\ honest
    /\ code \in Codes
    /\ used \subseteq Positions
    /\ addr \in Nat
    /\ BitsValid
    /\ pc = "analysis" =>
          \/ used = {} /\ table = <<>>
          \/ /\ used # {}
             /\ \E n \in 0 .. Max(used) + 1 : table = Pushed(code, used)[n] /\ MarkedFrom(n)
    /\ pc = "proof" =>
          /\ used # {}
          /\ addr \in Found(code, used)
          /\ table = Pushed(code, used)[addr] \o <<LastProof(code, addr)>>
          /\ MarkedFrom(addr + 1)
    /\ pc # "rejected"
    /\ UsedDestsMarked
    /\ NearFaultDecided

LEMMA InitOwn ==
    ASSUME honest, AnalysisInit
    PROVE  OwnInv
<1>1. /\ code \in Codes /\ used \subseteq Positions /\ bits = {} /\ addr \in Nat
      /\ table = TableOf(code, used) /\ pc = "analysis"
  BY DEF AnalysisInit
<1>2. used = {} => table = <<>>
  BY <1>1 DEF TableOf
<1>3. ASSUME used # {}
      PROVE  \E n \in 0 .. Max(used) + 1 : table = Pushed(code, used)[n] /\ MarkedFrom(n)
  <2> DEFINE top == Max(used) + 1
  <2>1. /\ Max(used) \in Nat
        /\ \A x \in Found(code, used) : x \in 0 .. Len(code) - 1 /\ x < top
    BY <1>1, <1>3, FoundRight
  <2>2. table = Pushed(code, used)[top]
    BY <1>1, <1>3 DEF TableOf, ProofsAndJumpdests, Pushed
  <2>3. Len(code) \in Nat
    BY <1>1, ByteTyped, JumpdestAssumption
  <2>4. MarkedFrom(top)
    BY <2>1, <2>3 DEF MarkedFrom
  <2>5. top \in 0 .. top
    BY <2>1
  <2> QED
    BY <2>2, <2>4, <2>5
<1> QED
  BY <1>1, <1>2, <1>3 DEF OwnInv, BitsValid, UsedDestsMarked, NearFaultDecided, Ended

LEMMA TakeAddressOwn ==
    ASSUME OwnInv, TakeAddress
    PROVE  OwnInv'
<1>1. /\ pc = "analysis" /\ code' = code /\ used' = used /\ bits' = bits
      /\ honest /\ honest' = honest
      /\ code \in Codes /\ used \subseteq Positions /\ BitsValid
  BY DEF TakeAddress, OwnInv
<1> DEFINE a == IF table = <<>> THEN 0 ELSE table[Len(table)] + 1
<1>2. /\ addr' = IF a = 0 THEN 0 ELSE a - 1
      /\ pc' = CASE a = 0 -> "user"
                 [] a > Len(code) -> "rejected"
                 [] OTHER -> "proof"
      /\ table' = Popped
  BY <1>1 DEF TakeAddress, NextAddress
<1>3. BitsValid'
  BY <1>1 DEF BitsValid
<1>4. ASSUME table = <<>>, used \cap ValidDests(code) \subseteq bits
      PROVE  OwnInv'
  <2>1. pc' = "user" /\ addr' = 0
    BY <1>2, <1>4
  <2> QED
    BY <1>1, <1>3, <1>4, <2>1 DEF OwnInv, UsedDestsMarked, NearFaultDecided, Ended
<1>5. CASE used = {} /\ table = <<>>
  BY <1>4, <1>5
<1>6. CASE used # {}
  <2> DEFINE T == Pushed(code, used)
             found == Found(code, used)
  <2>0. PICK n \in 0 .. Max(used) + 1 : table = T[n] /\ MarkedFrom(n)
    BY <1>1, <1>6 DEF OwnInv
  <2>1. /\ Max(used) \in Nat
        /\ \A x \in found : x \in 0 .. Len(code) - 1
        /\ used \cap ValidDests(code) \subseteq found
    BY <1>1, <1>6, FoundRight
  <2>2. Len(code) \in Nat /\ n \in Nat
    BY <1>1, <2>1, ByteTyped, JumpdestAssumption
  <2>3. \/ T[n] = <<>> /\ \A x \in found : ~(x < n)
        \/ \E m \in 0 .. n - 1 :
              /\ m \in found
              /\ T[n] = T[m] \o <<LastProof(code, m), m>>
              /\ T[m] \in Seq(Nat)
              /\ \A x \in found : m < x => ~(x < n)
    BY <1>1, <2>1, PushedIs
  <2> HIDE DEF T, found
  <2>4. CASE T[n] = <<>> /\ \A x \in found : ~(x < n)
    <3>1. \A x \in used \cap ValidDests(code) : x \in bits
      <4> TAKE x \in used \cap ValidDests(code)
      <4>1. x \in found /\ At(code, x) = JUMPDEST
        BY <2>1 DEF ValidDests
      <4>2. n <= x
        BY <2>1, <2>2, <2>4, <4>1
      <4> QED
        BY <2>0, <4>1, <4>2 DEF MarkedFrom, found
    <3> QED
      BY <1>4, <2>0, <2>4, <3>1
  <2>5. CASE \E m \in 0 .. n - 1 :
              /\ m \in found
              /\ T[n] = T[m] \o <<LastProof(code, m), m>>
              /\ T[m] \in Seq(Nat)
              /\ \A x \in found : m < x => ~(x < n)
    <3>0. PICK m \in 0 .. n - 1 :
              /\ m \in found
              /\ T[n] = T[m] \o <<LastProof(code, m), m>>
              /\ T[m] \in Seq(Nat)
              /\ \A x \in found : m < x => ~(x < n)
      BY <2>5
    <3>1. m \in Nat /\ m < Len(code)
      BY <2>1, <2>2, <3>0
    <3>2. LastProof(code, m) \in Nat
      BY <1>1, <3>1, LastProofFits
    <3>3. table # <<>> /\ table[Len(table)] = m /\ Popped = T[m] \o <<LastProof(code, m)>>
      <4> DEFINE t == T[m]
                 p == LastProof(code, m)
      <4>1. t \in Seq(Nat) /\ p \in Nat /\ table = t \o <<p, m>>
        BY <2>0, <3>0, <3>2
      <4> HIDE DEF t, p
      <4>2. /\ table # <<>> /\ table[Len(table)] = m
            /\ SubSeq(table, 1, Len(table) - 1) = t \o <<p>>
        BY <3>1, <4>1, PopTwice
      <4> QED
        BY <4>2 DEF t, p, Popped
    <3>4. a = m + 1 /\ a # 0 /\ ~(a > Len(code)) /\ a - 1 = m
      BY <2>2, <3>1, <3>3
    <3>5. addr' = m /\ pc' = "proof" /\ table' = T[m] \o <<LastProof(code, m)>>
      BY <1>2, <3>3, <3>4
    <3>6. MarkedFrom(addr + 1)'
      <4> SUFFICES ASSUME NEW x \in found, m + 1 <= x, At(code, x) = JUMPDEST
                   PROVE  x \in bits
        BY <1>1, <3>5 DEF MarkedFrom, found
      <4>1. x \in Nat
        BY <2>1, <2>2
      <4>2. n <= x
        BY <2>2, <3>0, <3>1, <4>1
      <4> QED
        BY <2>0, <4>2 DEF MarkedFrom, found
    <3> QED
      BY <1>1, <1>3, <1>6, <3>0, <3>1, <3>5, <3>6
         DEF OwnInv, UsedDestsMarked, NearFaultDecided, Ended, T, found
  <2> QED
    BY <2>3, <2>4, <2>5
<1> QED
  BY <1>1, <1>5, <1>6 DEF OwnInv

LEMMA TakeProofOwn ==
    ASSUME OwnInv, TakeProof
    PROVE  OwnInv'
<1> DEFINE T == Pushed(code, used)
           found == Found(code, used)
           proof == LastProof(code, addr)
<1>1. /\ pc = "proof" /\ code' = code /\ used' = used /\ addr' = 0
      /\ honest /\ honest' = honest
      /\ code \in Codes /\ used \subseteq Positions /\ bits \subseteq ValidDests(code)
      /\ used # {} /\ addr \in found
      /\ table = T[addr] \o <<proof>>
      /\ MarkedFrom(addr + 1)
  BY DEF TakeProof, OwnInv, BitsValid
<1>2. /\ Max(used) \in Nat
      /\ \A x \in found : x \in 0 .. Len(code) - 1 /\ x < Max(used) + 1 /\ IsInstruction(code)[x]
  BY <1>1, FoundRight
<1>3. Len(code) \in Nat
  BY <1>1, ByteTyped, JumpdestAssumption
<1>4. addr \in Nat /\ addr \in 0 .. Max(used) + 1 /\ addr \in 0 .. Len(code) - 1
  BY <1>1, <1>2, <1>3
<1>5. T[addr] \in Seq(Nat)
  BY <1>1, <1>2, <1>4, PushedIs
<1>6. proof \in Nat /\ (proof # 0 => PrefixOK(code, proof) /\ proof + W <= addr)
  BY <1>1, <1>4, LastProofFits
<1> HIDE DEF T, found, proof
<1>7. table # <<>> /\ table[Len(table)] = proof /\ Popped = T[addr]
  BY <1>1, <1>4, <1>5, <1>6, PopTwice DEF Popped
<1>8. /\ pc' = IF Aborts(code, proof, addr) THEN "rejected" ELSE "analysis"
      /\ bits' = IF Aborts(code, proof, addr) THEN bits ELSE WriteTable(code, proof, addr, bits)
      /\ table' = T[addr]
  BY <1>1, <1>7 DEF TakeProof, NextProof
<1>9. ~Aborts(code, proof, addr) /\ (At(code, addr) = JUMPDEST => addr \in bits')
  <2>1. CASE At(code, addr) # JUMPDEST
    BY <2>1 DEF Aborts
  <2>2. CASE At(code, addr) = JUMPDEST
    <3>1. addr \in ValidDests(code)
      BY <1>1, <1>2, <1>4, <2>2 DEF ValidDests
    <3> QED
      BY <1>1, <1>6, <1>8, <3>1, FittingProofMarks
  <2> QED
    BY <2>1, <2>2
<1>10. bits \subseteq bits' /\ bits' \subseteq ValidDests(code)
  <2>1. bits' = WriteTable(code, proof, addr, bits)
    BY <1>8, <1>9
  <2> QED
    BY <1>1, <1>4, <1>6, <1>9, <2>1, WriteTableKeeps, WriteTableValid
<1>11. \A x \in found : addr <= x /\ At(code, x) = JUMPDEST => x \in bits'
  <2> SUFFICES ASSUME NEW x \in found, addr <= x, At(code, x) = JUMPDEST
               PROVE  x \in bits'
    OBVIOUS
  <2>1. x = addr \/ addr + 1 <= x
    BY <1>2, <1>3, <1>4
  <2> QED
    BY <1>1, <1>9, <1>10, <2>1 DEF MarkedFrom, found
<1>12. \E n \in 0 .. Max(used) + 1 : (table' = Pushed(code, used)[n]) /\ MarkedFrom(n)'
  BY <1>1, <1>4, <1>8, <1>11 DEF MarkedFrom, found, T
<1>13. pc' = "analysis" /\ BitsValid'
  BY <1>1, <1>8, <1>9, <1>10 DEF BitsValid
<1> QED
  BY <1>1, <1>12, <1>13 DEF OwnInv, UsedDestsMarked, NearFaultDecided, Ended

LEMMA NonJumpdestProofTyped ==
    ASSUME NEW c \in Codes, NEW a \in Nat
    PROVE  NonJumpdestProof(c, a) \in Nat
<1> DEFINE before == CodeIterator(c, a + 1)
<1>0. Len(c) \in Nat
  BY ByteTyped, JumpdestAssumption
<1>1. before = {k \in 0 .. Len(c) - 1 : k < a + 1 /\ IsInstruction(c)[k]}
  BY IteratorMembers
<1>2. before \subseteq 0 .. a
  BY <1>0, <1>1
<1>3. before # {} => Max(before) \in Nat
  <2> HIDE DEF before
  <2> SUFFICES ASSUME before # {}
               PROVE  Max(before) \in Nat
    OBVIOUS
  <2>1. Max(before) \in before
    BY <1>2, MaxIs
  <2>2. Max(before) \in 0 .. a
    BY <1>2, <2>1
  <2> QED
    BY <2>2
<1>4. ClosestOpcode(c, a) \in Nat
  BY <1>3 DEF ClosestOpcode
<1> QED
  BY <1>4 DEF NonJumpdestProof

LEMMA FaultingJumpOwn ==
    ASSUME OwnInv, FaultingJump
    PROVE  OwnInv'
<1> DEFINE Marked(a) == WriteTable(code, NonJumpdestProof(code, a), a, bits)
           Refused(a) == \/ NonJumpdestProof(code, a) > a
                         \/ Aborts(code, NonJumpdestProof(code, a), a)
<1>1. /\ code' = code /\ used' = used /\ honest /\ honest' = honest
      /\ code \in Codes /\ used \subseteq Positions /\ bits \subseteq ValidDests(code)
  BY DEF FaultingJump, OwnInv, BitsValid
<1>2. PICK a \in Positions :
          /\ a \notin bits
          /\ addr' = a
          /\ bits' = IF Refused(a) THEN bits ELSE Marked(a)
          /\ pc' = CASE Refused(a) -> "faultRejected"
                     [] ~Refused(a) /\ a \in Marked(a) -> "panic"
                     [] OTHER -> "faulted"
  BY <1>1, Zenon DEF FaultingJump, JumpProofs
<1>3. a \in Nat
  BY JumpdestAssumption DEF Positions
<1>4. NonJumpdestProof(code, a) \in Nat
  BY <1>1, <1>3, NonJumpdestProofTyped
<1>5. ~Refused(a) => Marked(a) \subseteq ValidDests(code)
  BY <1>1, <1>3, <1>4, WriteTableValid
<1>6. BitsValid'
  BY <1>1, <1>2, <1>5 DEF BitsValid
<1>7. pc' \in {"faultRejected", "panic", "faulted"}
  <2> HIDE DEF Refused, Marked
  <2> QED
    BY <1>2
<1>8. ASSUME ClosestOpcode(code, a) < W
      PROVE  pc' = IF a \in ValidDests(code) THEN "panic" ELSE "faulted"
  <2>1. NonJumpdestProof(code, a) = 0
    BY <1>8 DEF NonJumpdestProof
  <2>2. ~Refused(a)
    BY <1>3, <2>1 DEF Aborts
  <2>3. a \in ValidDests(code) => a \in Marked(a)
    BY <1>1, <2>1, FittingProofMarks
  <2>4. a \in Marked(a) <=> a \in ValidDests(code)
    BY <1>5, <2>2, <2>3
  <2> HIDE DEF Refused, Marked
  <2> QED
    BY <1>2, <2>2, <2>4
<1>9. NearFaultDecided'
  BY <1>1, <1>2, <1>8 DEF NearFaultDecided
<1> QED
  BY <1>1, <1>2, <1>3, <1>6, <1>7, <1>9 DEF OwnInv, UsedDestsMarked

LEMMA NextOwn ==
    ASSUME OwnInv, [AnalysisNext]_analysisVars
    PROVE  OwnInv'
<1>1. CASE Halted \/ UNCHANGED analysisVars
  <2>1. /\ honest' = honest /\ code' = code /\ used' = used /\ table' = table
        /\ addr' = addr /\ bits' = bits /\ pc' = pc
    BY <1>1 DEF Halted, analysisVars
  <2> QED
    BY <2>1 DEF OwnInv, BitsValid, MarkedFrom, UsedDestsMarked, NearFaultDecided
<1> QED
  BY <1>1, TakeAddressOwn, TakeProofOwn, FaultingJumpOwn DEF AnalysisNext

-----------------------------------------------------------------------------
(* The theorems.                                                           *)

IInv == AnalysisTypeOK /\ (AnyInv \/ OwnInv)

LEMMA InitInv == AnalysisInit => IInv
<1> SUFFICES ASSUME AnalysisInit
             PROVE  IInv
  OBVIOUS
<1>1. /\ honest \in BOOLEAN /\ code \in Codes /\ used \subseteq Positions
      /\ ~honest => used = {}
      /\ table = TableOf(code, used) /\ addr = 0 /\ bits = {} /\ pc = "analysis"
  BY DEF AnalysisInit
<1>2. CASE honest
  <2>1. OwnInv
    BY <1>2, InitOwn
  <2>2. table \in Seq(Nat)
    <3>1. CASE used = {}
      BY <1>1, <3>1 DEF TableOf
    <3>2. CASE used # {}
      <4>1. PICK n \in 0 .. Max(used) + 1 : table = Pushed(code, used)[n]
        BY <1>1, <2>1, <3>2 DEF OwnInv
      <4>2. Max(used) \in Nat
        BY <1>1, <3>2, FoundRight
      <4> QED
        BY <1>1, <4>1, <4>2, PushedIs
    <3> QED
      BY <3>1, <3>2
  <2> QED
    BY <1>1, <2>1, <2>2 DEF IInv, AnalysisTypeOK
<1>3. CASE ~honest
  <2>1. table = <<>>
    BY <1>1, <1>3 DEF TableOf
  <2> QED
    BY <1>1, <1>3, <2>1 DEF IInv, AnyInv, AnalysisTypeOK, BitsValid
<1> QED
  BY <1>2, <1>3

LEMMA TypesKept ==
    ASSUME AnalysisTypeOK, [AnalysisNext]_analysisVars, addr' \in Nat, BitsValid'
    PROVE  AnalysisTypeOK'
<1>1. honest' = honest /\ code' = code /\ used' = used
  BY DEF AnalysisNext, TakeAddress, TakeProof, FaultingJump, Halted, analysisVars
<1>2. table' \in Seq(Nat)
  <2>1. table' = table \/ table' = Popped
    BY DEF AnalysisNext, TakeAddress, TakeProof, FaultingJump, Halted, analysisVars
  <2>2. Popped \in Seq(Nat)
    BY DEF AnalysisTypeOK, Popped
  <2> QED
    BY <2>1, <2>2 DEF AnalysisTypeOK
<1>3. bits' \subseteq Positions
  <2>1. code \in Codes
    BY DEF AnalysisTypeOK
  <2>2. Len(code) \in 0 .. MaxLen /\ MaxLen \in Nat
    BY <2>1, ByteTyped, JumpdestAssumption
  <2>3. ValidDests(code) \subseteq Positions
    BY <2>2 DEF ValidDests, Positions
  <2> QED
    BY <1>1, <2>3 DEF BitsValid
<1>4. pc' \in {"analysis", "proof", "user"} \cup Ended
  <2>1. CASE TakeAddress
    BY <2>1 DEF TakeAddress, Ended
  <2>2. CASE TakeProof
    BY <2>2 DEF TakeProof, Ended
  <2>3. CASE FaultingJump
    <3>1. pc' \in {"faultRejected", "panic", "faulted"}
      BY <2>3 DEF FaultingJump
    <3> QED
      BY <3>1 DEF Ended
  <2>4. CASE Halted \/ UNCHANGED analysisVars
    BY <2>4 DEF Halted, analysisVars, AnalysisTypeOK
  <2> QED
    BY <2>1, <2>2, <2>3, <2>4 DEF AnalysisNext
<1> QED
  BY <1>1, <1>2, <1>3, <1>4 DEF AnalysisTypeOK

LEMMA NextInv == IInv /\ [AnalysisNext]_analysisVars => IInv'
<1> SUFFICES ASSUME IInv, [AnalysisNext]_analysisVars
             PROVE  IInv'
  OBVIOUS
<1>1. AnyInv' \/ OwnInv'
  BY NextAny, NextOwn DEF IInv
<1>2. addr' \in Nat /\ BitsValid'
  BY <1>1 DEF AnyInv, OwnInv
<1>3. AnalysisTypeOK'
  BY <1>2, TypesKept DEF IInv
<1> QED
  BY <1>1, <1>3 DEF IInv

\* Whatever addresses and proofs the prover sends, and whatever the code, the kernel
\* sets bits only at jump destinations: no proof makes it decode from inside the
\* argument of a PUSH and mark a byte of one.
THEOREM BitsAreValid == AnalysisSpec => []BitsValid
<1>1. IInv => BitsValid
  BY DEF IInv, AnyInv, OwnInv
<1> QED
  BY <1>1, InitInv, NextInv, PTL DEF AnalysisSpec

\* The table of get_proofs_and_jumpdests is never rejected and leaves no destination the
\* simulation recorded without its bit when user code starts, and the prover's hint for a
\* faulting jump near the start of the code decides that jump right; and of every
\* prover, the bits that are set are valid.
THEOREM AnalysisIsRight == AnalysisSpec => [](AnalysisTypeOK /\ AnalysisRight)
<1>1. OwnInv => AnalysisRight
  BY DEF OwnInv, AnalysisRight, AnalysisAccepts
<1>2. AnyInv => AnalysisRight
  BY DEF AnyInv, AnalysisRight, AnalysisAccepts, UsedDestsMarked, NearFaultDecided
<1>3. IInv => AnalysisTypeOK /\ AnalysisRight
  BY <1>1, <1>2 DEF IInv
<1> QED
  BY <1>3, InitInv, NextInv, PTL DEF AnalysisSpec

-------------------------------------------------------------------------------
(***************************************************************************)
(* The simulation of a call and its proof.  Both run one deterministic     *)
(* machine: a configuration is what is left of the state without the phase *)
(* and the table, After is its one step, and Visits(c, d, s) are the       *)
(* configurations of the run from s.                                       *)
(***************************************************************************)
Frame == [ctx : 1 .. MaxContexts, pc : Nat, ok : BOOLEAN]
Configuration ==
    {s \in [frames : Seq(Frame), contexts : Nat, gas : Nat] :
        s.frames # <<>> /\ s.contexts + s.gas <= MaxContexts}

TopOf(s) == s.frames[Len(s.frames)]
InstrOf(c, d, s) == CodeAt(IF TopOf(s).ctx = 1 THEN c ELSE d, TopOf(s).pc)
DestOf(c, d, s) == IsDest(IF TopOf(s).ctx = 1 THEN c ELSE d, InstrOf(c, d, s).to)

\* The jump that s makes, recorded or not.
Jumps(c, d, s) ==
    s.gas > 0 /\ (InstrOf(c, d, s).op = "jump" \/ (InstrOf(c, d, s).op = "jumpi" /\ ~TopOf(s).ok))

\* The top frame returns, and with success.
Returns(c, d, s) ==
    \/ s.gas = 0
    \/ InstrOf(c, d, s).op \in {"stop", "invalid"}
    \/ InstrOf(c, d, s).op = "jumpi" /\ ~TopOf(s).ok /\ ~DestOf(c, d, s)
Succeeds(c, d, s) == s.gas > 0 /\ InstrOf(c, d, s).op = "stop"

\* The run ends.
Ends(c, d, s) == Returns(c, d, s) /\ Len(s.frames) = 1

Unwound(fs, ok) ==
    [SubSeq(fs, 1, Len(fs) - 1) EXCEPT ![Len(fs) - 1] = Resumed(@, ok)]

FramesAfter(c, d, s) ==
    LET n == Len(s.frames)
        op == InstrOf(c, d, s).op
    IN  IF Returns(c, d, s) THEN Unwound(s.frames, Succeeds(c, d, s))
        ELSE IF op = "call" THEN Append(s.frames, Start(s.contexts + 1))
        ELSE IF Jumps(c, d, s) THEN [s.frames EXCEPT ![n].pc = InstrOf(c, d, s).to]
        ELSE [s.frames EXCEPT ![n].pc = TopOf(s).pc + 1]

After(c, d, s) ==
    [frames |-> FramesAfter(c, d, s),
     contexts |-> IF ~Returns(c, d, s) /\ InstrOf(c, d, s).op = "call" THEN s.contexts + 1 ELSE s.contexts,
     gas |-> IF s.gas = 0 THEN 0 ELSE s.gas - 1]

Follows(c, d, T) == \A s \in T : ~Ends(c, d, s) => After(c, d, s) \in T
Visits(c, d, s) ==
    {t \in Configuration : \A T \in SUBSET Configuration : s \in T /\ Follows(c, d, T) => t \in T}

LEMMA InstructionTyped ==
    ASSUME NEW n \in Nat, NEW c \in Programs(n), NEW i \in Nat
    PROVE  /\ CodeAt(c, i).op \in {"stop", "invalid", "jumpdest", "call", "jump", "jumpi"}
           /\ CodeAt(c, i).to \in Nat
           /\ Tame(c) /\ CodeAt(c, i).op = "jump" => IsDest(c, CodeAt(c, i).to)
<1>1. Len(c) = n /\ DOMAIN c = 1 .. n
  BY DEF Programs
<1>2. CASE i < n
  <2>1. i + 1 \in 1 .. n /\ CodeAt(c, i) = c[i + 1]
    BY <1>1, <1>2 DEF CodeAt
  <2>2. c[i + 1] \in Instructions(n)
    BY <2>1 DEF Programs
  <2>3. Tame(c) /\ c[i + 1].op = "jump" => IsDest(c, c[i + 1].to)
    BY <1>1, <2>1 DEF Tame
  <2>4. /\ c[i + 1].op \in {"stop", "invalid", "jumpdest", "call", "jump", "jumpi"}
        /\ c[i + 1].to \in Nat
    <3>1. CASE \E o \in {"stop", "invalid", "jumpdest", "call"} : c[i + 1] = [op |-> o, to |-> 0]
      BY <3>1
    <3>2. CASE \E o \in {"jump", "jumpi"}, t \in 0 .. n - 1 : c[i + 1] = [op |-> o, to |-> t]
      <4>1. PICK o \in {"jump", "jumpi"}, t \in 0 .. n - 1 : c[i + 1] = [op |-> o, to |-> t]
        BY <3>2
      <4>2. t \in Nat
        OBVIOUS
      <4> QED
        BY <4>1, <4>2
    <3> QED
      BY <2>2, <3>1, <3>2 DEF Instructions
  <2> QED
    BY <2>1, <2>3, <2>4
<1>3. CASE ~(i < n)
  <2>1. CodeAt(c, i) = [op |-> "stop", to |-> 0]
    BY <1>1, <1>3 DEF CodeAt
  <2> QED
    BY <2>1
<1> QED
  BY <1>2, <1>3

LEMMA InstrOfTyped ==
    ASSUME NEW c \in Programs(Len1), NEW d \in Programs(Len2), NEW s \in Configuration
    PROVE  /\ TopOf(s) \in Frame
           /\ Len(s.frames) \in Nat \ {0}
           /\ InstrOf(c, d, s).op \in {"stop", "invalid", "jumpdest", "call", "jump", "jumpi"}
           /\ InstrOf(c, d, s).to \in Nat
           /\ Tame(c) /\ Tame(d) /\ InstrOf(c, d, s).op = "jump" => DestOf(c, d, s)
<1>1. s.frames \in Seq(Frame) /\ s.frames # <<>>
  BY DEF Configuration
<1>2. Len(s.frames) \in Nat \ {0} /\ TopOf(s) \in Frame
  BY <1>1 DEF TopOf
<1>3. TopOf(s).pc \in Nat
  BY <1>2 DEF Frame
<1>4. Len1 \in Nat /\ Len2 \in Nat
  BY SimulationAssumption
<1>5. CASE TopOf(s).ctx = 1
  <2>1. InstrOf(c, d, s) = CodeAt(c, TopOf(s).pc) /\ DestOf(c, d, s) = IsDest(c, InstrOf(c, d, s).to)
    BY <1>5 DEF InstrOf, DestOf
  <2> QED
    BY <1>2, <1>3, <1>4, <2>1, InstructionTyped
<1>6. CASE TopOf(s).ctx # 1
  <2>1. InstrOf(c, d, s) = CodeAt(d, TopOf(s).pc) /\ DestOf(c, d, s) = IsDest(d, InstrOf(c, d, s).to)
    BY <1>6 DEF InstrOf, DestOf
  <2> QED
    BY <1>2, <1>3, <1>4, <2>1, InstructionTyped
<1> QED
  BY <1>5, <1>6

LEMMA ResumedTyped ==
    ASSUME NEW f \in Frame, NEW ok \in BOOLEAN
    PROVE  Resumed(f, ok) \in Frame
<1>1. f.pc + 1 \in Nat
  BY DEF Frame
<1>2. Resumed(f, ok) = [f EXCEPT !.pc = f.pc + 1, !.ok = ok]
  BY DEF Resumed
<1> QED
  BY <1>1, <1>2 DEF Frame

\* The step of a configuration is a configuration.
LEMMA AfterTyped ==
    ASSUME NEW c \in Programs(Len1), NEW d \in Programs(Len2), NEW s \in Configuration,
           ~Ends(c, d, s)
    PROVE  After(c, d, s) \in Configuration
<1> DEFINE fs == s.frames
           n == Len(fs)
           op == InstrOf(c, d, s).op
<1>1. /\ fs \in Seq(Frame) /\ n \in Nat \ {0}
      /\ s.contexts \in Nat /\ s.gas \in Nat /\ s.contexts + s.gas <= 1 + Gas
      /\ TopOf(s) \in Frame /\ TopOf(s) = fs[n] /\ Gas \in Nat
      /\ InstrOf(c, d, s).to \in Nat
  BY InstrOfTyped, SimulationAssumption DEF Configuration, TopOf, MaxContexts
<1>2. \A p \in Nat : [fs EXCEPT ![n].pc = p] \in Seq(Frame) /\ [fs EXCEPT ![n].pc = p] # <<>>
  <2> TAKE p \in Nat
  <2> DEFINE e == [fs[n] EXCEPT !.pc = p]
             gs == [fs EXCEPT ![n] = e]
  <2>1. e \in Frame
    BY <1>1 DEF Frame
  <2> HIDE DEF e
  <2>2. gs \in Seq(Frame) /\ Len(gs) = n
    BY <1>1, <2>1
  <2>3. gs # <<>>
    BY <1>1, <2>2
  <2> QED
    BY <2>2, <2>3 DEF e
<1>3. CASE Returns(c, d, s)
  <2> DEFINE ok == Succeeds(c, d, s)
             ss == SubSeq(fs, 1, n - 1)
             e == Resumed(ss[n - 1], ok)
             gs == [ss EXCEPT ![n - 1] = e]
  <2>0. n # 1
    BY <1>3 DEF Ends
  <2>1. n > 1
    <3>1. n \in Nat /\ n # 0
      BY <1>1
    <3> HIDE DEF n
    <3> QED
      BY <2>0, <3>1
  <2>2. ok \in BOOLEAN
    BY DEF Succeeds
  <2> HIDE DEF ok
  <2>3. ss \in Seq(Frame) /\ Len(ss) = n - 1 /\ n - 1 \in 1 .. Len(ss)
    BY <1>1, <2>1
  <2> HIDE DEF ss
  <2>4. ss[n - 1] \in Frame
    BY <2>3
  <2>5. e \in Frame
    BY <2>2, <2>4, ResumedTyped
  <2>6. Unwound(fs, ok) = gs
    BY DEF Unwound, ss
  <2> HIDE DEF e
  <2>7. gs \in Seq(Frame) /\ Len(gs) = n - 1
    BY <2>3, <2>5
  <2>8. gs # <<>>
    BY <2>1, <1>1, <2>7
  <2>9. FramesAfter(c, d, s) = gs
    BY <1>3, <2>6 DEF FramesAfter, ok
  <2> HIDE DEF gs
  <2> QED
    BY <1>1, <1>3, <2>7, <2>8, <2>9 DEF After, Configuration, MaxContexts
<1>4. CASE ~Returns(c, d, s) /\ op = "call"
  <2>1. s.gas > 0
    BY <1>1, <1>4 DEF Returns
  <2>2. s.contexts + 1 \in 1 .. MaxContexts
    BY <1>1, <2>1 DEF MaxContexts
  <2>3. Start(s.contexts + 1) \in Frame
    BY <2>2 DEF Start, Frame
  <2>4. FramesAfter(c, d, s) = Append(fs, Start(s.contexts + 1))
    BY <1>4 DEF FramesAfter
  <2>5. FramesAfter(c, d, s) \in Seq(Frame) /\ FramesAfter(c, d, s) # <<>>
    BY <1>1, <2>3, <2>4
  <2> QED
    BY <1>1, <1>4, <2>1, <2>5 DEF After, Configuration, MaxContexts
<1>5. CASE ~Returns(c, d, s) /\ op # "call"
  <2>1. TopOf(s).pc + 1 \in Nat
    BY <1>1 DEF Frame
  <2>2. FramesAfter(c, d, s) \in {[fs EXCEPT ![n].pc = InstrOf(c, d, s).to], [fs EXCEPT ![n].pc = TopOf(s).pc + 1]}
    BY <1>5 DEF FramesAfter
  <2>3. FramesAfter(c, d, s) \in Seq(Frame) /\ FramesAfter(c, d, s) # <<>>
    BY <1>1, <1>2, <2>1, <2>2
  <2> QED
    BY <1>1, <1>5, <2>3 DEF After, Configuration, MaxContexts
<1> QED
  BY <1>3, <1>4, <1>5

\* The run from s is s and the run from the step of s.
LEMMA VisitsIs ==
    ASSUME NEW c \in Programs(Len1), NEW d \in Programs(Len2), NEW s \in Configuration
    PROVE  /\ s \in Visits(c, d, s)
           /\ Visits(c, d, s) \subseteq Configuration
           /\ Follows(c, d, Visits(c, d, s))
           /\ Ends(c, d, s) => Visits(c, d, s) = {s}
           /\ ~Ends(c, d, s) => Visits(c, d, s) \subseteq {s} \cup Visits(c, d, After(c, d, s))
<1>1. ASSUME NEW u \in Configuration
      PROVE  /\ u \in Visits(c, d, u)
             /\ Visits(c, d, u) \subseteq Configuration
             /\ Follows(c, d, Visits(c, d, u))
  <2>1. u \in Visits(c, d, u) /\ Visits(c, d, u) \subseteq Configuration
    BY DEF Visits
  <2>2. ASSUME NEW t \in Visits(c, d, u), ~Ends(c, d, t)
        PROVE  After(c, d, t) \in Visits(c, d, u)
    <3>1. t \in Configuration
      BY <2>1
    <3>2. After(c, d, t) \in Configuration
      BY <2>2, <3>1, AfterTyped
    <3>3. ASSUME NEW T \in SUBSET Configuration, u \in T, Follows(c, d, T)
          PROVE  After(c, d, t) \in T
      BY <2>2, <3>3 DEF Visits, Follows
    <3> QED
      BY <3>2, <3>3 DEF Visits
  <2> QED
    BY <2>1, <2>2 DEF Follows
<1>2. ASSUME NEW T \in SUBSET Configuration, s \in T, Follows(c, d, T)
      PROVE  Visits(c, d, s) \subseteq T
  BY <1>2 DEF Visits
<1>3. ASSUME Ends(c, d, s)
      PROVE  Visits(c, d, s) = {s}
  <2>1. Follows(c, d, {s})
    BY <1>3 DEF Follows
  <2> QED
    BY <1>1, <1>2, <2>1
<1>4. ASSUME ~Ends(c, d, s)
      PROVE  Visits(c, d, s) \subseteq {s} \cup Visits(c, d, After(c, d, s))
  <2> DEFINE a == After(c, d, s)
             T == {s} \cup Visits(c, d, a)
  <2>1. a \in Configuration
    BY <1>4, AfterTyped
  <2>2. /\ a \in Visits(c, d, a)
        /\ Visits(c, d, a) \subseteq Configuration
        /\ Follows(c, d, Visits(c, d, a))
    BY <1>1, <2>1
  <2>3. T \in SUBSET Configuration /\ s \in T
    BY <2>2
  <2>4. Follows(c, d, T)
    BY <2>2 DEF Follows
  <2> QED
    BY <1>2, <2>3, <2>4
<1> QED
  BY <1>1, <1>3, <1>4

Now == [frames |-> frames, contexts |-> contexts, gas |-> gas]

SimulationTyped ==
    /\ outer \in Programs(Len1) /\ inner \in Programs(Len2)
    /\ recorded \in [1 .. MaxContexts -> SUBSET Nat]
    /\ outcome \in BOOLEAN

\* What a step of the machine does, in the simulation and in the proof.
Noting ==
    recorded' = IF phase = "simulate" /\ Jumps(outer, inner, Now)
                THEN [recorded EXCEPT ![TopFrame.ctx] = @ \cup {Instr.to}] ELSE recorded
Ending ==
    /\ frames' = <<>>
    /\ phase = "simulate" => phase' = "prove" /\ outcome' = Succeeds(outer, inner, Now)
    /\ phase = "prove" => /\ phase' = (IF Succeeds(outer, inner, Now) = outcome THEN "done" ELSE "doneOther")
                          /\ outcome' = outcome
Moving == Now' = After(outer, inner, Now) /\ phase' = phase /\ outcome' = outcome
Machine ==
    /\ outer' = outer /\ inner' = inner
    /\ Noting
    /\ IF Ends(outer, inner, Now) THEN Ending ELSE Moving

LEMMA NowIs ==
    /\ Now.frames = frames /\ Now.contexts = contexts /\ Now.gas = gas
    /\ TopOf(Now) = TopFrame
    /\ InstrOf(outer, inner, Now) = Instr
    /\ DestOf(outer, inner, Now) = IsDest(Code, Instr.to)
<1>1. Now.frames = frames /\ Now.contexts = contexts /\ Now.gas = gas
  BY DEF Now
<1>2. TopOf(Now) = TopFrame
  BY <1>1 DEF TopOf, TopFrame
<1>3. InstrOf(outer, inner, Now) = Instr
  BY <1>2 DEF InstrOf, Instr, Code
<1> QED
  BY <1>1, <1>2, <1>3 DEF DestOf, Code

\* A return with the result of the configuration is its step.
LEMMA ReturnSteps ==
    ASSUME Running, Now \in Configuration, SimulationTyped,
           Returns(outer, inner, Now),
           NEW ok \in BOOLEAN, ok = Succeeds(outer, inner, Now), Return(ok),
           gas' = IF gas = 0 THEN 0 ELSE gas - 1
    PROVE  IF Ends(outer, inner, Now) THEN Ending ELSE Moving
<1>1. Len(frames) \in Nat /\ Len(frames) # 0 /\ gas \in Nat
  BY InstrOfTyped, NowIs DEF SimulationTyped, Configuration
<1>2. Ends(outer, inner, Now) <=> Len(frames) = 1
  BY NowIs DEF Ends
<1>3. phase \in {"simulate", "prove"}
  BY DEF Running
<1>4. CASE Len(frames) = 1
  <2>2. frames' = <<>>
    BY <1>4 DEF Return
  <2>3. phase = "simulate" => phase' = "prove" /\ outcome' = ok
    BY <1>4 DEF Return
  <2>4. phase = "prove" => phase' = (IF ok = outcome THEN "done" ELSE "doneOther") /\ outcome' = outcome
    BY <1>4 DEF Return
  <2> QED
    BY <1>2, <1>4, <2>2, <2>3, <2>4 DEF Ending
<1>5. CASE Len(frames) # 1
  <2>2. phase' = phase /\ outcome' = outcome /\ contexts' = contexts
    BY <1>5 DEF Return
  <2>3. frames' = Unwound(frames, ok)
    BY <1>5 DEF Return, Unwound
  <2>4. FramesAfter(outer, inner, Now) = Unwound(frames, ok)
    BY NowIs DEF FramesAfter
  <2>5. After(outer, inner, Now) = [frames |-> frames', contexts |-> contexts', gas |-> gas']
    BY <2>2, <2>3, <2>4, NowIs DEF After
  <2> QED
    BY <1>2, <1>5, <2>2, <2>5 DEF Moving, Now
<1> QED
  BY <1>4, <1>5

\* The top frame goes on at p, where the configuration's step does.
LEMMA GoToSteps ==
    ASSUME ~Returns(outer, inner, Now), Instr.op # "call",
           NEW p, GoTo(p), outcome' = outcome, gas # 0, gas' = gas - 1,
           p = IF Jumps(outer, inner, Now) THEN Instr.to ELSE TopFrame.pc + 1
    PROVE  IF Ends(outer, inner, Now) THEN Ending ELSE Moving
<1>1. ~Ends(outer, inner, Now)
  BY DEF Ends
<1>2. frames' = [frames EXCEPT ![Len(frames)].pc = p] /\ phase' = phase /\ contexts' = contexts
  BY DEF GoTo
<1>3. FramesAfter(outer, inner, Now) = frames'
  BY <1>2, NowIs DEF FramesAfter
<1>4. After(outer, inner, Now) = [frames |-> frames', contexts |-> contexts', gas |-> gas']
  BY <1>2, <1>3, NowIs DEF After
<1> QED
  BY <1>1, <1>2, <1>4 DEF Moving, Now

\* The targets that s jumps to are in the table of its context.
Noted(c, d, targets, s) == Jumps(c, d, s) => InstrOf(c, d, s).to \in targets[TopOf(s).ctx]

Works == Jump \/ Jumpi \/ Call \/ Jumpdest \/ Stop \/ OutOfGas

\* Every instruction is the machine's step: in the simulation, and in the proof once
\* the table has the target.
LEMMA WorksStep ==
    ASSUME Works, Now \in Configuration, SimulationTyped, Tame(outer), Tame(inner),
           phase = "prove" => Noted(outer, inner, recorded, Now)
    PROVE  Machine
<1> DEFINE IsStep == IF Ends(outer, inner, Now) THEN Ending ELSE Moving
<1>1. /\ Running /\ phase \in {"simulate", "prove"}
      /\ outer' = outer /\ inner' = inner
  BY DEF Works, Jump, Jumpi, Call, Jumpdest, Stop, OutOfGas, Running
<1>2. /\ gas \in Nat
      /\ TopFrame.ok \in BOOLEAN
      /\ Instr.op = "jump" => IsDest(Code, Instr.to)
  BY InstrOfTyped, NowIs DEF SimulationTyped, Configuration, Frame
<1> DEFINE R == Returns(outer, inner, Now)
           S == Succeeds(outer, inner, Now)
           J == Jumps(outer, inner, Now)
<1>3. /\ R <=> (gas = 0 \/ Instr.op \in {"stop", "invalid"} \/ (Instr.op = "jumpi" /\ ~TopFrame.ok /\ ~IsDest(Code, Instr.to)))
      /\ S <=> (gas > 0 /\ Instr.op = "stop")
      /\ J <=> (gas > 0 /\ (Instr.op = "jump" \/ (Instr.op = "jumpi" /\ ~TopFrame.ok)))
  BY NowIs DEF Returns, Succeeds, Jumps
<1>4. S \in BOOLEAN
  BY DEF Succeeds
<1>5. phase = "prove" /\ J => Instr.to \in recorded[TopFrame.ctx]
  BY NowIs DEF Noted
<1> HIDE DEF R, S, J
<1>6. ASSUME gas > 0, gas' = gas - 1
      PROVE  gas # 0 /\ gas' = IF gas = 0 THEN 0 ELSE gas - 1
  BY <1>2, <1>6
<1>7. CASE Jump
  <2>1. Instr.op = "jump" /\ gas > 0 /\ gas' = gas - 1
    BY <1>7 DEF Jump, Spend
  <2>2. J /\ ~R
    BY <1>3, <2>1, <1>6
  <2>3. phase = "simulate" \/ JumpdestBit(Instr.to)
    BY <1>1, <1>2, <1>5, <2>1, <2>2 DEF JumpdestBit
  <2>4. GoTo(Instr.to) /\ outcome' = outcome
    BY <1>7, <2>3 DEF Jump
  <2>5. IsStep
    BY <1>6, <2>1, <2>2, <2>4, GoToSteps DEF R, J
  <2>6. Noting
    BY <1>7, <2>2 DEF Jump, AddJumpdestOffset, Noting, J
  <2> QED
    BY <1>1, <2>5, <2>6 DEF Machine
<1>8. CASE Jumpi
  <2>1. Instr.op = "jumpi" /\ gas > 0 /\ gas' = gas - 1
    BY <1>8 DEF Jumpi, Spend
  <2>2. CASE TopFrame.ok
    <3>1. ~J /\ ~R
      BY <1>3, <1>6, <2>1, <2>2
    <3>2. GoTo(TopFrame.pc + 1) /\ outcome' = outcome /\ recorded' = recorded
      BY <1>8, <2>2 DEF Jumpi
    <3>3. IsStep
      BY <1>6, <2>1, <3>1, <3>2, GoToSteps DEF R, J
    <3>4. Noting
      BY <3>1, <3>2 DEF Noting, J
    <3> QED
      BY <1>1, <3>3, <3>4 DEF Machine
  <2>3. CASE ~TopFrame.ok
    <3>1. J
      BY <1>3, <2>1, <2>3
    <3>2. AddJumpdestOffset(Instr.to)
      BY <1>8, <2>3 DEF Jumpi
    <3>3. Noting
      BY <3>1, <3>2 DEF AddJumpdestOffset, Noting, J
    <3>4. CASE IsDest(Code, Instr.to)
      <4>1. ~R
        BY <1>3, <1>6, <2>1, <3>4
      <4>2. JumpdestBit(Instr.to)
        BY <1>1, <1>5, <3>1, <3>4 DEF JumpdestBit
      <4>3. GoTo(Instr.to) /\ outcome' = outcome
        BY <1>8, <2>3, <4>2 DEF Jumpi
      <4>4. IsStep
        BY <1>6, <2>1, <3>1, <4>1, <4>3, GoToSteps DEF R, J
      <4> QED
        BY <1>1, <3>3, <4>4 DEF Machine
    <3>5. CASE ~IsDest(Code, Instr.to)
      <4>1. R /\ ~S
        BY <1>3, <2>1, <2>3, <3>5
      <4>2. ~JumpdestBit(Instr.to)
        BY <3>5 DEF JumpdestBit
      <4>3. Return(FALSE)
        BY <1>8, <2>3, <3>5, <4>2 DEF Jumpi, InvalidJump
      <4>4. FALSE = S
        BY <1>4, <4>1
      <4>5. Return(S)
        BY <4>3, <4>4
      <4>6. IsStep
        BY <1>1, <1>4, <1>6, <2>1, <4>1, <4>5, ReturnSteps DEF R, S
      <4> QED
        BY <1>1, <3>3, <4>6 DEF Machine
    <3> QED
      BY <3>4, <3>5
  <2> QED
    BY <2>2, <2>3
<1>9. CASE Call
  <2>1. /\ Instr.op = "call" /\ gas > 0 /\ gas' = gas - 1
        /\ frames' = Append(frames, Start(contexts + 1)) /\ contexts' = contexts + 1
        /\ phase' = phase /\ outcome' = outcome /\ recorded' = recorded
    BY <1>9 DEF Call, Spend
  <2>2. ~J /\ ~R
    BY <1>3, <1>6, <2>1
  <2>3. ~Ends(outer, inner, Now)
    BY <2>2 DEF Ends, R
  <2>4. FramesAfter(outer, inner, Now) = frames'
    BY <2>1, <2>2, NowIs DEF FramesAfter, R
  <2>5. After(outer, inner, Now) = [frames |-> frames', contexts |-> contexts', gas |-> gas']
    BY <1>6, <2>1, <2>2, <2>4, NowIs DEF After, R
  <2>6. IsStep
    BY <2>1, <2>3, <2>5 DEF Moving, Now
  <2>7. Noting
    BY <2>1, <2>2 DEF Noting, J
  <2> QED
    BY <1>1, <2>6, <2>7 DEF Machine
<1>10. CASE Jumpdest
  <2>1. /\ Instr.op = "jumpdest" /\ gas > 0 /\ gas' = gas - 1
        /\ GoTo(TopFrame.pc + 1) /\ outcome' = outcome /\ recorded' = recorded
    BY <1>10 DEF Jumpdest, Spend
  <2>2. ~J /\ ~R
    BY <1>3, <1>6, <2>1
  <2>3. IsStep
    BY <1>6, <2>1, <2>2, GoToSteps DEF R, J
  <2>4. Noting
    BY <2>1, <2>2 DEF Noting, J
  <2> QED
    BY <1>1, <2>3, <2>4 DEF Machine
<1>11. CASE Stop
  <2> DEFINE ok == Instr.op = "stop"
  <2>1. /\ Instr.op \in {"stop", "invalid"} /\ gas > 0 /\ gas' = gas - 1
        /\ Return(ok) /\ recorded' = recorded
    BY <1>11 DEF Stop, Spend
  <2>2. ok <=> S
    BY <1>3, <2>1
  <2>3. ok \in BOOLEAN
    OBVIOUS
  <2>4. R /\ ~J
    BY <1>3, <2>1
  <2> HIDE DEF ok
  <2>5. ok = S
    BY <1>4, <2>2, <2>3
  <2>6. IsStep
    BY <1>1, <1>6, <2>1, <2>3, <2>4, <2>5, ReturnSteps DEF R, S
  <2>7. Noting
    BY <2>1, <2>4 DEF Noting, J
  <2> QED
    BY <1>1, <2>6, <2>7 DEF Machine
<1>12. CASE OutOfGas
  <2>1. gas = 0 /\ gas' = gas /\ Return(FALSE) /\ recorded' = recorded
    BY <1>12 DEF OutOfGas
  <2>2. R /\ ~J /\ ~S
    BY <1>3, <2>1
  <2>3. FALSE = S
    BY <1>4, <2>2
  <2>4. Return(S)
    BY <2>1, <2>3
  <2>5. gas' = IF gas = 0 THEN 0 ELSE gas - 1
    BY <2>1
  <2>6. IsStep
    BY <1>1, <1>4, <2>2, <2>4, <2>5, ReturnSteps DEF R, S
  <2>7. Noting
    BY <2>1, <2>2 DEF Noting, J
  <2> QED
    BY <1>1, <2>6, <2>7 DEF Machine
<1> QED
  BY <1>7, <1>8, <1>9, <1>10, <1>11, <1>12 DEF Works

First == [frames |-> <<Start(1)>>, contexts |-> 1, gas |-> Gas]

\* While the simulation runs, what it has left behind was recorded and did not end
\* the run; once it has ended, the table has every target of the run and outcome is
\* how the run ends, and the proof is somewhere on the run.
SimulationInv ==
    /\ SimulationTyped
    /\ phase \in {"simulate", "prove", "done"}
    /\ phase = "simulate" =>
          /\ Now \in Configuration
          /\ \A s \in Visits(outer, inner, First) :
                \/ s \in Visits(outer, inner, Now)
                \/ Noted(outer, inner, recorded, s) /\ ~Ends(outer, inner, s)
    /\ phase = "prove" =>
          /\ frames = <<>> \/ Now \in Visits(outer, inner, First)
          /\ \A s \in Visits(outer, inner, First) :
                /\ Noted(outer, inner, recorded, s)
                /\ Ends(outer, inner, s) => outcome = Succeeds(outer, inner, s)

SimulationIInv ==
    /\ outer \in Programs(Len1) /\ inner \in Programs(Len2)
    /\ Tame(outer) /\ Tame(inner) => SimulationInv

LEMMA FirstTyped == First \in Configuration
<1>1. Gas \in Nat /\ 1 \in 1 .. MaxContexts
  BY SimulationAssumption DEF MaxContexts
<1>2. Start(1) \in Frame
  BY <1>1 DEF Start, Frame
<1>3. <<Start(1)>> \in Seq(Frame) /\ <<Start(1)>> # <<>>
  BY <1>2
<1> QED
  BY <1>1, <1>3 DEF First, Configuration, MaxContexts

LEMMA SimulationInitInv == SimulationInit => SimulationIInv
<1> SUFFICES ASSUME SimulationInit
             PROVE  SimulationInv /\ outer \in Programs(Len1) /\ inner \in Programs(Len2)
  BY DEF SimulationIInv
<1>1. SimulationTyped
  BY DEF SimulationInit, SimulationTyped
<1>2. Now = First
  BY DEF SimulationInit, Now, First
<1> QED
  BY <1>1, <1>2, FirstTyped DEF SimulationInv, SimulationInit

\* The table never loses a target.
LEMMA NotingKeeps ==
    ASSUME SimulationTyped, Now \in Configuration, Noting
    PROVE  /\ recorded' \in [1 .. MaxContexts -> SUBSET Nat]
           /\ \A s \in Configuration : Noted(outer, inner, recorded, s) => Noted(outer, inner, recorded', s)
           /\ phase = "simulate" => Noted(outer, inner, recorded', Now)
<1> DEFINE k == TopFrame.ctx
           t == Instr.to
<1>1. k \in 1 .. MaxContexts /\ t \in Nat
  BY InstrOfTyped, NowIs DEF SimulationTyped, Frame
<1>2. recorded \in [1 .. MaxContexts -> SUBSET Nat]
  BY DEF SimulationTyped
<1> HIDE DEF k, t
<1>3. /\ recorded' \in [1 .. MaxContexts -> SUBSET Nat]
      /\ \A j \in 1 .. MaxContexts : recorded[j] \subseteq recorded'[j]
      /\ phase = "simulate" /\ Jumps(outer, inner, Now) => t \in recorded'[k]
  <2>1. CASE phase = "simulate" /\ Jumps(outer, inner, Now)
    <3>1. recorded' = [recorded EXCEPT ![k] = @ \cup {t}]
      BY <2>1 DEF Noting, k, t
    <3> QED
      BY <1>1, <1>2, <3>1
  <2>2. CASE ~(phase = "simulate" /\ Jumps(outer, inner, Now))
    <3>1. recorded' = recorded
      BY <2>2 DEF Noting
    <3> QED
      BY <1>2, <2>2, <3>1
  <2> QED
    BY <2>1, <2>2
<1>4. ASSUME NEW s \in Configuration, Noted(outer, inner, recorded, s)
      PROVE  Noted(outer, inner, recorded', s)
  <2>1. TopOf(s).ctx \in 1 .. MaxContexts
    BY InstrOfTyped DEF SimulationTyped, Frame
  <2> QED
    BY <1>3, <1>4, <2>1 DEF Noted
<1>5. phase = "simulate" => Noted(outer, inner, recorded', Now)
  BY <1>3, NowIs DEF Noted, k, t
<1> QED
  BY <1>3, <1>4, <1>5

\* A step of the machine keeps the invariant.
LEMMA MachineInv ==
    ASSUME SimulationInv, Machine, phase \in {"simulate", "prove"},
           phase = "prove" => Now \in Visits(outer, inner, First)
    PROVE  SimulationInv'
<1> DEFINE V(s) == Visits(outer, inner, s)
           E(s) == Ends(outer, inner, s)
           N(s) == Noted(outer, inner, recorded, s)
           NP(s) == Noted(outer, inner, recorded', s)
           G(s) == Succeeds(outer, inner, s)
<1>1. /\ SimulationTyped
      /\ phase = "simulate" => /\ Now \in Configuration
                               /\ \A s \in V(First) : s \in V(Now) \/ (N(s) /\ ~E(s))
      /\ phase = "prove" => \A s \in V(First) : N(s) /\ (E(s) => outcome = G(s))
  BY DEF SimulationInv
<1>2. outer \in Programs(Len1) /\ inner \in Programs(Len2) /\ outcome \in BOOLEAN
  BY <1>1 DEF SimulationTyped
<1>3. V(First) \subseteq Configuration /\ Follows(outer, inner, V(First)) /\ First \in V(First)
  BY <1>2, FirstTyped, VisitsIs
<1>4. Now \in Configuration
  BY <1>1, <1>3
<1>5. /\ outer' = outer /\ inner' = inner /\ Noting
      /\ E(Now) => Ending
      /\ ~E(Now) => Moving
  BY DEF Machine
<1>6. /\ recorded' \in [1 .. MaxContexts -> SUBSET Nat]
      /\ \A s \in Configuration : N(s) => NP(s)
      /\ phase = "simulate" => NP(Now)
  BY <1>1, <1>4, <1>5, NotingKeeps
<1>7. /\ Now \in V(Now)
      /\ E(Now) => V(Now) = {Now}
      /\ ~E(Now) => V(Now) \subseteq {Now} \cup V(After(outer, inner, Now))
  BY <1>2, <1>4, VisitsIs
<1>8. \A s : G(s) \in BOOLEAN
  BY DEF Succeeds
<1> HIDE DEF V, E, N, NP, G
<1>9. CASE phase = "simulate" /\ E(Now)
  <2>1. frames' = <<>> /\ phase' = "prove" /\ outcome' = G(Now)
    BY <1>5, <1>9 DEF Ending, G
  <2>2. outcome' \in BOOLEAN
    BY <1>8, <2>1
  <2>3. ASSUME NEW s \in V(First)
        PROVE  NP(s) /\ (E(s) => outcome' = G(s))
    <3>1. s = Now \/ (N(s) /\ ~E(s))
      BY <1>1, <1>7, <1>9, <2>3
    <3>2. NP(s)
      BY <1>3, <1>6, <1>9, <3>1
    <3> QED
      BY <2>1, <3>1, <3>2
  <2>4. \A s \in Visits(outer', inner', First) :
            Noted(outer', inner', recorded', s) /\ (Ends(outer', inner', s) => outcome' = Succeeds(outer', inner', s))
    BY <1>5, <2>3 DEF V, NP, E, G
  <2> QED
    BY <1>2, <1>5, <1>6, <2>1, <2>2, <2>4 DEF SimulationInv, SimulationTyped, First
<1>10. CASE phase = "simulate" /\ ~E(Now)
  <2> DEFINE a == After(outer, inner, Now)
  <2>1. Now' = a /\ phase' = "simulate" /\ outcome' = outcome
    BY <1>5, <1>10 DEF Moving
  <2>2. a \in Configuration
    BY <1>2, <1>4, <1>10, AfterTyped DEF E
  <2> HIDE DEF a
  <2>3. ASSUME NEW s \in V(First)
        PROVE  s \in V(a) \/ (NP(s) /\ ~E(s))
    <3>1. s \in Configuration
      BY <1>3
    <3>2. s \in V(Now) \/ (N(s) /\ ~E(s))
      BY <1>1, <1>10
    <3>3. V(Now) \subseteq {Now} \cup V(a)
      BY <1>7, <1>10 DEF a
    <3> QED
      BY <1>6, <1>10, <3>1, <3>2, <3>3
  <2>4. Now' \in Configuration
    BY <2>1, <2>2
  <2>5. \A s \in Visits(outer', inner', First) :
            s \in Visits(outer', inner', Now') \/ (Noted(outer', inner', recorded', s) /\ ~Ends(outer', inner', s))
    BY <1>5, <2>1, <2>3 DEF V, NP, E
  <2> QED
    BY <1>2, <1>5, <1>6, <2>1, <2>4, <2>5 DEF SimulationInv, SimulationTyped, First
<1>11. CASE phase = "prove"
  <2>1. \A s \in V(First) : NP(s) /\ (E(s) => outcome = G(s))
    BY <1>1, <1>3, <1>6, <1>11
  <2>2. Now \in V(First)
    BY <1>11 DEF V
  <2>3. \A s \in Visits(outer', inner', First) :
            Noted(outer', inner', recorded', s) /\ (Ends(outer', inner', s) => outcome = Succeeds(outer', inner', s))
    BY <1>5, <2>1 DEF V, NP, E, G
  <2>4. CASE E(Now)
    <3>1. outcome = G(Now)
      BY <2>1, <2>2, <2>4
    <3>2. phase' = "done" /\ outcome' = outcome
      BY <1>5, <1>11, <2>4, <3>1 DEF Ending, G
    <3> QED
      BY <1>2, <1>5, <1>6, <3>2 DEF SimulationInv, SimulationTyped
  <2>5. CASE ~E(Now)
    <3>1. Now' = After(outer, inner, Now) /\ phase' = "prove" /\ outcome' = outcome
      BY <1>5, <1>11, <2>5 DEF Moving
    <3>2. After(outer, inner, Now) \in V(First)
      BY <1>3, <2>2, <2>5 DEF Follows, E
    <3>3. Now' \in Visits(outer', inner', First)
      BY <1>5, <3>1, <3>2 DEF V
    <3> QED
      BY <1>2, <1>5, <1>6, <2>3, <3>1, <3>3 DEF SimulationInv, SimulationTyped, First
  <2> QED
    BY <2>4, <2>5
<1> QED
  BY <1>9, <1>10, <1>11

LEMMA SimulationNextInv == SimulationIInv /\ [SimulationNext]_simVars => SimulationIInv'
<1> SUFFICES ASSUME SimulationIInv, [SimulationNext]_simVars
             PROVE  SimulationIInv'
  OBVIOUS
<1>1. outer' = outer /\ inner' = inner
  BY DEF SimulationNext, simVars, Jump, Jumpi, Call, Jumpdest, Stop, OutOfGas, Execute, Done
<1>2. outer' \in Programs(Len1) /\ inner' \in Programs(Len2)
  BY <1>1 DEF SimulationIInv
<1> SUFFICES ASSUME Tame(outer), Tame(inner)
             PROVE  SimulationInv'
  BY <1>1, <1>2 DEF SimulationIInv
<1>3. SimulationInv /\ SimulationTyped
  BY DEF SimulationIInv, SimulationInv
<1>4. CASE Works
  <2>1. phase \in {"simulate", "prove"} /\ frames # <<>>
    BY <1>4 DEF Works, Jump, Jumpi, Call, Jumpdest, Stop, OutOfGas, Running
  <2>2. phase = "prove" => /\ Now \in Visits(outer, inner, First)
                           /\ Noted(outer, inner, recorded, Now)
    BY <1>3, <2>1 DEF SimulationInv
  <2>3. Visits(outer, inner, First) \subseteq Configuration
    BY <1>3, FirstTyped, VisitsIs DEF SimulationTyped
  <2>4. Now \in Configuration
    BY <1>3, <2>1, <2>2, <2>3 DEF SimulationInv
  <2>5. Machine
    BY <1>3, <1>4, <2>2, <2>4, WorksStep
  <2> QED
    BY <1>3, <2>1, <2>2, <2>5, MachineInv
<1>5. CASE Execute
  <2>1. /\ phase = "prove" /\ phase' = phase /\ Now' = First
        /\ recorded' = recorded /\ outcome' = outcome
    BY <1>5 DEF Execute, Now, First
  <2>2. First \in Visits(outer, inner, First)
    BY <1>3, FirstTyped, VisitsIs DEF SimulationTyped
  <2> QED
    BY <1>1, <1>3, <2>1, <2>2 DEF SimulationInv, SimulationTyped, First
<1>6. CASE Done \/ UNCHANGED simVars
  <2>1. UNCHANGED simVars
    BY <1>6 DEF Done
  <2> QED
    BY <1>3, <2>1 DEF simVars, SimulationInv, SimulationTyped, Now, First
<1> QED
  BY <1>4, <1>5, <1>6 DEF SimulationNext, Works

\* For codes of every length and every amount of gas: the table the simulation recorded
\* has every target the real execution jumps to, in its context, so that the kernel
\* meets no jump to a destination without its bit; and the execution ends as the
\* simulation did.
THEOREM SimulationIsRight == SimulationSpec => []SimulationRight
<1>1. SimulationIInv => SimulationRight
  BY DEF SimulationIInv, SimulationInv, SimulationRight, AllJumpsRecorded, SimulationAgrees
<1> QED
  BY <1>1, SimulationInitInv, SimulationNextInv, PTL DEF SimulationSpec
===============================================================================
