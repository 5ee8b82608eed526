-------------------------- MODULE AccessListProofs --------------------------
(***************************************************************************)
(* Proofs that the kernel's access lists stay sorted cycles and implement  *)
(* a set of warm keys, for every set of keys, every length of the segment  *)
(* and every choice of hints; and that the prover's search for a hint has  *)
(* a node to stop at.                                                      *)
(***************************************************************************)
EXTENDS AccessList, FiniteSetTheorems, SequenceTheorems, WellFoundedInduction, TLAPS

AllKeys == Keys \cup {Special}

\* The order of the keys.

LEMMA KeyType ==
    ASSUME NEW x \in AllKeys
    PROVE  x \in Nat \X Nat /\ x[1] \in Nat /\ x[2] \in Nat
BY AccessAssumption DEF AllKeys, Special

LEMMA LtIrreflexive ==
    ASSUME NEW x \in AllKeys
    PROVE  ~Lt(x, x)
BY KeyType DEF Lt

LEMMA LtTransitive ==
    ASSUME NEW x \in AllKeys, NEW y \in AllKeys, NEW z \in AllKeys, Lt(x, y), Lt(y, z)
    PROVE  Lt(x, z)
<1>1. /\ x[1] \in Nat /\ x[2] \in Nat
      /\ y[1] \in Nat /\ y[2] \in Nat
      /\ z[1] \in Nat /\ z[2] \in Nat
  BY KeyType
<1> QED
  BY <1>1 DEF Lt

LEMMA LtTotal ==
    ASSUME NEW x \in AllKeys, NEW y \in AllKeys
    PROVE  Lt(x, y) \/ Lt(y, x) \/ x = y
<1>1. x \in Nat \X Nat /\ y \in Nat \X Nat
  BY KeyType
<1>2. PICK a \in Nat, b \in Nat, c \in Nat, d \in Nat : x = <<a, b>> /\ y = <<c, d>>
  BY <1>1
<1> QED
  BY <1>2 DEF Lt

LEMMA SpecialNoKey == Special \notin Keys
BY AccessAssumption DEF Special

-----------------------------------------------------------------------------
(* The list as a value: keys k and successors nx of the live nodes L.      *)

Cycle(k, nx, L) ==
    /\ 0 \in L /\ k[0] = Special
    /\ \A i \in L \ {0} : k[i] \in Keys
    /\ \A i \in L : nx[i] \in L
    /\ \A i \in L : i # 0 /\ nx[i] # 0 => Lt(k[i], k[nx[i]])
    /\ \A i \in L, j \in L \ {0} :
          (i = 0 \/ Lt(k[i], k[j])) => j = nx[i] \/ (nx[i] # 0 /\ Lt(k[nx[i]], k[j]))
    /\ \A i, j \in L \ {0} : k[i] = k[j] => i = j

\* A key that fits between a node and its successor is on no node.
LEMMA FitsIsNew ==
    ASSUME NEW k, NEW nx, NEW L, Cycle(k, nx, L),
           NEW x \in Keys, NEW p \in L,
           p = 0 \/ Lt(k[p], x), Lt(x, k[nx[p]])
    PROVE  \A j \in L \ {0} : k[j] # x
<1> SUFFICES ASSUME NEW j \in L \ {0}, k[j] = x PROVE FALSE
  OBVIOUS
<1>1. x \in AllKeys /\ k[nx[p]] \in AllKeys
  BY DEF Cycle, AllKeys
<1>2. j = nx[p] \/ Lt(k[nx[p]], x)
  BY DEF Cycle
<1> QED
  BY <1>1, <1>2, LtIrreflexive, LtTransitive

\* The new node n, with key x, stands between p and p's old successor.
Linked(k, nx, L, x, p, n, k2, nx2) ==
    /\ x \in Keys /\ p \in L /\ n \notin L
    /\ p = 0 \/ Lt(k[p], x)
    /\ Lt(x, k[nx[p]])
    /\ \A i \in L : k2[i] = k[i]
    /\ k2[n] = x
    /\ \A i \in L \ {p} : nx2[i] = nx[i]
    /\ nx2[p] = n /\ nx2[n] = nx[p]

\* Linking a new node keeps the cycle.
LEMMA LinkKeepsCycle ==
    ASSUME NEW k, NEW nx, NEW L, NEW x, NEW p, NEW n, NEW k2, NEW nx2,
           Cycle(k, nx, L), Linked(k, nx, L, x, p, n, k2, nx2)
    PROVE  Cycle(k2, nx2, L \cup {n})
<1>0. /\ x \in Keys /\ p \in L /\ n \notin L
      /\ p = 0 \/ Lt(k[p], x)
      /\ Lt(x, k[nx[p]])
      /\ \A i \in L : k2[i] = k[i]
      /\ k2[n] = x
      /\ \A i \in L \ {p} : nx2[i] = nx[i]
      /\ nx2[p] = n /\ nx2[n] = nx[p]
  BY DEF Linked
<1> USE <1>0
<1> DEFINE s == nx[p]
<1>1. n # 0 /\ s \in L /\ n # p
  BY DEF Cycle
<1>2. \A i \in L : k[i] \in AllKeys /\ nx[i] \in L
  BY DEF Cycle, AllKeys
<1>3. x \in AllKeys
  BY DEF AllKeys
<1>4. \A j \in L \ {0} : k[j] # x
  BY FitsIsNew
<1>5. ASSUME NEW i \in L, NEW j \in L \ {0}, i = 0 \/ Lt(k[i], k[j])
      PROVE  j = nx2[i] \/ (nx2[i] # 0 /\ Lt(k2[nx2[i]], k2[j]))
  <2>1. j = nx[i] \/ (nx[i] # 0 /\ Lt(k[nx[i]], k[j]))
    BY <1>5 DEF Cycle
  <2>2. CASE i # p
    BY <2>1, <2>2, <1>2
  <2>3. CASE i = p
    <3>1. Lt(x, k[j])
      BY <2>1, <2>3, <1>2, <1>3, LtTransitive
    <3> QED
      BY <2>3, <3>1, <1>1
  <2> QED
    BY <2>2, <2>3
<1>6. ASSUME NEW i \in L, i = 0 \/ Lt(k[i], x), i # p
      PROVE  nx[i] # 0 /\ Lt(k[nx[i]], x)
  <2>1. ASSUME NEW j \in L \ {0}, Lt(k[j], x), p = 0 \/ Lt(k[p], k[j])
        PROVE  FALSE
    <3>1. j = s \/ Lt(k[s], k[j])
      BY <2>1 DEF Cycle
    <3>2. Lt(x, k[j])
      BY <3>1, <1>1, <1>2, <1>3, LtTransitive
    <3> QED
      BY <2>1, <3>2, <1>2, <1>3, LtTransitive, LtIrreflexive
  <2>2. p # 0
    BY <2>1, <1>6
  <2>3. i = 0 \/ Lt(k[i], k[p])
    <3> SUFFICES ASSUME i # 0 PROVE Lt(k[i], k[p])
      OBVIOUS
    <3>1. k[i] # k[p]
      BY <1>6, <2>2 DEF Cycle
    <3>2. ~Lt(k[p], k[i])
      BY <2>1, <1>6
    <3> QED
      BY <3>1, <3>2, <1>2, LtTotal
  <2>4. p = nx[i] \/ (nx[i] # 0 /\ Lt(k[nx[i]], k[p]))
    BY <2>2, <2>3 DEF Cycle
  <2> QED
    BY <2>2, <2>4, <1>2, <1>3, LtTransitive
<1>7. ASSUME NEW j \in L \ {0}, Lt(x, k[j])
      PROVE  j = s \/ (s # 0 /\ Lt(k[s], k[j]))
  <2>1. p = 0 \/ Lt(k[p], k[j])
    BY <1>7, <1>2, <1>3, LtTransitive
  <2> QED
    BY <2>1 DEF Cycle
<1>8. \A i \in L \cup {n}, j \in (L \cup {n}) \ {0} :
         (i = 0 \/ Lt(k2[i], k2[j])) => j = nx2[i] \/ (nx2[i] # 0 /\ Lt(k2[nx2[i]], k2[j]))
  <2> SUFFICES ASSUME NEW i \in L \cup {n}, NEW j \in (L \cup {n}) \ {0},
                      i = 0 \/ Lt(k2[i], k2[j])
               PROVE  j = nx2[i] \/ (nx2[i] # 0 /\ Lt(k2[nx2[i]], k2[j]))
    OBVIOUS
  <2>1. CASE i \in L /\ j \in L
    BY <2>1, <1>5
  <2>2. CASE i \in L /\ j = n
    <3>1. CASE i = p
      BY <2>2, <3>1
    <3>2. CASE i # p
      <4>1. nx[i] # 0 /\ Lt(k[nx[i]], x)
        BY <2>2, <3>2, <1>6
      <4> QED
        BY <4>1, <2>2, <3>2, <1>2
    <3> QED
      BY <3>1, <3>2
  <2>3. CASE i = n /\ j \in L
    BY <2>3, <1>1, <1>7
  <2>4. CASE i = n /\ j = n
    BY <2>4, <1>1, <1>3, LtIrreflexive
  <2> QED
    BY <2>1, <2>2, <2>3, <2>4
<1>9. \A i \in L \cup {n} : nx2[i] \in L \cup {n}
  BY <1>1, <1>2
<1>10. \A i \in L \cup {n} : i # 0 /\ nx2[i] # 0 => Lt(k2[i], k2[nx2[i]])
  <2> SUFFICES ASSUME NEW i \in L \cup {n}, i # 0, nx2[i] # 0
               PROVE  Lt(k2[i], k2[nx2[i]])
    OBVIOUS
  <2>1. CASE i = n
    BY <2>1, <1>1
  <2>2. CASE i = p
    BY <2>2, <1>1
  <2>3. CASE i \in L \ {p}
    BY <2>3, <1>2 DEF Cycle
  <2> QED
    BY <2>1, <2>2, <2>3
<1>11. \A i, j \in (L \cup {n}) \ {0} : k2[i] = k2[j] => i = j
  BY <1>4 DEF Cycle
<1> QED
  BY <1>1, <1>8, <1>9, <1>10, <1>11 DEF Cycle

\* No node but the special one is its own successor.
LEMMA NoSelfLoop ==
    ASSUME NEW k, NEW nx, NEW L, Cycle(k, nx, L), NEW i \in L, nx[i] = i
    PROVE  i = 0
<1>1. k[i] \in AllKeys
  BY DEF Cycle, AllKeys
<1> QED
  BY <1>1, LtIrreflexive DEF Cycle

\* The successor n of p is taken out.
Unlinked(nx, L, p, n, nx2) ==
    /\ p \in L /\ n = nx[p] /\ n # 0
    /\ \A i \in L \ {p, n} : nx2[i] = nx[i]
    /\ nx2[p] = nx[n]

\* Unlinking a node keeps the cycle.
LEMMA UnlinkKeepsCycle ==
    ASSUME NEW k, NEW nx, NEW L, NEW p, NEW n, NEW nx2,
           Cycle(k, nx, L), Unlinked(nx, L, p, n, nx2)
    PROVE  Cycle(k, nx2, L \ {n})
<1> DEFINE m == nx[n]
<1>0. /\ p \in L /\ n = nx[p] /\ n # 0
      /\ \A i \in L \ {p, n} : nx2[i] = nx[i]
      /\ nx2[p] = nx[n]
  BY DEF Unlinked
<1> USE <1>0
<1>1. \A i \in L : k[i] \in AllKeys /\ nx[i] \in L
  BY DEF Cycle, AllKeys
<1>2. n # p /\ n \in L
  BY <1>1, NoSelfLoop
<1>3. m \in L \ {n}
  BY <1>1, <1>2, NoSelfLoop
<1>4. ASSUME NEW i \in L, NEW j \in L, nx[i] = n, nx[j] = n, i # j, i = 0 \/ Lt(k[i], k[j]), j # 0
      PROVE  FALSE
  <2>1. j = n \/ Lt(k[n], k[j])
    BY <1>4 DEF Cycle
  <2>2. Lt(k[j], k[n])
    BY <1>4 DEF Cycle
  <2> QED
    BY <2>1, <2>2, <1>1, <1>2, LtIrreflexive, LtTransitive
<1>5. ASSUME NEW i \in L, i # p
      PROVE  nx[i] # n
  <2> SUFFICES ASSUME nx[i] = n PROVE FALSE
    OBVIOUS
  <2>1. i # 0
    BY <1>4, <1>5
  <2>2. p # 0
    BY <1>4, <1>5
  <2>3. k[i] # k[p]
    BY <2>1, <2>2, <1>5 DEF Cycle
  <2> QED
    BY <2>1, <2>2, <2>3, <1>1, <1>4, <1>5, LtTotal
<1>6. \A i \in L \ {n} : nx2[i] \in L \ {n}
  BY <1>1, <1>3, <1>5
<1>7. \A i \in L \ {n} : i # 0 /\ nx2[i] # 0 => Lt(k[i], k[nx2[i]])
  <2> SUFFICES ASSUME NEW i \in L \ {n}, i # 0, nx2[i] # 0
               PROVE  Lt(k[i], k[nx2[i]])
    OBVIOUS
  <2>1. CASE i # p
    BY <2>1 DEF Cycle
  <2>2. CASE i = p
    <3>1. Lt(k[p], k[n])
      BY <2>2 DEF Cycle
    <3>2. Lt(k[n], k[m])
      BY <2>2, <1>2 DEF Cycle
    <3> QED
      BY <2>2, <3>1, <3>2, <1>1, <1>2, <1>3, LtTransitive
  <2> QED
    BY <2>1, <2>2
<1>8. \A i \in L \ {n}, j \in (L \ {n}) \ {0} :
         (i = 0 \/ Lt(k[i], k[j])) => j = nx2[i] \/ (nx2[i] # 0 /\ Lt(k[nx2[i]], k[j]))
  <2> SUFFICES ASSUME NEW i \in L \ {n}, NEW j \in (L \ {n}) \ {0}, i = 0 \/ Lt(k[i], k[j])
               PROVE  j = nx2[i] \/ (nx2[i] # 0 /\ Lt(k[nx2[i]], k[j]))
    OBVIOUS
  <2>1. j = nx[i] \/ (nx[i] # 0 /\ Lt(k[nx[i]], k[j]))
    BY DEF Cycle
  <2>2. CASE i # p
    BY <2>1, <2>2
  <2>3. CASE i = p
    <3>1. Lt(k[n], k[j])
      BY <2>1, <2>3
    <3>2. j = m \/ (m # 0 /\ Lt(k[m], k[j]))
      BY <3>1, <1>2 DEF Cycle
    <3> QED
      BY <3>2, <2>3
  <2> QED
    BY <2>2, <2>3
<1>9. /\ 0 \in L \ {n} /\ k[0] = Special
      /\ \A i \in (L \ {n}) \ {0} : k[i] \in Keys
      /\ \A i, j \in (L \ {n}) \ {0} : k[i] = k[j] => i = j
  BY DEF Cycle
<1> QED
  BY <1>2, <1>3, <1>6, <1>7, <1>8, <1>9 DEF Cycle
-----------------------------------------------------------------------------
(* The list as the state of the kernel.                                    *)

IInv == TypeOK /\ SortedCycle /\ NoKeyTwice /\ JournalledIsWarm

LEMMA CycleOfState ==
    ASSUME IInv
    PROVE  Cycle(key, next, Live)
BY DEF IInv, SortedCycle, NoKeyTwice, Cycle

LEMMA StateOfCycle ==
    ASSUME Cycle(key, next, Live)
    PROVE  SortedCycle /\ NoKeyTwice
BY DEF SortedCycle, NoKeyTwice, Cycle

\* The journal as a set.
LEMMA JournalKeys ==
    ASSUME IInv
    PROVE  \A n \in 1 .. Len(undo) : undo[n] \in WarmKeys
BY DEF IInv, JournalledIsWarm, WarmKeys

\* A step that links a new node adds its key, which was not warm.
LEMMA InsertNewStep ==
    ASSUME IInv, NEW x \in Keys, NEW p \in Nodes, p < len,
           p = 0 \/ Lt(key[p], x), InsertNew(x, p)
    PROVE  IInv' /\ WarmKeys' = WarmKeys \cup {x} /\ x \notin WarmKeys
<1>1. /\ key \in [Nodes -> Keys \cup {Special}]
      /\ next \in [Nodes -> Nodes \cup {Deleted}]
      /\ len \in 1 .. MaxNodes /\ undo \in Seq(Keys)
  BY DEF IInv, TypeOK
<1>2. /\ next[p] # Deleted /\ Lt(x, key[next[p]]) /\ len < MaxNodes
      /\ key' = [key EXCEPT ![len] = x]
      /\ next' = [next EXCEPT ![p] = len, ![len] = next[p]]
      /\ len' = len + 1 /\ undo' = Append(undo, x) /\ result' = 1
  BY DEF InsertNew
<1>3. p \in Live /\ len \notin Live /\ len \in Nodes /\ Live \subseteq Nodes
  BY <1>1, <1>2, AccessAssumption DEF Live, Nodes
<1>4. /\ \A i \in Live : key'[i] = key[i]
      /\ key'[len] = x
      /\ \A i \in Live \ {p} : next'[i] = next[i]
      /\ next'[p] = len /\ next'[len] = next[p]
  BY <1>1, <1>2, <1>3
<1>5. Live' = Live \cup {len}
  <2>1. ASSUME NEW i \in 0 .. len PROVE next'[i] # Deleted <=> i \in Live \cup {len}
    <3>1. i \in Nodes
      BY <1>1, <1>2, AccessAssumption DEF Nodes
    <3>2. CASE i = len
      BY <3>2, <1>2, <1>4
    <3>3. CASE i = p
      BY <3>3, <1>1, <1>3, <1>4 DEF Deleted
    <3>4. CASE i # len /\ i # p
      BY <3>1, <3>4, <1>1, <1>2 DEF Live
    <3> QED
      BY <3>2, <3>3, <3>4
  <2>2. Live' = {i \in 0 .. len : next'[i] # Deleted}
    BY <1>1, <1>2 DEF Live
  <2> QED
    BY <2>1, <2>2, <1>1 DEF Live
<1>6. Cycle(key, next, Live)
  BY CycleOfState
<1>7. Cycle(key', next', Live')
  <2>1. Linked(key, next, Live, x, p, len, key', next')
    BY <1>2, <1>3, <1>4 DEF Linked
  <2> QED
    BY <2>1, <1>5, <1>6, LinkKeepsCycle
<1>8. (SortedCycle /\ NoKeyTwice)'
  BY <1>7 DEF SortedCycle, NoKeyTwice, Cycle
<1>9. x \notin WarmKeys
  BY <1>2, <1>3, <1>6, FitsIsNew DEF WarmKeys
<1>10. len # 0
  BY <1>1
<1>11. WarmKeys' = WarmKeys \cup {x}
  BY <1>4, <1>5, <1>10 DEF WarmKeys
<1>12. TypeOK'
  <2>1. key' \in [Nodes -> Keys \cup {Special}]
    BY <1>1, <1>2
  <2>2. next' \in [Nodes -> Nodes \cup {Deleted}]
    BY <1>1, <1>2, <1>3
  <2>3. len' \in 1 .. MaxNodes /\ undo' \in Seq(Keys) /\ result' \in {0, 1}
    BY <1>1, <1>2, AccessAssumption
  <2> QED
    BY <2>1, <2>2, <2>3 DEF TypeOK
<1>13. JournalledIsWarm'
  <2>1. /\ Len(undo') = Len(undo) + 1 /\ Len(undo) \in Nat
        /\ undo'[Len(undo) + 1] = x
        /\ \A n \in 1 .. Len(undo) : undo'[n] = undo[n]
    BY <1>1, <1>2
  <2>2. \A n \in 1 .. Len(undo) : undo[n] \in WarmKeys
    BY JournalKeys
  <2>3. \A n \in 1 .. Len(undo') : undo'[n] \in WarmKeys'
    BY <2>1, <2>2, <1>11
  <2>4. \A m, n \in 1 .. Len(undo) : undo[m] = undo[n] => m = n
    BY DEF IInv, JournalledIsWarm
  <2>5. \A m, n \in 1 .. Len(undo') : undo'[m] = undo'[n] => m = n
    BY <2>1, <2>2, <2>4, <1>9
  <2>6. \A n \in 1 .. Len(undo') : \E i \in Live' \ {0} : key'[i] = undo'[n]
    BY <2>3 DEF WarmKeys
  <2> QED
    BY <2>5, <2>6 DEF JournalledIsWarm
<1> QED
  BY <1>8, <1>9, <1>11, <1>12, <1>13 DEF IInv

\* A step that finds the key on the prover's node changes nothing; the key is warm.
LEMMA FoundStep ==
    ASSUME IInv, NEW x \in Keys, NEW p \in Nodes, p < len, p # 0, Found(x, p)
    PROVE  IInv' /\ WarmKeys' = WarmKeys /\ x \in WarmKeys
<1>1. p \in Live
  BY DEF Found, Live, Nodes, IInv, TypeOK
<1>2. UNCHANGED <<key, next, len, undo>> /\ result' = 0 /\ key[p] = x
  BY DEF Found
<1>3. Live' = Live
  BY <1>2 DEF Live
<1>4. IInv'
  BY <1>2, <1>3 DEF IInv, TypeOK, SortedCycle, NoKeyTwice, JournalledIsWarm
<1> QED
  BY <1>1, <1>2, <1>3, <1>4 DEF WarmKeys

\* A removal takes the key of the unlinked node out of the set.
LEMMA RemoveStep ==
    ASSUME IInv, NEW x \in Keys, NEW p \in Nodes, Remove(x, p)
    PROVE  /\ key' = key /\ len' = len
           /\ next' \in [Nodes -> Nodes \cup {Deleted}]
           /\ (SortedCycle /\ NoKeyTwice)'
           /\ WarmKeys' = WarmKeys \ {x}
<1>1. /\ next \in [Nodes -> Nodes \cup {Deleted}]
      /\ len \in 1 .. MaxNodes
  BY DEF IInv, TypeOK
<1> DEFINE n == next[p]
<1>2. /\ p < len /\ n # Deleted /\ key[n] = x
      /\ next' = [next EXCEPT ![p] = next[n], ![n] = Deleted]
      /\ key' = key /\ len' = len
  BY DEF Remove
<1>3. Cycle(key, next, Live)
  BY CycleOfState
<1>4. p \in Live /\ Live \subseteq Nodes
  BY <1>1, <1>2, AccessAssumption DEF Live, Nodes
<1>5. n \in Live /\ n # 0
  BY <1>2, <1>3, <1>4, SpecialNoKey DEF Cycle
<1>6. n # p /\ next[n] \in Live \ {n}
  <2>1. next[n] \in Live
    BY <1>3, <1>5 DEF Cycle
  <2>2. n # p /\ next[n] # n
    BY <1>3, <1>4, <1>5, NoSelfLoop
  <2> QED
    BY <2>1, <2>2
<1>7. /\ next'[n] = Deleted
      /\ next'[p] = next[n]
      /\ \A i \in Nodes \ {p, n} : next'[i] = next[i]
      /\ next' \in [Nodes -> Nodes \cup {Deleted}]
  BY <1>1, <1>2, <1>4, <1>5, <1>6
<1>8. Live' = Live \ {n}
  <2>1. ASSUME NEW i \in 0 .. len - 1 PROVE next'[i] # Deleted <=> i \in Live \ {n}
    <3>1. i \in Nodes
      BY <1>1, AccessAssumption DEF Nodes
    <3>2. CASE i = n
      BY <3>2, <1>7
    <3>3. CASE i = p
      <4>1. next'[p] \in Nodes
        BY <1>4, <1>6, <1>7
      <4>2. next'[p] # Deleted
        BY <4>1 DEF Nodes, Deleted
      <4> QED
        BY <3>3, <4>2, <1>4, <1>6
    <3>4. CASE i # n /\ i # p
      BY <3>1, <3>4, <1>7 DEF Live
    <3> QED
      BY <3>2, <3>3, <3>4
  <2> QED
    BY <2>1, <1>2 DEF Live
<1>9. Cycle(key', next', Live')
  <2>1. Unlinked(next, Live, p, n, next')
    BY <1>4, <1>5, <1>7 DEF Unlinked
  <2> QED
    BY <2>1, <1>2, <1>3, <1>8, UnlinkKeepsCycle
<1>10. (SortedCycle /\ NoKeyTwice)'
  BY <1>9 DEF SortedCycle, NoKeyTwice, Cycle
<1>11. WarmKeys' = WarmKeys \ {x}
  <2>1. \A i \in Live \ {0} : key[i] = x <=> i = n
    BY <1>2, <1>3, <1>5 DEF Cycle
  <2> QED
    BY <2>1, <1>2, <1>8 DEF WarmKeys
<1> QED
  BY <1>2, <1>7, <1>10, <1>11

\* The revert of the newest journal entry.
LEMMA RevertStep ==
    ASSUME IInv, NEW p \in Nodes, Revert(p)
    PROVE  IInv' /\ WarmKeys' = WarmKeys \ ({undo[Len(undo)]} \ Sticky)
<1> DEFINE x == undo[Len(undo)]
<1>1. /\ undo \in Seq(Keys) /\ undo # << >>
      /\ undo' = SubSeq(undo, 1, Len(undo) - 1) /\ result' = result
  BY DEF Revert, IInv, TypeOK
<1>2. Len(undo) \in Nat /\ Len(undo) >= 1 /\ x \in Keys
  BY <1>1
<1>3. /\ undo' \in Seq(Keys)
      /\ Len(undo') = Len(undo) - 1
      /\ \A n \in 1 .. Len(undo') : undo'[n] = undo[n]
  <2>1. \A i \in 1 .. Len(undo) - 1 : undo[i] \in Keys
    BY <1>1, <1>2
  <2> DEFINE t == SubSeq(undo, 1, Len(undo) - 1)
  <2>2. /\ t \in Seq(Keys)
        /\ Len(t) = IF 1 <= Len(undo) - 1 THEN (Len(undo) - 1) - 1 + 1 ELSE 0
        /\ \A i \in 1 .. (Len(undo) - 1) - 1 + 1 : t[i] = undo[1 + i - 1]
    <3> HIDE DEF t
    <3>1. Len(undo) - 1 \in Int
      BY <1>2
    <3> QED
      BY <2>1, <3>1, SubSeqProperties DEF t
  <2>3. Len(t) = Len(undo) - 1
    <3> HIDE DEF t
    <3>1. \A q \in Nat : q >= 1 => (IF 1 <= q - 1 THEN (q - 1) - 1 + 1 ELSE 0) = q - 1
      OBVIOUS
    <3>2. Len(undo) \in Nat /\ Len(undo) >= 1
      BY <1>2
    <3>3. Len(t) = IF 1 <= Len(undo) - 1 THEN (Len(undo) - 1) - 1 + 1 ELSE 0
      BY <2>2
    <3> QED
      BY <3>1, <3>2, <3>3, Zenon
  <2>4. \A i \in 1 .. Len(t) : t[i] = undo[i]
    <3> SUFFICES ASSUME NEW i \in 1 .. Len(t) PROVE t[i] = undo[i]
      OBVIOUS
    <3> HIDE DEF t
    <3>1. i \in 1 .. (Len(undo) - 1) - 1 + 1 /\ 1 + i - 1 = i
      BY <2>3, <1>2
    <3> QED
      BY <2>2, <3>1
  <2> QED
    BY <1>1, <2>2, <2>3, <2>4
<1>4. /\ key' = key /\ len' = len
      /\ next' \in [Nodes -> Nodes \cup {Deleted}]
      /\ (SortedCycle /\ NoKeyTwice)'
      /\ WarmKeys' = WarmKeys \ ({x} \ Sticky)
  <2>1. CASE x \in Sticky
    <3>1. UNCHANGED <<key, next, len>>
      BY <2>1 DEF Revert
    <3>2. Live' = Live
      BY <3>1 DEF Live
    <3>3. WarmKeys' = WarmKeys
      BY <3>1, <3>2 DEF WarmKeys
    <3>4. (SortedCycle /\ NoKeyTwice)'
      BY <3>1, <3>2 DEF IInv, SortedCycle, NoKeyTwice
    <3> QED
      BY <2>1, <3>1, <3>3, <3>4 DEF IInv, TypeOK
  <2>2. CASE x \notin Sticky
    <3>1. Remove(x, p)
      BY <2>2 DEF Revert
    <3> QED
      BY <2>2, <3>1, <1>2, RemoveStep
  <2> QED
    BY <2>1, <2>2
<1>5. TypeOK'
  BY <1>1, <1>3, <1>4 DEF IInv, TypeOK
<1>6. JournalledIsWarm'
  <2>1. \A m, n \in 1 .. Len(undo) : undo[m] = undo[n] => m = n
    BY DEF IInv, JournalledIsWarm
  <2>2. \A n \in 1 .. Len(undo) : undo[n] \in WarmKeys
    BY JournalKeys
  <2>3. \A n \in 1 .. Len(undo') : undo'[n] \in WarmKeys'
    <3> SUFFICES ASSUME NEW n \in 1 .. Len(undo') PROVE undo'[n] \in WarmKeys'
      OBVIOUS
    <3>1. n \in 1 .. Len(undo) /\ n # Len(undo) /\ Len(undo) \in 1 .. Len(undo)
      BY <1>2, <1>3
    <3>2. undo[n] # x
      BY <2>1, <3>1
    <3> QED
      BY <3>1, <3>2, <1>3, <1>4, <2>2
  <2>4. \A m, n \in 1 .. Len(undo') : undo'[m] = undo'[n] => m = n
    BY <1>2, <1>3, <2>1
  <2>5. \A n \in 1 .. Len(undo') : \E i \in Live' \ {0} : key'[i] = undo'[n]
    BY <2>3 DEF WarmKeys
  <2> QED
    BY <2>4, <2>5 DEF JournalledIsWarm
<1> QED
  BY <1>4, <1>5, <1>6 DEF IInv

\* A list of the special node alone is the empty set.
LEMMA EmptyList ==
    ASSUME next \in [Nodes -> Nodes \cup {Deleted}], key[0] = Special, next[0] = 0, len = 1,
           undo = << >>
    PROVE  SortedCycle /\ NoKeyTwice /\ JournalledIsWarm /\ WarmKeys = {}
<1>1. Live = {0}
  BY DEF Live, Deleted
<1>2. WarmKeys = {}
  BY <1>1 DEF WarmKeys
<1>3. SortedCycle
  BY <1>1 DEF SortedCycle
<1>4. NoKeyTwice
  BY <1>1 DEF NoKeyTwice
<1>5. JournalledIsWarm
  BY DEF JournalledIsWarm
<1> QED
  BY <1>2, <1>3, <1>4, <1>5

LEMMA InitStep ==
    ASSUME Init
    PROVE  IInv /\ WarmKeys = {}
<1>1. 0 \in Nodes /\ 1 \in 1 .. MaxNodes
  BY AccessAssumption DEF Nodes
<1>2. /\ next \in [Nodes -> Nodes \cup {Deleted}] /\ key[0] = Special /\ next[0] = 0
      /\ len = 1 /\ undo = << >>
  BY <1>1 DEF Init
<1>3. TypeOK
  BY <1>1, <1>2 DEF Init, TypeOK
<1> QED
  BY <1>2, <1>3, EmptyList DEF IInv

LEMMA NewTxnStep ==
    ASSUME IInv, NewTxn
    PROVE  IInv' /\ WarmKeys' = {}
<1>1. 0 \in Nodes /\ 1 \in 1 .. MaxNodes
  BY AccessAssumption DEF Nodes
<1>2. /\ next' \in [Nodes -> Nodes \cup {Deleted}] /\ key'[0] = Special /\ next'[0] = 0
      /\ len' = 1 /\ undo' = << >> /\ key' \in [Nodes -> Keys \cup {Special}]
      /\ result' = result
  BY <1>1 DEF NewTxn, IInv, TypeOK
<1>3. Live' = {0}
  BY <1>2 DEF Live, Deleted
<1>4. WarmKeys' = {}
  BY <1>3 DEF WarmKeys
<1>5. SortedCycle' /\ NoKeyTwice' /\ JournalledIsWarm'
  BY <1>2, <1>3 DEF SortedCycle, NoKeyTwice, JournalledIsWarm
<1>6. TypeOK'
  BY <1>1, <1>2 DEF IInv, TypeOK
<1> QED
  BY <1>4, <1>5, <1>6 DEF IInv

\* Every access keeps the invariant and is an access of the set.
LEMMA InsertStep ==
    ASSUME IInv, NEW x \in Keys, NEW p \in Nodes, Insert(x, p)
    PROVE  /\ IInv' /\ WarmKeys' = WarmKeys \cup {x}
           /\ undo' = IF x \in WarmKeys THEN undo ELSE Append(undo, x)
           /\ result' = IF x \in WarmKeys THEN 0 ELSE 1
<1>1. CASE p = 0 \/ Lt(key[p], x)
  <2>1. p < len /\ InsertNew(x, p)
    BY <1>1 DEF Insert
  <2>2. undo' = Append(undo, x) /\ result' = 1
    BY <2>1 DEF InsertNew
  <2> QED
    BY <1>1, <2>1, <2>2, InsertNewStep
<1>2. CASE ~(p = 0 \/ Lt(key[p], x))
  <2>1. p < len /\ Found(x, p)
    BY <1>2 DEF Insert
  <2>2. undo' = undo /\ result' = 0
    BY <2>1 DEF Found
  <2>3. IInv' /\ WarmKeys' = WarmKeys /\ x \in WarmKeys
    BY <1>2, <2>1, FoundStep
  <2> QED
    BY <2>2, <2>3
<1> QED
  BY <1>1, <1>2

LEMMA NextInv ==
    ASSUME IInv, [Next]_vars
    PROVE  IInv'
<1>1. ASSUME UNCHANGED vars PROVE IInv'
  <2>1. Live' = Live
    BY <1>1 DEF vars, Live
  <2> QED
    BY <1>1, <2>1 DEF vars, IInv, TypeOK, SortedCycle, NoKeyTwice, JournalledIsWarm
<1> QED
  BY <1>1, InsertStep, RevertStep, NewTxnStep DEF Next

-----------------------------------------------------------------------------
(* The prover's search.                                                    *)

\* A nonempty set of numbers has a least one.
LEMMA LeastNumber ==
    ASSUME NEW T, T \subseteq Nat, T # {}
    PROVE  \E n \in T : \A m \in T : n <= m
<1> DEFINE R == OpToRel(<, Nat)
<1>1. IsWellFoundedOn(R, Nat)
  BY NatLessThanWellFounded
<1>2. \A m, n \in Nat : m < n => <<m, n>> \in R
  BY DEF OpToRel
<1> HIDE DEF R
<1>3. PICK n \in T : \A m \in T : ~ (<<m, n>> \in R)
  BY <1>1, WFMin
<1>4. ASSUME NEW m \in T
      PROVE  n <= m
  <2>1. m \in Nat /\ n \in Nat
    OBVIOUS
  <2>2. ~ (m < n)
    BY <1>2, <1>3, <2>1
  <2> QED
    BY <2>1, <2>2
<1> QED
  BY <1>4

\* The order of the nodes of a cycle, the special node first.
Before(k, i, j) == j # 0 /\ (i = 0 \/ Lt(k[i], k[j]))

\* Some node of a finite set comes last: the one with most nodes before it.
LEMMA LastNode ==
    ASSUME NEW k, NEW C, IsFiniteSet(C), C # {}, \A i \in C \ {0} : k[i] \in Keys
    PROVE  \E p \in C : \A q \in C : ~Before(k, p, q)
<1> DEFINE Lower(p) == {q \in C : Before(k, q, p)}
           Rank(p) == Cardinality(C) - Cardinality(Lower(p))
           T == {Rank(p) : p \in C}
<1>0. ASSUME NEW p
      PROVE  IsFiniteSet(Lower(p)) /\ Cardinality(Lower(p)) \in Nat /\ Rank(p) \in Nat
  <2>1. Lower(p) \in SUBSET C
    OBVIOUS
  <2>2. IsFiniteSet(Lower(p)) /\ Cardinality(Lower(p)) <= Cardinality(C)
    BY <2>1, FS_Subset
  <2>3. Cardinality(Lower(p)) \in Nat /\ Cardinality(C) \in Nat
    BY <2>2, FS_CardinalityType
  <2> QED
    BY <2>2, <2>3
<1>1. T \subseteq Nat /\ T # {}
  BY <1>0
<1>2. PICK d \in T : \A m \in T : d <= m
  BY <1>1, LeastNumber
<1>3. PICK p \in C : d = Rank(p)
  BY <1>2
<1>4. ASSUME NEW q \in C, Before(k, p, q)
      PROVE  FALSE
  <2>1. p \in Lower(q)
    BY <1>4
  <2>2. p \notin Lower(p)
    BY LtIrreflexive DEF Before, AllKeys
  <2>3. ASSUME NEW r \in Lower(p)
        PROVE  r \in Lower(q)
    <3>1. Before(k, r, p) /\ r \in C /\ p # 0 /\ q # 0
      BY <1>4, <2>3 DEF Before
    <3>2. CASE r = 0
      BY <3>1, <3>2 DEF Before
    <3>3. CASE r # 0
      <4>1. Lt(k[r], k[p]) /\ Lt(k[p], k[q])
        BY <1>4, <3>1, <3>3 DEF Before
      <4>2. k[r] \in AllKeys /\ k[p] \in AllKeys /\ k[q] \in AllKeys
        BY <3>1, <3>3 DEF AllKeys
      <4>3. Lt(k[r], k[q])
        BY <4>1, <4>2, LtTransitive
      <4> QED
        BY <3>1, <4>3 DEF Before
    <3> QED
      BY <3>2, <3>3
  <2> HIDE DEF Lower
  <2>4. Lower(p) \in SUBSET Lower(q) /\ Lower(p) # Lower(q)
    BY <2>1, <2>2, <2>3
  <2>5. /\ Cardinality(Lower(p)) <= Cardinality(Lower(q))
        /\ Cardinality(Lower(p)) # Cardinality(Lower(q))
    BY <1>0, <2>4, FS_Subset
  <2>6. Rank(q) \in T /\ Cardinality(C) \in Nat
    BY FS_CardinalityType
  <2>7. Rank(p) <= Rank(q)
    BY <1>2, <1>3, <2>6
  <2> QED
    BY <1>0, <2>5, <2>6, <2>7
<1> QED
  BY <1>4

LEMMA LiveNodes ==
    ASSUME IInv
    PROVE  /\ IsFiniteSet(Live) /\ 0 \in Live
           /\ key[0] = Special
           /\ \A i \in Live : key[i] \in AllKeys /\ next[i] \in Live
           /\ \A i \in Live \ {0} : key[i] \in Keys
<1>1. len \in Nat /\ Live \in SUBSET (0 .. len - 1)
  BY DEF IInv, TypeOK, Live
<1>2. IsFiniteSet(0 .. len - 1)
  BY <1>1, FS_Interval
<1>3. IsFiniteSet(Live)
  BY <1>1, <1>2, FS_Subset
<1>4. /\ 0 \in Live /\ key[0] = Special
      /\ \A i \in Live : next[i] \in Live
      /\ \A i \in Live \ {0} : key[i] \in Keys
  BY DEF IInv, SortedCycle
<1>5. \A i \in Live : key[i] \in AllKeys
  BY <1>4 DEF AllKeys
<1> QED
  BY <1>3, <1>4, <1>5

\* A key is below the special node's.
LEMMA BelowSpecial ==
    ASSUME NEW x \in Keys
    PROVE  x \in AllKeys /\ Lt(x, Special)
BY AccessAssumption DEF AllKeys, Lt, Special

\* One node is the hint for a key, and the kernel accepts it.
LEMMA OneInsertHint ==
    ASSUME IInv, NEW x \in Keys
    PROVE  \E p \in InsertHints(x) :
              /\ InsertHints(x) = {p}
              /\ IF p = 0 \/ Lt(key[p], x) THEN Lt(x, key[next[p]]) ELSE key[p] = x
<1> DEFINE AtMost(p) == p = 0 \/ Lt(key[p], x) \/ key[p] = x
           C == {p \in Live : AtMost(p)}
<1>0. x \in AllKeys /\ Lt(x, Special)
  BY BelowSpecial
<1>1. IsFiniteSet(C) /\ C # {} /\ \A i \in C \ {0} : key[i] \in Keys
  <2>1. IsFiniteSet(Live) /\ C \in SUBSET Live /\ 0 \in C
    BY LiveNodes
  <2>2. IsFiniteSet(C)
    BY <2>1, FS_Subset
  <2> QED
    BY <2>1, <2>2, LiveNodes
<1>2. PICK p \in C : \A q \in C : ~Before(key, p, q)
  <2> HIDE DEF C
  <2> QED
    BY <1>1, LastNode
<1>3. Lt(x, key[next[p]])
  <2> DEFINE n == next[p]
  <2>1. n \in Live /\ key[n] \in AllKeys /\ p \in Live
    BY LiveNodes
  <2>2. CASE n = 0
    BY <1>0, <2>2, LiveNodes
  <2>3. CASE n # 0
    <3>1. Before(key, p, n)
      BY <2>1, <2>3 DEF Before, IInv, SortedCycle
    <3>2. n \notin C
      BY <1>2, <3>1
    <3>3. ~Lt(key[n], x) /\ key[n] # x
      BY <2>1, <3>2
    <3> HIDE DEF n
    <3>4. Lt(x, key[n])
      BY <1>0, <2>1, <3>3, LtTotal
    <3> QED
      BY <3>4 DEF n
  <2> QED
    BY <2>2, <2>3
<1>4. p \in InsertHints(x)
  BY <1>3 DEF InsertHints
<1>5. ASSUME NEW q \in Live, NEW r \in Live, AtMost(q), AtMost(r), Before(key, q, r)
      PROVE  ~Lt(x, key[next[q]])
  <2> DEFINE n == next[q]
  <2>1. r # 0 /\ key[r] \in AllKeys /\ n \in Live /\ key[n] \in AllKeys
    BY <1>5, LiveNodes DEF Before
  <2>2. r = n \/ Lt(key[n], key[r])
    BY <1>5, <2>1 DEF Before, IInv, SortedCycle
  <2>3. key[n] = x \/ Lt(key[n], x)
    <3>1. Lt(key[r], x) \/ key[r] = x
      BY <1>5, <2>1
    <3> HIDE DEF n
    <3> QED
      BY <1>0, <2>1, <2>2, <3>1, LtTransitive
  <2> HIDE DEF n
  <2>4. SUFFICES ASSUME Lt(x, key[n])
                 PROVE  FALSE
    BY DEF n
  <2>5. Lt(x, x)
    BY <1>0, <2>1, <2>3, <2>4, LtTransitive
  <2> QED
    BY <1>0, <2>5, LtIrreflexive
<1>6. ASSUME NEW q \in InsertHints(x)
      PROVE  q = p
  <2>1. /\ q \in Live /\ AtMost(q) /\ Lt(x, key[next[q]])
        /\ p \in Live /\ AtMost(p) /\ Lt(x, key[next[p]])
    BY <1>3, <1>6 DEF InsertHints
  <2>2. ~Before(key, p, q) /\ ~Before(key, q, p)
    BY <1>5, <2>1
  <2>3. CASE p = 0 \/ q = 0
    BY <2>2, <2>3 DEF Before
  <2>4. CASE p # 0 /\ q # 0
    <3>1. key[p] \in AllKeys /\ key[q] \in AllKeys
      BY <2>1, LiveNodes
    <3>2. key[p] = key[q]
      BY <2>2, <2>4, <3>1, LtTotal DEF Before
    <3> QED
      BY <2>1, <2>4, <3>2 DEF IInv, NoKeyTwice
  <2> QED
    BY <2>3, <2>4
<1> QED
  BY <1>3, <1>4, <1>6

\* Every warm key has a predecessor, the hint for its removal.
LEMMA RemoveHintExists ==
    ASSUME IInv, NEW x \in WarmKeys
    PROVE  RemoveHints(x) # {}
<1>1. PICK i \in Live \ {0} : key[i] = x
  BY DEF WarmKeys
<1> DEFINE C == {p \in Live : Before(key, p, i)}
<1>2. IsFiniteSet(C) /\ C # {} /\ \A j \in C \ {0} : key[j] \in Keys
  <2>1. IsFiniteSet(Live) /\ C \in SUBSET Live /\ 0 \in C
    BY <1>1, LiveNodes DEF Before
  <2>2. IsFiniteSet(C)
    BY <2>1, FS_Subset
  <2> QED
    BY <2>1, <2>2, LiveNodes
<1>3. PICK p \in C : \A q \in C : ~Before(key, p, q)
  <2> HIDE DEF C
  <2> QED
    BY <1>2, LastNode
<1>4. p \in Live /\ Before(key, p, i) /\ next[p] \in Live
  BY LiveNodes
<1>5. i = next[p] \/ (next[p] # 0 /\ Lt(key[next[p]], key[i]))
  BY <1>1, <1>4 DEF Before, IInv, SortedCycle
<1>6. i = next[p]
  <2> SUFFICES ASSUME next[p] # 0, Lt(key[next[p]], key[i])
               PROVE  FALSE
    BY <1>5
  <2>1. next[p] \in C
    BY <1>1, <1>4 DEF Before
  <2>2. Before(key, p, next[p])
    BY <1>4 DEF Before, IInv, SortedCycle
  <2> QED
    BY <1>3, <2>1, <2>2
<1> QED
  BY <1>1, <1>4, <1>6 DEF RemoveHints

LEMMA SearchStops ==
    ASSUME IInv
    PROVE  HintFound
<1>1. ASSUME undo # << >>
      PROVE  RemoveHints(undo[Len(undo)]) # {}
  <2>1. Len(undo) \in 1 .. Len(undo)
    BY <1>1 DEF IInv, TypeOK
  <2>2. undo[Len(undo)] \in WarmKeys
    BY <2>1, JournalKeys
  <2> QED
    BY <2>2, RemoveHintExists
<1> QED
  BY <1>1, OneInsertHint DEF HintFound

-----------------------------------------------------------------------------
(* The theorems.                                                           *)

\* Whatever nodes the prover supplies, the list is a sorted cycle through the special
\* node with no key twice, and every key the journal will ask to be removed is in it,
\* so that remove_accessed_addresses and remove_accessed_storage_keys do not panic.
THEOREM ListStaysSorted == Spec => [](TypeOK /\ SortedCycle /\ NoKeyTwice /\ JournalledIsWarm)
<1>1. Init => IInv
  BY InitStep
<1>2. IInv /\ [Next]_vars => IInv'
  BY NextInv
<1> QED
  BY <1>1, <1>2, PTL DEF Spec, IInv

\* The checks of insert_accessed_addresses, insert_accessed_storage_keys and of the
\* removals make the list a set: an access answers 1 exactly for the keys that are not
\* warm, and a revert takes back exactly the newest key, for every hint that is accepted.
THEOREM ListImplementsSet == Spec => ImplementsWarmSet
<1>1. Init => IInv /\ Abstract!Init
  BY InitStep DEF Init, Abstract!Init
<1>2. IInv /\ [Next]_vars => IInv'
  BY NextInv
<1>3. IInv /\ [Next]_vars => [Abstract!Next]_Abstract!setVars
  <2> SUFFICES ASSUME IInv, [Next]_vars PROVE [Abstract!Next]_Abstract!setVars
    OBVIOUS
  <2>1. ASSUME NEW x \in Keys, NEW p \in Nodes, Insert(x, p) PROVE Abstract!Access(x)
    BY <2>1, InsertStep DEF Abstract!Access
  <2>2. ASSUME NEW p \in Nodes, Revert(p) PROVE Abstract!Revert
    <3>1. undo # << >> /\ undo' = SubSeq(undo, 1, Len(undo) - 1) /\ result' = result
      BY <2>2 DEF Revert
    <3> QED
      BY <2>2, <3>1, RevertStep DEF Abstract!Revert
  <2>3. ASSUME NewTxn PROVE Abstract!NewTxn
    BY <2>3, NewTxnStep DEF NewTxn, Abstract!NewTxn
  <2>4. ASSUME UNCHANGED vars PROVE UNCHANGED Abstract!setVars
    BY <2>4 DEF vars, Abstract!setVars, WarmKeys, Live
  <2> QED
    BY <2>1, <2>2, <2>3, <2>4 DEF Next, Abstract!Next
<1> QED
  BY <1>1, <1>2, <1>3, PTL DEF Spec, ImplementsWarmSet, Abstract!Spec

\* The list is a sorted cycle in which every journalled key is found, and the prover's
\* searches (run_next_addresses_insert, run_next_storage_insert and the ones for removals),
\* which "loop forever" without a match, have one to stop at: for every key that may be
\* accessed a single node, which the kernel's checks accept, and for the key that is
\* reverted next.
THEOREM ListIsRight == Spec => []ListRight
<1>1. Init => IInv
  BY InitStep
<1>2. IInv /\ [Next]_vars => IInv'
  BY NextInv
<1>3. IInv => ListRight
  BY SearchStops DEF IInv, ListRight
<1> QED
  BY <1>1, <1>2, <1>3, PTL DEF Spec
=============================================================================
