------------------------- MODULE KernelMemoryProofs -------------------------
(***************************************************************************)
(* What the kernel keeps in segments of its memory is what it stands for.  *)
(* The array of triples of the transient storage implements the map of     *)
(* TransientMap in every transaction in which no address that uses it is   *)
(* also stored as a key or a value, for every set of words and every bound *)
(* on the array and on the journal.  The linked lists of accounts and      *)
(* slots hold the state the execution has reached, and give the right      *)
(* tries wherever a payload ends, for every set of accounts, slots and     *)
(* values and every bound on the lists.                                    *)
(***************************************************************************)
EXTENDS TransientStorage, StateLists, SequenceTheorems, FiniteSetTheorems,
        WellFoundedInduction, TLAPS

-----------------------------------------------------------------------------
(* The transient storage.                                                  *)

\* Search in an array m of length n.
Hits(m, n, a, k) == {i \in 0 .. n - 1 : m[i] = a /\ m[i + 1] = k}

SearchIn(m, n, a, k) ==
    IF Hits(m, n, a, k) = {}
    THEN [found |-> FALSE, pos |-> n, val |-> 0]
    ELSE LET p == CHOOSE i \in Hits(m, n, a, k) : \A j \in Hits(m, n, a, k) : i <= j
         IN  [found |-> TRUE, pos |-> p, val |-> m[p + 2]]

\* The array is a sequence of triples of words that were seen (t is the record of
\* them), in which no pair occurs twice.
Triples(m, n, t) ==
    /\ m \in [Cells -> Words]
    /\ n \in Nat /\ n % 3 = 0 /\ (n > 0 => n + 1 < MaxCells)
    /\ \A i \in 0 .. n - 1 : /\ i % 3 = 0 => m[i] \in Addrs \cap t.addrs
                             /\ i % 3 = 1 => m[i] \in Keys \cap t.words
                             /\ i % 3 = 2 => m[i] \in Vals \cap t.words

NoPairTwice(m, n) ==
    \A i, j \in 0 .. n - 1 :
        i % 3 = 0 /\ j % 3 = 0 /\ m[i] = m[j] /\ m[i + 1] = m[j + 1] => i = j

\* The row of a pair.
Row(m, n, a, k, i) == i \in 0 .. n - 1 /\ i % 3 = 0 /\ m[i] = a /\ m[i + 1] = k

Undone == [addr : Addrs, key : Keys, prev : Vals]

\* The array while the words of the transaction are apart.
Aligned ==
    /\ Triples(mem, len, seen)
    /\ NoPairTwice(mem, len)
    /\ undo \in Seq(Undone)
    /\ \A n \in 1 .. Len(undo) : \E i \in 0 .. len - 1 :
          Row(mem, len, undo[n].addr, undo[n].key, i)

IInv == TypeOK /\ (Apart => Aligned)

-----------------------------------------------------------------------------
\* A nonempty set of numbers has a least one.
LEMMA LeastNumber ==
    ASSUME NEW T, T \subseteq Nat, T # {}
    PROVE  \E n \in T : \A m \in T : n <= m
<1> DEFINE R == OpToRel(<, Nat)
<1>1. IsWellFoundedOn(R, Nat)
  BY NatLessThanWellFounded
<1>2. \A m, n \in Nat : m < n => <<m, n>> \in R
  BY DEF OpToRel
<1> HIDE DEF R
<1>3. PICK n \in T : \A m \in T : ~ (<<m, n>> \in R)
  BY <1>1, WFMin
<1>4. ASSUME NEW m \in T
      PROVE  n <= m
  <2>1. m \in Nat /\ n \in Nat
    OBVIOUS
  <2>2. ~ (m < n)
    BY <1>2, <1>3, <2>1
  <2> QED
    BY <2>1, <2>2
<1> QED
  BY <1>4

\* A triple that begins within the cells in use also ends there.
LEMMA RowRange ==
    ASSUME NEW n \in Nat, n % 3 = 0, NEW i \in 0 .. n - 1, i % 3 = 0
    PROVE  /\ i + 1 \in 0 .. n - 1 /\ (i + 1) % 3 = 1
           /\ i + 2 \in 0 .. n - 1 /\ (i + 2) % 3 = 2
OBVIOUS

\* For an address that is not among the keys and values, a cell that matches is the
\* first of a row.
LEMMA HitIsRow ==
    ASSUME NEW m, NEW n, NEW t, Triples(m, n, t), NEW a, a \notin t.words, NEW k,
           NEW i \in Hits(m, n, a, k)
    PROVE  Row(m, n, a, k, i)
<1>1. i \in 0 .. n - 1 /\ m[i] = a /\ m[i + 1] = k /\ n \in Nat
  BY DEF Hits, Triples
<1>2. i % 3 = 0 \/ i % 3 = 1 \/ i % 3 = 2
  BY <1>1
<1> QED
  BY <1>1, <1>2 DEF Triples, Row

\* The first cell of the pair's row matches.
LEMMA RowIsHit ==
    ASSUME NEW m, NEW n, NEW a, NEW k, NEW i, Row(m, n, a, k, i)
    PROVE  i \in Hits(m, n, a, k)
BY DEF Row, Hits

\* A pair that has a row is found there, and only there.
LEMMA SearchRow ==
    ASSUME NEW m, NEW n, NEW t, Triples(m, n, t), NoPairTwice(m, n),
           NEW a, a \notin t.words, NEW k, NEW i, Row(m, n, a, k, i)
    PROVE  SearchIn(m, n, a, k) = [found |-> TRUE, pos |-> i, val |-> m[i + 2]]
<1>1. \A j \in Hits(m, n, a, k) : j = i
  BY HitIsRow DEF NoPairTwice, Row
<1>2. i \in Hits(m, n, a, k) /\ i \in Int
  BY RowIsHit DEF Row
<1>3. Hits(m, n, a, k) = {i}
  BY <1>1, <1>2
<1>4. (CHOOSE j \in {i} : \A l \in {i} : j <= l) = i
  BY <1>2
<1> QED
  BY <1>3, <1>4 DEF SearchIn

\* A pair that has no row is not found.
LEMMA SearchNoRow ==
    ASSUME NEW m, NEW n, NEW t, Triples(m, n, t), NEW a, a \notin t.words, NEW k,
           \A i \in 0 .. n - 1 : ~Row(m, n, a, k, i)
    PROVE  SearchIn(m, n, a, k) = [found |-> FALSE, pos |-> n, val |-> 0]
<1>1. Hits(m, n, a, k) = {}
  BY HitIsRow DEF Row
<1> QED
  BY <1>1 DEF SearchIn

\* The search reads the array and its length only.
LEMMA SearchIsSearchIn ==
    \A a, k : Search(a, k) = SearchIn(mem, len, a, k)
BY DEF Search, SearchIn, Matches, Hits

\* What a pair holds is what its row holds, 0 when it has none.
RowsIn(m, n, a, k) == {i \in 0 .. n - 1 : i % 3 = 0 /\ m[i] = a /\ m[i + 1] = k}
HeldIn(m, n, a, k) ==
    IF RowsIn(m, n, a, k) = {} THEN 0
    ELSE m[(CHOOSE i \in RowsIn(m, n, a, k) : TRUE) + 2]

LEMMA HeldRow ==
    ASSUME NEW m, NEW n, NoPairTwice(m, n), NEW a, NEW k, NEW i, Row(m, n, a, k, i)
    PROVE  HeldIn(m, n, a, k) = m[i + 2]
<1>1. i \in RowsIn(m, n, a, k) /\ \A j \in RowsIn(m, n, a, k) : j = i
  BY DEF RowsIn, Row, NoPairTwice
<1>2. (CHOOSE j \in RowsIn(m, n, a, k) : TRUE) = i
  BY <1>1
<1> QED
  BY <1>1, <1>2 DEF HeldIn

LEMMA HeldNoRow ==
    ASSUME NEW m, NEW n, NEW a, NEW k, \A i \in 0 .. n - 1 : ~Row(m, n, a, k, i)
    PROVE  HeldIn(m, n, a, k) = 0
BY DEF HeldIn, RowsIn, Row

\* The search stays within the array, whatever words it holds.
LEMMA SearchType ==
    ASSUME TypeOK, NEW a, NEW k
    PROVE  /\ Search(a, k).pos \in Nat /\ Search(a, k).val \in Words
           /\ Search(a, k).found => Search(a, k).pos < len
<1>1. len \in Nat /\ (len > 0 => len + 1 < MaxCells) /\ mem \in [Cells -> Words]
  BY DEF TypeOK
<1>2. CASE Matches(a, k) = {}
  BY <1>1, <1>2, TransientAssumption DEF Search, Words
<1>3. CASE Matches(a, k) # {}
  <2> DEFINE p == CHOOSE i \in Matches(a, k) : \A j \in Matches(a, k) : i <= j
  <2>1. Matches(a, k) \subseteq 0 .. len - 1 /\ Matches(a, k) \subseteq Nat
    BY <1>1 DEF Matches
  <2>2. \E i \in Matches(a, k) : \A j \in Matches(a, k) : i <= j
    BY <1>3, <2>1, LeastNumber
  <2>3. p \in 0 .. len - 1
    BY <2>1, <2>2
  <2>4. p + 2 \in Cells
    BY <1>1, <2>3, TransientAssumption DEF Cells
  <2>5. Search(a, k) = [found |-> TRUE, pos |-> p, val |-> mem[p + 2]]
    BY <1>3 DEF Search
  <2> HIDE DEF p
  <2> QED
    BY <1>1, <2>3, <2>4, <2>5
<1> QED
  BY <1>2, <1>3

-----------------------------------------------------------------------------
(* What a store, and a revert, do to the array.                            *)

Put(m, i, a, k, v) == [m EXCEPT ![i] = a, ![i + 1] = k, ![i + 2] = v]

\* The cells after a triple has been written.
LEMMA PutCells ==
    ASSUME NEW m \in [Cells -> Words], NEW i \in Nat, i + 4 < MaxCells,
           NEW a \in Addrs, NEW k \in Keys, NEW v \in Vals
    PROVE  /\ Put(m, i, a, k, v) \in [Cells -> Words]
           /\ Put(m, i, a, k, v)[i] = a
           /\ Put(m, i, a, k, v)[i + 1] = k
           /\ Put(m, i, a, k, v)[i + 2] = v
           /\ \A c \in Cells : c # i /\ c # i + 1 /\ c # i + 2 => Put(m, i, a, k, v)[c] = m[c]
<1>1. i \in Cells /\ i + 1 \in Cells /\ i + 2 \in Cells
  BY TransientAssumption DEF Cells
<1>2. a \in Words /\ k \in Words /\ v \in Words
  BY DEF Words
<1> QED
  BY <1>1, <1>2 DEF Put

\* Writing a value to the row of a pair.
LEMMA StoreRow ==
    ASSUME NEW m, NEW n, NEW t, Triples(m, n, t), NoPairTwice(m, n),
           NEW w \in [Cells -> Words], NEW i \in 0 .. n - 1, i % 3 = 0,
           w[i + 2] \in Vals \cap t.words,
           \A c \in Cells : c # i + 2 => w[c] = m[c]
    PROVE  /\ Triples(w, n, t) /\ NoPairTwice(w, n)
           /\ \A b, l : \A j \in 0 .. n - 1 : Row(w, n, b, l, j) <=> Row(m, n, b, l, j)
           /\ \A j \in 0 .. n - 1 : j % 3 = 0 /\ j # i => w[j + 2] = m[j + 2]
<1>1. n \in Nat /\ n % 3 = 0 /\ i \in 0 .. n - 1 /\ i % 3 = 0 /\ n < MaxCells
  BY TransientAssumption DEF Row, Triples
<1>2. \A j \in 0 .. n - 1 : j \in Cells /\ j + 1 \in Cells
  BY <1>1, TransientAssumption DEF Cells
<1>3. \A j \in 0 .. n - 1 : j % 3 = 0 => w[j] = m[j] /\ w[j + 1] = m[j + 1]
  BY <1>1, <1>2
<1>4. \A j \in 0 .. n - 1 : j % 3 = 0 /\ j # i => w[j + 2] = m[j + 2]
  <2> TAKE j \in 0 .. n - 1
  <2> HAVE j % 3 = 0 /\ j # i
  <2>1. j + 2 \in 0 .. n - 1
    BY <1>1
  <2>2. j + 2 # i + 2
    BY <1>1
  <2> QED
    BY <1>2, <2>1, <2>2
<1>5. \A b, l : \A j \in 0 .. n - 1 : Row(w, n, b, l, j) <=> Row(m, n, b, l, j)
  BY <1>3 DEF Row
<1>6. NoPairTwice(w, n)
  BY <1>3 DEF NoPairTwice
<1>7. Triples(w, n, t)
  <2>1. \A c \in 0 .. n - 1 : c # i + 2 => w[c] = m[c]
    BY <1>2
  <2>2. (i + 2) % 3 = 2
    BY <1>1
  <2> QED
    BY <1>1, <2>1, <2>2 DEF Triples
<1> QED
  BY <1>4, <1>5, <1>6, <1>7

\* Appending a row for a pair that has none.
LEMMA StoreNew ==
    ASSUME NEW m, NEW n, NEW t, Triples(m, n, t), NoPairTwice(m, n), n + 4 < MaxCells,
           NEW a \in Addrs \cap t.addrs, NEW k \in Keys \cap t.words,
           NEW v \in Vals \cap t.words,
           \A i \in 0 .. n - 1 : ~Row(m, n, a, k, i)
    PROVE  LET w == Put(m, n, a, k, v) IN
           /\ Triples(w, n + 3, t) /\ NoPairTwice(w, n + 3)
           /\ Row(w, n + 3, a, k, n) /\ w[n + 2] = v
           /\ \A b, l : \A j \in 0 .. n - 1 : Row(w, n + 3, b, l, j) <=> Row(m, n, b, l, j)
           /\ \A j \in 0 .. n - 1 : j % 3 = 0 => w[j + 2] = m[j + 2]
           /\ \A j \in 0 .. n + 2 : j % 3 = 0 => j = n \/ j \in 0 .. n - 1
<1> DEFINE w == Put(m, n, a, k, v)
<1>1. n \in Nat /\ n % 3 = 0 /\ m \in [Cells -> Words]
  BY DEF Triples
<1>2. /\ w \in [Cells -> Words]
      /\ w[n] = a /\ w[n + 1] = k /\ w[n + 2] = v
      /\ \A c \in Cells : c # n /\ c # n + 1 /\ c # n + 2 => w[c] = m[c]
  BY <1>1, PutCells
<1> HIDE DEF w
<1>3. \A c \in 0 .. n - 1 : w[c] = m[c]
  BY <1>1, <1>2, TransientAssumption DEF Cells
<1>4. \A j \in 0 .. n - 1 : j % 3 = 0 => j + 1 \in 0 .. n - 1 /\ j + 2 \in 0 .. n - 1
  BY <1>1
<1>5. /\ (n + 3) % 3 = 0 /\ (n + 1) % 3 = 1 /\ (n + 2) % 3 = 2
      /\ \A j \in 0 .. n + 2 : j = n \/ j = n + 1 \/ j = n + 2 \/ j \in 0 .. n - 1
  BY <1>1
<1>6. Triples(w, n + 3, t)
  <2>1. (n + 3) - 1 = n + 2 /\ n + 4 < MaxCells /\ (n + 3) + 1 = n + 4 /\ n + 3 \in Nat
    BY <1>1, TransientAssumption
  <2>2. \A i \in 0 .. n + 2 : /\ i % 3 = 0 => w[i] \in Addrs \cap t.addrs
                              /\ i % 3 = 1 => w[i] \in Keys \cap t.words
                              /\ i % 3 = 2 => w[i] \in Vals \cap t.words
    BY <1>1, <1>2, <1>3, <1>5 DEF Triples
  <2> QED
    BY <1>2, <1>5, <2>1, <2>2 DEF Triples
<1>7. \A j \in 0 .. n + 2 : j % 3 = 0 => j = n \/ j \in 0 .. n - 1
  BY <1>1, <1>5
<1>8. \A b, l : \A j \in 0 .. n - 1 : Row(w, n + 3, b, l, j) <=> Row(m, n, b, l, j)
  BY <1>1, <1>3, <1>4 DEF Row
<1>9. NoPairTwice(w, n + 3)
  <2> SUFFICES ASSUME NEW i \in 0 .. n + 2, NEW j \in 0 .. n + 2, i % 3 = 0, j % 3 = 0,
                      w[i] = w[j], w[i + 1] = w[j + 1]
               PROVE  i = j
    <3>1. (n + 3) - 1 = n + 2
      BY <1>1
    <3> QED
      BY <3>1 DEF NoPairTwice
  <2>1. CASE i \in 0 .. n - 1 /\ j \in 0 .. n - 1
    BY <1>3, <1>4, <2>1 DEF NoPairTwice
  <2>2. CASE i = n /\ j \in 0 .. n - 1
    BY <1>1, <1>2, <1>3, <1>4, <2>2 DEF Row
  <2>3. CASE i \in 0 .. n - 1 /\ j = n
    BY <1>1, <1>2, <1>3, <1>4, <2>3 DEF Row
  <2> QED
    BY <1>7, <2>1, <2>2, <2>3
<1>10. Row(w, n + 3, a, k, n)
  BY <1>1, <1>2 DEF Row
<1> QED
  BY <1>2, <1>3, <1>4, <1>6, <1>7, <1>8, <1>9, <1>10 DEF w

-----------------------------------------------------------------------------
(* The invariant, and the steps of the map.                                *)

MapOf(m, n) == [a \in Addrs |-> [k \in Keys |-> HeldIn(m, n, a, k)]]

\* Words that are seen later do not spoil the array.
LEMMA TriplesGrow ==
    ASSUME NEW m, NEW n, NEW t, NEW u, Triples(m, n, t),
           t.addrs \subseteq u.addrs, t.words \subseteq u.words
    PROVE  Triples(m, n, u)
BY DEF Triples

\* What a store does, whichever of its two cases it is in.
LEMMA StoreStep ==
    ASSUME IInv, Apart', NEW a \in Addrs, NEW k \in Keys, NEW v \in Vals,
           TStore(a, k, v)
    PROVE  /\ Aligned'
           /\ Search(a, k).val = HeldIn(mem, len, a, k)
           /\ MapOf(mem', len') = [MapOf(mem, len) EXCEPT ![a][k] = v]
<1> DEFINE s == SearchIn(mem, len, a, k)
<1>1. /\ s.pos + 4 < MaxCells
      /\ mem' = Put(mem, s.pos, a, k, v)
      /\ len' = IF s.pos + 2 > len THEN s.pos + 3 ELSE len
      /\ undo' = IF v = s.val THEN undo
                 ELSE Append(undo, [addr |-> a, key |-> k, prev |-> s.val])
  BY SearchIsSearchIn DEF TStore, Put
<1>0. /\ seen' = [addrs |-> seen.addrs \cup {a}, words |-> seen.words \cup {k, v}]
      /\ a \in seen'.addrs /\ k \in seen'.words /\ v \in seen'.words
      /\ seen.addrs \subseteq seen'.addrs /\ seen.words \subseteq seen'.words
  BY DEF TStore, See
<1>a. Apart /\ Aligned /\ a \notin seen.words /\ a \notin seen'.words
  BY <1>0 DEF IInv, Apart
<1>2. /\ Triples(mem, len, seen) /\ NoPairTwice(mem, len) /\ len \in Nat /\ len % 3 = 0
      /\ Triples(mem, len, seen')
  <2>1. Triples(mem, len, seen) /\ NoPairTwice(mem, len)
    BY <1>a DEF Aligned
  <2>2. Triples(mem, len, seen')
    BY <1>0, <2>1, TriplesGrow
  <2> QED
    BY <2>1, <2>2 DEF Triples
\* The facts from which all that is claimed follows.
<1> DEFINE Kept ==
      /\ Triples(mem', len', seen') /\ NoPairTwice(mem', len')
      /\ s.val \in Vals /\ s.val = HeldIn(mem, len, a, k)
      /\ \E i \in 0 .. len' - 1 : Row(mem', len', a, k, i) /\ mem'[i + 2] = v
      /\ \A b \in Addrs, l \in Keys : \A j \in 0 .. len - 1 :
            Row(mem, len, b, l, j) => Row(mem', len', b, l, j)
      /\ \A b \in Addrs, l \in Keys : b # a \/ l # k => \A j \in 0 .. len' - 1 :
            Row(mem', len', b, l, j) => Row(mem, len, b, l, j) /\ mem'[j + 2] = mem[j + 2]
<1>3. ASSUME \E i \in 0 .. len - 1 : Row(mem, len, a, k, i)
      PROVE  Kept
  <2>1. PICK i \in 0 .. len - 1 : Row(mem, len, a, k, i)
    BY <1>3
  <2>2. s = [found |-> TRUE, pos |-> i, val |-> mem[i + 2]]
    BY <1>2, <1>a, <2>1, SearchRow
  <2>3. i \in Nat /\ i % 3 = 0 /\ i + 2 \in 0 .. len - 1 /\ (i + 2) % 3 = 2
    BY <1>2, <2>1, RowRange DEF Row
  <2>4. len' = len /\ mem' = Put(mem, i, a, k, v) /\ i + 4 < MaxCells
    BY <1>1, <1>2, <2>2, <2>3
  <2>5. s.val \in Vals /\ s.val = HeldIn(mem, len, a, k)
    BY <1>2, <2>1, <2>2, <2>3, HeldRow DEF Triples
  <2>6. /\ mem' \in [Cells -> Words] /\ mem'[i + 2] = v
        /\ \A c \in Cells : c # i + 2 => mem'[c] = mem[c]
    BY <1>2, <2>1, <2>3, <2>4, PutCells DEF Triples, Row
  <2>7. /\ Triples(mem', len, seen') /\ NoPairTwice(mem', len)
        /\ \A b, l : \A j \in 0 .. len - 1 : Row(mem', len, b, l, j) <=> Row(mem, len, b, l, j)
        /\ \A j \in 0 .. len - 1 : j % 3 = 0 /\ j # i => mem'[j + 2] = mem[j + 2]
    <3> HIDE DEF Kept, s
    <3> DEFINE w == mem'
               t == seen'
    <3>1. /\ w \in [Cells -> Words] /\ w[i + 2] = v
          /\ \A c \in Cells : c # i + 2 => w[c] = mem[c]
      BY <2>6
    <3>2. i % 3 = 0 /\ w[i + 2] \in Vals \cap t.words /\ Triples(mem, len, t)
      BY <1>0, <1>2, <2>3, <3>1
    <3> HIDE DEF w, t
    <3>3. /\ Triples(w, len, t) /\ NoPairTwice(w, len)
          /\ \A b, l : \A j \in 0 .. len - 1 : Row(w, len, b, l, j) <=> Row(mem, len, b, l, j)
          /\ \A j \in 0 .. len - 1 : j % 3 = 0 /\ j # i => w[j + 2] = mem[j + 2]
      BY <1>2, <2>1, <3>1, <3>2, StoreRow
    <3> QED
      BY <3>3 DEF w, t
  <2>8. \A b \in Addrs, l \in Keys : b # a \/ l # k => \A j \in 0 .. len - 1 :
            Row(mem, len, b, l, j) => j # i /\ j % 3 = 0
    BY <2>1 DEF Row
  <2> QED
    BY <2>1, <2>4, <2>5, <2>6, <2>7, <2>8
<1>4. ASSUME \A i \in 0 .. len - 1 : ~Row(mem, len, a, k, i)
      PROVE  Kept
  <2>1. s = [found |-> FALSE, pos |-> len, val |-> 0]
    BY <1>2, <1>4, <1>a, SearchNoRow
  <2>2. len' = len + 3 /\ mem' = Put(mem, len, a, k, v) /\ len + 4 < MaxCells
    BY <1>1, <1>2, <2>1
  <2>3. s.val \in Vals /\ s.val = HeldIn(mem, len, a, k)
    BY <1>4, <2>1, HeldNoRow, TransientAssumption
  <2>4. /\ Triples(mem', len + 3, seen') /\ NoPairTwice(mem', len + 3)
        /\ Row(mem', len + 3, a, k, len) /\ mem'[len + 2] = v
        /\ \A b, l : \A j \in 0 .. len - 1 :
              Row(mem', len + 3, b, l, j) <=> Row(mem, len, b, l, j)
        /\ \A j \in 0 .. len - 1 : j % 3 = 0 => mem'[j + 2] = mem[j + 2]
        /\ \A j \in 0 .. len + 2 : j % 3 = 0 => j = len \/ j \in 0 .. len - 1
    BY <1>0, <1>2, <1>4, <2>2, StoreNew
  <2>5. len \in 0 .. (len + 3) - 1 /\ 0 .. (len + 3) - 1 = 0 .. len + 2
    BY <1>2
  <2>6. \A b \in Addrs, l \in Keys : b # a \/ l # k => \A j \in 0 .. len + 2 :
            Row(mem', len + 3, b, l, j) =>
               Row(mem, len, b, l, j) /\ mem'[j + 2] = mem[j + 2]
    <3> TAKE b \in Addrs, l \in Keys
    <3> HAVE b # a \/ l # k
    <3> TAKE j \in 0 .. len + 2
    <3> HAVE Row(mem', len + 3, b, l, j)
    <3>1. j % 3 = 0 /\ j # len
      BY <2>4 DEF Row
    <3>2. j \in 0 .. len - 1
      BY <2>4, <3>1
    <3> QED
      BY <2>4, <3>1, <3>2
  <2> QED
    BY <2>2, <2>3, <2>4, <2>5, <2>6
<1>5. Kept
  BY <1>3, <1>4
<1>6. Aligned'
  <2>1. undo \in Seq(Undone)
    BY <1>a DEF Aligned
  <2>2. [addr |-> a, key |-> k, prev |-> s.val] \in Undone
    BY <1>5 DEF Undone
  <2>3. undo' \in Seq(Undone)
    BY <1>1, <2>1, <2>2
  <2>4. \A n \in 1 .. Len(undo') :
            \/ n \in 1 .. Len(undo) /\ undo'[n] = undo[n]
            \/ undo'[n].addr = a /\ undo'[n].key = k
    BY <1>1, <2>1, <2>2
  <2>5. \A n \in 1 .. Len(undo') : \E i \in 0 .. len' - 1 :
            Row(mem', len', undo'[n].addr, undo'[n].key, i)
    <3> TAKE n \in 1 .. Len(undo')
    <3>1. CASE n \in 1 .. Len(undo) /\ undo'[n] = undo[n]
      <4>1. PICK i \in 0 .. len - 1 : Row(mem, len, undo[n].addr, undo[n].key, i)
        BY <1>a, <3>1 DEF Aligned
      <4>2. undo[n] \in Undone
        BY <2>1, <3>1
      <4>3. undo[n].addr \in Addrs /\ undo[n].key \in Keys
        BY <4>2 DEF Undone
      <4>4. Row(mem', len', undo[n].addr, undo[n].key, i)
        BY <1>5, <4>1, <4>3
      <4> QED
        BY <3>1, <4>4 DEF Row
    <3>2. CASE undo'[n].addr = a /\ undo'[n].key = k
      BY <1>5, <3>2
    <3> QED
      BY <2>4, <3>1, <3>2
  <2> QED
    BY <1>5, <2>3, <2>5 DEF Aligned
<1>7. \A b \in Addrs, l \in Keys :
          HeldIn(mem', len', b, l) = IF b = a /\ l = k THEN v
                                          ELSE HeldIn(mem, len, b, l)
  <2> TAKE b \in Addrs, l \in Keys
  <2>1. CASE b = a /\ l = k
    BY <1>5, <2>1, HeldRow
  <2>2. CASE (b # a \/ l # k) /\ \E j \in 0 .. len - 1 : Row(mem, len, b, l, j)
    <3>1. PICK j \in 0 .. len - 1 : Row(mem, len, b, l, j)
      BY <2>2
    <3>2. Row(mem', len', b, l, j) /\ mem'[j + 2] = mem[j + 2]
      BY <1>5, <2>2, <3>1 DEF Row
    <3>3. HeldIn(mem, len, b, l) = mem[j + 2]
      BY <1>2, <3>1, HeldRow
    <3>4. HeldIn(mem', len', b, l) = mem'[j + 2]
      BY <1>5, <3>2, HeldRow
    <3> QED
      BY <2>2, <3>2, <3>3, <3>4
  <2>3. CASE (b # a \/ l # k) /\ ~\E j \in 0 .. len - 1 : Row(mem, len, b, l, j)
    <3>1. \A j \in 0 .. len' - 1 : ~Row(mem', len', b, l, j)
      BY <1>5, <2>3 DEF Row
    <3> QED
      BY <2>3, <3>1, HeldNoRow
  <2> QED
    BY <2>1, <2>2, <2>3
<1>8. MapOf(mem', len') = [MapOf(mem, len) EXCEPT ![a][k] = v]
  BY <1>7, ZenonT(40) DEF MapOf
<1> QED
  BY <1>5, <1>6, <1>8, SearchIsSearchIn

\* What a revert does.
LEMMA RevertRowStep ==
    ASSUME IInv, Apart', Revert
    PROVE  /\ Aligned'
           /\ LET e == undo[Len(undo)] IN
              MapOf(mem', len') = [MapOf(mem, len) EXCEPT ![e.addr][e.key] = e.prev]
<1> DEFINE e == undo[Len(undo)]
<1>0. /\ seen' = [addrs |-> seen.addrs \cup {e.addr}, words |-> seen.words \cup {e.prev}]
      /\ e.prev \in seen'.words /\ e.addr \in seen'.addrs
      /\ seen.addrs \subseteq seen'.addrs /\ seen.words \subseteq seen'.words
  BY DEF Revert, See
<1>a. Apart /\ Aligned /\ e.addr \notin seen.words
  BY <1>0 DEF IInv, Apart
<1>1. Triples(mem, len, seen) /\ NoPairTwice(mem, len) /\ undo \in Seq(Undone)
      /\ len \in Nat /\ len % 3 = 0
  BY <1>a DEF Aligned, Triples
<1>2. undo # << >> /\ len' = len /\ undo' = SubSeq(undo, 1, Len(undo) - 1)
  BY DEF Revert
<1>3. Len(undo) \in 1 .. Len(undo) /\ e \in Undone
  BY <1>1, <1>2
<1>4. e.addr \in Addrs /\ e.key \in Keys /\ e.prev \in Vals
  BY <1>3 DEF Undone
<1>5. PICK i \in 0 .. len - 1 : Row(mem, len, e.addr, e.key, i)
  BY <1>3, <1>a DEF Aligned
<1>6. SearchIn(mem, len, e.addr, e.key) = [found |-> TRUE, pos |-> i, val |-> mem[i + 2]]
  BY <1>1, <1>5, <1>a, SearchRow
<1>7. mem' = [mem EXCEPT ![i + 2] = e.prev]
  <2>1. Search(e.addr, e.key) = [found |-> TRUE, pos |-> i, val |-> mem[i + 2]]
    BY <1>6, SearchIsSearchIn
  <2>2. mem' = [mem EXCEPT ![Search(e.addr, e.key).pos + 2] = e.prev]
    BY DEF Revert
  <2>3. Search(e.addr, e.key).pos = i
    BY <2>1
  <2> QED
    BY <2>2, <2>3
<1>8. i % 3 = 0 /\ Triples(mem, len, seen') /\ NoPairTwice(mem, len)
  BY <1>0, <1>1, <1>5, TriplesGrow DEF Row
<1>8a. i + 2 \in Cells
  <2>1. i % 3 = 0 /\ i + 2 \in 0 .. len - 1
    BY <1>1, <1>5, RowRange DEF Row
  <2>2. len > 0 /\ len + 1 < MaxCells
    BY <1>1, <1>5 DEF Triples
  <2> QED
    BY <1>1, <2>1, <2>2, TransientAssumption DEF Cells
<1> DEFINE w == mem'
           t == seen'
<1>9. /\ w \in [Cells -> Words] /\ w[i + 2] = e.prev
      /\ \A c \in Cells : c # i + 2 => w[c] = mem[c]
  BY <1>1, <1>4, <1>7, <1>8a DEF Triples, Words
<1>10. w[i + 2] \in Vals \cap t.words /\ Triples(mem, len, t)
  BY <1>0, <1>4, <1>8, <1>9
<1> HIDE DEF w, t, e
<1>11. /\ Triples(w, len, t) /\ NoPairTwice(w, len)
       /\ \A b, l : \A j \in 0 .. len - 1 : Row(w, len, b, l, j) <=> Row(mem, len, b, l, j)
       /\ \A j \in 0 .. len - 1 : j % 3 = 0 /\ j # i => w[j + 2] = mem[j + 2]
  BY <1>8, <1>9, <1>10, StoreRow
<1>12. Aligned'
  <2>1. undo' \in Seq(Undone)
    BY <1>1, <1>2
  <2>2. \A n \in 1 .. Len(undo') : n \in 1 .. Len(undo) /\ undo'[n] = undo[n]
    BY <1>1, <1>2
  <2>3. \A n \in 1 .. Len(undo') : \E j \in 0 .. len - 1 :
            Row(w, len, undo'[n].addr, undo'[n].key, j)
    BY <1>11, <1>a, <2>2 DEF Aligned
  <2> QED
    BY <1>2, <1>11, <2>1, <2>3 DEF Aligned, w, t
<1>13. \A b \in Addrs, l \in Keys :
          HeldIn(w, len, b, l) = IF b = e.addr /\ l = e.key THEN e.prev
                                       ELSE HeldIn(mem, len, b, l)
  <2> TAKE b \in Addrs, l \in Keys
  <2>1. CASE b = e.addr /\ l = e.key
    <3>1. Row(w, len, b, l, i)
      BY <1>5, <1>11, <2>1
    <3>2. HeldIn(w, len, b, l) = w[i + 2]
      BY <1>11, <3>1, HeldRow
    <3> QED
      BY <1>9, <2>1, <3>2
  <2>2. CASE (b # e.addr \/ l # e.key) /\ \E j \in 0 .. len - 1 : Row(mem, len, b, l, j)
    <3>1. PICK j \in 0 .. len - 1 : Row(mem, len, b, l, j)
      BY <2>2
    <3>2. j # i /\ j % 3 = 0 /\ Row(w, len, b, l, j)
      <4>1. j # i /\ j % 3 = 0
        BY <1>5, <2>2, <3>1 DEF Row
      <4> QED
        BY <1>11, <3>1, <4>1
    <3>3. HeldIn(mem, len, b, l) = mem[j + 2]
      BY <1>1, <3>1, HeldRow
    <3>4. HeldIn(w, len, b, l) = w[j + 2]
      BY <1>11, <3>2, HeldRow
    <3> QED
      BY <1>11, <2>2, <3>2, <3>3, <3>4
  <2>3. CASE (b # e.addr \/ l # e.key) /\ ~\E j \in 0 .. len - 1 : Row(mem, len, b, l, j)
    <3>1. \A j \in 0 .. len - 1 : ~Row(w, len, b, l, j)
      BY <1>11, <2>3
    <3> QED
      BY <2>3, <3>1, HeldNoRow
  <2> QED
    BY <2>1, <2>2, <2>3
<1>14. MapOf(w, len) = [MapOf(mem, len) EXCEPT ![e.addr][e.key] = e.prev]
  <2> DEFINE a == e.addr
             k == e.key
             v == e.prev
  <2>1. a \in Addrs /\ k \in Keys
    BY <1>4
  <2>2. \A b \in Addrs, l \in Keys :
          HeldIn(w, len, b, l) = IF b = a /\ l = k THEN v
                                       ELSE HeldIn(mem, len, b, l)
    BY <1>13
  <2> HIDE DEF a, k, v
  <2>3. MapOf(w, len) = [MapOf(mem, len) EXCEPT ![a][k] = v]
    BY <2>1, <2>2, ZenonT(40) DEF MapOf
  <2> QED
    BY <2>3 DEF a, k, v
<1> QED
  BY <1>2, <1>12, <1>14 DEF w, e

\* In an empty array nothing is held.
LEMMA EmptyArray ==
    ASSUME NEW m \in [Cells -> Words], NEW t
    PROVE  /\ Triples(m, 0, t) /\ NoPairTwice(m, 0)
           /\ MapOf(m, 0) = [a \in Addrs |-> [k \in Keys |-> 0]]
<1>1. Triples(m, 0, t) /\ NoPairTwice(m, 0)
  BY DEF Triples, NoPairTwice
<1>2. \A a \in Addrs, k \in Keys : HeldIn(m, 0, a, k) = 0
  BY DEF HeldIn, RowsIn
<1> QED
  BY <1>1, <1>2 DEF MapOf

\* The invariant holds initially.
LEMMA InitInv ==
    ASSUME Init
    PROVE  IInv /\ MapOf(mem, len) = [a \in Addrs |-> [k \in Keys |-> 0]]
<1>1. /\ mem \in [Cells -> Words] /\ len = 0 /\ undo = << >>
      /\ seen = [addrs |-> {}, words |-> {}]
  BY TransientAssumption DEF Init, NothingSeen, Words
<1>2. TypeOK
  BY <1>1 DEF TypeOK
<1>3. /\ Triples(mem, 0, seen) /\ NoPairTwice(mem, 0)
      /\ MapOf(mem, 0) = [a \in Addrs |-> [k \in Keys |-> 0]]
  BY <1>1, EmptyArray
<1>4. undo \in Seq(Undone) /\ Len(undo) = 0
  BY <1>1
<1> QED
  BY <1>1, <1>2, <1>3, <1>4 DEF IInv, Aligned

\* Every step keeps the types, whatever words are stored.
LEMMA NextTypes ==
    ASSUME TypeOK, [Next]_vars
    PROVE  TypeOK'
<1> DEFINE Entry == [addr : Addrs, key : Keys, prev : Words]
<1>t. TypeOK' <=> /\ mem' \in [Cells -> Words]
                  /\ len' \in Nat /\ (len' > 0 => len' + 1 < MaxCells)
                  /\ undo' \in Seq(Entry)
                  /\ seen' \in [addrs : SUBSET Addrs, words : SUBSET Words]
  BY DEF TypeOK
<1>0. /\ mem \in [Cells -> Words] /\ len \in Nat /\ (len > 0 => len + 1 < MaxCells)
      /\ undo \in Seq(Entry)
      /\ seen.addrs \subseteq Addrs /\ seen.words \subseteq Words
  BY DEF TypeOK
<1>e. \A x \in Entry : x.addr \in Addrs /\ x.prev \in Words
  OBVIOUS
<1>f. \A a \in Addrs, k \in Keys, v \in Words :
          [addr |-> a, key |-> k, prev |-> v] \in Entry
  OBVIOUS
<1> HIDE DEF Entry
<1>a. ASSUME NEW a \in Addrs, NEW ws \in SUBSET Words, See(a, ws)
      PROVE  seen' \in [addrs : SUBSET Addrs, words : SUBSET Words]
  BY <1>0, <1>a DEF See
<1>1. ASSUME NEW a \in Addrs, NEW k \in Keys, TLoad(a, k)
      PROVE  TypeOK'
  <2>1. seen' \in [addrs : SUBSET Addrs, words : SUBSET Words]
    BY <1>1, <1>a DEF TLoad
  <2> QED
    BY <1>0, <1>1, <1>t, <2>1 DEF TLoad
<1>2. ASSUME NEW a \in Addrs, NEW k \in Keys, NEW v \in Vals, TStore(a, k, v)
      PROVE  TypeOK'
  <2> DEFINE s == Search(a, k)
  <2>1. s.pos \in Nat /\ s.val \in Words
    BY SearchType
  <2>2. /\ s.pos + 4 < MaxCells
        /\ mem' = Put(mem, s.pos, a, k, v)
        /\ len' = IF s.pos + 2 > len THEN s.pos + 3 ELSE len
        /\ undo' = IF v = s.val THEN undo
                   ELSE Append(undo, [addr |-> a, key |-> k, prev |-> s.val])
        /\ See(a, {k, v})
    BY <1>2 DEF TStore, Put
  <2> HIDE DEF s
  <2>3. mem' \in [Cells -> Words]
    BY <1>0, <2>1, <2>2, PutCells
  <2>4. len' \in Nat /\ (len' > 0 => len' + 1 < MaxCells)
    BY <1>0, <2>1, <2>2, TransientAssumption
  <2>5. undo' \in Seq(Entry)
    <3>1. [addr |-> a, key |-> k, prev |-> s.val] \in Entry
      BY <1>f, <2>1
    <3> QED
      BY <1>0, <2>2, <3>1
  <2>6. {k, v} \subseteq Words
    BY DEF Words
  <2>7. seen' \in [addrs : SUBSET Addrs, words : SUBSET Words]
    BY <1>a, <2>2, <2>6
  <2> QED
    BY <1>t, <2>3, <2>4, <2>5, <2>7
<1>3. ASSUME Revert PROVE TypeOK'
  <2> DEFINE e == undo[Len(undo)]
  <2>1. undo # << >> /\ len' = len /\ undo' = SubSeq(undo, 1, Len(undo) - 1)
        /\ mem' = [mem EXCEPT ![Search(e.addr, e.key).pos + 2] = e.prev]
        /\ See(e.addr, {e.prev})
    BY <1>3 DEF Revert
  <2>2. e \in Entry
    BY <1>0, <2>1
  <2>3. e.addr \in Addrs /\ {e.prev} \in SUBSET Words /\ e.prev \in Words
    BY <1>e, <2>2
  <2> HIDE DEF e
  <2>4. undo' \in Seq(Entry)
    BY <1>0, <2>1
  <2>5. mem' \in [Cells -> Words]
    BY <1>0, <2>1, <2>3
  <2>6. seen' \in [addrs : SUBSET Addrs, words : SUBSET Words]
    BY <1>a, <2>1, <2>3
  <2> QED
    BY <1>0, <1>t, <2>1, <2>4, <2>5, <2>6
<1>4. ASSUME NewTxn PROVE TypeOK'
  BY <1>0, <1>4, <1>t DEF NewTxn, NothingSeen
<1>5. ASSUME UNCHANGED vars PROVE TypeOK'
  BY <1>5 DEF vars, TypeOK
<1> QED
  BY <1>1, <1>2, <1>3, <1>4, <1>5 DEF Next

\* Every step keeps the invariant: it needs the array to be aligned only after steps
\* that leave the words of the transaction apart, and a new transaction aligns it.
LEMMA NextInv ==
    ASSUME IInv, [Next]_vars
    PROVE  IInv'
<1>0. TypeOK'
  BY NextTypes DEF IInv
<1> SUFFICES ASSUME Apart' PROVE Aligned'
  BY <1>0 DEF IInv
<1>1. ASSUME NEW a \in Addrs, NEW k \in Keys, TLoad(a, k)
      PROVE  Aligned'
  <2>1. /\ seen' = [addrs |-> seen.addrs \cup {a}, words |-> seen.words \cup {}]
        /\ seen.addrs \subseteq seen'.addrs /\ seen.words \subseteq seen'.words
        /\ mem' = mem /\ len' = len /\ undo' = undo
    BY <1>1 DEF TLoad, See
  <2>2. Aligned
    BY <2>1 DEF IInv, Apart
  <2>3. Triples(mem, len, seen')
    BY <2>1, <2>2, TriplesGrow DEF Aligned
  <2> QED
    BY <2>1, <2>2, <2>3 DEF Aligned
<1>2. ASSUME NEW a \in Addrs, NEW k \in Keys, NEW v \in Vals, TStore(a, k, v)
      PROVE  Aligned'
  BY <1>2, StoreStep
<1>3. ASSUME Revert PROVE Aligned'
  BY <1>3, RevertRowStep
<1>4. ASSUME NewTxn PROVE Aligned'
  <2>1. mem \in [Cells -> Words] /\ mem' = mem /\ len' = 0 /\ undo' = << >>
    BY <1>4 DEF NewTxn, IInv, TypeOK
  <2> QED
    BY <2>1, EmptyArray DEF Aligned
<1>5. ASSUME UNCHANGED vars PROVE Aligned'
  <2>1. seen' = seen /\ mem' = mem /\ len' = len /\ undo' = undo
    BY <1>5 DEF vars
  <2>2. Aligned
    BY <2>1 DEF IInv, Apart
  <2> QED
    BY <2>1, <2>2 DEF Aligned
<1> QED
  BY <1>1, <1>2, <1>3, <1>4, <1>5 DEF Next

\* An address that is not among the stored words is answered for its own pair.
LEMMA SearchIsHeld ==
    ASSUME Aligned, NEW a, a \notin seen.words, NEW k
    PROVE  /\ Search(a, k).found => Search(a, k).pos \in Rows(a, k)
           /\ Search(a, k).val = Held(a, k)
<1>1. Triples(mem, len, seen) /\ NoPairTwice(mem, len)
  BY DEF Aligned
<1>2. Held(a, k) = HeldIn(mem, len, a, k) /\ Search(a, k) = SearchIn(mem, len, a, k)
  BY SearchIsSearchIn DEF Held, HeldIn, Rows, RowsIn
<1>3. CASE \E i \in 0 .. len - 1 : Row(mem, len, a, k, i)
  <2>1. PICK i \in 0 .. len - 1 : Row(mem, len, a, k, i)
    BY <1>3
  <2>2. SearchIn(mem, len, a, k) = [found |-> TRUE, pos |-> i, val |-> mem[i + 2]]
    BY <1>1, <2>1, SearchRow
  <2>3. HeldIn(mem, len, a, k) = mem[i + 2]
    BY <1>1, <2>1, HeldRow
  <2>4. i \in Rows(a, k)
    BY <2>1 DEF Row, Rows
  <2> QED
    BY <1>2, <2>2, <2>3, <2>4
<1>4. CASE \A i \in 0 .. len - 1 : ~Row(mem, len, a, k, i)
  <2>1. SearchIn(mem, len, a, k) = [found |-> FALSE, pos |-> len, val |-> 0]
    BY <1>1, <1>4, SearchNoRow
  <2>2. HeldIn(mem, len, a, k) = 0
    BY <1>4, HeldNoRow
  <2> QED
    BY <1>2, <2>1, <2>2
<1> QED
  BY <1>3, <1>4

-----------------------------------------------------------------------------
(* The theorems.                                                           *)

\* Whatever words user code stores, the search of sys_tload, sys_tstore and
\* revert_transient_storage_change stays within the cells of the segment, and the
\* length never passes them.
THEOREM TransientTypes == Spec => []TypeOK
<1>1. Init => TypeOK
  BY InitInv DEF IInv
<1>2. TypeOK /\ [Next]_vars => TypeOK'
  BY NextTypes
<1> QED
  BY <1>1, <1>2, PTL DEF Spec

\* In every transaction in which no address that used transient storage was stored as
\* a key or a value, an address that is not among the stored words gets what the
\* triple of its pair holds, 0 without one, and the pair of every journal entry is
\* still there to be reverted (%assert_nonzero in revert_transient_storage_change),
\* however long the array and the journal get and whatever the transactions before it
\* stored.
THEOREM SearchesFindPair == Spec => []FindsPair
<1>1. Init => IInv
  BY InitInv
<1>2. IInv /\ [Next]_vars => IInv'
  BY NextInv
<1>3. IInv => FindsPair
  <2> SUFFICES ASSUME IInv, Apart
               PROVE  FindsPair
    BY DEF FindsPair, SearchAnswersPair, RevertFindsPair
  <2>1. Aligned
    BY DEF IInv
  <2>2. SearchAnswersPair
    BY <2>1, SearchIsHeld DEF SearchAnswersPair
  <2>3. RevertFindsPair
    <3> SUFFICES ASSUME NEW n \in 1 .. Len(undo)
                 PROVE  SearchIn(mem, len, undo[n].addr, undo[n].key).found
      BY SearchIsSearchIn DEF RevertFindsPair
    <3>1. PICK i \in 0 .. len - 1 : Row(mem, len, undo[n].addr, undo[n].key, i)
      BY <2>1 DEF Aligned
    <3>2. Triples(mem, len, seen) /\ NoPairTwice(mem, len)
      BY <2>1 DEF Aligned
    <3>3. undo[n].addr \notin seen.words
      BY <3>1, <3>2 DEF Triples, Row, Apart
    <3> QED
      BY <3>1, <3>2, <3>3, SearchRow
  <2> QED
    BY <2>2, <2>3 DEF FindsPair
<1> QED
  BY <1>1, <1>2, <1>3, PTL DEF Spec

\* sys_tload, sys_tstore, the revert of a store and the reset between transactions are
\* the operations of a map that is 0 everywhere at first, in every transaction while no
\* address that used transient storage was stored as a key or a value: the linear
\* search over all cells, the stale cells behind the array and the rows that are never
\* removed do not show, and a transaction that went wrong spoils none after it.
THEOREM ArrayImplementsMap == Spec => ImplementsMap
<1> DEFINE map == [a \in Addrs |-> [k \in Keys |-> Held(a, k)]]
<1>1. map = MapOf(mem, len) /\ map' = MapOf(mem', len')
  BY DEF MapOf, Held, HeldIn, Rows, RowsIn
<1>2. Init => IInv /\ Abstract!Init
  BY <1>1, InitInv DEF Init, Abstract!Init, NoLoad
<1>3. IInv /\ [Next]_vars => IInv'
  BY NextInv
<1>4. IInv /\ [Next]_vars => (Apart' => [Abstract!Next]_(Abstract!mapVars))
  <2> SUFFICES ASSUME IInv, [Next]_vars, Apart'
               PROVE  [Abstract!Next]_(Abstract!mapVars)
    OBVIOUS
  <2>1. ASSUME NEW a \in Addrs, NEW k \in Keys, TLoad(a, k)
        PROVE  Abstract!TLoad(a, k)
    <3>1. map' = map
      BY <1>1, <2>1 DEF TLoad
    <3>2. Apart /\ a \notin seen.words
      BY <2>1 DEF TLoad, See, Apart
    <3>3. Search(a, k).val = map[a][k]
      BY <3>2, SearchIsHeld DEF IInv
    <3> HIDE DEF map
    <3> QED
      BY <2>1, <3>1, <3>3 DEF TLoad, Abstract!TLoad, map
  <2>2. ASSUME NEW a \in Addrs, NEW k \in Keys, NEW v \in Vals, TStore(a, k, v)
        PROVE  Abstract!TStore(a, k, v)
    <3>1. map' = [map EXCEPT ![a][k] = v]
      <4>1. MapOf(mem', len') = [MapOf(mem, len) EXCEPT ![a][k] = v]
        BY <2>2, StoreStep
      <4> HIDE DEF map
      <4> QED
        BY <1>1, <4>1
    <3>2. map[a][k] = Search(a, k).val
      <4>1. Search(a, k).val = HeldIn(mem, len, a, k)
        BY <2>2, StoreStep
      <4>2. map[a][k] = HeldIn(mem, len, a, k)
        BY DEF Held, HeldIn, Rows, RowsIn
      <4> QED
        BY <4>1, <4>2
    <3> QED
      BY <2>2, <3>1, <3>2 DEF TStore, Abstract!TStore
  <2>3. ASSUME Revert PROVE Abstract!Revert
    <3>1. LET e == undo[Len(undo)] IN map' = [map EXCEPT ![e.addr][e.key] = e.prev]
      BY <1>1, <2>3, RevertRowStep
    <3> QED
      BY <2>3, <3>1 DEF Revert, Abstract!Revert
  <2>4. ASSUME NewTxn PROVE Abstract!NewTxn
    <3>1. mem' \in [Cells -> Words] /\ len' = 0
      BY <2>4 DEF NewTxn, IInv, TypeOK
    <3>2. map' = [a \in Addrs |-> [k \in Keys |-> 0]]
      BY <1>1, <3>1, EmptyArray
    <3> QED
      BY <2>4, <3>2 DEF NewTxn, Abstract!NewTxn
  <2>5. ASSUME UNCHANGED vars PROVE UNCHANGED Abstract!mapVars
    <3>1. map' = map
      BY <1>1, <2>5 DEF vars
    <3> QED
      BY <2>5, <3>1 DEF vars, Abstract!mapVars
  <2> QED
    BY <2>1, <2>2, <2>3, <2>4, <2>5 DEF Next, Abstract!Next
<1> QED
  BY <1>2, <1>3, <1>4, PTL DEF Spec, ImplementsMap

-----------------------------------------------------------------------------
(* Sorted cycles.  Nodes L have ranks r and successors nx; node 1 is the   *)
(* head, with the rank t above all others when it is looked at as a        *)
(* successor, and below all others as a predecessor.                       *)

Lo(r, i) == IF i = 1 THEN 0 ELSE r[i]

Cycle(r, nx, L, t) ==
    /\ t \in Nat /\ 1 \in L /\ r[1] = t /\ 0 < t
    /\ \A i \in L \ {1} : r[i] \in Nat /\ 0 < r[i] /\ r[i] < t
    /\ \A i \in L : nx[i] \in L
    /\ \A i, j \in L \ {1} : r[i] = r[j] => i = j
    /\ \A i \in L : Lo(r, i) < r[nx[i]]
    /\ \A i \in L, j \in L \ {1} : Lo(r, i) < r[j] => r[nx[i]] <= r[j]

\* The ranks and successors of a cycle, typed.
LEMMA CycleTypes ==
    ASSUME NEW r, NEW nx, NEW L, NEW t, Cycle(r, nx, L, t)
    PROVE  /\ t \in Nat /\ 0 < t /\ r[1] = t /\ 1 \in L
           /\ \A i \in L : r[i] \in Nat /\ Lo(r, i) \in Nat /\ nx[i] \in L /\ r[i] <= t
           /\ \A i \in L : Lo(r, i) < t
           /\ \A i \in L : i # 1 => Lo(r, i) = r[i] /\ 0 < r[i] /\ r[i] < t
BY DEF Cycle, Lo

\* There is a last node at or below x, and x lies below its successor.
LEMMA GapExists ==
    ASSUME NEW r, NEW nx, NEW L, NEW t, Cycle(r, nx, L, t), NEW x \in Nat, x < t
    PROVE  \E p \in L : Lo(r, p) <= x /\ x < r[nx[p]]
<1> DEFINE D == {x - Lo(r, p) : p \in {q \in L : Lo(r, q) <= x}}
<1>1. D \subseteq Nat /\ D # {}
  <2>1. \A p \in L : Lo(r, p) \in Nat /\ (Lo(r, p) <= x => x - Lo(r, p) \in Nat)
    BY CycleTypes
  <2>2. 1 \in L /\ Lo(r, 1) <= x
    BY CycleTypes DEF Lo
  <2> QED
    BY <2>1, <2>2
<1>2. PICK d \in D : \A e \in D : d <= e
  BY <1>1, LeastNumber
<1>3. PICK p \in L : Lo(r, p) <= x /\ d = x - Lo(r, p)
  BY <1>2
<1>4. ASSUME NEW q \in L, Lo(r, q) <= x
      PROVE  Lo(r, q) <= Lo(r, p)
  <2>1. x - Lo(r, p) <= x - Lo(r, q)
    BY <1>2, <1>3, <1>4
  <2>2. Lo(r, p) \in Nat /\ Lo(r, q) \in Nat
    BY CycleTypes
  <2> QED
    BY <2>1, <2>2
<1>5. ASSUME r[nx[p]] <= x
      PROVE  FALSE
  <2> DEFINE q == nx[p]
  <2>1. q \in L /\ r[q] \in Nat /\ r[q] <= x
    BY <1>5, CycleTypes
  <2>2. q # 1
    BY <2>1, CycleTypes
  <2>3. Lo(r, q) = r[q]
    BY <2>2 DEF Lo
  <2>4. Lo(r, p) < r[q]
    BY DEF Cycle
  <2>5. Lo(r, p) \in Nat
    BY CycleTypes
  <2> QED
    BY <1>4, <2>1, <2>3, <2>4, <2>5
<1> QED
  BY <1>3, <1>5, CycleTypes

\* There is only one such node.
LEMMA GapUnique ==
    ASSUME NEW r, NEW nx, NEW L, NEW t, Cycle(r, nx, L, t), NEW x \in Nat,
           NEW p \in L, NEW q \in L,
           Lo(r, p) <= x, x < r[nx[p]], Lo(r, q) <= x, x < r[nx[q]]
    PROVE  p = q
<1>1. ASSUME NEW i \in L, NEW j \in L, Lo(r, i) < Lo(r, j), Lo(r, j) <= x, x < r[nx[i]]
      PROVE  FALSE
  <2>1. j # 1
    BY <1>1, CycleTypes DEF Lo
  <2>2. r[nx[i]] <= r[j] /\ Lo(r, j) = r[j]
    BY <1>1, <2>1 DEF Cycle, Lo
  <2>3. r[j] \in Nat /\ r[nx[i]] \in Nat
    BY CycleTypes
  <2> QED
    BY <1>1, <2>2, <2>3
<1>2. Lo(r, p) = Lo(r, q)
  BY <1>1, CycleTypes
<1> QED
  BY <1>2, CycleTypes DEF Cycle, Lo

\* The new node n, of rank x, stands between p and p's old successor.
Linked(r, nx, L, x, p, n, r2, nx2) ==
    /\ p \in L /\ n \notin L
    /\ x \in Nat /\ Lo(r, p) < x /\ x < r[nx[p]]
    /\ \A i \in L : r2[i] = r[i]
    /\ r2[n] = x
    /\ \A i \in L \ {p} : nx2[i] = nx[i]
    /\ nx2[p] = n /\ nx2[n] = nx[p]

\* A node linked in its gap leaves a cycle.
LEMMA LinkKeepsCycle ==
    ASSUME NEW r, NEW nx, NEW L, NEW t, NEW x, NEW p, NEW n, NEW r2, NEW nx2,
           Cycle(r, nx, L, t), Linked(r, nx, L, x, p, n, r2, nx2)
    PROVE  Cycle(r2, nx2, L \cup {n}, t)
<1>0. /\ p \in L /\ n \notin L
      /\ x \in Nat /\ Lo(r, p) < x /\ x < r[nx[p]]
      /\ \A i \in L : r2[i] = r[i]
      /\ r2[n] = x
      /\ \A i \in L \ {p} : nx2[i] = nx[i]
      /\ nx2[p] = n /\ nx2[n] = nx[p]
  BY DEF Linked
<1>1. n # 1 /\ n # p /\ nx[p] \in L
  BY <1>0, CycleTypes
<1>2. \A i \in L : Lo(r2, i) = Lo(r, i)
  BY <1>0 DEF Lo
<1>3. Lo(r2, n) = x
  BY <1>0, <1>1 DEF Lo
<1>4. 0 < x /\ x < t
  BY <1>0, <1>1, CycleTypes
<1>5. \A j \in L \ {1} : Lo(r, p) < r[j] => x < r[j]
  <2> SUFFICES ASSUME NEW j \in L \ {1}, Lo(r, p) < r[j] PROVE x < r[j]
    OBVIOUS
  <2>1. r[nx[p]] <= r[j]
    BY <1>0 DEF Cycle
  <2> QED
    BY <1>0, <1>1, <2>1, CycleTypes
<1>6. \A j \in L \ {1} : r[j] # x
  BY <1>0, <1>5, CycleTypes
<1>7. \A i \in L \ {p} : Lo(r, i) < x => r[nx[i]] < x
  <2> SUFFICES ASSUME NEW i \in L \ {p}, Lo(r, i) < x, x <= r[nx[i]] PROVE FALSE
    BY <1>0, CycleTypes
  <2>1. r[nx[i]] # x
    BY <1>4, <1>6, CycleTypes
  <2>2. x < r[nx[i]]
    BY <2>1, <1>0, CycleTypes
  <2>3. Lo(r, i) <= x /\ Lo(r, p) <= x
    BY <1>0, CycleTypes
  <2> QED
    BY <1>0, <2>2, <2>3, GapUnique
<1>8. \A i \in L \cup {n} : nx2[i] \in L \cup {n}
  BY <1>0, <1>1, CycleTypes
<1>9. \A i \in L \cup {n} : Lo(r2, i) < r2[nx2[i]]
  <2> SUFFICES ASSUME NEW i \in L \cup {n} PROVE Lo(r2, i) < r2[nx2[i]]
    OBVIOUS
  <2>1. CASE i = n
    BY <2>1, <1>0, <1>1, <1>3
  <2>2. CASE i = p
    BY <2>2, <1>0, <1>2
  <2>3. CASE i \in L \ {p}
    BY <2>3, <1>0, <1>2, CycleTypes DEF Cycle
  <2> QED
    BY <2>1, <2>2, <2>3
<1>10. \A i \in L \cup {n}, j \in (L \cup {n}) \ {1} : Lo(r2, i) < r2[j] => r2[nx2[i]] <= r2[j]
  <2> SUFFICES ASSUME NEW i \in L \cup {n}, NEW j \in (L \cup {n}) \ {1}, Lo(r2, i) < r2[j]
               PROVE  r2[nx2[i]] <= r2[j]
    OBVIOUS
  <2>1. CASE i = n /\ j = n
    BY <2>1, <1>0, <1>3
  <2>2. CASE i = n /\ j \in L
    <3>1. x < r[j]
      BY <2>2, <1>0, <1>3
    <3>2. Lo(r, p) < r[j]
      BY <3>1, <1>0, <2>2, CycleTypes
    <3>3. r[nx[p]] <= r[j]
      BY <3>2, <2>2, <1>0 DEF Cycle
    <3> QED
      BY <3>3, <2>2, <1>0, <1>1
  <2>3. CASE i = p /\ j = n
    BY <2>3, <1>0
  <2>4. CASE i = p /\ j \in L
    <3>1. x < r[j]
      BY <2>4, <1>0, <1>2, <1>5
    <3> QED
      BY <3>1, <2>4, <1>0, CycleTypes
  <2>5. CASE i \in L \ {p} /\ j = n
    <3>1. r[nx[i]] < x
      BY <2>5, <1>0, <1>2, <1>7
    <3> QED
      BY <3>1, <2>5, <1>0, CycleTypes
  <2>6. CASE i \in L \ {p} /\ j \in L
    <3>1. r[nx[i]] <= r[j]
      BY <2>6, <1>0, <1>2 DEF Cycle
    <3> QED
      BY <3>1, <2>6, <1>0, CycleTypes
  <2> QED
    BY <2>1, <2>2, <2>3, <2>4, <2>5, <2>6
<1>11. \A i, j \in (L \cup {n}) \ {1} : r2[i] = r2[j] => i = j
  BY <1>0, <1>6 DEF Cycle
<1>12. \A i \in (L \cup {n}) \ {1} : r2[i] \in Nat /\ 0 < r2[i] /\ r2[i] < t
  BY <1>0, <1>4, CycleTypes
<1>13. t \in Nat /\ 1 \in L \cup {n} /\ r2[1] = t /\ 0 < t
  BY <1>0, CycleTypes
<1> QED
  BY <1>8, <1>9, <1>10, <1>11, <1>12, <1>13 DEF Cycle

\* The successor n of p is taken out.
Unlinked(nx, L, p, n, nx2) ==
    /\ p \in L /\ n = nx[p] /\ n # 1
    /\ \A i \in L \ {p, n} : nx2[i] = nx[i]
    /\ nx2[p] = nx[n]

\* Taking out a node leaves a cycle.
LEMMA UnlinkKeepsCycle ==
    ASSUME NEW r, NEW nx, NEW L, NEW t, NEW p, NEW n, NEW nx2,
           Cycle(r, nx, L, t), Unlinked(nx, L, p, n, nx2)
    PROVE  Cycle(r, nx2, L \ {n}, t) /\ n \in L /\ n # p /\ nx[n] # n
<1>0. /\ p \in L /\ n = nx[p] /\ n # 1
      /\ \A i \in L \ {p, n} : nx2[i] = nx[i]
      /\ nx2[p] = nx[n]
  BY DEF Unlinked
<1>1. n \in L /\ nx[n] \in L
  BY <1>0, CycleTypes
<1>2. Lo(r, p) < r[n] /\ r[n] < r[nx[n]] /\ Lo(r, n) = r[n]
  BY <1>0, <1>1 DEF Cycle, Lo
<1>3. n # p
  BY <1>2, <1>0, <1>1, CycleTypes DEF Lo
<1>4. nx[n] # n
  BY <1>2, <1>1, CycleTypes
<1>5. \A i \in L : nx[i] = n => i = p
  <2> SUFFICES ASSUME NEW i \in L, nx[i] = n PROVE i = p
    OBVIOUS
  <2> DEFINE x == r[n] - 1
  <2>1. x \in Nat
    BY <1>0, <1>1, CycleTypes
  <2>2. Lo(r, i) < r[n]
    BY DEF Cycle
  <2>3. Lo(r, i) <= x /\ Lo(r, p) <= x /\ x < r[nx[i]] /\ x < r[nx[p]]
    BY <1>0, <1>1, <1>2, <2>1, <2>2, CycleTypes
  <2> HIDE DEF x
  <2> QED
    BY <1>0, <2>1, <2>3, GapUnique
<1>6. \A i \in L \ {n} : nx2[i] \in L \ {n}
  BY <1>0, <1>1, <1>4, <1>5, CycleTypes
<1>7. \A i \in L \ {n} : Lo(r, i) < r[nx2[i]]
  <2> SUFFICES ASSUME NEW i \in L \ {n} PROVE Lo(r, i) < r[nx2[i]]
    OBVIOUS
  <2>1. CASE i = p
    BY <2>1, <1>0, <1>1, <1>2, CycleTypes
  <2>2. CASE i # p
    BY <2>2, <1>0 DEF Cycle
  <2> QED
    BY <2>1, <2>2
<1>8. \A i \in L \ {n}, j \in (L \ {n}) \ {1} : Lo(r, i) < r[j] => r[nx2[i]] <= r[j]
  <2> SUFFICES ASSUME NEW i \in L \ {n}, NEW j \in (L \ {n}) \ {1}, Lo(r, i) < r[j]
               PROVE  r[nx2[i]] <= r[j]
    OBVIOUS
  <2>1. r[nx[i]] <= r[j]
    BY DEF Cycle
  <2>2. CASE i # p
    BY <2>1, <2>2, <1>0
  <2>3. CASE i = p
    <3>1. r[n] <= r[j] /\ r[n] # r[j]
      BY <2>1, <2>3, <1>0, <1>1 DEF Cycle
    <3>2. Lo(r, n) < r[j]
      BY <3>1, <1>1, <1>2, CycleTypes
    <3>3. r[nx[n]] <= r[j]
      BY <3>2, <1>1 DEF Cycle
    <3> QED
      BY <3>3, <2>3, <1>0
  <2> QED
    BY <2>2, <2>3
<1>9. /\ \A i, j \in (L \ {n}) \ {1} : r[i] = r[j] => i = j
      /\ \A i \in (L \ {n}) \ {1} : r[i] \in Nat /\ 0 < r[i] /\ r[i] < t
      /\ t \in Nat /\ 1 \in L \ {n} /\ r[1] = t /\ 0 < t
  BY <1>0 DEF Cycle
<1>10. Cycle(r, nx2, L \ {n}, t)
  BY <1>6, <1>7, <1>8, <1>9 DEF Cycle
<1> QED
  BY <1>1, <1>3, <1>4, <1>10

\* The node before a node that is linked.
LEMMA BeforeExists ==
    ASSUME NEW r, NEW nx, NEW L, NEW t, Cycle(r, nx, L, t), NEW j \in L, j # 1
    PROVE  \E p \in L : nx[p] = j /\ \A q \in L : r[nx[q]] = r[j] => q = p
<1> DEFINE x == r[j] - 1
<1>1. x \in Nat /\ x < t
  BY CycleTypes
<1>2. PICK p \in L : Lo(r, p) <= x /\ x < r[nx[p]]
  BY <1>1, GapExists
<1>3. Lo(r, p) < r[j] /\ r[j] <= r[nx[p]]
  BY <1>2, CycleTypes
<1>4. r[nx[p]] <= r[j]
  BY <1>3 DEF Cycle
<1>5. r[nx[p]] = r[j] /\ nx[p] \in L
  BY <1>3, <1>4, CycleTypes
<1>6. nx[p] = j
  <2>1. nx[p] # 1
    BY <1>5, CycleTypes
  <2> QED
    BY <2>1, <1>5 DEF Cycle
<1>7. ASSUME NEW q \in L, r[nx[q]] = r[j]
      PROVE  q = p
  <2>1. Lo(r, q) < r[j]
    BY <1>7 DEF Cycle
  <2>2. Lo(r, q) <= x /\ x < r[nx[q]]
    BY <1>1, <1>7, <2>1, CycleTypes
  <2> HIDE DEF x
  <2> QED
    BY <1>1, <1>2, <2>2, GapUnique
<1> QED
  BY <1>6, <1>7

\* Nodes with rising ranks, each pointing to the next, are a cycle.
LEMMA RisingIsCycle ==
    ASSUME NEW r, NEW nx, NEW n \in Nat, NEW t \in Nat, 0 < t, 0 < n,
           r[1] = t,
           \A i \in 2 .. n : r[i] \in Nat /\ 0 < r[i] /\ r[i] < t,
           \A i, j \in 2 .. n : i < j => r[i] < r[j],
           \A i \in 1 .. n : nx[i] = Chained(i, n)
    PROVE  Cycle(r, nx, 1 .. n, t)
<1>1. \A i \in 1 .. n : nx[i] \in 1 .. n
  BY DEF Chained
<1>2. \A i \in (1 .. n) \ {1} : i \in 2 .. n
  OBVIOUS
<1>3. \A i, j \in (1 .. n) \ {1} : r[i] = r[j] => i = j
  <2> SUFFICES ASSUME NEW i \in 2 .. n, NEW j \in 2 .. n, r[i] = r[j], i < j PROVE FALSE
    BY <1>2
  <2> QED
    OBVIOUS
<1>4. \A i \in 1 .. n : Lo(r, i) < r[nx[i]]
  <2> SUFFICES ASSUME NEW i \in 1 .. n PROVE Lo(r, i) < r[nx[i]]
    OBVIOUS
  <2>1. CASE i = n
    BY <2>1 DEF Lo, Chained
  <2>2. CASE i # n
    <3>1. nx[i] = i + 1 /\ i + 1 \in 2 .. n
      BY <2>2 DEF Chained
    <3> QED
      BY <3>1 DEF Lo
  <2> QED
    BY <2>1, <2>2
<1>5. \A i \in 1 .. n, j \in (1 .. n) \ {1} : Lo(r, i) < r[j] => r[nx[i]] <= r[j]
  <2> SUFFICES ASSUME NEW i \in 1 .. n, NEW j \in 2 .. n, Lo(r, i) < r[j]
               PROVE  r[nx[i]] <= r[j]
    BY <1>2
  <2>1. i < j
    <3> SUFFICES ASSUME j <= i PROVE FALSE
      OBVIOUS
    <3>1. i \in 2 .. n /\ Lo(r, i) = r[i]
      BY DEF Lo
    <3> QED
      BY <3>1
  <2>2. nx[i] = i + 1 /\ i + 1 \in 2 .. n
    BY <2>1 DEF Chained
  <2> QED
    BY <2>1, <2>2
<1> QED
  BY <1>1, <1>2, <1>3, <1>4, <1>5 DEF Cycle

-----------------------------------------------------------------------------
(* Counting the elements of a finite set up to a rank enumerates it.       *)

Counted(S, rk, x) == Cardinality({y \in S : rk[y] <= rk[x]})

\* The count rises with the rank.
LEMMA CountRises ==
    ASSUME NEW S, IsFiniteSet(S), NEW rk \in [S -> Nat], NEW x \in S
    PROVE  /\ Counted(S, rk, x) \in 1 .. Cardinality(S)
           /\ \A y \in S : rk[x] < rk[y] => Counted(S, rk, x) < Counted(S, rk, y)
<1> DEFINE A(z) == {y \in S : rk[y] <= rk[z]}
<1>1. \A z \in S : IsFiniteSet(A(z)) /\ Cardinality(A(z)) \in Nat /\ Cardinality(A(z)) <= Cardinality(S)
  BY FS_Subset, FS_CardinalityType
<1>2. Cardinality(A(x)) # 0
  <2>1. x \in A(x)
    OBVIOUS
  <2> HIDE DEF A
  <2> QED
    BY <1>1, <2>1, FS_EmptySet
<1>3. ASSUME NEW y \in S, rk[x] < rk[y]
      PROVE  Cardinality(A(x)) < Cardinality(A(y))
  <2>1. A(x) \in SUBSET A(y) /\ y \in A(y) /\ y \notin A(x)
    BY <1>3
  <2> HIDE DEF A
  <2>2. Cardinality(A(x)) <= Cardinality(A(y)) /\ Cardinality(A(y)) # Cardinality(A(x))
    BY <1>1, <2>1, FS_Subset
  <2> QED
    BY <1>1, <2>2
<1>4. Cardinality(S) \in Nat
  BY FS_CardinalityType
<1> QED
  BY <1>1, <1>2, <1>3, <1>4 DEF Counted

\* Every number up to the size of the set is the count of an element.
LEMMA CountReaches ==
    ASSUME NEW S, IsFiniteSet(S), NEW rk \in [S -> Nat],
           \A x, y \in S : rk[x] = rk[y] => x = y,
           NEW i \in 1 .. Cardinality(S)
    PROVE  \E x \in S : Counted(S, rk, x) = i
<1> DEFINE n == Cardinality(S)
           f == [x \in S |-> Counted(S, rk, x)]
<1>1. n \in Nat
  BY FS_CardinalityType
<1>2. f \in [S -> 1 .. n]
  BY CountRises
<1>3. \A x, y \in S : f[x] = f[y] => x = y
  <2> SUFFICES ASSUME NEW x \in S, NEW y \in S, f[x] = f[y], rk[x] < rk[y] PROVE FALSE
    OBVIOUS
  <2>1. Counted(S, rk, x) < Counted(S, rk, y) /\ Counted(S, rk, x) \in 1 .. n
    BY CountRises
  <2> QED
    BY <2>1
<1> HIDE DEF f
<1>4. f \in Injection(S, 1 .. n)
  BY <1>2, <1>3 DEF Injection, IsInjective
<1>5. IsFiniteSet(1 .. n) /\ Cardinality(1 .. n) = n
  BY <1>1, FS_Interval
<1>6. f \in Surjection(S, 1 .. n)
  BY <1>4, <1>5, FS_Injection
<1>7. \E x \in S : f[x] = i
  BY <1>6 DEF Surjection
<1> QED
  BY <1>7 DEF f

\* The ranks of accounts and of slots.
Rank(a, k) == a * Top + k

\* Ranks order the slots by account, then by key.
LEMMA RankOrder ==
    ASSUME NEW a \in Nat, NEW b \in Nat, NEW j \in Nat, NEW k \in Nat, j < Top, k < Top
    PROVE  /\ Rank(a, j) \in Nat
           /\ Rank(a, j) < Rank(b, k) <=> a < b \/ (a = b /\ j < k)
           /\ Rank(a, j) <= Rank(b, k) <=> a < b \/ (a = b /\ j <= k)
           /\ Rank(a, j) = Rank(b, k) <=> a = b /\ j = k
<1>0. Top \in Nat
  BY StateListsAssumption
<1>1. ASSUME NEW c \in Nat, NEW d \in Nat, c < d
      PROVE  c * Top + Top <= d * Top
  <2>1. PICK e \in Nat : d = c + 1 + e
    <3>1. d - c - 1 \in Nat /\ d = c + 1 + (d - c - 1)
      BY <1>1
    <3> QED
      BY <3>1
  <2>2. d * Top = c * Top + Top + e * Top
    BY <1>0, <2>1
  <2>3. e * Top \in Nat /\ c * Top \in Nat
    BY <1>0
  <2> QED
    BY <1>0, <2>2, <2>3
<1>2. a * Top \in Nat /\ b * Top \in Nat
  BY <1>0
<1>3. CASE a < b
  BY <1>0, <1>1, <1>2, <1>3 DEF Rank
<1>4. CASE b < a
  BY <1>0, <1>1, <1>2, <1>4 DEF Rank
<1>5. CASE a = b
  BY <1>0, <1>2, <1>5 DEF Rank
<1> QED
  BY <1>3, <1>4, <1>5

\* Keys are numbers below Top, and finitely many.
LEMMA KeysTyped ==
    /\ \A a \in Accts : a \in Nat /\ 0 < a /\ a < Top
    /\ \A k \in Slots : k \in Nat /\ 0 < k /\ k < Top
    /\ IsFiniteSet(Accts) /\ IsFiniteSet(Slots) /\ IsFiniteSet(Accts \X Slots)
<1>1. /\ \A a \in Accts : a \in Nat /\ 0 < a /\ a < Top
      /\ \A k \in Slots : k \in Nat /\ 0 < k /\ k < Top
  BY StateListsAssumption
<1>2. IsFiniteSet(1 .. Top - 1)
  BY StateListsAssumption, FS_Interval
<1>3. IsFiniteSet(Accts) /\ IsFiniteSet(Slots)
  BY <1>2, StateListsAssumption, FS_Subset
<1> QED
  BY <1>1, <1>3, FS_Product

\* A state has finitely many accounts and slots.
LEMMA AccountsFinite ==
    ASSUME NEW s
    PROVE  /\ Accounts(s) \subseteq Accts /\ IsFiniteSet(Accounts(s)) /\ Cardinality(Accounts(s)) \in Nat
           /\ Stored(s) \subseteq Accts \X Slots /\ IsFiniteSet(Stored(s)) /\ Cardinality(Stored(s)) \in Nat
BY KeysTyped, FS_Subset, FS_CardinalityType DEF Accounts, Stored

\* The leaves are the accounts in their order.
LEMMA AccountLeaves ==
    ASSUME NEW s, NEW i \in 1 .. Cardinality(Accounts(s))
    PROVE  /\ AccountLeaf(s, i) \in Accounts(s)
           /\ Cardinality({b \in Accounts(s) : b <= AccountLeaf(s, i)}) = i
<1> DEFINE S == Accounts(s)
           rk == [a \in S |-> a]
<1>1. IsFiniteSet(S) /\ rk \in [S -> Nat] /\ \A x, y \in S : rk[x] = rk[y] => x = y
  BY AccountsFinite, KeysTyped
<1>2. \A x \in S : Counted(S, rk, x) = Cardinality({b \in S : b <= x})
  <2> SUFFICES ASSUME NEW x \in S PROVE {y \in S : rk[y] <= rk[x]} = {b \in S : b <= x}
    BY DEF Counted
  <2> QED
    OBVIOUS
<1> HIDE DEF rk
<1>3. PICK x \in S : Counted(S, rk, x) = i
  BY <1>1, CountReaches
<1>4. \E a \in Accounts(s) : Cardinality({b \in Accounts(s) : b <= a}) = i
  BY <1>2, <1>3
<1> QED
  BY <1>4, Zenon DEF AccountLeaf

\* The leaves of the state trie rise, and every account is one.
LEMMA AccountLeavesRise ==
    ASSUME NEW s
    PROVE  /\ \A i, j \in 1 .. Cardinality(Accounts(s)) : i < j => AccountLeaf(s, i) < AccountLeaf(s, j)
           /\ \A a \in Accounts(s) : \E i \in 1 .. Cardinality(Accounts(s)) : a = AccountLeaf(s, i)
<1> DEFINE S == Accounts(s)
           rk == [a \in S |-> a]
           C(x) == Cardinality({b \in S : b <= x})
<1>1. IsFiniteSet(S) /\ rk \in [S -> Nat] /\ \A x, y \in S : rk[x] = rk[y] => x = y
  BY AccountsFinite, KeysTyped
<1>2. \A x \in S : Counted(S, rk, x) = C(x)
  <2> SUFFICES ASSUME NEW x \in S PROVE {y \in S : rk[y] <= rk[x]} = {b \in S : b <= x}
    BY DEF Counted
  <2> QED
    OBVIOUS
<1>3. \A x, y \in S : x < y => C(x) < C(y)
  <2> SUFFICES ASSUME NEW x \in S, NEW y \in S, x < y PROVE C(x) < C(y)
    OBVIOUS
  <2>1. rk[x] < rk[y]
    OBVIOUS
  <2> HIDE DEF rk, C
  <2> QED
    BY <1>1, <1>2, <2>1, CountRises
<1>4. \A x \in S : C(x) \in 1 .. Cardinality(S)
  <2> HIDE DEF rk, C
  <2> QED
    BY <1>1, <1>2, CountRises
<1>5. \A x \in S : x \in Nat
  BY AccountsFinite, KeysTyped
<1>6. \A i \in 1 .. Cardinality(S) : AccountLeaf(s, i) \in S /\ C(AccountLeaf(s, i)) = i
  BY AccountLeaves
<1>7. Cardinality(S) \in Nat
  BY AccountsFinite
<1> HIDE DEF C, S
<1>8. ASSUME NEW i \in 1 .. Cardinality(S), NEW j \in 1 .. Cardinality(S), i < j
      PROVE  AccountLeaf(s, i) < AccountLeaf(s, j)
  <2> DEFINE x == AccountLeaf(s, i)
             y == AccountLeaf(s, j)
  <2>1. x \in S /\ y \in S /\ C(x) = i /\ C(y) = j
    BY <1>6
  <2> HIDE DEF x, y
  <2>2. x < y
    BY <1>3, <1>5, <1>7, <1>8, <2>1
  <2> QED
    BY <2>2 DEF x, y
<1>9. ASSUME NEW a \in S
      PROVE  \E i \in 1 .. Cardinality(S) : a = AccountLeaf(s, i)
  <2> DEFINE i == C(a)
             x == AccountLeaf(s, i)
  <2>1. i \in 1 .. Cardinality(S)
    BY <1>4
  <2>2. x \in S /\ C(x) = C(a)
    BY <1>6, <2>1
  <2> HIDE DEF x
  <2>3. x = a
    BY <1>3, <1>4, <1>5, <1>7, <2>2
  <2> QED
    BY <2>1, <2>3 DEF x
<1> QED
  BY <1>8, <1>9 DEF S

\* The slots of all accounts in their order.
PairRank(e) == Rank(e[1], e[2])

\* The ranks of slots are numbers below the special node's, in the order of the leaves.
LEMMA PairOrder ==
    ASSUME NEW e \in Accts \X Slots, NEW f \in Accts \X Slots
    PROVE  /\ e[1] \in Accts /\ e[2] \in Slots
           /\ PairRank(e) \in Nat /\ 0 < PairRank(e) /\ PairRank(e) < Rank(Top, 0)
           /\ PairRank(e) <= PairRank(f) <=> UpTo(e, f)
           /\ PairRank(e) = PairRank(f) => e = f
<1>1. PICK a \in Accts, j \in Slots : e = <<a, j>>
  OBVIOUS
<1>2. PICK b \in Accts, k \in Slots : f = <<b, k>>
  OBVIOUS
<1>3. /\ a \in Nat /\ b \in Nat /\ j \in Nat /\ k \in Nat /\ j < Top /\ k < Top /\ 0 < Top
      /\ a < Top /\ 0 < a
  BY KeysTyped, StateListsAssumption
<1>4. /\ Rank(a, j) \in Nat
      /\ Rank(a, j) <= Rank(b, k) <=> a < b \/ (a = b /\ j <= k)
      /\ Rank(a, j) = Rank(b, k) => a = b /\ j = k
  BY <1>3, RankOrder
<1>5. Rank(a, j) < Rank(Top, 0) /\ Rank(0, 0) < Rank(a, j) /\ Rank(0, 0) = 0
  <2>1. Top \in Nat
    BY StateListsAssumption
  <2>2. Rank(a, j) < Rank(Top, 0) /\ Rank(0, 0) < Rank(a, j)
    BY <1>3, <2>1, RankOrder
  <2>3. Rank(0, 0) = 0
    BY <2>1 DEF Rank
  <2> QED
    BY <2>2, <2>3
<1> QED
  BY <1>1, <1>2, <1>4, <1>5 DEF PairRank, UpTo

\* The i-th slot is a slot, with i slots up to it.
LEMMA SlotLeaves ==
    ASSUME NEW s, NEW i \in 1 .. Cardinality(Stored(s))
    PROVE  /\ SlotLeaf(s, i) \in Stored(s)
           /\ Cardinality({f \in Stored(s) : UpTo(f, SlotLeaf(s, i))}) = i
<1> DEFINE S == Stored(s)
           rk == [e \in S |-> PairRank(e)]
<1>0. S \subseteq Accts \X Slots /\ IsFiniteSet(S)
  BY AccountsFinite
<1>1. rk \in [S -> Nat] /\ \A x, y \in S : rk[x] = rk[y] => x = y
  BY <1>0, PairOrder
<1>2. \A x \in S : Counted(S, rk, x) = Cardinality({f \in S : UpTo(f, x)})
  <2> SUFFICES ASSUME NEW x \in S PROVE {y \in S : rk[y] <= rk[x]} = {f \in S : UpTo(f, x)}
    BY DEF Counted
  <2> QED
    BY <1>0, PairOrder
<1> HIDE DEF rk
<1>3. PICK x \in S : Counted(S, rk, x) = i
  BY <1>0, <1>1, CountReaches
<1>4. \E e \in Stored(s) : Cardinality({f \in Stored(s) : UpTo(f, e)}) = i
  BY <1>2, <1>3
<1> QED
  BY <1>4, Zenon DEF SlotLeaf

\* The slots rise, and every slot is a leaf.
LEMMA SlotLeavesRise ==
    ASSUME NEW s
    PROVE  /\ \A i, j \in 1 .. Cardinality(Stored(s)) :
                 i < j => PairRank(SlotLeaf(s, i)) < PairRank(SlotLeaf(s, j))
           /\ \A e \in Stored(s) : /\ Cardinality({f \in Stored(s) : UpTo(f, e)}) \in 1 .. Cardinality(Stored(s))
                                    /\ e = SlotLeaf(s, Cardinality({f \in Stored(s) : UpTo(f, e)}))
<1> DEFINE S == Stored(s)
           rk == [e \in S |-> PairRank(e)]
           C(x) == Cardinality({f \in S : UpTo(f, x)})
<1>0. S \subseteq Accts \X Slots /\ IsFiniteSet(S)
  BY AccountsFinite
<1>1. rk \in [S -> Nat] /\ \A x, y \in S : rk[x] = rk[y] => x = y
  BY <1>0, PairOrder
<1>2. \A x \in S : Counted(S, rk, x) = C(x)
  <2> SUFFICES ASSUME NEW x \in S PROVE {y \in S : rk[y] <= rk[x]} = {f \in S : UpTo(f, x)}
    BY DEF Counted
  <2> QED
    BY <1>0, PairOrder
<1>3. \A x, y \in S : PairRank(x) < PairRank(y) => C(x) < C(y)
  <2> SUFFICES ASSUME NEW x \in S, NEW y \in S, PairRank(x) < PairRank(y) PROVE C(x) < C(y)
    OBVIOUS
  <2>1. rk[x] < rk[y]
    OBVIOUS
  <2> HIDE DEF rk, C
  <2> QED
    BY <1>0, <1>1, <1>2, <2>1, CountRises
<1>4. \A x \in S : C(x) \in 1 .. Cardinality(S)
  <2> HIDE DEF rk, C
  <2> QED
    BY <1>0, <1>1, <1>2, CountRises
<1>5. \A x, y \in S : PairRank(x) \in Nat /\ (PairRank(x) = PairRank(y) => x = y)
  BY <1>0, PairOrder
<1>6. \A i \in 1 .. Cardinality(S) : SlotLeaf(s, i) \in S /\ C(SlotLeaf(s, i)) = i
  BY SlotLeaves
<1>7. Cardinality(S) \in Nat
  BY AccountsFinite
<1> HIDE DEF C, S
<1>8. ASSUME NEW i \in 1 .. Cardinality(S), NEW j \in 1 .. Cardinality(S), i < j
      PROVE  PairRank(SlotLeaf(s, i)) < PairRank(SlotLeaf(s, j))
  <2> DEFINE x == SlotLeaf(s, i)
             y == SlotLeaf(s, j)
  <2>1. x \in S /\ y \in S /\ C(x) = i /\ C(y) = j
    BY <1>6
  <2> HIDE DEF x, y
  <2>2. PairRank(x) < PairRank(y)
    BY <1>3, <1>5, <1>7, <1>8, <2>1
  <2> QED
    BY <2>2 DEF x, y
<1>9. ASSUME NEW e \in S
      PROVE  C(e) \in 1 .. Cardinality(S) /\ e = SlotLeaf(s, C(e))
  <2> DEFINE i == C(e)
             x == SlotLeaf(s, i)
  <2>1. i \in 1 .. Cardinality(S)
    BY <1>4
  <2>2. x \in S /\ C(x) = C(e)
    BY <1>6, <2>1
  <2> HIDE DEF x
  <2>3. x = e
    BY <1>3, <1>4, <1>5, <1>7, <2>2
  <2> QED
    BY <2>1, <2>3 DEF x
<1>10. \A e \in S : C(e) \in 1 .. Cardinality(S) /\ e = SlotLeaf(s, C(e))
  BY <1>9
<1>11. \A i, j \in 1 .. Cardinality(S) : i < j => PairRank(SlotLeaf(s, i)) < PairRank(SlotLeaf(s, j))
  BY <1>8
<1> QED
  BY <1>10, <1>11, Zenon DEF S, C

-----------------------------------------------------------------------------
(* The invariant of the lists.                                             *)

AccountNodes == [addr : Nat, val : Nat, root : {NoSlots}, ival : Nat, iroot : {NoSlots}, next : Nat]
SlotNodes == [addr : Nat, key : 0 .. Top - 1, val : Nat, ival : Nat, next : Nat]

AccountRanks(list) == [i \in 1 .. Len(list) |-> list[i].addr]
SlotRanks(list) == [i \in 1 .. Len(list) |-> Rank(list[i].addr, list[i].key)]
Nexts(list) == [i \in 1 .. Len(list) |-> list[i].next]

\* The linked nodes are the existing accounts.
AccountsHeld(list, s) ==
    /\ list \in Seq(AccountNodes)
    /\ Cycle(AccountRanks(list), Nexts(list), Live(list), Top)
    /\ \A i \in Live(list) \ {1} :
          list[i].addr \in Accts /\ Exists(s, list[i].addr) /\ list[i].val = s[list[i].addr].val
    /\ \A a \in Accts : Exists(s, a) => \E i \in Live(list) \ {1} : list[i].addr = a

\* The linked nodes are the slots that are not 0.
SlotsHeld(list, s) ==
    /\ list \in Seq(SlotNodes)
    /\ Cycle(SlotRanks(list), Nexts(list), Live(list), Rank(Top, 0))
    /\ \A i \in Live(list) \ {1} :
          /\ list[i].addr \in Accts /\ list[i].key \in Slots
          /\ list[i].val # 0 /\ list[i].val = s[list[i].addr].slots[list[i].key]
    /\ \A a \in Accts, k \in Slots :
          s[a].slots[k] # 0 => \E i \in Live(list) \ {1} : list[i].addr = a /\ list[i].key = k

\* The nodes loaded at the beginning keep their keys and initial payloads; those of
\* accounts with storage stay linked.
InitialKept ==
    /\ InitialAccounts <= Len(alist)
    /\ \A i \in 2 .. InitialAccounts :
          /\ alist[i].addr = AccountLeaf(pre, i - 1)
          /\ alist[i].ival = pre[alist[i].addr].val
          /\ alist[i].next = Deleted => pre[alist[i].addr].slots = NoSlots
    /\ InitialSlots <= Len(slist)
    /\ \A i \in 2 .. InitialSlots :
          /\ slist[i].addr = SlotLeaf(pre, i - 1)[1]
          /\ slist[i].key = SlotLeaf(pre, i - 1)[2]
          /\ slist[i].ival = pre[slist[i].addr].slots[slist[i].key]

ListsInv ==
    /\ pre \in States /\ cur \in States
    /\ AccountsHeld(alist, cur)
    /\ SlotsHeld(slist, cur)
    /\ InitialKept

\* The entries of a state; absent accounts have no slots.
LEMMA StatesTyped ==
    ASSUME NEW s \in States, NEW a \in Accts
    PROVE  /\ s[a].val \in Nat /\ s[a] = [val |-> s[a].val, slots |-> s[a].slots]
           /\ s[a].slots \in [Slots -> Nat]
           /\ Exists(s, a) => s[a].val \in Values /\ s[a].slots \in [Slots -> Values \cup {0}]
           /\ ~Exists(s, a) => s[a] = NoAccount
           /\ \A k \in Slots : s[a].slots[k] \in Nat /\ (s[a].slots[k] # 0 => Exists(s, a))
<1>1. s[a] \in {NoAccount} \cup [val : Values, slots : [Slots -> Values \cup {0}]]
  BY DEF States
<1>2. 0 \notin Values /\ Values \subseteq Nat
  BY StateListsAssumption
<1>3. CASE s[a] = NoAccount
  BY <1>3, <1>2 DEF NoAccount, NoSlots, Exists
<1>4. CASE s[a] \in [val : Values, slots : [Slots -> Values \cup {0}]]
  <2>1. PICK v \in Values, f \in [Slots -> Values \cup {0}] : s[a] = [val |-> v, slots |-> f]
    BY <1>4
  <2>2. s[a].val = v /\ s[a].slots = f
    BY <2>1
  <2>3. f \in [Slots -> Nat] /\ v \in Nat /\ v # 0
    <3>1. Values \cup {0} \subseteq Nat
      BY <1>2
    <3>2. \A k \in Slots : f[k] \in Nat
      BY <3>1
    <3>3. v \in Nat /\ v # 0
      BY <1>2
    <3> QED
      BY <3>2, <3>3
  <2> QED
    BY <2>1, <2>2, <2>3 DEF Exists
<1> QED
  BY <1>1, <1>3, <1>4

\* What is linked, read as a cycle.
LEMMA AccountCycle ==
    ASSUME NEW list, NEW s, AccountsHeld(list, s)
    PROVE  /\ Len(list) \in Nat /\ Live(list) \subseteq 1 .. Len(list)
           /\ 1 \in Live(list) /\ list[1].addr = Top
           /\ \A i \in 1 .. Len(list) : /\ list[i] \in AccountNodes
                                        /\ AccountRanks(list)[i] = list[i].addr
                                        /\ Nexts(list)[i] = list[i].next
                                        /\ list[i].addr \in Nat /\ list[i].next \in Nat
           /\ \A i \in Live(list) : list[i].next \in Live(list)
<1>1. list \in Seq(AccountNodes) /\ Cycle(AccountRanks(list), Nexts(list), Live(list), Top)
  BY DEF AccountsHeld
<1>2. Len(list) \in Nat /\ Live(list) \subseteq 1 .. Len(list)
  BY <1>1 DEF Live
<1>3. \A i \in 1 .. Len(list) : /\ list[i] \in AccountNodes
                                /\ AccountRanks(list)[i] = list[i].addr
                                /\ Nexts(list)[i] = list[i].next
                                /\ list[i].addr \in Nat /\ list[i].next \in Nat
  <2>1. \A i \in 1 .. Len(list) : list[i] \in AccountNodes
    BY <1>1
  <2>2. \A n \in AccountNodes : n.addr \in Nat /\ n.next \in Nat
    BY DEF AccountNodes
  <2>3. \A i \in 1 .. Len(list) : AccountRanks(list)[i] = list[i].addr /\ Nexts(list)[i] = list[i].next
    BY DEF AccountRanks, Nexts
  <2> QED
    BY <2>1, <2>2, <2>3
<1>4. 1 \in Live(list) /\ AccountRanks(list)[1] = Top /\ \A i \in Live(list) : Nexts(list)[i] \in Live(list)
  BY <1>1, CycleTypes
<1> QED
  BY <1>2, <1>3, <1>4

\* The same for the list of slots.
LEMMA SlotCycle ==
    ASSUME NEW list, NEW s, SlotsHeld(list, s)
    PROVE  /\ Len(list) \in Nat /\ Live(list) \subseteq 1 .. Len(list)
           /\ 1 \in Live(list) /\ list[1].addr = Top /\ list[1].key = 0
           /\ \A i \in 1 .. Len(list) : /\ list[i] \in SlotNodes
                                        /\ SlotRanks(list)[i] = Rank(list[i].addr, list[i].key)
                                        /\ Nexts(list)[i] = list[i].next
                                        /\ list[i].addr \in Nat /\ list[i].next \in Nat
                                        /\ list[i].key \in Nat /\ list[i].key < Top
           /\ \A i \in Live(list) : list[i].next \in Live(list)
<1>1. list \in Seq(SlotNodes) /\ Cycle(SlotRanks(list), Nexts(list), Live(list), Rank(Top, 0))
  BY DEF SlotsHeld
<1>2. Len(list) \in Nat /\ Live(list) \subseteq 1 .. Len(list)
  BY <1>1 DEF Live
<1>3. \A i \in 1 .. Len(list) : /\ list[i] \in SlotNodes
                                /\ SlotRanks(list)[i] = Rank(list[i].addr, list[i].key)
                                /\ Nexts(list)[i] = list[i].next
                                /\ list[i].addr \in Nat /\ list[i].next \in Nat
                                /\ list[i].key \in Nat /\ list[i].key < Top
  <2>1. \A i \in 1 .. Len(list) : list[i] \in SlotNodes
    BY <1>1
  <2>2. \A n \in SlotNodes : n.addr \in Nat /\ n.next \in Nat /\ n.key \in Nat /\ n.key < Top
    BY StateListsAssumption DEF SlotNodes
  <2>3. \A i \in 1 .. Len(list) : /\ SlotRanks(list)[i] = Rank(list[i].addr, list[i].key)
                                  /\ Nexts(list)[i] = list[i].next
    BY DEF SlotRanks, Nexts
  <2> QED
    BY <2>1, <2>2, <2>3
<1>4. 1 \in Live(list) /\ SlotRanks(list)[1] = Rank(Top, 0) /\ \A i \in Live(list) : Nexts(list)[i] \in Live(list)
  BY <1>1, CycleTypes
<1>5. list[1].addr = Top /\ list[1].key = 0
  <2>1. Rank(list[1].addr, list[1].key) = Rank(Top, 0) /\ 0 < Top /\ Top \in Nat
    BY <1>2, <1>3, <1>4, StateListsAssumption
  <2>2. list[1].addr \in Nat /\ list[1].key \in Nat /\ list[1].key < Top
    BY <1>2, <1>3, <1>4
  <2> DEFINE b == list[1].addr
             j == list[1].key
  <2>3. Rank(b, j) = Rank(Top, 0) /\ b \in Nat /\ j \in Nat /\ j < Top
    BY <2>1, <2>2
  <2> HIDE DEF b, j
  <2>4. b = Top /\ j = 0
    BY <2>1, <2>3, RankOrder
  <2> QED
    BY <2>4 DEF b, j
<1> QED
  BY <1>2, <1>3, <1>4, <1>5

-----------------------------------------------------------------------------
(* Hints.                                                                  *)

\* The prover's search for a place for x stops at one node only.
LEMMA OneGap ==
    ASSUME NEW r, NEW nx, NEW L, NEW t, Cycle(r, nx, L, t), NEW x \in Nat, x < t
    PROVE  \E p \in L :
              /\ {q \in L : (q = 1 \/ r[q] <= x) /\ x < r[nx[q]]} = {p}
              /\ Lo(r, p) <= x /\ x < r[nx[p]]
<1>1. PICK p \in L : Lo(r, p) <= x /\ x < r[nx[p]]
  BY GapExists
<1>2. \A q \in L : Lo(r, q) <= x <=> q = 1 \/ r[q] <= x
  BY DEF Lo
<1>3. \A q \in L : Lo(r, q) <= x /\ x < r[nx[q]] => q = p
  BY <1>1, GapUnique
<1> QED
  BY <1>1, <1>2, <1>3

\* In the gap no node has the rank x, unless it is the node before the gap.
LEMMA GapIsFree ==
    ASSUME NEW r, NEW nx, NEW L, NEW t, Cycle(r, nx, L, t), NEW x \in Nat, 0 < x,
           NEW p \in L, Lo(r, p) < x, x < r[nx[p]], NEW j \in L \ {1}
    PROVE  r[j] # x
<1> SUFFICES ASSUME r[j] = x PROVE FALSE
  OBVIOUS
<1>1. r[nx[p]] <= r[j]
  BY DEF Cycle
<1> QED
  BY <1>1, CycleTypes

\* Node p is the place of an account that is not in the list, or the account's node.
PlaceOfAccount(p, a) ==
    /\ p \in Live(alist) /\ ~Exists(cur, a)
    /\ p = 1 \/ alist[p].addr < a
    /\ Lo(AccountRanks(alist), p) < a
    /\ a < AccountRanks(alist)[Nexts(alist)[p]]

NodeOfAccount(p, a) ==
    /\ p \in Live(alist) \ {1} /\ Exists(cur, a)
    /\ alist[p].addr = a /\ alist[p].val = cur[a].val

\* The hint for an account is unique: its node, or the place for it.
LEMMA AccountHintIs ==
    ASSUME AccountsHeld(alist, cur), NEW a \in Accts
    PROVE  \E p \in Live(alist) :
              /\ AccountHints(a) = {p} /\ Hint(AccountHints(a)) = p
              /\ PlaceOfAccount(p, a) \/ NodeOfAccount(p, a)
<1> DEFINE r == AccountRanks(alist)
           nx == Nexts(alist)
           L == Live(alist)
<1>1. Cycle(r, nx, L, Top)
  BY DEF AccountsHeld
<1>2. a \in Nat /\ 0 < a /\ a < Top
  BY KeysTyped
<1>3. \A i \in L : r[i] = alist[i].addr /\ nx[i] = alist[i].next /\ nx[i] \in L /\ alist[i].addr \in Nat
  BY AccountCycle
<1> HIDE DEF r, nx
<1>4. PICK p \in L : /\ {q \in L : (q = 1 \/ r[q] <= a) /\ a < r[nx[q]]} = {p}
                     /\ Lo(r, p) <= a /\ a < r[nx[p]]
  BY <1>1, <1>2, OneGap
<1>5. AccountHints(a) = {p}
  <2>1. \A q \in L : ((q = 1 \/ r[q] <= a) /\ a < r[nx[q]]) <=>
                     ((q = 1 \/ alist[q].addr <= a) /\ a < alist[alist[q].next].addr)
    BY <1>3
  <2> QED
    BY <1>4, <2>1 DEF AccountHints
<1>6. Hint(AccountHints(a)) = p
  BY <1>5 DEF Hint
<1>7. CASE p = 1 \/ alist[p].addr < a
  <2>1. Lo(r, p) < a
    BY <1>2, <1>3, <1>7 DEF Lo
  <2>2. ~Exists(cur, a)
    <3> SUFFICES ASSUME NEW i \in L \ {1}, alist[i].addr = a PROVE FALSE
      BY DEF AccountsHeld
    <3>1. r[i] = a
      BY <1>3
    <3> QED
      BY <3>1, <1>1, <1>2, <1>4, <2>1, GapIsFree
  <2>3. PlaceOfAccount(p, a)
    BY <1>7, <1>4, <2>1, <2>2 DEF PlaceOfAccount, r, nx
  <2> QED
    BY <1>5, <1>6, <2>3
<1>8. CASE ~(p = 1 \/ alist[p].addr < a)
  <2>1. p # 1 /\ alist[p].addr = a
    BY <1>2, <1>3, <1>4, <1>8 DEF Lo
  <2>2. NodeOfAccount(p, a)
    BY <2>1 DEF NodeOfAccount, AccountsHeld
  <2> QED
    BY <1>5, <1>6, <2>2
<1> QED
  BY <1>7, <1>8

\* The hint for removing an account is the node before its own.
LEMMA RemoveAccountHintIs ==
    ASSUME AccountsHeld(alist, cur), NEW a \in Accts, Exists(cur, a)
    PROVE  \E p \in Live(alist) :
              /\ RemoveAccountHints(a) = {p} /\ Hint(RemoveAccountHints(a)) = p
              /\ NodeOfAccount(alist[p].next, a)
<1> DEFINE r == AccountRanks(alist)
           nx == Nexts(alist)
           L == Live(alist)
<1>1. Cycle(r, nx, L, Top)
  BY DEF AccountsHeld
<1>2. PICK j \in L \ {1} : alist[j].addr = a
  BY DEF AccountsHeld
<1>3. \A i \in L : r[i] = alist[i].addr /\ nx[i] = alist[i].next /\ nx[i] \in L /\ alist[i].addr \in Nat
  BY AccountCycle
<1> HIDE DEF r, nx
<1>4. PICK p \in L : nx[p] = j /\ \A q \in L : r[nx[q]] = r[j] => q = p
  BY <1>1, <1>2, BeforeExists
<1>5. RemoveAccountHints(a) = {p}
  <2>1. \A q \in L : alist[alist[q].next].addr = a <=> r[nx[q]] = r[j]
    BY <1>2, <1>3
  <2> QED
    BY <1>4, <2>1 DEF RemoveAccountHints
<1>6. Hint(RemoveAccountHints(a)) = p
  BY <1>5 DEF Hint
<1>7. NodeOfAccount(alist[p].next, a)
  BY <1>2, <1>3, <1>4 DEF NodeOfAccount, AccountsHeld
<1> QED
  BY <1>5, <1>6, <1>7

PlaceOfSlot(p, a, k) ==
    /\ p \in Live(slist) /\ cur[a].slots[k] = 0
    /\ p = 1 \/ Below(slist[p], a, k)
    /\ Lo(SlotRanks(slist), p) < Rank(a, k)
    /\ Rank(a, k) < SlotRanks(slist)[Nexts(slist)[p]]

NodeOfSlot(p, a, k) ==
    /\ p \in Live(slist) \ {1} /\ cur[a].slots[k] # 0
    /\ slist[p].addr = a /\ slist[p].key = k /\ slist[p].val = cur[a].slots[k]

\* Comparing a node with a slot is comparing ranks.
LEMMA SlotOrder ==
    ASSUME SlotsHeld(slist, cur), NEW i \in 1 .. Len(slist), NEW a \in Nat, NEW k \in Nat, k < Top
    PROVE  /\ Below(slist[i], a, k) <=> SlotRanks(slist)[i] < Rank(a, k)
           /\ Above(slist[i], a, k) <=> Rank(a, k) < SlotRanks(slist)[i]
           /\ slist[i].addr = a /\ slist[i].key = k <=> SlotRanks(slist)[i] = Rank(a, k)
           /\ SlotRanks(slist)[i] \in Nat /\ Rank(a, k) \in Nat
<1> DEFINE b == slist[i].addr
           j == slist[i].key
<1>1. SlotRanks(slist)[i] = Rank(b, j) /\ b \in Nat /\ j \in Nat /\ j < Top
  BY SlotCycle
<1>2. /\ Below(slist[i], a, k) <=> b < a \/ (b = a /\ j < k)
      /\ Above(slist[i], a, k) <=> b > a \/ (b = a /\ j > k)
  BY DEF Below, Above
<1> HIDE DEF b, j
<1>3. /\ Rank(b, j) < Rank(a, k) <=> b < a \/ (b = a /\ j < k)
      /\ Rank(a, k) < Rank(b, j) <=> a < b \/ (a = b /\ k < j)
      /\ Rank(b, j) = Rank(a, k) <=> b = a /\ j = k
      /\ Rank(a, k) \in Nat /\ Rank(b, j) \in Nat
  <2>1. /\ Rank(b, j) < Rank(a, k) <=> b < a \/ (b = a /\ j < k)
        /\ Rank(b, j) \in Nat
    BY <1>1, RankOrder
  <2>2. /\ Rank(a, k) < Rank(b, j) <=> a < b \/ (a = b /\ k < j)
        /\ Rank(a, k) \in Nat
    BY <1>1, RankOrder
  <2>3. Rank(b, j) = Rank(a, k) <=> b = a /\ j = k
    BY <1>1, <2>1, <2>2
  <2> QED
    BY <2>1, <2>2, <2>3
<1>4. b > a <=> a < b
  BY <1>1
<1>5. j > k <=> k < j
  BY <1>1
<1>6. /\ Below(slist[i], a, k) <=> SlotRanks(slist)[i] < Rank(a, k)
      /\ Above(slist[i], a, k) <=> Rank(a, k) < SlotRanks(slist)[i]
      /\ SlotRanks(slist)[i] \in Nat /\ Rank(a, k) \in Nat
  BY <1>1, <1>2, <1>3, <1>4, <1>5
<1>7. b = a /\ j = k <=> SlotRanks(slist)[i] = Rank(a, k)
  BY <1>1, <1>3
<1> QED
  BY <1>6, <1>7 DEF b, j

\* The rank of a slot lies below the special node's.
LEMMA SlotRankTyped ==
    ASSUME NEW a \in Accts, NEW k \in Nat, k < Top
    PROVE  /\ a \in Nat /\ Rank(a, k) \in Nat
           /\ 0 < Rank(a, k) /\ Rank(a, k) < Rank(Top, 0)
<1>1. a \in Nat /\ 0 < a /\ a < Top /\ Top \in Nat /\ 0 < Top
  BY KeysTyped, StateListsAssumption
<1>2. Rank(a, k) < Rank(Top, 0) /\ Rank(a, k) \in Nat
  BY <1>1, RankOrder
<1>3. Rank(0, 0) < Rank(a, k)
  BY <1>1, RankOrder
<1>4. Rank(0, 0) = 0
  BY <1>1 DEF Rank
<1> QED
  BY <1>1, <1>2, <1>3, <1>4

\* The hint for a slot is unique: its node, or the place for it.
LEMMA SlotHintIs ==
    ASSUME SlotsHeld(slist, cur), NEW a \in Accts, NEW k \in Slots
    PROVE  \E p \in Live(slist) :
              /\ SlotHints(a, k) = {p} /\ Hint(SlotHints(a, k)) = p
              /\ PlaceOfSlot(p, a, k) \/ (NodeOfSlot(p, a, k) /\ ~Below(slist[p], a, k))
<1> DEFINE r == SlotRanks(slist)
           nx == Nexts(slist)
           L == Live(slist)
           x == Rank(a, k)
<1>1. Cycle(r, nx, L, Rank(Top, 0))
  BY DEF SlotsHeld
<1>2. a \in Nat /\ k \in Nat /\ k < Top
  BY KeysTyped
<1>3. x \in Nat /\ 0 < x /\ x < Rank(Top, 0)
  BY <1>2, SlotRankTyped
<1>4. \A i \in L : nx[i] = slist[i].next /\ nx[i] \in L /\ i \in 1 .. Len(slist)
  BY SlotCycle
<1>5. \A i \in L : /\ Below(slist[i], a, k) <=> r[i] < x
                   /\ Above(slist[i], a, k) <=> x < r[i]
                   /\ slist[i].addr = a /\ slist[i].key = k <=> r[i] = x
                   /\ r[i] \in Nat
  <2> SUFFICES ASSUME NEW i \in L
               PROVE  /\ Below(slist[i], a, k) <=> r[i] < x
                      /\ Above(slist[i], a, k) <=> x < r[i]
                      /\ slist[i].addr = a /\ slist[i].key = k <=> r[i] = x
                      /\ r[i] \in Nat
    OBVIOUS
  <2>1. i \in 1 .. Len(slist)
    BY <1>4
  <2> HIDE DEF L
  <2> QED
    BY <1>2, <2>1, SlotOrder
<1> HIDE DEF r, nx, x
<1>6. PICK p \in L : /\ {q \in L : (q = 1 \/ r[q] <= x) /\ x < r[nx[q]]} = {p}
                     /\ Lo(r, p) <= x /\ x < r[nx[p]]
  BY <1>1, <1>3, OneGap
<1>7. SlotHints(a, k) = {p}
  <2>1. \A q \in L : ((q = 1 \/ r[q] <= x) /\ x < r[nx[q]]) <=>
                     ((q = 1 \/ ~Above(slist[q], a, k)) /\ Above(slist[slist[q].next], a, k))
    BY <1>3, <1>4, <1>5
  <2> QED
    BY <1>6, <2>1 DEF SlotHints
<1>8. Hint(SlotHints(a, k)) = p
  BY <1>7 DEF Hint
<1>9. CASE p = 1 \/ Below(slist[p], a, k)
  <2>1. Lo(r, p) < x
    BY <1>3, <1>5, <1>9 DEF Lo
  <2>2. cur[a].slots[k] = 0
    <3> SUFFICES ASSUME NEW i \in L \ {1}, slist[i].addr = a, slist[i].key = k PROVE FALSE
      BY DEF SlotsHeld
    <3>1. r[i] = x
      BY <1>5
    <3> QED
      BY <3>1, <1>1, <1>3, <1>6, <2>1, GapIsFree
  <2>3. PlaceOfSlot(p, a, k)
    BY <1>9, <1>6, <2>1, <2>2 DEF PlaceOfSlot, r, nx, x
  <2> QED
    BY <1>7, <1>8, <2>3
<1>10. CASE ~(p = 1 \/ Below(slist[p], a, k))
  <2>1. p # 1 /\ slist[p].addr = a /\ slist[p].key = k
    BY <1>3, <1>5, <1>6, <1>10 DEF Lo
  <2>2. NodeOfSlot(p, a, k)
    BY <2>1 DEF NodeOfSlot, SlotsHeld
  <2> QED
    BY <1>7, <1>8, <1>10, <2>2
<1> QED
  BY <1>9, <1>10

\* The hint for removing a slot is the node before its own.
LEMMA RemoveSlotHintIs ==
    ASSUME SlotsHeld(slist, cur), NEW a \in Accts, NEW k \in Slots, cur[a].slots[k] # 0
    PROVE  \E p \in Live(slist) :
              /\ RemoveSlotHints(a, k) = {p} /\ Hint(RemoveSlotHints(a, k)) = p
              /\ NodeOfSlot(slist[p].next, a, k)
<1> DEFINE r == SlotRanks(slist)
           nx == Nexts(slist)
           L == Live(slist)
           x == Rank(a, k)
<1>1. Cycle(r, nx, L, Rank(Top, 0))
  BY DEF SlotsHeld
<1>2. a \in Nat /\ k \in Nat /\ k < Top
  BY KeysTyped
<1>3. PICK j \in L \ {1} : slist[j].addr = a /\ slist[j].key = k
  BY DEF SlotsHeld
<1>4. \A i \in L : nx[i] = slist[i].next /\ nx[i] \in L /\ i \in 1 .. Len(slist)
  BY SlotCycle
<1>5. \A i \in L : slist[i].addr = a /\ slist[i].key = k <=> r[i] = x
  BY <1>2, <1>4, SlotOrder
<1> HIDE DEF r, nx, x
<1>6. PICK p \in L : nx[p] = j /\ \A q \in L : r[nx[q]] = r[j] => q = p
  BY <1>1, <1>3, BeforeExists
<1>7. RemoveSlotHints(a, k) = {p}
  <2>1. \A q \in L : (slist[slist[q].next].addr = a /\ slist[slist[q].next].key = k) <=> r[nx[q]] = r[j]
    BY <1>3, <1>4, <1>5
  <2> QED
    BY <1>6, <2>1 DEF RemoveSlotHints
<1>8. Hint(RemoveSlotHints(a, k)) = p
  BY <1>7 DEF Hint
<1>9. NodeOfSlot(slist[p].next, a, k)
  BY <1>3, <1>4, <1>6 DEF NodeOfSlot, SlotsHeld
<1> QED
  BY <1>7, <1>8, <1>9

\* The place before the slots of an account.
LEMMA AddressSlotsHintIs ==
    ASSUME SlotsHeld(slist, cur), NEW a \in Accts
    PROVE  \E p \in Live(slist) :
              /\ AddressSlotsHints(a) = {p} /\ Hint(AddressSlotsHints(a)) = p
              /\ Lo(SlotRanks(slist), p) <= Rank(a, 0)
              /\ Rank(a, 0) < SlotRanks(slist)[Nexts(slist)[p]]
              /\ p = 1 \/ slist[p].addr # a
<1> DEFINE r == SlotRanks(slist)
           nx == Nexts(slist)
           L == Live(slist)
           x == Rank(a, 0)
<1>1. Cycle(r, nx, L, Rank(Top, 0))
  BY DEF SlotsHeld
<1>2. a \in Nat /\ 0 < Top /\ a < Top
  BY KeysTyped, StateListsAssumption
<1>3. x \in Nat /\ 0 < x /\ x < Rank(Top, 0)
  BY <1>2, SlotRankTyped
<1>4. \A i \in L : /\ nx[i] = slist[i].next /\ nx[i] \in L /\ i \in 1 .. Len(slist)
                   /\ slist[i].addr \in Nat /\ slist[i].key \in Nat
  BY SlotCycle
<1>5. \A i \in L : /\ Above(slist[i], a, 0) <=> x < r[i]
                   /\ r[i] \in Nat
  BY <1>2, <1>4, SlotOrder
<1>6. \A i \in L : Above(slist[i], a, 0) <=> slist[i].addr >= a
  <2> SUFFICES ASSUME NEW i \in L PROVE Above(slist[i], a, 0) <=> slist[i].addr >= a
    OBVIOUS
  <2>1. CASE i = 1
    <3>1. slist[i].addr = Top
      BY <2>1, SlotCycle
    <3> QED
      BY <3>1, <1>2, <1>4, StateListsAssumption DEF Above
  <2>2. CASE i # 1
    <3>1. slist[i].key > 0
      BY <2>2, KeysTyped DEF SlotsHeld
    <3> QED
      BY <3>1, <1>2, <1>4 DEF Above
  <2> QED
    BY <2>1, <2>2
<1> HIDE DEF r, nx, x
<1>7. PICK p \in L : /\ {q \in L : (q = 1 \/ r[q] <= x) /\ x < r[nx[q]]} = {p}
                     /\ Lo(r, p) <= x /\ x < r[nx[p]]
  BY <1>1, <1>3, OneGap
<1>8. \A q \in L : r[q] <= x <=> slist[q].addr < a
  BY <1>2, <1>3, <1>4, <1>5, <1>6
<1>9. AddressSlotsHints(a) = {p}
  <2>1. \A q \in L : ((q = 1 \/ r[q] <= x) /\ x < r[nx[q]]) <=>
                     ((q = 1 \/ slist[q].addr < a) /\ slist[slist[q].next].addr >= a)
    BY <1>4, <1>5, <1>6, <1>8
  <2> QED
    BY <1>7, <2>1 DEF AddressSlotsHints
<1>10. Hint(AddressSlotsHints(a)) = p
  BY <1>9 DEF Hint
<1>11. p = 1 \/ slist[p].addr # a
  <2>1. p = 1 \/ r[p] <= x
    BY <1>7
  <2> QED
    BY <2>1, <1>2, <1>4, <1>8
<1> QED
  BY <1>7, <1>9, <1>10, <1>11 DEF r, nx, x

\* What the kernel reads, and what the prover finds.
LEMMA ReadsAndHints ==
    ASSUME ListsInv
    PROVE  ReadsRight /\ HintsUnique
<1>1. AccountsHeld(alist, cur) /\ SlotsHeld(slist, cur)
  BY DEF ListsInv
<1>2. ASSUME NEW a \in Accts
      PROVE  /\ search_account(a) = 0 <=> ~Exists(cur, a)
             /\ search_account(a) # 0 => alist[search_account(a)].val = cur[a].val
             /\ Cardinality(AccountHints(a)) = 1
  <2>1. PICK p \in Live(alist) : /\ AccountHints(a) = {p} /\ Hint(AccountHints(a)) = p
                                 /\ PlaceOfAccount(p, a) \/ NodeOfAccount(p, a)
    BY <1>1, AccountHintIs
  <2>2. Cardinality(AccountHints(a)) = 1
    BY <2>1, FS_Singleton
  <2>3. CASE PlaceOfAccount(p, a)
    <3>1. search_account(a) = 0 /\ ~Exists(cur, a)
      BY <2>1, <2>3 DEF search_account, PlaceOfAccount
    <3> QED
      BY <3>1, <2>2
  <2>4. CASE NodeOfAccount(p, a)
    <3>1. a \in Nat /\ p \in Nat /\ p # 0
      BY <1>1, KeysTyped, AccountCycle
    <3>2. search_account(a) = p /\ Exists(cur, a) /\ alist[p].val = cur[a].val
      BY <2>1, <2>4, <3>1 DEF search_account, NodeOfAccount
    <3> QED
      BY <2>2, <3>1, <3>2
  <2> QED
    BY <2>1, <2>3, <2>4
<1>3. ASSUME NEW a \in Accts, NEW k \in Slots
      PROVE  /\ search_slot(a, k) = cur[a].slots[k]
             /\ Cardinality(SlotHints(a, k)) = 1
  <2>1. PICK p \in Live(slist) : /\ SlotHints(a, k) = {p} /\ Hint(SlotHints(a, k)) = p
                                 /\ PlaceOfSlot(p, a, k) \/ (NodeOfSlot(p, a, k) /\ ~Below(slist[p], a, k))
    BY <1>1, SlotHintIs
  <2>2. Cardinality(SlotHints(a, k)) = 1
    BY <2>1, FS_Singleton
  <2>3. CASE PlaceOfSlot(p, a, k)
    BY <2>1, <2>2, <2>3 DEF search_slot, PlaceOfSlot
  <2>4. CASE NodeOfSlot(p, a, k) /\ ~Below(slist[p], a, k)
    BY <2>1, <2>2, <2>4 DEF search_slot, NodeOfSlot
  <2> QED
    BY <2>1, <2>3, <2>4
<1>4. ASSUME NEW a \in Accts, Exists(cur, a)
      PROVE  Cardinality(RemoveAccountHints(a)) = 1
  BY <1>1, <1>4, RemoveAccountHintIs, FS_Singleton
<1>5. ASSUME NEW a \in Accts
      PROVE  Cardinality(AddressSlotsHints(a)) = 1
  BY <1>1, AddressSlotsHintIs, FS_Singleton
<1>6. ASSUME NEW a \in Accts, NEW k \in Slots, cur[a].slots[k] # 0
      PROVE  Cardinality(RemoveSlotHints(a, k)) = 1
  <2>1. PICK p \in Live(slist) : RemoveSlotHints(a, k) = {p}
    BY <1>1, <1>6, RemoveSlotHintIs
  <2> QED
    BY <2>1, FS_Singleton
<1> QED
  BY <1>2, <1>3, <1>4, <1>5, <1>6 DEF ReadsRight, HintsUnique

-----------------------------------------------------------------------------
(* Linking and unlinking nodes.                                            *)

Redirected(n, m) == [n EXCEPT !.next = m]

\* A node with another successor is otherwise the same.
LEMMA AccountRedirected ==
    ASSUME NEW n \in AccountNodes, NEW m \in Nat
    PROVE  LET d == Redirected(n, m)
           IN  /\ d \in AccountNodes /\ d.next = m /\ d.addr = n.addr /\ d.val = n.val /\ d.ival = n.ival
BY DEF AccountNodes, Redirected

\* The same for the node of a slot.
LEMMA SlotRedirected ==
    ASSUME NEW n \in SlotNodes, NEW m \in Nat
    PROVE  LET d == Redirected(n, m)
           IN  /\ d \in SlotNodes /\ d.next = m /\ d.addr = n.addr /\ d.key = n.key
               /\ d.val = n.val /\ d.ival = n.ival
BY DEF SlotNodes, Redirected

\* Node n is in the set, and the set is closed under redirecting.
Redirectable(Nodes) ==
    \A n \in Nodes, m \in Nat : n.next \in Nat /\ Redirected(n, m) \in Nodes /\ Redirected(n, m).next = m

\* Both kinds of nodes can be redirected.
LEMMA NodesRedirectable == Redirectable(AccountNodes) /\ Redirectable(SlotNodes)
<1>1. Redirectable(AccountNodes)
  <2>1. \A n \in AccountNodes : n.next \in Nat
    BY DEF AccountNodes
  <2> QED
    BY <2>1, AccountRedirected DEF Redirectable
<1>2. Redirectable(SlotNodes)
  <2>1. \A n \in SlotNodes : n.next \in Nat
    BY DEF SlotNodes
  <2> QED
    BY <2>1, SlotRedirected DEF Redirectable
<1> QED
  BY <1>1, <1>2

\* A list that differs from another by a link, node by node.
LinkOf(list, p, node, new) ==
    LET n == Len(list) + 1
    IN  /\ Len(new) = n
        /\ \A i \in 1 .. Len(list) : i # p => new[i] = list[i]
        /\ new[p] = Redirected(list[p], n)
        /\ new[n] = Redirected(node, list[p].next)
        /\ Live(new) = Live(list) \cup {n}

\* What Link does to the list, node by node.
LEMMA LinkIs ==
    ASSUME NEW Nodes, Redirectable(Nodes), NEW list \in Seq(Nodes), NEW p \in Live(list),
           NEW node \in Nodes
    PROVE  Link(list, p, node) \in Seq(Nodes) /\ LinkOf(list, p, node, Link(list, p, node))
<1> DEFINE n == Len(list) + 1
           mid == [list EXCEPT ![p] = Redirected(list[p], n)]
           lastNode == Redirected(node, list[p].next)
           new == Link(list, p, node)
<1>1. Len(list) \in Nat /\ p \in 1 .. Len(list) /\ list[p].next # Deleted
  BY DEF Live
<1>2. list[p] \in Nodes /\ list[p].next \in Nat /\ Redirected(list[p], n) \in Nodes
  <2>1. list[p] \in Nodes
    BY <1>1
  <2>2. n \in Nat
    BY <1>1
  <2> QED
    BY <2>1, <2>2 DEF Redirectable
<1>3. lastNode \in Nodes /\ lastNode.next = list[p].next
  BY <1>2 DEF Redirectable
<1>4. Redirected(list[p], n).next = n
  <2>1. n \in Nat
    BY <1>1
  <2> HIDE DEF n
  <2> QED
    BY <1>2, <2>1 DEF Redirectable
<1>5. new = Append(mid, lastNode)
  BY DEF Link, Redirected
<1> HIDE DEF lastNode, new
<1>6. mid \in Seq(Nodes) /\ Len(mid) = Len(list)
  <2> DEFINE d == Redirected(list[p], n)
  <2>1. d \in Nodes
    BY <1>2
  <2> HIDE DEF d
  <2>2. [list EXCEPT ![p] = d] \in Seq(Nodes) /\ Len([list EXCEPT ![p] = d]) = Len(list)
    BY <1>1, <2>1
  <2> QED
    BY <2>2 DEF d
<1>7. mid[p] = Redirected(list[p], n) /\ \A i \in 1 .. Len(list) : i # p => mid[i] = list[i]
  BY <1>1
<1> HIDE DEF mid
<1>8. /\ new \in Seq(Nodes) /\ Len(new) = n /\ new[n] = lastNode
      /\ \A i \in 1 .. Len(list) : new[i] = mid[i]
  BY <1>3, <1>5, <1>6, <1>1
<1>9. /\ new[p] = Redirected(list[p], n)
      /\ \A i \in 1 .. Len(list) : i # p => new[i] = list[i]
  BY <1>1, <1>7, <1>8
<1>10. Live(new) = Live(list) \cup {n}
  <2>1. \A i \in 1 .. n : i \in 1 .. Len(list) \/ i = n
    BY <1>1
  <2>2. new[n].next # Deleted
    BY <1>1, <1>3, <1>8
  <2>3. new[p].next # Deleted
    BY <1>1, <1>4, <1>9 DEF Deleted
  <2>4. \A i \in 1 .. Len(list) : new[i].next # Deleted <=> list[i].next # Deleted
    BY <1>1, <1>9, <2>3
  <2>5. n \in 1 .. n /\ 1 .. Len(list) \subseteq 1 .. n
    BY <1>1
  <2>6. Live(new) = {i \in 1 .. n : new[i].next # Deleted} /\ Live(list) = {i \in 1 .. Len(list) : list[i].next # Deleted}
    BY <1>8 DEF Live
  <2> HIDE DEF n
  <2> QED
    BY <2>1, <2>2, <2>4, <2>5, <2>6
<1> QED
  BY <1>8, <1>9, <1>10 DEF LinkOf, new, lastNode

UnlinkOf(list, p, new) ==
    LET n == list[p].next
    IN  /\ Len(new) = Len(list)
        /\ \A i \in 1 .. Len(list) : i # p /\ i # n => new[i] = list[i]
        /\ new[p] = Redirected(list[p], list[n].next)
        /\ new[n] = Redirected(list[n], Deleted)
        /\ Live(new) = Live(list) \ {n}

\* What Unlink does to the list, node by node.
LEMMA UnlinkIs ==
    ASSUME NEW Nodes, Redirectable(Nodes), NEW list \in Seq(Nodes), NEW p \in Live(list),
           list[p].next \in Live(list), list[p].next # p
    PROVE  Unlink(list, p) \in Seq(Nodes) /\ UnlinkOf(list, p, Unlink(list, p))
<1> DEFINE n == list[p].next
           m == list[n].next
           new == Unlink(list, p)
<1>1. /\ Len(list) \in Nat /\ p \in 1 .. Len(list) /\ n \in 1 .. Len(list) /\ n # p
      /\ m # Deleted /\ list[p] \in Nodes /\ list[n] \in Nodes
  BY DEF Live
<1>2. m \in Nat /\ Redirected(list[p], m) \in Nodes /\ Redirected(list[p], m).next = m
  BY <1>1 DEF Redirectable
<1>3. Redirected(list[n], Deleted) \in Nodes /\ Redirected(list[n], Deleted).next = Deleted
  BY <1>1 DEF Redirectable, Deleted
<1> HIDE DEF m
<1>4. new = [[list EXCEPT ![p] = Redirected(list[p], m)] EXCEPT ![n] = Redirected(list[n], Deleted)]
  <2>1. new = [[list EXCEPT ![p] = Redirected(list[p], m)]
                 EXCEPT ![n] = Redirected([list EXCEPT ![p] = Redirected(list[p], m)][n], Deleted)]
    BY <1>1 DEF Unlink, Redirected, m
  <2>2. [list EXCEPT ![p] = Redirected(list[p], m)][n] = list[n]
    BY <1>1
  <2> QED
    BY <2>1, <2>2
<1> DEFINE mid == [list EXCEPT ![p] = Redirected(list[p], m)]
<1>5. mid \in Seq(Nodes) /\ Len(mid) = Len(list) /\ mid[p] = Redirected(list[p], m)
      /\ \A i \in 1 .. Len(list) : i # p => mid[i] = list[i]
  BY <1>1, <1>2
<1> HIDE DEF mid, new
<1>6. new = [mid EXCEPT ![n] = Redirected(list[n], Deleted)]
  BY <1>4 DEF mid
<1>7. new \in Seq(Nodes) /\ Len(new) = Len(list) /\ new[n] = Redirected(list[n], Deleted)
      /\ \A i \in 1 .. Len(list) : i # n => new[i] = mid[i]
  BY <1>1, <1>3, <1>5, <1>6
<1>8. /\ new[p] = Redirected(list[p], m)
      /\ \A i \in 1 .. Len(list) : i # p /\ i # n => new[i] = list[i]
  BY <1>1, <1>5, <1>7
<1>9. Live(new) = Live(list) \ {n}
  <2>1. new[n].next = Deleted /\ new[p].next # Deleted
    BY <1>1, <1>2, <1>3, <1>7, <1>8
  <2>2. \A i \in 1 .. Len(list) : i # n => (new[i].next # Deleted <=> list[i].next # Deleted)
    <3>1. list[p].next # Deleted
      BY DEF Live
    <3> QED
      BY <2>1, <1>8, <3>1
  <2>3. Live(new) = {i \in 1 .. Len(list) : new[i].next # Deleted} /\ Live(list) = {i \in 1 .. Len(list) : list[i].next # Deleted}
    BY <1>7 DEF Live
  <2> HIDE DEF n
  <2> QED
    BY <2>1, <2>2, <2>3
<1> QED
  BY <1>7, <1>8, <1>9 DEF UnlinkOf, new, m

-----------------------------------------------------------------------------
(* The operations on the list of accounts.                                 *)

\* All nodes stay where they are, with their keys and their initial payloads.
AccountsStay(list, new) ==
    /\ Len(list) <= Len(new)
    /\ \A i \in 1 .. Len(list) : new[i].addr = list[i].addr /\ new[i].ival = list[i].ival

WithPayload(s, a, v) == [s EXCEPT ![a].val = v]

\* A state with another payload for one account.
LEMMA WithPayloadIs ==
    ASSUME NEW s \in States, NEW a \in Accts, NEW v \in Values
    PROVE  LET t == WithPayload(s, a, v)
           IN  /\ t[a].val = v /\ t[a].slots = s[a].slots /\ Exists(t, a)
               /\ \A b \in Accts : b # a => t[b] = s[b]
               /\ \A b \in Accts : t[b].slots = s[b].slots
               /\ t \in States
<1> DEFINE t == WithPayload(s, a, v)
<1>0. s \in [Accts -> {NoAccount} \cup [val : Values, slots : [Slots -> Values \cup {0}]]]
  BY DEF States
<1>1. s[a] = [val |-> s[a].val, slots |-> s[a].slots] /\ s[a].slots \in [Slots -> Values \cup {0}]
  <2>1. CASE Exists(s, a)
    BY <2>1, StatesTyped
  <2>2. CASE ~Exists(s, a)
    <3>1. s[a] = NoAccount
      BY <2>2, StatesTyped
    <3> QED
      BY <3>1 DEF NoAccount, NoSlots
  <2> QED
    BY <2>1, <2>2
<1>2. t[a] = [val |-> v, slots |-> s[a].slots] /\ \A b \in Accts : b # a => t[b] = s[b]
  BY <1>0, <1>1 DEF WithPayload
<1>3. v # 0
  BY StateListsAssumption
<1>4. t[a] \in [val : Values, slots : [Slots -> Values \cup {0}]]
  BY <1>1, <1>2
<1>5. t \in States
  <2>1. DOMAIN t = Accts /\ t = [b \in Accts |-> t[b]]
    BY <1>0 DEF WithPayload
  <2>2. \A b \in Accts : t[b] \in {NoAccount} \cup [val : Values, slots : [Slots -> Values \cup {0}]]
    BY <1>0, <1>2, <1>4
  <2> HIDE DEF t
  <2> QED
    BY <2>1, <2>2 DEF States
<1>6. t[a].val = v /\ t[a].slots = s[a].slots
  BY <1>2
<1> HIDE DEF t
<1>7. /\ t[a].val = v /\ t[a].slots = s[a].slots /\ Exists(t, a)
      /\ \A b \in Accts : b # a => t[b] = s[b]
      /\ \A b \in Accts : t[b].slots = s[b].slots
  BY <1>2, <1>3, <1>6 DEF Exists
<1> QED
  BY <1>5, <1>7 DEF t

\* A new node for an account that is not in the list.
LEMMA LinkAccount ==
    ASSUME AccountsHeld(alist, cur), cur \in States, NEW a \in Accts, NEW v \in Values,
           NEW p, PlaceOfAccount(p, a),
           NEW node \in AccountNodes, node.addr = a, node.val = v,
           NEW new, new = Link(alist, p, node)
    PROVE  /\ AccountsHeld(new, WithPayload(cur, a, v))
           /\ AccountsStay(alist, new) /\ Live(alist) \subseteq Live(new)
<1> DEFINE n == Len(alist) + 1
           L == Live(alist)
           t == WithPayload(cur, a, v)
<1>1. /\ p \in L /\ ~Exists(cur, a)
      /\ Lo(AccountRanks(alist), p) < a /\ a < AccountRanks(alist)[Nexts(alist)[p]]
  BY DEF PlaceOfAccount
<1>2. alist \in Seq(AccountNodes)
  BY DEF AccountsHeld
<1>3. new \in Seq(AccountNodes) /\ LinkOf(alist, p, node, new)
  BY <1>1, <1>2, LinkIs, NodesRedirectable
<1>4. /\ Len(alist) \in Nat /\ L \subseteq 1 .. Len(alist) /\ n \notin L /\ n # p /\ n # 1
      /\ \A i \in 1 .. Len(alist) : /\ alist[i] \in AccountNodes
                                    /\ AccountRanks(alist)[i] = alist[i].addr
                                    /\ Nexts(alist)[i] = alist[i].next
                                    /\ alist[i].addr \in Nat /\ alist[i].next \in Nat
  BY <1>1, AccountCycle
<1>5. /\ Len(new) = n /\ Live(new) = L \cup {n}
      /\ \A i \in 1 .. Len(alist) : i # p => new[i] = alist[i]
      /\ new[p] = Redirected(alist[p], n) /\ new[n] = Redirected(node, alist[p].next)
  BY <1>3 DEF LinkOf
<1>6. new[p].addr = alist[p].addr /\ new[p].ival = alist[p].ival /\ new[p].val = alist[p].val /\ new[p].next = n
  <2>1. alist[p] \in AccountNodes /\ n \in Nat
    BY <1>1, <1>4
  <2> HIDE DEF n
  <2> QED
    BY <1>5, <2>1, AccountRedirected
<1>7. new[n].addr = a /\ new[n].val = v /\ new[n].next = alist[p].next
  <2> DEFINE m == alist[p].next
  <2>1. m \in Nat
    BY <1>1, <1>4
  <2>2. new[n] = Redirected(node, m)
    BY <1>5
  <2> HIDE DEF m, n
  <2>3. Redirected(node, m).addr = node.addr /\ Redirected(node, m).val = node.val /\ Redirected(node, m).next = m
    BY <2>1, AccountRedirected
  <2> QED
    BY <2>2, <2>3 DEF m
<1>8. \A i \in 1 .. n : AccountRanks(new)[i] = new[i].addr /\ Nexts(new)[i] = new[i].next
  BY <1>5 DEF AccountRanks, Nexts
<1>9. /\ \A i \in 1 .. Len(alist) : new[i].addr = alist[i].addr /\ new[i].ival = alist[i].ival /\ new[i].val = alist[i].val
      /\ \A i \in 1 .. Len(alist) : i # p => new[i].next = alist[i].next
  BY <1>5, <1>6
<1>10. n \in 1 .. n /\ \A i \in L : i \in 1 .. Len(alist) /\ i \in 1 .. n
  BY <1>4
<1> HIDE DEF n
<1>11. a \in Nat
  BY KeysTyped
<1>12. Linked(AccountRanks(alist), Nexts(alist), L, a, p, n, AccountRanks(new), Nexts(new))
  <2>1. \A i \in L : AccountRanks(new)[i] = AccountRanks(alist)[i]
    BY <1>4, <1>8, <1>9, <1>10
  <2>2. \A i \in L \ {p} : Nexts(new)[i] = Nexts(alist)[i]
    BY <1>4, <1>8, <1>9, <1>10
  <2>3. AccountRanks(new)[n] = a /\ Nexts(new)[n] = Nexts(alist)[p] /\ Nexts(new)[p] = n
    BY <1>1, <1>4, <1>6, <1>7, <1>8, <1>10
  <2> QED
    BY <1>1, <1>4, <1>11, <2>1, <2>2, <2>3 DEF Linked
<1>13. Cycle(AccountRanks(new), Nexts(new), Live(new), Top)
  BY <1>5, <1>12, LinkKeepsCycle DEF AccountsHeld
<1>14. /\ t[a].val = v /\ Exists(t, a) /\ \A b \in Accts : b # a => t[b] = cur[b]
  BY WithPayloadIs
<1> HIDE DEF t
<1>15. \A i \in L \ {1} : alist[i].addr \in Accts /\ Exists(cur, alist[i].addr) /\ alist[i].val = cur[alist[i].addr].val
  BY DEF AccountsHeld
<1>16. ASSUME NEW i \in Live(new) \ {1}
       PROVE  new[i].addr \in Accts /\ Exists(t, new[i].addr) /\ new[i].val = t[new[i].addr].val
  <2>1. CASE i = n
    BY <2>1, <1>7, <1>14
  <2>2. CASE i \in L \ {1}
    <3>1. alist[i].addr # a
      BY <1>1, <1>15, <2>2
    <3>2. t[alist[i].addr] = cur[alist[i].addr]
      BY <1>14, <1>15, <2>2, <3>1
    <3> QED
      BY <2>2, <1>9, <1>10, <1>15, <3>2 DEF Exists
  <2> QED
    BY <1>5, <2>1, <2>2
<1>17. ASSUME NEW b \in Accts, Exists(t, b)
       PROVE  \E i \in Live(new) \ {1} : new[i].addr = b
  <2>1. CASE b = a
    BY <2>1, <1>4, <1>5, <1>7
  <2>2. CASE b # a
    <3>1. Exists(cur, b)
      BY <2>2, <1>14, <1>17 DEF Exists
    <3>2. PICK i \in L \ {1} : alist[i].addr = b
      BY <3>1 DEF AccountsHeld
    <3> QED
      BY <3>2, <1>5, <1>9, <1>10
  <2> QED
    BY <2>1, <2>2
<1>18. AccountsHeld(new, t)
  BY <1>3, <1>13, <1>16, <1>17 DEF AccountsHeld
<1>19. AccountsStay(alist, new)
  <2>1. Len(alist) <= Len(new)
    BY <1>4, <1>5 DEF n
  <2> QED
    BY <2>1, <1>9 DEF AccountsStay
<1> QED
  BY <1>5, <1>18, <1>19 DEF t

\* A new payload for a node that is linked.
LEMMA OverwriteAccount ==
    ASSUME AccountsHeld(alist, cur), cur \in States, NEW a \in Accts, NEW v \in Values,
           NEW p, NodeOfAccount(p, a),
           NEW new \in Seq(AccountNodes), Len(new) = Len(alist),
           \A i \in 1 .. Len(alist) : i # p => new[i] = alist[i],
           new[p].addr = alist[p].addr, new[p].next = alist[p].next, new[p].ival = alist[p].ival,
           new[p].val = v
    PROVE  /\ AccountsHeld(new, WithPayload(cur, a, v))
           /\ AccountsStay(alist, new) /\ Live(alist) \subseteq Live(new)
<1> DEFINE L == Live(alist)
           t == WithPayload(cur, a, v)
<1>1. p \in L \ {1} /\ alist[p].addr = a
  BY DEF NodeOfAccount
<1>2. Len(alist) \in Nat /\ L \subseteq 1 .. Len(alist)
  BY AccountCycle
<1>3. \A i \in 1 .. Len(alist) : new[i].addr = alist[i].addr /\ new[i].next = alist[i].next /\ new[i].ival = alist[i].ival
  OBVIOUS
<1>4. Live(new) = L
  BY <1>3 DEF Live
<1>5. AccountRanks(new) = AccountRanks(alist) /\ Nexts(new) = Nexts(alist)
  BY <1>3 DEF AccountRanks, Nexts
<1>6. Cycle(AccountRanks(new), Nexts(new), Live(new), Top)
  BY <1>4, <1>5 DEF AccountsHeld
<1>7. /\ t[a].val = v /\ Exists(t, a) /\ \A b \in Accts : b # a => t[b] = cur[b]
  BY WithPayloadIs
<1> HIDE DEF t
<1>8. ASSUME NEW i \in Live(new) \ {1}
      PROVE  new[i].addr \in Accts /\ Exists(t, new[i].addr) /\ new[i].val = t[new[i].addr].val
  <2>1. CASE i = p
    BY <2>1, <1>1, <1>7
  <2>2. CASE i # p
    <3>1. new[i] = alist[i] /\ alist[i].addr \in Accts /\ Exists(cur, alist[i].addr) /\ alist[i].val = cur[alist[i].addr].val
      BY <1>2, <1>4, <2>2 DEF AccountsHeld
    <3>2. alist[i].addr # a
      <4>1. AccountRanks(alist)[i] # AccountRanks(alist)[p]
        BY <1>1, <1>4, <2>2 DEF AccountsHeld, Cycle
      <4> QED
        BY <4>1, <1>1, <1>2, <1>4 DEF AccountRanks
    <3> QED
      BY <3>1, <3>2, <1>7 DEF Exists
  <2> QED
    BY <2>1, <2>2
<1>9. ASSUME NEW b \in Accts, Exists(t, b)
      PROVE  \E i \in Live(new) \ {1} : new[i].addr = b
  <2>1. Exists(cur, b)
    BY <1>7, <1>9 DEF Exists, NodeOfAccount
  <2>2. PICK i \in L \ {1} : alist[i].addr = b
    BY <2>1 DEF AccountsHeld
  <2> QED
    BY <2>2, <1>2, <1>3, <1>4
<1>10. AccountsHeld(new, t)
  BY <1>6, <1>8, <1>9 DEF AccountsHeld
<1>11. AccountsStay(alist, new)
  BY <1>2, <1>3 DEF AccountsStay
<1> QED
  BY <1>4, <1>10, <1>11 DEF t

\* The node of an account is taken out.
LEMMA UnlinkAccount ==
    ASSUME AccountsHeld(alist, cur), NEW a \in Accts,
           NEW p \in Live(alist), NodeOfAccount(alist[p].next, a),
           NEW new, new = Unlink(alist, p),
           NEW t, ~Exists(t, a), \A b \in Accts : b # a => t[b] = cur[b]
    PROVE  /\ AccountsHeld(new, t) /\ AccountsStay(alist, new)
           /\ Live(new) = Live(alist) \ {alist[p].next}
<1> DEFINE n == alist[p].next
           L == Live(alist)
           r == AccountRanks(alist)
           nx == Nexts(alist)
<1>1. n \in L \ {1} /\ alist[n].addr = a
  BY DEF NodeOfAccount
<1>2. alist \in Seq(AccountNodes) /\ Cycle(r, nx, L, Top)
  BY DEF AccountsHeld
<1>3. /\ Len(alist) \in Nat /\ L \subseteq 1 .. Len(alist)
      /\ \A i \in 1 .. Len(alist) : /\ alist[i] \in AccountNodes
                                    /\ r[i] = alist[i].addr /\ nx[i] = alist[i].next
                                    /\ alist[i].addr \in Nat /\ alist[i].next \in Nat
  BY AccountCycle
<1>4. nx[p] = n
  BY <1>3
<1> HIDE DEF r, nx, n
<1>5. n # p
  <2>1. Lo(r, p) < r[n]
    BY <1>2, <1>4 DEF Cycle
  <2> QED
    BY <2>1, <1>1, <1>2, CycleTypes
<1>6. new \in Seq(AccountNodes) /\ UnlinkOf(alist, p, new)
  BY <1>1, <1>2, <1>5, UnlinkIs, NodesRedirectable DEF n
<1>7. /\ Len(new) = Len(alist) /\ Live(new) = L \ {n}
      /\ \A i \in 1 .. Len(alist) : i # p /\ i # n => new[i] = alist[i]
      /\ new[p] = Redirected(alist[p], alist[n].next) /\ new[n] = Redirected(alist[n], Deleted)
  BY <1>6 DEF UnlinkOf, n
<1>8. \A i \in 1 .. Len(alist), m \in Nat :
         LET d == Redirected(alist[i], m)
         IN  d.addr = alist[i].addr /\ d.val = alist[i].val /\ d.ival = alist[i].ival /\ d.next = m
  BY <1>3, AccountRedirected
<1>9. /\ new[p].addr = alist[p].addr /\ new[p].val = alist[p].val /\ new[p].ival = alist[p].ival
      /\ new[p].next = alist[n].next
      /\ new[n].addr = alist[n].addr /\ new[n].ival = alist[n].ival
  <2>1. p \in 1 .. Len(alist) /\ n \in 1 .. Len(alist) /\ Deleted \in Nat
    BY <1>1, <1>3 DEF Deleted
  <2>2. alist[n].next \in Nat
    BY <1>3, <2>1
  <2> QED
    BY <1>7, <1>8, <2>1, <2>2
<1>10. /\ \A i \in 1 .. Len(alist) : new[i].addr = alist[i].addr /\ new[i].ival = alist[i].ival
       /\ \A i \in 1 .. Len(alist) : i # n => new[i].val = alist[i].val
       /\ \A i \in 1 .. Len(alist) : i # p /\ i # n => new[i].next = alist[i].next
  BY <1>7, <1>9
<1>11. AccountRanks(new) = r
  BY <1>7, <1>10 DEF AccountRanks, r
<1>12. \A i \in 1 .. Len(alist) : Nexts(new)[i] = new[i].next
  BY <1>7 DEF Nexts
<1>13. Unlinked(nx, L, p, n, Nexts(new))
  <2>1. \A i \in L \ {p, n} : Nexts(new)[i] = nx[i]
    BY <1>3, <1>10, <1>12
  <2>2. Nexts(new)[p] = nx[n]
    BY <1>1, <1>3, <1>9, <1>12
  <2> QED
    BY <1>1, <1>4, <2>1, <2>2 DEF Unlinked
<1>14. Cycle(AccountRanks(new), Nexts(new), Live(new), Top)
  BY <1>2, <1>7, <1>11, <1>13, UnlinkKeepsCycle
<1>15. \A i \in L \ {1} : alist[i].addr \in Accts /\ Exists(cur, alist[i].addr) /\ alist[i].val = cur[alist[i].addr].val
  BY DEF AccountsHeld
<1>16. ASSUME NEW i \in Live(new) \ {1}
       PROVE  new[i].addr \in Accts /\ Exists(t, new[i].addr) /\ new[i].val = t[new[i].addr].val
  <2>1. i \in L \ {1} /\ i # n /\ i \in 1 .. Len(alist)
    BY <1>3, <1>7
  <2>2. alist[i].addr # a
    <3>1. r[i] # r[n]
      BY <1>1, <1>2, <2>1 DEF Cycle
    <3> QED
      BY <3>1, <1>1, <1>3, <2>1
  <2>3. t[alist[i].addr] = cur[alist[i].addr]
    BY <1>15, <2>1, <2>2
  <2> QED
    BY <1>10, <1>15, <2>1, <2>3 DEF Exists
<1>17. ASSUME NEW b \in Accts, Exists(t, b)
       PROVE  \E i \in Live(new) \ {1} : new[i].addr = b
  <2>1. b # a /\ Exists(cur, b)
    BY <1>17 DEF Exists
  <2>2. PICK i \in L \ {1} : alist[i].addr = b
    BY <2>1 DEF AccountsHeld
  <2>3. i # n
    BY <1>1, <2>1, <2>2
  <2> QED
    BY <2>2, <2>3, <1>3, <1>7, <1>10
<1>18. AccountsHeld(new, t)
  BY <1>6, <1>14, <1>16, <1>17 DEF AccountsHeld
<1>19. AccountsStay(alist, new)
  BY <1>3, <1>7, <1>10 DEF AccountsStay
<1> QED
  BY <1>7, <1>18, <1>19 DEF n

-----------------------------------------------------------------------------
(* The operations on the list of slots.                                    *)

SlotsStay(list, new) ==
    /\ Len(list) <= Len(new)
    /\ \A i \in 1 .. Len(list) : /\ new[i].addr = list[i].addr /\ new[i].key = list[i].key
                                 /\ new[i].ival = list[i].ival

\* State t is s with another value of one slot.
SlotChanged(s, a, k, v, t) ==
    /\ t[a].slots[k] = v
    /\ \A b \in Accts, j \in Slots : <<b, j>> # <<a, k>> => t[b].slots[j] = s[b].slots[j]

\* A new node for a slot that is 0.
LEMMA LinkSlot ==
    ASSUME SlotsHeld(slist, cur), NEW a \in Accts, NEW k \in Slots, NEW v \in Nat \ {0},
           NEW p, PlaceOfSlot(p, a, k),
           NEW node \in SlotNodes, node.addr = a, node.key = k, node.val = v,
           NEW new, new = Link(slist, p, node), NEW t, SlotChanged(cur, a, k, v, t)
    PROVE  SlotsHeld(new, t) /\ SlotsStay(slist, new)
<1> DEFINE n == Len(slist) + 1
           L == Live(slist)
           r == SlotRanks(slist)
           nx == Nexts(slist)
<1>1. p \in L /\ cur[a].slots[k] = 0 /\ Lo(r, p) < Rank(a, k) /\ Rank(a, k) < r[nx[p]]
  BY DEF PlaceOfSlot
<1>2. slist \in Seq(SlotNodes) /\ Cycle(r, nx, L, Rank(Top, 0))
  BY DEF SlotsHeld
<1>3. new \in Seq(SlotNodes) /\ LinkOf(slist, p, node, new)
  BY <1>1, <1>2, LinkIs, NodesRedirectable
<1>4. /\ Len(slist) \in Nat /\ L \subseteq 1 .. Len(slist) /\ n \notin L /\ n # p /\ n # 1
      /\ \A i \in 1 .. Len(slist) : /\ slist[i] \in SlotNodes
                                    /\ r[i] = Rank(slist[i].addr, slist[i].key)
                                    /\ nx[i] = slist[i].next /\ slist[i].next \in Nat
  BY <1>1, SlotCycle
<1>5. /\ Len(new) = n /\ Live(new) = L \cup {n}
      /\ \A i \in 1 .. Len(slist) : i # p => new[i] = slist[i]
      /\ new[p] = Redirected(slist[p], n) /\ new[n] = Redirected(node, slist[p].next)
  BY <1>3 DEF LinkOf
<1> HIDE DEF r, nx
<1>6. /\ new[p].addr = slist[p].addr /\ new[p].key = slist[p].key
      /\ new[p].ival = slist[p].ival /\ new[p].val = slist[p].val /\ new[p].next = n
  <2>1. slist[p] \in SlotNodes /\ n \in Nat
    BY <1>1, <1>4
  <2> HIDE DEF n
  <2> QED
    BY <1>5, <2>1, SlotRedirected
<1>7. new[n].addr = a /\ new[n].key = k /\ new[n].val = v /\ new[n].next = slist[p].next
  <2> DEFINE m == slist[p].next
  <2>1. m \in Nat
    BY <1>1, <1>4
  <2>2. new[n] = Redirected(node, m)
    BY <1>5
  <2> HIDE DEF m, n
  <2>3. /\ Redirected(node, m).addr = node.addr /\ Redirected(node, m).key = node.key
        /\ Redirected(node, m).val = node.val /\ Redirected(node, m).next = m
    BY <2>1, SlotRedirected
  <2> QED
    BY <2>2, <2>3 DEF m
<1>8. \A i \in 1 .. n : SlotRanks(new)[i] = Rank(new[i].addr, new[i].key) /\ Nexts(new)[i] = new[i].next
  BY <1>5 DEF SlotRanks, Nexts
<1>9. /\ \A i \in 1 .. Len(slist) : /\ new[i].addr = slist[i].addr /\ new[i].key = slist[i].key
                                    /\ new[i].ival = slist[i].ival /\ new[i].val = slist[i].val
      /\ \A i \in 1 .. Len(slist) : i # p => new[i].next = slist[i].next
  BY <1>5, <1>6
<1>10. n \in 1 .. n /\ \A i \in L : i \in 1 .. Len(slist) /\ i \in 1 .. n
  BY <1>4
<1> HIDE DEF n
<1>11. Rank(a, k) \in Nat
  BY KeysTyped, SlotRankTyped
<1>12. Linked(r, nx, L, Rank(a, k), p, n, SlotRanks(new), Nexts(new))
  <2>1. \A i \in L : SlotRanks(new)[i] = r[i]
    BY <1>4, <1>8, <1>9, <1>10
  <2>2. \A i \in L \ {p} : Nexts(new)[i] = nx[i]
    BY <1>4, <1>8, <1>9, <1>10
  <2>3. SlotRanks(new)[n] = Rank(a, k) /\ Nexts(new)[n] = nx[p] /\ Nexts(new)[p] = n
    BY <1>1, <1>4, <1>6, <1>7, <1>8, <1>10
  <2> QED
    BY <1>1, <1>4, <1>11, <2>1, <2>2, <2>3 DEF Linked
<1>13. Cycle(SlotRanks(new), Nexts(new), Live(new), Rank(Top, 0))
  BY <1>2, <1>5, <1>12, LinkKeepsCycle
<1>14. t[a].slots[k] = v /\ \A b \in Accts, j \in Slots : <<b, j>> # <<a, k>> => t[b].slots[j] = cur[b].slots[j]
  BY DEF SlotChanged
<1>15. \A i \in L \ {1} : /\ slist[i].addr \in Accts /\ slist[i].key \in Slots /\ slist[i].val # 0
                          /\ slist[i].val = cur[slist[i].addr].slots[slist[i].key]
  BY DEF SlotsHeld
<1>16. ASSUME NEW i \in Live(new) \ {1}
       PROVE  /\ new[i].addr \in Accts /\ new[i].key \in Slots
              /\ new[i].val # 0 /\ new[i].val = t[new[i].addr].slots[new[i].key]
  <2>1. CASE i = n
    BY <2>1, <1>7, <1>14
  <2>2. CASE i \in L \ {1}
    <3>1. <<slist[i].addr, slist[i].key>> # <<a, k>>
      BY <1>1, <1>15, <2>2
    <3>2. t[slist[i].addr].slots[slist[i].key] = cur[slist[i].addr].slots[slist[i].key]
      BY <1>14, <1>15, <2>2, <3>1
    <3> QED
      BY <2>2, <1>9, <1>10, <1>15, <3>2
  <2> QED
    BY <1>5, <2>1, <2>2
<1>17. ASSUME NEW b \in Accts, NEW j \in Slots, t[b].slots[j] # 0
       PROVE  \E i \in Live(new) \ {1} : new[i].addr = b /\ new[i].key = j
  <2>1. CASE b = a /\ j = k
    BY <2>1, <1>4, <1>5, <1>7
  <2>2. CASE ~(b = a /\ j = k)
    <3>1. cur[b].slots[j] # 0
      BY <2>2, <1>14, <1>17
    <3>2. PICK i \in L \ {1} : slist[i].addr = b /\ slist[i].key = j
      BY <3>1 DEF SlotsHeld
    <3> QED
      BY <3>2, <1>5, <1>9, <1>10
  <2> QED
    BY <2>1, <2>2
<1>18. SlotsHeld(new, t)
  BY <1>3, <1>13, <1>16, <1>17 DEF SlotsHeld
<1>19. SlotsStay(slist, new)
  <2>1. Len(slist) <= Len(new)
    BY <1>4, <1>5 DEF n
  <2> QED
    BY <2>1, <1>9 DEF SlotsStay
<1> QED
  BY <1>18, <1>19

\* A new value for a slot that is linked.
LEMMA OverwriteSlot ==
    ASSUME SlotsHeld(slist, cur), NEW a \in Accts, NEW k \in Slots, NEW v \in Nat \ {0},
           NEW p, NodeOfSlot(p, a, k),
           NEW new \in Seq(SlotNodes), Len(new) = Len(slist),
           \A i \in 1 .. Len(slist) : i # p => new[i] = slist[i],
           new[p].addr = slist[p].addr, new[p].key = slist[p].key, new[p].next = slist[p].next,
           new[p].ival = slist[p].ival, new[p].val = v,
           NEW t, SlotChanged(cur, a, k, v, t)
    PROVE  SlotsHeld(new, t) /\ SlotsStay(slist, new)
<1> DEFINE L == Live(slist)
           r == SlotRanks(slist)
<1>1. p \in L \ {1} /\ slist[p].addr = a /\ slist[p].key = k /\ cur[a].slots[k] # 0
  BY DEF NodeOfSlot
<1>2. Len(slist) \in Nat /\ L \subseteq 1 .. Len(slist)
  BY SlotCycle
<1>3. \A i \in 1 .. Len(slist) : /\ new[i].addr = slist[i].addr /\ new[i].key = slist[i].key
                                 /\ new[i].next = slist[i].next /\ new[i].ival = slist[i].ival
  OBVIOUS
<1>4. Live(new) = L
  BY <1>3 DEF Live
<1>5. SlotRanks(new) = SlotRanks(slist) /\ Nexts(new) = Nexts(slist)
  BY <1>3 DEF SlotRanks, Nexts
<1>6. Cycle(SlotRanks(new), Nexts(new), Live(new), Rank(Top, 0))
  BY <1>4, <1>5 DEF SlotsHeld
<1>7. t[a].slots[k] = v /\ \A b \in Accts, j \in Slots : <<b, j>> # <<a, k>> => t[b].slots[j] = cur[b].slots[j]
  BY DEF SlotChanged
<1>8. ASSUME NEW i \in Live(new) \ {1}
      PROVE  /\ new[i].addr \in Accts /\ new[i].key \in Slots
             /\ new[i].val # 0 /\ new[i].val = t[new[i].addr].slots[new[i].key]
  <2>1. CASE i = p
    BY <2>1, <1>1, <1>7
  <2>2. CASE i # p
    <3>1. /\ new[i] = slist[i] /\ slist[i].addr \in Accts /\ slist[i].key \in Slots /\ slist[i].val # 0
          /\ slist[i].val = cur[slist[i].addr].slots[slist[i].key]
      BY <1>2, <1>4, <2>2 DEF SlotsHeld
    <3>2. ~(slist[i].addr = a /\ slist[i].key = k)
      <4>1. SlotRanks(slist)[i] # SlotRanks(slist)[p]
        BY <1>1, <1>4, <2>2 DEF SlotsHeld, Cycle
      <4> QED
        BY <4>1, <1>1, <1>2, <1>4 DEF SlotRanks
    <3>3. t[slist[i].addr].slots[slist[i].key] = cur[slist[i].addr].slots[slist[i].key]
      BY <3>1, <3>2, <1>7
    <3> QED
      BY <3>1, <3>3
  <2> QED
    BY <2>1, <2>2
<1>9. ASSUME NEW b \in Accts, NEW j \in Slots, t[b].slots[j] # 0
      PROVE  \E i \in Live(new) \ {1} : new[i].addr = b /\ new[i].key = j
  <2>1. cur[b].slots[j] # 0
    BY <1>1, <1>7, <1>9
  <2>2. PICK i \in L \ {1} : slist[i].addr = b /\ slist[i].key = j
    BY <2>1 DEF SlotsHeld
  <2> QED
    BY <2>2, <1>2, <1>3, <1>4
<1>10. SlotsHeld(new, t)
  BY <1>6, <1>8, <1>9 DEF SlotsHeld
<1>11. SlotsStay(slist, new)
  BY <1>2, <1>3 DEF SlotsStay
<1> QED
  BY <1>10, <1>11

\* The node behind p is taken out; the list holds what it held but for that slot.
LEMMA UnlinkSlot ==
    ASSUME NEW list, NEW s, SlotsHeld(list, s),
           NEW p \in Live(list), list[p].next # 1,
           NEW new, new = Unlink(list, p),
           NEW t, SlotChanged(s, list[list[p].next].addr, list[list[p].next].key, 0, t)
    PROVE  /\ SlotsHeld(new, t) /\ SlotsStay(list, new) /\ Len(new) = Len(list)
           /\ Live(new) = Live(list) \ {list[p].next} /\ list[p].next \in Live(list)
           /\ p \in Live(new) /\ SlotRanks(new) = SlotRanks(list)
<1> DEFINE n == list[p].next
           L == Live(list)
           r == SlotRanks(list)
           nx == Nexts(list)
           a == list[n].addr
           k == list[n].key
<1>2. list \in Seq(SlotNodes) /\ Cycle(r, nx, L, Rank(Top, 0))
  BY DEF SlotsHeld
<1>3. /\ Len(list) \in Nat /\ L \subseteq 1 .. Len(list)
      /\ \A i \in 1 .. Len(list) : /\ list[i] \in SlotNodes
                                   /\ r[i] = Rank(list[i].addr, list[i].key) /\ nx[i] = list[i].next
                                   /\ list[i].next \in Nat
  BY SlotCycle
<1>1. n \in L \ {1}
  BY SlotCycle
<1>0. a \in Accts /\ k \in Slots /\ t[a].slots[k] = 0
      /\ \A b \in Accts, j \in Slots : <<b, j>> # <<a, k>> => t[b].slots[j] = s[b].slots[j]
  BY <1>1 DEF SlotsHeld, SlotChanged
<1>4. nx[p] = n
  BY <1>3
<1> HIDE DEF r, nx, n
<1>5. n # p
  <2>1. Lo(r, p) < r[n]
    BY <1>2, <1>4 DEF Cycle
  <2> QED
    BY <2>1, <1>1, <1>2, CycleTypes
<1>6. new \in Seq(SlotNodes) /\ UnlinkOf(list, p, new)
  BY <1>1, <1>2, <1>5, UnlinkIs, NodesRedirectable DEF n
<1>7. /\ Len(new) = Len(list) /\ Live(new) = L \ {n}
      /\ \A i \in 1 .. Len(list) : i # p /\ i # n => new[i] = list[i]
      /\ new[p] = Redirected(list[p], list[n].next) /\ new[n] = Redirected(list[n], Deleted)
  BY <1>6 DEF UnlinkOf, n
<1>8. \A i \in 1 .. Len(list), m \in Nat :
         LET d == Redirected(list[i], m)
         IN  /\ d.addr = list[i].addr /\ d.key = list[i].key
             /\ d.val = list[i].val /\ d.ival = list[i].ival /\ d.next = m
  BY <1>3, SlotRedirected
<1>9. /\ new[p].addr = list[p].addr /\ new[p].key = list[p].key /\ new[p].val = list[p].val
      /\ new[p].ival = list[p].ival /\ new[p].next = list[n].next
      /\ new[n].addr = list[n].addr /\ new[n].key = list[n].key /\ new[n].ival = list[n].ival
  <2>1. p \in 1 .. Len(list) /\ n \in 1 .. Len(list) /\ Deleted \in Nat
    BY <1>1, <1>3 DEF Deleted
  <2> DEFINE m == list[n].next
             d == Redirected(list[p], m)
             e == Redirected(list[n], Deleted)
  <2>2. m \in Nat
    BY <1>3, <2>1
  <2> HIDE DEF m
  <2>3. /\ d.addr = list[p].addr /\ d.key = list[p].key /\ d.val = list[p].val
        /\ d.ival = list[p].ival /\ d.next = m
    BY <1>8, <2>1, <2>2
  <2>4. e.addr = list[n].addr /\ e.key = list[n].key /\ e.ival = list[n].ival
    BY <1>8, <2>1
  <2>5. new[p] = d /\ new[n] = e
    BY <1>7 DEF m
  <2> HIDE DEF d, e
  <2> QED
    BY <2>3, <2>4, <2>5 DEF m
<1>10. /\ \A i \in 1 .. Len(list) : new[i].addr = list[i].addr /\ new[i].key = list[i].key /\ new[i].ival = list[i].ival
       /\ \A i \in 1 .. Len(list) : i # n => new[i].val = list[i].val
       /\ \A i \in 1 .. Len(list) : i # p /\ i # n => new[i].next = list[i].next
  BY <1>7, <1>9
<1>11. SlotRanks(new) = r
  BY <1>7, <1>10 DEF SlotRanks, r
<1>12. \A i \in 1 .. Len(list) : Nexts(new)[i] = new[i].next
  BY <1>7 DEF Nexts
<1>13. Unlinked(nx, L, p, n, Nexts(new))
  <2>1. \A i \in L \ {p, n} : Nexts(new)[i] = nx[i]
    BY <1>3, <1>10, <1>12
  <2>2. Nexts(new)[p] = nx[n]
    BY <1>1, <1>3, <1>9, <1>12
  <2> QED
    BY <1>1, <1>4, <2>1, <2>2 DEF Unlinked
<1>14. Cycle(SlotRanks(new), Nexts(new), Live(new), Rank(Top, 0))
  BY <1>2, <1>7, <1>11, <1>13, UnlinkKeepsCycle
<1>15. \A i \in L \ {1} : /\ list[i].addr \in Accts /\ list[i].key \in Slots /\ list[i].val # 0
                          /\ list[i].val = s[list[i].addr].slots[list[i].key]
  BY DEF SlotsHeld
<1>16. ASSUME NEW i \in Live(new) \ {1}
       PROVE  /\ new[i].addr \in Accts /\ new[i].key \in Slots
              /\ new[i].val # 0 /\ new[i].val = t[new[i].addr].slots[new[i].key]
  <2>1. i \in L \ {1} /\ i # n /\ i \in 1 .. Len(list)
    BY <1>3, <1>7
  <2>2. ~(list[i].addr = a /\ list[i].key = k)
    <3>1. r[i] # r[n]
      BY <1>1, <1>2, <2>1 DEF Cycle
    <3> QED
      BY <3>1, <1>1, <1>3, <2>1
  <2> HIDE DEF a, k
  <2>3. t[list[i].addr].slots[list[i].key] = s[list[i].addr].slots[list[i].key]
    BY <1>0, <1>15, <2>1, <2>2
  <2> QED
    BY <1>10, <1>15, <2>1, <2>3
<1>17. ASSUME NEW b \in Accts, NEW j \in Slots, t[b].slots[j] # 0
       PROVE  \E i \in Live(new) \ {1} : new[i].addr = b /\ new[i].key = j
  <2>1. ~(b = a /\ j = k) /\ s[b].slots[j] # 0
    BY <1>0, <1>17
  <2>2. PICK i \in L \ {1} : list[i].addr = b /\ list[i].key = j
    BY <2>1 DEF SlotsHeld
  <2>3. i # n
    BY <2>1, <2>2
  <2> QED
    BY <2>2, <2>3, <1>3, <1>7, <1>10
<1>18. SlotsHeld(new, t)
  BY <1>6, <1>14, <1>16, <1>17 DEF SlotsHeld
<1>19. SlotsStay(list, new)
  BY <1>3, <1>7, <1>10 DEF SlotsStay
<1> QED
  BY <1>1, <1>5, <1>7, <1>11, <1>18, <1>19 DEF n, r

-----------------------------------------------------------------------------
(* Recursive functions.                                                    *)

\* A function on the numbers defined from its value at the number before.
Iterates(S, s0, step, f) ==
    /\ f \in [Nat -> S]
    /\ f[0] = s0
    /\ \A n \in Nat : f[n + 1] = step[n][f[n]]

\* Every step function and start are those of some function on the numbers.
LEMMA PrimitiveRecursion ==
    ASSUME NEW S, NEW s0 \in S, NEW step \in [Nat -> [S -> S]]
    PROVE  \E f : Iterates(S, s0, step, f)
<1> DEFINE Closed(G) == <<0, s0>> \in G
                        /\ \A n \in Nat, s \in S : <<n, s>> \in G => <<n + 1, step[n][s]>> \in G
           L == {g \in Nat \X S : \A G \in SUBSET (Nat \X S) : Closed(G) => g \in G}
           One(n) == \E s \in S : <<n, s>> \in L /\ \A t \in S : <<n, t>> \in L => t = s
           Bad == {n \in Nat : ~One(n)}
<1>0. \A n \in Nat, s \in S : step[n][s] \in S
  OBVIOUS
<1>1. L \in SUBSET (Nat \X S) /\ Closed(L)
  <2>1. <<0, s0>> \in L
    OBVIOUS
  <2>2. ASSUME NEW n \in Nat, NEW s \in S, <<n, s>> \in L
        PROVE  <<n + 1, step[n][s]>> \in L
    <3>1. <<n + 1, step[n][s]>> \in Nat \X S
      <4>1. step[n][s] \in S /\ n + 1 \in Nat
        BY <1>0
      <4> HIDE DEF L
      <4> QED
        BY <4>1, Zenon
    <3>2. ASSUME NEW G \in SUBSET (Nat \X S), Closed(G)
          PROVE  <<n + 1, step[n][s]>> \in G
      BY <2>2, <3>2
    <3> QED
      BY <3>1, <3>2
  <2> QED
    BY <2>1, <2>2
<1>2. \A G \in SUBSET (Nat \X S) : Closed(G) => L \subseteq G
  OBVIOUS
<1> HIDE DEF L
<1>3. One(0)
  <2>1. ASSUME NEW t \in S, <<0, t>> \in L, t # s0
        PROVE  FALSE
    <3> DEFINE G == L \ {<<0, t>>}
    <3>1. G \in SUBSET (Nat \X S) /\ <<0, s0>> \in G
      BY <1>1, <2>1
    <3>2. \A n \in Nat, s \in S : <<n, s>> \in G => <<n + 1, step[n][s]>> \in G
      BY <1>1
    <3>3. L \subseteq G
      BY <1>2, <3>1, <3>2
    <3> QED
      BY <2>1, <3>3
  <2> QED
    BY <1>1, <2>1
<1>4. ASSUME NEW m \in Nat, One(m)
      PROVE  One(m + 1)
  <2>1. PICK s \in S : <<m, s>> \in L /\ \A t \in S : <<m, t>> \in L => t = s
    BY <1>4
  <2> DEFINE u == step[m][s]
  <2>2. u \in S /\ <<m + 1, u>> \in L
    BY <1>0, <1>1, <2>1
  <2>3. ASSUME NEW t \in S, <<m + 1, t>> \in L, t # u
        PROVE  FALSE
    <3> DEFINE G == L \ {<<m + 1, t>>}
    <3>1. G \in SUBSET (Nat \X S) /\ <<0, s0>> \in G
      BY <1>1
    <3>2. ASSUME NEW n \in Nat, NEW r \in S, <<n, r>> \in G
          PROVE  <<n + 1, step[n][r]>> \in G
      <4>1. <<n + 1, step[n][r]>> \in L
        BY <1>1, <3>2
      <4>2. CASE n = m
        <5>1. r = s
          BY <2>1, <3>2, <4>2
        <5> QED
          BY <2>3, <4>1, <4>2, <5>1
      <4>3. CASE n # m
        BY <4>1, <4>3
      <4> QED
        BY <4>2, <4>3
    <3>3. L \subseteq G
      BY <1>2, <3>1, <3>2
    <3> QED
      BY <2>3, <3>3
  <2> QED
    BY <2>2, <2>3
<1> HIDE DEF One
<1>5. Bad = {}
  <2> SUFFICES ASSUME Bad # {}
               PROVE  FALSE
    OBVIOUS
  <2>1. PICK n \in Bad : \A m \in Bad : n <= m
    BY LeastNumber
  <2>2. n \in Nat /\ n # 0 /\ ~One(n)
    BY <1>3, <2>1
  <2>3. n - 1 \in Nat /\ ~(n <= n - 1) /\ (n - 1) + 1 = n
    BY <2>2
  <2>4. One(n - 1)
    BY <2>1, <2>3
  <2> QED
    BY <1>4, <2>2, <2>3, <2>4
<1>6. \A n \in Nat : One(n)
  BY <1>5
<1> DEFINE f == [n \in Nat |-> CHOOSE s \in S : <<n, s>> \in L]
<1>7. ASSUME NEW n \in Nat
      PROVE  f[n] \in S /\ <<n, f[n]>> \in L /\ \A t \in S : <<n, t>> \in L => t = f[n]
  BY <1>6 DEF One
<1>8. f \in [Nat -> S]
  BY <1>7
<1> HIDE DEF f
<1>9. f[0] = s0
  BY <1>1, <1>7
<1>10. ASSUME NEW n \in Nat
       PROVE  f[n + 1] = step[n][f[n]]
  <2>1. n + 1 \in Nat
    OBVIOUS
  <2>2. <<n + 1, step[n][f[n]]>> \in L
    BY <1>1, <1>7
  <2>3. step[n][f[n]] \in S
    BY <1>0, <1>7
  <2> QED
    BY <1>7, <2>1, <2>2, <2>3
<1> QED
  BY <1>8, <1>9, <1>10 DEF Iterates

\* Induction up to N.
LEMMA CountUp ==
    ASSUME NEW N \in Nat, NEW G, 0 \in G, \A n \in Nat : n < N /\ n \in G => n + 1 \in G
    PROVE  \A n \in 0 .. N : n \in G
<1> DEFINE Bad == {n \in 0 .. N : n \notin G}
<1> SUFFICES ASSUME Bad # {} PROVE FALSE
  OBVIOUS
<1>0. Bad \subseteq Nat
  OBVIOUS
<1>1. PICK n \in Bad : \A m \in Bad : n <= m
  <2> HIDE DEF Bad
  <2> QED
    BY <1>0, LeastNumber
<1>2. n \in Nat /\ n # 0 /\ n \notin G /\ n <= N
  BY <1>1
<1>3. n - 1 \in 0 .. N /\ n - 1 \in Nat /\ n - 1 < N /\ ~(n <= n - 1) /\ (n - 1) + 1 = n
  BY <1>2
<1>4. n - 1 \in G
  BY <1>1, <1>3
<1> QED
  BY <1>2, <1>3, <1>4

\* States S[n] that every step leads from one to the next are those of some run.
Run(U, S, s0, step, N, f) ==
    /\ f \in [0 .. N -> U]
    /\ f[0] = s0
    /\ \A n \in 0 .. N : f[n] \in S[n]
    /\ \A n \in 0 .. N : n # 0 => f[n] = step[n - 1][f[n - 1]]

\* Such a run exists when every step leads from one set of states to the next.
LEMMA RunExists ==
    ASSUME NEW U, NEW S \in [Nat -> SUBSET U], NEW s0 \in S[0], NEW N \in Nat, NEW step,
           \A n \in Nat : n < N => \A s \in S[n] : step[n][s] \in S[n + 1]
    PROVE  \E f : Run(U, S, s0, step, N, f)
<1> DEFINE go == [n \in Nat |-> [s \in U |-> IF n < N /\ s \in S[n] THEN step[n][s] ELSE s]]
<1>1. go \in [Nat -> [U -> U]]
  <2>1. ASSUME NEW n \in Nat, NEW s \in U
        PROVE  (IF n < N /\ s \in S[n] THEN step[n][s] ELSE s) \in U
    <3>1. S[n + 1] \subseteq U
      BY n + 1 \in Nat
    <3> QED
      BY <3>1
  <2> QED
    BY <2>1
<1>2. \A n \in Nat : \A s \in S[n] : n < N => go[n][s] = step[n][s]
  <2>1. \A n \in Nat : S[n] \subseteq U
    OBVIOUS
  <2> QED
    BY <2>1
<1>3. s0 \in U
  <2>1. S[0] \subseteq U
    BY 0 \in Nat
  <2> QED
    BY <2>1
<1> HIDE DEF go
<1>4. PICK f : Iterates(U, s0, go, f)
  BY <1>1, <1>3, PrimitiveRecursion
<1>5. f \in [Nat -> U] /\ f[0] = s0 /\ \A n \in Nat : f[n + 1] = go[n][f[n]]
  BY <1>4 DEF Iterates
<1> DEFINE G == {n \in Nat : f[n] \in S[n]}
<1>6. \A n \in 0 .. N : n \in G
  <2>1. 0 \in G
    BY <1>5
  <2>2. \A n \in Nat : n < N /\ n \in G => n + 1 \in G
    BY <1>2, <1>5
  <2> HIDE DEF G
  <2> QED
    BY <2>1, <2>2, CountUp
<1> DEFINE g == [n \in 0 .. N |-> f[n]]
<1>7. g \in [0 .. N -> U] /\ g[0] = s0 /\ \A n \in 0 .. N : g[n] \in S[n]
  BY <1>5, <1>6
<1>8. ASSUME NEW n \in 0 .. N, n # 0
      PROVE  g[n] = step[n - 1][g[n - 1]]
  <2> DEFINE m == n - 1
  <2>1. m \in Nat /\ m < N /\ m \in 0 .. N /\ n = m + 1
    BY <1>8
  <2>2. f[n] = go[m][f[m]] /\ f[m] \in S[m]
    BY <1>5, <1>6, <2>1
  <2> QED
    BY <1>2, <2>1, <2>2
<1> QED
  BY <1>7, <1>8 DEF Run

-----------------------------------------------------------------------------
(* Removing all slots of an account.                                       *)

\* Only the slots matter.
LEMMA SlotsOnly ==
    ASSUME NEW list, NEW s, NEW t, SlotsHeld(list, s),
           \A b \in Accts, j \in Slots : t[b].slots[j] = s[b].slots[j]
    PROVE  SlotsHeld(list, t)
<1>1. /\ list \in Seq(SlotNodes)
      /\ Cycle(SlotRanks(list), Nexts(list), Live(list), Rank(Top, 0))
      /\ \A i \in Live(list) \ {1} :
            /\ list[i].addr \in Accts /\ list[i].key \in Slots
            /\ list[i].val # 0 /\ list[i].val = s[list[i].addr].slots[list[i].key]
  BY DEF SlotsHeld
<1>2. ASSUME NEW i \in Live(list) \ {1}
      PROVE  /\ list[i].addr \in Accts /\ list[i].key \in Slots
             /\ list[i].val # 0 /\ list[i].val = t[list[i].addr].slots[list[i].key]
  BY <1>1
<1>3. ASSUME NEW a \in Accts, NEW k \in Slots, t[a].slots[k] # 0
      PROVE  \E i \in Live(list) \ {1} : list[i].addr = a /\ list[i].key = k
  <2>1. s[a].slots[k] # 0
    BY <1>3
  <2> QED
    BY <2>1 DEF SlotsHeld
<1> QED
  BY <1>1, <1>2, <1>3 DEF SlotsHeld

\* After n rounds, list l holds s with some of the account's slots removed, and the
\* loop is over or has removed n nodes.
PartlyCleared(s, a, t) ==
    \A b \in Accts, j \in Slots : t[b].slots[j] = s[b].slots[j] \/ (b = a /\ t[b].slots[j] = 0)

Clearing(list, s, p, a, n, l) ==
    /\ \E t : PartlyCleared(s, a, t) /\ SlotsHeld(l, t)
    /\ SlotsStay(list, l) /\ Len(l) = Len(list)
    /\ p \in Live(l) /\ Live(l) \subseteq Live(list) /\ SlotRanks(l) = SlotRanks(list)
    /\ l[l[p].next].addr # a \/ Cardinality(Live(l)) + n <= Len(list)

\* There are no more linked nodes than nodes.
LEMMA LiveFinite ==
    ASSUME NEW list, Len(list) \in Nat
    PROVE  IsFiniteSet(Live(list)) /\ Cardinality(Live(list)) \in Nat /\ Cardinality(Live(list)) <= Len(list)
<1>1. IsFiniteSet(1 .. Len(list)) /\ Cardinality(1 .. Len(list)) = Len(list)
  <2> DEFINE N == Len(list)
  <2>1. N \in Nat
    OBVIOUS
  <2> HIDE DEF N
  <2>2. IsFiniteSet(1 .. N) /\ Cardinality(1 .. N) = N
    BY <2>1, FS_Interval
  <2> QED
    BY <2>2 DEF N
<1>2. Live(list) \in SUBSET (1 .. Len(list))
  BY DEF Live
<1> QED
  BY <1>1, <1>2, FS_Subset, FS_CardinalityType

\* Before the first round nothing is cleared.
LEMMA ClearingStarts ==
    ASSUME NEW list, NEW s, SlotsHeld(list, s), NEW p \in Live(list), NEW a
    PROVE  Clearing(list, s, p, a, 0, list)
<1>1. Len(list) \in Nat
  BY SlotCycle
<1>2. PartlyCleared(s, a, s)
  BY DEF PartlyCleared
<1>3. SlotsStay(list, list)
  BY <1>1 DEF SlotsStay
<1>4. Cardinality(Live(list)) + 0 <= Len(list)
  BY <1>1, LiveFinite
<1> QED
  BY <1>2, <1>3, <1>4 DEF Clearing

ClearRound(l, p, a) == IF l[l[p].next].addr # a THEN l ELSE Unlink(l, p)

\* A round ends the loop or takes out a node of the account.
LEMMA ClearingGoesOn ==
    ASSUME NEW list, NEW s, NEW p, NEW a \in Accts, NEW n \in Nat, NEW l,
           Len(list) \in Nat, Clearing(list, s, p, a, n, l)
    PROVE  Clearing(list, s, p, a, n + 1, ClearRound(l, p, a)) /\ ClearRound(l, p, a) \in Seq(SlotNodes)
<1>1. PICK t : PartlyCleared(s, a, t) /\ SlotsHeld(l, t)
  BY DEF Clearing
<1>2. /\ SlotsStay(list, l) /\ Len(l) = Len(list)
      /\ p \in Live(l) /\ Live(l) \subseteq Live(list) /\ SlotRanks(l) = SlotRanks(list)
      /\ l[l[p].next].addr # a \/ Cardinality(Live(l)) + n <= Len(list)
  BY DEF Clearing
<1>3. CASE l[l[p].next].addr # a
  <2>1. ClearRound(l, p, a) = l
    BY <1>3 DEF ClearRound
  <2>2. l \in Seq(SlotNodes)
    BY <1>1 DEF SlotsHeld
  <2> QED
    BY <2>1, <2>2, <1>1, <1>2, <1>3 DEF Clearing
<1>4. CASE l[l[p].next].addr = a
  <2> DEFINE m == l[p].next
             new == Unlink(l, p)
             k == l[m].key
             u == [b \in Accts |-> [slots |-> [j \in Slots |-> IF b = a /\ j = k THEN 0 ELSE t[b].slots[j]]]]
  <2>1. ClearRound(l, p, a) = new
    BY <1>4 DEF ClearRound
  <2>2. m # 1
    <3>1. l[1].addr = Top /\ a < Top /\ a \in Nat
      BY <1>1, SlotCycle, KeysTyped
    <3> QED
      BY <3>1, <1>4
  <2>3. m \in Live(l) /\ k \in Slots
    <3>1. m \in Live(l)
      BY <1>1, <1>2, SlotCycle
    <3> QED
      BY <3>1, <2>2, <1>1 DEF SlotsHeld
  <2>4. \A b \in Accts, j \in Slots : u[b].slots[j] = IF b = a /\ j = k THEN 0 ELSE t[b].slots[j]
    <3> HIDE DEF k
    <3> QED
      OBVIOUS
  <2>5. SlotChanged(t, l[m].addr, l[m].key, 0, u)
    <3> HIDE DEF u
    <3> QED
      BY <1>4, <2>3, <2>4 DEF SlotChanged
  <2> HIDE DEF u, new
  <2>6. /\ SlotsHeld(new, u) /\ SlotsStay(l, new) /\ Len(new) = Len(l)
        /\ Live(new) = Live(l) \ {m} /\ m \in Live(l)
        /\ p \in Live(new) /\ SlotRanks(new) = SlotRanks(l)
    BY <1>1, <1>2, <2>2, <2>5, UnlinkSlot DEF new
  <2> HIDE DEF m
  <2>7. PartlyCleared(s, a, u)
    BY <1>1, <2>4 DEF PartlyCleared
  <2>8. SlotsStay(list, new)
    BY <1>2, <2>6 DEF SlotsStay
  <2>9. Cardinality(Live(new)) + (n + 1) <= Len(list)
    <3>1. IsFiniteSet(Live(l)) /\ Cardinality(Live(l)) \in Nat
      BY <1>2, LiveFinite
    <3>2. Cardinality(Live(new)) = Cardinality(Live(l)) - 1
      BY <2>6, <3>1, FS_RemoveElement
    <3>3. Cardinality(Live(l)) + n <= Len(list)
      BY <1>2, <1>4
    <3> QED
      BY <3>1, <3>2, <3>3
  <2>10. new \in Seq(SlotNodes)
    BY <2>6 DEF SlotsHeld
  <2> QED
    BY <1>2, <2>1, <2>6, <2>7, <2>8, <2>9, <2>10 DEF Clearing
<1> QED
  BY <1>3, <1>4

\* The recursive function of remove_all_slots_loop is defined, and ends cleared.
LEMMA LoopEquation ==
    ASSUME NEW list, NEW s, SlotsHeld(list, s), NEW p \in Live(list), NEW a \in Accts
    PROVE  Clearing(list, s, p, a, Len(list), remove_all_slots_loop(list, p, a))
<1> DEFINE N == Len(list)
           U == Seq(SlotNodes)
           S == [n \in Nat |-> {l \in U : Clearing(list, s, p, a, n, l)}]
           step == [n \in Nat |-> [l \in U |-> ClearRound(l, p, a)]]
           Body(g, n) == IF n = 0 THEN list
                         ELSE IF g[n - 1][g[n - 1][p].next].addr # a THEN g[n - 1]
                         ELSE Unlink(g[n - 1], p)
           T == CHOOSE g : g = [n \in 0 .. N |-> Body(g, n)]
<1>1. N \in Nat /\ list \in U
  BY SlotCycle DEF SlotsHeld
<1>2. S \in [Nat -> SUBSET U] /\ \A n \in Nat, l \in U : step[n][l] = ClearRound(l, p, a)
  OBVIOUS
<1>3. list \in S[0]
  BY <1>1, ClearingStarts
<1>4. \A n \in Nat : \A l \in S[n] : ClearRound(l, p, a) \in S[n + 1]
  BY <1>1, ClearingGoesOn
<1>5. \A n \in Nat : n < N => \A l \in S[n] : step[n][l] \in S[n + 1]
  BY <1>2, <1>4
<1>6. \A g, n : n # 0 => Body(g, n) = ClearRound(g[n - 1], p, a)
  BY DEF ClearRound
<1>7. \A n \in Nat : \A l \in S[n] : l \in U /\ Clearing(list, s, p, a, n, l)
  OBVIOUS
<1> HIDE DEF S, step, N, U
<1>8. PICK f : Run(U, S, list, step, N, f)
  BY <1>1, <1>2, <1>3, <1>5, RunExists
<1>9. f = [n \in 0 .. N |-> Body(f, n)]
  <2>1. f \in [0 .. N -> U] /\ f[0] = list /\ \A n \in 0 .. N : n # 0 => f[n] = step[n - 1][f[n - 1]]
    BY <1>8 DEF Run
  <2>2. ASSUME NEW n \in 0 .. N
        PROVE  f[n] = Body(f, n)
    <3>1. CASE n = 0
      BY <2>1, <3>1
    <3>2. CASE n # 0
      <4> DEFINE m == n - 1
      <4>1. m \in Nat /\ m \in 0 .. N
        BY <1>1, <3>2
      <4>2. f[m] \in U /\ f[n] = step[m][f[m]]
        BY <2>1, <3>2, <4>1
      <4>3. f[n] = ClearRound(f[m], p, a)
        BY <1>2, <4>1, <4>2
      <4> HIDE DEF Body
      <4> QED
        BY <1>6, <3>2, <4>3
    <3> QED
      BY <3>1, <3>2
  <2> HIDE DEF Body
  <2> QED
    BY <2>1, <2>2
<1>10. T = [n \in 0 .. N |-> Body(T, n)]
  <2> HIDE DEF Body
  <2> QED
    BY <1>9, Zenon
<1>11. remove_all_slots_loop(list, p, a) = T[N]
  BY DEF remove_all_slots_loop, N
<1> HIDE DEF T, Body
<1>12. T[0] = list /\ \A n \in 0 .. N : n # 0 => T[n] = ClearRound(T[n - 1], p, a)
  <2>1. \A n \in 0 .. N : T[n] = Body(T, n)
    BY <1>10, Zenon
  <2>2. 0 \in 0 .. N /\ Body(T, 0) = list
    BY <1>1 DEF Body
  <2>3. \A n \in 0 .. N : n # 0 => T[n] = ClearRound(T[n - 1], p, a)
    BY <1>6, <2>1 DEF Body
  <2> QED
    BY <2>1, <2>2, <2>3
<1> DEFINE G == {n \in Nat : T[n] \in S[n]}
<1>13. \A n \in 0 .. N : n \in G
  <2>1. 0 \in G
    BY <1>3, <1>12
  <2>2. ASSUME NEW n \in Nat, n < N, n \in G
        PROVE  n + 1 \in G
    <3> DEFINE m == n + 1
    <3>1. m \in 0 .. N /\ m # 0 /\ m - 1 = n /\ m \in Nat
      BY <1>1, <2>2
    <3>2. T[m] = ClearRound(T[n], p, a)
      BY <1>12, <3>1
    <3>3. ClearRound(T[n], p, a) \in S[m]
      BY <1>4, <2>2
    <3> QED
      BY <3>1, <3>2, <3>3
  <2> HIDE DEF G
  <2> QED
    BY <1>1, <2>1, <2>2, CountUp
<1>14. T[N] \in S[N]
  BY <1>1, <1>13
<1> QED
  BY <1>1, <1>7, <1>11, <1>14 DEF N

\* When the loop is over no slot of the account is linked.
LEMMA AllSlotsRemoved ==
    ASSUME SlotsHeld(slist, cur), NEW a \in Accts, NEW u,
           \A j \in Slots : u[a].slots[j] = 0, \A b \in Accts : b # a => u[b] = cur[b]
    PROVE  SlotsHeld(remove_all_account_slots(a), u) /\ SlotsStay(slist, remove_all_account_slots(a))
<1> DEFINE l == remove_all_account_slots(a)
           x == Rank(a, 0)
           r == SlotRanks(l)
           nx == Nexts(l)
<1>1. PICK p \in Live(slist) : /\ Hint(AddressSlotsHints(a)) = p
                               /\ Lo(SlotRanks(slist), p) <= x
                               /\ x < SlotRanks(slist)[Nexts(slist)[p]]
                               /\ p = 1 \/ slist[p].addr # a
  BY AddressSlotsHintIs
<1>2. Clearing(slist, cur, p, a, Len(slist), l)
  BY <1>1, LoopEquation DEF remove_all_account_slots
<1> HIDE DEF l
<1>3. PICK t : PartlyCleared(cur, a, t) /\ SlotsHeld(l, t)
  BY <1>2 DEF Clearing
<1>4. /\ SlotsStay(slist, l) /\ Len(l) = Len(slist)
      /\ p \in Live(l) /\ r = SlotRanks(slist)
      /\ l[l[p].next].addr # a \/ Cardinality(Live(l)) + Len(slist) <= Len(slist)
  BY <1>2 DEF Clearing
<1>5. Len(slist) \in Nat
  BY SlotCycle
<1>6. l[l[p].next].addr # a
  <2>1. IsFiniteSet(Live(l)) /\ Cardinality(Live(l)) \in Nat
    BY <1>4, <1>5, LiveFinite
  <2>2. Cardinality(Live(l)) # 0
    BY <1>4, <2>1, FS_EmptySet
  <2> QED
    BY <1>4, <1>5, <2>1, <2>2
<1>7. Cycle(r, nx, Live(l), Rank(Top, 0))
  BY <1>3 DEF SlotsHeld
<1>8. \A i \in Live(l) : /\ i \in 1 .. Len(l) /\ nx[i] = l[i].next /\ nx[i] \in Live(l)
                         /\ r[i] = Rank(l[i].addr, l[i].key)
                         /\ l[i].addr \in Nat /\ l[i].key \in Nat /\ l[i].key < Top
  BY <1>3, SlotCycle
<1>9. a \in Nat /\ 0 < Top /\ x \in Nat
  BY KeysTyped, SlotRankTyped, StateListsAssumption
<1>10. \A i \in Live(l) \ {1} : l[i].key \in Slots /\ 0 < l[i].key
  BY <1>3, KeysTyped DEF SlotsHeld
<1>11. Lo(r, p) <= x
  BY <1>1, <1>4
<1> HIDE DEF r, nx
<1>12. ASSUME NEW i \in Live(l) \ {1}, l[i].addr = a
       PROVE  FALSE
  <2> DEFINE m == nx[p]
             b == l[m].addr
             j == l[m].key
             k == l[i].key
  <2>1. m \in Live(l) /\ b \in Nat /\ j \in Nat /\ j < Top /\ b # a /\ r[m] = Rank(b, j)
    BY <1>4, <1>6, <1>8
  <2>2. k \in Nat /\ k < Top /\ 0 < k /\ r[i] = Rank(a, k)
    BY <1>8, <1>10, <1>12
  <2>3. Lo(r, p) \in Nat /\ r[m] \in Nat /\ r[i] \in Nat
    BY <1>4, <1>7, <2>1, CycleTypes
  <2> HIDE DEF b, j, k, m
  <2>4. x < Rank(a, k)
    <3>1. Rank(a, 0) < Rank(a, k)
      BY <1>9, <2>2, RankOrder
    <3> QED
      BY <3>1
  <2> HIDE DEF x
  <2>5. r[m] <= r[i]
    <3>1. Lo(r, p) < r[i]
      BY <1>9, <1>11, <2>2, <2>3, <2>4
    <3> QED
      BY <3>1, <1>4, <1>7 DEF Cycle, m
  <2>6. b < a
    <3>1. Rank(b, j) <= Rank(a, k)
      BY <2>1, <2>2, <2>5
    <3> QED
      BY <1>9, <2>1, <2>2, <3>1, RankOrder
  <2>7. Lo(r, p) < r[m]
    BY <1>4, <1>7 DEF Cycle, m
  <2>8. m # 1
    <3>1. l[1].addr = Top /\ a < Top /\ Top \in Nat
      BY <1>3, SlotCycle, KeysTyped, StateListsAssumption
    <3> QED
      BY <1>9, <2>1, <2>6, <3>1 DEF b
  <2>9. x < r[m]
    <3> DEFINE q == SlotRanks(slist)[Nexts(slist)[p]]
    <3>1. Cycle(SlotRanks(slist), Nexts(slist), Live(slist), Rank(Top, 0)) /\ m \in Live(slist) \ {1}
      <4>1. Cycle(SlotRanks(slist), Nexts(slist), Live(slist), Rank(Top, 0))
        BY DEF SlotsHeld
      <4>2. Live(l) \subseteq Live(slist)
        BY <1>2 DEF Clearing
      <4> QED
        BY <4>1, <4>2, <2>1, <2>8
    <3>2. Lo(SlotRanks(slist), p) < SlotRanks(slist)[m]
      BY <1>4, <2>7
    <3>3. q <= SlotRanks(slist)[m] /\ q \in Nat
      <4>1. q \in Nat
        BY <3>1, CycleTypes
      <4> QED
        BY <3>1, <3>2, <4>1 DEF Cycle
    <3>4. x < q /\ SlotRanks(slist)[m] = r[m]
      BY <1>1, <1>4
    <3> HIDE DEF q
    <3> QED
      BY <1>9, <2>3, <3>3, <3>4
  <2>10. a < b
    <3>1. Rank(a, 0) < Rank(b, j)
      BY <2>1, <2>9 DEF x
    <3> QED
      BY <1>9, <2>1, <3>1, RankOrder
  <2> QED
    BY <1>9, <2>1, <2>6, <2>10
<1>13. \A b \in Accts, j \in Slots : u[b].slots[j] = t[b].slots[j]
  <2> SUFFICES ASSUME NEW b \in Accts, NEW j \in Slots PROVE u[b].slots[j] = t[b].slots[j]
    OBVIOUS
  <2>1. CASE b = a
    <3>1. t[a].slots[j] = 0
      <4> SUFFICES ASSUME t[a].slots[j] # 0 PROVE FALSE
        OBVIOUS
      <4>1. \E i \in Live(l) \ {1} : l[i].addr = a /\ l[i].key = j
        BY <1>3 DEF SlotsHeld
      <4> QED
        BY <4>1, <1>12
    <3> QED
      BY <2>1, <3>1
  <2>2. CASE b # a
    BY <2>2, <1>3 DEF PartlyCleared
  <2> QED
    BY <2>1, <2>2
<1>14. SlotsHeld(l, u)
  BY <1>3, <1>13, SlotsOnly
<1> QED
  BY <1>4, <1>14 DEF l

-----------------------------------------------------------------------------
(* The lists as they are loaded.                                           *)

AccountNode(b, v, n) == [addr |-> b, val |-> v, root |-> NoSlots, ival |-> v, iroot |-> NoSlots, next |-> n]
SlotNode(b, k, v, n) == [addr |-> b, key |-> k, val |-> v, ival |-> v, next |-> n]

\* Nodes built from numbers are nodes.
LEMMA NodesTyped ==
    /\ \A b \in Nat, v \in Nat, n \in Nat :
          LET d == AccountNode(b, v, n)
          IN  d \in AccountNodes /\ d.addr = b /\ d.val = v /\ d.ival = v /\ d.next = n
    /\ \A b \in Nat, k \in 0 .. Top - 1, v \in Nat, n \in Nat :
          LET d == SlotNode(b, k, v, n)
          IN  d \in SlotNodes /\ d.addr = b /\ d.key = k /\ d.val = v /\ d.ival = v /\ d.next = n
BY DEF AccountNodes, AccountNode, SlotNodes, SlotNode

\* A slot's node built from numbers is one.
LEMMA SlotNodeTyped ==
    ASSUME NEW b \in Nat, NEW k \in 0 .. Top - 1, NEW v \in Nat, NEW n \in Nat
    PROVE  /\ SlotNode(b, k, v, n) \in SlotNodes
           /\ SlotNode(b, k, v, n).addr = b /\ SlotNode(b, k, v, n).key = k
           /\ SlotNode(b, k, v, n).val = v /\ SlotNode(b, k, v, n).ival = v
           /\ SlotNode(b, k, v, n).next = n
BY DEF SlotNodes, SlotNode

\* The payload of a node that has been read is copied.
LEMMA PayloadCopied ==
    /\ \A b, v, n :
          LET d == [addr |-> b, val |-> v, root |-> NoSlots, ival |-> 0, iroot |-> NoSlots, next |-> n]
          IN  [d EXCEPT !.ival = d.val] = AccountNode(b, v, n)
    /\ \A b, k, v, n :
          LET d == [addr |-> b, key |-> k, val |-> v, ival |-> 0, next |-> n]
          IN  [d EXCEPT !.ival = d.val] = SlotNode(b, k, v, n)
BY DEF AccountNode, SlotNode

\* A function on 1 .. n is a sequence.
LEMMA FunctionIsSequence ==
    ASSUME NEW S, NEW n \in Nat, NEW f, f = [i \in 1 .. n |-> f[i]], \A i \in 1 .. n : f[i] \in S
    PROVE  f \in Seq(S) /\ Len(f) = n
<1>1. f \in [1 .. n -> S]
  OBVIOUS
<1>2. f \in Seq(S)
  BY <1>1
<1>3. DOMAIN f = 1 .. n /\ DOMAIN f = 1 .. Len(f) /\ Len(f) \in Nat
  BY <1>1, <1>2
<1> QED
  BY <1>2, <1>3

\* The list of accounts as it is loaded, node by node.
LEMMA LoadedAccounts ==
    ASSUME pre \in States, alist = StoreInitial(LoadAccounts(pre))
    PROVE  LET n == InitialAccounts
           IN  /\ n \in Nat /\ 0 < n /\ alist \in Seq(AccountNodes) /\ Len(alist) = n
               /\ alist[1].addr = Top
               /\ \A i \in 1 .. n : alist[i].next = Chained(i, n)
               /\ \A i \in 2 .. n : /\ alist[i].addr = AccountLeaf(pre, i - 1)
                                    /\ alist[i].val = pre[alist[i].addr].val
                                    /\ alist[i].ival = pre[alist[i].addr].val
<1> DEFINE n == 1 + Cardinality(Accounts(pre))
           b(i) == IF i = 1 THEN Top ELSE AccountLeaf(pre, i - 1)
           v(i) == IF i = 1 THEN 0 ELSE pre[AccountLeaf(pre, i - 1)].val
           list == LoadAccounts(pre)
<1>1. n \in Nat /\ 0 < n
  BY AccountsFinite
<1>2. list = [i \in 1 .. n |-> [addr |-> b(i), val |-> v(i), root |-> NoSlots,
                                ival |-> 0, iroot |-> NoSlots, next |-> Chained(i, n)]]
  BY DEF LoadAccounts
<1>3. \A i \in 1 .. n : b(i) \in Nat /\ v(i) \in Nat /\ Chained(i, n) \in Nat
  <2> SUFFICES ASSUME NEW i \in 1 .. n PROVE b(i) \in Nat /\ v(i) \in Nat /\ Chained(i, n) \in Nat
    OBVIOUS
  <2>1. Chained(i, n) \in Nat
    BY <1>1 DEF Chained
  <2>2. CASE i = 1
    BY <2>1, <2>2, StateListsAssumption
  <2>3. CASE i # 1
    <3> DEFINE a == AccountLeaf(pre, i - 1)
    <3>1. i - 1 \in 1 .. Cardinality(Accounts(pre))
      BY <1>1, <2>3, AccountsFinite
    <3>2. a \in Accts
      BY <3>1, AccountLeaves, AccountsFinite
    <3>3. a \in Nat /\ pre[a].val \in Nat
      BY <3>2, KeysTyped, StatesTyped
    <3> QED
      BY <2>1, <2>3, <3>3
  <2> QED
    BY <2>2, <2>3
<1>3a. \A i \in 2 .. n : b(i) = AccountLeaf(pre, i - 1) /\ v(i) = pre[b(i)].val
  OBVIOUS
<1>3b. b(1) = Top
  OBVIOUS
<1> HIDE DEF b, v, n
<1>4. DOMAIN list = 1 .. n /\ Len(list) = n
  BY <1>1, <1>2
<1>5. \A i \in 1 .. n : list[i] = [addr |-> b(i), val |-> v(i), root |-> NoSlots,
                                   ival |-> 0, iroot |-> NoSlots, next |-> Chained(i, n)]
  BY <1>2
<1>6. \A i \in 1 .. n : [list[i] EXCEPT !.ival = list[i].val] = AccountNode(b(i), v(i), Chained(i, n))
  BY <1>5, PayloadCopied
<1>7. alist = [i \in 1 .. n |-> AccountNode(b(i), v(i), Chained(i, n))]
  BY <1>4, <1>6 DEF StoreInitial
<1>8. \A i \in 1 .. n : /\ alist[i] \in AccountNodes /\ alist[i].addr = b(i) /\ alist[i].val = v(i)
                        /\ alist[i].ival = v(i) /\ alist[i].next = Chained(i, n)
  <2>1. \A i \in 1 .. n : alist[i] = AccountNode(b(i), v(i), Chained(i, n))
    BY <1>7
  <2> QED
    BY <1>3, <2>1, NodesTyped
<1>9. alist \in Seq(AccountNodes) /\ Len(alist) = n
  <2>1. alist = [i \in 1 .. n |-> alist[i]]
    BY <1>7
  <2> QED
    BY <1>1, <1>8, <2>1, FunctionIsSequence
<1>10. InitialAccounts = n
  BY DEF InitialAccounts, n
<1>11. 1 \in 1 .. n /\ \A i \in 2 .. n : i \in 1 .. n
  BY <1>1
<1> QED
  BY <1>1, <1>3a, <1>3b, <1>8, <1>9, <1>10, <1>11

\* The list of slots as it is loaded, node by node.
LEMMA LoadedSlots ==
    ASSUME pre \in States, slist = StoreInitial(LoadSlots(pre))
    PROVE  LET n == InitialSlots
           IN  /\ n \in Nat /\ 0 < n /\ slist \in Seq(SlotNodes) /\ Len(slist) = n
               /\ slist[1].addr = Top /\ slist[1].key = 0
               /\ \A i \in 1 .. n : slist[i].next = Chained(i, n)
               /\ \A i \in 2 .. n : /\ slist[i].addr = SlotLeaf(pre, i - 1)[1]
                                    /\ slist[i].key = SlotLeaf(pre, i - 1)[2]
                                    /\ slist[i].val = pre[slist[i].addr].slots[slist[i].key]
                                    /\ slist[i].ival = pre[slist[i].addr].slots[slist[i].key]
<1> DEFINE n == 1 + Cardinality(Stored(pre))
           e(i) == SlotLeaf(pre, i - 1)
           b(i) == IF i = 1 THEN Top ELSE e(i)[1]
           k(i) == IF i = 1 THEN 0 ELSE e(i)[2]
           v(i) == IF i = 1 THEN 0 ELSE pre[e(i)[1]].slots[e(i)[2]]
           list == LoadSlots(pre)
<1>1. n \in Nat /\ 0 < n
  BY AccountsFinite
<1>2. list = [i \in 1 .. n |-> [addr |-> b(i), key |-> k(i), val |-> v(i),
                                ival |-> 0, next |-> Chained(i, n)]]
  BY DEF LoadSlots
<1>3. \A i \in 1 .. n : b(i) \in Nat /\ k(i) \in 0 .. Top - 1 /\ v(i) \in Nat /\ Chained(i, n) \in Nat
  <2> SUFFICES ASSUME NEW i \in 1 .. n
               PROVE  b(i) \in Nat /\ k(i) \in 0 .. Top - 1 /\ v(i) \in Nat /\ Chained(i, n) \in Nat
    OBVIOUS
  <2>1. Chained(i, n) \in Nat
    BY <1>1 DEF Chained
  <2>2. CASE i = 1
    BY <2>1, <2>2, StateListsAssumption
  <2>3. CASE i # 1
    <3>1. i - 1 \in 1 .. Cardinality(Stored(pre))
      BY <1>1, <2>3, AccountsFinite
    <3>2. e(i) \in Accts \X Slots
      BY <3>1, SlotLeaves, AccountsFinite
    <3> DEFINE a == e(i)[1]
               j == e(i)[2]
    <3>3. a \in Accts /\ j \in Slots
      BY <3>2
    <3> HIDE DEF a, j
    <3>4. a \in Nat /\ j \in Nat /\ j < Top /\ pre[a].slots[j] \in Nat
      BY <3>3, KeysTyped, StatesTyped
    <3>5. b(i) = a /\ k(i) = j /\ v(i) = pre[a].slots[j]
      BY <2>3 DEF a, j
    <3> HIDE DEF b, k, v
    <3> QED
      BY <2>1, <3>4, <3>5, StateListsAssumption
  <2> QED
    BY <2>2, <2>3
<1>3a. \A i \in 2 .. n : b(i) = SlotLeaf(pre, i - 1)[1] /\ k(i) = SlotLeaf(pre, i - 1)[2] /\ v(i) = pre[b(i)].slots[k(i)]
  OBVIOUS
<1>3b. b(1) = Top /\ k(1) = 0
  OBVIOUS
<1> HIDE DEF b, v, k, n
<1>4. DOMAIN list = 1 .. n /\ Len(list) = n
  BY <1>1, <1>2
<1>5. \A i \in 1 .. n : list[i] = [addr |-> b(i), key |-> k(i), val |-> v(i),
                                   ival |-> 0, next |-> Chained(i, n)]
  BY <1>2
<1>6. \A i \in 1 .. n : [list[i] EXCEPT !.ival = list[i].val] = SlotNode(b(i), k(i), v(i), Chained(i, n))
  BY <1>5, PayloadCopied
<1>7. slist = [i \in 1 .. n |-> SlotNode(b(i), k(i), v(i), Chained(i, n))]
  BY <1>4, <1>6 DEF StoreInitial
<1>8. \A i \in 1 .. n : /\ slist[i] \in SlotNodes /\ slist[i].addr = b(i) /\ slist[i].key = k(i)
                        /\ slist[i].val = v(i) /\ slist[i].ival = v(i) /\ slist[i].next = Chained(i, n)
  <2>1. \A i \in 1 .. n : slist[i] = SlotNode(b(i), k(i), v(i), Chained(i, n))
    BY <1>7
  <2> SUFFICES ASSUME NEW i \in 1 .. n
               PROVE  /\ slist[i] \in SlotNodes /\ slist[i].addr = b(i) /\ slist[i].key = k(i)
                      /\ slist[i].val = v(i) /\ slist[i].ival = v(i) /\ slist[i].next = Chained(i, n)
    OBVIOUS
  <2>2. b(i) \in Nat /\ k(i) \in 0 .. Top - 1 /\ v(i) \in Nat /\ Chained(i, n) \in Nat
    BY <1>3
  <2>3. slist[i] = SlotNode(b(i), k(i), v(i), Chained(i, n))
    BY <2>1
  <2> DEFINE bb == b(i)
             kk == k(i)
             vv == v(i)
             nn == Chained(i, n)
             d == SlotNode(bb, kk, vv, nn)
  <2>4. bb \in Nat /\ kk \in 0 .. Top - 1 /\ vv \in Nat /\ nn \in Nat
    BY <2>2
  <2> HIDE DEF bb, kk, vv, nn
  <2>5. d \in SlotNodes /\ d.addr = bb /\ d.key = kk /\ d.val = vv /\ d.ival = vv /\ d.next = nn
    BY <2>4, SlotNodeTyped
  <2> QED
    BY <2>3, <2>5 DEF bb, kk, vv, nn
<1>9. slist \in Seq(SlotNodes) /\ Len(slist) = n
  <2>1. slist = [i \in 1 .. n |-> slist[i]]
    BY <1>7
  <2> QED
    BY <1>1, <1>8, <2>1, FunctionIsSequence
<1>10. InitialSlots = n
  BY DEF InitialSlots, n
<1>11. 1 \in 1 .. n /\ \A i \in 2 .. n : i \in 1 .. n
  BY <1>1
<1> QED
  BY <1>1, <1>3a, <1>3b, <1>8, <1>9, <1>10, <1>11

\* The accounts that are loaded are held.
LEMMA AccountsHeldAtFirst ==
    ASSUME pre \in States, alist = StoreInitial(LoadAccounts(pre))
    PROVE  AccountsHeld(alist, pre)
<1> DEFINE n == InitialAccounts
           C == Cardinality(Accounts(pre))
<1>1. /\ n \in Nat /\ 0 < n /\ alist \in Seq(AccountNodes) /\ Len(alist) = n
      /\ alist[1].addr = Top
      /\ \A i \in 1 .. n : alist[i].next = Chained(i, n)
      /\ \A i \in 2 .. n : /\ alist[i].addr = AccountLeaf(pre, i - 1)
                           /\ alist[i].val = pre[alist[i].addr].val
  BY LoadedAccounts
<1>2. n = 1 + C /\ C \in Nat
  BY AccountsFinite DEF InitialAccounts
<1> HIDE DEF n, C
<1>3. Live(alist) = 1 .. n
  BY <1>1 DEF Live, Deleted, Chained
<1>4. \A i \in 2 .. n : i - 1 \in 1 .. C
  BY <1>1, <1>2
<1>5. \A i \in 2 .. n : alist[i].addr \in Accts /\ Exists(pre, alist[i].addr)
  <2> SUFFICES ASSUME NEW i \in 2 .. n PROVE alist[i].addr \in Accounts(pre)
    BY DEF Accounts
  <2> QED
    BY <1>1, <1>4, AccountLeaves DEF C
<1>6. \A i, j \in 2 .. n : i < j => alist[i].addr < alist[j].addr
  <2> SUFFICES ASSUME NEW i \in 2 .. n, NEW j \in 2 .. n, i < j PROVE alist[i].addr < alist[j].addr
    OBVIOUS
  <2>1. i - 1 \in 1 .. C /\ j - 1 \in 1 .. C /\ i - 1 < j - 1
    BY <1>1, <1>4
  <2>2. AccountLeaf(pre, i - 1) < AccountLeaf(pre, j - 1)
    BY <2>1, AccountLeavesRise DEF C
  <2> QED
    BY <1>1, <2>2
<1>7. \A i \in 1 .. n : AccountRanks(alist)[i] = alist[i].addr /\ Nexts(alist)[i] = Chained(i, n)
  BY <1>1 DEF AccountRanks, Nexts
<1>8. Cycle(AccountRanks(alist), Nexts(alist), Live(alist), Top)
  <2> DEFINE r == AccountRanks(alist)
             nx == Nexts(alist)
  <2>1. r[1] = Top /\ \A i \in 1 .. n : nx[i] = Chained(i, n)
    BY <1>1, <1>7
  <2>2. \A i \in 2 .. n : r[i] \in Nat /\ 0 < r[i] /\ r[i] < Top
    BY <1>1, <1>5, <1>7, KeysTyped
  <2>3. \A i, j \in 2 .. n : i < j => r[i] < r[j]
    BY <1>1, <1>6, <1>7
  <2>0. Top \in Nat /\ 0 < Top
    BY StateListsAssumption
  <2> HIDE DEF r, nx
  <2>4. Cycle(r, nx, 1 .. n, Top)
    BY <1>1, <2>0, <2>1, <2>2, <2>3, RisingIsCycle
  <2> QED
    BY <1>3, <2>4 DEF r, nx
<1>9. \A i \in Live(alist) \ {1} : i \in 2 .. n
  BY <1>1, <1>3
<1>10. ASSUME NEW a \in Accts, Exists(pre, a)
       PROVE  \E i \in Live(alist) \ {1} : alist[i].addr = a
  <2>1. PICK j \in 1 .. C : a = AccountLeaf(pre, j)
    BY <1>10, AccountLeavesRise DEF Accounts, C
  <2>2. j + 1 \in 2 .. n /\ (j + 1) - 1 = j /\ j + 1 \in Live(alist) \ {1}
    BY <1>2, <1>3
  <2> QED
    BY <1>1, <2>1, <2>2
<1> QED
  BY <1>1, <1>5, <1>8, <1>9, <1>10 DEF AccountsHeld

\* The slots that are loaded are held.
LEMMA SlotsHeldAtFirst ==
    ASSUME pre \in States, slist = StoreInitial(LoadSlots(pre))
    PROVE  SlotsHeld(slist, pre)
<1> DEFINE n == InitialSlots
           C == Cardinality(Stored(pre))
           e(i) == SlotLeaf(pre, i - 1)
<1>1. /\ n \in Nat /\ 0 < n /\ slist \in Seq(SlotNodes) /\ Len(slist) = n
      /\ slist[1].addr = Top /\ slist[1].key = 0
      /\ \A i \in 1 .. n : slist[i].next = Chained(i, n)
      /\ \A i \in 2 .. n : /\ slist[i].addr = e(i)[1] /\ slist[i].key = e(i)[2]
                           /\ slist[i].val = pre[slist[i].addr].slots[slist[i].key]
  BY LoadedSlots
<1>2. n = 1 + C /\ C \in Nat
  BY AccountsFinite DEF InitialSlots
<1> HIDE DEF n, C
<1>3. Live(slist) = 1 .. n
  BY <1>1 DEF Live, Deleted, Chained
<1>4. \A i \in 2 .. n : i - 1 \in 1 .. C
  BY <1>1, <1>2
<1>5. ASSUME NEW i \in 2 .. n
      PROVE  /\ slist[i].addr \in Accts /\ slist[i].key \in Slots
             /\ pre[slist[i].addr].slots[slist[i].key] # 0
             /\ Rank(slist[i].addr, slist[i].key) = PairRank(e(i)) /\ e(i) \in Accts \X Slots
  <2>1. e(i) \in Stored(pre)
    BY <1>4, SlotLeaves DEF C
  <2> HIDE DEF e
  <2>2. e(i) \in Accts \X Slots /\ pre[e(i)[1]].slots[e(i)[2]] # 0
    BY <2>1 DEF Stored
  <2>3. e(i)[1] \in Accts /\ e(i)[2] \in Slots
    BY <2>2
  <2> QED
    BY <1>1, <2>2, <2>3 DEF PairRank
<1>6. \A i, j \in 2 .. n : i < j => PairRank(e(i)) < PairRank(e(j))
  <2> SUFFICES ASSUME NEW i \in 2 .. n, NEW j \in 2 .. n, i < j PROVE PairRank(e(i)) < PairRank(e(j))
    OBVIOUS
  <2>1. i - 1 \in 1 .. C /\ j - 1 \in 1 .. C /\ i - 1 < j - 1
    BY <1>1, <1>4
  <2> QED
    BY <2>1, SlotLeavesRise DEF C
<1> HIDE DEF e
<1>7. \A i \in 1 .. n : SlotRanks(slist)[i] = Rank(slist[i].addr, slist[i].key) /\ Nexts(slist)[i] = Chained(i, n)
  BY <1>1 DEF SlotRanks, Nexts
<1>8. Cycle(SlotRanks(slist), Nexts(slist), Live(slist), Rank(Top, 0))
  <2> DEFINE r == SlotRanks(slist)
             nx == Nexts(slist)
             t == Rank(Top, 0)
  <2>1. r[1] = t /\ \A i \in 1 .. n : nx[i] = Chained(i, n)
    BY <1>1, <1>7
  <2>2. \A i \in 2 .. n : r[i] = PairRank(e(i)) /\ e(i) \in Accts \X Slots
    BY <1>1, <1>5, <1>7
  <2>3. t \in Nat /\ 0 < t
    BY StateListsAssumption DEF Rank
  <2>4. \A i \in 2 .. n : r[i] \in Nat /\ 0 < r[i] /\ r[i] < t
    BY <2>2, PairOrder
  <2>5. \A i, j \in 2 .. n : i < j => r[i] < r[j]
    BY <1>6, <2>2
  <2> HIDE DEF r, nx, t
  <2>6. Cycle(r, nx, 1 .. n, t)
    BY <1>1, <2>1, <2>3, <2>4, <2>5, RisingIsCycle
  <2> QED
    BY <1>3, <2>6 DEF r, nx, t
<1>9. \A i \in Live(slist) \ {1} : i \in 2 .. n
  BY <1>1, <1>3
<1>10. ASSUME NEW a \in Accts, NEW k \in Slots, pre[a].slots[k] # 0
       PROVE  \E i \in Live(slist) \ {1} : slist[i].addr = a /\ slist[i].key = k
  <2> DEFINE f == <<a, k>>
             j == Cardinality({g \in Stored(pre) : UpTo(g, f)})
  <2>1. f \in Stored(pre)
    BY <1>10 DEF Stored
  <2> HIDE DEF f
  <2>2. j \in 1 .. C /\ f = SlotLeaf(pre, j)
    BY <2>1, SlotLeavesRise DEF C
  <2> HIDE DEF j
  <2>3. j + 1 \in 2 .. n /\ (j + 1) - 1 = j /\ j + 1 \in Live(slist) \ {1}
    BY <1>2, <1>3, <2>2
  <2>4. e(j + 1) = f /\ slist[j + 1].addr = e(j + 1)[1] /\ slist[j + 1].key = e(j + 1)[2]
    BY <1>1, <2>2, <2>3 DEF e
  <2> QED
    BY <2>3, <2>4 DEF f
<1> QED
  BY <1>1, <1>5, <1>8, <1>9, <1>10 DEF SlotsHeld

\* The invariant holds when the lists are loaded.
LEMMA ListsStart ==
    ASSUME ListsInit
    PROVE  ListsInv
<1>1. /\ pre \in States /\ cur = pre
      /\ alist = StoreInitial(LoadAccounts(pre)) /\ slist = StoreInitial(LoadSlots(pre))
  BY DEF ListsInit, Loaded
<1>2. AccountsHeld(alist, cur)
  BY <1>1, AccountsHeldAtFirst
<1>3. SlotsHeld(slist, cur)
  BY <1>1, SlotsHeldAtFirst
<1>4. InitialKept
  <2>1. /\ InitialAccounts \in Nat /\ Len(alist) = InitialAccounts
        /\ \A i \in 1 .. InitialAccounts : alist[i].next = Chained(i, InitialAccounts)
        /\ \A i \in 2 .. InitialAccounts : /\ alist[i].addr = AccountLeaf(pre, i - 1)
                                           /\ alist[i].ival = pre[alist[i].addr].val
    BY <1>1, LoadedAccounts
  <2>2. /\ InitialSlots \in Nat /\ Len(slist) = InitialSlots
        /\ \A i \in 2 .. InitialSlots : /\ slist[i].addr = SlotLeaf(pre, i - 1)[1]
                                        /\ slist[i].key = SlotLeaf(pre, i - 1)[2]
                                        /\ slist[i].ival = pre[slist[i].addr].slots[slist[i].key]
    BY <1>1, LoadedSlots
  <2>3. \A i \in 2 .. InitialAccounts : alist[i].next # Deleted
    BY <2>1 DEF Chained, Deleted
  <2> QED
    BY <2>1, <2>2, <2>3 DEF InitialKept
<1> QED
  BY <1>1, <1>2, <1>3, <1>4 DEF ListsInv

-----------------------------------------------------------------------------
(* The steps keep the invariant.                                           *)

\* When nodes stay where they are, and none is unlinked but those of D, the initial
\* nodes are kept.
LEMMA StillKept ==
    ASSUME ListsInv, pre' = pre, AccountsStay(alist, alist'), SlotsStay(slist, slist'),
           Len(alist') \in Nat, Len(slist') \in Nat,
           NEW D, Live(alist) \ D \subseteq Live(alist'), \A i \in D : pre[alist[i].addr].slots = NoSlots
    PROVE  InitialKept'
<1> DEFINE n == InitialAccounts
           m == InitialSlots
<1>1. n' = n /\ m' = m
  BY DEF InitialAccounts, InitialSlots
<1>2. /\ n <= Len(alist)
      /\ \A i \in 2 .. n : /\ alist[i].addr = AccountLeaf(pre, i - 1)
                           /\ alist[i].ival = pre[alist[i].addr].val
                           /\ alist[i].next = Deleted => pre[alist[i].addr].slots = NoSlots
      /\ m <= Len(slist)
      /\ \A i \in 2 .. m : /\ slist[i].addr = SlotLeaf(pre, i - 1)[1]
                           /\ slist[i].key = SlotLeaf(pre, i - 1)[2]
                           /\ slist[i].ival = pre[slist[i].addr].slots[slist[i].key]
  BY DEF ListsInv, InitialKept
<1>3. n \in Nat /\ m \in Nat /\ Len(alist) \in Nat /\ Len(slist) \in Nat
  <2>1. n \in Nat /\ m \in Nat
    BY AccountsFinite DEF InitialAccounts, InitialSlots
  <2>2. Len(alist) \in Nat /\ Len(slist) \in Nat
    BY AccountCycle, SlotCycle DEF ListsInv
  <2> QED
    BY <2>1, <2>2
<1> HIDE DEF n, m
<1>4. \A i \in 2 .. n : i \in 1 .. Len(alist)
  BY <1>2, <1>3
<1>5. \A i \in 2 .. m : i \in 1 .. Len(slist)
  BY <1>2, <1>3
<1>6. n <= Len(alist') /\ m <= Len(slist')
  BY <1>2, <1>3 DEF AccountsStay, SlotsStay
<1>7. \A i \in 2 .. n : /\ alist'[i].addr = AccountLeaf(pre, i - 1)
                        /\ alist'[i].ival = pre[alist'[i].addr].val
  BY <1>2, <1>4 DEF AccountsStay
<1>8. ASSUME NEW i \in 2 .. n, alist'[i].next = Deleted
      PROVE  pre[alist'[i].addr].slots = NoSlots
  <2>1. i \notin Live(alist') /\ alist'[i].addr = alist[i].addr
    BY <1>4, <1>8 DEF AccountsStay, Live
  <2>2. i \in D \/ alist[i].next = Deleted
    BY <1>4, <2>1 DEF Live
  <2> QED
    BY <1>2, <2>1, <2>2
<1>9. \A i \in 2 .. m : /\ slist'[i].addr = SlotLeaf(pre, i - 1)[1]
                        /\ slist'[i].key = SlotLeaf(pre, i - 1)[2]
                        /\ slist'[i].ival = pre[slist'[i].addr].slots[slist'[i].key]
  BY <1>2, <1>5 DEF SlotsStay
<1>10. /\ InitialAccounts' <= Len(alist')
       /\ \A i \in 2 .. InitialAccounts' :
             /\ alist'[i].addr = AccountLeaf(pre', i - 1)
             /\ alist'[i].ival = pre'[alist'[i].addr].val
             /\ alist'[i].next = Deleted => pre'[alist'[i].addr].slots = NoSlots
       /\ InitialSlots' <= Len(slist')
       /\ \A i \in 2 .. InitialSlots' :
             /\ slist'[i].addr = SlotLeaf(pre', i - 1)[1]
             /\ slist'[i].key = SlotLeaf(pre', i - 1)[2]
             /\ slist'[i].ival = pre'[slist'[i].addr].slots[slist'[i].key]
  <2>1. InitialAccounts' = n /\ InitialSlots' = m
    BY <1>1 DEF n, m
  <2> QED
    BY <1>6, <1>7, <1>8, <1>9, <2>1
<1> QED
  BY <1>10 DEF InitialKept

\* The same when no account is unlinked.
LEMMA AllStillKept ==
    ASSUME ListsInv, pre' = pre, AccountsStay(alist, alist'), SlotsStay(slist, slist'),
           Len(alist') \in Nat, Len(slist') \in Nat, Live(alist) \subseteq Live(alist')
    PROVE  InitialKept'
<1> DEFINE D == {}
<1>1. Live(alist) \ D \subseteq Live(alist') /\ \A i \in D : pre[alist[i].addr].slots = NoSlots
  OBVIOUS
<1> HIDE DEF D
<1> QED
  BY <1>1, StillKept

\* The parts of the invariant.
LEMMA ListsInvParts ==
    ASSUME ListsInv
    PROVE  /\ pre \in States /\ cur \in States
           /\ AccountsHeld(alist, cur) /\ SlotsHeld(slist, cur) /\ InitialKept
           /\ Len(alist) \in Nat /\ Len(slist) \in Nat
           /\ AccountsStay(alist, alist) /\ SlotsStay(slist, slist)
<1>1. /\ pre \in States /\ cur \in States
      /\ AccountsHeld(alist, cur) /\ SlotsHeld(slist, cur) /\ InitialKept
  BY DEF ListsInv
<1>2. Len(alist) \in Nat /\ Len(slist) \in Nat
  BY <1>1, AccountCycle, SlotCycle
<1> QED
  BY <1>1, <1>2 DEF AccountsStay, SlotsStay

\* Inserting an account keeps the invariant.
LEMMA InsertAccountKeeps ==
    ASSUME ListsInv, NEW a \in Accts, NEW v \in Values, InsertAccount(a, v)
    PROVE  ListsInv'
<1> USE ListsInvParts
<1>1. /\ alist' = insert_account_with_overwrite(a, v) /\ cur' = WithPayload(cur, a, v)
      /\ slist' = slist /\ pre' = pre
  BY DEF InsertAccount, WithPayload
<1>2. PICK p \in Live(alist) : /\ Hint(AccountHints(a)) = p
                               /\ PlaceOfAccount(p, a) \/ NodeOfAccount(p, a)
  BY AccountHintIs
<1>3. v \in Nat /\ a \in Nat
  BY StateListsAssumption, KeysTyped
<1>4. AccountsHeld(alist', cur') /\ AccountsStay(alist, alist') /\ Live(alist) \subseteq Live(alist')
  <2>1. CASE PlaceOfAccount(p, a)
    <3> DEFINE node == AccountNode(a, v, 1)
    <3>1. alist' = Link(alist, p, node)
      BY <1>1, <1>2, <2>1 DEF insert_account_with_overwrite, PlaceOfAccount, AccountNode
    <3>2. node \in AccountNodes /\ node.addr = a /\ node.val = v
      BY <1>3, NodesTyped
    <3> HIDE DEF node
    <3> QED
      BY <1>1, <2>1, <3>1, <3>2, LinkAccount
  <2>2. CASE NodeOfAccount(p, a)
    <3> DEFINE d == [[alist[p] EXCEPT !.val = v] EXCEPT !.root = NoSlots]
    <3>1. p # 1 /\ alist[p].addr = a /\ p \in 1 .. Len(alist)
      BY <2>2, AccountCycle DEF NodeOfAccount
    <3>2. alist' = [[alist EXCEPT ![p].val = v] EXCEPT ![p].root = NoSlots]
      BY <1>1, <1>2, <1>3, <3>1 DEF insert_account_with_overwrite
    <3>3. alist' = [alist EXCEPT ![p] = d]
      BY <3>1, <3>2
    <3>4. alist[p] \in AccountNodes /\ alist \in Seq(AccountNodes)
      BY <3>1 DEF AccountsHeld
    <3>5. d \in AccountNodes /\ d.addr = alist[p].addr /\ d.next = alist[p].next /\ d.ival = alist[p].ival /\ d.val = v
      BY <1>3, <3>4 DEF AccountNodes
    <3> HIDE DEF d
    <3>6. /\ alist' \in Seq(AccountNodes) /\ Len(alist') = Len(alist) /\ alist'[p] = d
          /\ \A i \in 1 .. Len(alist) : i # p => alist'[i] = alist[i]
      BY <3>1, <3>3, <3>4, <3>5
    <3> QED
      BY <1>1, <2>2, <3>5, <3>6, OverwriteAccount
  <2> QED
    BY <1>2, <2>1, <2>2
<1>5. cur' \in States /\ \A b \in Accts : cur'[b].slots = cur[b].slots
  BY <1>1, WithPayloadIs
<1>6. SlotsHeld(slist', cur')
  BY <1>1, <1>5, SlotsOnly
<1>7. InitialKept'
  <2>1. Len(alist') \in Nat
    BY <1>4 DEF AccountsHeld
  <2> QED
    BY <1>1, <1>4, <2>1, AllStillKept
<1> QED
  BY <1>1, <1>4, <1>5, <1>6, <1>7 DEF ListsInv

\* Writing an account's payload keeps the invariant.
LEMMA WriteAccountKeeps ==
    ASSUME ListsInv, NEW a \in Accts, NEW v \in Values, WriteAccount(a, v)
    PROVE  ListsInv'
<1> USE ListsInvParts
<1>1. /\ search_account(a) # 0 /\ cur' = WithPayload(cur, a, v)
      /\ alist' = [alist EXCEPT ![search_account(a)].val = v]
      /\ slist' = slist /\ pre' = pre
  BY DEF WriteAccount, WithPayload
<1>0. cur' = WithPayload(cur, a, v) /\ slist' = slist /\ pre' = pre
  BY <1>1
<1>2. PICK p \in Live(alist) : /\ Hint(AccountHints(a)) = p
                               /\ PlaceOfAccount(p, a) \/ NodeOfAccount(p, a)
  BY AccountHintIs
<1>3. v \in Nat /\ a \in Nat
  BY StateListsAssumption, KeysTyped
<1>4. NodeOfAccount(p, a)
  <2>1. PlaceOfAccount(p, a) => search_account(a) = 0
    BY <1>2 DEF search_account, PlaceOfAccount
  <2> QED
    BY <1>1, <1>2, <2>1
<1>5. search_account(a) = p /\ p \in 1 .. Len(alist)
  <2>1. p # 1 /\ alist[p].addr = a /\ p \in 1 .. Len(alist)
    BY <1>4, AccountCycle DEF NodeOfAccount
  <2> QED
    BY <1>2, <1>3, <2>1 DEF search_account
<1> DEFINE d == [alist[p] EXCEPT !.val = v]
<1>6. alist' = [alist EXCEPT ![p] = d]
  BY <1>1, <1>5
<1>7. alist[p] \in AccountNodes /\ alist \in Seq(AccountNodes)
  BY <1>5 DEF AccountsHeld
<1>8. d \in AccountNodes /\ d.addr = alist[p].addr /\ d.next = alist[p].next /\ d.ival = alist[p].ival /\ d.val = v
  BY <1>3, <1>7 DEF AccountNodes
<1> HIDE DEF d
<1>9. /\ alist' \in Seq(AccountNodes) /\ Len(alist') = Len(alist) /\ alist'[p] = d
      /\ \A i \in 1 .. Len(alist) : i # p => alist'[i] = alist[i]
  BY <1>5, <1>6, <1>7, <1>8
<1>10. AccountsHeld(alist', cur') /\ AccountsStay(alist, alist') /\ Live(alist) \subseteq Live(alist')
  BY <1>0, <1>4, <1>8, <1>9, OverwriteAccount
<1>11. cur' \in States /\ \A b \in Accts : cur'[b].slots = cur[b].slots
  BY <1>1, WithPayloadIs
<1>12. SlotsHeld(slist', cur')
  BY <1>1, <1>11, SlotsOnly
<1>13. InitialKept'
  BY <1>0, <1>9, <1>10, AllStillKept
<1> QED
  BY <1>1, <1>10, <1>11, <1>12, <1>13 DEF ListsInv

\* A state without one of its accounts.
LEMMA WithoutAccountIs ==
    ASSUME NEW s \in States, NEW a \in Accts
    PROVE  LET t == [s EXCEPT ![a] = NoAccount]
           IN  /\ t \in States /\ ~Exists(t, a)
               /\ \A j \in Slots : t[a].slots[j] = 0
               /\ \A b \in Accts : b # a => t[b] = s[b]
<1> DEFINE t == [s EXCEPT ![a] = NoAccount]
<1>1. s \in [Accts -> {NoAccount} \cup [val : Values, slots : [Slots -> Values \cup {0}]]]
  BY DEF States
<1>2. t[a] = NoAccount /\ \A b \in Accts : b # a => t[b] = s[b]
  BY <1>1
<1>3. t \in States
  BY <1>1 DEF States
<1>4. NoAccount.val = 0 /\ \A j \in Slots : NoAccount.slots[j] = 0
  BY DEF NoAccount, NoSlots
<1> HIDE DEF t
<1>5. ~Exists(t, a) /\ \A j \in Slots : t[a].slots[j] = 0
  BY <1>2, <1>4 DEF Exists
<1> QED
  BY <1>2, <1>3, <1>5 DEF t

\* Deleting an account and its slots keeps the invariant.
LEMMA DeleteAccountKeeps ==
    ASSUME ListsInv, NEW a \in Accts, DeleteAccount(a)
    PROVE  ListsInv'
<1> USE ListsInvParts
<1>1. /\ Exists(cur, a) /\ pre[a].slots = NoSlots
      /\ alist' = remove_account(a) /\ slist' = remove_all_account_slots(a)
      /\ cur' = [cur EXCEPT ![a] = NoAccount] /\ pre' = pre
  BY DEF DeleteAccount
<1>2. /\ cur' \in States /\ ~Exists(cur', a)
      /\ \A j \in Slots : cur'[a].slots[j] = 0
      /\ \A b \in Accts : b # a => cur'[b] = cur[b]
  <2> DEFINE t == [cur EXCEPT ![a] = NoAccount]
  <2>1. /\ t \in States /\ ~Exists(t, a) /\ \A j \in Slots : t[a].slots[j] = 0
        /\ \A b \in Accts : b # a => t[b] = cur[b]
    BY WithoutAccountIs
  <2>2. cur' = t
    BY <1>1
  <2> HIDE DEF t
  <2> QED
    BY <2>1, <2>2
<1>3. PICK p \in Live(alist) : Hint(RemoveAccountHints(a)) = p /\ NodeOfAccount(alist[p].next, a)
  BY <1>1, RemoveAccountHintIs
<1>4. alist' = Unlink(alist, p)
  BY <1>1, <1>3 DEF remove_account
<1>5. /\ AccountsHeld(alist', cur') /\ AccountsStay(alist, alist')
      /\ Live(alist') = Live(alist) \ {alist[p].next}
  BY <1>2, <1>3, <1>4, UnlinkAccount
<1>6. SlotsHeld(slist', cur') /\ SlotsStay(slist, slist')
  BY <1>1, <1>2, AllSlotsRemoved
<1>7. InitialKept'
  <2> DEFINE D == {alist[p].next}
  <2>1. Live(alist) \ D \subseteq Live(alist')
    BY <1>5
  <2>2. \A i \in D : pre[alist[i].addr].slots = NoSlots
    BY <1>1, <1>3 DEF NodeOfAccount
  <2>3. Len(alist') \in Nat /\ Len(slist') \in Nat
    BY <1>5, <1>6 DEF AccountsHeld, SlotsHeld
  <2> HIDE DEF D
  <2>4. pre' = pre
    BY <1>1
  <2> QED
    BY <1>5, <1>6, <2>1, <2>2, <2>3, <2>4, StillKept
<1>8. pre' \in States
  BY <1>1
<1> QED
  BY <1>2, <1>5, <1>6, <1>7, <1>8 DEF ListsInv

WithSlot(s, a, k, v) == [s EXCEPT ![a].slots[k] = v]

\* A state with another value in one slot.
LEMMA WithSlotIs ==
    ASSUME NEW s \in States, NEW a \in Accts, Exists(s, a), NEW k \in Slots, NEW v \in Values \cup {0}
    PROVE  LET t == WithSlot(s, a, k, v)
           IN  /\ t \in States /\ SlotChanged(s, a, k, v, t)
               /\ \A b \in Accts : t[b].val = s[b].val
<1> DEFINE t == WithSlot(s, a, k, v)
           R == {NoAccount} \cup [val : Values, slots : [Slots -> Values \cup {0}]]
           f == [s[a].slots EXCEPT ![k] = v]
           e == [s[a] EXCEPT !.slots = f]
<1>1. s \in [Accts -> R]
  BY DEF States
<1>2. s[a] = [val |-> s[a].val, slots |-> s[a].slots] /\ s[a].val \in Values /\ s[a].slots \in [Slots -> Values \cup {0}]
  BY StatesTyped
<1>3. f \in [Slots -> Values \cup {0}] /\ f[k] = v /\ \A j \in Slots : j # k => f[j] = s[a].slots[j]
  BY <1>2
<1>4. t = [s EXCEPT ![a] = e]
  BY DEF WithSlot
<1> HIDE DEF f
<1>5. e = [val |-> s[a].val, slots |-> f]
  BY <1>2
<1>6. e \in [val : Values, slots : [Slots -> Values \cup {0}]] /\ e.slots = f /\ e.val = s[a].val
  BY <1>2, <1>3, <1>5
<1> HIDE DEF e, t
<1>7. t[a] = e /\ t \in [Accts -> R] /\ \A b \in Accts : b # a => t[b] = s[b]
  BY <1>1, <1>4, <1>6
<1>8. t \in States
  BY <1>7 DEF States
<1>9. SlotChanged(s, a, k, v, t)
  <2>1. t[a].slots[k] = v
    BY <1>3, <1>6, <1>7
  <2>2. ASSUME NEW b \in Accts, NEW j \in Slots, <<b, j>> # <<a, k>>
        PROVE  t[b].slots[j] = s[b].slots[j]
    BY <1>3, <1>6, <1>7, <2>2
  <2> QED
    BY <2>1, <2>2 DEF SlotChanged
<1>10. \A b \in Accts : t[b].val = s[b].val
  BY <1>6, <1>7
<1> QED
  BY <1>8, <1>9, <1>10 DEF t

\* Only the payloads matter.
LEMMA PayloadsOnly ==
    ASSUME NEW list, NEW s, NEW t, AccountsHeld(list, s), \A b \in Accts : t[b].val = s[b].val
    PROVE  AccountsHeld(list, t)
<1>1. \A b \in Accts : Exists(t, b) <=> Exists(s, b)
  BY DEF Exists
<1> QED
  BY <1>1 DEF AccountsHeld

\* Writing a slot keeps the invariant, whether its node is linked, changed or unlinked.
LEMMA SStoreKeeps ==
    ASSUME ListsInv, NEW a \in Accts, NEW k \in Slots, NEW v \in Values \cup {0}, SStore(a, k, v)
    PROVE  ListsInv'
<1> USE ListsInvParts
<1>1. /\ Exists(cur, a) /\ v # search_slot(a, k)
      /\ v = 0 => slist' = remove_slot(a, k)
      /\ v # 0 => slist' = insert_slot_with_value(a, k, v)
      /\ cur' = [cur EXCEPT ![a].slots[k] = v]
      /\ alist' = alist /\ pre' = pre
  BY DEF SStore
<1>2. cur' \in States /\ SlotChanged(cur, a, k, v, cur') /\ \A b \in Accts : cur'[b].val = cur[b].val
  <2> DEFINE t == WithSlot(cur, a, k, v)
  <2>1. t \in States /\ SlotChanged(cur, a, k, v, t) /\ \A b \in Accts : t[b].val = cur[b].val
    BY <1>1, WithSlotIs
  <2>2. cur' = t
    BY <1>1 DEF WithSlot
  <2> HIDE DEF t
  <2> QED
    BY <2>1, <2>2
<1>3. a \in Nat /\ k \in Nat /\ k < Top
  BY KeysTyped
<1>4. SlotsHeld(slist', cur') /\ SlotsStay(slist, slist')
  <2>1. CASE v = 0
    <3>1. cur[a].slots[k] # 0
      BY <1>1, <2>1, ReadsAndHints DEF ReadsRight
    <3>2. PICK p \in Live(slist) : Hint(RemoveSlotHints(a, k)) = p /\ NodeOfSlot(slist[p].next, a, k)
      BY <3>1, RemoveSlotHintIs
    <3>3. slist' = Unlink(slist, p)
      BY <1>1, <2>1, <3>2 DEF remove_slot
    <3>4. slist[p].next # 1 /\ SlotChanged(cur, slist[slist[p].next].addr, slist[slist[p].next].key, 0, cur')
      BY <1>2, <2>1, <3>2 DEF NodeOfSlot
    <3> QED
      BY <3>2, <3>3, <3>4, UnlinkSlot
  <2>2. CASE v # 0
    <3>0. v \in Nat \ {0} /\ slist' = insert_slot_with_value(a, k, v)
      BY <1>1, <2>2, StateListsAssumption
    <3>1. PICK p \in Live(slist) : /\ Hint(SlotHints(a, k)) = p
                                   /\ PlaceOfSlot(p, a, k) \/ (NodeOfSlot(p, a, k) /\ ~Below(slist[p], a, k))
      BY SlotHintIs
    <3>2. CASE PlaceOfSlot(p, a, k)
      <4> DEFINE node == SlotNode(a, k, v, 1)
      <4>1. slist' = Link(slist, p, node)
        BY <3>0, <3>1, <3>2 DEF insert_slot_with_value, PlaceOfSlot, SlotNode
      <4>2. node \in SlotNodes /\ node.addr = a /\ node.key = k /\ node.val = v
        <5>1. k \in 0 .. Top - 1 /\ 1 \in Nat /\ v \in Nat
          BY <1>3, <3>0, StateListsAssumption
        <5> QED
          BY <1>3, <5>1, NodesTyped
      <4> HIDE DEF node
      <4> QED
        BY <1>2, <3>0, <3>2, <4>1, <4>2, LinkSlot
    <3>3. CASE NodeOfSlot(p, a, k) /\ ~Below(slist[p], a, k)
      <4> DEFINE d == [slist[p] EXCEPT !.val = v]
      <4>1. p # 1 /\ p \in 1 .. Len(slist)
        BY <3>3, SlotCycle DEF NodeOfSlot
      <4>2. slist' = [slist EXCEPT ![p] = d]
        BY <3>0, <3>1, <3>3, <4>1 DEF insert_slot_with_value
      <4>3. slist[p] \in SlotNodes /\ slist \in Seq(SlotNodes)
        BY <4>1 DEF SlotsHeld
      <4>4. /\ d \in SlotNodes /\ d.addr = slist[p].addr /\ d.key = slist[p].key
            /\ d.next = slist[p].next /\ d.ival = slist[p].ival /\ d.val = v
        BY <3>0, <4>3 DEF SlotNodes
      <4> HIDE DEF d
      <4>5. /\ slist' \in Seq(SlotNodes) /\ Len(slist') = Len(slist) /\ slist'[p] = d
            /\ \A i \in 1 .. Len(slist) : i # p => slist'[i] = slist[i]
        BY <4>1, <4>2, <4>3, <4>4
      <4>6. /\ slist'[p].addr = slist[p].addr /\ slist'[p].key = slist[p].key
            /\ slist'[p].next = slist[p].next /\ slist'[p].ival = slist[p].ival /\ slist'[p].val = v
        BY <4>4, <4>5
      <4> QED
        BY <1>2, <3>0, <3>3, <4>5, <4>6, OverwriteSlot
    <3> QED
      BY <3>1, <3>2, <3>3
  <2> QED
    BY <2>1, <2>2
<1>5. AccountsHeld(alist', cur')
  <2>1. alist' = alist
    BY <1>1
  <2> QED
    BY <1>2, <2>1, PayloadsOnly
<1>6. pre' = pre /\ alist' = alist
  BY <1>1
<1>7. Len(slist') \in Nat
  BY <1>4 DEF SlotsHeld
<1>8. InitialKept'
  BY <1>4, <1>6, <1>7, AllStillKept
<1> QED
  BY <1>2, <1>4, <1>5, <1>6, <1>8 DEF ListsInv

\* Every step keeps the invariant.
LEMMA ListsStep ==
    ASSUME ListsInv, [ListsNext]_listVars
    PROVE  ListsInv'
<1>1. ASSUME NEW a \in Accts, NEW v \in Values, InsertAccount(a, v)
      PROVE  ListsInv'
  BY <1>1, InsertAccountKeeps
<1>2. ASSUME NEW a \in Accts, NEW v \in Values, WriteAccount(a, v)
      PROVE  ListsInv'
  BY <1>2, WriteAccountKeeps
<1>3. ASSUME NEW a \in Accts, DeleteAccount(a)
      PROVE  ListsInv'
  BY <1>3, DeleteAccountKeeps
<1>4. ASSUME NEW a \in Accts, NEW k \in Slots, NEW v \in Values \cup {0}, SStore(a, k, v)
      PROVE  ListsInv'
  BY <1>4, SStoreKeeps
<1>5. CASE UNCHANGED listVars
  <2>1. alist' = alist /\ slist' = slist /\ pre' = pre /\ cur' = cur
    BY <1>5 DEF listVars
  <2>2. InitialKept'
    BY <2>1, ListsInvParts DEF InitialKept, InitialAccounts, InitialSlots
  <2> QED
    BY <2>1, <2>2, ListsInvParts DEF ListsInv
<1> QED
  BY <1>1, <1>2, <1>3, <1>4, <1>5 DEF ListsNext, EndPayload

-----------------------------------------------------------------------------
(* Where the slots of an account lie in memory.                            *)

EarlierSlots(s, a) == {e \in Stored(s) : e[1] < a}
OwnSlots(s, a) == {e \in Stored(s) : e[1] = a}
OwnKeys(s, a) == {k \in Slots : s[a].slots[k] # 0}
FirstSlot(s, a) == 2 + Cardinality(EarlierSlots(s, a))

\* As many slots of an account as keys.
LEMMA PairCount ==
    ASSUME NEW a \in Accts, NEW J, J \subseteq Slots
    PROVE  /\ Cardinality({e \in Accts \X Slots : e[1] = a /\ e[2] \in J}) = Cardinality(J)
           /\ IsFiniteSet({e \in Accts \X Slots : e[1] = a /\ e[2] \in J}) /\ Cardinality(J) \in Nat
<1> DEFINE E == {e \in Accts \X Slots : e[1] = a /\ e[2] \in J}
           f == [j \in J |-> <<a, j>>]
<1>1. IsFiniteSet(J) /\ Cardinality(J) \in Nat
  BY KeysTyped, FS_Subset, FS_CardinalityType
<1>2. f \in [J -> E]
  OBVIOUS
<1>3. \A i, j \in J : f[i] = f[j] => i = j
  OBVIOUS
<1>4. \A e \in E : \E j \in J : f[j] = e
  <2> SUFFICES ASSUME NEW e \in E PROVE \E j \in J : f[j] = e
    OBVIOUS
  <2>1. e[2] \in J /\ e = <<a, e[2]>>
    OBVIOUS
  <2> QED
    BY <2>1
<1> HIDE DEF f, E
<1>5. f \in Bijection(J, E)
  BY <1>2, <1>3, <1>4 DEF Bijection, Injection, IsInjective, Surjection
<1>6. ExistsBijection(J, E)
  BY <1>5 DEF ExistsBijection
<1>7. IsFiniteSet(E) /\ Cardinality(E) = Cardinality(J)
  BY <1>1, <1>6, FS_Bijection
<1> QED
  BY <1>1, <1>7 DEF E

\* Sizes of sets of slots.
LEMMA SlotCounts ==
    ASSUME NEW s, NEW P \in SUBSET Stored(s), NEW Q \in SUBSET Stored(s)
    PROVE  /\ Cardinality(P) \in Nat /\ Cardinality(P) <= Cardinality(Stored(s))
           /\ Cardinality(Stored(s)) \in Nat
           /\ P \cap Q = {} => Cardinality(P \cup Q) = Cardinality(P) + Cardinality(Q)
           /\ P \subseteq Q => Cardinality(P) <= Cardinality(Q)
           /\ \A e \in Q : e \notin P /\ P \subseteq Q => Cardinality(P) < Cardinality(Q)
<1>1. IsFiniteSet(Stored(s)) /\ Cardinality(Stored(s)) \in Nat
  BY AccountsFinite
<1>2. /\ IsFiniteSet(P) /\ Cardinality(P) \in Nat /\ Cardinality(P) <= Cardinality(Stored(s))
      /\ IsFiniteSet(Q) /\ Cardinality(Q) \in Nat
  BY <1>1, FS_Subset, FS_CardinalityType
<1>3. ASSUME P \cap Q = {}
      PROVE  Cardinality(P \cup Q) = Cardinality(P) + Cardinality(Q)
  <2>1. Cardinality(P \cap Q) = 0
    BY <1>3, FS_EmptySet
  <2>2. Cardinality(P \cup Q) = Cardinality(P) + Cardinality(Q) - Cardinality(P \cap Q)
    BY <1>2, FS_Union
  <2> QED
    BY <1>2, <2>1, <2>2
<1>4. ASSUME P \subseteq Q
      PROVE  Cardinality(P) <= Cardinality(Q)
  BY <1>2, <1>4, FS_Subset
<1>5. ASSUME NEW e \in Q, e \notin P, P \subseteq Q
      PROVE  Cardinality(P) < Cardinality(Q)
  <2>1. Cardinality(P) <= Cardinality(Q) /\ (Cardinality(P) = Cardinality(Q) => P = Q)
    BY <1>2, <1>5, FS_Subset
  <2> QED
    BY <1>2, <1>5, <2>1
<1> QED
  BY <1>1, <1>2, <1>3, <1>4, <1>5

\* The slots of an account, and those of the accounts before it.
LEMMA OwnSlotsCount ==
    ASSUME NEW s, NEW a \in Accts
    PROVE  /\ Cardinality(OwnKeys(s, a)) = Cardinality(OwnSlots(s, a))
           /\ Cardinality(OwnKeys(s, a)) \in Nat
           /\ FirstSlot(s, a) \in Nat /\ 2 <= FirstSlot(s, a)
           /\ FirstSlot(s, a) + Cardinality(OwnKeys(s, a)) <= 2 + Cardinality(Stored(s))
           /\ FirstSlot(s, a) + Cardinality(OwnKeys(s, a)) =
                 2 + Cardinality(EarlierSlots(s, a) \cup OwnSlots(s, a))
<1> DEFINE J == OwnKeys(s, a)
           E == EarlierSlots(s, a)
           O == OwnSlots(s, a)
<1>1. OwnSlots(s, a) = {e \in Accts \X Slots : e[1] = a /\ e[2] \in J}
  BY DEF OwnSlots, Stored, OwnKeys
<1>2. Cardinality(O) = Cardinality(J)
  <2>1. J \subseteq Slots
    BY DEF OwnKeys
  <2> QED
    BY <1>1, <2>1, PairCount
<1>3. E \in SUBSET Stored(s) /\ O \in SUBSET Stored(s) /\ E \cup O \in SUBSET Stored(s)
  BY DEF EarlierSlots, OwnSlots
<1>4. E \cap O = {}
  <2>1. \A e \in Stored(s) : e[1] \in Nat
    BY AccountsFinite, KeysTyped
  <2>2. a \in Nat
    BY KeysTyped
  <2> QED
    BY <2>1, <2>2 DEF EarlierSlots, OwnSlots
<1> HIDE DEF J, E, O
<1>5. Cardinality(E \cup O) = Cardinality(E) + Cardinality(O)
  BY <1>3, <1>4, SlotCounts
<1>6. Cardinality(E) \in Nat /\ Cardinality(O) \in Nat /\ Cardinality(Stored(s)) \in Nat
  BY <1>3, SlotCounts
<1>7. Cardinality(E \cup O) <= Cardinality(Stored(s))
  BY <1>3, SlotCounts
<1>8. FirstSlot(s, a) = 2 + Cardinality(E)
  BY DEF FirstSlot, E
<1>9. /\ Cardinality(J) = Cardinality(O) /\ Cardinality(J) \in Nat
      /\ FirstSlot(s, a) \in Nat /\ 2 <= FirstSlot(s, a)
      /\ FirstSlot(s, a) + Cardinality(J) <= 2 + Cardinality(Stored(s))
      /\ FirstSlot(s, a) + Cardinality(J) = 2 + Cardinality(E \cup O)
  BY <1>2, <1>5, <1>6, <1>7, <1>8
<1> QED
  BY <1>9 DEF J, E, O

\* The node of a slot is as far behind the account's first as there are lower keys.
LEMMA SlotPosition ==
    ASSUME NEW s, NEW a \in Accts, NEW k \in Slots, s[a].slots[k] # 0
    PROVE  LET i == FirstSlot(s, a) + Cardinality({j \in Slots : j < k /\ s[a].slots[j] # 0})
           IN  /\ i \in 2 .. 1 + Cardinality(Stored(s))
               /\ SlotLeaf(s, i - 1) = <<a, k>>
<1> DEFINE J == {j \in Slots : j < k /\ s[a].slots[j] # 0}
           E == EarlierSlots(s, a)
           B == {e \in Accts \X Slots : e[1] = a /\ e[2] \in J}
           x == <<a, k>>
           V == {f \in Stored(s) : UpTo(f, x)}
           c == Cardinality(V)
<1>1. Cardinality(B) = Cardinality(J)
  <2>1. J \subseteq Slots
    OBVIOUS
  <2> HIDE DEF J
  <2> QED
    BY <2>1, PairCount
<1>2. x \in Stored(s) /\ x[1] = a /\ x[2] = k
  BY DEF Stored
<1>3. \A e \in Stored(s) : /\ e \in Accts \X Slots /\ s[e[1]].slots[e[2]] # 0
                           /\ e[1] \in Nat /\ e[2] \in Nat /\ e = <<e[1], e[2]>>
  <2>1. \A e \in Stored(s) : e \in Accts \X Slots /\ s[e[1]].slots[e[2]] # 0
    BY DEF Stored
  <2>2. \A e \in Accts \X Slots : e[1] \in Accts /\ e[2] \in Slots /\ e = <<e[1], e[2]>>
    OBVIOUS
  <2> QED
    BY <2>1, <2>2, KeysTyped
<1>4. a \in Nat /\ k \in Nat
  BY KeysTyped
<1>5. E \in SUBSET Stored(s) /\ B \in SUBSET Stored(s) /\ E \cup B \in SUBSET Stored(s)
  BY DEF EarlierSlots, Stored
<1>6. E \cap B = {} /\ x \notin E \cup B
  BY <1>2, <1>3, <1>4 DEF EarlierSlots
<1>7. V = (E \cup B) \cup {x}
  <2>1. \A f \in Stored(s) : UpTo(f, x) <=> f[1] < a \/ (f[1] = a /\ f[2] <= k)
    BY <1>2 DEF UpTo
  <2>2. \A f \in Stored(s) : f \in E <=> f[1] < a
    BY DEF EarlierSlots
  <2>3. \A f \in Stored(s) : f \in B <=> f[1] = a /\ f[2] < k
    BY <1>3
  <2>4. \A f \in Stored(s) : f = x <=> f[1] = a /\ f[2] = k
    BY <1>2, <1>3
  <2>5. \A f \in Stored(s) : UpTo(f, x) <=> f \in E \/ f \in B \/ f = x
    <3> SUFFICES ASSUME NEW f \in Stored(s) PROVE UpTo(f, x) <=> f \in E \/ f \in B \/ f = x
      OBVIOUS
    <3>1. f[2] <= k <=> f[2] < k \/ f[2] = k
      BY <1>3, <1>4
    <3> HIDE DEF E, B, x
    <3> QED
      BY <2>1, <2>2, <2>3, <2>4, <3>1
  <2> HIDE DEF E, B, x
  <2> QED
    BY <1>2, <1>5, <2>5
<1> HIDE DEF x, V, B, E
<1>8. Cardinality(E \cup B) = Cardinality(E) + Cardinality(B)
  BY <1>5, <1>6, SlotCounts
<1>9. c = Cardinality(E \cup B) + 1
  <2>1. IsFiniteSet(E \cup B)
    BY <1>5, AccountsFinite, FS_Subset
  <2> QED
    BY <1>6, <1>7, <2>1, FS_AddElement
<1>10. Cardinality(E) \in Nat /\ Cardinality(B) \in Nat /\ Cardinality(Stored(s)) \in Nat
  BY <1>5, SlotCounts
<1>11. c \in 1 .. Cardinality(Stored(s)) /\ x = SlotLeaf(s, c)
  BY <1>2, SlotLeavesRise DEF V
<1> HIDE DEF c, J
<1>12. FirstSlot(s, a) + Cardinality(J) = c + 1
  BY <1>1, <1>8, <1>9, <1>10 DEF FirstSlot, E
<1>13. /\ FirstSlot(s, a) + Cardinality(J) \in 2 .. 1 + Cardinality(Stored(s))
       /\ SlotLeaf(s, (FirstSlot(s, a) + Cardinality(J)) - 1) = <<a, k>>
  <2> DEFINE y == FirstSlot(s, a) + Cardinality(J)
  <2>0. y = c + 1
    BY <1>12
  <2> HIDE DEF y
  <2>1. y - 1 = c /\ y \in 2 .. 1 + Cardinality(Stored(s))
    BY <1>10, <1>11, <2>0
  <2>2. SlotLeaf(s, y - 1) = <<a, k>>
    BY <1>11, <2>1 DEF x
  <2> QED
    BY <2>1, <2>2 DEF y
<1> QED
  BY <1>13, Zenon DEF J

\* The nodes of an account are those from its first, as many as it has slots.
LEMMA OwnRange ==
    ASSUME NEW s, NEW a \in Accts, NEW i \in 2 .. 1 + Cardinality(Stored(s))
    PROVE  SlotLeaf(s, i - 1)[1] = a <=>
              FirstSlot(s, a) <= i /\ i < FirstSlot(s, a) + Cardinality(OwnKeys(s, a))
<1> DEFINE x == SlotLeaf(s, i - 1)
           E == EarlierSlots(s, a)
           O == OwnSlots(s, a)
           V == {f \in Stored(s) : UpTo(f, x)}
           N == Cardinality(Stored(s))
<1>0. N \in Nat
  BY AccountsFinite
<1>1. i - 1 \in 1 .. N /\ i \in Nat
  BY <1>0
<1>2. x \in Stored(s) /\ Cardinality(V) = i - 1
  BY <1>1, SlotLeaves
<1>3. \A e \in Stored(s) : e[1] \in Nat /\ e[2] \in Nat
  <2>1. \A e \in Stored(s) : e \in Accts \X Slots
    BY DEF Stored
  <2> QED
    BY <2>1, KeysTyped
<1>4. a \in Nat
  BY KeysTyped
<1>5. V \in SUBSET Stored(s) /\ E \in SUBSET Stored(s) /\ O \in SUBSET Stored(s) /\ E \cup O \in SUBSET Stored(s)
  BY DEF EarlierSlots, OwnSlots
<1>6. /\ \A f \in Stored(s) : f \in V <=> f[1] < x[1] \/ (f[1] = x[1] /\ f[2] <= x[2])
      /\ \A f \in Stored(s) : f \in E <=> f[1] < a
      /\ \A f \in Stored(s) : f \in O <=> f[1] = a
  BY DEF EarlierSlots, OwnSlots, UpTo
<1>7. /\ FirstSlot(s, a) = 2 + Cardinality(E)
      /\ FirstSlot(s, a) + Cardinality(OwnKeys(s, a)) = 2 + Cardinality(E \cup O)
  BY OwnSlotsCount DEF FirstSlot
<1> HIDE DEF x, E, O, V, N
<1>8. Cardinality(V) \in Nat /\ Cardinality(E) \in Nat /\ Cardinality(E \cup O) \in Nat
  BY <1>5, SlotCounts
<1>9. x \in V
  BY <1>2, <1>3, <1>6
<1>10. CASE x[1] = a
  <2>1. E \subseteq V /\ x \notin E
    BY <1>2, <1>3, <1>4, <1>5, <1>6, <1>10
  <2>2. V \subseteq E \cup O
    BY <1>3, <1>4, <1>5, <1>6, <1>10
  <2>3. Cardinality(E) < Cardinality(V) /\ Cardinality(V) <= Cardinality(E \cup O)
    <3>1. Cardinality(E) < Cardinality(V)
      BY <1>5, <1>9, <2>1, SlotCounts
    <3>2. Cardinality(V) <= Cardinality(E \cup O)
      BY <1>5, <2>2, SlotCounts
    <3> QED
      BY <3>1, <3>2
  <2> QED
    BY <1>1, <1>2, <1>7, <1>8, <1>10, <2>3 DEF x
<1>11. CASE x[1] < a
  <2>1. V \subseteq E /\ x[1] # a
    BY <1>2, <1>3, <1>4, <1>5, <1>6, <1>11
  <2>2. Cardinality(V) <= Cardinality(E)
    BY <1>5, <2>1, SlotCounts
  <2> QED
    BY <1>1, <1>2, <1>7, <1>8, <2>1, <2>2 DEF x
<1>12. CASE a < x[1]
  <2>1. E \cup O \subseteq V /\ x \notin E \cup O /\ x[1] # a
    BY <1>2, <1>3, <1>4, <1>5, <1>6, <1>12
  <2>2. Cardinality(E \cup O) < Cardinality(V)
    BY <1>5, <1>9, <2>1, SlotCounts
  <2> QED
    BY <1>1, <1>2, <1>7, <1>8, <2>1, <2>2 DEF x
<1>13. x[1] \in Nat
  BY <1>2, <1>3
<1> QED
  BY <1>4, <1>10, <1>11, <1>12, <1>13

-----------------------------------------------------------------------------
(* The initial tries.                                                      *)

\* The slots of the next account lie behind those of an account.
LEMMA NextFirst ==
    ASSUME NEW s \in States
    PROVE  /\ 0 < Cardinality(Accounts(s)) => FirstSlot(s, AccountLeaf(s, 1)) = 2
           /\ \A i \in 1 .. Cardinality(Accounts(s)) : i + 1 <= Cardinality(Accounts(s)) =>
                 LET a == AccountLeaf(s, i)
                 IN  FirstSlot(s, AccountLeaf(s, i + 1)) = FirstSlot(s, a) + Cardinality(OwnKeys(s, a))
<1> DEFINE C == Cardinality(Accounts(s))
           f(i) == AccountLeaf(s, i)
<1>0. C \in Nat
  BY AccountsFinite
<1>1. \A i \in 1 .. C : f(i) \in Accts /\ f(i) \in Nat
  BY AccountLeaves, AccountsFinite, KeysTyped
<1>2. \A i, j \in 1 .. C : i < j => f(i) < f(j)
  BY AccountLeavesRise
<1>3. \A e \in Stored(s) : \E i \in 1 .. C : e[1] = f(i)
  <2> SUFFICES ASSUME NEW e \in Stored(s) PROVE \E i \in 1 .. C : e[1] = f(i)
    OBVIOUS
  <2>1. e \in Accts \X Slots /\ s[e[1]].slots[e[2]] # 0
    BY DEF Stored
  <2>2. e[1] \in Accts /\ e[2] \in Slots
    BY <2>1
  <2>3. Exists(s, e[1])
    BY <2>1, <2>2, StatesTyped
  <2>4. e[1] \in Accounts(s)
    BY <2>2, <2>3 DEF Accounts
  <2> QED
    BY <2>4, AccountLeavesRise
<1> HIDE DEF C, f
<1>4. ASSUME 0 < C
      PROVE  FirstSlot(s, f(1)) = 2
  <2>1. 1 \in 1 .. C
    BY <1>0, <1>4
  <2>2. \A i \in 1 .. C : ~(f(i) < f(1))
    BY <1>0, <1>1, <1>2, <2>1
  <2>3. EarlierSlots(s, f(1)) = {}
    BY <1>3, <2>2 DEF EarlierSlots
  <2> QED
    BY <2>3, FS_EmptySet DEF FirstSlot
<1>5. ASSUME NEW i \in 1 .. C, i + 1 <= C
      PROVE  FirstSlot(s, f(i + 1)) = FirstSlot(s, f(i)) + Cardinality(OwnKeys(s, f(i)))
  <2>1. i + 1 \in 1 .. C
    BY <1>0, <1>5
  <2>2. \A j \in 1 .. C : f(j) < f(i + 1) <=> f(j) < f(i) \/ f(j) = f(i)
    <3> SUFFICES ASSUME NEW j \in 1 .. C PROVE f(j) < f(i + 1) <=> f(j) < f(i) \/ f(j) = f(i)
      OBVIOUS
    <3>1. CASE j < i
      BY <1>0, <1>1, <1>2, <2>1, <3>1
    <3>2. CASE j = i
      BY <1>0, <1>2, <2>1, <3>2
    <3>3. CASE i < j
      <4>1. f(i) < f(j) /\ ~(f(j) < f(i + 1))
        BY <1>0, <1>1, <1>2, <2>1, <3>3
      <4> QED
        BY <1>1, <2>1, <4>1
    <3> QED
      BY <1>0, <3>1, <3>2, <3>3
  <2>3. EarlierSlots(s, f(i + 1)) = EarlierSlots(s, f(i)) \cup OwnSlots(s, f(i))
    BY <1>3, <2>2 DEF EarlierSlots, OwnSlots
  <2>4. FirstSlot(s, f(i)) + Cardinality(OwnKeys(s, f(i))) = 2 + Cardinality(EarlierSlots(s, f(i)) \cup OwnSlots(s, f(i)))
    BY <1>1, OwnSlotsCount
  <2> QED
    BY <2>3, <2>4 DEF FirstSlot
<1> QED
  BY <1>4, <1>5 DEF C, f

\* The leaves of a storage trie get their values back.
LEMMA StorageSet ==
    ASSUME ListsInv, NEW a \in Accts
    PROVE  SetStorage(a, FirstSlot(pre, a)) = pre[a].slots
<1> DEFINE c(k) == Cardinality({j \in Slots : j < k /\ pre[a].slots[j] # 0})
<1>1. pre[a].slots \in [Slots -> Nat]
  BY ListsInvParts, StatesTyped
<1>2. ASSUME NEW k \in Slots, pre[a].slots[k] # 0
      PROVE  slist[FirstSlot(pre, a) + c(k)].ival = pre[a].slots[k]
  <2> DEFINE i == FirstSlot(pre, a) + c(k)
  <2>1. i \in 2 .. 1 + Cardinality(Stored(pre)) /\ SlotLeaf(pre, i - 1) = <<a, k>>
    BY <1>2, SlotPosition
  <2>2. i \in 2 .. InitialSlots
    BY <2>1 DEF InitialSlots
  <2> HIDE DEF i
  <2>3. /\ slist[i].addr = SlotLeaf(pre, i - 1)[1] /\ slist[i].key = SlotLeaf(pre, i - 1)[2]
        /\ slist[i].ival = pre[slist[i].addr].slots[slist[i].key]
    BY <2>2, ListsInvParts DEF InitialKept
  <2>4. slist[i].ival = pre[a].slots[k]
    BY <2>1, <2>3
  <2> QED
    BY <2>4 DEF i
<1>3. SetStorage(a, FirstSlot(pre, a)) =
         [k \in Slots |-> IF pre[a].slots[k] = 0 THEN 0 ELSE slist[FirstSlot(pre, a) + c(k)].ival]
  BY DEF SetStorage
<1> HIDE DEF c
<1>4. \A k \in Slots : (IF pre[a].slots[k] = 0 THEN 0 ELSE slist[FirstSlot(pre, a) + c(k)].ival) = pre[a].slots[k]
  BY <1>2
<1> QED
  BY <1>1, <1>3, <1>4

TrieNodes == [addr : Nat, val : Nat, root : [Slots -> Nat], ival : Nat, iroot : [Slots -> Nat], next : Nat]
Entries == [val : Nat, slots : [Slots -> Nat]]

\* The nodes differ from the list's by their roots only.
SameNodes(l) ==
    /\ l \in Seq(TrieNodes) /\ Len(l) = Len(alist)
    /\ \A j \in 1 .. Len(alist) : /\ l[j].addr = alist[j].addr /\ l[j].val = alist[j].val
                                  /\ l[j].ival = alist[j].ival /\ l[j].next = alist[j].next

\* What mpt_set_payload has reached after i leaves.
PayloadsSet(i, l, t, sp) ==
    /\ SameNodes(l) /\ t \in [Accts -> Entries] /\ sp \in Nat
    /\ \A j \in 2 .. Len(alist) : j <= i + 1 => /\ l[j].root = pre[alist[j].addr].slots
                                                /\ l[j].iroot = pre[alist[j].addr].slots
    /\ \A j \in 2 .. Len(alist) : i + 1 < j => l[j].root = NoSlots
    /\ \A j \in 1 .. i : t[AccountLeaf(pre, j)] = pre[AccountLeaf(pre, j)]
    /\ \A a \in Accts : ~Exists(pre, a) => t[a] = NoAccount
    /\ i < Cardinality(Accounts(pre)) => sp = FirstSlot(pre, AccountLeaf(pre, i + 1))

\* A node with another root.
WithRoots(n, f, g) == [n EXCEPT !.root = f, !.iroot = g]
WithRoot(n, f) == [n EXCEPT !.root = f]

\* A node with other roots is otherwise the same.
LEMMA RootsTyped ==
    ASSUME NEW n \in TrieNodes, NEW f \in [Slots -> Nat], NEW g \in [Slots -> Nat]
    PROVE  /\ LET d == WithRoots(n, f, g)
              IN  /\ d \in TrieNodes /\ d.root = f /\ d.iroot = g /\ d.addr = n.addr
                  /\ d.val = n.val /\ d.ival = n.ival /\ d.next = n.next
           /\ LET d == WithRoot(n, f)
              IN  /\ d \in TrieNodes /\ d.root = f /\ d.iroot = n.iroot /\ d.addr = n.addr
                  /\ d.val = n.val /\ d.ival = n.ival /\ d.next = n.next
BY DEF TrieNodes, WithRoots, WithRoot

\* A list in which one node is replaced by one that differs by its roots.
LEMMA NodeReplaced ==
    ASSUME NEW l, SameNodes(l), Len(alist) \in Nat, NEW j \in 1 .. Len(alist), NEW d \in TrieNodes,
           d.addr = l[j].addr, d.val = l[j].val, d.ival = l[j].ival, d.next = l[j].next
    PROVE  LET new == [l EXCEPT ![j] = d]
           IN  /\ SameNodes(new) /\ new[j] = d
               /\ \A i \in 1 .. Len(alist) : i # j => new[i] = l[i]
<1> DEFINE new == [l EXCEPT ![j] = d]
<1>1. /\ l \in Seq(TrieNodes) /\ Len(l) = Len(alist)
      /\ \A i \in 1 .. Len(alist) : /\ l[i].addr = alist[i].addr /\ l[i].val = alist[i].val
                                    /\ l[i].ival = alist[i].ival /\ l[i].next = alist[i].next
  BY DEF SameNodes
<1>2. /\ new \in Seq(TrieNodes) /\ Len(new) = Len(alist) /\ new[j] = d
      /\ \A i \in 1 .. Len(alist) : i # j => new[i] = l[i]
  BY <1>1
<1> HIDE DEF new
<1>3. \A i \in 1 .. Len(alist) : /\ new[i].addr = alist[i].addr /\ new[i].val = alist[i].val
                                 /\ new[i].ival = alist[i].ival /\ new[i].next = alist[i].next
  BY <1>1, <1>2
<1>4. SameNodes(new)
  BY <1>2, <1>3 DEF SameNodes
<1> QED
  BY <1>2, <1>4 DEF new

\* An empty storage and an absent account are typed.
LEMMA NoSlotsTyped ==
    /\ NoSlots \in [Slots -> Nat] /\ \A k \in Slots : NoSlots[k] = 0
    /\ NoAccount \in Entries /\ NoAccount.val = 0 /\ NoAccount.slots = NoSlots
<1>1. NoSlots \in [Slots -> Nat] /\ \A k \in Slots : NoSlots[k] = 0
  BY DEF NoSlots
<1> QED
  BY <1>1 DEF NoAccount, Entries

\* Before the tries are rebuilt the nodes have no roots.
LEMMA ListIsTyped ==
    ASSUME ListsInv
    PROVE  /\ SameNodes(alist) /\ \A j \in 1 .. Len(alist) : alist[j].root = NoSlots
<1>1. alist \in Seq(AccountNodes) /\ Len(alist) \in Nat
  BY ListsInvParts DEF AccountsHeld
<1>2. \A n \in AccountNodes : n \in TrieNodes /\ n.root = NoSlots
  BY NoSlotsTyped DEF AccountNodes, TrieNodes
<1>3. \A j \in 1 .. Len(alist) : alist[j] \in TrieNodes /\ alist[j].root = NoSlots
  BY <1>1, <1>2
<1>4. alist = [j \in 1 .. Len(alist) |-> alist[j]]
  BY <1>1
<1>5. alist \in Seq(TrieNodes)
  <2> DEFINE n == Len(alist)
  <2>1. n \in Nat /\ alist = [j \in 1 .. n |-> alist[j]] /\ \A j \in 1 .. n : alist[j] \in TrieNodes
    BY <1>1, <1>3, <1>4
  <2> HIDE DEF n
  <2> QED
    BY <2>1, FunctionIsSequence
<1> QED
  BY <1>3, <1>5 DEF SameNodes

\* The nodes of the initial list.
LEMMA InitialNodes ==
    ASSUME ListsInv
    PROVE  LET C == Cardinality(Accounts(pre))
           IN  /\ C \in Nat /\ InitialAccounts = C + 1 /\ InitialAccounts <= Len(alist) /\ Len(alist) \in Nat
               /\ \A i \in 1 .. C : /\ i + 1 \in 2 .. Len(alist) /\ i + 1 \in 1 .. Len(alist)
                                    /\ alist[i + 1].addr = AccountLeaf(pre, i)
                                    /\ alist[i + 1].ival = pre[AccountLeaf(pre, i)].val
                                    /\ AccountLeaf(pre, i) \in Accts /\ Exists(pre, AccountLeaf(pre, i))
                                    /\ alist[i + 1].next = Deleted => pre[AccountLeaf(pre, i)].slots = NoSlots
<1> DEFINE C == Cardinality(Accounts(pre))
<1>1. C \in Nat /\ InitialAccounts = C + 1
  BY AccountsFinite DEF InitialAccounts
<1>2. /\ InitialAccounts <= Len(alist) /\ Len(alist) \in Nat
      /\ \A i \in 2 .. InitialAccounts :
            /\ alist[i].addr = AccountLeaf(pre, i - 1)
            /\ alist[i].ival = pre[alist[i].addr].val
            /\ alist[i].next = Deleted => pre[alist[i].addr].slots = NoSlots
  BY ListsInvParts DEF InitialKept
<1>3. ASSUME NEW i \in 1 .. C
      PROVE  /\ i + 1 \in 2 .. Len(alist) /\ i + 1 \in 1 .. Len(alist)
             /\ alist[i + 1].addr = AccountLeaf(pre, i)
             /\ alist[i + 1].ival = pre[AccountLeaf(pre, i)].val
             /\ AccountLeaf(pre, i) \in Accts /\ Exists(pre, AccountLeaf(pre, i))
             /\ alist[i + 1].next = Deleted => pre[AccountLeaf(pre, i)].slots = NoSlots
  <2> HIDE DEF C
  <2>1. i + 1 \in 2 .. InitialAccounts /\ (i + 1) - 1 = i /\ i + 1 \in 2 .. Len(alist) /\ i + 1 \in 1 .. Len(alist)
    BY <1>1, <1>2
  <2>2. AccountLeaf(pre, i) \in Accounts(pre)
    BY AccountLeaves DEF C
  <2>3. AccountLeaf(pre, i) \in Accts /\ Exists(pre, AccountLeaf(pre, i))
    BY <2>2 DEF Accounts
  <2> QED
    BY <1>2, <2>1, <2>3
<1> QED
  BY <1>1, <1>2, <1>3

PayloadRound(acc, i) ==
    LET a == AccountLeaf(pre, i)
        root == SetStorage(a, acc.sp)
    IN  [list |-> [acc.list EXCEPT ![i + 1].root = root, ![i + 1].iroot = root],
         trie |-> [acc.trie EXCEPT ![a] = [val |-> acc.list[i + 1].ival, slots |-> root]],
         sp |-> acc.sp + Cardinality({k \in Slots : pre[a].slots[k] # 0})]

PayloadStates == [list : Seq(TrieNodes), trie : [Accts -> Entries], sp : Nat]

\* Before the first leaf no payload is set.
LEMMA PayloadsStart ==
    ASSUME ListsInv
    PROVE  PayloadsSet(0, alist, [a \in Accts |-> NoAccount], 2)
<1> DEFINE t == [a \in Accts |-> NoAccount]
<1>1. SameNodes(alist) /\ \A j \in 1 .. Len(alist) : alist[j].root = NoSlots
  BY ListIsTyped
<1>2. t \in [Accts -> Entries] /\ \A a \in Accts : t[a] = NoAccount
  BY NoSlotsTyped
<1>3. 0 < Cardinality(Accounts(pre)) => FirstSlot(pre, AccountLeaf(pre, 0 + 1)) = 2
  BY NextFirst, ListsInvParts
<1> HIDE DEF t
<1>4. PayloadsSet(0, alist, t, 2)
  BY <1>1, <1>2, <1>3, ListsInvParts DEF PayloadsSet
<1> QED
  BY <1>4 DEF t

\* The next leaf gets its payload and its storage back.
LEMMA PayloadsGoOn ==
    ASSUME ListsInv, NEW i \in Nat, i < Cardinality(Accounts(pre)),
           NEW acc \in PayloadStates, PayloadsSet(i, acc.list, acc.trie, acc.sp)
    PROVE  LET new == PayloadRound(acc, i + 1)
           IN  new \in PayloadStates /\ PayloadsSet(i + 1, new.list, new.trie, new.sp)
<1> DEFINE m == i + 1
           n == m + 1
           C == Cardinality(Accounts(pre))
           a == AccountLeaf(pre, m)
           f == pre[a].slots
           l == acc.list
           d == WithRoots(l[n], f, f)
           l2 == [l EXCEPT ![n] = d]
           t2 == [acc.trie EXCEPT ![a] = [val |-> l[n].ival, slots |-> f]]
           sp2 == acc.sp + Cardinality(OwnKeys(pre, a))
<1>1. m \in 1 .. C /\ m \in Nat /\ C \in Nat
  BY AccountsFinite
<1>2. /\ n \in 2 .. Len(alist) /\ n \in 1 .. Len(alist) /\ alist[n].addr = a /\ alist[n].ival = pre[a].val
      /\ a \in Accts /\ Exists(pre, a) /\ Len(alist) \in Nat
  BY <1>1, InitialNodes
<1>3. /\ SameNodes(l) /\ acc.trie \in [Accts -> Entries] /\ acc.sp \in Nat
      /\ \A j \in 2 .. Len(alist) : j <= m => /\ l[j].root = pre[alist[j].addr].slots
                                              /\ l[j].iroot = pre[alist[j].addr].slots
      /\ \A j \in 2 .. Len(alist) : m < j => l[j].root = NoSlots
      /\ \A j \in 1 .. i : acc.trie[AccountLeaf(pre, j)] = pre[AccountLeaf(pre, j)]
      /\ \A b \in Accts : ~Exists(pre, b) => acc.trie[b] = NoAccount
      /\ acc.sp = FirstSlot(pre, a)
  BY DEF PayloadsSet
<1>4. SetStorage(a, acc.sp) = f /\ f \in [Slots -> Nat]
  BY <1>2, <1>3, StorageSet, StatesTyped, ListsInvParts
<1>5. PayloadRound(acc, m) = [list |-> l2, trie |-> t2, sp |-> sp2]
  <2>1. l2 = [l EXCEPT ![n].root = f, ![n].iroot = f]
    <3> HIDE DEF f, n, l
    <3>1. l \in Seq(TrieNodes) /\ n \in 1 .. Len(l)
      BY <1>2, <1>3 DEF SameNodes
    <3> QED
      BY <3>1 DEF WithRoots
  <2> HIDE DEF l2, n
  <2>2. PayloadRound(acc, m) = [list |-> [l EXCEPT ![n].root = f, ![n].iroot = f], trie |-> t2, sp |-> sp2]
    BY <1>4 DEF PayloadRound, OwnKeys, n
  <2> QED
    BY <2>1, <2>2
<1> HIDE DEF l, m, n, a
<1>6. l[n] \in TrieNodes /\ l[n].ival = pre[a].val
  BY <1>2, <1>3 DEF SameNodes
<1>7. /\ d \in TrieNodes /\ d.root = f /\ d.iroot = f /\ d.addr = l[n].addr
      /\ d.val = l[n].val /\ d.ival = l[n].ival /\ d.next = l[n].next
  BY <1>4, <1>6, RootsTyped
<1> HIDE DEF d
<1>8. SameNodes(l2) /\ l2[n] = d /\ \A j \in 1 .. Len(alist) : j # n => l2[j] = l[j]
  BY <1>2, <1>3, <1>7, NodeReplaced
<1> HIDE DEF l2
<1>9. pre[a] = [val |-> pre[a].val, slots |-> f] /\ pre[a].val \in Nat
  BY <1>2, StatesTyped, ListsInvParts
<1>10. t2 \in [Accts -> Entries] /\ t2[a] = pre[a] /\ \A b \in Accts : b # a => t2[b] = acc.trie[b]
  <2> DEFINE x == [val |-> l[n].ival, slots |-> f]
  <2>1. x = pre[a] /\ x \in Entries
    BY <1>4, <1>6, <1>9 DEF Entries
  <2> HIDE DEF x
  <2>2. [acc.trie EXCEPT ![a] = x] \in [Accts -> Entries] /\ [acc.trie EXCEPT ![a] = x][a] = x
        /\ \A b \in Accts : b # a => [acc.trie EXCEPT ![a] = x][b] = acc.trie[b]
    BY <1>2, <1>3, <2>1
  <2> QED
    BY <2>1, <2>2 DEF x
<1> HIDE DEF t2
<1>11. Cardinality(OwnKeys(pre, a)) \in Nat
  BY <1>2, OwnSlotsCount
<1>12. sp2 \in Nat
  BY <1>3, <1>11
<1>13. \A j \in 2 .. Len(alist) : j <= n => l2[j].root = pre[alist[j].addr].slots /\ l2[j].iroot = pre[alist[j].addr].slots
  <2> SUFFICES ASSUME NEW j \in 2 .. Len(alist), j <= n
               PROVE  l2[j].root = pre[alist[j].addr].slots /\ l2[j].iroot = pre[alist[j].addr].slots
    OBVIOUS
  <2>1. CASE j = n
    BY <2>1, <1>2, <1>7, <1>8
  <2>2. CASE j # n
    <3>1. j <= m /\ j \in 1 .. Len(alist)
      BY <1>1, <1>2, <2>2 DEF n
    <3> QED
      BY <1>3, <1>8, <2>2, <3>1
  <2> QED
    BY <2>1, <2>2
<1>14. \A j \in 2 .. Len(alist) : n < j => l2[j].root = NoSlots
  <2> SUFFICES ASSUME NEW j \in 2 .. Len(alist), n < j PROVE l2[j].root = NoSlots
    OBVIOUS
  <2>1. m < j /\ j # n /\ j \in 1 .. Len(alist)
    BY <1>1, <1>2 DEF n
  <2> QED
    BY <1>3, <1>8, <2>1
<1>15. \A j \in 1 .. m : t2[AccountLeaf(pre, j)] = pre[AccountLeaf(pre, j)]
  <2> SUFFICES ASSUME NEW j \in 1 .. m PROVE t2[AccountLeaf(pre, j)] = pre[AccountLeaf(pre, j)]
    OBVIOUS
  <2>1. CASE j = m
    BY <2>1, <1>10 DEF a
  <2>2. CASE j # m
    <3>1. j \in 1 .. i /\ j \in 1 .. C /\ j < m
      BY <1>1, <2>2 DEF m
    <3>2. AccountLeaf(pre, j) \in Accts /\ AccountLeaf(pre, j) < a
      BY <1>1, <3>1, AccountLeavesRise, InitialNodes DEF a
    <3>3. AccountLeaf(pre, j) # a
      BY <3>2, <1>2, KeysTyped
    <3> QED
      BY <1>3, <1>10, <3>1, <3>2, <3>3
  <2> QED
    BY <2>1, <2>2
<1>16. \A b \in Accts : ~Exists(pre, b) => t2[b] = NoAccount
  BY <1>2, <1>3, <1>10
<1>17. m < C => sp2 = FirstSlot(pre, AccountLeaf(pre, m + 1))
  <2> SUFFICES ASSUME m < C PROVE sp2 = FirstSlot(pre, AccountLeaf(pre, m + 1))
    OBVIOUS
  <2>1. m + 1 <= C
    BY <1>1
  <2>2. FirstSlot(pre, AccountLeaf(pre, m + 1)) = FirstSlot(pre, a) + Cardinality(OwnKeys(pre, a))
    BY <1>1, <2>1, NextFirst, ListsInvParts DEF a
  <2> QED
    BY <1>3, <2>2
<1> HIDE DEF sp2
<1>18. PayloadsSet(m, l2, t2, sp2)
  BY <1>8, <1>10, <1>12, <1>13, <1>14, <1>15, <1>16, <1>17 DEF PayloadsSet, n
<1>19. [list |-> l2, trie |-> t2, sp |-> sp2] \in PayloadStates
  BY <1>8, <1>10, <1>12 DEF PayloadStates, SameNodes
<1> QED
  BY <1>5, <1>18, <1>19 DEF m

\* The recursive function of mpt_set_payload is defined, and sets all payloads.
LEMMA PayloadsAreSet ==
    ASSUME ListsInv
    PROVE  LET x == set_initial_tries
           IN  x \in PayloadStates /\ PayloadsSet(Cardinality(Accounts(pre)), x.list, x.trie, x.sp)
<1> DEFINE N == Cardinality(Accounts(pre))
           U == PayloadStates
           x0 == [list |-> alist, trie |-> [a \in Accts |-> NoAccount], sp |-> 2]
           S == [n \in Nat |-> {x \in U : PayloadsSet(n, x.list, x.trie, x.sp)}]
           step == [n \in Nat |-> [x \in U |-> PayloadRound(x, n + 1)]]
           Body(g, i) == IF i = 0 THEN x0
                         ELSE LET acc == g[i - 1]
                                  a == AccountLeaf(pre, i)
                                  root == SetStorage(a, acc.sp)
                              IN  [list |-> [acc.list EXCEPT ![i + 1].root = root, ![i + 1].iroot = root],
                                   trie |-> [acc.trie EXCEPT ![a] = [val |-> acc.list[i + 1].ival, slots |-> root]],
                                   sp |-> acc.sp + Cardinality({k \in Slots : pre[a].slots[k] # 0})]
           T == CHOOSE g : g = [i \in 0 .. N |-> Body(g, i)]
<1>1. N \in Nat
  BY AccountsFinite
<1>2. x0 \in U /\ x0.list = alist /\ x0.trie = [a \in Accts |-> NoAccount] /\ x0.sp = 2
  BY PayloadsStart DEF PayloadsSet, SameNodes, PayloadStates
<1>3. x0 \in S[0]
  <2>1. PayloadsSet(0, x0.list, x0.trie, x0.sp)
    BY <1>2, PayloadsStart
  <2> HIDE DEF x0, U
  <2> QED
    BY <1>2, <2>1
<1>4. \A n \in Nat : n < N => \A x \in S[n] : PayloadRound(x, n + 1) \in S[n + 1]
  <2> SUFFICES ASSUME NEW n \in Nat, n < N, NEW x \in U, PayloadsSet(n, x.list, x.trie, x.sp)
               PROVE  PayloadRound(x, n + 1) \in S[n + 1]
    OBVIOUS
  <2> DEFINE y == PayloadRound(x, n + 1)
  <2>1. y \in U /\ PayloadsSet(n + 1, y.list, y.trie, y.sp)
    BY PayloadsGoOn
  <2> HIDE DEF y, U
  <2>2. y \in S[n + 1]
    BY <2>1
  <2> QED
    BY <2>2 DEF y
<1>5. \A n \in Nat, x \in U : step[n][x] = PayloadRound(x, n + 1)
  <2> HIDE DEF U
  <2> QED
    OBVIOUS
<1>6. \A n \in Nat : \A x \in S[n] : x \in U /\ PayloadsSet(n, x.list, x.trie, x.sp)
  OBVIOUS
<1>7. S \in [Nat -> SUBSET U]
  <2> HIDE DEF U
  <2> QED
    OBVIOUS
<1>8. \A g, i : i # 0 => Body(g, i) = PayloadRound(g[i - 1], i)
  BY DEF PayloadRound
<1>9. \A g : Body(g, 0) = x0
  OBVIOUS
<1>10. set_initial_tries = T[N]
  BY DEF set_initial_tries, mpt_set_payload
<1> HIDE DEF S, step, N, U, x0, Body
<1>11. PICK f : Run(U, S, x0, step, N, f)
  <2>1. \A n \in Nat : n < N => \A x \in S[n] : step[n][x] \in S[n + 1]
    BY <1>4, <1>5, <1>6
  <2> QED
    BY <1>1, <1>3, <1>7, <2>1, RunExists
<1>12. f = [i \in 0 .. N |-> Body(f, i)]
  <2>1. f \in [0 .. N -> U] /\ f[0] = x0 /\ \A n \in 0 .. N : n # 0 => f[n] = step[n - 1][f[n - 1]]
    BY <1>11 DEF Run
  <2>2. ASSUME NEW n \in 0 .. N
        PROVE  f[n] = Body(f, n)
    <3>1. CASE n = 0
      BY <1>9, <2>1, <3>1
    <3>2. CASE n # 0
      <4> DEFINE m == n - 1
      <4>1. m \in Nat /\ m \in 0 .. N /\ m + 1 = n
        BY <1>1, <3>2
      <4>2. f[m] \in U /\ f[n] = step[m][f[m]]
        BY <2>1, <3>2, <4>1
      <4>3. f[n] = PayloadRound(f[m], n)
        BY <1>5, <4>1, <4>2
      <4> QED
        BY <1>8, <3>2, <4>3
    <3> QED
      BY <3>1, <3>2
  <2> QED
    BY <2>1, <2>2
<1>13. T = [i \in 0 .. N |-> Body(T, i)]
  BY <1>12, Zenon
<1> HIDE DEF T
<1>14. T[0] = x0 /\ \A n \in 0 .. N : n # 0 => T[n] = PayloadRound(T[n - 1], n)
  <2>1. \A n \in 0 .. N : T[n] = Body(T, n)
    BY <1>13, Zenon
  <2>2. 0 \in 0 .. N /\ Body(T, 0) = x0
    BY <1>1, <1>9
  <2>3. \A n \in 0 .. N : n # 0 => T[n] = PayloadRound(T[n - 1], n)
    BY <1>8, <2>1
  <2> QED
    BY <2>1, <2>2, <2>3
<1> DEFINE G == {n \in Nat : T[n] \in S[n]}
<1>15. \A n \in 0 .. N : n \in G
  <2>1. 0 \in G
    BY <1>3, <1>14
  <2>2. ASSUME NEW n \in Nat, n < N, n \in G
        PROVE  n + 1 \in G
    <3> DEFINE m == n + 1
    <3>1. m \in 0 .. N /\ m # 0 /\ m - 1 = n /\ m \in Nat
      BY <1>1, <2>2
    <3>2. T[m] = PayloadRound(T[n], m)
      BY <1>14, <3>1
    <3>3. PayloadRound(T[n], m) \in S[m]
      BY <1>4, <2>2
    <3> QED
      BY <3>1, <3>2, <3>3
  <2> HIDE DEF G
  <2> QED
    BY <1>1, <2>1, <2>2, CountUp
<1>16. T[N] \in S[N]
  BY <1>1, <1>15
<1>17. LET x == T[N] IN x \in U /\ PayloadsSet(N, x.list, x.trie, x.sp)
  BY <1>1, <1>6, <1>16
<1> QED
  BY <1>10, <1>17 DEF U, N

\* The initial trie is rebuilt from the nodes.
LEMMA InitialTrieIsKept ==
    ASSUME ListsInv
    PROVE  InitialTrieKept
<1> DEFINE C == Cardinality(Accounts(pre))
           t == set_initial_tries.trie
<1>1. /\ t \in [Accts -> Entries]
      /\ \A j \in 1 .. C : t[AccountLeaf(pre, j)] = pre[AccountLeaf(pre, j)]
      /\ \A a \in Accts : ~Exists(pre, a) => t[a] = NoAccount
  BY PayloadsAreSet DEF PayloadsSet
<1> HIDE DEF t
<1>2. ASSUME NEW a \in Accts
      PROVE  t[a] = pre[a]
  <2>1. CASE Exists(pre, a)
    <3>1. PICK j \in 1 .. C : a = AccountLeaf(pre, j)
      BY <2>1, AccountLeavesRise DEF Accounts
    <3> QED
      BY <1>1, <3>1
  <2>2. CASE ~Exists(pre, a)
    BY <1>1, <2>2, StatesTyped, ListsInvParts
  <2> QED
    BY <2>1, <2>2
<1>3. pre \in [Accts -> {NoAccount} \cup [val : Values, slots : [Slots -> Values \cup {0}]]]
  BY ListsInvParts DEF States
<1>4. t = pre
  BY <1>1, <1>2, <1>3
<1> QED
  BY <1>4 DEF InitialTrieKept, t

-----------------------------------------------------------------------------
(* Deleting what was removed.                                              *)

\* The nodes of the initial list of slots.
LEMMA InitialSlotNodes ==
    ASSUME ListsInv
    PROVE  /\ InitialSlots = 1 + Cardinality(Stored(pre)) /\ InitialSlots \in Nat
           /\ InitialSlots <= Len(slist) /\ Len(slist) \in Nat
           /\ \A i \in 2 .. InitialSlots : /\ i \in 1 .. Len(slist)
                                           /\ slist[i].addr = SlotLeaf(pre, i - 1)[1]
                                           /\ slist[i].key = SlotLeaf(pre, i - 1)[2]
<1>1. InitialSlots = 1 + Cardinality(Stored(pre)) /\ InitialSlots \in Nat
  BY AccountsFinite DEF InitialSlots
<1>2. /\ InitialSlots <= Len(slist) /\ Len(slist) \in Nat
      /\ \A i \in 2 .. InitialSlots : /\ slist[i].addr = SlotLeaf(pre, i - 1)[1]
                                      /\ slist[i].key = SlotLeaf(pre, i - 1)[2]
  BY ListsInvParts DEF InitialKept
<1>3. \A i \in 2 .. InitialSlots : i \in 1 .. Len(slist)
  BY <1>1, <1>2
<1> QED
  BY <1>1, <1>2, <1>3

\* From the account's first node on, the nodes of the initial list that belong to it.
OwnNodes(a, sp) == {n \in sp .. InitialSlots : \A i \in sp .. n : slist[i].addr = a}

\* They are all of the account's initial nodes, as many as it had slots.
LEMMA OwnNodesAre ==
    ASSUME ListsInv, NEW a \in Accts
    PROVE  LET sp == FirstSlot(pre, a)
           IN  /\ \A n \in 2 .. InitialSlots : n \in OwnNodes(a, sp) <=> slist[n].addr = a
               /\ OwnNodes(a, sp) \subseteq 2 .. InitialSlots
               /\ Cardinality(OwnNodes(a, sp)) = Cardinality(OwnKeys(pre, a))
<1> DEFINE sp == FirstSlot(pre, a)
           c == Cardinality(OwnKeys(pre, a))
           N == InitialSlots
           R == OwnNodes(a, sp)
<1>1. sp \in Nat /\ 2 <= sp /\ c \in Nat /\ sp + c <= 1 + N /\ N \in Nat
  <2>1. N = 1 + Cardinality(Stored(pre)) /\ Cardinality(Stored(pre)) \in Nat
    BY InitialSlotNodes, AccountsFinite
  <2>2. sp \in Nat /\ 2 <= sp /\ c \in Nat /\ sp + c <= 2 + Cardinality(Stored(pre))
    BY OwnSlotsCount
  <2> HIDE DEF sp, c, N
  <2> QED
    BY <2>1, <2>2
<1>2. \A n \in 2 .. N : slist[n].addr = a <=> sp <= n /\ n < sp + c
  <2> SUFFICES ASSUME NEW n \in 2 .. N PROVE slist[n].addr = a <=> sp <= n /\ n < sp + c
    OBVIOUS
  <2>1. slist[n].addr = SlotLeaf(pre, n - 1)[1] /\ n \in 2 .. 1 + Cardinality(Stored(pre))
    BY InitialSlotNodes
  <2> QED
    BY <2>1, OwnRange
<1>3. R = {n \in sp .. N : \A i \in sp .. n : slist[i].addr = a}
  BY DEF OwnNodes
<1> HIDE DEF sp, c, N, R
<1>4. \A n \in sp .. N : (\A i \in sp .. n : slist[i].addr = a) <=> n < sp + c
  <2> SUFFICES ASSUME NEW n \in sp .. N PROVE (\A i \in sp .. n : slist[i].addr = a) <=> n < sp + c
    OBVIOUS
  <2>1. n \in sp .. n /\ n \in 2 .. N
    BY <1>1
  <2>2. \A i \in sp .. n : i \in 2 .. N /\ sp <= i /\ i <= n
    BY <1>1
  <2>3. ASSUME \A i \in sp .. n : slist[i].addr = a
        PROVE  n < sp + c
    BY <1>2, <2>1, <2>3
  <2>4. ASSUME n < sp + c
        PROVE  \A i \in sp .. n : slist[i].addr = a
    <3> SUFFICES ASSUME NEW i \in sp .. n PROVE slist[i].addr = a
      OBVIOUS
    <3>1. i < sp + c /\ i \in 2 .. N /\ sp <= i
      BY <1>1, <2>2, <2>4
    <3> QED
      BY <1>2, <3>1
  <2> QED
    BY <2>3, <2>4
<1>5. R = {n \in sp .. N : n < sp + c}
  BY <1>3, <1>4
<1>6. R = sp .. ((sp + c) - 1)
  BY <1>1, <1>5
<1>7. Cardinality(R) = c
  BY <1>1, <1>6, FS_Interval
<1>8. R \subseteq 2 .. N
  BY <1>1, <1>5
<1>9. \A n \in 2 .. N : n \in R <=> slist[n].addr = a
  BY <1>1, <1>2, <1>5
<1> QED
  BY <1>7, <1>8, <1>9 DEF sp, c, N, R

\* A slot of the initial state that is 0 now has a node that was unlinked.
LEMMA SlotsDeleted ==
    ASSUME ListsInv, NEW a \in Accts
    PROVE  LET d == delete_removed_slots(a, pre[a].slots, FirstSlot(pre, a))
           IN  /\ d.root \in [Slots -> Nat]
               /\ \A k \in Slots : cur[a].slots[k] = 0 => d.root[k] = 0
               /\ d.sp = FirstSlot(pre, a) + Cardinality(OwnKeys(pre, a))
<1> DEFINE sp == FirstSlot(pre, a)
           R == OwnNodes(a, sp)
           gone == {slist[n].key : n \in {m \in R : slist[m].next = Deleted}}
           root == [k \in Slots |-> IF k \in gone THEN 0 ELSE pre[a].slots[k]]
           d == delete_removed_slots(a, pre[a].slots, sp)
<1>1. d = [root |-> root, sp |-> sp + Cardinality(R)]
  BY DEF delete_removed_slots, OwnNodes
<1>2. /\ \A n \in 2 .. InitialSlots : n \in R <=> slist[n].addr = a
      /\ R \subseteq 2 .. InitialSlots
      /\ Cardinality(R) = Cardinality(OwnKeys(pre, a))
  BY OwnNodesAre
<1>3. pre[a].slots \in [Slots -> Nat]
  BY StatesTyped, ListsInvParts
<1>4. ASSUME NEW k \in Slots, cur[a].slots[k] = 0, pre[a].slots[k] # 0
      PROVE  k \in gone
  <2> DEFINE f == <<a, k>>
             j == Cardinality({g \in Stored(pre) : UpTo(g, f)})
             n == j + 1
  <2>1. f \in Stored(pre)
    BY <1>4 DEF Stored
  <2> HIDE DEF f
  <2>2. j \in 1 .. Cardinality(Stored(pre)) /\ f = SlotLeaf(pre, j)
    BY <2>1, SlotLeavesRise
  <2> HIDE DEF j
  <2>3. n \in 2 .. InitialSlots /\ n - 1 = j
    <3>1. InitialSlots = 1 + Cardinality(Stored(pre)) /\ Cardinality(Stored(pre)) \in Nat
      BY InitialSlotNodes, AccountsFinite
    <3> QED
      BY <2>2, <3>1
  <2> HIDE DEF n
  <2>4. slist[n].addr = a /\ slist[n].key = k /\ n \in 1 .. Len(slist) /\ n # 1
    <3>1. slist[n].addr = f[1] /\ slist[n].key = f[2] /\ n \in 1 .. Len(slist)
      BY <2>2, <2>3, InitialSlotNodes
    <3> QED
      BY <2>3, <3>1 DEF f
  <2>5. n \in R
    BY <1>2, <2>3, <2>4
  <2>6. slist[n].next = Deleted
    <3> SUFFICES ASSUME slist[n].next # Deleted PROVE FALSE
      OBVIOUS
    <3>1. n \in Live(slist) \ {1}
      BY <2>4 DEF Live
    <3>2. slist[n].val # 0 /\ slist[n].val = cur[slist[n].addr].slots[slist[n].key]
      BY <3>1, ListsInvParts DEF SlotsHeld
    <3> QED
      BY <1>4, <2>4, <3>2
  <2> QED
    BY <2>4, <2>5, <2>6
<1> HIDE DEF gone, R, sp, d
<1>5. root \in [Slots -> Nat]
  BY <1>3
<1>6. \A k \in Slots : cur[a].slots[k] = 0 => root[k] = 0
  BY <1>4
<1> HIDE DEF root
<1>7. d.root = root /\ d.sp = sp + Cardinality(R)
  BY <1>1
<1> QED
  BY <1>2, <1>5, <1>6, <1>7 DEF d, sp

\* What delete_removed_accounts has reached after i nodes.
RemovedFrom(i, l, t, sp) ==
    /\ SameNodes(l) /\ t \in [Accts -> Entries] /\ sp \in Nat
    /\ \A j \in 2 .. Len(alist) : j <= i + 1 /\ alist[j].next # Deleted =>
          \A k \in Slots : cur[alist[j].addr].slots[k] = 0 => l[j].root[k] = 0
    /\ \A j \in 2 .. Len(alist) : InitialAccounts < j => l[j].root = NoSlots
    /\ \A j \in 2 .. Len(alist) : i + 1 < j /\ j <= InitialAccounts => l[j].iroot = pre[alist[j].addr].slots
    /\ \A j \in 1 .. i : alist[j + 1].next = Deleted => t[AccountLeaf(pre, j)] = NoAccount
    /\ \A a \in Accts : ~Exists(pre, a) => t[a] = NoAccount
    /\ i < Cardinality(Accounts(pre)) => sp = FirstSlot(pre, AccountLeaf(pre, i + 1))

RemoveRound(acc, n) ==
    LET a == acc.list[n].addr
        d == delete_removed_slots(a, acc.list[n].iroot, acc.sp)
    IN  IF acc.list[n].next = Deleted THEN [acc EXCEPT !.trie[a] = NoAccount]
        ELSE [acc EXCEPT !.list[n].root = d.root, !.sp = d.sp]

\* Before the first node nothing is removed.
LEMMA RemovalStarts ==
    ASSUME ListsInv
    PROVE  LET x == [set_initial_tries EXCEPT !.sp = 2]
           IN  x \in PayloadStates /\ RemovedFrom(0, x.list, x.trie, x.sp)
<1> DEFINE y == set_initial_tries
           x == [y EXCEPT !.sp = 2]
           C == Cardinality(Accounts(pre))
<1>1. y \in PayloadStates /\ PayloadsSet(C, y.list, y.trie, y.sp)
  BY PayloadsAreSet
<1> HIDE DEF y, C
<1>2. x \in PayloadStates /\ x.list = y.list /\ x.trie = y.trie /\ x.sp = 2
  BY <1>1 DEF PayloadStates
<1> HIDE DEF x
<1> DEFINE l == y.list
           t == y.trie
<1>3. /\ SameNodes(l) /\ t \in [Accts -> Entries]
      /\ \A j \in 2 .. Len(alist) : j <= C + 1 => l[j].iroot = pre[alist[j].addr].slots
      /\ \A j \in 2 .. Len(alist) : C + 1 < j => l[j].root = NoSlots
      /\ \A a \in Accts : ~Exists(pre, a) => t[a] = NoAccount
  BY <1>1 DEF PayloadsSet
<1>4. C \in Nat /\ InitialAccounts = C + 1 /\ Len(alist) \in Nat
  BY InitialNodes DEF C
<1>5. 0 < C => 2 = FirstSlot(pre, AccountLeaf(pre, 0 + 1))
  BY NextFirst, ListsInvParts DEF C
<1> HIDE DEF l, t
<1>6. RemovedFrom(0, l, t, 2)
  <2>1. \A j \in 2 .. Len(alist) : ~(j <= 0 + 1)
    BY <1>4
  <2>2. \A j \in 1 .. 0 : FALSE
    OBVIOUS
  <2> QED
    BY <1>3, <1>4, <1>5, <2>1, <2>2 DEF RemovedFrom, C
<1> QED
  BY <1>2, <1>6 DEF x, y, l, t

\* The next node of the initial list is removed from the trie, or its slots are.
LEMMA RemovalGoesOn ==
    ASSUME ListsInv, NEW i \in Nat, i < Cardinality(Accounts(pre)),
           NEW acc \in PayloadStates, RemovedFrom(i, acc.list, acc.trie, acc.sp)
    PROVE  LET new == RemoveRound(acc, (i + 1) + 1)
           IN  new \in PayloadStates /\ RemovedFrom(i + 1, new.list, new.trie, new.sp)
<1> DEFINE m == i + 1
           n == m + 1
           C == Cardinality(Accounts(pre))
           a == AccountLeaf(pre, m)
           l == acc.list
           t == acc.trie
           sp == acc.sp
           new == RemoveRound(acc, n)
<1>1. m \in 1 .. C /\ m \in Nat /\ C \in Nat /\ InitialAccounts = C + 1
  BY InitialNodes
<1>2. /\ n \in 2 .. Len(alist) /\ n \in 1 .. Len(alist) /\ alist[n].addr = a
      /\ a \in Accts /\ Exists(pre, a) /\ Len(alist) \in Nat
      /\ alist[n].next = Deleted => pre[a].slots = NoSlots
  BY <1>1, InitialNodes
<1>3. /\ SameNodes(l) /\ t \in [Accts -> Entries] /\ sp \in Nat
      /\ \A j \in 2 .. Len(alist) : j <= m /\ alist[j].next # Deleted =>
            \A k \in Slots : cur[alist[j].addr].slots[k] = 0 => l[j].root[k] = 0
      /\ \A j \in 2 .. Len(alist) : InitialAccounts < j => l[j].root = NoSlots
      /\ \A j \in 2 .. Len(alist) : m < j /\ j <= InitialAccounts => l[j].iroot = pre[alist[j].addr].slots
      /\ \A j \in 1 .. i : alist[j + 1].next = Deleted => t[AccountLeaf(pre, j)] = NoAccount
      /\ \A b \in Accts : ~Exists(pre, b) => t[b] = NoAccount
      /\ sp = FirstSlot(pre, a)
  BY DEF RemovedFrom
<1>4. l[n] \in TrieNodes /\ l[n].addr = a /\ l[n].next = alist[n].next
  BY <1>2, <1>3 DEF SameNodes
<1>5. l[n].iroot = pre[a].slots
  <2>1. m < n /\ n <= InitialAccounts
    BY <1>1
  <2> QED
    BY <1>2, <1>3, <2>1
<1>6. /\ \A j \in 2 .. Len(alist) : j <= n => j <= m \/ j = n
      /\ \A j \in 2 .. Len(alist) : n < j => m < j /\ j # n
      /\ \A j \in 2 .. Len(alist) : j \in 1 .. Len(alist)
      /\ \A j \in 1 .. m : j \in 1 .. i \/ j = m
      /\ n <= InitialAccounts /\ n \in Nat /\ n # m
  BY <1>1, <1>2
<1>7. m < C => FirstSlot(pre, AccountLeaf(pre, m + 1)) = sp + Cardinality(OwnKeys(pre, a))
  <2> SUFFICES ASSUME m < C PROVE FirstSlot(pre, AccountLeaf(pre, m + 1)) = sp + Cardinality(OwnKeys(pre, a))
    OBVIOUS
  <2>1. m + 1 <= C
    BY <1>1
  <2>2. FirstSlot(pre, AccountLeaf(pre, m + 1)) = FirstSlot(pre, a) + Cardinality(OwnKeys(pre, a))
    BY <1>1, <2>1, NextFirst, ListsInvParts
  <2> QED
    BY <1>3, <2>2
<1>8. \A j \in 1 .. i : AccountLeaf(pre, j) \in Accts /\ AccountLeaf(pre, j) # a
  <2> SUFFICES ASSUME NEW j \in 1 .. i PROVE AccountLeaf(pre, j) \in Accts /\ AccountLeaf(pre, j) # a
    OBVIOUS
  <2>1. j \in 1 .. C /\ j < m
    BY <1>1
  <2>2. AccountLeaf(pre, j) \in Accts /\ AccountLeaf(pre, j) < a
    BY <1>1, <2>1, AccountLeavesRise, InitialNodes
  <2> QED
    BY <2>2, <1>2, KeysTyped
<1>9. CASE alist[n].next = Deleted
  <2> DEFINE t2 == [t EXCEPT ![a] = NoAccount]
  <2>1. new = [acc EXCEPT !.trie = t2]
    <3> HIDE DEF n
    <3> QED
      BY <1>4, <1>9 DEF RemoveRound
  <2>2. t2 \in [Accts -> Entries] /\ t2[a] = NoAccount /\ \A b \in Accts : b # a => t2[b] = t[b]
    BY <1>2, <1>3, NoSlotsTyped
  <2> HIDE DEF t2, new, n
  <2>3. new \in PayloadStates /\ new.list = l /\ new.trie = t2 /\ new.sp = sp
    BY <2>1, <2>2 DEF PayloadStates
  <2> HIDE DEF l, t, sp, m, a
  <2>4. \A j \in 2 .. Len(alist) : j <= n /\ alist[j].next # Deleted =>
            \A k \in Slots : cur[alist[j].addr].slots[k] = 0 => l[j].root[k] = 0
    BY <1>3, <1>6, <1>9
  <2>5. \A j \in 2 .. Len(alist) : n < j /\ j <= InitialAccounts => l[j].iroot = pre[alist[j].addr].slots
    BY <1>3, <1>6
  <2>6. \A j \in 1 .. m : alist[j + 1].next = Deleted => t2[AccountLeaf(pre, j)] = NoAccount
    <3> SUFFICES ASSUME NEW j \in 1 .. m, alist[j + 1].next = Deleted PROVE t2[AccountLeaf(pre, j)] = NoAccount
      OBVIOUS
    <3>1. CASE j = m
      BY <2>2, <3>1 DEF a
    <3>2. CASE j \in 1 .. i
      BY <1>3, <1>8, <2>2, <3>2
    <3> QED
      BY <1>6, <3>1, <3>2
  <2>7. \A b \in Accts : ~Exists(pre, b) => t2[b] = NoAccount
    BY <1>2, <1>3, <2>2
  <2>8. m < C => sp = FirstSlot(pre, AccountLeaf(pre, m + 1))
    <3>1. OwnKeys(pre, a) = {}
      BY <1>2, <1>9, NoSlotsTyped DEF OwnKeys
    <3>2. Cardinality(OwnKeys(pre, a)) = 0
      BY <3>1, FS_EmptySet
    <3> QED
      BY <1>3, <1>7, <3>2
  <2>9. RemovedFrom(m, l, t2, sp)
    BY <1>3, <2>2, <2>4, <2>5, <2>6, <2>7, <2>8 DEF RemovedFrom, n
  <2> QED
    BY <2>3, <2>9 DEF new, n, m
<1>10. CASE alist[n].next # Deleted
  <2> DEFINE e == delete_removed_slots(a, pre[a].slots, FirstSlot(pre, a))
             g == e.root
             sp2 == e.sp
             d == WithRoot(l[n], g)
             l2 == [l EXCEPT ![n] = d]
  <2>1. /\ g \in [Slots -> Nat] /\ \A k \in Slots : cur[a].slots[k] = 0 => g[k] = 0
        /\ sp2 = sp + Cardinality(OwnKeys(pre, a))
    BY <1>2, <1>3, SlotsDeleted
  <2>2. new = [acc EXCEPT !.list = l2, !.sp = sp2]
    <3>1. new = [acc EXCEPT !.list[n].root = g, !.sp = sp2]
      <4> HIDE DEF n
      <4> QED
        BY <1>3, <1>4, <1>5, <1>10 DEF RemoveRound
    <3> HIDE DEF g, sp2, n
    <3>2. [acc EXCEPT !.list[n].root = g, !.sp = sp2] = [acc EXCEPT !.list = [l EXCEPT ![n].root = g], !.sp = sp2]
      OBVIOUS
    <3>3. [l EXCEPT ![n].root = g] = l2
      BY DEF WithRoot
    <3> QED
      BY <3>1, <3>2, <3>3
  <2> HIDE DEF g, sp2, e, n
  <2>3. /\ d \in TrieNodes /\ d.root = g /\ d.iroot = l[n].iroot /\ d.addr = l[n].addr
        /\ d.val = l[n].val /\ d.ival = l[n].ival /\ d.next = l[n].next
    BY <1>4, <2>1, RootsTyped
  <2> HIDE DEF d
  <2>4. SameNodes(l2) /\ l2[n] = d /\ \A j \in 1 .. Len(alist) : j # n => l2[j] = l[j]
    BY <1>2, <1>3, <2>3, NodeReplaced
  <2>5. sp2 \in Nat
    <3>1. Cardinality(OwnKeys(pre, a)) \in Nat
      BY <1>2, OwnSlotsCount
    <3> QED
      BY <1>3, <2>1, <3>1
  <2> HIDE DEF l2, new
  <2>6. new \in PayloadStates /\ new.list = l2 /\ new.trie = t /\ new.sp = sp2
    <3>1. l2 \in Seq(TrieNodes)
      BY <2>4 DEF SameNodes
    <3> QED
      BY <2>2, <2>5, <3>1 DEF PayloadStates
  <2> HIDE DEF l, t, sp, m, a
  <2>7. \A j \in 2 .. Len(alist) : j <= n /\ alist[j].next # Deleted =>
            \A k \in Slots : cur[alist[j].addr].slots[k] = 0 => l2[j].root[k] = 0
    <3> SUFFICES ASSUME NEW j \in 2 .. Len(alist), j <= n, alist[j].next # Deleted,
                        NEW k \in Slots, cur[alist[j].addr].slots[k] = 0
                 PROVE  l2[j].root[k] = 0
      OBVIOUS
    <3>1. CASE j = n
      BY <1>2, <2>1, <2>3, <2>4, <3>1
    <3>2. CASE j # n
      <4>1. j <= m /\ l2[j] = l[j]
        BY <1>6, <2>4, <3>2
      <4> QED
        BY <1>3, <4>1
    <3> QED
      BY <3>1, <3>2
  <2>8. \A j \in 2 .. Len(alist) : InitialAccounts < j => l2[j].root = NoSlots
    <3> SUFFICES ASSUME NEW j \in 2 .. Len(alist), InitialAccounts < j PROVE l2[j].root = NoSlots
      OBVIOUS
    <3>1. j # n /\ j \in 1 .. Len(alist)
      BY <1>1, <1>6
    <3> QED
      BY <1>3, <2>4, <3>1
  <2>9. \A j \in 2 .. Len(alist) : n < j /\ j <= InitialAccounts => l2[j].iroot = pre[alist[j].addr].slots
    BY <1>3, <1>6, <2>4
  <2>10. \A j \in 1 .. m : alist[j + 1].next = Deleted => t[AccountLeaf(pre, j)] = NoAccount
    BY <1>3, <1>6, <1>10 DEF n
  <2>11. m < C => sp2 = FirstSlot(pre, AccountLeaf(pre, m + 1))
    BY <1>7, <2>1
  <2>12. RemovedFrom(m, l2, t, sp2)
    BY <1>3, <2>4, <2>5, <2>7, <2>8, <2>9, <2>10, <2>11 DEF RemovedFrom, n
  <2> QED
    BY <2>6, <2>12 DEF new, n, m
<1> QED
  BY <1>9, <1>10

\* The recursive function of delete_removed_accounts is defined, and removes all.
LEMMA RemovedAreDeleted ==
    ASSUME ListsInv
    PROVE  LET x == delete_removed_accounts[InitialAccounts]
           IN  x \in PayloadStates /\ RemovedFrom(Cardinality(Accounts(pre)), x.list, x.trie, x.sp)
<1> DEFINE N == Cardinality(Accounts(pre))
           M == InitialAccounts
           U == PayloadStates
           x0 == [set_initial_tries EXCEPT !.sp = 2]
           S == [n \in Nat |-> {x \in U : RemovedFrom(n, x.list, x.trie, x.sp)}]
           step == [n \in Nat |-> [x \in U |-> RemoveRound(x, (n + 1) + 1)]]
           Body(g, n) == IF n = 1 THEN x0
                         ELSE LET acc == g[n - 1]
                                  a == acc.list[n].addr
                                  d == delete_removed_slots(a, acc.list[n].iroot, acc.sp)
                              IN  IF acc.list[n].next = Deleted THEN [acc EXCEPT !.trie[a] = NoAccount]
                                  ELSE [acc EXCEPT !.list[n].root = d.root, !.sp = d.sp]
           T == CHOOSE g : g = [n \in 1 .. M |-> Body(g, n)]
<1>1. N \in Nat /\ M = N + 1
  BY InitialNodes
<1>2. x0 \in S[0]
  <2>1. x0 \in U /\ RemovedFrom(0, x0.list, x0.trie, x0.sp)
    BY RemovalStarts
  <2> HIDE DEF x0, U
  <2> QED
    BY <2>1
<1>3. \A n \in Nat : n < N => \A x \in S[n] : RemoveRound(x, (n + 1) + 1) \in S[n + 1]
  <2> SUFFICES ASSUME NEW n \in Nat, n < N, NEW x \in U, RemovedFrom(n, x.list, x.trie, x.sp)
               PROVE  RemoveRound(x, (n + 1) + 1) \in S[n + 1]
    OBVIOUS
  <2> DEFINE y == RemoveRound(x, (n + 1) + 1)
  <2>1. y \in U /\ RemovedFrom(n + 1, y.list, y.trie, y.sp)
    BY RemovalGoesOn
  <2> HIDE DEF y, U
  <2>2. y \in S[n + 1]
    BY <2>1
  <2> QED
    BY <2>2 DEF y
<1>4. \A n \in Nat, x \in U : step[n][x] = RemoveRound(x, (n + 1) + 1)
  <2> HIDE DEF U
  <2> QED
    OBVIOUS
<1>5. \A n \in Nat : \A x \in S[n] : x \in U /\ RemovedFrom(n, x.list, x.trie, x.sp)
  OBVIOUS
<1>6. S \in [Nat -> SUBSET U]
  <2> HIDE DEF U
  <2> QED
    OBVIOUS
<1>7. \A g, n : n # 1 => Body(g, n) = RemoveRound(g[n - 1], n)
  BY DEF RemoveRound
<1>8. \A g : Body(g, 1) = x0
  OBVIOUS
<1>9. delete_removed_accounts[InitialAccounts] = T[M]
  BY DEF delete_removed_accounts
<1> HIDE DEF S, step, N, M, U, x0, Body
<1>10. PICK f : Run(U, S, x0, step, N, f)
  <2>1. \A n \in Nat : n < N => \A x \in S[n] : step[n][x] \in S[n + 1]
    BY <1>3, <1>4, <1>5
  <2> QED
    BY <1>1, <1>2, <1>6, <2>1, RunExists
<1> DEFINE h == [n \in 1 .. M |-> f[n - 1]]
<1>11. f \in [0 .. N -> U] /\ f[0] = x0 /\ \A n \in 0 .. N : n # 0 => f[n] = step[n - 1][f[n - 1]]
  BY <1>10 DEF Run
<1>12. h = [n \in 1 .. M |-> Body(h, n)]
  <2> SUFFICES ASSUME NEW n \in 1 .. M
               PROVE  f[n - 1] = Body(h, n)
    OBVIOUS
  <2>1. CASE n = 1
    BY <1>8, <1>11, <2>1
  <2>2. CASE n # 1
    <3> DEFINE m == n - 1
               i == m - 1
    <3>1. m \in 0 .. N /\ m # 0 /\ i \in Nat /\ i \in 0 .. N /\ m \in 1 .. M /\ (i + 1) + 1 = n
      BY <1>1, <2>2
    <3>2. f[m] = step[i][f[i]] /\ f[i] \in U
      BY <1>11, <3>1
    <3>3. f[m] = RemoveRound(f[i], n)
      BY <1>4, <3>1, <3>2
    <3>4. h[m] = f[i]
      BY <3>1
    <3>5. Body(h, n) = RemoveRound(h[m], n)
      BY <1>7, <2>2
    <3> QED
      BY <3>3, <3>4, <3>5
  <2> QED
    BY <2>1, <2>2
<1> HIDE DEF h
<1>13. T = [n \in 1 .. M |-> Body(T, n)]
  BY <1>12, Zenon
<1> HIDE DEF T
<1>14. T[1] = x0 /\ \A n \in 1 .. M : n # 1 => T[n] = RemoveRound(T[n - 1], n)
  <2>1. \A n \in 1 .. M : T[n] = Body(T, n)
    BY <1>13, Zenon
  <2>2. 1 \in 1 .. M /\ Body(T, 1) = x0
    BY <1>1, <1>8
  <2>3. \A n \in 1 .. M : n # 1 => T[n] = RemoveRound(T[n - 1], n)
    BY <1>7, <2>1
  <2> QED
    BY <2>1, <2>2, <2>3
<1> DEFINE G == {n \in Nat : T[n + 1] \in S[n]}
<1>15. \A n \in 0 .. N : n \in G
  <2>1. 0 \in G
    BY <1>2, <1>14
  <2>2. ASSUME NEW n \in Nat, n < N, n \in G
        PROVE  n + 1 \in G
    <3> DEFINE m == n + 1
    <3>1. m + 1 \in 1 .. M /\ m + 1 # 1 /\ (m + 1) - 1 = m /\ m \in Nat
      BY <1>1, <2>2
    <3>2. T[m + 1] = RemoveRound(T[m], m + 1)
      BY <1>14, <3>1
    <3>3. RemoveRound(T[m], m + 1) \in S[m]
      BY <1>3, <2>2
    <3> QED
      BY <3>1, <3>2, <3>3
  <2> HIDE DEF G
  <2> QED
    BY <1>1, <2>1, <2>2, CountUp
<1>16. T[M] \in S[N]
  BY <1>1, <1>15
<1>17. LET x == T[M] IN x \in U /\ RemovedFrom(N, x.list, x.trie, x.sp)
  BY <1>1, <1>5, <1>16
<1> QED
  BY <1>9, <1>17 DEF U, N

\* What the final tries are made from: absent accounts are gone from the trie, and the
\* roots of the others have no leaf for a slot that is 0 now.
Given(l, t) ==
    /\ SameNodes(l) /\ t \in [Accts -> Entries]
    /\ \A i \in Live(alist) \ {1} : \A k \in Slots :
          cur[alist[i].addr].slots[k] = 0 => l[i].root[k] = 0
    /\ \A a \in Accts : ~Exists(cur, a) => t[a] = NoAccount

\* After delete_removed_accounts the tries hold nothing that is gone.
LEMMA GivenAreRight ==
    ASSUME ListsInv
    PROVE  LET x == delete_removed_accounts[InitialAccounts] IN Given(x.list, x.trie)
<1> DEFINE x == delete_removed_accounts[InitialAccounts]
           l == x.list
           t == x.trie
           C == Cardinality(Accounts(pre))
<1>1. /\ SameNodes(l) /\ t \in [Accts -> Entries]
      /\ \A j \in 2 .. Len(alist) : j <= C + 1 /\ alist[j].next # Deleted =>
            \A k \in Slots : cur[alist[j].addr].slots[k] = 0 => l[j].root[k] = 0
      /\ \A j \in 2 .. Len(alist) : InitialAccounts < j => l[j].root = NoSlots
      /\ \A j \in 1 .. C : alist[j + 1].next = Deleted => t[AccountLeaf(pre, j)] = NoAccount
      /\ \A a \in Accts : ~Exists(pre, a) => t[a] = NoAccount
  BY RemovedAreDeleted DEF RemovedFrom
<1>2. /\ C \in Nat /\ InitialAccounts = C + 1 /\ Len(alist) \in Nat
      /\ \A i \in 1 .. C : /\ i + 1 \in 2 .. Len(alist) /\ i + 1 \in 1 .. Len(alist)
                           /\ alist[i + 1].addr = AccountLeaf(pre, i)
  BY InitialNodes
<1>3. \A i \in Live(alist) \ {1} : Exists(cur, alist[i].addr)
  BY ListsInvParts DEF AccountsHeld
<1> HIDE DEF l, t, x
<1>4. ASSUME NEW i \in Live(alist) \ {1}, NEW k \in Slots, cur[alist[i].addr].slots[k] = 0
      PROVE  l[i].root[k] = 0
  <2>1. i \in 2 .. Len(alist) /\ alist[i].next # Deleted
    BY <1>2 DEF Live
  <2>2. CASE i <= C + 1
    BY <1>1, <1>4, <2>1, <2>2
  <2>3. CASE InitialAccounts < i
    BY <1>1, <2>1, <2>3, NoSlotsTyped
  <2> QED
    BY <1>2, <2>1, <2>2, <2>3
<1>5. ASSUME NEW a \in Accts, ~Exists(cur, a)
      PROVE  t[a] = NoAccount
  <2>1. CASE ~Exists(pre, a)
    BY <1>1, <2>1
  <2>2. CASE Exists(pre, a)
    <3>1. PICK j \in 1 .. C : a = AccountLeaf(pre, j)
      BY <2>2, AccountLeavesRise DEF Accounts
    <3>2. alist[j + 1].addr = a /\ j + 1 \in 1 .. Len(alist) /\ j + 1 # 1
      BY <1>2, <3>1
    <3>3. alist[j + 1].next = Deleted
      <4> SUFFICES ASSUME alist[j + 1].next # Deleted PROVE FALSE
        OBVIOUS
      <4>1. j + 1 \in Live(alist) \ {1}
        BY <3>2 DEF Live
      <4> QED
        BY <1>3, <1>5, <3>2, <4>1
    <3> QED
      BY <1>1, <3>1, <3>3
  <2> QED
    BY <2>1, <2>2
<1>6. Given(l, t)
  BY <1>1, <1>4, <1>5 DEF Given
<1> QED
  BY <1>6 DEF l, t, x

-----------------------------------------------------------------------------
(* Inserting the slots of an account.                                      *)

\* The rank of a node of the list of slots.
SlotAt(i) == Rank(slist[i].addr, slist[i].key)

\* The list of slots as insert_all_slots walks through it.
LEMMA SlotFacts ==
    ASSUME ListsInv
    PROVE  LET L == Live(slist)
           IN  /\ Len(slist) \in Nat /\ L \subseteq 1 .. Len(slist) /\ 1 \in L /\ slist[1].addr = Top
               /\ \A i \in L : slist[i].addr \in Nat /\ SlotAt(i) \in Nat /\ slist[i].next \in L /\ i \in Nat
               /\ \A i, j \in L : slist[i].addr < slist[j].addr => SlotAt(i) < SlotAt(j)
               /\ \A i \in L \ {1} : /\ slist[i].addr \in Accts /\ slist[i].key \in Slots
                                     /\ slist[i].val # 0
                                     /\ slist[i].val = cur[slist[i].addr].slots[slist[i].key]
                                     /\ SlotAt(i) < SlotAt(slist[i].next)
               /\ \A i, j \in L \ {1} : SlotAt(i) < SlotAt(j) => SlotAt(slist[i].next) <= SlotAt(j)
               /\ \A i, j \in L \ {1} : SlotAt(i) = SlotAt(j) => i = j
               /\ \A j \in L \ {1} : SlotAt(slist[1].next) <= SlotAt(j)
               /\ \A a \in Accts, k \in Slots : cur[a].slots[k] # 0 =>
                     \E i \in L \ {1} : slist[i].addr = a /\ slist[i].key = k
<1> DEFINE L == Live(slist)
           r == SlotRanks(slist)
           nx == Nexts(slist)
<1>1. SlotsHeld(slist, cur)
  BY ListsInvParts
<1>2. /\ Len(slist) \in Nat /\ L \subseteq 1 .. Len(slist) /\ 1 \in L /\ slist[1].addr = Top
      /\ \A i \in 1 .. Len(slist) : /\ r[i] = SlotAt(i) /\ nx[i] = slist[i].next
                                    /\ slist[i].addr \in Nat /\ slist[i].key \in Nat /\ slist[i].key < Top
      /\ \A i \in L : slist[i].next \in L
  BY <1>1, SlotCycle DEF SlotAt
<1>3. /\ Cycle(r, nx, L, Rank(Top, 0))
      /\ \A i \in L \ {1} : /\ slist[i].addr \in Accts /\ slist[i].key \in Slots
                            /\ slist[i].val # 0
                            /\ slist[i].val = cur[slist[i].addr].slots[slist[i].key]
      /\ \A a \in Accts, k \in Slots : cur[a].slots[k] # 0 =>
            \E i \in L \ {1} : slist[i].addr = a /\ slist[i].key = k
  BY <1>1 DEF SlotsHeld
<1>4. \A i, j \in L : slist[i].addr < slist[j].addr => SlotAt(i) < SlotAt(j)
  <2> SUFFICES ASSUME NEW i \in L, NEW j \in L, slist[i].addr < slist[j].addr PROVE SlotAt(i) < SlotAt(j)
    OBVIOUS
  <2> DEFINE a == slist[i].addr
             b == slist[j].addr
             k == slist[i].key
             m == slist[j].key
  <2>1. a \in Nat /\ b \in Nat /\ k \in Nat /\ m \in Nat /\ k < Top /\ m < Top /\ a < b
    BY <1>2
  <2> HIDE DEF a, b, k, m
  <2>2. Rank(a, k) < Rank(b, m)
    BY <2>1, RankOrder
  <2> QED
    BY <2>2 DEF SlotAt, a, b, k, m
<1>5. /\ \A i \in L \ {1} : r[i] \in Nat /\ 0 < r[i]
      /\ \A i \in L : r[i] \in Nat /\ nx[i] \in L
      /\ \A i, j \in L \ {1} : r[i] = r[j] => i = j
      /\ \A i \in L : Lo(r, i) < r[nx[i]]
      /\ \A i \in L, j \in L \ {1} : Lo(r, i) < r[j] => r[nx[i]] <= r[j]
  BY <1>3 DEF Cycle
<1>6. \A i \in L : r[i] = SlotAt(i) /\ nx[i] = slist[i].next /\ i \in 1 .. Len(slist)
  BY <1>2
<1> HIDE DEF r, nx, L
<1>7. \A i \in L \ {1} : SlotAt(i) < SlotAt(slist[i].next)
  BY <1>5, <1>6 DEF Lo
<1>8. \A i, j \in L \ {1} : SlotAt(i) < SlotAt(j) => SlotAt(slist[i].next) <= SlotAt(j)
  BY <1>5, <1>6 DEF Lo
<1>9. \A j \in L \ {1} : SlotAt(slist[1].next) <= SlotAt(j)
  <2> SUFFICES ASSUME NEW j \in L \ {1} PROVE SlotAt(slist[1].next) <= SlotAt(j)
    OBVIOUS
  <2>1. 1 \in L /\ Lo(r, 1) = 0
    BY <1>2 DEF Lo
  <2>2. r[nx[1]] <= r[j]
    BY <1>5, <2>1
  <2>3. nx[1] \in L /\ nx[1] = slist[1].next
    BY <1>5, <1>6, <2>1
  <2> QED
    BY <1>6, <2>2, <2>3
<1>10. \A i, j \in L \ {1} : SlotAt(i) = SlotAt(j) => i = j
  BY <1>5, <1>6
<1>11. \A i \in L : slist[i].addr \in Nat /\ SlotAt(i) \in Nat /\ slist[i].next \in L /\ i \in Nat
  BY <1>2, <1>5, <1>6
<1> QED
  BY <1>2, <1>3, <1>4, <1>7, <1>8, <1>9, <1>10, <1>11 DEF L

\* The nodes before a node.
Before(p) == {j \in Live(slist) \ {1} : SlotAt(j) < SlotAt(p)}

\* Node p is the first of the list whose account is not below a, or not a or below.
FirstFrom(p, a) ==
    /\ p \in Live(slist) /\ a <= slist[p].addr
    /\ \A j \in Live(slist) \ {1} : a <= slist[j].addr => SlotAt(p) <= SlotAt(j)

FirstAfter(p, a) ==
    /\ p \in Live(slist) /\ a < slist[p].addr
    /\ \A j \in Live(slist) \ {1} : a < slist[j].addr => SlotAt(p) <= SlotAt(j)

\* What insert_all_slots has reached after n rounds.
Inserting(a, root, n, p, f) ==
    /\ p \in Live(slist) /\ a <= slist[p].addr /\ f \in [Slots -> Nat]
    /\ \A j \in Live(slist) \ {1} : a < slist[j].addr => SlotAt(p) <= SlotAt(j)
    /\ \A k \in Slots : f[k] = IF cur[a].slots[k] # 0 /\ Rank(a, k) < SlotAt(p)
                               THEN cur[a].slots[k] ELSE root[k]
    /\ slist[p].addr = a => n <= Cardinality(Before(p))

InsertRound(a, acc) ==
    LET node == slist[acc.sp]
    IN  IF node.addr # a THEN acc
        ELSE [sp |-> node.next, root |-> [acc.root EXCEPT ![node.key] = node.val]]

InsertStates == [sp : Nat, root : [Slots -> Nat]]

\* Fewer nodes than the list has come before a node.
LEMMA BeforeFinite ==
    ASSUME ListsInv, NEW p
    PROVE  /\ IsFiniteSet(Before(p)) /\ Cardinality(Before(p)) \in Nat
           /\ Cardinality(Before(p)) < Len(slist)
<1> DEFINE I == 2 .. Len(slist)
<1>1. Len(slist) \in Nat /\ Live(slist) \subseteq 1 .. Len(slist) /\ 1 \in Live(slist)
  BY SlotFacts
<1>2. Before(p) \subseteq I
  BY <1>1 DEF Before
<1>3. 0 < Len(slist)
  BY <1>1
<1>4. IsFiniteSet(I) /\ Cardinality(I) = Len(slist) - 1
  BY <1>1, <1>3, FS_Interval
<1> HIDE DEF I
<1>5. IsFiniteSet(Before(p)) /\ Cardinality(Before(p)) <= Cardinality(I)
  BY <1>2, <1>4, FS_Subset
<1>6. Cardinality(Before(p)) \in Nat
  BY <1>5, FS_CardinalityType
<1> QED
  BY <1>1, <1>4, <1>5, <1>6

\* Before the first round the root is the given one.
LEMMA InsertingStarts ==
    ASSUME ListsInv, NEW a \in Accts, NEW p, FirstFrom(p, a), NEW root \in [Slots -> Nat]
    PROVE  Inserting(a, root, 0, p, root)
<1>1. a \in Nat
  BY KeysTyped
<1>2. \A i \in Live(slist) : slist[i].addr \in Nat /\ SlotAt(i) \in Nat
  BY SlotFacts
<1>3. /\ p \in Live(slist) /\ a <= slist[p].addr
      /\ \A j \in Live(slist) \ {1} : a <= slist[j].addr => SlotAt(p) <= SlotAt(j)
  BY DEF FirstFrom
<1>4. \A j \in Live(slist) \ {1} : a < slist[j].addr => SlotAt(p) <= SlotAt(j)
  BY <1>1, <1>2, <1>3
<1>5. ASSUME NEW k \in Slots, cur[a].slots[k] # 0, Rank(a, k) < SlotAt(p)
      PROVE  FALSE
  <2>1. PICK i \in Live(slist) \ {1} : slist[i].addr = a /\ slist[i].key = k
    BY <1>5, SlotFacts
  <2>2. SlotAt(i) = Rank(a, k)
    BY <2>1 DEF SlotAt
  <2>3. SlotAt(p) <= SlotAt(i)
    BY <1>1, <1>3, <2>1
  <2> QED
    BY <1>2, <1>3, <1>5, <2>2, <2>3
<1>6. Cardinality(Before(p)) \in Nat
  BY BeforeFinite
<1> QED
  BY <1>3, <1>4, <1>5, <1>6 DEF Inserting

\* A round ends the loop or inserts the next slot of the account.
LEMMA InsertingGoesOn ==
    ASSUME ListsInv, NEW a \in Accts, NEW root \in [Slots -> Nat], NEW n \in Nat,
           NEW acc \in InsertStates, Inserting(a, root, n, acc.sp, acc.root)
    PROVE  LET new == InsertRound(a, acc)
           IN  new \in InsertStates /\ Inserting(a, root, n + 1, new.sp, new.root)
<1> DEFINE L == Live(slist)
           p == acc.sp
           f == acc.root
           new == InsertRound(a, acc)
<1>1. a \in Nat /\ a # Top /\ slist[1].addr = Top
  BY KeysTyped, SlotFacts, StateListsAssumption
<1>2. /\ p \in L /\ a <= slist[p].addr /\ f \in [Slots -> Nat]
      /\ \A j \in L \ {1} : a < slist[j].addr => SlotAt(p) <= SlotAt(j)
      /\ \A k \in Slots : f[k] = IF cur[a].slots[k] # 0 /\ Rank(a, k) < SlotAt(p)
                                 THEN cur[a].slots[k] ELSE root[k]
      /\ slist[p].addr = a => n <= Cardinality(Before(p))
  BY DEF Inserting
<1>3. CASE slist[p].addr # a
  <2>1. new = acc
    BY <1>3 DEF InsertRound
  <2>2. Inserting(a, root, n + 1, p, f)
    BY <1>2, <1>3 DEF Inserting
  <2> QED
    BY <2>1, <2>2
<1>4. CASE slist[p].addr = a
  <2> DEFINE q == slist[p].next
             m == slist[p].key
             v == slist[p].val
             g == [f EXCEPT ![m] = v]
  <2>1. new = [sp |-> q, root |-> g]
    BY <1>4 DEF InsertRound
  <2>2. /\ p \in L \ {1} /\ q \in L /\ m \in Slots /\ v # 0 /\ v = cur[a].slots[m]
        /\ SlotAt(p) < SlotAt(q) /\ SlotAt(p) = Rank(a, m)
        /\ q \in Nat
    <3>1. p \in L \ {1}
      BY <1>1, <1>2, <1>4
    <3> QED
      BY <1>4, <3>1, SlotFacts DEF SlotAt
  <2>3. v \in Nat
    <3>1. \A k \in Slots : cur[a].slots[k] \in Nat
      BY StatesTyped, ListsInvParts
    <3> HIDE DEF m, v
    <3> QED
      BY <2>2, <3>1
  <2>4. g \in [Slots -> Nat] /\ g[m] = v /\ \A k \in Slots : k # m => g[k] = f[k]
    BY <1>2, <2>2, <2>3
  <2>5. /\ \A i \in L : slist[i].addr \in Nat /\ SlotAt(i) \in Nat
        /\ \A i, j \in L : slist[i].addr < slist[j].addr => SlotAt(i) < SlotAt(j)
        /\ \A j \in L \ {1} : SlotAt(p) < SlotAt(j) => SlotAt(q) <= SlotAt(j)
        /\ \A j \in L \ {1} : SlotAt(p) = SlotAt(j) => p = j
    BY <2>2, SlotFacts
  <2> HIDE DEF q, m, v, g, new, p, f, L
  <2>6. a <= slist[q].addr
    BY <1>1, <1>4, <2>2, <2>5
  <2>7. \A j \in L \ {1} : a < slist[j].addr => SlotAt(q) <= SlotAt(j)
    BY <1>2, <1>4, <2>2, <2>5
  <2>8. ASSUME NEW k \in Slots
        PROVE  g[k] = IF cur[a].slots[k] # 0 /\ Rank(a, k) < SlotAt(q) THEN cur[a].slots[k] ELSE root[k]
    <3>1. CASE k = m
      BY <2>2, <2>4, <3>1
    <3>2. CASE k # m /\ cur[a].slots[k] = 0
      BY <1>2, <2>4, <3>2
    <3>3. CASE k # m /\ cur[a].slots[k] # 0
      <4>1. PICK j \in L \ {1} : slist[j].addr = a /\ slist[j].key = k
        BY <3>3, SlotFacts DEF L
      <4>2. SlotAt(j) = Rank(a, k) /\ j # p
        BY <3>3, <4>1 DEF SlotAt, m
      <4>3. SlotAt(j) < SlotAt(q) <=> SlotAt(j) < SlotAt(p)
        BY <2>2, <2>5, <4>1, <4>2
      <4> QED
        BY <1>2, <2>4, <3>3, <4>2, <4>3
    <3> QED
      BY <3>1, <3>2, <3>3
  <2>9. n + 1 <= Cardinality(Before(q))
    <3> DEFINE P == Before(p)
               Q == Before(q)
    <3>1. P \subseteq Q /\ p \in Q /\ p \notin P
      <4>1. P = {j \in L \ {1} : SlotAt(j) < SlotAt(p)} /\ Q = {j \in L \ {1} : SlotAt(j) < SlotAt(q)}
        BY DEF Before, L
      <4>2. \A j \in L : SlotAt(j) < SlotAt(p) => SlotAt(j) < SlotAt(q)
        <5> SUFFICES ASSUME NEW j \in L, SlotAt(j) < SlotAt(p) PROVE SlotAt(j) < SlotAt(q)
          OBVIOUS
        <5> DEFINE x == SlotAt(j)
                   y == SlotAt(p)
                   z == SlotAt(q)
        <5>1. x \in Nat /\ y \in Nat /\ z \in Nat /\ x < y /\ y < z
          BY <2>2, <2>5
        <5> HIDE DEF x, y, z
        <5>2. x < z
          BY <5>1
        <5> QED
          BY <5>2 DEF x, z
      <4>3. ~(SlotAt(p) < SlotAt(p))
        <5> DEFINE z == SlotAt(p)
        <5>1. z \in Nat
          BY <2>2, <2>5
        <5> HIDE DEF z
        <5>2. ~(z < z)
          BY <5>1
        <5> QED
          BY <5>2 DEF z
      <4> HIDE DEF P, Q
      <4> QED
        BY <2>2, <4>1, <4>2, <4>3
    <3>2. IsFiniteSet(P) /\ IsFiniteSet(Q) /\ Cardinality(P) \in Nat /\ Cardinality(Q) \in Nat
      BY BeforeFinite
    <3> HIDE DEF P, Q
    <3>3. P \cup {p} \subseteq Q
      BY <3>1
    <3>4. Cardinality(P \cup {p}) = Cardinality(P) + 1
      BY <3>1, <3>2, FS_AddElement
    <3>5. Cardinality(P \cup {p}) <= Cardinality(Q)
      BY <3>2, <3>3, FS_Subset
    <3>6. n <= Cardinality(P)
      BY <1>2, <1>4 DEF P
    <3> QED
      BY <3>2, <3>4, <3>5, <3>6 DEF Q
  <2>10. Inserting(a, root, n + 1, q, g)
    BY <2>2, <2>4, <2>6, <2>7, <2>8, <2>9 DEF Inserting, L
  <2>11. new \in InsertStates /\ new.sp = q /\ new.root = g
    BY <2>1, <2>2, <2>4 DEF InsertStates
  <2> QED
    BY <2>10, <2>11 DEF new
<1> QED
  BY <1>3, <1>4

\* The recursive function of insert_all_slots is defined.
LEMMA SlotsAreInserted ==
    ASSUME ListsInv, NEW a \in Accts, NEW p, FirstFrom(p, a), NEW root \in [Slots -> Nat]
    PROVE  LET r == insert_all_slots(a, p, root)
           IN  r \in InsertStates /\ Inserting(a, root, Len(slist), r.sp, r.root)
<1> DEFINE N == Len(slist)
           U == InsertStates
           x0 == [sp |-> p, root |-> root]
           S == [n \in Nat |-> {x \in U : Inserting(a, root, n, x.sp, x.root)}]
           step == [n \in Nat |-> [x \in U |-> InsertRound(a, x)]]
           Body(g, n) == IF n = 0 THEN x0
                         ELSE LET acc == g[n - 1]
                                  node == slist[acc.sp]
                              IN  IF node.addr # a THEN acc
                                  ELSE [sp |-> node.next, root |-> [acc.root EXCEPT ![node.key] = node.val]]
           T == CHOOSE g : g = [n \in 0 .. N |-> Body(g, n)]
<1>1. N \in Nat
  BY SlotFacts
<1>2. x0 \in S[0]
  <2>1. p \in Nat /\ Inserting(a, root, 0, p, root)
    BY InsertingStarts, SlotFacts DEF FirstFrom
  <2>2. x0 \in U /\ x0.sp = p /\ x0.root = root
    BY <2>1 DEF InsertStates
  <2> HIDE DEF x0, U
  <2> QED
    BY <2>1, <2>2
<1>3. \A n \in Nat : \A x \in S[n] : InsertRound(a, x) \in S[n + 1]
  <2> SUFFICES ASSUME NEW n \in Nat, NEW x \in U, Inserting(a, root, n, x.sp, x.root)
               PROVE  InsertRound(a, x) \in S[n + 1]
    OBVIOUS
  <2> DEFINE y == InsertRound(a, x)
  <2>1. y \in U /\ Inserting(a, root, n + 1, y.sp, y.root)
    BY InsertingGoesOn
  <2> HIDE DEF y, U
  <2>2. y \in S[n + 1]
    BY <2>1
  <2> QED
    BY <2>2 DEF y
<1>4. \A n \in Nat, x \in U : step[n][x] = InsertRound(a, x)
  <2> HIDE DEF U
  <2> QED
    OBVIOUS
<1>5. \A n \in Nat : \A x \in S[n] : x \in U /\ Inserting(a, root, n, x.sp, x.root)
  OBVIOUS
<1>6. S \in [Nat -> SUBSET U]
  <2> HIDE DEF U
  <2> QED
    OBVIOUS
<1>7. \A g, n : n # 0 => Body(g, n) = InsertRound(a, g[n - 1])
  BY DEF InsertRound
<1>8. \A g : Body(g, 0) = x0
  OBVIOUS
<1>9. insert_all_slots(a, p, root) = T[N]
  BY DEF insert_all_slots
<1> HIDE DEF S, step, N, U, x0, Body
<1>10. PICK f : Run(U, S, x0, step, N, f)
  <2>1. \A n \in Nat : n < N => \A x \in S[n] : step[n][x] \in S[n + 1]
    BY <1>3, <1>4, <1>5
  <2> QED
    BY <1>1, <1>2, <1>6, <2>1, RunExists
<1>11. f = [n \in 0 .. N |-> Body(f, n)]
  <2>1. f \in [0 .. N -> U] /\ f[0] = x0 /\ \A n \in 0 .. N : n # 0 => f[n] = step[n - 1][f[n - 1]]
    BY <1>10 DEF Run
  <2>2. ASSUME NEW n \in 0 .. N
        PROVE  f[n] = Body(f, n)
    <3>1. CASE n = 0
      BY <1>8, <2>1, <3>1
    <3>2. CASE n # 0
      <4> DEFINE m == n - 1
      <4>1. m \in Nat /\ m \in 0 .. N /\ m + 1 = n
        BY <1>1, <3>2
      <4>2. f[m] \in U /\ f[n] = step[m][f[m]]
        BY <2>1, <3>2, <4>1
      <4>3. f[n] = InsertRound(a, f[m])
        BY <1>4, <4>1, <4>2
      <4> QED
        BY <1>7, <3>2, <4>3
    <3> QED
      BY <3>1, <3>2
  <2> QED
    BY <2>1, <2>2
<1>12. T = [n \in 0 .. N |-> Body(T, n)]
  BY <1>11, Zenon
<1> HIDE DEF T
<1>13. T[0] = x0 /\ \A n \in 0 .. N : n # 0 => T[n] = InsertRound(a, T[n - 1])
  <2>1. \A n \in 0 .. N : T[n] = Body(T, n)
    BY <1>12, Zenon
  <2>2. 0 \in 0 .. N /\ Body(T, 0) = x0
    BY <1>1, <1>8
  <2>3. \A n \in 0 .. N : n # 0 => T[n] = InsertRound(a, T[n - 1])
    BY <1>7, <2>1
  <2> QED
    BY <2>1, <2>2, <2>3
<1> DEFINE G == {n \in Nat : T[n] \in S[n]}
<1>14. \A n \in 0 .. N : n \in G
  <2>1. 0 \in G
    BY <1>2, <1>13
  <2>2. ASSUME NEW n \in Nat, n < N, n \in G
        PROVE  n + 1 \in G
    <3> DEFINE m == n + 1
    <3>1. m \in 0 .. N /\ m # 0 /\ m - 1 = n /\ m \in Nat
      BY <1>1, <2>2
    <3>2. T[m] = InsertRound(a, T[n])
      BY <1>13, <3>1
    <3>3. InsertRound(a, T[n]) \in S[m]
      BY <1>3, <2>2
    <3> QED
      BY <3>1, <3>2, <3>3
  <2> HIDE DEF G
  <2> QED
    BY <1>1, <2>1, <2>2, CountUp
<1>15. T[N] \in S[N]
  BY <1>1, <1>14
<1>16. LET x == T[N] IN x \in U /\ Inserting(a, root, N, x.sp, x.root)
  BY <1>1, <1>5, <1>15
<1> QED
  BY <1>9, <1>16 DEF U, N

\* The loop ends behind the account's slots, and all of them are in the trie.
LEMMA SlotsInserted ==
    ASSUME ListsInv, NEW a \in Accts, NEW p, FirstFrom(p, a), NEW root \in [Slots -> Nat],
           \A k \in Slots : cur[a].slots[k] = 0 => root[k] = 0
    PROVE  LET r == insert_all_slots(a, p, root)
           IN  FirstAfter(r.sp, a) /\ r.root = cur[a].slots
<1> DEFINE r == insert_all_slots(a, p, root)
           q == r.sp
           f == r.root
<1>1. /\ q \in Live(slist) /\ a <= slist[q].addr /\ f \in [Slots -> Nat]
      /\ \A j \in Live(slist) \ {1} : a < slist[j].addr => SlotAt(q) <= SlotAt(j)
      /\ \A k \in Slots : f[k] = IF cur[a].slots[k] # 0 /\ Rank(a, k) < SlotAt(q)
                                 THEN cur[a].slots[k] ELSE root[k]
      /\ slist[q].addr = a => Len(slist) <= Cardinality(Before(q))
  BY SlotsAreInserted DEF Inserting
<1> HIDE DEF q, f
<1>2. a \in Nat /\ slist[q].addr \in Nat
  BY <1>1, KeysTyped, SlotFacts
<1>3. slist[q].addr # a
  <2>1. Cardinality(Before(q)) \in Nat /\ Cardinality(Before(q)) < Len(slist) /\ Len(slist) \in Nat
    BY BeforeFinite, SlotFacts
  <2> QED
    BY <1>1, <2>1
<1>4. a < slist[q].addr
  BY <1>1, <1>2, <1>3
<1>5. ASSUME NEW k \in Slots
      PROVE  f[k] = cur[a].slots[k]
  <2>1. CASE cur[a].slots[k] = 0
    BY <1>1, <2>1
  <2>2. CASE cur[a].slots[k] # 0
    <3>1. PICK j \in Live(slist) \ {1} : slist[j].addr = a /\ slist[j].key = k
      BY <2>2, SlotFacts
    <3>2. SlotAt(j) = Rank(a, k)
      BY <3>1 DEF SlotAt
    <3>3. SlotAt(j) < SlotAt(q)
      BY <1>1, <1>4, <3>1, SlotFacts
    <3> QED
      BY <1>1, <2>2, <3>2, <3>3
  <2> QED
    BY <2>1, <2>2
<1>6. cur[a].slots \in [Slots -> Nat]
  BY StatesTyped, ListsInvParts
<1>7. f = cur[a].slots
  BY <1>1, <1>5, <1>6
<1>8. FirstAfter(q, a)
  BY <1>1, <1>4 DEF FirstAfter
<1> QED
  BY <1>7, <1>8 DEF q, f

-----------------------------------------------------------------------------
(* Inserting the accounts.                                                 *)

\* The list of accounts as insert_all_accounts walks through it.
LEMMA AccountFacts ==
    ASSUME ListsInv
    PROVE  LET L == Live(alist)
           IN  /\ Len(alist) \in Nat /\ L \subseteq 1 .. Len(alist) /\ 1 \in L /\ alist[1].addr = Top
               /\ \A i \in L : /\ alist[i].addr \in Nat /\ alist[i].addr <= Top
                               /\ alist[i].next \in L /\ i \in Nat
               /\ \A i \in L \ {1} : /\ alist[i].addr \in Accts /\ Exists(cur, alist[i].addr)
                                     /\ alist[i].val = cur[alist[i].addr].val
                                     /\ alist[i].addr < alist[alist[i].next].addr
               /\ \A i, j \in L \ {1} : alist[i].addr < alist[j].addr => alist[alist[i].next].addr <= alist[j].addr
               /\ \A j \in L \ {1} : alist[alist[1].next].addr <= alist[j].addr
               /\ \A a \in Accts : Exists(cur, a) => \E i \in L \ {1} : alist[i].addr = a
<1> DEFINE L == Live(alist)
           r == AccountRanks(alist)
           nx == Nexts(alist)
<1>1. AccountsHeld(alist, cur)
  BY ListsInvParts
<1>2. /\ Len(alist) \in Nat /\ L \subseteq 1 .. Len(alist) /\ 1 \in L /\ alist[1].addr = Top
      /\ \A i \in 1 .. Len(alist) : r[i] = alist[i].addr /\ nx[i] = alist[i].next /\ alist[i].addr \in Nat
      /\ \A i \in L : alist[i].next \in L
  BY <1>1, AccountCycle
<1>3. /\ Cycle(r, nx, L, Top)
      /\ \A i \in L \ {1} : /\ alist[i].addr \in Accts /\ Exists(cur, alist[i].addr)
                            /\ alist[i].val = cur[alist[i].addr].val
      /\ \A a \in Accts : Exists(cur, a) => \E i \in L \ {1} : alist[i].addr = a
  BY <1>1 DEF AccountsHeld
<1>4. /\ \A i \in L \ {1} : r[i] \in Nat /\ 0 < r[i]
      /\ \A i \in L : r[i] \in Nat /\ nx[i] \in L
      /\ \A i \in L : Lo(r, i) < r[nx[i]]
      /\ \A i \in L, j \in L \ {1} : Lo(r, i) < r[j] => r[nx[i]] <= r[j]
  BY <1>3 DEF Cycle
<1>5. \A i \in L : r[i] = alist[i].addr /\ nx[i] = alist[i].next /\ i \in 1 .. Len(alist)
  BY <1>2
<1>6. \A i \in L : r[i] <= Top
  BY <1>3, CycleTypes
<1> HIDE DEF r, nx, L
<1>7. \A i \in L \ {1} : alist[i].addr < alist[alist[i].next].addr
  BY <1>4, <1>5 DEF Lo
<1>8. \A i, j \in L \ {1} : alist[i].addr < alist[j].addr => alist[alist[i].next].addr <= alist[j].addr
  BY <1>4, <1>5 DEF Lo
<1>9. \A j \in L \ {1} : alist[alist[1].next].addr <= alist[j].addr
  <2> SUFFICES ASSUME NEW j \in L \ {1} PROVE alist[alist[1].next].addr <= alist[j].addr
    OBVIOUS
  <2>1. 1 \in L /\ Lo(r, 1) = 0
    BY <1>2 DEF Lo
  <2>2. r[nx[1]] <= r[j]
    BY <1>4, <2>1
  <2>3. nx[1] \in L /\ nx[1] = alist[1].next
    BY <1>4, <1>5, <2>1
  <2> QED
    BY <1>5, <2>2, <2>3
<1>10. \A i \in L : alist[i].addr \in Nat /\ alist[i].addr <= Top /\ alist[i].next \in L /\ i \in Nat
  BY <1>2, <1>4, <1>5, <1>6
<1> QED
  BY <1>2, <1>3, <1>7, <1>8, <1>9, <1>10 DEF L

\* A slot that is linked belongs to an account that is.
LEMMA SlotsHaveAccounts ==
    ASSUME ListsInv, NEW j \in Live(slist) \ {1}
    PROVE  \E i \in Live(alist) \ {1} : alist[i].addr = slist[j].addr
<1> DEFINE a == slist[j].addr
           k == slist[j].key
<1>1. a \in Accts /\ k \in Slots /\ cur[a].slots[k] # 0
  BY SlotFacts
<1> HIDE DEF a, k
<1>2. Exists(cur, a)
  BY <1>1, StatesTyped, ListsInvParts
<1>3. \E i \in Live(alist) \ {1} : alist[i].addr = a
  BY <1>1, <1>2, AccountFacts
<1> QED
  BY <1>3 DEF a

\* The first slot not below x belongs to an account not below x, or is the special node.
LEMMA SlotsAfter ==
    ASSUME ListsInv, NEW b \in Nat, b <= Top, NEW p \in Live(slist),
           \A i \in Live(alist) \ {1} : alist[i].addr = slist[p].addr => b <= alist[i].addr
    PROVE  b <= slist[p].addr
<1>1. CASE p = 1
  BY <1>1, SlotFacts
<1>2. CASE p # 1
  <2>1. PICK i \in Live(alist) \ {1} : alist[i].addr = slist[p].addr
    BY <1>2, SlotsHaveAccounts
  <2> QED
    BY <2>1
<1> QED
  BY <1>1, <1>2

\* What insert_all_accounts has reached after n rounds.
Earlier(p) == {j \in Live(alist) \ {1} : alist[j].addr < alist[p].addr}

AccountsInserted(t0, n, p, t, sp) ==
    /\ p \in Live(alist) /\ t \in [Accts -> Entries]
    /\ \A a \in Accts : t[a] = IF Exists(cur, a) /\ a < alist[p].addr THEN cur[a] ELSE t0[a]
    /\ FirstFrom(sp, alist[p].addr)
    /\ alist[p].addr # Top => n <= Cardinality(Earlier(p))

\* Fewer nodes than the list has come before a node.
LEMMA EarlierFinite ==
    ASSUME ListsInv, NEW p
    PROVE  /\ IsFiniteSet(Earlier(p)) /\ Cardinality(Earlier(p)) \in Nat
           /\ Cardinality(Earlier(p)) < Len(alist)
<1> DEFINE I == 2 .. Len(alist)
<1>1. Len(alist) \in Nat /\ Live(alist) \subseteq 1 .. Len(alist) /\ 1 \in Live(alist)
  BY AccountFacts
<1>2. Earlier(p) \subseteq I
  BY <1>1 DEF Earlier
<1>3. 0 < Len(alist)
  BY <1>1
<1>4. IsFiniteSet(I) /\ Cardinality(I) = Len(alist) - 1
  BY <1>1, <1>3, FS_Interval
<1> HIDE DEF I
<1>5. IsFiniteSet(Earlier(p)) /\ Cardinality(Earlier(p)) <= Cardinality(I)
  BY <1>2, <1>4, FS_Subset
<1>6. Cardinality(Earlier(p)) \in Nat
  BY <1>5, FS_CardinalityType
<1> QED
  BY <1>1, <1>4, <1>5, <1>6

\* Before the first round the trie is the given one.
LEMMA AccountsStart ==
    ASSUME ListsInv, NEW t \in [Accts -> Entries]
    PROVE  AccountsInserted(t, 0, alist[1].next, t, slist[1].next)
<1> DEFINE p == alist[1].next
           b == alist[p].addr
           q == slist[1].next
<1>1. p \in Live(alist) /\ b \in Nat /\ b <= Top /\ \A j \in Live(alist) \ {1} : b <= alist[j].addr
  BY AccountFacts
<1>2. q \in Live(slist) /\ \A j \in Live(slist) \ {1} : SlotAt(q) <= SlotAt(j)
  BY SlotFacts
<1>3. \A j \in Live(alist) : alist[j].addr \in Nat
  BY AccountFacts
<1> HIDE DEF p, b, q
<1>4. ASSUME NEW a \in Accts, Exists(cur, a), a < b
      PROVE  FALSE
  <2>1. PICK i \in Live(alist) \ {1} : alist[i].addr = a
    BY <1>4, AccountFacts
  <2> QED
    BY <1>1, <1>3, <1>4, <2>1
<1>5. b <= slist[q].addr
  BY <1>1, <1>2, SlotsAfter
<1>6. FirstFrom(q, b)
  BY <1>2, <1>5 DEF FirstFrom
<1>7. Cardinality(Earlier(p)) \in Nat
  BY EarlierFinite
<1>8. AccountsInserted(t, 0, p, t, q)
  BY <1>1, <1>4, <1>6, <1>7 DEF AccountsInserted, b
<1> QED
  BY <1>8 DEF p, q

AccountRound(l, acc) ==
    LET node == l[acc.ap]
        r == insert_all_slots(node.addr, acc.sp, node.root)
    IN  IF node.addr = Top THEN acc
        ELSE [ap |-> node.next, sp |-> r.sp,
              trie |-> [acc.trie EXCEPT ![node.addr] = [val |-> node.val, slots |-> r.root]]]

AccountStates == [ap : Nat, sp : Nat, trie : [Accts -> Entries]]

\* A round ends the loop or inserts the next account with its storage.
LEMMA AccountsGoOn ==
    ASSUME ListsInv, NEW l, NEW t0, Given(l, t0), NEW n \in Nat,
           NEW acc \in AccountStates, AccountsInserted(t0, n, acc.ap, acc.trie, acc.sp)
    PROVE  LET new == AccountRound(l, acc)
           IN  new \in AccountStates /\ AccountsInserted(t0, n + 1, new.ap, new.trie, new.sp)
<1> DEFINE L == Live(alist)
           p == acc.ap
           t == acc.trie
           sp == acc.sp
           a == alist[p].addr
           new == AccountRound(l, acc)
<1>1. /\ p \in L /\ t \in [Accts -> Entries]
      /\ \A b \in Accts : t[b] = IF Exists(cur, b) /\ b < a THEN cur[b] ELSE t0[b]
      /\ FirstFrom(sp, a)
      /\ a # Top => n <= Cardinality(Earlier(p))
  BY DEF AccountsInserted
<1>2. p \in 1 .. Len(alist)
  BY <1>1, AccountFacts
<1>3. /\ l[p].addr = a /\ l[p].val = alist[p].val /\ l[p].next = alist[p].next
      /\ l[p].root \in [Slots -> Nat]
  <2>1. SameNodes(l)
    BY DEF Given
  <2>2. l[p] \in TrieNodes /\ l[p].addr = a /\ l[p].val = alist[p].val /\ l[p].next = alist[p].next
    BY <1>2, <2>1 DEF SameNodes
  <2> QED
    BY <2>2 DEF TrieNodes
<1>4. CASE a = Top
  <2>1. new = acc
    BY <1>3, <1>4 DEF AccountRound
  <2>2. AccountsInserted(t0, n + 1, p, t, sp)
    BY <1>1, <1>4 DEF AccountsInserted
  <2> QED
    BY <2>1, <2>2
<1>5. CASE a # Top
  <2> DEFINE r == insert_all_slots(a, sp, l[p].root)
             q == alist[p].next
             b == alist[q].addr
             t2 == [t EXCEPT ![a] = cur[a]]
             sp2 == r.sp
  <2>1. /\ p \in L \ {1} /\ a \in Accts /\ Exists(cur, a) /\ alist[p].val = cur[a].val
        /\ q \in L /\ a < b /\ b \in Nat /\ a \in Nat /\ b <= Top /\ q \in Nat
    <3>1. p \in L \ {1}
      BY <1>1, <1>5, AccountFacts
    <3> QED
      BY <3>1, AccountFacts
  <2>2. \A k \in Slots : cur[a].slots[k] = 0 => l[p].root[k] = 0
    BY <2>1 DEF Given
  <2>3. FirstAfter(sp2, a) /\ r.root = cur[a].slots
    BY <1>1, <1>3, <2>1, <2>2, SlotsInserted
  <2>4. cur[a] = [val |-> cur[a].val, slots |-> cur[a].slots] /\ cur[a] \in Entries
    BY <2>1, StatesTyped, ListsInvParts DEF Entries
  <2>5. new = [ap |-> q, sp |-> sp2, trie |-> t2]
    <3> HIDE DEF p, t, sp
    <3>1. new = [ap |-> q, sp |-> sp2, trie |-> [t EXCEPT ![a] = [val |-> cur[a].val, slots |-> cur[a].slots]]]
      <4>1. new = [ap |-> q, sp |-> sp2, trie |-> [t EXCEPT ![a] = [val |-> l[p].val, slots |-> r.root]]]
        <5> HIDE DEF a
        <5> QED
          BY <1>3, <1>5 DEF AccountRound, p, t, sp
      <4> HIDE DEF r, q, sp2, new, a
      <4> QED
        BY <1>3, <2>1, <2>3, <4>1
    <3> HIDE DEF r, q, sp2, new, a
    <3> QED
      BY <2>4, <3>1
  <2>6. t2 \in [Accts -> Entries] /\ t2[a] = cur[a] /\ \A c \in Accts : c # a => t2[c] = t[c]
    BY <1>1, <2>1, <2>4
  <2>7. \A j \in L \ {1} : a < alist[j].addr => b <= alist[j].addr
    BY <2>1, AccountFacts
  <2>8. /\ sp2 \in Live(slist) /\ a < slist[sp2].addr /\ sp2 \in Nat
        /\ \A j \in Live(slist) \ {1} : a < slist[j].addr => SlotAt(sp2) <= SlotAt(j)
    BY <2>3, SlotFacts DEF FirstAfter
  <2>9. /\ \A j \in L : alist[j].addr \in Nat
        /\ \A j \in Live(slist) : slist[j].addr \in Nat
    BY AccountFacts, SlotFacts
  <2>10. \A c \in Accts : c \in Nat
    BY KeysTyped
  <2>11. \A c \in Accts : Exists(cur, c) => \E i \in L \ {1} : alist[i].addr = c
    BY AccountFacts
  <2> HIDE DEF r, q, b, t2, sp2, new, p, t, sp, a, L
  <2>12. ASSUME NEW c \in Accts
         PROVE  t2[c] = IF Exists(cur, c) /\ c < b THEN cur[c] ELSE t0[c]
    <3>1. CASE c = a
      BY <2>1, <2>6, <3>1
    <3>2. CASE c # a /\ ~Exists(cur, c)
      BY <1>1, <2>6, <3>2
    <3>3. CASE c # a /\ Exists(cur, c)
      <4>1. PICK i \in L \ {1} : alist[i].addr = c
        BY <2>11, <3>3
      <4>2. a < c => b <= c
        BY <2>7, <4>1
      <4>3. c < b <=> c < a
        <5>1. a \in Nat /\ b \in Nat /\ c \in Nat /\ a < b /\ c # a
          BY <2>1, <2>10, <3>3
        <5> QED
          BY <4>2, <5>1
      <4> QED
        BY <1>1, <2>6, <3>3, <4>3
    <3> QED
      BY <3>1, <3>2, <3>3
  <2>13. b <= slist[sp2].addr
    <3>1. \A i \in Live(alist) \ {1} : alist[i].addr = slist[sp2].addr => b <= alist[i].addr
      BY <2>7, <2>8 DEF L
    <3> QED
      BY <2>1, <2>8, <3>1, SlotsAfter
  <2>14. FirstFrom(sp2, b)
    <3>1. \A j \in Live(slist) \ {1} : b <= slist[j].addr => a < slist[j].addr
      BY <2>1, <2>9
    <3> QED
      BY <2>8, <2>13, <3>1 DEF FirstFrom
  <2>15. n + 1 <= Cardinality(Earlier(q))
    <3> DEFINE P == Earlier(p)
               Q == Earlier(q)
    <3>1. P \subseteq Q /\ p \in Q /\ p \notin P
      <4>1. P = {j \in L \ {1} : alist[j].addr < a} /\ Q = {j \in L \ {1} : alist[j].addr < b}
        BY DEF Earlier, L, a, b
      <4>2. \A j \in L : alist[j].addr < a => alist[j].addr < b
        BY <2>1, <2>9
      <4>3. ~(a < a) /\ alist[p].addr = a
        BY <2>1 DEF a
      <4> HIDE DEF P, Q
      <4> QED
        BY <2>1, <4>1, <4>2, <4>3
    <3>2. IsFiniteSet(P) /\ IsFiniteSet(Q) /\ Cardinality(P) \in Nat /\ Cardinality(Q) \in Nat
      BY EarlierFinite
    <3> HIDE DEF P, Q
    <3>3. P \cup {p} \subseteq Q
      BY <3>1
    <3>4. Cardinality(P \cup {p}) = Cardinality(P) + 1
      BY <3>1, <3>2, FS_AddElement
    <3>5. Cardinality(P \cup {p}) <= Cardinality(Q)
      BY <3>2, <3>3, FS_Subset
    <3>6. n <= Cardinality(P)
      BY <1>1, <1>5 DEF P
    <3> QED
      BY <3>2, <3>4, <3>5, <3>6 DEF Q
  <2>16. AccountsInserted(t0, n + 1, q, t2, sp2)
    BY <2>1, <2>6, <2>12, <2>14, <2>15 DEF AccountsInserted, L, b
  <2>17. new \in AccountStates /\ new.ap = q /\ new.trie = t2 /\ new.sp = sp2
    BY <2>1, <2>5, <2>6, <2>8 DEF AccountStates
  <2> QED
    BY <2>16, <2>17 DEF new
<1> QED
  BY <1>4, <1>5

\* The recursive function of insert_all_accounts is defined.
LEMMA AccountsAreInserted ==
    ASSUME ListsInv, NEW given, Given(given.list, given.trie)
    PROVE  \E x \in AccountStates :
              /\ insert_all_accounts(given) = x.trie
              /\ AccountsInserted(given.trie, Len(alist), x.ap, x.trie, x.sp)
<1> DEFINE N == Len(alist)
           U == AccountStates
           l == given.list
           t0 == given.trie
           x0 == [ap |-> alist[1].next, trie |-> given.trie, sp |-> slist[1].next]
           S == [n \in Nat |-> {x \in U : AccountsInserted(t0, n, x.ap, x.trie, x.sp)}]
           step == [n \in Nat |-> [x \in U |-> AccountRound(l, x)]]
           Body(g, n) == IF n = 0 THEN x0
                         ELSE LET acc == g[n - 1]
                                  node == given.list[acc.ap]
                                  r == insert_all_slots(node.addr, acc.sp, node.root)
                              IN  IF node.addr = Top THEN acc
                                  ELSE [ap |-> node.next, sp |-> r.sp,
                                        trie |-> [acc.trie EXCEPT ![node.addr] = [val |-> node.val, slots |-> r.root]]]
           T == CHOOSE g : g = [n \in 0 .. N |-> Body(g, n)]
<1>1. N \in Nat
  BY AccountFacts
<1>2. x0 \in S[0]
  <2>1. t0 \in [Accts -> Entries] /\ alist[1].next \in Nat /\ slist[1].next \in Nat
    BY AccountFacts, SlotFacts DEF Given
  <2>2. AccountsInserted(t0, 0, alist[1].next, t0, slist[1].next)
    BY <2>1, AccountsStart
  <2> HIDE DEF t0
  <2>3. x0 \in U /\ x0.ap = alist[1].next /\ x0.trie = t0 /\ x0.sp = slist[1].next
    BY <2>1 DEF AccountStates, t0
  <2> HIDE DEF x0, U
  <2> QED
    BY <2>2, <2>3
<1>3. \A n \in Nat : \A x \in S[n] : AccountRound(l, x) \in S[n + 1]
  <2> SUFFICES ASSUME NEW n \in Nat, NEW x \in U, AccountsInserted(t0, n, x.ap, x.trie, x.sp)
               PROVE  AccountRound(l, x) \in S[n + 1]
    OBVIOUS
  <2> DEFINE y == AccountRound(l, x)
  <2>1. y \in U /\ AccountsInserted(t0, n + 1, y.ap, y.trie, y.sp)
    BY AccountsGoOn
  <2> HIDE DEF y, U, t0
  <2>2. y \in S[n + 1]
    BY <2>1
  <2> QED
    BY <2>2 DEF y
<1>4. \A n \in Nat, x \in U : step[n][x] = AccountRound(l, x)
  <2> HIDE DEF U
  <2> QED
    OBVIOUS
<1>5. \A n \in Nat : \A x \in S[n] : x \in U /\ AccountsInserted(t0, n, x.ap, x.trie, x.sp)
  OBVIOUS
<1>6. S \in [Nat -> SUBSET U]
  <2> HIDE DEF U
  <2> QED
    OBVIOUS
<1>7. \A g, n : n # 0 => Body(g, n) = AccountRound(l, g[n - 1])
  BY DEF AccountRound
<1>8. \A g : Body(g, 0) = x0
  OBVIOUS
<1>9. insert_all_accounts(given) = T[N].trie
  BY DEF insert_all_accounts
<1> HIDE DEF S, step, N, U, x0, Body, l, t0
<1>10. PICK f : Run(U, S, x0, step, N, f)
  <2>1. \A n \in Nat : n < N => \A x \in S[n] : step[n][x] \in S[n + 1]
    BY <1>3, <1>4, <1>5
  <2> QED
    BY <1>1, <1>2, <1>6, <2>1, RunExists
<1>11. f = [n \in 0 .. N |-> Body(f, n)]
  <2>1. f \in [0 .. N -> U] /\ f[0] = x0 /\ \A n \in 0 .. N : n # 0 => f[n] = step[n - 1][f[n - 1]]
    BY <1>10 DEF Run
  <2>2. ASSUME NEW n \in 0 .. N
        PROVE  f[n] = Body(f, n)
    <3>1. CASE n = 0
      BY <1>8, <2>1, <3>1
    <3>2. CASE n # 0
      <4> DEFINE m == n - 1
      <4>1. m \in Nat /\ m \in 0 .. N /\ m + 1 = n
        BY <1>1, <3>2
      <4>2. f[m] \in U /\ f[n] = step[m][f[m]]
        BY <2>1, <3>2, <4>1
      <4>3. f[n] = AccountRound(l, f[m])
        BY <1>4, <4>1, <4>2
      <4> QED
        BY <1>7, <3>2, <4>3
    <3> QED
      BY <3>1, <3>2
  <2> QED
    BY <2>1, <2>2
<1>12. T = [n \in 0 .. N |-> Body(T, n)]
  BY <1>11, Zenon
<1> HIDE DEF T
<1>13. T[0] = x0 /\ \A n \in 0 .. N : n # 0 => T[n] = AccountRound(l, T[n - 1])
  <2>1. \A n \in 0 .. N : T[n] = Body(T, n)
    BY <1>12, Zenon
  <2>2. 0 \in 0 .. N /\ Body(T, 0) = x0
    BY <1>1, <1>8
  <2>3. \A n \in 0 .. N : n # 0 => T[n] = AccountRound(l, T[n - 1])
    BY <1>7, <2>1
  <2> QED
    BY <2>1, <2>2, <2>3
<1> DEFINE G == {n \in Nat : T[n] \in S[n]}
<1>14. \A n \in 0 .. N : n \in G
  <2>1. 0 \in G
    BY <1>2, <1>13
  <2>2. ASSUME NEW n \in Nat, n < N, n \in G
        PROVE  n + 1 \in G
    <3> DEFINE m == n + 1
    <3>1. m \in 0 .. N /\ m # 0 /\ m - 1 = n /\ m \in Nat
      BY <1>1, <2>2
    <3>2. T[m] = AccountRound(l, T[n])
      BY <1>13, <3>1
    <3>3. AccountRound(l, T[n]) \in S[m]
      BY <1>3, <2>2
    <3> QED
      BY <3>1, <3>2, <3>3
  <2> HIDE DEF G
  <2> QED
    BY <1>1, <2>1, <2>2, CountUp
<1>15. T[N] \in S[N]
  BY <1>1, <1>14
<1>16. LET x == T[N] IN x \in U /\ AccountsInserted(t0, N, x.ap, x.trie, x.sp)
  BY <1>1, <1>5, <1>15
<1> QED
  BY <1>9, <1>16 DEF U, N, t0

\* The final trie is the state the execution has reached.
LEMMA FinalTrieIsRight ==
    ASSUME ListsInv
    PROVE  FinalTrieRight
<1> DEFINE given == delete_removed_accounts[InitialAccounts]
           t0 == given.trie
<1>1. Given(given.list, t0)
  BY GivenAreRight
<1>2. PICK x \in AccountStates : /\ insert_all_accounts(given) = x.trie
                                 /\ AccountsInserted(t0, Len(alist), x.ap, x.trie, x.sp)
  <2> HIDE DEF given
  <2> QED
    BY <1>1, AccountsAreInserted
<1> DEFINE p == x.ap
           t == x.trie
<1>3. /\ p \in Live(alist) /\ t \in [Accts -> Entries]
      /\ \A a \in Accts : t[a] = IF Exists(cur, a) /\ a < alist[p].addr THEN cur[a] ELSE t0[a]
      /\ alist[p].addr # Top => Len(alist) <= Cardinality(Earlier(p))
  <2> HIDE DEF t0
  <2> QED
    BY <1>2 DEF AccountsInserted
<1>4. \A a \in Accts : ~Exists(cur, a) => t0[a] = NoAccount
  BY <1>1 DEF Given
<1> HIDE DEF given, t0, p, t
<1>5. alist[p].addr = Top
  <2>1. Cardinality(Earlier(p)) \in Nat /\ Cardinality(Earlier(p)) < Len(alist) /\ Len(alist) \in Nat
    BY EarlierFinite, AccountFacts
  <2> QED
    BY <1>3, <2>1
<1>6. ASSUME NEW a \in Accts
      PROVE  t[a] = cur[a]
  <2>1. a < Top
    BY KeysTyped
  <2>2. CASE Exists(cur, a)
    BY <1>3, <1>5, <2>1, <2>2
  <2>3. CASE ~Exists(cur, a)
    <3>1. cur[a] = NoAccount
      BY <2>3, StatesTyped, ListsInvParts
    <3> QED
      BY <1>3, <1>4, <2>3, <3>1
  <2> QED
    BY <2>2, <2>3
<1>7. cur \in [Accts -> {NoAccount} \cup [val : Values, slots : [Slots -> Values \cup {0}]]]
  BY ListsInvParts DEF States
<1>8. t = cur
  BY <1>3, <1>6, <1>7
<1> QED
  BY <1>2, <1>8 DEF FinalTrieRight, set_final_tries, t, given

\* Wherever a payload ends, the initial and the final tries that set_initial_tries and
\* set_final_tries derive from the lists are the state it began with and the one it has
\* reached; what search_account and search_slot read meanwhile is the state, and the
\* prover has exactly one hint for each question (linked_list/, prover_input.rs).
THEOREM ListsAreRight == ListsSpec => []StateListsRight
<1>1. ListsInit => ListsInv
  BY ListsStart
<1>2. ListsInv /\ [ListsNext]_listVars => ListsInv'
  BY ListsStep
<1>3. ListsInv => StateListsRight
  BY InitialTrieIsKept, FinalTrieIsRight, ReadsAndHints DEF StateListsRight
<1> QED
  BY <1>1, <1>2, <1>3, PTL DEF ListsSpec
=============================================================================
