---------------------------- MODULE PackedNibbles ----------------------------
(***************************************************************************)
(* Nibbles: a key as a count and a wide integer the nibbles are packed in, *)
(* the front one highest.  Every operation is arithmetic on the two; each  *)
(* is compared with the same operation on a sequence.                      *)
(***************************************************************************)
EXTENDS Integers, Sequences, SequencesExt, Bitwise

CONSTANTS
    NibbleBits,  \* bits of a nibble: 4 in the code
    MaxCount,    \* nibbles a key can have: 64
    Width        \* nibbles the packed integer can hold: 80

NibblesAssumption == NibbleBits \in Nat \ {0, 1} /\ MaxCount \in Nat \ {0} /\ Width > MaxCount + 2

VARIABLES
    key,   \* the Nibbles
    seq    \* the sequence it stands for

vars == <<key, seq>>

Radix == 2 ^ NibbleBits
Nibble == 0 .. (Radix - 1)
Nibbles(c, p) == [count |-> c, packed |-> p]
None == Nibbles(0, 0)

\* The integer: shifts that lose what does not fit.
Shl(p, n) == (p * Radix ^ n) % Radix ^ Width
Shr(p, n) == p \div Radix ^ n
create_mask_of_1s(n) == Radix ^ n - 1
Without(p, mask) == p & ((Radix ^ Width - 1) - mask)

MinCount(a, b) == IF a < b THEN a ELSE b

\* The nibble at an index, by way of the byte it is in.
get_nibble(k, idx) ==
    LET i == k.count - idx - 1
        byte == Shr(k.packed, 2 * (i \div 2)) % Radix ^ 2
    IN  IF i % 2 = 0 THEN byte % Radix ELSE byte \div Radix

get_nibble_range(k, from, to) ==
    LET shift == k.count - to
        mask == Shl(create_mask_of_1s(to - from), shift)
    IN  Nibbles(to - from, Shr(k.packed & mask, shift))

\* Mutant: the nibbles cut off stay in the integer.
truncate_n_nibbles_front_mut_dirty(k, n) == Nibbles(k.count - MinCount(n, k.count), k.packed)

\* No more nibbles are cut off than there are.
truncate_n_nibbles_front_mut(k, n) ==
    LET m == MinCount(n, k.count)
    IN  Nibbles(k.count - m, Without(k.packed, Shl(create_mask_of_1s(m), k.count - m)))

truncate_n_nibbles_back_mut(k, n) ==
    LET m == MinCount(n, k.count)
    IN  Nibbles(k.count - m, Shr(Without(k.packed, create_mask_of_1s(m)), m))

split_at_idx(k, idx) ==
    LET mask == create_mask_of_1s(k.count - idx)
    IN  <<Nibbles(idx, Shr(Without(k.packed, mask), k.count - idx)), Nibbles(k.count - idx, k.packed & mask)>>

split_at_idx_prefix(k, idx) ==
    LET shift == k.count - idx
    IN  Nibbles(idx, Shr(k.packed & Shl(create_mask_of_1s(idx), shift), shift))

split_at_idx_postfix(k, idx) == Nibbles(k.count - idx, k.packed & create_mask_of_1s(k.count - idx))

merge_nibbles(k, post) == Nibbles(k.count + post.count, Shl(k.packed, post.count) | post.packed)

\* The lowest nibble of the rest becomes the next of the result.
reverse(k) ==
    LET rev[i \in 0 .. k.count] ==
            IF i = 0 THEN 0 ELSE Shl(rev[i - 1], 1) | Shr(k.packed & Shl(create_mask_of_1s(1), i - 1), i - 1)
    IN  Nibbles(k.count, rev[k.count])

nibbles_are_identical_up_to_smallest_count(k, l) ==
    \A i \in 0 .. MinCount(k.count, l.count) - 1 : get_nibble(k, i) = get_nibble(l, i)

\* find_nibble_idx_that_differs_between_nibbles_equal_lengths: the first place where
\* the mask that moves down from the front picks different nibbles.
find_nibble_idx_equal_lengths(k, l) ==
    LET Differ(i) == LET m == Shl(create_mask_of_1s(1), k.count - 1 - i) IN (k.packed & m) # (l.packed & m)
        at == {i \in 0 .. k.count - 1 : Differ(i)}
    IN  IF at = {} THEN k.count ELSE CHOOSE i \in at : \A j \in at : i <= j

find_nibble_idx_different_lengths(k, l) ==
    LET m == MinCount(k.count, l.count)
    IN  find_nibble_idx_equal_lengths(get_nibble_range(k, 0, m), get_nibble_range(l, 0, m))

-----------------------------------------------------------------------------
(* Encodings; a byte is two nibbles. *)

min_bytes(k) == (k.count + 1) \div 2
BigEndian(p, n) == [i \in 1 .. n |-> Shr(p, 2 * (n - i)) % Radix ^ 2]
FromBigEndian(bytes) ==
    LET val[i \in 0 .. Len(bytes)] == IF i = 0 THEN 0 ELSE Shl(val[i - 1], 2) + bytes[i] IN val[Len(bytes)]

bytes_be(k) == BigEndian(k.packed, min_bytes(k))

MaxBytes == MaxCount \div 2 + 1

\* An error for no bytes, and for more than one byte above the size of a key.
from_bytes_be(bytes) ==
    IF bytes = <<>> \/ Len(bytes) > MaxBytes THEN <<>>
    ELSE <<Nibbles(2 * Len(bytes), FromBigEndian(bytes))>>

\* The flags are put into the byte before, or the high half of, the first.
to_hex_prefix_encoding(k, is_leaf) ==
    LET bytes == BigEndian(k.packed, (k.count + 2) \div 2)
        flags == (k.count % 2) + (IF is_leaf THEN 2 ELSE 0)
    IN  [bytes EXCEPT ![1] = @ | (flags * Radix)]

\* The nibbles after the flags; behind those of a leaf comes a terminator byte.
from_hex_prefix_encoding(bytes) ==
    LET flags == bytes[1] \div Radix
        is_leaf == flags \in {2, 3}
        count == 2 * Len(bytes) + (IF is_leaf THEN 0 ELSE -2) + (flags % 2)
        raw == (IF count % 2 = 1 THEN <<bytes[1] % Radix>> ELSE <<>>)
               \o SubSeq(bytes, 2, Len(bytes))
               \o (IF is_leaf THEN <<Radix>> ELSE <<>>)
    IN  IF Len(bytes) > MaxBytes \/ flags > 3 THEN <<>>
        ELSE <<Nibbles(count, FromBigEndian(SubSeq(raw, 1, (count + 1) \div 2)))>>

\* to_nibbles of an integer: as many nibbles as it needs.
to_nibbles(p) ==
    LET fits == {c \in 0 .. Width : p < Radix ^ c} IN Nibbles(CHOOSE c \in fits : \A d \in fits : c <= d, p)

to_nibbles_byte_padded(p) == [to_nibbles(p) EXCEPT !.count = 2 * ((@ + 1) \div 2)]

-----------------------------------------------------------------------------
(* Operations: those that change a key.  The nibbles a pop returns are what     *)
(* get_nibble and get_nibble_range give, from the back reversed.               *)

Pack(s) == Nibbles(Len(s), LET v[i \in 0 .. Len(s)] == IF i = 0 THEN 0 ELSE v[i - 1] * Radix + s[i] IN v[Len(s)])
Words(n) == UNION {[1 .. l -> Nibble] : l \in 0 .. n}

Init == key = None /\ seq = <<>>

Becomes(k, s) == key' = k /\ seq' = s

pop_next_nibble_front ==
    /\ key.count > 0
    /\ Becomes(truncate_n_nibbles_front_mut(key, 1), Tail(seq))

pop_next_nibble_back ==
    /\ key.count > 0
    /\ Becomes(truncate_n_nibbles_back_mut(key, 1), Front(seq))

pop_nibbles_front(n) ==
    /\ n <= key.count
    /\ Becomes(truncate_n_nibbles_front_mut(key, n), SubSeq(seq, n + 1, Len(seq)))

pop_nibbles_back(n) ==
    /\ n <= key.count
    /\ Becomes(truncate_n_nibbles_back_mut(key, n), SubSeq(seq, 1, Len(seq) - n))

push_nibble_front(n) ==
    /\ key.count < MaxCount
    /\ Becomes(Nibbles(key.count + 1, key.packed | Shl(n, key.count)), <<n>> \o seq)

push_nibble_back(n) ==
    /\ key.count < MaxCount
    /\ Becomes(Nibbles(key.count + 1, Shl(key.packed, 1) | n), Append(seq, n))

push_nibbles_front(s) ==
    /\ key.count + Len(s) <= MaxCount
    /\ Becomes(Nibbles(key.count + Len(s), key.packed | Shl(Pack(s).packed, key.count)), s \o seq)

push_nibbles_back(s) ==
    /\ key.count + Len(s) <= MaxCount
    /\ Becomes(Nibbles(key.count + Len(s), Shl(key.packed, Len(s)) | Pack(s).packed), seq \o s)

Truncate(n) ==
    \/ Becomes(truncate_n_nibbles_front_mut(key, n), SubSeq(seq, MinCount(n, Len(seq)) + 1, Len(seq)))
    \/ Becomes(truncate_n_nibbles_back_mut(key, n), SubSeq(seq, 1, Len(seq) - MinCount(n, Len(seq))))

Next ==
    \/ pop_next_nibble_front \/ pop_next_nibble_back
    \/ \E n \in 0 .. MaxCount : pop_nibbles_front(n) \/ pop_nibbles_back(n) \/ Truncate(n)
    \/ \E n \in Nibble : push_nibble_front(n) \/ push_nibble_back(n)
    \/ \E s \in Words(2) : push_nibbles_front(s) \/ push_nibbles_back(s)

Spec == Init /\ [][Next]_vars

-----------------------------------------------------------------------------
(* Properties. *)

\* Whatever the operations, the key is the packed form of its sequence: no bit above
\* the count is ever set, or a later push would merge with it.
PackedIsSeq == key = Pack(seq) /\ key.count <= MaxCount

\* Splits, merges and reversal of any key are those of its sequence.
PiecesAgree ==
    /\ reverse(key) = Pack(Reverse(seq))
    /\ \A i \in DOMAIN seq : get_nibble(key, i - 1) = seq[i]
    /\ \A i \in 0 .. Len(seq) :
        LET pre == Pack(SubSeq(seq, 1, i))
            post == Pack(SubSeq(seq, i + 1, Len(seq)))
        IN  /\ split_at_idx(key, i) = <<pre, post>>
            /\ split_at_idx_prefix(key, i) = pre /\ split_at_idx_postfix(key, i) = post
            /\ merge_nibbles(pre, post) = key
            /\ \A j \in i .. Len(seq) : get_nibble_range(key, i, j) = Pack(SubSeq(seq, i + 1, j))

\* Two keys differ first where their sequences do, whatever their lengths.
ComparisonsAgree ==
    \A s \in Words(2) :
        LET same == {i \in 0 .. MinCount(Len(s), Len(seq)) : \A j \in 1 .. i : s[j] = seq[j]}
        IN  /\ find_nibble_idx_different_lengths(key, Pack(s)) = CHOOSE i \in same : \A j \in same : j <= i
            /\ nibbles_are_identical_up_to_smallest_count(key, Pack(s)) <=> MinCount(Len(s), Len(seq)) \in same

\* The compact form gives an extension's key back, and a leaf's with its terminator.
HexPrefixRoundTrip ==
    /\ from_hex_prefix_encoding(to_hex_prefix_encoding(key, FALSE)) = <<key>>
    /\ from_hex_prefix_encoding(to_hex_prefix_encoding(key, TRUE)) = <<Pack(seq \o <<1, 0>>)>>

\* Bytes give a key of an even number of nibbles back; an integer one without
\* leading zeros.
BytesRoundTrip ==
    /\ key.count > 0 /\ key.count % 2 = 0 => from_bytes_be(bytes_be(key)) = <<key>>
    /\ to_nibbles(key.packed) = key <=> (seq = <<>> \/ seq[1] # 0)
    /\ key.count % 2 = 0 /\ (seq = <<>> \/ seq[1] # 0 \/ seq[2] # 0) => to_nibbles_byte_padded(key.packed) = key

\* "Returns an error if the byte slice is empty or is longer than `32` bytes": a
\* key made of bytes is no longer than a key can be.
FromBytesBounded ==
    \A n \in 1 .. MaxBytes + 1 :
        LET r == from_bytes_be(bytes_be(key) \o [i \in 1 .. n |-> 0]) IN r # <<>> => r[1].count <= MaxCount
=============================================================================
