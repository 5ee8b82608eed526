------------------------------ MODULE WarmSet -------------------------------
(***************************************************************************)
(* What an access list promises (EIP-2929): a set of warm keys.  An access *)
(* answers 1 when the key was cold and makes it warm; the revert of a      *)
(* frame makes the keys it warmed cold again, newest first, except those   *)
(* that stay loaded; a new transaction starts cold.                        *)
(***************************************************************************)
EXTENDS Integers, Sequences

CONSTANTS Keys,     \* addresses, or (address, slot) pairs
          Sticky    \* keys a revert leaves warm

VARIABLES warm, undo, result

setVars == <<warm, undo, result>>

Init == warm = {} /\ undo = << >> /\ result = 0

Access(x) ==
    /\ warm' = warm \cup {x}
    /\ undo' = IF x \in warm THEN undo ELSE Append(undo, x)
    /\ result' = IF x \in warm THEN 0 ELSE 1

Revert ==
    /\ undo # << >>
    /\ warm' = warm \ ({undo[Len(undo)]} \ Sticky)
    /\ undo' = SubSeq(undo, 1, Len(undo) - 1)
    /\ UNCHANGED result

NewTxn == warm' = {} /\ undo' = << >> /\ UNCHANGED result

Next == \/ \E x \in Keys : Access(x)
        \/ Revert
        \/ NewTxn

Spec == Init /\ [][Next]_setVars
=============================================================================
