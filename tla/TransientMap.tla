---------------------------- MODULE TransientMap ----------------------------
(***************************************************************************)
(* What transient storage promises: a map from (address, key) to a value,  *)
(* 0 where nothing was stored, cleared for every transaction, and a        *)
(* journal that takes the stores of a reverted frame back, newest first.   *)
(***************************************************************************)
EXTENDS Integers, Sequences

CONSTANTS Addrs, Keys, Vals

VARIABLES map, undo, last

mapVars == <<map, undo, last>>

Init == /\ map = [a \in Addrs |-> [k \in Keys |-> 0]]
        /\ undo = << >>
        /\ last = [addr |-> 0, key |-> 0, val |-> 0]

TLoad(a, k) ==
    /\ last' = [addr |-> a, key |-> k, val |-> map[a][k]]
    /\ UNCHANGED <<map, undo>>

TStore(a, k, v) ==
    /\ map' = [map EXCEPT ![a][k] = v]
    /\ undo' = IF v = map[a][k] THEN undo
               ELSE Append(undo, [addr |-> a, key |-> k, prev |-> map[a][k]])
    /\ UNCHANGED last

Revert ==
    /\ undo # << >>
    /\ LET e == undo[Len(undo)] IN map' = [map EXCEPT ![e.addr][e.key] = e.prev]
    /\ undo' = SubSeq(undo, 1, Len(undo) - 1)
    /\ UNCHANGED last

NewTxn ==
    /\ map' = [a \in Addrs |-> [k \in Keys |-> 0]]
    /\ undo' = << >>
    /\ UNCHANGED last

Next == \/ \E a \in Addrs, k \in Keys : TLoad(a, k)
        \/ \E a \in Addrs, k \in Keys, v \in Vals : TStore(a, k, v)
        \/ Revert
        \/ NewTxn

Spec == Init /\ [][Next]_mapVars
=============================================================================
