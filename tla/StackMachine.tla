----------------------------- MODULE StackMachine -----------------------------
(***************************************************************************)
(* What the execution promises about the operand stacks: every context has *)
(* a sequence of words, an instruction works on the end of the sequence of *)
(* the current context and never reaches below its operands, and the other *)
(* contexts keep theirs.  Where the words live (the top in a register, the *)
(* others in memory, the pointers of sleeping contexts in their metadata)  *)
(* is not visible here.                                                    *)
(***************************************************************************)
EXTENDS Integers, Sequences

CONSTANTS
    Contexts,
    Exception       \* stands for the opcode of a row that raises an exception

VARIABLES
    stacks,     \* the stack of each context, top last
    current,    \* the context that executes
    last        \* the opcode executed last

smVars == <<stacks, current, last>>

\* Words an opcode takes and words it leaves.
Takes(o) ==
    CASE o \in {8, 9, 15} -> 3
      [] o \in 1..4 \cup {6, 12, 13, 14, 16, 17, 20, 22, 23, 24, 26, 27, 28, 33, 87, 248, 252} -> 2
      [] o \in 192..223 -> 2
      [] o \in {21, 25, 80, 86, 247, 249, 251} -> 1
      [] OTHER -> 0

Leaves(o) == IF o \in {80, 86, 87, 91, 247, 249, 252} THEN 0 ELSE 1

IsDup(o) == o \in 128..143
IsSwap(o) == o \in 144..159
IsSwitch(o) == o = 247

Own == stacks[current]

OthersKeepTheirs == \A c \in Contexts \ {current} : stacks'[c] = stacks[c]

\* All but the topmost n words, then m words of any value.
Rewrite(n, m) ==
    /\ n <= Len(Own)
    /\ Len(stacks'[current]) = Len(Own) - n + m
    /\ \A i \in 1..(Len(Own) - n) : stacks'[current][i] = Own[i]

Operate(o) ==
    /\ ~ IsDup(o) /\ ~ IsSwap(o) /\ ~ IsSwitch(o)
    /\ Rewrite(Takes(o), Leaves(o))
    /\ current' = current
    /\ OthersKeepTheirs

Duplicate(o) ==
    /\ IsDup(o)
    /\ o - 127 <= Len(Own)
    /\ stacks' = [stacks EXCEPT ![current] = Append(@, @[Len(@) - (o - 128)])]
    /\ current' = current

Exchange(o) ==
    LET low == Len(Own) - (o - 143) IN
    /\ IsSwap(o)
    /\ 1 <= low
    /\ stacks' = [stacks EXCEPT ![current] = [Own EXCEPT ![Len(Own)] = Own[low], ![low] = Own[Len(Own)]]]
    /\ current' = current

\* The word naming the next context is gone from the old stack.
Switch(o) ==
    /\ IsSwitch(o)
    /\ Len(Own) >= 1
    /\ stacks' = [stacks EXCEPT ![current] = SubSeq(@, 1, Len(@) - 1)]
    /\ current' \in Contexts

Init ==
    /\ DOMAIN stacks = Contexts
    /\ current \in Contexts

Next ==
    /\ last' \in 0..255 \cup {Exception}
    /\ \E o \in {last'} : Operate(o) \/ Duplicate(o) \/ Exchange(o) \/ Switch(o)

Spec == Init /\ [][Next]_smVars
=============================================================================
