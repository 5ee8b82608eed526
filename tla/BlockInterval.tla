---------------------------- MODULE BlockInterval ----------------------------
(***************************************************************************)
(* The interval argument of the leader: its parsing, the bounded stream of *)
(* block numbers it becomes, and the unbounded one that follows the tip of *)
(* the chain.  An argument is what stands before a separator, the          *)
(* separator and what stands after it.                                     *)
(***************************************************************************)
EXTENDS Integers, Sequences

CONSTANTS
    MaxBlock  \* largest block number written in an argument, and highest tip

ASSUME IntervalAssumption == MaxBlock \in Nat

VARIABLES
    arg,       \* the argument
    interval,  \* what it is parsed into
    current,   \* into_unbounded_stream's position
    tip,       \* the provider's latest block number
    yielded,   \* block numbers the stream has produced
    ipc        \* parsing, draining, polling or at the end

intervalVars == <<arg, interval, current, tip, yielded, ipc>>

Numbers == 0 .. MaxBlock
Empty == -1  \* nothing stands there
Junk == -2   \* characters that are no number
Parts == Numbers \cup {Empty, Junk}
IsNumber(p) == p >= 0

\* "lhs", "lhs..rhs", "lhs..=rhs", "lhs...rhs" and a 32-byte hash.
Args == [lhs : Parts, sep : {"", "..", "..=", "..."}, rhs : Parts] \cup {[hash |-> TRUE]}

Err == [kind |-> "error"]
Single(n) == [kind |-> "single", start |-> n]
SingleHash == [kind |-> "hash"]
Range(a, b) == [kind |-> "range", start |-> a, end |-> b]
FollowFrom(n) == [kind |-> "follow", start |-> n]

-----------------------------------------------------------------------------
(* Parsing. *)

\* The two pieces that s.split(separator) gives first; the second is missing
\* (None) when the separator does not occur.  ".." also splits "..=" and "...",
\* and leaves "=" or "." at the head of the second piece.
None == -3
Pieces(a, separator) ==
    IF a.sep = separator THEN <<a.lhs, a.rhs>>
    ELSE IF separator = ".." /\ a.sep # "" THEN <<a.lhs, Junk>>
    ELSE <<IF a.sep = "" THEN a.lhs ELSE Junk, None>>

\* Mutant: the block after `..=` is left out.
parse_range_gen_exclusive(a, separator, inclusive) ==
    LET p == Pieces(a, separator)
    IN  IF IsNumber(p[1]) /\ IsNumber(p[2]) THEN Range(p[1], p[2]) ELSE Err

parse_range_gen(a, separator, inclusive) ==
    LET p == Pieces(a, separator)
    IN  IF IsNumber(p[1]) /\ IsNumber(p[2])
        THEN Range(p[1], IF inclusive THEN p[2] + 1 ELSE p[2])
        ELSE Err

\* The pieces around ".."; the ones that are empty or "=" do not count.
FollowPieces(a) == <<a.lhs, IF a.sep = ".." \/ (a.rhs = Empty /\ a.sep = "..=") THEN a.rhs ELSE Junk>>

\* Exactly one piece is left, and it is a number.
parse_follow(a) ==
    LET f == FollowPieces(a)
        left == {i \in {1, 2} : f[i] # Empty}
    IN  IF \E i \in left : left = {i} /\ IsNumber(f[i]) THEN FollowFrom(f[CHOOSE i \in left : TRUE]) ELSE Err

\* BlockInterval::new
new(a) ==
    IF "hash" \in DOMAIN a THEN SingleHash
    ELSE IF parse_range_gen(a, "..=", TRUE) # Err THEN parse_range_gen(a, "..=", TRUE)
    ELSE IF parse_range_gen(a, "..", FALSE) # Err THEN parse_range_gen(a, "..", FALSE)
    ELSE IF a.sep # "" THEN parse_follow(a)
    ELSE IF IsNumber(a.lhs) THEN Single(a.lhs) ELSE Err

\* into_bounded_stream
Bounded(i) ==
    CASE i.kind = "single" -> <<i.start>>
      [] i.kind = "range" -> [k \in 1 .. (i.end - i.start) |-> i.start + k - 1]
      [] OTHER -> <<>>

-----------------------------------------------------------------------------

\* An argument without separator has nothing after it.
IntervalInit ==
    /\ arg \in {a \in Args : "sep" \in DOMAIN a => (a.sep = "" => a.rhs = Empty)}
    /\ interval = Err /\ current = 0 /\ yielded = <<>> /\ ipc = "parse"
    /\ tip \in Numbers

Parse ==
    /\ ipc = "parse"
    /\ interval' = new(arg)
    /\ ipc' = CASE interval'.kind \in {"error", "hash"} -> "stop"
               [] interval'.kind = "follow" -> "poll"
               [] OTHER -> "bounded"
    /\ current' = IF interval'.kind = "follow" THEN interval'.start ELSE 0
    /\ UNCHANGED <<arg, tip, yielded>>

Drain ==
    /\ ipc = "bounded"
    /\ yielded' = Bounded(interval)
    /\ ipc' = "stop"
    /\ UNCHANGED <<arg, interval, current, tip>>

\* One turn of into_unbounded_stream's loop that yields; the turns that only
\* sleep change nothing.
Poll ==
    /\ ipc = "poll"
    /\ current < tip
    /\ current' = current + 1
    /\ yielded' = Append(yielded, current')
    /\ UNCHANGED <<arg, interval, tip, ipc>>

Mine ==
    /\ ipc = "poll"
    /\ tip < MaxBlock
    /\ tip' = tip + 1
    /\ UNCHANGED <<arg, interval, current, yielded, ipc>>

Stopped == (ipc = "stop" \/ (ipc = "poll" /\ tip = MaxBlock /\ current >= tip)) /\ UNCHANGED intervalVars

IntervalNext == Parse \/ Drain \/ Poll \/ Mine \/ Stopped

\* The stream is polled as long as somebody reads it; at most one of the steps can be taken.
Steps == Parse \/ Drain \/ Poll

IntervalSpec == IntervalInit /\ [][IntervalNext]_intervalVars /\ WF_intervalVars(Steps)

-----------------------------------------------------------------------------
(* Properties. *)

\* The documented meaning of an argument: a number, lhs..rhs without rhs,
\* lhs..=rhs with it.
Documented(a) ==
    CASE a.sep = "" -> a.lhs .. a.lhs
      [] a.sep = ".." -> a.lhs .. (a.rhs - 1)
      [] a.sep = "..=" -> a.lhs .. a.rhs

\* A bounded stream produces exactly the documented blocks, each once and in
\* rising order.
BoundedIsDocumented ==
    (ipc = "stop" /\ interval.kind \in {"single", "range"}) =>
        /\ {yielded[i] : i \in DOMAIN yielded} = Documented(arg)
        /\ \A i, j \in DOMAIN yielded : i < j => yielded[i] < yielded[j]

\* The followed stream leaves no block out between two it produces, and never
\* runs ahead of the chain.
FollowsInOrder ==
    interval.kind = "follow" =>
        \A i \in DOMAIN yielded :
            /\ yielded[i] <= tip
            /\ i > 1 => yielded[i] = yielded[i - 1] + 1

\* Both: an interval yields the blocks it is documented to, each once and in order,
\* and a followed chain without a gap (block_interval.rs).
IntervalRight == BoundedIsDocumented /\ FollowsInOrder

\* new's documentation: "`lhs..` for a range starting from `lhs` to the chain
\* tip", so the first block produced is lhs.
FollowStartsAtLhs ==
    (interval.kind = "follow" /\ yielded # <<>>) => yielded[1] = interval.start

\* new's comment: "Any other character after `..` or `..=` is invalid" once the
\* argument is no range: an argument that is followed ends with its separator.
NothingAfterSeparator ==
    (interval.kind = "follow") => arg.rhs = Empty
=============================================================================
