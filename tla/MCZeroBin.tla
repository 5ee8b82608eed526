------------------------------ MODULE MCZeroBin ------------------------------
(***************************************************************************)
(* The programs around the prover, for TLC: the leader's pipeline of block *)
(* proofs, the circuits that worker processes share on disk, the block     *)
(* interval, and the fetching of the inputs.  A behaviour is one of them:  *)
(* part says which.                                                        *)
(***************************************************************************)
EXTENDS BlockPipeline, CircuitCache, BlockInterval, ProverInput

VARIABLE part

allVars == <<part, vars, cacheVars, intervalVars, inputVars>>

\* Two configurations that share a table.
SharedTable == {<<1, 2>>, <<2>>}

\* The rpc binary asks for the inputs of three blocks one after the other, the leader
\* for those of two blocks near the genesis block all at once.
FetchedIntervals ==
    IF sequential THEN length = 3 ELSE length = 2 /\ first <= 2

NoPipeline == Init /\ config = CHOOSE c \in Configs : TRUE
NoCache == /\ CacheInit /\ oneByOne
           /\ strategy = [w \in Workers |-> "none"] /\ circuits = [w \in Workers |-> <<2>>]
NoInterval == IntervalInit /\ arg = [hash |-> TRUE] /\ tip = 0
NoInput == /\ sequential = TRUE /\ first = 1 /\ length = 1
           /\ cache = [n \in Chain |-> "none"] /\ task = [c \in AllCalls |-> Idle] /\ errors = 0 /\ failed = {}

MCInit ==
    \/ part = "pipeline" /\ Init /\ NoCache /\ NoInterval /\ NoInput
    \/ part = "cache" /\ CacheInit /\ NoPipeline /\ NoInterval /\ NoInput
    \/ part = "interval" /\ IntervalInit /\ NoPipeline /\ NoCache /\ NoInput
    \/ /\ part = "input" /\ InputInit /\ NoPipeline /\ NoCache /\ NoInterval
       /\ FetchedIntervals

OnlyPipeline == part = "pipeline" /\ UNCHANGED <<part, cacheVars, intervalVars, inputVars>>
OnlyCache == part = "cache" /\ UNCHANGED <<part, vars, intervalVars, inputVars>>
OnlyInterval == part = "interval" /\ UNCHANGED <<part, vars, cacheVars, inputVars>>
OnlyInput == part = "input" /\ UNCHANGED <<part, vars, cacheVars, intervalVars>>

MCNext ==
    \/ OnlyPipeline /\ Next
    \/ OnlyCache /\ CacheNext
    \/ OnlyInterval /\ IntervalNext
    \/ OnlyInput /\ InputNext

\* The fairness of each part's own specification: a behaviour is one of the parts, so
\* conditions of different parts can be put into one.
MCFairness ==
    /\ \A b \in Blocks : WF_allVars(OnlyPipeline /\ BlockStep(b) /\ UNCHANGED config)
    /\ \A b \in Blocks : WF_allVars(OnlyPipeline /\ Flush(b) /\ UNCHANGED config)
    /\ WF_allVars(\/ OnlyPipeline /\ LeaderStep /\ UNCHANGED config
                  \/ OnlyInterval /\ Steps
                  \/ OnlyInput /\ Progress)
    /\ \A w \in Workers : WF_allVars(OnlyCache /\ Initialize(w))

MCSpec == MCInit /\ [][MCNext]_allVars /\ MCFairness

-----------------------------------------------------------------------------
\* Nothing waits for ever, and what has ended stays so: the leader ends whatever fails,
\* and no file is left with a buffer still to be written; every worker is ready whatever
\* crashed; every block mined behind the start of a followed interval is yielded; every
\* input is fetched or fails.
HasEnded ==
    CASE part = "pipeline" -> leader \in Final /\ \A b \in Blocks : disk[b] # "buffered"
      [] part = "cache" -> \A w \in Workers : wpc[w] = "ready"
      [] part = "interval" ->
            interval.kind = "follow" =>
                \A n \in interval.start + 1 .. tip : \E i \in DOMAIN yielded : yielded[i] = n
      [] part = "input" -> Over

ZeroBinEnds == <>[]HasEnded
=============================================================================
