---------------------------- MODULE MCKernelHints ----------------------------
(***************************************************************************)
(* What the kernel does with the hints of the prover, for TLC: the access  *)
(* lists, the analysis of jump destinations, and the simulation that finds *)
(* the destinations.  A behaviour works on one of them: part says which.   *)
(***************************************************************************)
EXTENDS AccessList, JumpdestAnalysis, JumpdestSimulation

VARIABLE part

allVars == <<part, vars, analysisVars, simVars>>

\* Addresses 0, 1 and 3, of which 3 stands for the RIPEMD-160 precompile, and two
\* slots of each of two accounts.
AddressKeys == {<<0, 0>>, <<1, 0>>, <<3, 0>>}
RipeMd == {<<3, 0>>}
SlotKeys == {0, 1} \X {0, 1}
AllKeys == AddressKeys \cup SlotKeys

\* The two lists.  The .cfg's Keys are those of both.
Addresses == INSTANCE AccessList WITH Keys <- AddressKeys
StorageKeys == INSTANCE AccessList WITH Keys <- SlotKeys, MaxNodes <- 5

\* The prover of prover_input.rs is given codes of up to this length.
OwnLen == 4

NoAnalysis == /\ honest = FALSE /\ code = <<>> /\ used = {} /\ table = <<>>
              /\ addr = 0 /\ bits = {} /\ pc = "analysis"
NoSimulation == /\ outer = <<>> /\ inner = <<>> /\ phase = "simulate" /\ frames = <<>>
                /\ contexts = 0 /\ gas = 0 /\ recorded = <<>> /\ outcome = TRUE

\* The codes that are simulated: no wild jump, and calls are one level deep.
SimulatedCodes ==
    /\ Tame(outer) /\ Tame(inner)
    /\ \A i \in DOMAIN inner : inner[i].op # "call"

MCInit ==
    /\ Init
    /\ \/ part \in {"addresses", "storage keys"} /\ NoAnalysis /\ NoSimulation
       \/ /\ part = "analysis" /\ AnalysisInit /\ NoSimulation
          /\ honest => Len(code) <= OwnLen /\ used \subseteq 0 .. OwnLen
       \/ part = "simulation" /\ SimulationInit /\ SimulatedCodes /\ NoAnalysis

MCNext ==
    /\ UNCHANGED part
    /\ \/ part = "addresses" /\ Addresses!Next /\ UNCHANGED <<analysisVars, simVars>>
       \/ part = "storage keys" /\ StorageKeys!Next /\ UNCHANGED <<analysisVars, simVars>>
       \/ part = "analysis" /\ AnalysisNext /\ UNCHANGED <<vars, simVars>>
       \/ part = "simulation" /\ SimulationNext /\ UNCHANGED <<vars, analysisVars>>

MCSpec == MCInit /\ [][MCNext]_allVars

=============================================================================
