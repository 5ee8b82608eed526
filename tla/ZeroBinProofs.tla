---------------------------- MODULE ZeroBinProofs ----------------------------
(***************************************************************************)
(* Proofs about the programs around the prover: the leader's pipeline      *)
(* keeps its promises about proofs and files for every interval and every  *)
(* number of batches, whatever fails and when; the circuits that workers   *)
(* share on disk are complete while workers start one by one; a block      *)
(* interval yields what it is documented to; and every prover input is     *)
(* fetched with its transactions and previous hashes.                      *)
(***************************************************************************)
EXTENDS BlockPipeline, CircuitCache, BlockInterval, ProverInput, TLAPS

-----------------------------------------------------------------------------
(* The inductive invariant.  Its heart is PrefixDone: a future that has    *)
(* its predecessor's proof finds all earlier futures ended with success,   *)
(* which no later step takes back.                                         *)

Types ==
    /\ config \in Configs
    /\ pc \in [Blocks -> Running \cup {"ok", "err", "dropped"}]
    /\ chan \in [Blocks -> {"open", "sent", "closed"}]
    /\ proof \in [Blocks -> SUBSET Blocks]
    /\ disk \in [Blocks -> FileStates]
    /\ collected \in 0 .. NumBlocks
    /\ leader \in {"proving", "proved", "failed", "cleanup"} \cup Final
    /\ removing \in 0 .. NumBlocks

Early == {"input", "batches", "previous"}
Late == {"block", "write", "send", "ok"}

\* A proof is sent exactly by the futures that end with success.
SentIsOk == \A b \in Blocks : chan[b] = "sent" <=> pc[b] = "ok"

PrefixDone ==
    \A b \in Blocks : pc[b] \in Late \/ disk[b] # "none" => \A a \in 1 .. b - 1 : pc[a] = "ok"

Attested ==
    \A b \in Blocks : ~TestOnly /\ (pc[b] \in {"write", "send", "ok"} \/ disk[b] # "none") => proof[b] = 1 .. b

\* No file before the write, one that was handed over whole after it.
Written ==
    \A b \in Blocks :
        /\ pc[b] \in Early \cup {"block", "write"} => disk[b] = "none"
        /\ OutputDir /\ pc[b] \in {"send", "ok"} /\ leader \notin {"cleanup", "done"} => disk[b] \in Handed

Taken ==
    /\ \A b \in 1 .. collected : pc[b] = "ok"
    /\ leader \in {"proved", "cleanup", "done"} => collected = NumBlocks

\* The cleanup leaves the last file, and is not entered to keep the others.
Cleaning ==
    leader = "cleanup" =>
        /\ OutputDir /\ ~KeepIntermediate /\ ~Stdio
        /\ removing < NumBlocks
        /\ disk[NumBlocks] \in Handed

PipelineInv ==
    /\ Types /\ SentIsOk /\ PrefixDone /\ Attested /\ Written /\ Taken /\ Cleaning
    /\ SuccessKeepsProof

LEMMA NumBlocksType == NumBlocks \in Nat /\ NumBlocks > 0 /\ NumBlocks \in Blocks
BY PipelineAssumption DEF Blocks

LEMMA InitHolds == Init => PipelineInv
<1> SUFFICES ASSUME Init PROVE PipelineInv
  OBVIOUS
<1> USE NumBlocksType DEF Init
<1>1. Types
  BY DEF Types, FileStates, Running, Final, Blocks
<1>2. SentIsOk /\ PrefixDone /\ Attested
  BY DEF SentIsOk, PrefixDone, Attested, Late
<1>3. Written /\ Taken /\ Cleaning /\ SuccessKeepsProof
  BY DEF Written, Early, Taken, Cleaning, SuccessKeepsProof
<1> QED
  BY <1>1, <1>2, <1>3 DEF PipelineInv

-----------------------------------------------------------------------------
(* Steps of a block's future. *)

\* Steps that move a future on within the early part, or into an error.
LEMMA QuietStep ==
    ASSUME PipelineInv, NEW b \in Blocks, leader = "proving", pc[b] \in Running,
           NEW to \in Early \cup {"err"}, pc' = [pc EXCEPT ![b] = to],
           to \in Early => pc[b] \in Early /\ chan' = chan,
           to = "err" => chan' = [chan EXCEPT ![b] = "closed"],
           disk' = disk, proof' = proof, collected' = collected, leader' = leader,
           removing' = removing, stdout' = stdout, config' = config
    PROVE  PipelineInv'
<1> USE NumBlocksType DEF PipelineInv
<1>1. Types'
  BY DEF Types, Running, Early
<1>2. SentIsOk'
  BY DEF Types, SentIsOk, Running, Early
<1>3. PrefixDone'
  BY DEF Types, PrefixDone, Running, Early, Late, Blocks
<1>4. Attested'
  BY DEF Types, Attested, Running, Early, TestOnly
<1>5. Written'
  BY DEF Types, Written, Running, Early, OutputDir
<1>6. Taken'
  BY DEF Types, Taken, Running, Early, Blocks
<1>7. Cleaning' /\ SuccessKeepsProof'
  BY DEF Cleaning, SuccessKeepsProof
<1> QED
  BY <1>1, <1>2, <1>3, <1>4, <1>5, <1>6, <1>7

\* Input, ProveBatch, FoldBatches, StepFails
LEMMA EarlyKeeps ==
    ASSUME PipelineInv, NEW b \in Blocks, config' = config,
           Input(b) \/ ProveBatch(b) \/ FoldBatches(b) \/ StepFails(b)
    PROVE  PipelineInv'
<1>1. CASE Input(b)
  <2>1. pc[b] \in Running /\ pc[b] \in Early /\ "batches" \in Early
    BY <1>1 DEF Input, At, Running, Early
  <2> QED
    BY <1>1, <2>1, QuietStep DEF Input, At, Goto
<1>2. CASE ProveBatch(b)
  <2>1. pc[b] = "batches" /\ pc' = [pc EXCEPT ![b] = "batches"]
    BY <1>2 DEF ProveBatch, At, PipelineInv, Types
  <2>2. pc[b] \in Running /\ pc[b] \in Early /\ "batches" \in Early
    BY <2>1 DEF Running, Early
  <2> QED
    BY <1>2, <2>1, <2>2, QuietStep DEF ProveBatch, At
<1>3. CASE FoldBatches(b)
  <2>1. pc[b] \in Running /\ pc[b] \in Early /\ "previous" \in Early
    BY <1>3 DEF FoldBatches, At, Running, Early
  <2>2. CASE Goto(b, "previous") /\ UNCHANGED chan
    BY <1>3, <2>1, <2>2, QuietStep DEF FoldBatches, At, Goto
  <2>3. CASE Fail(b)
    <3>1. "err" \in Early \cup {"err"} /\ "err" \notin Early
      BY DEF Early
    <3> QED
      BY <1>3, <2>1, <2>3, <3>1, QuietStep DEF FoldBatches, At, Goto, Fail
  <2> QED
    BY <1>3, <2>2, <2>3 DEF FoldBatches
<1>4. CASE StepFails(b)
  <2>1. pc[b] \in Running /\ leader = "proving"
    BY <1>4 DEF StepFails, At, Running
  <2>2. "err" \in Early \cup {"err"} /\ "err" \notin Early
    BY DEF Early
  <2> QED
    BY <1>4, <2>1, <2>2, QuietStep DEF StepFails, Goto, Fail
<1> QED
  BY <1>1, <1>2, <1>3, <1>4

\* The previous block's proof is there only when all earlier blocks are done.
LEMMA AwaitPreviousKeeps ==
    ASSUME PipelineInv, NEW b \in Blocks, config' = config, AwaitPrevious(b)
    PROVE  PipelineInv'
<1> USE NumBlocksType
<1>1. /\ leader = "proving" /\ pc[b] = "previous" /\ pc[b] \in Running
      /\ UNCHANGED <<proof, disk, collected, leader, removing, stdout>>
  BY DEF AwaitPrevious, At, Running
<1>2. CASE Previous(b) = "closed" /\ Fail(b)
  <2>1. "err" \in Early \cup {"err"} /\ "err" \notin Early
    BY DEF Early
  <2> QED
    BY <1>1, <1>2, <2>1, QuietStep DEF Goto, Fail
<1>3. CASE Previous(b) = "sent" /\ Goto(b, "block") /\ UNCHANGED chan
  <2>1. \A a \in 1 .. b - 1 : pc[a] = "ok"
    <3>1. CASE b = 1
      BY <3>1
    <3>2. CASE b # 1
      <4>1. b - 1 \in Blocks /\ chan[b - 1] = "sent"
        BY <1>3, <3>2 DEF Blocks, Previous
      <4>2. pc[b - 1] = "ok"
        BY <4>1 DEF PipelineInv, SentIsOk
      <4>3. \A a \in 1 .. (b - 1) - 1 : pc[a] = "ok"
        BY <4>1, <4>2 DEF PipelineInv, PrefixDone, Late
      <4> QED
        BY <4>2, <4>3 DEF Blocks
    <3> QED
      BY <3>1, <3>2
  <2> USE DEF PipelineInv
  <2>2. pc' = [pc EXCEPT ![b] = "block"] /\ chan' = chan
    BY <1>3 DEF Goto
  <2>3. Types'
    BY <1>1, <2>2 DEF Types, Running
  <2>4. SentIsOk'
    BY <1>1, <2>2 DEF Types, SentIsOk
  <2>5. PrefixDone'
    BY <1>1, <2>1, <2>2 DEF Types, PrefixDone, Late, Blocks
  <2>6. Attested'
    BY <1>1, <2>2 DEF Types, Attested, TestOnly
  <2>7. Written'
    BY <1>1, <2>2 DEF Types, Written, Early, OutputDir
  <2>8. Taken'
    BY <1>1, <2>2 DEF Types, Taken, Blocks
  <2>9. Cleaning' /\ SuccessKeepsProof'
    BY <1>1 DEF Cleaning, SuccessKeepsProof
  <2> QED
    BY <2>3, <2>4, <2>5, <2>6, <2>7, <2>8, <2>9
<1> QED
  BY <1>2, <1>3 DEF AwaitPrevious

\* The block's proof folds in the previous one, which attests all before it.
LEMMA ProveBlockKeeps ==
    ASSUME PipelineInv, NEW b \in Blocks, config' = config, ProveBlock(b)
    PROVE  PipelineInv'
<1> USE NumBlocksType DEF PipelineInv
<1> DEFINE to == IF OutputDir THEN "write" ELSE "send"
<1>1. /\ leader = "proving" /\ pc[b] = "block"
      /\ UNCHANGED <<chan, disk, collected, leader, removing, stdout>>
      /\ pc' = [pc EXCEPT ![b] = to]
      /\ to \in {"write", "send"} /\ (to = "send" => ~OutputDir)
  BY DEF ProveBlock, At, Goto
<1>2. proof' = [proof EXCEPT ![b] = IF TestOnly THEN {} ELSE {b} \cup (IF b = 1 THEN {} ELSE proof[b - 1])]
  BY DEF ProveBlock
<1> HIDE DEF to
<1>3. \A a \in 1 .. b - 1 : pc[a] = "ok"
  BY <1>1 DEF PrefixDone, Late
<1>4. ~TestOnly => proof'[b] = 1 .. b
  <2>1. CASE TestOnly
    BY <2>1
  <2>2. CASE ~TestOnly /\ b = 1
    BY <1>2, <2>2 DEF Types
  <2>3. CASE ~TestOnly /\ b # 1
    <3>1. b - 1 \in Blocks /\ pc[b - 1] = "ok"
      BY <1>3, <2>3 DEF Blocks
    <3>2. proof[b - 1] = 1 .. b - 1
      BY <2>3, <3>1 DEF Attested
    <3>3. proof'[b] = {b} \cup (1 .. b - 1)
      BY <1>2, <2>3, <3>2 DEF Types
    <3> QED
      BY <3>3 DEF Blocks
  <2> QED
    BY <2>1, <2>2, <2>3
<1>5. Types'
  <2>1. proof' \in [Blocks -> SUBSET Blocks]
    BY <1>2 DEF Types, Blocks
  <2> QED
    BY <1>1, <2>1 DEF Types, Running
<1>6. SentIsOk'
  BY <1>1 DEF Types, SentIsOk
<1>7. PrefixDone'
  BY <1>1, <1>3 DEF Types, PrefixDone, Late, Blocks
<1>8. Attested'
  <2> SUFFICES ASSUME NEW c \in Blocks, ~TestOnly',
                      pc'[c] \in {"write", "send", "ok"} \/ disk'[c] # "none"
               PROVE  proof'[c] = 1 .. c
    BY DEF Attested
  <2>1. ~TestOnly
    BY DEF TestOnly
  <2>2. CASE c = b
    BY <1>4, <2>1, <2>2
  <2>3. CASE c # b
    <3>1. pc'[c] = pc[c] /\ disk'[c] = disk[c] /\ proof'[c] = proof[c]
      BY <1>1, <1>2, <2>3 DEF Types
    <3> QED
      BY <2>1, <3>1 DEF Attested
  <2> QED
    BY <2>2, <2>3
<1>9. Written'
  BY <1>1 DEF Types, Written, Early, OutputDir
<1>10. Taken'
  BY <1>1 DEF Types, Taken, Blocks
<1>11. Cleaning' /\ SuccessKeepsProof'
  BY <1>1 DEF Cleaning, SuccessKeepsProof
<1> QED
  BY <1>5, <1>6, <1>7, <1>8, <1>9, <1>10, <1>11

\* Write, and a write that fails and may leave a part of the file.
LEMMA WriteKeeps ==
    ASSUME PipelineInv, NEW b \in Blocks, config' = config, Write(b) \/ WriteFails(b)
    PROVE  PipelineInv'
<1> USE NumBlocksType DEF PipelineInv
<1>1. PICK d \in {"none", "partial", "buffered"}, to \in {"send", "err"} :
        /\ pc' = [pc EXCEPT ![b] = to] /\ disk' = [disk EXCEPT ![b] = d]
        /\ to = "send" => d = "buffered" /\ chan' = chan
        /\ to = "err" => chan' = [chan EXCEPT ![b] = "closed"]
  <2>1. CASE Write(b)
    <3>1. pc' = [pc EXCEPT ![b] = "send"] /\ disk' = [disk EXCEPT ![b] = "buffered"] /\ chan' = chan
      BY <2>1 DEF Write, Goto
    <3> QED
      BY <3>1
  <2>2. CASE WriteFails(b)
    <3>1. PICK d \in {"none", "partial"} : disk' = [disk EXCEPT ![b] = d]
      BY <2>2 DEF WriteFails
    <3>2. pc' = [pc EXCEPT ![b] = "err"] /\ chan' = [chan EXCEPT ![b] = "closed"]
      BY <2>2 DEF WriteFails, Goto, Fail
    <3> QED
      BY <3>1, <3>2
  <2> QED
    BY <2>1, <2>2
<1>2. /\ leader = "proving" /\ pc[b] = "write"
      /\ UNCHANGED <<proof, collected, leader, removing, stdout>>
  BY DEF Write, WriteFails, At
<1>3. Types'
  BY <1>1, <1>2 DEF Types, FileStates, Running
<1>4. SentIsOk'
  BY <1>1, <1>2 DEF Types, SentIsOk
<1>5. PrefixDone'
  BY <1>1, <1>2 DEF Types, PrefixDone, Late, Blocks
<1>6. Attested'
  BY <1>1, <1>2 DEF Types, Attested, TestOnly
<1>7. Written'
  BY <1>1, <1>2 DEF Types, Written, Early, OutputDir, Handed
<1>8. Taken'
  BY <1>1, <1>2 DEF Types, Taken, Blocks
<1>9. Cleaning' /\ SuccessKeepsProof'
  BY <1>2 DEF Cleaning, SuccessKeepsProof
<1> QED
  BY <1>3, <1>4, <1>5, <1>6, <1>7, <1>8, <1>9

\* The last buffer of a file that was handed over is written or lost.
LEMMA FlushKeeps ==
    ASSUME PipelineInv, NEW b \in Blocks, config' = config, Flush(b)
    PROVE  PipelineInv'
<1> USE NumBlocksType DEF PipelineInv
<1>1. PICK d \in {"full", "lost"} : disk' = [disk EXCEPT ![b] = d]
  BY DEF Flush
<1>2. /\ disk[b] = "buffered"
      /\ UNCHANGED <<pc, chan, proof, collected, leader, removing, stdout>>
  BY DEF Flush
<1>3. /\ disk' \in [Blocks -> FileStates]
      /\ \A c \in Blocks : disk'[c] # "none" => disk[c] # "none"
      /\ \A c \in Blocks : disk[c] = "none" => disk'[c] = "none"
      /\ \A c \in Blocks : disk[c] \in Handed => disk'[c] \in Handed
  BY <1>1, <1>2 DEF Types, FileStates, Handed
<1>4. Types' /\ SentIsOk' /\ Taken'
  BY <1>2, <1>3 DEF Types, SentIsOk, Taken
<1>5. PrefixDone' /\ Attested'
  BY <1>2, <1>3 DEF PrefixDone, Attested, TestOnly
<1>6. Written'
  BY <1>2, <1>3 DEF Written, OutputDir
<1>7. Cleaning' /\ SuccessKeepsProof'
  BY <1>2, <1>3 DEF Cleaning, SuccessKeepsProof, TestOnly, OutputDir, KeepIntermediate, Stdio
<1> QED
  BY <1>4, <1>5, <1>6, <1>7

LEMMA SendKeeps ==
    ASSUME PipelineInv, NEW b \in Blocks, config' = config, Send(b)
    PROVE  PipelineInv'
<1> USE NumBlocksType
<1>1. /\ leader = "proving" /\ pc[b] = "send" /\ pc[b] \in Running
      /\ UNCHANGED <<proof, disk, collected, leader, removing, stdout>>
  BY DEF Send, At, Running
<1>2. CASE Fail(b)
  <2>1. "err" \in Early \cup {"err"} /\ "err" \notin Early
    BY DEF Early
  <2> QED
    BY <1>1, <1>2, <2>1, QuietStep DEF Goto, Fail
<1>3. CASE Goto(b, "ok") /\ chan' = [chan EXCEPT ![b] = "sent"]
  <2> USE DEF PipelineInv
  <2>1. pc' = [pc EXCEPT ![b] = "ok"]
    BY <1>3 DEF Goto
  <2>2. Types'
    BY <1>1, <1>3, <2>1 DEF Types, Running
  <2>3. SentIsOk'
    BY <1>1, <1>3, <2>1 DEF Types, SentIsOk
  <2>4. PrefixDone'
    BY <1>1, <2>1 DEF Types, PrefixDone, Late, Blocks
  <2>5. Attested'
    BY <1>1, <2>1 DEF Types, Attested, TestOnly
  <2>6. Written'
    BY <1>1, <2>1 DEF Types, Written, Early, OutputDir
  <2>7. Taken'
    BY <1>1, <2>1 DEF Types, Taken, Blocks
  <2>8. Cleaning' /\ SuccessKeepsProof'
    BY <1>1 DEF Cleaning, SuccessKeepsProof
  <2> QED
    BY <2>2, <2>3, <2>4, <2>5, <2>6, <2>7, <2>8
<1> QED
  BY <1>2, <1>3 DEF Send

-----------------------------------------------------------------------------
(* Steps of the leader. *)

LEMMA CollectKeeps ==
    ASSUME PipelineInv, config' = config, Collect
    PROVE  PipelineInv'
<1> USE NumBlocksType DEF PipelineInv
<1>1. /\ leader = "proving" /\ collected < NumBlocks /\ pc[collected + 1] = "ok"
      /\ collected' = collected + 1
      /\ leader' = IF collected' = NumBlocks THEN "proved" ELSE leader
      /\ UNCHANGED <<pc, chan, proof, disk, removing, stdout>>
  BY DEF Collect
<1>2. leader' \in {"proving", "proved"} /\ (leader' = "proved" => collected' = NumBlocks)
  BY <1>1
<1>3. Types'
  BY <1>1, <1>2 DEF Types
<1>4. SentIsOk' /\ PrefixDone' /\ Attested'
  BY <1>1 DEF SentIsOk, PrefixDone, Attested, TestOnly
<1>5. Written'
  BY <1>1, <1>2 DEF Written, OutputDir
<1>6. Taken'
  BY <1>1, <1>2 DEF Types, Taken
<1>7. Cleaning' /\ SuccessKeepsProof'
  BY <1>2 DEF Cleaning, SuccessKeepsProof
<1> QED
  BY <1>3, <1>4, <1>5, <1>6, <1>7

\* The first error drops the other futures; those that had ended stay as they are.
LEMMA CollectErrorKeeps ==
    ASSUME PipelineInv, config' = config, CollectError
    PROVE  PipelineInv'
<1> USE NumBlocksType DEF PipelineInv
<1>1. /\ leader = "proving" /\ leader' = "failed"
      /\ pc' = [b \in Blocks |-> IF pc[b] \in Running THEN "dropped" ELSE pc[b]]
      /\ chan' = [b \in Blocks |-> IF pc[b] \in Running THEN "closed" ELSE chan[b]]
      /\ UNCHANGED <<proof, disk, collected, removing, stdout>>
  BY DEF CollectError
<1>2. \A b \in Blocks : /\ pc'[b] = pc[b] \/ (pc[b] # "ok" /\ pc'[b] = "dropped")
                        /\ pc'[b] \notin Running
                        /\ pc[b] = "ok" <=> pc'[b] = "ok"
  BY <1>1 DEF Running
<1>3. Types'
  <2>1. pc' \in [Blocks -> Running \cup {"ok", "err", "dropped"}]
    BY <1>1 DEF Types
  <2>2. chan' \in [Blocks -> {"open", "sent", "closed"}]
    BY <1>1 DEF Types
  <2> QED
    BY <1>1, <2>1, <2>2 DEF Types
<1>4. SentIsOk'
  BY <1>1, <1>2 DEF Types, SentIsOk, Running
<1>5. PrefixDone'
  <2> SUFFICES ASSUME NEW b \in Blocks, pc'[b] \in Late \/ disk'[b] # "none", NEW a \in 1 .. b - 1
               PROVE  pc'[a] = "ok"
    BY DEF PrefixDone
  <2>1. pc[b] \in Late \/ disk[b] # "none"
    BY <1>1, <1>2 DEF Late
  <2>2. pc[a] = "ok" /\ a \in Blocks
    BY <2>1 DEF PrefixDone, Blocks
  <2> QED
    BY <1>2, <2>2
<1>6. Attested'
  BY <1>1, <1>2 DEF Attested, TestOnly
<1>7. Written'
  BY <1>1, <1>2 DEF Written, OutputDir, Early, Running
<1>8. Taken'
  BY <1>1, <1>2 DEF Types, Taken, Blocks
<1>9. Cleaning' /\ SuccessKeepsProof'
  BY <1>1 DEF Cleaning, SuccessKeepsProof
<1> QED
  BY <1>3, <1>4, <1>5, <1>6, <1>7, <1>8, <1>9

\* The proofs that are returned, without an output directory.
LEMMA ReturnedAll ==
    ASSUME ~OutputDir
    PROVE  /\ \A b \in Blocks : \E i \in DOMAIN Returned : Returned[i] = b
           /\ \E i \in DOMAIN LastOf(Returned) : LastOf(Returned)[i] = NumBlocks
<1> USE NumBlocksType
<1>1. Returned = [b \in Blocks |-> b] /\ Returned \in Seq(Blocks)
  BY DEF Returned, Blocks
<1>2. DOMAIN Returned = Blocks
  BY <1>1
<1>3. Len(Returned) = NumBlocks
  BY <1>1, <1>2 DEF Blocks
<1>4. Returned # <<>> /\ Returned[NumBlocks] = NumBlocks
  BY <1>1, <1>3
<1>5. LastOf(Returned) = <<NumBlocks>>
  BY <1>3, <1>4 DEF LastOf
<1>6. ASSUME NEW b \in Blocks PROVE \E i \in DOMAIN Returned : Returned[i] = b
  BY <1>1, <1>2
<1>7. DOMAIN <<NumBlocks>> = {1} /\ <<NumBlocks>>[1] = NumBlocks
  OBVIOUS
<1>8. \E i \in DOMAIN LastOf(Returned) : LastOf(Returned)[i] = NumBlocks
  BY <1>5, <1>7
<1> QED
  BY <1>6, <1>8

LEMMA CloseRuntimeKeeps ==
    ASSUME PipelineInv, config' = config, CloseRuntime
    PROVE  PipelineInv'
<1> USE NumBlocksType DEF PipelineInv
<1>1. /\ leader \in {"proved", "failed"}
      /\ UNCHANGED <<pc, chan, proof, disk, collected>>
  BY DEF CloseRuntime
<1>2. SentIsOk' /\ PrefixDone' /\ Attested'
  BY <1>1 DEF SentIsOk, PrefixDone, Attested, TestOnly
<1>3. CASE leader' = "error" /\ UNCHANGED <<removing, stdout>>
  <2>1. Types' /\ Taken' /\ Cleaning' /\ SuccessKeepsProof'
    BY <1>1, <1>3 DEF Types, Final, Taken, Cleaning, SuccessKeepsProof
  <2>2. Written'
    BY <1>1, <1>3 DEF Written, OutputDir
  <2> QED
    BY <1>2, <2>1, <2>2
<1>4. CASE leader = "proved" /\ leader' \in {"done", "cleanup"}
  <2>1. \A b \in Blocks : pc[b] = "ok" /\ (OutputDir => disk[b] \in Handed)
    BY <1>4 DEF Types, Taken, Written, Blocks
  <2>2. removing' \in 0 .. NumBlocks
    BY <1>4 DEF CloseRuntime, Types
  <2>3. Types' /\ Taken'
    BY <1>1, <1>4, <2>2 DEF Types, Final, Taken
  <2>4. Written'
    BY <1>1, <1>4 DEF Written
  <2>5. Cleaning'
    <3> SUFFICES ASSUME leader' = "cleanup" PROVE Cleaning'
      BY DEF Cleaning
    <3>1. ~Stdio /\ ~KeepIntermediate /\ OutputDir /\ removing' = NumBlocks - 1
      BY <1>4 DEF CloseRuntime
    <3> QED
      BY <1>1, <2>1, <3>1 DEF Cleaning, Stdio, KeepIntermediate, OutputDir
  <2>6. SuccessKeepsProof'
    <3> SUFFICES ASSUME leader' = "done", ~TestOnly, NEW b \in Blocks,
                        b = NumBlocks \/ KeepIntermediate \/ Stdio
                 PROVE  IF OutputDir THEN disk'[b] \in Handed ELSE \E i \in DOMAIN stdout' : stdout'[i] = b
      BY DEF SuccessKeepsProof, TestOnly, KeepIntermediate, Stdio, OutputDir
    <3>1. CASE OutputDir
      BY <1>1, <2>1, <3>1
    <3>2. CASE ~OutputDir
      <4>1. CASE Stdio \/ KeepIntermediate
        <5>1. stdout' = Returned
          BY <1>4, <4>1 DEF CloseRuntime
        <5> QED
          BY <3>2, <5>1, ReturnedAll
      <4>2. CASE ~Stdio /\ ~KeepIntermediate
        <5>1. stdout' = LastOf(Returned) /\ b = NumBlocks
          BY <1>4, <3>2, <4>2 DEF CloseRuntime
        <5> QED
          BY <3>2, <5>1, ReturnedAll
      <4> QED
        BY <4>1, <4>2
    <3> QED
      BY <3>1, <3>2
  <2> QED
    BY <1>2, <2>3, <2>4, <2>5, <2>6
<1> QED
  BY <1>3, <1>4 DEF CloseRuntime

LEMMA RemoveFileKeeps ==
    ASSUME PipelineInv, config' = config, RemoveFile
    PROVE  PipelineInv'
<1> USE NumBlocksType DEF PipelineInv
<1>1. /\ leader = "cleanup"
      /\ UNCHANGED <<pc, chan, proof, collected, stdout>>
      /\ removing < NumBlocks /\ disk[NumBlocks] \in Handed
      /\ OutputDir /\ ~KeepIntermediate /\ ~Stdio
  BY DEF RemoveFile, Cleaning
<1>2. /\ \A b \in Blocks : disk'[b] = disk[b] \/ disk'[b] = "none"
      /\ disk' \in [Blocks -> FileStates]
      /\ disk'[NumBlocks] \in Handed
      /\ leader' \in {"cleanup", "done"}
      /\ removing' \in 0 .. NumBlocks /\ removing' < NumBlocks
  <2>1. CASE removing = 0
    BY <1>1, <2>1 DEF RemoveFile, Types, FileStates
  <2>2. CASE removing # 0
    <3>1. /\ removing' = removing - 1 /\ leader' = leader
          /\ disk' = [disk EXCEPT ![removing] = "none"] \/ disk' = disk
      BY <2>2 DEF RemoveFile
    <3> QED
      BY <1>1, <2>2, <3>1 DEF Types, FileStates
  <2> QED
    BY <2>1, <2>2
<1>3. Types' /\ Taken'
  BY <1>1, <1>2 DEF Types, Final, Taken
<1>4. SentIsOk' /\ PrefixDone' /\ Attested'
  BY <1>1, <1>2 DEF SentIsOk, PrefixDone, Attested, TestOnly
<1>5. Written'
  BY <1>1, <1>2 DEF Written
<1>6. Cleaning' /\ SuccessKeepsProof'
  BY <1>1, <1>2 DEF Cleaning, SuccessKeepsProof, TestOnly, OutputDir, KeepIntermediate, Stdio
<1> QED
  BY <1>3, <1>4, <1>5, <1>6

LEMMA PipelineNextKeeps == PipelineInv /\ [Next]_vars => PipelineInv'
<1> SUFFICES ASSUME PipelineInv, [Next]_vars PROVE PipelineInv'
  OBVIOUS
<1>1. ASSUME NEW b \in Blocks, BlockStep(b), config' = config PROVE PipelineInv'
  BY <1>1, EarlyKeeps, AwaitPreviousKeeps, ProveBlockKeeps, WriteKeeps, SendKeeps DEF BlockStep
<1>a. ASSUME NEW b \in Blocks, Flush(b), config' = config PROVE PipelineInv'
  BY <1>a, FlushKeeps
<1>2. CASE LeaderStep /\ config' = config
  BY <1>2, CollectKeeps, CollectErrorKeeps, CloseRuntimeKeeps, RemoveFileKeeps DEF LeaderStep
<1>3. CASE UNCHANGED vars
  <2>1. UNCHANGED <<config, pc, chan, proof, disk, collected, leader, removing, stdout>>
    BY <1>3 DEF vars
  <2> QED
    BY <2>1 DEF PipelineInv, Types, SentIsOk, PrefixDone, Attested, Written, Taken, Cleaning,
                SuccessKeepsProof, TestOnly, OutputDir, KeepIntermediate, Stdio
<1> QED
  BY <1>1, <1>2, <1>3, <1>a DEF Next, Finished

LEMMA PipelineSound == Spec => []PipelineInv
BY InitHolds, PipelineNextKeeps, PTL DEF Spec

-----------------------------------------------------------------------------

\* For every interval and every pattern of failures: a proof file exists only when
\* write_proof_to_dir returned Ok for all earlier blocks and their files are there,
\* whatever became of the last buffers that are never flushed.
THEOREM FilesArePrefix == Spec => []DiskIsPrefix
<1>1. PipelineInv => DiskIsPrefix
  <2> SUFFICES ASSUME PipelineInv, OutputDir, leader \notin {"cleanup", "done"},
                      NEW b \in Blocks, disk[b] # "none", NEW a \in 1 .. b - 1
               PROVE  disk[a] \in Handed
    BY DEF DiskIsPrefix
  <2>1. a \in Blocks /\ pc[a] = "ok"
    BY NumBlocksType DEF PipelineInv, PrefixDone, Blocks
  <2> QED
    BY <2>1 DEF PipelineInv, Written
<1> QED
  BY <1>1, PipelineSound, PTL

\* For every interval and every order the futures run in: a proof that was
\* written, sent or returned attests every block from the first.
THEOREM ProofsCoverPrefix == Spec => []ProofAttestsPrefix
<1>1. PipelineInv => ProofAttestsPrefix
  BY DEF PipelineInv, ProofAttestsPrefix, Attested, SentIsOk
<1> QED
  BY <1>1, PipelineSound, PTL

\* For every way of starting the leader: when it reports success, the proofs it was
\* asked for were handed to the runtime to be written and not removed, or printed.
\* That they are complete on disk does not follow (KeptProofsWritten).
THEOREM SuccessHasProof == Spec => []SuccessKeepsProof
<1>1. PipelineInv => SuccessKeepsProof
  BY DEF PipelineInv
<1> QED
  BY <1>1, PipelineSound, PTL

\* The three together, which the runs check as one invariant.
THEOREM PipelineIsSafe == Spec => []PipelineSafe
BY FilesArePrefix, ProofsCoverPrefix, SuccessHasProof, PTL DEF PipelineSafe

\* Only the cleanup after every block was proved removes a complete file.
THEOREM FailuresKeepFiles == Spec => FailureKeepsFiles
<1>1. PipelineInv /\ [Next]_vars =>
        [\A b \in Blocks : disk[b] = "full" /\ disk'[b] # "full" => \A a \in Blocks : pc[a] = "ok"]_vars
  <2> SUFFICES ASSUME PipelineInv, Next, NEW b \in Blocks, disk[b] = "full", disk'[b] # "full"
               PROVE  \A a \in Blocks : pc[a] = "ok"
    OBVIOUS
  <2>1. CASE RemoveFile
    BY <2>1, NumBlocksType DEF RemoveFile, PipelineInv, Taken, Blocks
  <2>2. ASSUME NEW c \in Blocks, Write(c) \/ WriteFails(c) PROVE FALSE
    <3>1. pc[c] = "write" /\ disk[c] = "none"
      BY <2>2 DEF Write, WriteFails, At, PipelineInv, Written
    <3>2. disk'[b] = disk[b] \/ b = c
      BY <2>2 DEF Write, WriteFails, PipelineInv, Types
    <3> QED
      BY <3>1, <3>2
  <2>f. ASSUME NEW c \in Blocks, Flush(c) PROVE FALSE
    <3>1. disk[c] = "buffered" /\ (disk'[b] = disk[b] \/ b = c)
      BY <2>f DEF Flush, PipelineInv, Types
    <3> QED
      BY <3>1
  <2>3. ASSUME disk' = disk PROVE FALSE
    BY <2>3
  <2>4. ASSUME NEW c \in Blocks, BlockStep(c) PROVE FALSE
    BY <2>2, <2>3, <2>4 DEF BlockStep, Input, ProveBatch, FoldBatches, AwaitPrevious, ProveBlock, StepFails, Send
  <2>5. CASE LeaderStep
    BY <2>1, <2>3, <2>5 DEF LeaderStep, Collect, CollectError, CloseRuntime
  <2> QED
    BY <2>3, <2>4, <2>5, <2>f DEF Next, Finished, vars
<1> QED
  BY <1>1, PipelineSound, PTL DEF Spec, FailureKeepsFiles

-----------------------------------------------------------------------------
(***************************************************************************)
(* The circuit cache.  While workers start one after the other and none    *)
(* crashes, at most one is starting, and what it has still to write is all *)
(* that its configuration, or another one with a readable base file, can   *)
(* be missing.                                                             *)
(***************************************************************************)
Among(f, s) == \E i \in 1 .. Len(s) : s[i] = f

\* A table that can be read, or that is being written again.
Present(t) ==
    \/ files[Table(t)] = "full"
    \/ \E v \in Workers : wpc[v] = "write" /\ Head(toWrite[v]) = Table(t)

Persisting(w) == wpc[w] \in {"put", "write"}

OneStarts == \A v, w \in Workers : wpc[v] \in Starting /\ wpc[w] \in Starting => v = w

OwnsOpenFile == \A w \in Workers : wpc[w] = "write" => owner[Head(toWrite[w])] = w

\* A worker puts base circuits of its own configuration only.
PutsOwnBase ==
    \A w \in Workers : Persisting(w) =>
        \A c \in CircuitConfigs : Among(Base(c), toWrite[w]) => c = circuits[w] /\ strategy[w] # "verifier"

\* What a worker that persists its circuits has not yet written is still to be put.
PutsAllTables ==
    \A w \in Workers : Persisting(w) /\ strategy[w] # "verifier" =>
        \A t \in TablesOf(circuits[w]) : Present(t) \/ Among(Table(t), toWrite[w])

BaseHasTables ==
    \A c \in CircuitConfigs : files[Base(c)] = "full" =>
        \A t \in TablesOf(c) :
            \/ Present(t)
            \/ \E v \in Workers : Persisting(v) /\ circuits[v] = c /\ Among(Table(t), toWrite[v])

ReadyHasTables ==
    \A w \in Workers : wpc[w] = "ready" /\ strategy[w] = "on-demand" =>
        \A t \in TablesOf(circuits[w]) : Present(t)

Undisturbed == OneStarts /\ OwnsOpenFile /\ PutsOwnBase /\ PutsAllTables /\ BaseHasTables /\ ReadyHasTables

CacheTypes ==
    /\ CacheTypeOK
    /\ \A w \in Workers : wpc[w] = "write" => toWrite[w] # <<>>

CacheInv == CacheTypes /\ (oneByOne /\ crashes = 0 => Undisturbed)

LEMMA AmongTail ==
    ASSUME NEW S, NEW s \in Seq(S), s # <<>>, NEW f
    PROVE  /\ Head(s) \in S /\ Tail(s) \in Seq(S)
           /\ Among(Head(s), s)
           /\ Among(f, s) => f = Head(s) \/ Among(f, Tail(s))
           /\ Among(f, Tail(s)) => Among(f, s)
<1>1. Len(s) \in Nat /\ Len(s) >= 1 /\ Tail(s) \in Seq(S) /\ Len(Tail(s)) = Len(s) - 1
  OBVIOUS
<1>2. Head(s) = s[1] /\ \A i \in 1 .. Len(s) - 1 : Tail(s)[i] = s[i + 1]
  OBVIOUS
<1>3. Head(s) \in S /\ Among(Head(s), s)
  BY <1>1, <1>2 DEF Among
<1>4. ASSUME Among(f, s), f # Head(s)
      PROVE  Among(f, Tail(s))
  <2>1. PICK i \in 1 .. Len(s) : s[i] = f
    BY <1>4 DEF Among
  <2>2. i # 1
    BY <1>2, <1>4, <2>1
  <2>3. i - 1 \in 1 .. Len(s) - 1 /\ (i - 1) + 1 = i
    BY <1>1, <2>1, <2>2
  <2>4. Tail(s)[i - 1] = f
    BY <1>2, <2>1, <2>3
  <2> QED
    BY <1>1, <2>3, <2>4 DEF Among
<1>5. ASSUME Among(f, Tail(s))
      PROVE  Among(f, s)
  <2>1. PICK i \in 1 .. Len(s) - 1 : Tail(s)[i] = f
    BY <1>1, <1>5 DEF Among
  <2>2. i + 1 \in 1 .. Len(s) /\ s[i + 1] = f
    BY <1>1, <1>2, <2>1
  <2> QED
    BY <2>2 DEF Among
<1> QED
  BY <1>1, <1>3, <1>4, <1>5

LEMMA NamesDiffer ==
    /\ \A t, u : Table(t) = Table(u) => t = u
    /\ \A c, d : Base(c) = Base(d) => c = d
    /\ \A c, t : Base(c) # Table(t) /\ Base(c) # Monolithic(t) /\ Base(c) # Verifier(t)
BY DEF Table, Base, Monolithic, Verifier

\* What a worker puts: files of the cache, all its tables, and of the base circuits its own.
LEMMA ResourcesAre ==
    ASSUME CacheTypeOK, NEW w \in Workers
    PROVE  /\ Resources(w) \in Seq(Files)
           /\ strategy[w] # "verifier" => \A t \in TablesOf(circuits[w]) : Among(Table(t), Resources(w))
           /\ \A c \in CircuitConfigs :
                 Among(Base(c), Resources(w)) => c = circuits[w] /\ strategy[w] # "verifier"
<1> DEFINE c == circuits[w]
           L == Len(c)
           ts == [i \in 1 .. L |-> Table(c[i])]
           v == Verifier(c)
<1>1. c \in CircuitConfigs /\ c \in Seq(Tables) /\ L \in Nat
  BY CacheAssumption DEF CacheTypeOK
<1>2. Base(c) \in Files /\ Monolithic(c) \in Files /\ v \in Files /\ \A i \in 1 .. L : Table(c[i]) \in Files
  BY <1>1 DEF Files
<1>3. CASE strategy[w] = "verifier"
  <2>1. Resources(w) = <<v>>
    BY <1>3 DEF Resources
  <2>2. \A d \in CircuitConfigs : ~Among(Base(d), <<v>>)
    BY NamesDiffer DEF Among
  <2> QED
    BY <1>2, <1>3, <2>1, <2>2
<1>4. CASE strategy[w] # "verifier"
  <2> DEFINE two == <<Base(c), Monolithic(c)>>
  <2>1. Resources(w) = (two \o ts) \o <<v>>
    BY <1>4 DEF Resources, ProverFiles
  <2>2. ts \in Seq(Files) /\ Len(ts) = L
    BY <1>1, <1>2
  <2>3. two \in Seq(Files) /\ Len(two) = 2
    BY <1>2
  <2> HIDE DEF ts, L, v, c
  <2>4. two \o ts \in Seq(Files) /\ Len(two \o ts) = 2 + L
    BY <1>1, <2>2, <2>3
  <2>5. \A i \in 1 .. L : (two \o ts)[2 + i] = ts[i]
    BY <1>1, <2>2, <2>3
  <2>6. (two \o ts)[1] = Base(c) /\ (two \o ts)[2] = Monolithic(c)
    BY <1>1, <2>2, <2>3
  <2>7. Resources(w) \in Seq(Files) /\ Len(Resources(w)) = 3 + L
    BY <1>1, <1>2, <2>1, <2>4
  <2>8. /\ \A i \in 1 .. 2 + L : Resources(w)[i] = (two \o ts)[i]
        /\ Resources(w)[3 + L] = v
    <3> DEFINE r == two \o ts
    <3> HIDE DEF r
    <3>1. r \in Seq(Files) /\ Len(r) = 2 + L /\ Resources(w) = r \o <<v>>
      BY <2>1, <2>4 DEF r
    <3>2. \A i \in 1 .. 2 + L : (r \o <<v>>)[i] = r[i]
      BY <1>1, <1>2, <3>1
    <3>3. (r \o <<v>>)[3 + L] = v
      BY <1>1, <1>2, <3>1
    <3> QED
      BY <3>1, <3>2, <3>3 DEF r
  <2>9. \A i \in 1 .. L : ts[i] = Table(c[i])
    BY DEF ts
  <2>10. ASSUME NEW t \in TablesOf(c)
         PROVE  Among(Table(t), Resources(w))
    <3>1. PICK i \in 1 .. L : c[i] = t
      BY DEF TablesOf, L
    <3>2. 2 + i \in 1 .. 2 + L /\ 2 + i \in 1 .. 3 + L
      BY <1>1
    <3>3. Resources(w)[2 + i] = Table(t)
      BY <2>5, <2>8, <2>9, <3>1, <3>2
    <3> QED
      BY <2>7, <3>2, <3>3 DEF Among
  <2>11. ASSUME NEW d \in CircuitConfigs, Among(Base(d), Resources(w))
         PROVE  d = c
    <3>1. PICK i \in 1 .. 3 + L : Resources(w)[i] = Base(d)
      BY <2>7, <2>11 DEF Among
    <3>2. CASE i = 1
      BY <1>1, <2>6, <2>8, <3>1, <3>2, NamesDiffer
    <3>3. CASE i = 2
      BY <1>1, <2>6, <2>8, <3>1, <3>3, NamesDiffer
    <3>4. CASE i = 3 + L
      BY <2>8, <3>1, <3>4, NamesDiffer DEF v
    <3>5. CASE i \in 3 .. 2 + L
      <4>1. i - 2 \in 1 .. L /\ 2 + (i - 2) = i /\ i \in 1 .. 2 + L
        BY <1>1, <3>5
      <4>2. Resources(w)[i] = (two \o ts)[2 + (i - 2)]
        BY <2>8, <4>1
      <4>3. Resources(w)[i] = Table(c[i - 2])
        BY <2>5, <2>9, <4>1, <4>2
      <4>4. Base(d) # Table(c[i - 2])
        BY NamesDiffer, Zenon
      <4> QED
        BY <3>1, <4>3, <4>4
    <3>6. i = 1 \/ i = 2 \/ i = 3 + L \/ i \in 3 .. 2 + L
      BY <1>1, <3>1
    <3> QED
      BY <3>2, <3>3, <3>4, <3>5, <3>6
  <2> QED
    BY <1>4, <2>7, <2>10, <2>11 DEF c
<1> QED
  BY <1>3, <1>4

LEMMA CacheInitTypes ==
    CacheInit => CacheTypes
<1> SUFFICES ASSUME CacheInit PROVE CacheTypes
  OBVIOUS
<1>1. <<>> \in Seq(Files)
  OBVIOUS
<1>2. toWrite \in [Workers -> Seq(Files)]
  BY <1>1 DEF CacheInit
<1>3. files \in [Files -> {"none", "partial", "full"}] /\ owner \in [Files -> Workers \cup {Nobody}]
  BY DEF CacheInit
<1>4. crashes \in 0 .. MaxCrashes /\ oneByOne \in BOOLEAN
  BY CacheAssumption DEF CacheInit
<1>5. /\ strategy \in [Workers -> Strategies] /\ circuits \in [Workers -> CircuitConfigs]
      /\ wpc \in [Workers -> Starting \cup {"off", "ready"}] /\ missing \in [Workers -> SUBSET Tables]
  BY DEF CacheInit
<1>6. \A w \in Workers : wpc[w] # "write"
  BY DEF CacheInit
<1> QED
  BY <1>2, <1>3, <1>4, <1>5, <1>6 DEF CacheTypes, CacheTypeOK

LEMMA CacheInitUndisturbed ==
    CacheInit => Undisturbed
<1> SUFFICES ASSUME CacheInit PROVE Undisturbed
  OBVIOUS
<1>1. \A w \in Workers : wpc[w] = "off"
  BY DEF CacheInit
<1>2. \A c \in CircuitConfigs : files[Base(c)] = "none"
  BY DEF CacheInit, Files
<1> QED
  BY <1>1, <1>2 DEF Undisturbed, OneStarts, OwnsOpenFile, PutsOwnBase, PutsAllTables, BaseHasTables,
                    ReadyHasTables, Persisting, Starting

LEMMA CacheTypesKept ==
    CacheTypes /\ [CacheNext]_cacheVars => CacheTypes'
<1> SUFFICES ASSUME CacheTypes, [CacheNext]_cacheVars PROVE CacheTypes'
  OBVIOUS
<1> USE DEF CacheTypes, CacheTypeOK
<1>1. CASE UNCHANGED cacheVars
  BY <1>1 DEF cacheVars
<1>2. ASSUME NEW w \in Workers, Start(w) PROVE CacheTypes'
  BY <1>2 DEF Start, Starting
<1>3. ASSUME NEW w \in Workers, Load(w) PROVE CacheTypes'
  <2>1. Resources(w) \in Seq(Files)
    BY ResourcesAre
  <2>2. toWrite' \in [Workers -> Seq(Files)]
    BY <1>3, <2>1 DEF Load
  <2>3. wpc' \in [Workers -> Starting \cup {"off", "ready"}]
    BY <1>3 DEF Load, Starting
  <2>4. \A v \in Workers : wpc'[v] = "write" => v # w /\ wpc[v] = "write" /\ toWrite'[v] = toWrite[v]
    BY <1>3 DEF Load
  <2> QED
    BY <1>3, <2>2, <2>3, <2>4 DEF Load
<1>4. ASSUME NEW w \in Workers, Open(w) PROVE CacheTypes'
  <2>1. Head(toWrite[w]) \in Files
    BY <1>4 DEF Open
  <2>2. files' \in [Files -> {"none", "partial", "full"}] /\ owner' \in [Files -> Workers \cup {Nobody}]
    BY <1>4 DEF Open
  <2>3. wpc' \in [Workers -> Starting \cup {"off", "ready"}]
    BY <1>4 DEF Open, Starting
  <2>4. \A v \in Workers : wpc'[v] = "write" => toWrite'[v] # <<>>
    BY <1>4 DEF Open
  <2> QED
    BY <1>4, <2>2, <2>3, <2>4 DEF Open
<1>5. ASSUME NEW w \in Workers, WriteAll(w) PROVE CacheTypes'
  <2>1. toWrite[w] \in Seq(Files) /\ toWrite[w] # <<>>
    BY <1>5 DEF WriteAll
  <2>2. Head(toWrite[w]) \in Files /\ Tail(toWrite[w]) \in Seq(Files)
    BY <2>1
  <2>3. files' \in [Files -> {"none", "partial", "full"}]
    BY <1>5 DEF WriteAll
  <2>4. toWrite' \in [Workers -> Seq(Files)]
    BY <1>5, <2>2 DEF WriteAll
  <2>5. wpc' \in [Workers -> Starting \cup {"off", "ready"}]
    BY <1>5 DEF WriteAll, Starting
  <2>6. \A v \in Workers : wpc'[v] = "write" => v # w /\ wpc[v] = "write" /\ toWrite'[v] = toWrite[v]
    BY <1>5 DEF WriteAll
  <2> QED
    BY <1>5, <2>3, <2>4, <2>5, <2>6 DEF WriteAll
<1>6. ASSUME NEW w \in Workers, Initialized(w) PROVE CacheTypes'
  BY <1>6 DEF Initialized, Starting
<1>7. ASSUME NEW w \in Workers, Crash(w) PROVE CacheTypes'
  <2>1. toWrite' \in [Workers -> Seq(Files)]
    <3>1. <<>> \in Seq(Files)
      OBVIOUS
    <3> QED
      BY <1>7, <3>1 DEF Crash
  <2>2. crashes' \in 0 .. MaxCrashes
    BY <1>7, CacheAssumption DEF Crash
  <2>3. wpc' \in [Workers -> Starting \cup {"off", "ready"}]
    BY <1>7 DEF Crash, Starting
  <2>4. \A v \in Workers : wpc'[v] = "write" => v # w /\ wpc[v] = "write" /\ toWrite'[v] = toWrite[v]
    BY <1>7 DEF Crash
  <2> QED
    BY <1>7, <2>1, <2>2, <2>3, <2>4 DEF Crash
<1>8. ASSUME NEW w \in Workers, NEW t \in Tables, SegmentProof(w, t) PROVE CacheTypes'
  BY <1>8 DEF SegmentProof
<1> QED
  BY <1>1, <1>2, <1>3, <1>4, <1>5, <1>6, <1>7, <1>8 DEF CacheNext, Initialize, AllReady

\* Starting a worker, when none is starting, disturbs nothing.
LEMMA StartUndisturbed ==
    ASSUME CacheTypes, Undisturbed, oneByOne, NEW w \in Workers, Start(w)
    PROVE  Undisturbed'
<1> USE DEF CacheTypes, CacheTypeOK
<1>1. wpc[w] = "off" /\ wpc'[w] = "load" /\ \A v \in Workers : v # w => wpc'[v] = wpc[v]
  BY DEF Start
<1>2. UNCHANGED <<files, owner, strategy, circuits, toWrite>>
  BY DEF Start
<1>3. \A v \in Workers : wpc[v] \notin Starting
  BY DEF Start
<1>4. \A v \in Workers : (wpc'[v] = "write" <=> wpc[v] = "write") /\ (Persisting(v)' <=> Persisting(v))
  BY <1>1 DEF Persisting
<1>5. \A t : Present(t)' <=> Present(t)
  BY <1>2, <1>4 DEF Present
<1>6. OneStarts'
  BY <1>1, <1>3 DEF OneStarts
<1>7. OwnsOpenFile' /\ PutsOwnBase'
  BY <1>2, <1>4 DEF Undisturbed, OwnsOpenFile, PutsOwnBase, Among
<1>8. PutsAllTables'
  BY <1>2, <1>4, <1>5 DEF Undisturbed, PutsAllTables, Among
<1>9. BaseHasTables'
  BY <1>2, <1>4, <1>5 DEF Undisturbed, BaseHasTables, Among
<1>10. ReadyHasTables'
  BY <1>1, <1>2, <1>5 DEF Undisturbed, ReadyHasTables
<1> QED
  BY <1>6, <1>7, <1>8, <1>9, <1>10 DEF Undisturbed

\* A worker that finds its base circuits also finds the tables: nobody else is starting.
LEMMA LoadUndisturbed ==
    ASSUME CacheTypes, Undisturbed, NEW w \in Workers, Load(w)
    PROVE  Undisturbed'
<1> USE DEF CacheTypes, CacheTypeOK
<1>1. wpc[w] = "load" /\ \A v \in Workers : v # w => wpc'[v] = wpc[v] /\ toWrite'[v] = toWrite[v]
  BY DEF Load
<1>2. UNCHANGED <<files, owner, strategy, circuits>>
  BY DEF Load
<1>3. wpc'[w] \in {"ready", "put"}
  BY DEF Load
<1>4. \A v \in Workers : Persisting(v) => v # w /\ Persisting(v)' /\ toWrite'[v] = toWrite[v]
  BY <1>1 DEF Persisting
<1>5. \A v \in Workers : wpc'[v] = "write" <=> wpc[v] = "write"
  BY <1>1, <1>3
<1>6. \A t : Present(t) => Present(t)'
  BY <1>1, <1>2, <1>5 DEF Present
<1>7. \A v \in Workers : wpc[v] \in Starting => v = w
  BY <1>1 DEF Undisturbed, OneStarts, Starting
<1>8. OneStarts'
  BY <1>1, <1>7 DEF OneStarts
<1>9. OwnsOpenFile'
  BY <1>1, <1>2, <1>5 DEF Undisturbed, OwnsOpenFile
<1>10. BaseHasTables'
  <2> SUFFICES ASSUME NEW c \in CircuitConfigs, files[Base(c)] = "full", NEW t \in TablesOf(c)
               PROVE  \/ Present(t)'
                      \/ \E v \in Workers : Persisting(v)' /\ circuits'[v] = c /\ Among(Table(t), toWrite'[v])
    BY <1>2 DEF BaseHasTables, Among
  <2>1. \/ Present(t)
        \/ \E v \in Workers : Persisting(v) /\ circuits[v] = c /\ Among(Table(t), toWrite[v])
    BY DEF Undisturbed, BaseHasTables
  <2> QED
    BY <1>2, <1>4, <1>6, <2>1
<1>11. CASE strategy[w] = "none" \/ Readable(Wanted(w))
  <2>1. wpc'[w] = "ready" /\ toWrite' = toWrite
    BY <1>11 DEF Load
  <2>2. \A v \in Workers : Persisting(v)' => Persisting(v)
    BY <1>1, <2>1 DEF Persisting
  <2>3. PutsOwnBase'
    BY <1>2, <2>1, <2>2 DEF Undisturbed, PutsOwnBase, Among
  <2>4. PutsAllTables'
    BY <1>2, <1>6, <2>1, <2>2 DEF Undisturbed, PutsAllTables, Among
  <2>5. ASSUME strategy[w] = "on-demand", NEW t \in TablesOf(circuits[w]) PROVE Present(t)
    <3>1. files[Base(circuits[w])] = "full" /\ circuits[w] \in CircuitConfigs
      BY <1>11, <2>5 DEF Wanted, Readable
    <3>2. ASSUME NEW v \in Workers, Persisting(v) PROVE FALSE
      BY <1>1, <1>7, <3>2 DEF Persisting, Starting
    <3> QED
      BY <2>5, <3>1, <3>2 DEF Undisturbed, BaseHasTables
  <2>6. ReadyHasTables'
    <3> SUFFICES ASSUME NEW v \in Workers, wpc'[v] = "ready", strategy[v] = "on-demand",
                        NEW t \in TablesOf(circuits[v])
                 PROVE  Present(t)
      BY <1>2, <1>6 DEF ReadyHasTables
    <3>1. CASE v = w
      BY <2>5, <3>1
    <3>2. CASE v # w
      BY <1>1, <3>2 DEF Undisturbed, ReadyHasTables
    <3> QED
      BY <3>1, <3>2
  <2> QED
    BY <1>8, <1>9, <1>10, <2>3, <2>4, <2>6 DEF Undisturbed
<1>12. CASE ~(strategy[w] = "none" \/ Readable(Wanted(w)))
  <2>1. wpc'[w] = "put" /\ toWrite'[w] = Resources(w)
    BY <1>12 DEF Load
  <2>2. \A v \in Workers : v # w /\ Persisting(v)' => Persisting(v)
    BY <1>1 DEF Persisting
  <2>3. PutsOwnBase'
    <3> SUFFICES ASSUME NEW v \in Workers, Persisting(v)', NEW c \in CircuitConfigs, Among(Base(c), toWrite'[v])
                 PROVE  c = circuits[v] /\ strategy[v] # "verifier"
      BY <1>2 DEF PutsOwnBase, Among
    <3>1. CASE v = w
      BY <2>1, <3>1, ResourcesAre
    <3>2. CASE v # w
      BY <1>1, <2>2, <3>2 DEF Undisturbed, PutsOwnBase
    <3> QED
      BY <3>1, <3>2
  <2>4. PutsAllTables'
    <3> SUFFICES ASSUME NEW v \in Workers, Persisting(v)', strategy[v] # "verifier", NEW t \in TablesOf(circuits[v])
                 PROVE  Present(t)' \/ Among(Table(t), toWrite'[v])
      BY <1>2 DEF PutsAllTables, Among
    <3>1. CASE v = w
      BY <2>1, <3>1, ResourcesAre
    <3>2. CASE v # w
      BY <1>1, <1>6, <2>2, <3>2 DEF Undisturbed, PutsAllTables
    <3> QED
      BY <3>1, <3>2
  <2>5. ReadyHasTables'
    BY <1>1, <1>2, <1>6, <2>1 DEF Undisturbed, ReadyHasTables
  <2> QED
    BY <1>8, <1>9, <1>10, <2>3, <2>4, <2>5 DEF Undisturbed
<1> QED
  BY <1>11, <1>12

\* The file that is opened counts as present while its writer holds it.
LEMMA OpenUndisturbed ==
    ASSUME CacheTypes, Undisturbed, NEW w \in Workers, Open(w)
    PROVE  Undisturbed'
<1> USE DEF CacheTypes, CacheTypeOK
<1> DEFINE f == Head(toWrite[w])
<1>1. f \in Files /\ wpc[w] = "put" /\ wpc'[w] = "write" /\ \A v \in Workers : v # w => wpc'[v] = wpc[v]
  BY DEF Open
<1>2. UNCHANGED <<strategy, circuits, toWrite>>
  BY DEF Open
<1>3. /\ files'[f] = "partial" /\ owner'[f] = w
      /\ \A g \in Files : g # f => files'[g] = files[g]
  BY <1>1 DEF Open
<1> HIDE DEF f
<1>4. \A v \in Workers : Persisting(v)' <=> Persisting(v)
  BY <1>1 DEF Persisting
<1>5. \A v \in Workers : wpc[v] \in Starting => v = w
  BY <1>1 DEF Undisturbed, OneStarts, Starting
<1>6. \A t \in Tables : Table(t) \in Files
  BY DEF Files
<1>7. ASSUME NEW t \in Tables, Present(t) PROVE Present(t)'
  <2>1. CASE Table(t) = f
    BY <1>1, <1>2, <2>1 DEF Present, f
  <2>2. CASE Table(t) # f
    BY <1>1, <1>2, <1>3, <1>6, <1>7, <2>2 DEF Present
  <2> QED
    BY <2>1, <2>2
<1>8. \A c \in CircuitConfigs : \A t \in TablesOf(c) : t \in Tables
  BY CacheAssumption DEF TablesOf
<1>9. OneStarts'
  BY <1>1, <1>5 DEF OneStarts
<1>10. OwnsOpenFile'
  BY <1>1, <1>2, <1>3, <1>5 DEF OwnsOpenFile, Starting, f
<1>11. PutsOwnBase'
  BY <1>2, <1>4 DEF Undisturbed, PutsOwnBase, Among
<1>12. PutsAllTables'
  BY <1>2, <1>4, <1>7, <1>8 DEF Undisturbed, PutsAllTables, Among
<1>13. BaseHasTables'
  <2> SUFFICES ASSUME NEW c \in CircuitConfigs, files'[Base(c)] = "full", NEW t \in TablesOf(c)
               PROVE  \/ Present(t)'
                      \/ \E v \in Workers : Persisting(v)' /\ circuits'[v] = c /\ Among(Table(t), toWrite'[v])
    BY DEF BaseHasTables, Among
  <2>1. Base(c) \in Files
    BY DEF Files
  <2>2. files[Base(c)] = "full"
    BY <1>3, <2>1
  <2>3. \/ Present(t)
        \/ \E v \in Workers : Persisting(v) /\ circuits[v] = c /\ Among(Table(t), toWrite[v])
    BY <2>2 DEF Undisturbed, BaseHasTables
  <2> QED
    BY <1>2, <1>4, <1>7, <1>8, <2>3
<1>14. ReadyHasTables'
  BY <1>1, <1>2, <1>7, <1>8 DEF Undisturbed, ReadyHasTables
<1> QED
  BY <1>9, <1>10, <1>11, <1>12, <1>13, <1>14 DEF Undisturbed

\* A file that is written is complete, since nobody else has truncated it.
LEMMA WriteUndisturbed ==
    ASSUME CacheTypes, Undisturbed, NEW w \in Workers, WriteAll(w)
    PROVE  Undisturbed'
<1> USE DEF CacheTypes, CacheTypeOK
<1> DEFINE f == Head(toWrite[w])
<1>1. wpc[w] = "write" /\ wpc'[w] = "put" /\ \A v \in Workers : v # w => wpc'[v] = wpc[v] /\ toWrite'[v] = toWrite[v]
  BY DEF WriteAll
<1>2. toWrite[w] \in Seq(Files) /\ toWrite[w] # <<>> /\ f \in Files
  BY <1>1
<1>3. toWrite'[w] = Tail(toWrite[w])
  BY DEF WriteAll
<1>4. UNCHANGED <<owner, strategy, circuits>>
  BY DEF WriteAll
<1>5. owner[f] = w
  BY <1>1 DEF Undisturbed, OwnsOpenFile
<1>6. files'[f] = "full" /\ \A g \in Files : g # f => files'[g] = files[g]
  BY <1>2, <1>5 DEF WriteAll
<1>7. Among(f, toWrite[w]) /\ \A g : Among(g, toWrite[w]) => g = f \/ Among(g, toWrite'[w])
  BY <1>2, <1>3, AmongTail
<1>8. \A g : Among(g, toWrite'[w]) => Among(g, toWrite[w])
  BY <1>2, <1>3, AmongTail
<1>9. \A v \in Workers : Persisting(v)' <=> Persisting(v)
  BY <1>1 DEF Persisting
<1>10. \A v \in Workers : wpc[v] \in Starting => v = w
  BY <1>1 DEF Undisturbed, OneStarts, Starting
<1>11. \A c \in CircuitConfigs : \A t \in TablesOf(c) : t \in Tables /\ Table(t) \in Files
  BY CacheAssumption DEF TablesOf, Files
<1>12. \A c \in CircuitConfigs : Base(c) \in Files
  BY DEF Files
<1>13. ASSUME NEW t, Table(t) \in Files, Present(t) PROVE Present(t)'
  <2>1. CASE files[Table(t)] = "full"
    BY <1>6, <1>13, <2>1 DEF Present
  <2>2. CASE files[Table(t)] # "full"
    <3>1. PICK v \in Workers : wpc[v] = "write" /\ Head(toWrite[v]) = Table(t)
      BY <1>13, <2>2 DEF Present
    <3>2. v = w
      BY <1>10, <3>1 DEF Starting
    <3> QED
      BY <1>6, <3>1, <3>2 DEF Present
  <2> QED
    BY <2>1, <2>2
<1>14. ASSUME NEW t, Table(t) \in Files, Among(Table(t), toWrite[w])
       PROVE  Present(t)' \/ Among(Table(t), toWrite'[w])
  BY <1>6, <1>7, <1>14 DEF Present
<1> HIDE DEF f
<1>15. OneStarts'
  BY <1>1, <1>10 DEF OneStarts
<1>16. OwnsOpenFile'
  BY <1>1, <1>10 DEF OwnsOpenFile, Starting
<1>17. PutsOwnBase'
  <2> SUFFICES ASSUME NEW v \in Workers, Persisting(v)', NEW c \in CircuitConfigs, Among(Base(c), toWrite'[v])
               PROVE  c = circuits[v] /\ strategy[v] # "verifier"
    BY <1>4 DEF PutsOwnBase, Among
  <2>1. Persisting(v) /\ Among(Base(c), toWrite[v])
    BY <1>1, <1>8, <1>9
  <2> QED
    BY <2>1 DEF Undisturbed, PutsOwnBase
<1>18. ASSUME NEW v \in Workers, Persisting(v), strategy[v] # "verifier", NEW t \in TablesOf(circuits[v])
       PROVE  Present(t)' \/ Among(Table(t), toWrite'[v])
  <2>1. Present(t) \/ Among(Table(t), toWrite[v])
    BY <1>18 DEF Undisturbed, PutsAllTables
  <2>2. Table(t) \in Files
    BY <1>11, <1>18
  <2>3. v = w \/ toWrite'[v] = toWrite[v]
    BY <1>1
  <2> QED
    BY <1>13, <1>14, <2>1, <2>2, <2>3
<1>19. PutsAllTables'
  BY <1>4, <1>9, <1>18 DEF PutsAllTables, Among
<1>20. BaseHasTables'
  <2> SUFFICES ASSUME NEW c \in CircuitConfigs, files'[Base(c)] = "full", NEW t \in TablesOf(c)
               PROVE  \/ Present(t)'
                      \/ \E v \in Workers : Persisting(v)' /\ circuits[v] = c /\ Among(Table(t), toWrite'[v])
    BY <1>4 DEF BaseHasTables, Among
  <2>1. CASE Base(c) = f
    <3>1. Persisting(w) /\ Persisting(w)'
      BY <1>1 DEF Persisting
    <3>2. c = circuits[w] /\ strategy[w] # "verifier"
      BY <1>7, <2>1, <3>1 DEF Undisturbed, PutsOwnBase
    <3> QED
      BY <1>18, <3>1, <3>2
  <2>2. CASE Base(c) # f
    <3>1. files[Base(c)] = "full"
      BY <1>6, <1>12, <2>2
    <3>2. \/ Present(t)
          \/ \E v \in Workers : Persisting(v) /\ circuits[v] = c /\ Among(Table(t), toWrite[v])
      BY <3>1 DEF Undisturbed, BaseHasTables
    <3>3. Table(t) \in Files
      BY <1>11
    <3>4. CASE Present(t)
      BY <1>13, <3>3, <3>4
    <3>5. ASSUME NEW v \in Workers, Persisting(v), circuits[v] = c, Among(Table(t), toWrite[v])
          PROVE  Present(t)' \/ (Persisting(v)' /\ Among(Table(t), toWrite'[v]))
      BY <1>1, <1>9, <1>14, <3>3, <3>5
    <3> QED
      BY <3>2, <3>4, <3>5
  <2> QED
    BY <2>1, <2>2
<1>21. ReadyHasTables'
  BY <1>1, <1>4, <1>11, <1>13 DEF Undisturbed, ReadyHasTables
<1> QED
  BY <1>15, <1>16, <1>17, <1>19, <1>20, <1>21 DEF Undisturbed

\* A worker that has put everything leaves nothing that is only about to be written.
LEMMA InitializedUndisturbed ==
    ASSUME CacheTypes, Undisturbed, NEW w \in Workers, Initialized(w)
    PROVE  Undisturbed'
<1> USE DEF CacheTypes, CacheTypeOK
<1>1. wpc[w] = "put" /\ wpc'[w] = "ready" /\ \A v \in Workers : v # w => wpc'[v] = wpc[v]
  BY DEF Initialized
<1>2. UNCHANGED <<files, owner, strategy, circuits, toWrite>>
  BY DEF Initialized
<1>3. \A g : ~Among(g, toWrite[w])
  <2>1. toWrite[w] = <<>>
    BY DEF Initialized
  <2> QED
    BY <2>1 DEF Among
<1>4. \A v \in Workers : (wpc'[v] = "write" <=> wpc[v] = "write") /\ (Persisting(v)' <=> Persisting(v) /\ v # w)
  BY <1>1 DEF Persisting
<1>5. \A t : Present(t)' <=> Present(t)
  BY <1>2, <1>4 DEF Present
<1>6. OneStarts'
  BY <1>1 DEF Undisturbed, OneStarts, Starting
<1>7. OwnsOpenFile' /\ PutsOwnBase'
  BY <1>2, <1>4 DEF Undisturbed, OwnsOpenFile, PutsOwnBase, Among
<1>8. PutsAllTables'
  BY <1>2, <1>4, <1>5 DEF Undisturbed, PutsAllTables, Among
<1>9. BaseHasTables'
  <2> SUFFICES ASSUME NEW c \in CircuitConfigs, files[Base(c)] = "full", NEW t \in TablesOf(c)
               PROVE  \/ Present(t)
                      \/ \E v \in Workers : Persisting(v)' /\ circuits[v] = c /\ Among(Table(t), toWrite[v])
    BY <1>2, <1>5 DEF BaseHasTables, Among
  <2>1. \/ Present(t)
        \/ \E v \in Workers : Persisting(v) /\ circuits[v] = c /\ Among(Table(t), toWrite[v])
    BY DEF Undisturbed, BaseHasTables
  <2> QED
    BY <1>3, <1>4, <2>1
<1>10. ReadyHasTables'
  <2> SUFFICES ASSUME NEW v \in Workers, wpc'[v] = "ready", strategy[v] = "on-demand",
                      NEW t \in TablesOf(circuits[v])
               PROVE  Present(t)
    BY <1>2, <1>5 DEF ReadyHasTables
  <2>1. CASE v = w
    <3>1. Persisting(w) /\ strategy[w] # "verifier"
      BY <1>1, <2>1 DEF Persisting
    <3> QED
      BY <1>3, <2>1, <3>1 DEF Undisturbed, PutsAllTables
  <2>2. CASE v # w
    BY <1>1, <2>2 DEF Undisturbed, ReadyHasTables
  <2> QED
    BY <2>1, <2>2
<1> QED
  BY <1>6, <1>7, <1>8, <1>9, <1>10 DEF Undisturbed

LEMMA SameFilesUndisturbed ==
    ASSUME Undisturbed, UNCHANGED <<files, owner, strategy, circuits, wpc, toWrite>>
    PROVE  Undisturbed'
BY DEF Undisturbed, OneStarts, OwnsOpenFile, PutsOwnBase, PutsAllTables, BaseHasTables, ReadyHasTables,
       Present, Persisting, Among

LEMMA CacheInvKept ==
    CacheInv /\ [CacheNext]_cacheVars => CacheInv'
<1> SUFFICES ASSUME CacheInv, [CacheNext]_cacheVars PROVE CacheInv'
  OBVIOUS
<1>1. CacheTypes /\ CacheTypes'
  BY CacheTypesKept DEF CacheInv
<1>2. crashes \in Nat
  BY <1>1, CacheAssumption DEF CacheTypes, CacheTypeOK
<1> SUFFICES ASSUME oneByOne', crashes' = 0 PROVE Undisturbed'
  BY <1>1 DEF CacheInv
<1>3. CASE UNCHANGED cacheVars
  BY <1>3, SameFilesUndisturbed DEF cacheVars, CacheInv
<1>4. ASSUME NEW w \in Workers, Initialize(w) PROVE Undisturbed'
  <2>1. oneByOne /\ crashes = 0
    BY <1>4 DEF Initialize, Start, Load, Open, WriteAll, Initialized
  <2>2. Undisturbed
    BY <2>1 DEF CacheInv
  <2> QED
    BY <1>1, <1>4, <2>1, <2>2, StartUndisturbed, LoadUndisturbed, OpenUndisturbed, WriteUndisturbed,
       InitializedUndisturbed DEF Initialize
<1>5. ASSUME NEW w \in Workers, Crash(w) PROVE Undisturbed'
  BY <1>2, <1>5 DEF Crash
<1>6. ASSUME NEW w \in Workers, NEW t \in Tables, SegmentProof(w, t) PROVE Undisturbed'
  BY <1>6, SameFilesUndisturbed DEF SegmentProof, CacheInv
<1> QED
  BY <1>3, <1>4, <1>5, <1>6 DEF CacheNext, AllReady

\* What a step does to a file that can be read.
LEMMA OnlyWritersCut ==
    ASSUME CacheTypes, [CacheNext]_cacheVars
    PROVE  [CutByWriter]_cacheVars
<1> USE DEF CacheTypes, CacheTypeOK
<1> SUFFICES ASSUME NEW g \in Files, files[g] = "full", files'[g] # "full"
             PROVE  \E w \in Workers : wpc'[w] = "write" /\ owner'[g] = w
  BY DEF CutByWriter
<1>1. ASSUME files' = files PROVE FALSE
  BY <1>1
<1>2. ASSUME NEW w \in Workers, Open(w) PROVE wpc'[w] = "write" /\ owner'[g] = w
  BY <1>2 DEF Open
<1>3. ASSUME NEW w \in Workers, WriteAll(w) PROVE FALSE
  BY <1>3 DEF WriteAll
<1> QED
  BY <1>1, <1>2, <1>3 DEF CacheNext, Initialize, Start, Load, Initialized, SegmentProof, Crash, AllReady, cacheVars

\* TablesComplete after every step of ProverStateManager::initialize and
\* segment_proof_on_demand, and CutByWriter of the step: for any number of
\* workers, configurations and tables.
THEOREM CacheIsRight ==
    CacheSpec => CacheRight
<1>1. CacheInit => CacheInv
  BY CacheInitTypes, CacheInitUndisturbed DEF CacheInv
<1>2. CacheInv => TablesComplete
  BY DEF CacheInv, Undisturbed, ReadyHasTables, TablesComplete, Present, Readable
<1>3. CacheInv /\ [CacheNext]_cacheVars => [CutByWriter]_cacheVars
  BY OnlyWritersCut DEF CacheInv
<1>4. CacheInv /\ CacheInv' /\ [CacheNext]_cacheVars => [TablesComplete' /\ CutByWriter]_cacheVars
  <2> SUFFICES ASSUME CacheInv, CacheInv', [CacheNext]_cacheVars
               PROVE  [TablesComplete' /\ CutByWriter]_cacheVars
    OBVIOUS
  <2>1. TablesComplete'
    BY <1>2 DEF CacheInv, Undisturbed, ReadyHasTables, TablesComplete, Present, Readable
  <2> QED
    BY <1>3, <2>1
<1> QED
  BY <1>1, <1>4, CacheInvKept, PTL DEF CacheSpec, CacheRight

-----------------------------------------------------------------------------
(***************************************************************************)
(* The block interval.  What an argument is parsed into remembers the      *)
(* argument, and a followed stream ends with its current position.         *)
(***************************************************************************)

Argument(a) == a \in {b \in Args : "sep" \in DOMAIN b => (b.sep = "" => b.rhs = Empty)}

\* The argument with a bounded interval, and the interval it is documented to be.
BoundedBy(a, i) ==
    /\ a.lhs \in Int /\ a.rhs \in Int
    /\ \/ a.sep = "" /\ i = Single(a.lhs)
       \/ a.sep = ".." /\ i = Range(a.lhs, a.rhs)
       \/ a.sep = "..=" /\ i = Range(a.lhs, a.rhs + 1)

Following(i) == \E n \in Int : i = FollowFrom(n)

FollowInv ==
    /\ ipc = "poll"
    /\ yielded \in Seq(Int)
    /\ \A i \in 1 .. Len(yielded) : yielded[i] <= tip /\ (i > 1 => yielded[i] = yielded[i - 1] + 1)
    /\ yielded # <<>> => yielded[Len(yielded)] = current

IntervalInv ==
    /\ tip \in Int /\ current \in Int
    /\ Argument(arg)
    /\ interval \in {Err, SingleHash} \/ BoundedBy(arg, interval) \/ Following(interval)
    /\ ipc = "parse" => interval = Err /\ yielded = <<>>
    /\ ipc = "bounded" => BoundedBy(arg, interval)
    /\ ipc = "stop" /\ BoundedBy(arg, interval) => yielded = Bounded(interval)
    /\ Following(interval) => FollowInv
    /\ ipc = "poll" => Following(interval)

\* Every argument is an error, a hash, or parsed into the interval it is documented to be.
LEMMA ParsedRight ==
    ASSUME NEW a, Argument(a)
    PROVE  new(a) \in {Err, SingleHash} \/ BoundedBy(a, new(a)) \/ Following(new(a))
<1>1. CASE a = [hash |-> TRUE]
  <2>1. "hash" \in DOMAIN a
    BY <1>1
  <2> QED
    BY <2>1 DEF new
<1>2. CASE a \in [lhs : Parts, sep : {"", "..", "..=", "..."}, rhs : Parts]
  <2>1. "hash" \notin DOMAIN a /\ "sep" \in DOMAIN a
    <3>1. a = [lhs |-> a.lhs, sep |-> a.sep, rhs |-> a.rhs]
      BY <1>2
    <3>2. DOMAIN a = {"lhs", "sep", "rhs"}
      BY <3>1
    <3> QED
      BY <3>2
  <2>2. a.lhs \in Int /\ a.rhs \in Int /\ a.sep \in {"", "..", "..=", "..."}
    <3>1. Parts \subseteq Int
      BY IntervalAssumption DEF Parts, Numbers, Empty, Junk
    <3>2. a.lhs \in Parts /\ a.rhs \in Parts /\ a.sep \in {"", "..", "..=", "..."}
      BY <1>2
    <3> QED
      BY <3>1, <3>2
  <2>3. \/ parse_range_gen(a, "..=", TRUE) = Err
        \/ BoundedBy(a, parse_range_gen(a, "..=", TRUE))
    <3>1. CASE a.sep = "..="
      <4>1. Pieces(a, "..=") = <<a.lhs, a.rhs>>
        BY <3>1 DEF Pieces
      <4> QED
        BY <2>2, <3>1, <4>1 DEF parse_range_gen, BoundedBy
    <3>2. CASE a.sep # "..="
      <4>1. Pieces(a, "..=")[2] = None
        <5> DEFINE x == IF a.sep = "" THEN a.lhs ELSE Junk
        <5>1. Pieces(a, "..=") = <<x, None>>
          BY <3>2 DEF Pieces
        <5> HIDE DEF x
        <5> QED
          BY <5>1
      <4>2. ~IsNumber(Pieces(a, "..=")[2])
        BY <4>1 DEF None, IsNumber
      <4> QED
        BY <4>2 DEF parse_range_gen
    <3> QED
      BY <3>1, <3>2
  <2>4. \/ parse_range_gen(a, "..", FALSE) = Err
        \/ BoundedBy(a, parse_range_gen(a, "..", FALSE))
    <3>1. CASE a.sep = ".."
      <4>1. Pieces(a, "..") = <<a.lhs, a.rhs>>
        BY <3>1 DEF Pieces
      <4> QED
        BY <2>2, <3>1, <4>1 DEF parse_range_gen, BoundedBy
    <3>2. CASE a.sep # ".."
      <4>1. Pieces(a, "..")[2] \in {None, Junk}
        <5> DEFINE x == IF a.sep = "" THEN a.lhs ELSE Junk
        <5>1. Pieces(a, "..") = <<a.lhs, Junk>> \/ Pieces(a, "..") = <<x, None>>
          BY <3>2 DEF Pieces
        <5> HIDE DEF x
        <5> QED
          BY <5>1
      <4>2. ~IsNumber(Pieces(a, "..")[2])
        BY <4>1 DEF None, Junk, IsNumber
      <4> QED
        BY <4>2 DEF parse_range_gen
    <3> QED
      BY <3>1, <3>2
  <2>5. parse_follow(a) = Err \/ Following(parse_follow(a))
    <3> DEFINE f == FollowPieces(a)
               left == {i \in {1, 2} : f[i] # Empty}
    <3>1. f[1] \in Int /\ f[2] \in Int
      <4> DEFINE r == IF a.sep = ".." \/ (a.rhs = Empty /\ a.sep = "..=") THEN a.rhs ELSE Junk
      <4>1. r = a.rhs \/ r = Junk
        OBVIOUS
      <4>2. f = <<a.lhs, r>>
        BY DEF FollowPieces
      <4> HIDE DEF f, r
      <4>3. r \in Int
        <5>1. a.rhs \in Int
          BY <2>2
        <5>2. Junk \in Int
          BY DEF Junk
        <5> QED
          BY <4>1, <5>1, <5>2, Zenon
      <4>4. f[1] = a.lhs /\ f[2] = r
        BY <4>2
      <4> QED
        BY <2>2, <4>3, <4>4
    <3>2. ASSUME NEW i \in left, left = {i} PROVE f[CHOOSE j \in left : TRUE] \in Int
      <4>1. (CHOOSE j \in left : TRUE) \in left
        BY <3>2
      <4>2. (CHOOSE j \in left : TRUE) \in {1, 2}
        BY <4>1
      <4> QED
        BY <3>1, <4>2
    <3> HIDE DEF f
    <3> QED
      BY <3>2 DEF parse_follow, Following, f
  <2>6. a.sep = "" /\ IsNumber(a.lhs) => BoundedBy(a, Single(a.lhs))
    BY <2>2 DEF BoundedBy
  <2> QED
    BY <2>1, <2>3, <2>4, <2>5, <2>6 DEF new
<1> QED
  BY <1>1, <1>2 DEF Argument, Args

\* The kinds of interval, told apart.
LEMMA KindsDiffer ==
    ASSUME NEW a, NEW i
    PROVE  /\ i = Err => i.kind = "error"
           /\ i = SingleHash => i.kind = "hash"
           /\ BoundedBy(a, i) => i.kind \in {"single", "range"}
           /\ Following(i) => i.kind = "follow" /\ i.start \in Int
<1>1. i = Err => i.kind = "error"
  BY DEF Err
<1>2. i = SingleHash => i.kind = "hash"
  BY DEF SingleHash
<1>3. \A s, e : Range(s, e).kind = "range"
  BY DEF Range
<1>4. \A n : Single(n).kind = "single"
  BY DEF Single
<1>5. \A n : FollowFrom(n).kind = "follow" /\ FollowFrom(n).start = n
  BY DEF FollowFrom
<1>6. BoundedBy(a, i) => i.kind \in {"single", "range"}
  BY <1>3, <1>4 DEF BoundedBy
<1>7. Following(i) => i.kind = "follow" /\ i.start \in Int
  BY <1>5 DEF Following
<1> QED
  BY <1>1, <1>2, <1>6, <1>7

LEMMA IntervalInitHolds == IntervalInit => IntervalInv
<1> SUFFICES ASSUME IntervalInit PROVE IntervalInv
  OBVIOUS
<1>1. interval = Err /\ interval.kind = "error"
  BY KindsDiffer DEF IntervalInit
<1>2. ~BoundedBy(arg, interval) /\ ~Following(interval)
  BY <1>1, KindsDiffer
<1>3. Argument(arg)
  BY DEF IntervalInit, Argument
<1>4. current = 0 /\ yielded = <<>> /\ ipc = "parse" /\ tip \in Numbers
  BY Zenon DEF IntervalInit
<1>5. tip \in Int /\ current \in Int
  BY <1>4, IntervalAssumption DEF Numbers
<1> HIDE DEF IntervalInit
<1> QED
  BY <1>1, <1>2, <1>3, <1>4, <1>5 DEF IntervalInv

LEMMA IntervalInvKept == IntervalInv /\ [IntervalNext]_intervalVars => IntervalInv'
<1> SUFFICES ASSUME IntervalInv, [IntervalNext]_intervalVars PROVE IntervalInv'
  OBVIOUS
<1>1. CASE UNCHANGED intervalVars
  BY <1>1 DEF intervalVars, IntervalInv, FollowInv
<1>2. CASE Parse
  <2>1. interval' = new(arg) /\ arg' = arg /\ tip' = tip /\ yielded' = <<>>
    BY <1>2 DEF Parse, IntervalInv
  <2>2. interval' \in {Err, SingleHash} \/ BoundedBy(arg, interval') \/ Following(interval')
    BY <2>1, ParsedRight DEF IntervalInv
  <2>3. CASE interval' \in {Err, SingleHash}
    <3>1. interval'.kind \in {"error", "hash"}
      BY <2>3, KindsDiffer
    <3>2. ipc' = "stop" /\ current' = 0
      BY <1>2, <3>1 DEF Parse
    <3>3. ~BoundedBy(arg, interval') /\ ~Following(interval')
      BY <3>1, KindsDiffer
    <3> QED
      BY <2>1, <2>3, <3>2, <3>3 DEF IntervalInv
  <2>4. CASE BoundedBy(arg, interval')
    <3>1. interval'.kind \in {"single", "range"}
      BY <2>4, KindsDiffer
    <3>2. ipc' = "bounded" /\ current' = 0
      BY <1>2, <3>1 DEF Parse
    <3>3. ~Following(interval')
      BY <3>1, KindsDiffer
    <3> QED
      BY <2>1, <2>4, <3>2, <3>3 DEF IntervalInv
  <2>5. CASE Following(interval')
    <3>1. interval'.kind = "follow" /\ interval'.start \in Int
      BY <2>5, KindsDiffer
    <3>2. ipc' = "poll" /\ current' \in Int
      BY <1>2, <3>1 DEF Parse
    <3>3. FollowInv'
      BY <2>1, <3>2 DEF FollowInv
    <3> QED
      BY <2>1, <2>5, <3>2, <3>3 DEF IntervalInv
  <2> QED
    BY <2>2, <2>3, <2>4, <2>5
<1>3. CASE Drain
  <2>1. BoundedBy(arg, interval) /\ yielded' = Bounded(interval) /\ ipc' = "stop"
    BY <1>3 DEF Drain, IntervalInv
  <2>2. ~Following(interval)
    BY <2>1, KindsDiffer
  <2> QED
    BY <1>3, <2>1, <2>2 DEF Drain, IntervalInv
<1>4. CASE Poll
  <2>1. Following(interval) /\ FollowInv
    BY <1>4 DEF Poll, IntervalInv
  <2>2. tip \in Int /\ current \in Int /\ current' = current + 1 /\ current' <= tip
    BY <1>4 DEF Poll, IntervalInv
  <2>3. UNCHANGED <<arg, interval, tip, ipc>> /\ ipc = "poll"
    BY <1>4 DEF Poll
  <2>4. yielded \in Seq(Int) /\ yielded' = Append(yielded, current')
    BY <1>4, <2>1 DEF Poll, FollowInv
  <2>5. /\ yielded' \in Seq(Int) /\ Len(yielded') = Len(yielded) + 1 /\ Len(yielded) \in Nat
        /\ \A i \in 1 .. Len(yielded) : yielded'[i] = yielded[i]
        /\ yielded'[Len(yielded) + 1] = current'
    BY <2>2, <2>4
  <2>6. ASSUME NEW i \in 1 .. Len(yielded')
        PROVE  yielded'[i] <= tip /\ (i > 1 => yielded'[i] = yielded'[i - 1] + 1)
    <3>1. CASE i \in 1 .. Len(yielded)
      <4>1. i > 1 => i - 1 \in 1 .. Len(yielded)
        BY <2>5, <3>1
      <4> QED
        BY <2>1, <2>5, <3>1, <4>1 DEF FollowInv
    <3>2. CASE i = Len(yielded) + 1
      <4>1. CASE i > 1
        <5>1. yielded # <<>> /\ i - 1 = Len(yielded) /\ i - 1 \in 1 .. Len(yielded)
          BY <2>4, <2>5, <3>2, <4>1
        <5>2. yielded'[i - 1] = current
          BY <2>1, <2>5, <5>1 DEF FollowInv
        <5> QED
          BY <2>2, <2>5, <3>2, <5>2
      <4>2. CASE ~(i > 1)
        BY <2>2, <2>5, <3>2, <4>2
      <4> QED
        BY <4>1, <4>2
    <3> QED
      BY <2>5, <3>1, <3>2
  <2>7. FollowInv'
    BY <2>3, <2>5, <2>6 DEF FollowInv
  <2> QED
    BY <2>1, <2>2, <2>3, <2>7 DEF IntervalInv
<1>5. CASE Mine
  <2>1. Following(interval) /\ FollowInv /\ tip \in Int /\ tip' = tip + 1
    BY <1>5 DEF Mine, IntervalInv
  <2>2. UNCHANGED <<arg, interval, current, yielded, ipc>> /\ ipc = "poll"
    BY <1>5 DEF Mine
  <2>3. FollowInv'
    BY <2>1, <2>2 DEF FollowInv
  <2> QED
    BY <2>1, <2>2, <2>3 DEF IntervalInv
<1> QED
  BY <1>1, <1>2, <1>3, <1>4, <1>5 DEF IntervalNext, Stopped

\* The bounded stream of interval i is the blocks of S in rising order.
Yields(i, S) ==
    /\ {Bounded(i)[k] : k \in DOMAIN Bounded(i)} = S
    /\ \A k, l \in DOMAIN Bounded(i) : k < l => Bounded(i)[k] < Bounded(i)[l]

\* A bounded stream of the interval of an argument.
LEMMA BoundedYields ==
    ASSUME NEW a, NEW i, BoundedBy(a, i)
    PROVE  Yields(i, Documented(a))
<1>0. a.lhs \in Int /\ a.rhs \in Int
  BY DEF BoundedBy
<1>1. ASSUME NEW s \in Int, NEW e \in Int
      PROVE  Yields(Range(s, e), s .. (e - 1))
  <2>1. Bounded(Range(s, e)) = [k \in 1 .. (e - s) |-> s + k - 1]
    BY DEF Bounded, Range
  <2> DEFINE y == [k \in 1 .. (e - s) |-> s + k - 1]
  <2>2. ASSUME NEW n \in s .. (e - 1) PROVE \E k \in 1 .. (e - s) : y[k] = n
    <3>1. n - s + 1 \in 1 .. (e - s)
      OBVIOUS
    <3>2. y[n - s + 1] = n
      BY <3>1
    <3> QED
      BY <3>1, <3>2
  <2>3. {y[k] : k \in 1 .. (e - s)} = s .. (e - 1)
    <3>1. \A k \in 1 .. (e - s) : y[k] \in s .. (e - 1)
      OBVIOUS
    <3> HIDE DEF y
    <3> QED
      BY <2>2, <3>1
  <2>4. \A k, l \in 1 .. (e - s) : k < l => y[k] < y[l]
    OBVIOUS
  <2>5. DOMAIN y = 1 .. (e - s) /\ Bounded(Range(s, e)) = y
    BY <2>1
  <2> HIDE DEF y
  <2> QED
    BY <2>3, <2>4, <2>5 DEF Yields
<1>2. CASE a.sep = "" /\ i = Single(a.lhs)
  <2>1. Bounded(i) = <<a.lhs>> /\ Documented(a) = a.lhs .. a.lhs
    BY <1>2 DEF Bounded, Single, Documented
  <2>2. \A n \in Int : n .. n = {n}
    OBVIOUS
  <2>3. {<<a.lhs>>[k] : k \in DOMAIN <<a.lhs>>} = {a.lhs} /\ DOMAIN <<a.lhs>> = {1}
    OBVIOUS
  <2>4. \A k, l \in {1} : ~(k < l)
    OBVIOUS
  <2> QED
    BY <1>0, <2>1, <2>2, <2>3, <2>4 DEF Yields
<1>3. CASE a.sep = ".." /\ i = Range(a.lhs, a.rhs)
  <2>1. Documented(a) = a.lhs .. (a.rhs - 1)
    BY <1>3 DEF Documented
  <2> QED
    BY <1>0, <1>1, <1>3, <2>1, Zenon
<1>4. CASE a.sep = "..=" /\ i = Range(a.lhs, a.rhs + 1)
  <2>1. Documented(a) = a.lhs .. a.rhs
    BY <1>4 DEF Documented
  <2>2. a.rhs + 1 \in Int /\ (a.rhs + 1) - 1 = a.rhs
    BY <1>0
  <2> QED
    BY <1>0, <1>1, <1>4, <2>1, <2>2, Zenon
<1> QED
  BY <1>2, <1>3, <1>4 DEF BoundedBy

\* IntervalRight for every block number an argument may name and however long
\* the chain that is followed grows.
THEOREM IntervalIsRight == IntervalSpec => []IntervalRight
<1>1. IntervalInv => IntervalRight
  <2> SUFFICES ASSUME IntervalInv PROVE BoundedIsDocumented /\ FollowsInOrder
    BY DEF IntervalRight
  <2>1. BoundedIsDocumented
    <3> SUFFICES ASSUME ipc = "stop", interval.kind \in {"single", "range"}
                 PROVE  /\ {yielded[i] : i \in DOMAIN yielded} = Documented(arg)
                        /\ \A i, j \in DOMAIN yielded : i < j => yielded[i] < yielded[j]
      BY DEF BoundedIsDocumented
    <3>1. BoundedBy(arg, interval)
      BY KindsDiffer DEF IntervalInv
    <3>2. yielded = Bounded(interval)
      BY <3>1 DEF IntervalInv
    <3> QED
      BY <3>1, <3>2, BoundedYields DEF Yields
  <2>2. FollowsInOrder
    <3> SUFFICES ASSUME interval.kind = "follow" PROVE FollowInv
      BY DEF FollowsInOrder, FollowInv
    <3> QED
      BY KindsDiffer DEF IntervalInv
  <2> QED
    BY <2>1, <2>2
<1> QED
  BY <1>1, IntervalInitHolds, IntervalInvKept, PTL DEF IntervalSpec

-----------------------------------------------------------------------------
(***************************************************************************)
(* The prover input.  The previous hashes are arithmetic on block numbers. *)
(* The rest rests on an order: a block's trace is asked for before any     *)
(* other call of the block, and after the traces of the blocks before it,  *)
(* so that nobody can have put the block into the cache without its        *)
(* transactions.                                                           *)
(***************************************************************************)
Trace(t) == <<t, "trace", t>>
Begun(c) == task[c] # Idle

\* The blocks whose hashes are looked for: Newest(t) down, HowMany(t) of them.
Newest(t) == t - 1 + OddOffset(t)
HowMany(t) == IF Newest(t) + 1 < PrevCount + 1 THEN Newest(t) + 1 ELSE PrevCount + 1

LEMMA OffsetType ==
    ASSUME NEW t \in Nat \ {0}
    PROVE  /\ OddOffset(t) \in {0, 1} /\ Newest(t) \in Nat /\ Newest(t) % 2 = 1
           /\ HowMany(t) \in Nat /\ HowMany(t) <= Newest(t) + 1 /\ HowMany(t) <= PrevCount + 1
           /\ (t + OddOffset(t)) % 2 = 0 /\ PrevCount \in Nat /\ PrevCount > 0 /\ PrevCount % 2 = 0
<1>1. OddOffset(t) \in {0, 1}
  BY DEF OddOffset
<1>2. Newest(t) \in Nat
  BY <1>1 DEF Newest, OddOffset
<1>3. Newest(t) % 2 = 1
  BY DEF Newest, OddOffset
<1>4. (t + OddOffset(t)) % 2 = 0
  BY DEF OddOffset
<1>5. PrevCount \in Nat /\ PrevCount > 0 /\ PrevCount % 2 = 0
  BY InputAssumption
<1>6. HowMany(t) \in Nat /\ HowMany(t) <= Newest(t) + 1 /\ HowMany(t) <= PrevCount + 1
  BY <1>2, <1>5 DEF HowMany
<1> QED
  BY <1>1, <1>2, <1>3, <1>4, <1>5, <1>6

LEMMA PreviousAre ==
    ASSUME NEW t \in Nat \ {0}
    PROVE  /\ PreviousNumbers(t) = [i \in 1 .. HowMany(t) |-> Newest(t) + 1 - i]
           /\ Len(PreviousNumbers(t)) = HowMany(t)
           /\ \A i \in 1 .. HowMany(t) : PreviousNumbers(t)[i] = Newest(t) + 1 - i
<1>1. PreviousNumbers(t) = [i \in 1 .. HowMany(t) |-> Newest(t) + 1 - i]
  BY DEF PreviousNumbers, HowMany, Newest
<1> QED
  BY <1>1, OffsetType

\* The pairs collected: number and hash agree, and the last may have no number.
LEMMA CollectedAre ==
    ASSUME NEW t \in Nat \ {0}
    PROVE  /\ HowMany(t) <= Len(Collected(t)) /\ Len(Collected(t)) <= HowMany(t) + 1
           /\ \A k \in 1 .. HowMany(t) : Collected(t)[k] = <<Hash(Newest(t) + 1 - k), Newest(t) + 1 - k>>
           /\ HowMany(t) + 1 <= Len(Collected(t)) => Collected(t)[HowMany(t) + 1][2] = NoNumber
<1> DEFINE h == HowMany(t)
           from == Newest(t)
           ns == PreviousNumbers(t)
           m == (h + 1) \div 2
           From(k) == 2 * ((k + 1) \div 2) - 1
           pair(k) == IF k % 2 = 1 THEN <<Hash(ns[From(k)]), ns[From(k)]>>
                      ELSE <<ParentHash(ns[From(k)]), IF From(k) < h THEN ns[From(k) + 1] ELSE NoNumber>>
<1>1. h \in Nat /\ from \in Nat /\ h <= from + 1
  BY OffsetType
<1>2. Len(ns) = h /\ \A i \in 1 .. h : ns[i] = from + 1 - i
  BY PreviousAre
<1>3. Collected(t) = [k \in 1 .. 2 * m |-> pair(k)]
  BY <1>2 DEF Collected
<1> HIDE DEF h, from, ns
<1>4. m \in Nat /\ h <= 2 * m /\ 2 * m <= h + 1
  BY <1>1
<1>5. Len(Collected(t)) = 2 * m
  <2> HIDE DEF pair, m
  <2> QED
    BY <1>3, <1>4
<1>6. ASSUME NEW k \in 1 .. h
      PROVE  Collected(t)[k] = <<Hash(from + 1 - k), from + 1 - k>>
  <2>1. k \in 1 .. 2 * m
    BY <1>1, <1>4
  <2>2. Collected(t)[k] = pair(k)
    <3> HIDE DEF pair, m
    <3> QED
      BY <1>3, <2>1
  <2>3. CASE k % 2 = 1
    <3>1. From(k) = k
      BY <1>1, <2>3
    <3>2. ns[From(k)] = from + 1 - k
      BY <1>2, <3>1
    <3> HIDE DEF From
    <3> QED
      BY <2>2, <2>3, <3>2
  <2>4. CASE k % 2 # 1
    <3>1. From(k) = k - 1 /\ k - 1 \in 1 .. h /\ From(k) + 1 = k /\ From(k) < h
      BY <1>1, <2>4
    <3>2. ns[From(k)] = from + 2 - k /\ ns[From(k) + 1] = from + 1 - k
      <4>1. ns[k - 1] = from + 1 - (k - 1) /\ ns[k] = from + 1 - k
        BY <1>2, <3>1
      <4>2. from + 1 - (k - 1) = from + 2 - k
        BY <1>1
      <4> QED
        BY <3>1, <4>1, <4>2
    <3>3. from + 2 - k # 0 /\ (from + 2 - k) - 1 = from + 1 - k
      BY <1>1
    <3>4. ParentHash(from + 2 - k) = Hash(from + 1 - k)
      BY <3>3 DEF ParentHash
    <3>5. pair(k) = <<ParentHash(ns[From(k)]), ns[From(k) + 1]>>
      <4> HIDE DEF From
      <4> QED
        BY <2>4, <3>1
    <3> HIDE DEF From, pair
    <3> QED
      BY <2>2, <3>2, <3>4, <3>5
  <2> QED
    BY <2>3, <2>4
<1>7. ASSUME h + 1 <= 2 * m
      PROVE  Collected(t)[h + 1][2] = NoNumber
  <2>1. h + 1 \in 1 .. 2 * m /\ (h + 1) % 2 # 1 /\ From(h + 1) = h
    BY <1>1, <1>7
  <2>2. Collected(t)[h + 1] = pair(h + 1)
    <3> HIDE DEF pair, m
    <3> QED
      BY <1>3, <2>1
  <2>3. ~(From(h + 1) < h)
    BY <1>1, <2>1
  <2>4. pair(h + 1) = <<ParentHash(ns[From(h + 1)]), NoNumber>>
    <3> HIDE DEF From
    <3> QED
      BY <2>1, <2>3
  <2> HIDE DEF pair, From
  <2> QED
    BY <2>2, <2>4
<1> QED
  BY <1>4, <1>5, <1>6, <1>7 DEF h, from

LEMMA KeptAre ==
    ASSUME NEW t \in Nat \ {0}
    PROVE  /\ Kept(t) = {i \in OddOffset(t) + 1 .. OddOffset(t) + PrevCount : i <= HowMany(t)}
           /\ \A i \in Kept(t) : /\ Collected(t)[i][1] = Hash(t + OddOffset(t) - i)
                                 /\ Collected(t)[i][2] = t + OddOffset(t) - i
<1> DEFINE h == HowMany(t)
           odd == OddOffset(t)
<1>1. h \in Nat /\ odd \in {0, 1} /\ Newest(t) = t + odd - 1 /\ Newest(t) \in Nat /\ h <= Newest(t) + 1
  BY OffsetType DEF Newest
<1>2. PrevCount \in Nat
  BY OffsetType
<1>3. \A k \in 1 .. h : Collected(t)[k] = <<Hash(Newest(t) + 1 - k), Newest(t) + 1 - k>>
  BY CollectedAre
<1>4. h <= Len(Collected(t)) /\ Len(Collected(t)) <= h + 1
  BY CollectedAre
<1>5. h + 1 <= Len(Collected(t)) => Collected(t)[h + 1][2] = NoNumber
  BY CollectedAre
<1>6. Len(Collected(t)) \in Nat
  <2>1. Len(Collected(t)) = 2 * ((Len(PreviousNumbers(t)) + 1) \div 2)
    <3> DEFINE m2 == 2 * ((Len(PreviousNumbers(t)) + 1) \div 2)
    <3>1. m2 \in Nat
      BY <1>1, PreviousAre
    <3> QED
      BY <3>1 DEF Collected
  <2> QED
    BY <1>1, <2>1, PreviousAre
<1> HIDE DEF h, odd
<1>7. ASSUME NEW k \in 1 .. h
      PROVE  Collected(t)[k][1] = Hash(t + odd - k) /\ Collected(t)[k][2] = t + odd - k /\ t + odd - k >= 0
  <2>1. Newest(t) + 1 - k = t + odd - k /\ t + odd - k >= 0
    BY <1>1
  <2> QED
    BY <1>3, <2>1
<1>8. ASSUME NEW i \in odd + 1 .. odd + PrevCount
      PROVE  (i <= Len(Collected(t)) /\ Collected(t)[i][2] # NoNumber) <=> i <= h
  <2>1. CASE i <= h
    <3>1. i \in 1 .. h /\ i <= Len(Collected(t))
      BY <1>1, <1>2, <1>4, <1>6, <2>1
    <3>2. Collected(t)[i][2] # NoNumber
      BY <1>1, <1>7, <3>1 DEF NoNumber
    <3> QED
      BY <2>1, <3>1, <3>2
  <2>2. CASE ~(i <= h)
    <3>1. i <= Len(Collected(t)) => i = h + 1
      BY <1>1, <1>2, <1>4, <1>6, <2>2
    <3> QED
      BY <1>5, <2>2, <3>1
  <2> QED
    BY <2>1, <2>2
<1>9. Kept(t) = {i \in odd + 1 .. odd + PrevCount : i <= h}
  <2>1. Kept(t) = {i \in odd + 1 .. odd + PrevCount : i <= Len(Collected(t)) /\ Collected(t)[i][2] # NoNumber}
    BY DEF Kept, odd
  <2> QED
    BY <1>8, <2>1
<1>10. \A i \in Kept(t) : i \in 1 .. h
  BY <1>1, <1>2, <1>9
<1> QED
  BY <1>7, <1>9, <1>10 DEF h, odd

\* PrevHashesRight of one block, whatever its number and the number of hashes.
LEMMA PreviousRight ==
    ASSUME NEW t \in Nat \ {0}
    PROVE  /\ \A i \in Kept(t) : Slot(t, Collected(t)[i][2]) \in 0 .. (PrevCount - 1)
           /\ \A k \in 0 .. (PrevCount - 1) :
                 PrevHashes(t)[k] = IF t - PrevCount + k >= 0 THEN Hash(t - PrevCount + k) ELSE Zero
<1> DEFINE h == HowMany(t)
           odd == OddOffset(t)
<1>1. odd \in {0, 1} /\ Newest(t) = t + odd - 1 /\ PrevCount \in Nat /\ PrevCount > 0
  BY OffsetType DEF Newest
<1>2. h = IF t + odd < PrevCount + 1 THEN t + odd ELSE PrevCount + 1
  BY <1>1 DEF HowMany
<1>3. Kept(t) = {i \in odd + 1 .. odd + PrevCount : i <= h}
  BY KeptAre
<1>4. \A i \in Kept(t) : Collected(t)[i][1] = Hash(t + odd - i) /\ Collected(t)[i][2] = t + odd - i
  BY KeptAre
<1> HIDE DEF h, odd
<1>5. \A i \in Kept(t) : i \in odd + 1 .. odd + PrevCount /\ i \in Int
  BY <1>1, <1>3
<1>6. ASSUME NEW i \in Kept(t) PROVE Slot(t, Collected(t)[i][2]) = PrevCount + odd - i
  BY <1>1, <1>4, <1>5 DEF Slot
<1>7. ASSUME NEW i \in Kept(t) PROVE Slot(t, Collected(t)[i][2]) \in 0 .. (PrevCount - 1)
  BY <1>1, <1>5, <1>6
<1>8. ASSUME NEW k \in 0 .. (PrevCount - 1)
      PROVE  PrevHashes(t)[k] = IF t - PrevCount + k >= 0 THEN Hash(t - PrevCount + k) ELSE Zero
  <2> DEFINE here == {i \in Kept(t) : Slot(t, Collected(t)[i][2]) = k}
             i0 == PrevCount + odd - k
             last == CHOOSE i \in here : \A j \in here : j <= i
  <2>1. PrevHashes(t)[k] = IF here = {} THEN Zero ELSE Collected(t)[last][1]
    BY DEF PrevHashes
  <2>2. i0 \in odd + 1 .. odd + PrevCount /\ i0 \in Int
    BY <1>1
  <2>3. i0 <= h <=> t - PrevCount + k >= 0
    BY <1>1, <1>2
  <2>4. i0 \in Kept(t) <=> t - PrevCount + k >= 0
    BY <1>3, <2>2, <2>3
  <2>5. \A i \in here : i = i0
    <3> SUFFICES ASSUME NEW i \in Kept(t), Slot(t, Collected(t)[i][2]) = k PROVE i = i0
      OBVIOUS
    <3> QED
      BY <1>1, <1>5, <1>6
  <2>6. i0 \in Kept(t) => i0 \in here
    <3> SUFFICES ASSUME i0 \in Kept(t) PROVE Slot(t, Collected(t)[i0][2]) = k
      OBVIOUS
    <3>1. Slot(t, Collected(t)[i0][2]) = PrevCount + odd - i0
      BY <1>6
    <3> QED
      BY <1>1, <3>1
  <2>7. CASE t - PrevCount + k >= 0
    <3>1. here = {i0} /\ i0 \in Kept(t)
      BY <2>4, <2>5, <2>6, <2>7
    <3>2. last = i0
      <4>1. \A j \in here : j <= i0
        BY <2>2, <2>5
      <4> HIDE DEF here, i0
      <4>2. \E i \in here : \A j \in here : j <= i
        BY <3>1, <4>1
      <4>3. last \in here
        BY <4>2
      <4> QED
        BY <3>1, <4>3
    <3>3. Collected(t)[i0][1] = Hash(t + odd - i0)
      BY <1>4, <3>1
    <3>4. t + odd - i0 = t - PrevCount + k
      BY <1>1
    <3> HIDE DEF here, last, i0
    <3> QED
      BY <2>1, <2>7, <3>1, <3>2, <3>3, <3>4
  <2>8. CASE ~(t - PrevCount + k >= 0)
    <3>1. here = {}
      BY <2>4, <2>5, <2>8
    <3> HIDE DEF here, last
    <3> QED
      BY <2>1, <2>8, <3>1
  <2> QED
    BY <2>7, <2>8
<1> QED
  BY <1>7, <1>8

-----------------------------------------------------------------------------
TaskStates ==
    [state : {"idle", "sent", "done"}, tries : 0 .. MaxRetries, got : Kinds \cup {"none"}]

InputTypes ==
    /\ first \in 1 .. MaxFirst /\ length \in 1 .. MaxLength
    /\ cache \in [Chain -> Kinds \cup {"none"}]
    /\ task \in [AllCalls -> TaskStates]
    /\ errors \in Nat

IdleIsIdle == \A c \in AllCalls : task[c].state = "idle" => task[c] = Idle

\* Nobody has fetched a block of the interval before its trace was begun.
CachedIsBegun == \A n \in InputBlocks : cache[n] # "none" => Begun(Trace(n))

TracesInOrder == \A t, u \in InputBlocks : u <= t /\ Begun(Trace(t)) => Begun(Trace(u))

TraceFirst == \A t \in InputBlocks : \A c \in Calls(t) : Begun(c) => Begun(Trace(t))

TraceIsFull == \A t \in InputBlocks : task[Trace(t)].state = "done" => task[Trace(t)].got = "full"

TriesAreErrors == \A c \in AllCalls : task[c].tries <= errors

InputInv ==
    /\ InputTypes /\ IdleIsIdle /\ CachedIsBegun /\ TracesInOrder /\ TraceFirst /\ TraceIsFull
    /\ TriesAreErrors /\ FailsAfterRetries

\* A call of block t looks up t or a block before it.
LEMMA CallsAre ==
    ASSUME InputTypes, NEW t \in InputBlocks
    PROVE  /\ t \in Nat \ {0} /\ t \in Chain
           /\ Trace(t) \in Calls(t) /\ <<t, "other", t>> \in Calls(t)
           /\ \A c \in Calls(t) : c \in AllCalls /\ c[1] = t /\ c[3] \in Chain /\ c[3] <= t
           /\ \A c \in Calls(t) : c[2] \in {"trace", "other", "parent", "prev"}
           /\ \A c \in Calls(t) : c[2] = "trace" => c = Trace(t)
<1>1. t \in Nat \ {0} /\ t <= MaxFirst + MaxLength /\ MaxFirst \in Nat /\ MaxLength \in Nat
  BY InputAssumption DEF InputTypes, InputBlocks
<1>2. t \in Chain /\ t - 1 \in Chain /\ t - 1 <= t
  BY <1>1 DEF Chain
<1>3. ASSUME NEW n \in Asked(t) PROVE n \in Chain /\ n <= t
  <2>1. PICK i \in DOMAIN PreviousNumbers(t) : n = PreviousNumbers(t)[i]
    BY <1>3 DEF Asked
  <2>2. i \in 1 .. HowMany(t) /\ n = Newest(t) + 1 - i
    BY <1>1, <2>1, PreviousAre
  <2>3. Newest(t) <= t /\ Newest(t) \in Nat /\ HowMany(t) \in Nat /\ HowMany(t) <= Newest(t) + 1
    <3>1. OddOffset(t) \in {0, 1} /\ Newest(t) \in Nat /\ HowMany(t) \in Nat /\ HowMany(t) <= Newest(t) + 1
      BY <1>1, OffsetType
    <3>2. Newest(t) <= t
      BY <1>1, <3>1 DEF Newest
    <3> QED
      BY <3>1, <3>2
  <2>4. n \in Nat /\ n <= t
    BY <1>1, <2>2, <2>3
  <2> QED
    BY <1>1, <2>4 DEF Chain
<1>4. Trace(t) \in Calls(t) /\ <<t, "other", t>> \in Calls(t)
  BY DEF Calls, Trace
<1>5. ASSUME NEW c \in Calls(t)
      PROVE  /\ c[1] = t /\ c[3] \in Chain /\ c[3] <= t
             /\ c[2] \in {"trace", "other", "parent", "prev"} /\ (c[2] = "trace" => c = Trace(t))
  <2>1. CASE c = <<t, "trace", t>>
    BY <1>1, <1>2, <2>1 DEF Trace
  <2>2. CASE c = <<t, "other", t>>
    BY <1>1, <1>2, <2>2
  <2>3. CASE c = <<t, "parent", t - 1>>
    BY <1>1, <1>2, <2>3
  <2>4. ASSUME NEW n \in Asked(t), c = <<t, "prev", n>>
        PROVE  c[1] = t /\ c[3] \in Chain /\ c[3] <= t /\ c[2] = "prev"
    BY <1>3, <2>4
  <2> QED
    BY <2>1, <2>2, <2>3, <2>4 DEF Calls
<1>6. \A c \in Calls(t) : c \in AllCalls
  BY DEF AllCalls
<1> QED
  BY <1>1, <1>2, <1>4, <1>5, <1>6

LEMMA CallOf ==
    ASSUME InputTypes, NEW c \in AllCalls
    PROVE  c[1] \in InputBlocks /\ c \in Calls(c[1])
<1>1. PICK t \in InputBlocks : c \in Calls(t)
  BY DEF AllCalls
<1>2. c[1] = t
  BY <1>1, CallsAre
<1> QED
  BY <1>1, <1>2

LEMMA BegunStates ==
    ASSUME InputTypes, NEW c \in AllCalls
    PROVE  task[c].state # "idle" => Begun(c)
BY DEF Begun, Idle

\* What must have been begun before a call is made.
LEMMA ReadyAfter ==
    ASSUME InputInv, NEW c \in AllCalls, Ready(c)
    PROVE  \/ c = Trace(c[1]) /\ (c[1] = first \/ (c[1] - 1 \in InputBlocks /\ Begun(Trace(c[1] - 1))))
           \/ Begun(Trace(c[1]))
<1> DEFINE t == c[1]
<1>1. InputTypes /\ t \in InputBlocks /\ c \in Calls(t)
  BY CallOf DEF InputInv
<1>2. t \in Nat \ {0} /\ c[2] \in {"trace", "other", "parent", "prev"} /\ (c[2] = "trace" => c = Trace(t))
  BY <1>1, CallsAre
<1>3. Trace(t) \in AllCalls /\ <<t, "other", t>> \in AllCalls /\ <<t, "other", t>> \in Calls(t)
  BY <1>1, CallsAre
<1>4. CASE c[2] = "trace"
  <2>1. CASE t = first
    BY <1>2, <1>4, <2>1
  <2>2. CASE t # first
    <3>1. t - 1 \in InputBlocks
      BY <1>1, <2>2, InputAssumption DEF InputTypes, InputBlocks
    <3>2. Trace(t - 1) \in Calls(t - 1) /\ Trace(t - 1) \in AllCalls
      BY <1>1, <3>1, CallsAre
    <3>3. (\A d \in Calls(t - 1) : Done(d)) \/ task[Trace(t - 1)] # Idle
      BY <1>4, <2>2 DEF Ready, Trace
    <3>4. Begun(Trace(t - 1))
      BY <1>1, <3>2, <3>3, BegunStates DEF Done, Begun
    <3> QED
      BY <1>2, <1>4, <3>1, <3>4
  <2> QED
    BY <2>1, <2>2
<1>5. CASE c[2] = "other"
  BY <1>5 DEF Ready, Begun, Trace
<1>6. CASE c[2] = "parent"
  <2>1. task[Trace(t)].state = "done"
    BY <1>6 DEF Ready, Traced, Done, Trace
  <2> QED
    BY <1>1, <1>3, <2>1, BegunStates
<1>7. CASE c[2] = "prev"
  <2>1. task[<<t, "other", t>>].state = "done"
    BY <1>7 DEF Ready, Done
  <2>2. Begun(<<t, "other", t>>)
    BY <1>1, <1>3, <2>1, BegunStates
  <2> QED
    BY <1>1, <1>3, <2>2 DEF InputInv, TraceFirst
<1> QED
  BY <1>2, <1>4, <1>5, <1>6, <1>7

\* A call that may be made, or has been, moves on.
LEMMA CallMoves ==
    ASSUME InputInv, NEW c \in AllCalls, Begun(c) \/ Ready(c), NEW next \in TaskStates,
           task' = [task EXCEPT ![c] = next], next.state # "idle", next.tries <= errors',
           \A t \in InputBlocks : c = Trace(t) /\ next.state = "done" => next.got = "full",
           first' = first, length' = length, errors' \in Nat, errors' >= errors
    PROVE  /\ task' \in [AllCalls -> TaskStates]
           /\ \A d \in AllCalls : Begun(d) => Begun(d)'
           /\ IdleIsIdle' /\ TracesInOrder' /\ TraceFirst' /\ TraceIsFull' /\ TriesAreErrors'
<1>1. InputTypes /\ task \in [AllCalls -> TaskStates]
  BY DEF InputInv, InputTypes
<1>2. InputBlocks' = InputBlocks /\ AllCalls' = AllCalls
  BY DEF InputBlocks, AllCalls
<1>3. task'[c] = next /\ \A d \in AllCalls : d # c => task'[d] = task[d]
  BY <1>1
<1>4. task' \in [AllCalls -> TaskStates]
  BY <1>1
<1>5. next # Idle
  BY DEF Idle
<1>6. \A d \in AllCalls : Begun(d)' <=> d = c \/ Begun(d)
  BY <1>3, <1>5 DEF Begun
<1>7. \A t \in InputBlocks : Trace(t) \in AllCalls /\ Trace(t) \in Calls(t) /\ t \in Nat
  BY <1>1, CallsAre
<1>8. IdleIsIdle'
  BY <1>2, <1>3 DEF IdleIsIdle, InputInv
<1>9. TriesAreErrors'
  <2> SUFFICES ASSUME NEW d \in AllCalls PROVE task'[d].tries <= errors'
    BY <1>2 DEF TriesAreErrors
  <2>1. task[d].tries \in Nat /\ task[d].tries <= errors /\ errors \in Nat
    BY <1>1, InputAssumption DEF InputInv, TriesAreErrors, InputTypes, TaskStates
  <2>2. CASE d = c
    BY <1>3, <2>2
  <2>3. CASE d # c
    <3>1. task'[d] = task[d]
      BY <1>3, <2>3
    <3> QED
      BY <2>1, <3>1
  <2> QED
    BY <2>2, <2>3
<1>10. TraceIsFull'
  <2> SUFFICES ASSUME NEW t \in InputBlocks, task'[Trace(t)].state = "done" PROVE task'[Trace(t)].got = "full"
    BY <1>2 DEF TraceIsFull, Trace
  <2>1. CASE Trace(t) = c
    BY <1>3, <2>1
  <2>2. CASE Trace(t) # c
    BY <1>3, <1>7, <2>2 DEF InputInv, TraceIsFull
  <2> QED
    BY <2>1, <2>2
<1>11. c[1] \in InputBlocks /\ c \in Calls(c[1])
  BY <1>1, CallOf
<1>12. \A t \in InputBlocks : \A d \in Calls(t) : d \in AllCalls /\ d[1] = t
  BY <1>1, CallsAre
<1>13. TracesInOrder'
  <2> SUFFICES ASSUME NEW t \in InputBlocks, NEW u \in InputBlocks, u <= t, Begun(Trace(t))'
               PROVE  Begun(Trace(u))'
    BY <1>2 DEF TracesInOrder
  <2>1. Trace(t) \in AllCalls /\ Trace(u) \in AllCalls /\ t \in Nat /\ u \in Nat
    BY <1>7
  <2>2. CASE Begun(Trace(t))
    BY <1>6, <2>1, <2>2 DEF InputInv, TracesInOrder
  <2>3. CASE ~Begun(Trace(t))
    <3>1. c = Trace(t) /\ Ready(c) /\ c[1] = t
      BY <1>6, <1>7, <1>12, <2>1, <2>3
    <3>2. t = first \/ (t - 1 \in InputBlocks /\ Begun(Trace(t - 1)))
      BY <2>3, <3>1, ReadyAfter
    <3>3. CASE u = t
      BY <3>3
    <3>4. CASE u # t
      <4>1. u <= t - 1 /\ t # first
        BY <2>1, <3>4 DEF InputBlocks, InputInv, InputTypes
      <4>2. Begun(Trace(u))
        BY <3>2, <4>1 DEF InputInv, TracesInOrder
      <4> QED
        BY <1>6, <2>1, <4>2
    <3> QED
      BY <3>3, <3>4
  <2> QED
    BY <2>2, <2>3
<1>14. TraceFirst'
  <2> SUFFICES ASSUME NEW t \in InputBlocks, NEW d \in Calls(t), Begun(d)' PROVE Begun(Trace(t))'
    BY <1>2 DEF TraceFirst
  <2>1. Trace(t) \in AllCalls /\ d \in AllCalls /\ d[1] = t
    BY <1>7, <1>12
  <2>2. CASE Begun(d)
    BY <1>6, <2>1, <2>2 DEF InputInv, TraceFirst
  <2>3. CASE ~Begun(d)
    <3>1. d = c /\ Ready(c) /\ c[1] = t
      BY <1>6, <2>1, <2>3
    <3>2. c = Trace(t) \/ Begun(Trace(t))
      BY <3>1, ReadyAfter
    <3> QED
      BY <1>6, <2>1, <3>2
  <2> QED
    BY <2>2, <2>3
<1> QED
  BY <1>4, <1>6, <1>8, <1>9, <1>10, <1>13, <1>14

LEMMA InputInitHolds == InputInit => InputInv
<1> SUFFICES ASSUME InputInit PROVE InputInv
  OBVIOUS
<1>1. first \in 1 .. MaxFirst /\ length \in 1 .. MaxLength /\ errors = 0 /\ failed = {}
  BY DEF InputInit
<1>2. Idle \in TaskStates /\ Idle.tries = 0 /\ Idle.state = "idle"
  BY InputAssumption DEF Idle, TaskStates
<1>3. task = [c \in AllCalls |-> Idle]
  BY DEF InputInit
<1>4. PICK checkpoint \in 0 .. (first - 1) :
         cache = [n \in Chain |-> IF n = checkpoint THEN "hashes" ELSE "none"]
  BY DEF InputInit
<1>5. InputTypes
  BY <1>1, <1>2, <1>3, <1>4 DEF InputTypes, Kinds
<1>6. \A t \in InputBlocks : Trace(t) \in AllCalls /\ t \in Chain
  BY <1>5, CallsAre
<1>7. \A c \in AllCalls : task[c] = Idle
  BY <1>3
<1>8. CachedIsBegun
  <2> SUFFICES ASSUME NEW n \in InputBlocks PROVE cache[n] = "none"
    BY DEF CachedIsBegun
  <2>1. n # checkpoint /\ n \in Chain
    BY <1>1, <1>4, <1>6, InputAssumption DEF InputBlocks
  <2> QED
    BY <1>4, <2>1
<1>9. TracesInOrder /\ TraceIsFull
  BY <1>2, <1>6, <1>7 DEF TracesInOrder, TraceIsFull, Begun
<1>10. TraceFirst
  <2>1. \A t \in InputBlocks : \A c \in Calls(t) : c \in AllCalls
    BY <1>5, CallsAre
  <2> QED
    BY <1>7, <2>1 DEF TraceFirst, Begun
<1>11. IdleIsIdle /\ TriesAreErrors
  BY <1>1, <1>2, <1>7 DEF IdleIsIdle, TriesAreErrors
<1> QED
  BY <1>1, <1>5, <1>8, <1>9, <1>10, <1>11 DEF InputInv, FailsAfterRetries

\* When the cache is not written, nothing that was cached is there too early.
LEMMA CachedKept ==
    ASSUME InputInv, task' \in [AllCalls -> TaskStates], \A d \in AllCalls : Begun(d) => Begun(d)',
           first' = first, length' = length, cache' = cache
    PROVE  /\ errors' \in Nat => InputTypes'
           /\ CachedIsBegun'
           /\ errors' = errors /\ failed' = failed => FailsAfterRetries'
<1>1. InputBlocks' = InputBlocks /\ AllCalls' = AllCalls
  BY DEF InputBlocks, AllCalls
<1>2. errors' \in Nat => InputTypes'
  BY <1>1 DEF InputInv, InputTypes
<1>3. \A t \in InputBlocks : Trace(t) \in AllCalls
  BY CallsAre DEF InputInv
<1>4. CachedIsBegun'
  BY <1>1, <1>3 DEF InputInv, CachedIsBegun
<1> QED
  BY <1>2, <1>4 DEF InputInv, FailsAfterRetries

\* A look-up in the cache finds a block of the interval only after its trace was begun.
LEMMA BeginKeeps ==
    ASSUME InputInv, NEW c \in AllCalls, Begin(c)
    PROVE  InputInv'
<1> DEFINE next == IF cache[c[3]] # "none" THEN Got(cache[c[3]]) ELSE [task[c] EXCEPT !.state = "sent"]
<1>1. InputTypes /\ c[1] \in InputBlocks /\ c \in Calls(c[1])
  BY CallOf DEF InputInv
<1>2. c[3] \in Chain /\ cache[c[3]] \in Kinds \cup {"none"} /\ task[c] \in TaskStates
  BY <1>1, CallsAre DEF InputTypes
<1>3. UNCHANGED <<first, length, cache, errors, failed>> /\ task' = [task EXCEPT ![c] = next]
  BY DEF Begin
<1>4. Ready(c) /\ task[c] = Idle
  BY DEF Begin, InputInv, IdleIsIdle
<1>5. errors \in Nat /\ task[c].tries <= errors
  BY DEF InputInv, InputTypes, TriesAreErrors
<1>6. next \in TaskStates /\ next.state # "idle" /\ next.tries <= errors
  <2>1. CASE cache[c[3]] # "none"
    <3>1. next = Got(cache[c[3]])
      BY <2>1
    <3>2. next \in TaskStates /\ next.state = "done" /\ next.tries = 0
      BY <1>2, <3>1, InputAssumption DEF Got, TaskStates
    <3> QED
      BY <1>5, <3>2
  <2>2. CASE cache[c[3]] = "none"
    <3>1. next = [task[c] EXCEPT !.state = "sent"]
      BY <2>2
    <3> QED
      BY <1>2, <1>5, <3>1 DEF TaskStates
  <2> QED
    BY <2>1, <2>2
<1>7. ASSUME NEW t \in InputBlocks, c = Trace(t) PROVE next.state = "sent"
  <2>1. c[3] = t
    BY <1>7 DEF Trace
  <2>2. cache[c[3]] = "none"
    BY <1>4, <1>7, <2>1 DEF InputInv, CachedIsBegun, Begun
  <2> QED
    BY <1>2, <2>2 DEF TaskStates
<1> HIDE DEF next
<1>8. /\ task' \in [AllCalls -> TaskStates]
      /\ \A d \in AllCalls : Begun(d) => Begun(d)'
      /\ IdleIsIdle' /\ TracesInOrder' /\ TraceFirst' /\ TraceIsFull' /\ TriesAreErrors'
  <2>1. \A t \in InputBlocks : c = Trace(t) /\ next.state = "done" => next.got = "full"
    BY <1>7
  <2>2. errors' \in Nat /\ errors' >= errors /\ next.tries <= errors'
    BY <1>3, <1>5, <1>6
  <2> QED
    BY <1>3, <1>4, <1>6, <2>1, <2>2, CallMoves
<1>9. InputTypes' /\ CachedIsBegun' /\ FailsAfterRetries'
  <2>1. errors' \in Nat /\ errors' = errors /\ failed' = failed
    BY <1>3, <1>5
  <2> QED
    BY <1>3, <1>8, <2>1, CachedKept
<1> QED
  BY <1>8, <1>9 DEF InputInv

\* An answer is cached under a block whose trace was begun: that of its own block,
\* or of one before it.
LEMMA AnswerKeeps ==
    ASSUME InputInv, NEW c \in AllCalls, Answer(c)
    PROVE  InputInv'
<1> DEFINE next == Got(KindOf(c))
<1>1. InputTypes /\ c[1] \in InputBlocks /\ c \in Calls(c[1])
  BY CallOf DEF InputInv
<1>2. c[3] \in Chain /\ c[3] <= c[1] /\ c[1] \in Nat
  BY <1>1, CallsAre
<1>3. UNCHANGED <<first, length, errors, failed>> /\ task' = [task EXCEPT ![c] = next]
  BY DEF Answer
<1>4. Begun(c)
  BY <1>1, BegunStates DEF Answer
<1>5. KindOf(c) \in Kinds
  BY DEF KindOf, Kinds
<1>6. next \in TaskStates /\ next.state = "done" /\ next.tries = 0 /\ next.got = KindOf(c)
  BY <1>5, InputAssumption DEF Got, TaskStates
<1>7. \A t \in InputBlocks : c = Trace(t) /\ next.state = "done" => next.got = "full"
  BY <1>6 DEF KindOf, Trace
<1>8. errors \in Nat /\ errors' \in Nat /\ errors' >= errors /\ next.tries <= errors'
  BY <1>1, <1>3, <1>6 DEF InputTypes
<1> HIDE DEF next
<1>9. /\ task' \in [AllCalls -> TaskStates]
      /\ \A d \in AllCalls : Begun(d) => Begun(d)'
      /\ IdleIsIdle' /\ TracesInOrder' /\ TraceFirst' /\ TraceIsFull' /\ TriesAreErrors'
  BY <1>3, <1>4, <1>6, <1>7, <1>8, CallMoves
<1>10. InputBlocks' = InputBlocks /\ AllCalls' = AllCalls
  BY <1>3 DEF InputBlocks, AllCalls
<1>11. cache' = [cache EXCEPT ![c[3]] = KindOf(c)]
  BY DEF Answer
<1>12. InputTypes'
  BY <1>1, <1>3, <1>5, <1>8, <1>9, <1>10, <1>11 DEF InputTypes
<1>13. \A t \in InputBlocks : Trace(t) \in AllCalls
  BY <1>1, CallsAre
<1>14. CachedIsBegun'
  <2> SUFFICES ASSUME NEW n \in InputBlocks, cache'[n] # "none" PROVE Begun(Trace(n))
    BY <1>9, <1>10, <1>13 DEF CachedIsBegun
  <2>1. CASE n = c[3]
    <3>1. Begun(Trace(c[1]))
      BY <1>1, <1>4 DEF InputInv, TraceFirst
    <3> QED
      BY <1>1, <1>2, <2>1, <3>1 DEF InputInv, TracesInOrder
  <2>2. CASE n # c[3]
    <3>1. cache'[n] = cache[n]
      BY <1>1, <1>11, <2>2, CallsAre DEF InputTypes
    <3> QED
      BY <3>1 DEF InputInv, CachedIsBegun
  <2> QED
    BY <2>1, <2>2
<1> QED
  BY <1>3, <1>9, <1>12, <1>14 DEF InputInv, FailsAfterRetries

LEMMA ErrorKeeps ==
    ASSUME InputInv, NEW c \in AllCalls, TransportError(c)
    PROVE  InputInv'
<1>1. InputTypes /\ errors \in Nat /\ MaxRetries \in Nat
  BY InputAssumption DEF InputInv, InputTypes
<1>2. UNCHANGED <<first, length, cache>> /\ errors' = errors + 1
  BY DEF TransportError
<1>3. Begun(c) /\ task[c] \in TaskStates /\ task[c].state = "sent"
  BY <1>1, BegunStates DEF TransportError, InputTypes
<1>4. task[c].tries \in Nat /\ task[c].tries <= errors
  BY <1>1, <1>3 DEF InputInv, TriesAreErrors, TaskStates
<1>5. CASE task[c].tries < MaxRetries
  <2> DEFINE next == [task[c] EXCEPT !.tries = @ + 1]
  <2>1. task' = [task EXCEPT ![c] = next] /\ failed' = failed
    BY <1>5 DEF TransportError
  <2>2. next \in TaskStates /\ next.state = "sent" /\ next.tries <= errors'
    BY <1>1, <1>2, <1>3, <1>4, <1>5 DEF TaskStates
  <2> HIDE DEF next
  <2>3. /\ task' \in [AllCalls -> TaskStates]
        /\ \A d \in AllCalls : Begun(d) => Begun(d)'
        /\ IdleIsIdle' /\ TracesInOrder' /\ TraceFirst' /\ TraceIsFull' /\ TriesAreErrors'
    <3>1. errors' \in Nat /\ errors' >= errors /\ next.state # "idle" /\ next.state # "done"
      BY <1>1, <1>2, <2>2
    <3> QED
      BY <1>2, <1>3, <2>1, <2>2, <3>1, CallMoves
  <2>4. InputTypes' /\ CachedIsBegun'
    BY <1>1, <1>2, <2>3, CachedKept
  <2>5. FailsAfterRetries'
    BY <1>1, <1>2, <2>1 DEF InputInv, FailsAfterRetries
  <2> QED
    BY <2>3, <2>4, <2>5 DEF InputInv
<1>6. CASE ~(task[c].tries < MaxRetries)
  <2>1. task' = task /\ errors' > MaxRetries /\ errors' \in Nat
    BY <1>1, <1>2, <1>4, <1>6 DEF TransportError
  <2>2. InputBlocks' = InputBlocks /\ AllCalls' = AllCalls
    BY <1>2 DEF InputBlocks, AllCalls
  <2>3. InputTypes'
    BY <1>1, <1>2, <2>1, <2>2 DEF InputTypes
  <2>4. IdleIsIdle' /\ CachedIsBegun' /\ TracesInOrder' /\ TraceFirst' /\ TraceIsFull'
    BY <1>2, <2>1, <2>2 DEF InputInv, IdleIsIdle, CachedIsBegun, TracesInOrder, TraceFirst, TraceIsFull, Begun
  <2>5. TriesAreErrors'
    <3> SUFFICES ASSUME NEW d \in AllCalls PROVE task[d].tries <= errors'
      BY <2>1, <2>2 DEF TriesAreErrors
    <3>1. task[d].tries \in Nat /\ task[d].tries <= errors
      BY <1>1 DEF InputInv, TriesAreErrors, InputTypes, TaskStates
    <3> QED
      BY <1>1, <1>2, <3>1
  <2> QED
    BY <2>1, <2>3, <2>4, <2>5 DEF InputInv, FailsAfterRetries
<1> QED
  BY <1>5, <1>6

LEMMA InputInvKept == InputInv /\ [InputNext]_inputVars => InputInv'
<1> SUFFICES ASSUME InputInv, [InputNext]_inputVars PROVE InputInv'
  OBVIOUS
<1>1. CASE UNCHANGED inputVars
  <2>1. InputBlocks' = InputBlocks /\ AllCalls' = AllCalls
    BY <1>1 DEF inputVars, InputBlocks, AllCalls
  <2> QED
    BY <1>1, <2>1 DEF inputVars, InputInv, InputTypes, IdleIsIdle, CachedIsBegun, TracesInOrder, TraceFirst,
                      TraceIsFull, TriesAreErrors, FailsAfterRetries, Begun
<1>2. ASSUME NEW t \in InputBlocks, NoTransactions(t) PROVE FALSE
  BY <1>2 DEF NoTransactions, Done, Traced, InputInv, TraceIsFull, Trace
<1> QED
  BY <1>1, <1>2, BeginKeeps, AnswerKeeps, ErrorKeeps DEF InputNext

\* InputsRight for every interval, number of previous hashes and retries, in
\* whatever order the node answers and fails: no block of the interval is served
\* from the cache without its transactions.
THEOREM InputsAreRight == InputSpec => []InputsRight
<1>1. InputInv => InputsRight
  <2> SUFFICES ASSUME InputInv PROVE FullIsFull /\ PrevHashesRight /\ FailsAfterRetries
    BY DEF InputsRight
  <2>1. FullIsFull
    BY DEF InputInv, TraceIsFull, FullIsFull, Done, Traced, Trace
  <2>2. \A t \in InputBlocks : t \in Nat \ {0}
    BY CallsAre DEF InputInv
  <2>3. PrevHashesRight
    BY <2>2, PreviousRight DEF PrevHashesRight
  <2> QED
    BY <2>1, <2>3 DEF InputInv
<1> QED
  BY <1>1, InputInitHolds, InputInvKept, PTL DEF InputSpec
==============================================================================
