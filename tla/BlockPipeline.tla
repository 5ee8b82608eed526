---------------------------- MODULE BlockPipeline ----------------------------
(***************************************************************************)
(* The leader's proving pipeline.  `prove` starts one future per block and *)
(* chains neighbours with one-shot channels: a block proof is written to   *)
(* the output directory before it is sent to its successor, which waits    *)
(* for it before it folds it into its own.  The file is never flushed: its *)
(* last buffer is written by a blocking task of the runtime, and nobody is *)
(* left to hear of its failure.  FuturesOrdered polls all of them and      *)
(* hands their results out in block order; the first error it hands out    *)
(* drops every future that is left.  The client then closes the runtime,   *)
(* prints proofs or removes the intermediate proof files.                  *)
(***************************************************************************)
EXTENDS Naturals, Sequences, FiniteSets

CONSTANTS
    NumBlocks,   \* length of the proved interval
    BatchCounts  \* how many batches a decoded block may have

ASSUME PipelineAssumption ==
    /\ NumBlocks \in Nat \ {0}
    /\ BatchCounts \subseteq Nat \ {0}

VARIABLES
    config,     \* how the leader was started
    pc,         \* where each block's future is
    batches,    \* batches of the block, and how many are not proved yet
    chan,       \* the one-shot channel from a block to its successor
    proof,      \* the blocks that the block's proof attests
    disk,       \* the block's proof file
    collected,  \* results try_collect has taken out of FuturesOrdered
    leader,     \* what the leader is doing
    removing,   \* next intermediate file to remove
    stdout      \* the proofs printed

vars == <<config, pc, batches, chan, proof, disk, collected, leader, removing, stdout>>

Blocks == 1 .. NumBlocks

\* proof_output_dir is given; keep_intermediate_proofs; prover_config.test_only;
\* stdio_main, which passes no output directory, rather than client_main.
Configs == {c \in [dir : BOOLEAN, keep : BOOLEAN, test : BOOLEAN, stdio : BOOLEAN] :
                c.stdio => ~c.dir /\ ~c.keep}

OutputDir == config.dir
KeepIntermediate == config.keep
TestOnly == config.test
Stdio == config.stdio

\* What a proof file is.  "partial": a failure that was reported cut it short.
\* "buffered": write_all has returned Ok, and the last buffer (tokio's are of 2 MiB,
\* mostly the whole proof) is still to be written.  "lost": writing it failed.
FileStates == {"none", "partial", "buffered", "lost", "full"}
Handed == {"buffered", "lost", "full"}

Running == {"input", "batches", "previous", "block", "write", "send"}
Final == {"done", "error"}

TypeOK ==
    /\ config \in Configs
    /\ pc \in [Blocks -> Running \cup {"ok", "err", "dropped"}]
    /\ batches \in [Blocks -> [total : {0} \cup BatchCounts, left : Nat]]
    /\ chan \in [Blocks -> {"open", "sent", "closed"}]
    /\ proof \in [Blocks -> SUBSET Blocks]
    /\ disk \in [Blocks -> FileStates]
    /\ collected \in 0 .. NumBlocks
    /\ leader \in {"proving", "proved", "failed", "cleanup"} \cup Final
    /\ removing \in 0 .. NumBlocks
    /\ stdout \in Seq(Blocks)

Init ==
    /\ config \in Configs
    /\ pc = [b \in Blocks |-> "input"]
    /\ batches = [b \in Blocks |-> [total |-> 0, left |-> 0]]
    /\ chan = [b \in Blocks |-> "open"]
    /\ proof = [b \in Blocks |-> {}]
    /\ disk = [b \in Blocks |-> "none"]
    /\ collected = 0
    /\ leader = "proving"
    /\ removing = 0
    /\ stdout = <<>>

-----------------------------------------------------------------------------
(* One block's future. *)

\* The receiving end lives in the successor's future until that future has
\* received or has ended; the last one lives in `prove` itself.
ReceiverAlive(b) ==
    IF b = NumBlocks THEN leader = "proving"
    ELSE pc[b + 1] \in {"input", "batches", "previous"}

At(b, where) == leader = "proving" /\ pc[b] = where
Goto(b, where) == pc' = [pc EXCEPT ![b] = where]

\* A future that ends with an error drops its sender.
Fail(b) ==
    /\ Goto(b, "err")
    /\ chan' = [chan EXCEPT ![b] = "closed"]

\* block_prover_input.await, then trace_decoder::entrypoint.
Input(b) ==
    /\ At(b, "input")
    /\ \E n \in BatchCounts :
          batches' = [batches EXCEPT ![b] = [total |-> n, left |-> n]]
    /\ Goto(b, "batches")
    /\ UNCHANGED <<chan, proof, disk, collected, leader, removing, stdout>>

\* One batch's segments are proved and folded (or only simulated).
ProveBatch(b) ==
    /\ At(b, "batches")
    /\ batches[b].left > 0
    /\ batches' = [batches EXCEPT ![b].left = @ - 1]
    /\ UNCHANGED <<pc, chan, proof, disk, collected, leader, removing, stdout>>

\* The fold of a single batch is that batch's proof, which is no aggregation
\* proof: `prove` bails out.
IsAggProof(b) == TestOnly \/ batches[b].total > 1

FoldBatches(b) ==
    /\ At(b, "batches")
    /\ batches[b].left = 0
    /\ IF IsAggProof(b) THEN Goto(b, "previous") /\ UNCHANGED chan ELSE Fail(b)
    /\ UNCHANGED <<batches, proof, disk, collected, leader, removing, stdout>>

\* Mutant: a block is given the receiving end of its own channel.
Previous_own(b) == IF b = 1 THEN "sent" ELSE chan[b]

\* Wait for the previous block's proof; the first block has none to wait for,
\* or one that is already there.
Previous(b) == IF b = 1 THEN "sent" ELSE chan[b - 1]

AwaitPrevious(b) ==
    /\ At(b, "previous")
    /\ \/ Previous(b) = "sent" /\ Goto(b, "block") /\ UNCHANGED chan
       \/ Previous(b) = "closed" /\ Fail(b)
    /\ UNCHANGED <<batches, proof, disk, collected, leader, removing, stdout>>

\* Mutant: the proof is sent before it is written.
ProveBlock_sendFirst(b) ==
    /\ At(b, "block")
    /\ proof' = [proof EXCEPT ![b] = {b} \cup (IF b = 1 THEN {} ELSE proof[b - 1])]
    /\ chan' = [chan EXCEPT ![b] = "sent"]
    /\ Goto(b, IF OutputDir THEN "write" ELSE "ok")
    /\ UNCHANGED <<batches, disk, collected, leader, removing, stdout>>

\* generate_block_proof folds the previous proof into the block's own; the
\* dummy proof of test_only attests nothing.
ProveBlock(b) ==
    /\ At(b, "block")
    /\ proof' = [proof EXCEPT ![b] =
                    IF TestOnly THEN {}
                    ELSE {b} \cup (IF b = 1 THEN {} ELSE proof[b - 1])]
    /\ Goto(b, IF OutputDir THEN "write" ELSE "send")
    /\ UNCHANGED <<batches, chan, disk, collected, leader, removing, stdout>>

\* write_proof_to_dir returns Ok: the last buffer was handed to a blocking task, and
\* the file is dropped without a flush.
Write(b) ==
    /\ At(b, "write")
    /\ disk' = [disk EXCEPT ![b] = "buffered"]
    /\ Goto(b, "send")
    /\ UNCHANGED <<batches, chan, proof, collected, leader, removing, stdout>>

\* Creating the directory or the file fails, or writing a buffer before the last one.
WriteFails(b) ==
    /\ At(b, "write")
    /\ \E d \in {"none", "partial"} : disk' = [disk EXCEPT ![b] = d]
    /\ Fail(b)
    /\ UNCHANGED <<batches, proof, collected, leader, removing, stdout>>

\* Fetching the input, decoding it, proving a segment, folding, or proving the
\* block fails.
StepFails(b) ==
    /\ At(b, "input") \/ At(b, "batches") \/ At(b, "block")
    /\ Fail(b)
    /\ UNCHANGED <<batches, proof, disk, collected, leader, removing, stdout>>

\* tx.send fails when the successor's future has ended.
Send(b) ==
    /\ At(b, "send")
    /\ IF ReceiverAlive(b)
       THEN Goto(b, "ok") /\ chan' = [chan EXCEPT ![b] = "sent"]
       ELSE Fail(b)
    /\ UNCHANGED <<batches, proof, disk, collected, leader, removing, stdout>>

-----------------------------------------------------------------------------
(* `prove` and the leader. *)

\* try_collect takes the next result in block order.
Collect ==
    /\ leader = "proving"
    /\ collected < NumBlocks
    /\ pc[collected + 1] = "ok"
    /\ collected' = collected + 1
    /\ leader' = IF collected' = NumBlocks THEN "proved" ELSE leader
    /\ UNCHANGED <<pc, batches, chan, proof, disk, removing, stdout>>

\* Mutant: the files are cleaned up when proving failed as well.
CollectError_cleans ==
    /\ leader = "proving"
    /\ collected < NumBlocks
    /\ pc[collected + 1] = "err"
    /\ leader' = "failed"
    /\ pc' = [b \in Blocks |-> IF pc[b] \in Running THEN "dropped" ELSE pc[b]]
    /\ disk' = [b \in Blocks |-> "none"]
    /\ UNCHANGED <<batches, chan, proof, collected, removing, stdout>>

\* The next result is an error: try_collect returns it and every other future
\* is dropped, with its end of the channels.
CollectError ==
    /\ leader = "proving"
    /\ collected < NumBlocks
    /\ pc[collected + 1] = "err"
    /\ leader' = "failed"
    /\ pc' = [b \in Blocks |-> IF pc[b] \in Running THEN "dropped" ELSE pc[b]]
    /\ chan' = [b \in Blocks |-> IF pc[b] \in Running THEN "closed" ELSE chan[b]]
    /\ UNCHANGED <<batches, proof, disk, collected, removing, stdout>>

\* filter_map(|(_, block)| block): a proof written to disk is not returned.
Returned == IF OutputDir THEN <<>> ELSE [b \in Blocks |-> b]
LastOf(s) == IF s = <<>> THEN <<>> ELSE <<s[Len(s)]>>

\* runtime.close(), whose failure is reported before prove's; then the client
\* prints the proofs or cleans up.
CloseRuntime ==
    /\ leader \in {"proved", "failed"}
    /\ \/ leader' = "error" /\ UNCHANGED <<removing, stdout>>
       \/ /\ leader = "proved"
          /\ IF Stdio THEN stdout' = Returned /\ leader' = "done" /\ UNCHANGED removing
             ELSE IF TestOnly THEN leader' = "done" /\ UNCHANGED <<removing, stdout>>
             ELSE IF KeepIntermediate \/ ~OutputDir
             THEN /\ stdout' = IF KeepIntermediate THEN Returned ELSE LastOf(Returned)
                  /\ leader' = "done"
                  /\ UNCHANGED removing
             ELSE leader' = "cleanup" /\ removing' = NumBlocks - 1 /\ UNCHANGED stdout
    /\ UNCHANGED <<pc, batches, chan, proof, disk, collected>>

\* rev().skip(1): every file but the last, newest first; a file that cannot be
\* removed is only logged.
RemoveFile ==
    /\ leader = "cleanup"
    /\ IF removing = 0 THEN leader' = "done" /\ UNCHANGED <<disk, removing>>
       ELSE /\ removing' = removing - 1
            /\ \/ disk' = [disk EXCEPT ![removing] = "none"]
               \/ UNCHANGED disk
            /\ UNCHANGED leader
    /\ UNCHANGED <<pc, batches, chan, proof, collected, stdout>>

\* The blocking task writes the last buffer, or fails and keeps the error to itself.
\* It also runs after the leader has ended: a runtime that shuts down waits for it.
Flush(b) ==
    /\ disk[b] = "buffered"
    /\ \E d \in {"full", "lost"} : disk' = [disk EXCEPT ![b] = d]
    /\ UNCHANGED <<pc, batches, chan, proof, collected, leader, removing, stdout>>

Finished == leader \in Final /\ UNCHANGED vars

BlockStep(b) ==
    \/ Input(b) \/ ProveBatch(b) \/ FoldBatches(b) \/ AwaitPrevious(b)
    \/ ProveBlock(b) \/ Write(b) \/ WriteFails(b) \/ StepFails(b) \/ Send(b)

LeaderStep == Collect \/ CollectError \/ CloseRuntime \/ RemoveFile

Next ==
    /\ (\E b \in Blocks : BlockStep(b) \/ Flush(b)) \/ LeaderStep \/ Finished
    /\ UNCHANGED config

(***************************************************************************)
(* Every future is polled until it ends, a fetch, a proof or a write ends  *)
(* in success or failure, the leader goes on when it can, and the blocking *)
(* tasks of the runtime run.                                               *)
(***************************************************************************)
Fairness ==
    /\ \A b \in Blocks : WF_vars(BlockStep(b) /\ UNCHANGED config)
    /\ \A b \in Blocks : WF_vars(Flush(b) /\ UNCHANGED config)
    /\ WF_vars(LeaderStep /\ UNCHANGED config)

Spec == Init /\ [][Next]_vars /\ Fairness

-----------------------------------------------------------------------------
(* Properties. *)

\* A proof file exists only when the files of all earlier blocks were handed to
\* the runtime whole: writing comes before sending, so neither a missing file nor
\* one whose failure was reported lies below a later proof (until the cleanup of a
\* successful run).  A file whose last buffer was lost may.
DiskIsPrefix ==
    (OutputDir /\ leader \notin {"cleanup", "done"}) =>
        \A b \in Blocks : disk[b] # "none" =>
            \A a \in 1 .. (b - 1) : disk[a] \in Handed

\* A proof that was written, sent or returned attests every block from the
\* start of the interval, whatever order the futures ran in.
ProofAttestsPrefix ==
    \A b \in Blocks :
        (~TestOnly /\ (disk[b] # "none" \/ chan[b] = "sent" \/ pc[b] = "ok")) =>
            proof[b] = 1 .. b

\* When the leader reports success the last block's proof, which attests the
\* whole interval, was handed to the runtime to be written, and not removed, or was
\* printed, and with keep_intermediate_proofs all the others were too.
SuccessKeepsProof ==
    (leader = "done" /\ ~TestOnly) =>
        \A b \in Blocks : (b = NumBlocks \/ KeepIntermediate \/ Stdio) =>
            IF OutputDir THEN disk[b] \in Handed ELSE \E i \in DOMAIN stdout : stdout[i] = b

\* All three, whatever fails and in whatever order.
PipelineSafe == DiskIsPrefix /\ ProofAttestsPrefix /\ SuccessKeepsProof

\* What the client says of a success: "All proof files (including intermediary) are
\* written to disk and kept", or the last one.  It does not hold: write_all without a
\* flush has returned Ok before the last buffer is written, and its error is lost.
KeptProofsWritten ==
    (leader = "done" /\ OutputDir /\ ~TestOnly) =>
        \A b \in Blocks : (b = NumBlocks \/ KeepIntermediate) => disk[b] # "lost"

\* No step of a failing run destroys a proof that was complete on disk: only
\* the cleanup of a successful run removes files.
FailureKeepsFiles ==
    [][\A b \in Blocks : disk[b] = "full" /\ disk'[b] # "full" =>
          \A a \in Blocks : pc[a] = "ok"]_vars
=============================================================================
