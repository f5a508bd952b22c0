----------------------------- MODULE DiskOutput -----------------------------
(***************************************************************************)
(* DiskTaskOutput of output/disk_output.py: appends are queued, and a      *)
(* drain task, started by an append that finds none running, writes the    *)
(* queue to the file in batches.  The drain suspends in worker threads to  *)
(* open, write and close the file; appends, cancel() and flush() happen    *)
(* between its steps.  Every file operation may fail, and a write may be   *)
(* short.                                                                  *)
(*                                                                         *)
(* A chunk is the number under which it was accepted: 1, 2, 3, ...         *)
(***************************************************************************)
EXTENDS Integers, Sequences, Functions

CONSTANTS
    Lengths,   \* the lengths of encoded chunks
    MaxBytes,  \* MAX_TASK_OUTPUT_BYTES
    MaxChunks, \* bound of the model: chunks ever appended
    MaxFaults  \* bound of the model: file operations that go wrong

ASSUME BoundsAssumption == /\ Lengths \subseteq Nat
                           /\ MaxBytes \in Nat
                           /\ MaxChunks \in Nat
                           /\ MaxFaults \in Nat

VARIABLES
    accepted,  \* history: how many chunks were queued so far
    bytes,     \* self._bytes_written: their length, the last one's included
    capped,    \* self._capped
    queue,     \* self._queue
    batch,     \* the local batch of _drain_all_chunks, <<>> outside a write
    disk,      \* the file
    drain,     \* where the drain task stands, see Stages
    attempt,   \* _drain runs _drain_all_chunks for the 1st or the 2nd time
    flushed,   \* self._flush_event is set
    flusher,   \* a caller of flush(): "none", "waiting" or "returned"
    target,    \* history: the chunks accepted before its call
    faults,    \* history: file operations that went wrong
    dropped,   \* history: the chunks of a write gone wrong or of cancel()
    abandoned  \* history: the chunks a drain left queued, both attempts failed

logVars == <<accepted, bytes, capped>>
flushVars == <<flushed, flusher, target>>
lossVars == <<dropped, abandoned>>
vars == <<logVars, queue, batch, disk, drain, attempt, flushVars, faults, lossVars>>

(* idle: no task, or it is done; starting: before makedirs; aborting: the  *)
(* close of the finally clause after a write that raised.                  *)
Stages == {"idle", "starting", "opening", "writing", "closing", "aborting"}

Init ==
    /\ accepted = 0 /\ bytes = 0 /\ capped = FALSE
    /\ queue = <<>> /\ batch = <<>> /\ disk = <<>>
    /\ drain = "idle" /\ attempt = 1
    /\ flushed = TRUE /\ flusher = "none" /\ target = 0
    /\ faults = 0 /\ dropped = {} /\ abandoned = {}

-----------------------------------------------------------------------------
(* The calls.                                                              *)

(* A fault: an append that starts a drain leaves the flush event set.      *)
AppendChunkUnflagged(length) ==
    /\ ~capped
    /\ accepted < MaxChunks
    /\ bytes' = bytes + length
    /\ capped' = (bytes' > MaxBytes)
    /\ accepted' = accepted + 1
    /\ queue' = Append(queue, accepted')
    /\ IF drain = "idle"
       THEN drain' = "starting" /\ attempt' = 1
       ELSE UNCHANGED <<drain, attempt>>
    /\ UNCHANGED <<batch, disk, flushed, flusher, target, faults, lossVars>>

(* append(): the chunk that exceeds the cap is replaced by a notice, and   *)
(* the last to be queued.                                                  *)
AppendChunk(length) ==
    /\ ~capped
    /\ accepted < MaxChunks
    /\ bytes' = bytes + length
    /\ capped' = (bytes' > MaxBytes)
    /\ accepted' = accepted + 1
    /\ queue' = Append(queue, accepted')
    /\ IF drain = "idle"
       THEN drain' = "starting" /\ attempt' = 1 /\ flushed' = FALSE
       ELSE UNCHANGED <<drain, attempt, flushed>>
    /\ UNCHANGED <<batch, disk, flusher, target, faults, lossVars>>

(* cancel(): the drain goes on with the batch it has.                      *)
Cancel ==
    /\ queue # <<>>
    /\ queue' = <<>>
    /\ dropped' = dropped \cup Range(queue)
    /\ UNCHANGED <<logVars, batch, disk, drain, attempt, flushVars, faults, abandoned>>

(* flush(): returns at once when no drain is under way.                    *)
Flush ==
    /\ flusher # "waiting"
    /\ flusher' = IF flushed THEN "returned" ELSE "waiting"
    /\ target' = accepted
    /\ UNCHANGED <<logVars, queue, batch, disk, drain, attempt, flushed, faults, lossVars>>

-----------------------------------------------------------------------------
(* The drain task.                                                         *)

(* A fault: the flush event is not set again.                              *)
EndDrainUnflagged == drain' = "idle" /\ UNCHANGED <<attempt, flushVars>>

(* Its finally clause: the flush event wakes whoever waits for it.         *)
EndDrain ==
    /\ drain' = "idle"
    /\ flushed' = TRUE
    /\ flusher' = IF flusher = "waiting" THEN "returned" ELSE flusher
    /\ UNCHANGED <<attempt, target>>

LeavesQueue == abandoned' = abandoned \cup Range(queue)

(* Faults: a second exception escapes the finally clause; there is no      *)
(* second attempt.                                                         *)
RecoverOnceUncaught ==
    IF attempt = 1 /\ queue # <<>>
    THEN attempt' = 2 /\ drain' = "starting" /\ UNCHANGED <<flushVars, abandoned>>
    ELSE drain' = "idle" /\ LeavesQueue /\ UNCHANGED <<attempt, flushVars>>
RecoverNever == EndDrain /\ LeavesQueue

(* _drain catches an exception: one more attempt, if there is work left;   *)
(* what is queued after the second stays there until the next append.      *)
Recover ==
    IF attempt = 1 /\ queue # <<>>
    THEN attempt' = 2 /\ drain' = "starting" /\ UNCHANGED <<flushVars, abandoned>>
    ELSE EndDrain /\ LeavesQueue

GoesWrong == faults < MaxFaults /\ faults' = faults + 1

(* "while self._queue": the whole queue is the next batch.                 *)
NextBatch ==
    /\ batch' = queue
    /\ queue' = <<>>
    /\ drain' = IF queue # <<>> THEN "writing" ELSE "closing"
    /\ UNCHANGED <<attempt, flushVars>>

(* os.makedirs                                                             *)
Start ==
    /\ drain = "starting"
    /\ \/ drain' = "opening" /\ UNCHANGED <<attempt, flushVars, faults, abandoned>>
       \/ GoesWrong /\ Recover
    /\ UNCHANGED <<logVars, queue, batch, disk, dropped>>

OpenFile ==
    /\ drain = "opening"
    /\ \/ NextBatch /\ UNCHANGED <<faults, abandoned>>
       \/ GoesWrong /\ Recover /\ UNCHANGED <<queue, batch>>
    /\ UNCHANGED <<logVars, disk, dropped>>

(* A fault: the queue is cleared after the write, not before.              *)
WriteAllThenClear ==
    /\ drain = "writing"
    /\ disk' = disk \o batch
    /\ batch' = <<>> /\ queue' = <<>>
    /\ drain' = "closing"
    /\ UNCHANGED <<logVars, attempt, flushVars, faults, lossVars>>

WriteAll ==
    /\ drain = "writing"
    /\ disk' = disk \o batch
    /\ NextBatch
    /\ UNCHANGED <<logVars, faults, lossVars>>

(* os.write writes less than it was given; its return value is ignored.    *)
WriteShort ==
    /\ drain = "writing"
    /\ GoesWrong
    /\ \E k \in 0 .. Len(batch) - 1 :
         /\ disk' = disk \o SubSeq(batch, 1, k)
         /\ dropped' = dropped \cup Range(SubSeq(batch, k + 1, Len(batch)))
    /\ NextBatch
    /\ UNCHANGED <<logVars, abandoned>>

(* A fault: a failed batch is queued again, behind what came later.        *)
WriteFailsRequeued ==
    /\ drain = "writing"
    /\ GoesWrong
    /\ queue' = queue \o batch /\ batch' = <<>>
    /\ drain' = "aborting"
    /\ UNCHANGED <<logVars, disk, attempt, flushVars, lossVars>>

(* os.write raises: the batch is gone, its chunks no longer in the queue.  *)
WriteFails ==
    /\ drain = "writing"
    /\ GoesWrong
    /\ batch' = <<>> /\ dropped' = dropped \cup Range(batch)
    /\ drain' = "aborting"
    /\ UNCHANGED <<logVars, queue, disk, attempt, flushVars, abandoned>>

(* A fault: the queue is not looked at again after the close.              *)
CloseFileForGood ==
    /\ drain = "closing"
    /\ \/ EndDrain /\ UNCHANGED <<faults, abandoned>>
       \/ GoesWrong /\ Recover
    /\ UNCHANGED <<logVars, queue, batch, disk, dropped>>

CloseFile ==
    /\ drain = "closing"
    /\ \/ /\ IF queue # <<>>
             THEN drain' = "opening" /\ UNCHANGED <<attempt, flushVars>>
             ELSE EndDrain
          /\ UNCHANGED <<faults, abandoned>>
       \/ GoesWrong /\ Recover
    /\ UNCHANGED <<logVars, queue, batch, disk, dropped>>

CloseAfterError ==
    /\ drain = "aborting"
    /\ Recover
    /\ UNCHANGED <<logVars, queue, batch, disk, faults, dropped>>

-----------------------------------------------------------------------------
Next ==
    \/ \E length \in Lengths : AppendChunk(length)
    \/ Cancel
    \/ Flush
    \/ Start
    \/ OpenFile
    \/ WriteAll
    \/ WriteShort
    \/ WriteFails
    \/ CloseFile
    \/ CloseAfterError

Spec == Init /\ [][Next]_vars

(* Worker threads answer and the loop resumes the drain.                   *)
Fairness ==
    /\ WF_vars(Start) /\ WF_vars(OpenFile) /\ WF_vars(CloseFile)
    /\ WF_vars(WriteAll \/ WriteShort \/ WriteFails)
    /\ WF_vars(CloseAfterError)

FairSpec == Spec /\ Fairness

-----------------------------------------------------------------------------
(* Chunks on their way: in the hands of the writing thread, then queued.   *)
InTransit == batch \o queue

(* Every variable keeps its kind, a batch exists exactly during a write,   *)
(* and the flush event is clear exactly while a drain is under way.        *)
TypeOK ==
    /\ accepted \in 0 .. MaxChunks
    /\ bytes \in Nat
    /\ capped \in BOOLEAN
    /\ queue \in Seq(1 .. MaxChunks)
    /\ batch \in Seq(1 .. MaxChunks)
    /\ disk \in Seq(1 .. MaxChunks)
    /\ drain \in Stages
    /\ drain = "writing" <=> batch # <<>>
    /\ attempt \in {1, 2}
    /\ flushed = (drain = "idle")
    /\ flusher \in {"none", "waiting", "returned"}
    /\ flusher = "waiting" => ~flushed
    /\ target \in 0 .. accepted
    /\ faults \in 0 .. MaxFaults
    /\ dropped \in SUBSET (1 .. MaxChunks)
    /\ abandoned \in SUBSET (1 .. MaxChunks)

Increasing(s) == \A i, j \in 1 .. Len(s) : i < j => s[i] < s[j]

(* Every accepted chunk is in the file or on its way there, in the order   *)
(* of the appends and once, or was dropped, by cancel() or with the write  *)
(* that went wrong; however appends, batches, failures and retries overlap.*)
NothingLost ==
    LET kept == disk \o InTransit
    IN  /\ Increasing(kept)
        /\ Range(kept) \cup dropped = 1 .. accepted
        /\ Range(kept) \cap dropped = {}

(* No append goes unnoticed: with work in the queue a drain is under way,  *)
(* unless the one that had this very chunk to write failed in its second   *)
(* attempt too.                                                            *)
NoLostWakeup ==
    /\ drain = "idle" => Range(queue) \subseteq abandoned
    /\ abandoned # {} => faults >= 2

Settled(chunk) == chunk \in Range(disk) \cup dropped \cup abandoned

(* What flush() promises when it returns: of what was appended before the  *)
(* call nothing is under way any more.  Each chunk is in the file, or was  *)
(* dropped by cancel() or a write that went wrong, or was left behind by a *)
(* drain both of whose attempts failed.                                    *)
FlushedIsSettled == flusher = "returned" => \A chunk \in 1 .. target : Settled(chunk)

Log == INSTANCE OutputLog
         WITH Chunks <- 1 .. MaxChunks, pending <- InTransit,
              faulty <- (faults > 0 \/ dropped # {})

(* Refinement: the file is an append-only log, through every fault.        *)
ImplementsLog == Log!Spec

(* flush() returns, whatever goes wrong.                                   *)
FlushReturns == flusher = "waiting" ~> flusher = "returned"

(* What is queued does not stay there: every chunk gets written, unless    *)
(* it is dropped or its drain fails in both attempts.                      *)
QueueDrains ==
    \A chunk \in 1 .. MaxChunks : chunk \in Range(queue) ~> Settled(chunk)
=============================================================================
