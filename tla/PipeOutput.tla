----------------------------- MODULE PipeOutput -----------------------------
(***************************************************************************)
(* TaskOutput in pipe mode (output/task_output.py), with the two stream    *)
(* readers that fill it and the command that empties it: a ShellCommand    *)
(* whose caller gave on_stdout (engine/command.py).                        *)
(*                                                                         *)
(* The child writes to two pipes; a reader task for each takes a chunk at  *)
(* a time, stores it and calls the host back.  What is stored stays in two *)
(* buffers until they would exceed a limit, or the command is put in the   *)
(* background: then it all moves to a DiskTaskOutput, here the OutputLog   *)
(* that DiskOutput implements.  The command is its CommandOutcome.         *)
(***************************************************************************)
EXTENDS Integers, Sequences

CONSTANTS
    TaskIds,   \* background ids the host may choose
    NoId,      \* None
    MaxMemory, \* max_memory, counted in chunks
    MaxChunks  \* bound of the model: chunks the child writes to each pipe

ASSUME IdsAssumption == NoId \notin TaskIds
ASSUME LimitsAssumption == MaxMemory \in Nat /\ MaxChunks \in Nat

VARIABLES
    status, taskId, outcome, \* the command, see CommandOutcome
    decided,   \* its exit code is decided, and _handle_exit is queued or over
    child,     \* "alive" or "exited"
    written,   \* chunks the child has written to each pipe
    taken,     \* chunks its reader has stored
    reader,    \* each reader task, see Readers
    buffer,    \* _stdout_buffer and _stderr_buffer
    spilled,   \* _disk is not None
    pending,   \* chunks on their way to the file
    disk,      \* the file
    faulty,    \* history: the file has lost chunks, or clear() dropped some
    cleared,   \* history: clear() was called
    result     \* what the result says of the output: {} or {a record}

commandVars == <<status, taskId, outcome, decided>>
childVars == <<child, written>>
storeVars == <<buffer, spilled, pending>>
fileVars == <<disk, faulty>>
vars == <<commandVars, childVars, taken, reader, storeVars, fileVars, cleared, result>>

Streams == {"stdout", "stderr"}

Chunks == [from : Streams, n : 1 .. MaxChunks]

(* dead: a callback of the host raised.                                    *)
Readers == {"reading", "ended", "dead", "cancelled"}

Command == INSTANCE CommandOutcome
Log == INSTANCE OutputLog

NoOutput == [s \in Streams |-> <<>>]

Init ==
    /\ Command!Init /\ decided = FALSE
    /\ child = "alive" /\ written = [s \in Streams |-> 0]
    /\ taken = [s \in Streams |-> 0]
    /\ reader = [s \in Streams |-> "reading"]
    /\ buffer = NoOutput /\ spilled = FALSE
    /\ Log!Init
    /\ cleared = FALSE
    /\ result = {}

-----------------------------------------------------------------------------
(* TaskOutput.                                                             *)

(* A fault: the buffers are kept.                                          *)
SpillToDiskKeeping(chunks) ==
    /\ spilled' = TRUE
    /\ pending' = pending \o buffer["stdout"] \o buffer["stderr"] \o chunks
    /\ UNCHANGED buffer

SpillToDisk(chunks) ==
    /\ spilled' = TRUE
    /\ pending' = pending \o buffer["stdout"] \o buffer["stderr"] \o chunks
    /\ buffer' = NoOutput

(* A fault: the chunk that overflows the buffers is not handed on.         *)
WriteBufferedDropping(chunk) ==
    \/ spilled /\ pending' = Append(pending, chunk) /\ UNCHANGED <<buffer, spilled>>
    \/ /\ ~spilled /\ Len(buffer["stdout"]) + Len(buffer["stderr"]) + 1 > MaxMemory
       /\ SpillToDisk(<<>>)
    \/ /\ ~spilled /\ Len(buffer["stdout"]) + Len(buffer["stderr"]) + 1 <= MaxMemory
       /\ buffer' = [buffer EXCEPT ![chunk.from] = Append(@, chunk)]
       /\ UNCHANGED <<spilled, pending>>

WriteBuffered(chunk) ==
    \/ spilled /\ pending' = Append(pending, chunk) /\ UNCHANGED <<buffer, spilled>>
    \/ /\ ~spilled /\ Len(buffer["stdout"]) + Len(buffer["stderr"]) + 1 > MaxMemory
       /\ SpillToDisk(<<chunk>>)
    \/ /\ ~spilled /\ Len(buffer["stdout"]) + Len(buffer["stderr"]) + 1 <= MaxMemory
       /\ buffer' = [buffer EXCEPT ![chunk.from] = Append(@, chunk)]
       /\ UNCHANGED <<spilled, pending>>

(* The drain task of DiskTaskOutput, which may fail at any time.           *)
DrainWrites ==
    /\ spilled
    /\ \E m \in 1 .. Len(pending) : \E k \in 0 .. m : Log!Write(k, m)
    /\ UNCHANGED <<commandVars, childVars, taken, reader, buffer, spilled, cleared, result>>

-----------------------------------------------------------------------------
(* The child, and the readers.                                             *)

ChildWrites(s) ==
    /\ child = "alive" /\ written[s] < MaxChunks
    /\ written' = [written EXCEPT ![s] = @ + 1]
    /\ UNCHANGED <<commandVars, child, taken, reader, storeVars, fileVars, cleared, result>>

ChildExits ==
    /\ child = "alive"
    /\ child' = "exited"
    /\ UNCHANGED <<commandVars, written, taken, reader, storeVars, fileVars, cleared, result>>

(* write_stdout or write_stderr, and then, of stdout, on_stdout, which may *)
(* raise; whatever it raises ends the reader.                              *)
ReadChunk(s) ==
    /\ reader[s] = "reading" /\ taken[s] < written[s]
    /\ taken' = [taken EXCEPT ![s] = @ + 1]
    /\ WriteBuffered([from |-> s, n |-> taken'[s]])
    /\ \/ UNCHANGED reader
       \/ s = "stdout" /\ reader' = [reader EXCEPT ![s] = "dead"]
    /\ UNCHANGED <<commandVars, childVars, fileVars, cleared, result>>

(* on_progress, called before the chunk is stored, raises.                 *)
ProgressRaises(s) ==
    /\ reader[s] = "reading" /\ taken[s] < written[s] /\ ~cleared
    /\ reader' = [reader EXCEPT ![s] = "dead"]
    /\ UNCHANGED <<commandVars, childVars, taken, storeVars, fileVars, cleared, result>>

ReaderEnds(s) ==
    /\ reader[s] = "reading" /\ child = "exited" /\ taken[s] = written[s]
    /\ reader' = [reader EXCEPT ![s] = "ended"]
    /\ UNCHANGED <<commandVars, childVars, taken, storeVars, fileVars, cleared, result>>

-----------------------------------------------------------------------------
(* The command.                                                            *)

(* kill(), and whatever else kills it.  A PermissionError of the signal    *)
(* leaves the status killed and the code undecided.                        *)
Kill ==
    /\ outcome = {}
    /\ Command!Kill
    /\ decided' \in {decided, TRUE}
    /\ UNCHANGED <<childVars, taken, reader, storeVars, fileVars, cleared, result>>

Background(id) ==
    /\ Command!Background(id)
    /\ IF spilled THEN UNCHANGED storeVars ELSE SpillToDisk(<<>>)
    /\ UNCHANGED <<decided, childVars, taken, reader, fileVars, cleared, result>>

(* process.wait() returns when both pipes are at their end, too, and a     *)
(* reader that is still there has then seen it.                            *)
WaitForExit ==
    /\ ~decided /\ child = "exited"
    /\ \A s \in Streams : reader[s] # "reading"
    /\ decided' = TRUE
    /\ UNCHANGED <<status, taskId, outcome, childVars, taken, reader, storeVars,
                   fileVars, cleared, result>>

(* get_stdout() and get_stderr(): one who has spilled gives a notice that  *)
(* the full output is saved to the file.                                   *)
Told == IF spilled THEN [notice |-> TRUE, inline |-> NoOutput]
                   ELSE [notice |-> FALSE, inline |-> buffer]

(* A fault: the readers are stopped when there is a result.                *)
HandleExitStopsReaders ==
    /\ decided
    /\ Command!Answer
    /\ result' = {Told}
    /\ reader' = [s \in Streams |-> IF reader[s] = "reading" THEN "cancelled" ELSE reader[s]]
    /\ UNCHANGED <<decided, childVars, taken, storeVars, fileVars, cleared>>

(* _handle_exit, which does not suspend in pipe mode.                      *)
HandleExit ==
    /\ decided
    /\ Command!Answer
    /\ result' = {Told}
    /\ UNCHANGED <<decided, childVars, taken, reader, storeVars, fileVars, cleared>>

(* A fault: the readers go on.                                             *)
CleanupButReaders ==
    /\ ~cleared /\ cleared' = TRUE
    /\ buffer' = NoOutput
    /\ IF spilled THEN \E m \in 0 .. Len(pending) : Log!Drop(m)
                  ELSE UNCHANGED <<pending, fileVars>>
    /\ UNCHANGED <<commandVars, childVars, taken, reader, spilled, result>>

(* cleanup(): the readers are cancelled, and clear() empties the buffers   *)
(* and the queue; a batch in the hands of the drain is still written.      *)
Cleanup ==
    /\ ~cleared /\ cleared' = TRUE
    /\ reader' = [s \in Streams |-> IF reader[s] = "reading" THEN "cancelled" ELSE reader[s]]
    /\ buffer' = NoOutput
    /\ IF spilled THEN \E m \in 0 .. Len(pending) : Log!Drop(m)
                  ELSE UNCHANGED <<pending, fileVars>>
    /\ UNCHANGED <<commandVars, childVars, taken, spilled, result>>

-----------------------------------------------------------------------------
Next ==
    \/ DrainWrites
    \/ \E s \in Streams : ChildWrites(s) \/ ReadChunk(s) \/ ProgressRaises(s) \/ ReaderEnds(s)
    \/ ChildExits
    \/ Kill
    \/ \E id \in TaskIds : Background(id)
    \/ WaitForExit
    \/ HandleExit
    \/ Cleanup

Spec == Init /\ [][Next]_vars

(***************************************************************************)
(* Fairness: the loop runs its tasks, the drain writes (DiskOutput's       *)
(* QueueDrains), and a child that got the signal dies.                     *)
(***************************************************************************)
Fairness ==
    /\ WF_vars(DrainWrites)
    /\ \A s \in Streams : WF_vars(ReadChunk(s)) /\ WF_vars(ReaderEnds(s))
    /\ WF_vars(decided /\ ChildExits)

FairSpec == Spec /\ Fairness

-----------------------------------------------------------------------------
(* The first k chunks of a stream, in order.                               *)
FirstChunks(s, k) == [i \in 1 .. k |-> [from |-> s, n |-> i]]

(* Every variable keeps its kind; the buffers keep to their limit, and are *)
(* empty once there is a disk.                                             *)
TypeOK ==
    /\ status \in {"running", "backgrounded", "completed", "killed"}
    /\ taskId \in TaskIds \cup {NoId}
    /\ outcome \in {{}, {taskId}}
    /\ decided \in BOOLEAN
    /\ child \in {"alive", "exited"}
    /\ written \in [Streams -> 0 .. MaxChunks]
    /\ taken \in [Streams -> 0 .. MaxChunks]
    /\ reader \in [Streams -> Readers]
    /\ buffer \in [Streams -> Seq(Chunks)]
    /\ Len(buffer["stdout"]) + Len(buffer["stderr"]) <= MaxMemory
    /\ spilled \in BOOLEAN /\ (spilled => buffer = NoOutput)
    /\ pending \in Seq(Chunks) /\ disk \in Seq(Chunks)
    /\ faulty \in BOOLEAN /\ cleared \in BOOLEAN
    /\ result \in SUBSET [notice : BOOLEAN, inline : [Streams -> Seq(Chunks)]]
    /\ result = {} <=> outcome = {}

(* Chunks of a stream stand in their order, and none stands twice.         *)
InOrder(chunks) ==
    \A i, j \in DOMAIN chunks :
        i < j /\ chunks[i].from = chunks[j].from => chunks[i].n < chunks[j].n

Holds(chunks, chunk) == \E i \in DOMAIN chunks : chunks[i] = chunk

(* What has been stored of each stream is all of what was read from it,    *)
(* once and in order, through the move from the buffers to the file.       *)
OutputKept ==
    ~cleared /\ ~faulty =>
        \A s \in Streams :
            LET kept == disk \o pending \o buffer[s]
            IN  /\ InOrder(kept)
                /\ \A n \in 1 .. MaxChunks : Holds(kept, [from |-> s, n |-> n]) <=> n <= taken[s]

(* A result that shows the output shows the beginning of what the child    *)
(* wrote, whatever kills and cleanups came before it; and all of it, when  *)
(* the command ran to its end and no callback of the host's raised.        *)
ResultShowsOutput ==
    \A r \in result : ~r.notice =>
        \A s \in Streams :
            /\ r.inline[s] = FirstChunks(s, Len(r.inline[s])) /\ Len(r.inline[s]) <= written[s]
            /\ status = "completed" /\ reader[s] = "ended" /\ ~cleared
                  => Len(r.inline[s]) = written[s]

(* A result that says the full output is saved comes true: the readers and *)
(* the drain, which are not waited for, end their work; unless a callback  *)
(* raised, the disk failed, or cleanup() was called.                       *)
NoticeComesTrue ==
    (\E r \in result : r.notice) ~>
        \/ cleared \/ faulty \/ \E s \in Streams : reader[s] = "dead"
        \/ child = "exited" /\ pending = <<>> /\ Len(disk) = written["stdout"] + written["stderr"]
=============================================================================
