---------------------------- MODULE ShellCommand ----------------------------
(***************************************************************************)
(* The life of one spawned command: ShellCommandImpl of engine/command.py  *)
(* with the parts of TaskOutput its exit path uses.  The event loop runs   *)
(* one callback, or one task up to its next await, at a time: each such    *)
(* piece of code is one action here.  The child process, the kernel and    *)
(* the worker threads that read, stat and unlink the output file run       *)
(* beside the loop and are actions of their own.                           *)
(*                                                                         *)
(* A future is the set of its values: {} while it is pending, {v} once it  *)
(* has been resolved with v.                                               *)
(***************************************************************************)
EXTENDS Integers

CONSTANTS
    TaskIds,    \* the ids a host passes to background()
    NoId,       \* None, the initial background_task_id
    ExitCodes,  \* the exit codes with which a child may end by itself
    Signals,    \* the signals somebody else may end it with
    MaxRead,    \* get_max_output_length(): output returned inline at most
    MaxOutput,  \* max_output_bytes: the size watchdog's limit
    MaxSize     \* bound of the model: output a child ever produces

SIGKILL == 9
SIGTERM == 15
SIGKILL_CODE == 137
SIGTERM_CODE == 143

ASSUME IdsAssumption == NoId \notin TaskIds
ASSUME CodesAssumption == /\ ExitCodes \subseteq 0 .. 255
                          /\ Signals \subseteq Nat \ {0}
ASSUME SizesAssumption == /\ MaxRead \in Nat
                          /\ MaxOutput \in Nat
                          /\ MaxSize \in Nat

VARIABLES
    cmd,           \* how it was started, see Commands
    status,        \* self._status
    taskId,        \* self._background_task_id
    killedForSize, \* self._killed_for_size
    callback,      \* self._on_timeout_callback is set
    exitCode,      \* self._exit_code_future
    handler,       \* the _handle_exit task, see Handlers
    result,        \* self.result
    abandoned,     \* self.result was cancelled by the caller awaiting it
    timer,         \* self._timeout_handle: "armed" or "off"
    abortWatch,    \* self._abort_task, see Watchers
    reason,        \* AbortContext._reason, "none" before the first abort()
    demanded,      \* history: the reasons given to abort() so far
    watchdog,      \* self._watchdog_task, see Watchdogs
    cleaned,       \* cleanup() was called: the pipe readers are cancelled
    proc,          \* the child, see Processes
    rc,            \* its return code, once it has exited
    size,          \* bytes the child has written to its output file
    file,          \* the output file, see Files
    seen,          \* bytes of it that get_stdout() returned
    redundant,     \* TaskOutput._output_file_redundant
    spilled        \* pipe mode: TaskOutput._disk exists

hostVars == <<abandoned, cleaned, callback>>
listenVars == <<timer, abortWatch, watchdog>>
abortVars == <<reason, demanded>>
exitVars == <<exitCode, handler>>
procVars == <<proc, rc>>
readVars == <<seen, redundant>>
fileVars == <<size, file, spilled>>
vars == <<cmd, status, taskId, killedForSize, exitVars, result, hostVars,
          listenVars, abortVars, procVars, fileVars, readVars>>

Statuses == {"running", "backgrounded", "completed", "killed"}

(* file: output goes to a file the child holds open (else through pipes);  *)
(* autoBg: should_auto_background; killable: the kernel lets the host      *)
(* signal the child's group (not so after it has changed user); lingers:   *)
(* a descendant outlives the child and keeps its output open.              *)
Commands == [file : BOOLEAN, autoBg : BOOLEAN, killable : BOOLEAN, lingers : BOOLEAN]

Handlers == {"none", "queued", "reading", "read", "done"}
Watchers == {"waiting", "ended", "killed", "off"}
Watchdogs == {"off", "sleeping", "statting", "over"}

(* dying: SIGKILL was sent; exited: the exit is not yet seen by the loop,  *)
(* process.returncode is None; reaped: process.returncode is set.          *)
Processes == {"alive", "dying", "exited", "reaped"}
Writing == {"alive", "dying"}

(* none: pipe mode; deleting: delete_output_file() is scheduled; gone: it  *)
(* has unlinked the file; removed: the host has (cleanup_task_output).     *)
Files == {"none", "present", "deleting", "gone", "removed"}
Notes == {"none", "size", "timeout"}

ReturnCodes == ExitCodes \cup {-s : s \in Signals \cup {SIGKILL}}

(* _wait_for_exit: death by a signal is 144 for SIGTERM and 1 for others.  *)
MapRc(code) == IF code < 0 THEN IF code = -SIGTERM THEN 144 ELSE 1 ELSE code

ResultCodes == {MapRc(c) : c \in ReturnCodes} \cup {SIGKILL_CODE, SIGTERM_CODE}

(* An ExecResult: path, it names the output file; inline, the bytes of     *)
(* output in stdout; saved, stdout is the notice of a spilled pipe.        *)
Results == [code : ResultCodes, taskId : TaskIds \cup {NoId}, note : Notes,
            path : BOOLEAN, inline : 0 .. MaxRead, saved : BOOLEAN]

Init ==
    /\ cmd \in Commands
    /\ status = "running"
    /\ taskId = NoId
    /\ killedForSize = FALSE
    /\ callback = FALSE
    /\ exitCode = {}
    /\ handler = "none"
    /\ result = {}
    /\ abandoned = FALSE
    /\ timer = "armed"
    /\ abortWatch = "waiting"
    /\ reason = "none"
    /\ demanded = {}
    /\ watchdog = "off"
    /\ cleaned = FALSE
    /\ proc = "alive"
    /\ rc = 0
    /\ size = 0
    /\ file = IF cmd.file THEN "present" ELSE "none"
    /\ seen = 0
    /\ redundant = FALSE
    /\ spilled = FALSE

-----------------------------------------------------------------------------
(* The child, the kernel and the host's own steps.                         *)

ChildWrite ==
    /\ cmd.file
    /\ proc \in Writing \/ cmd.lingers
    /\ size < MaxSize
    /\ size' = size + 1
    /\ UNCHANGED <<cmd, status, taskId, killedForSize, exitVars, result, hostVars,
                   listenVars, abortVars, procVars, file, spilled, readVars>>

(* Pipe mode: a reader's chunk does not fit the memory buffers.            *)
Overflow ==
    /\ ~cmd.file /\ ~cleaned
    /\ ~spilled
    /\ spilled' = TRUE
    /\ UNCHANGED <<cmd, status, taskId, killedForSize, exitVars, result, hostVars,
                   listenVars, abortVars, procVars, size, file, readVars>>

ChildExit(code) ==
    /\ proc = "alive"
    /\ proc' = "exited"
    /\ rc' = code
    /\ UNCHANGED <<cmd, status, taskId, killedForSize, exitVars, result, hostVars,
                   listenVars, abortVars, fileVars, readVars>>

ChildDies ==
    /\ proc = "dying"
    /\ proc' = "exited"
    /\ rc' = -SIGKILL
    /\ UNCHANGED <<cmd, status, taskId, killedForSize, exitVars, result, hostVars,
                   listenVars, abortVars, fileVars, readVars>>

(* asyncio's child watcher reports the exit to the loop.                   *)
Reap ==
    /\ proc = "exited"
    /\ proc' = "reaped"
    /\ UNCHANGED <<cmd, status, taskId, killedForSize, exitVars, result, hostVars,
                   listenVars, abortVars, rc, fileVars, readVars>>

(* AbortContext.abort(): every call overwrites the reason.                 *)
Abort(why) ==
    /\ reason' = why
    /\ demanded' = demanded \cup {why}
    /\ UNCHANGED <<cmd, status, taskId, killedForSize, exitVars, result, hostVars,
                   listenVars, procVars, fileVars, readVars>>

(* cleanup_task_output() by the host.                                      *)
RemoveFile ==
    /\ file \in {"present", "deleting"}
    /\ file' = "removed"
    /\ UNCHANGED <<cmd, status, taskId, killedForSize, exitVars, result, hostVars,
                   listenVars, abortVars, procVars, size, spilled, readVars>>

(* A caller awaiting self.result is cancelled, and the future with it.     *)
AbandonResult ==
    /\ result = {} /\ ~abandoned
    /\ abandoned' = TRUE
    /\ UNCHANGED <<cmd, status, taskId, killedForSize, exitVars, result, cleaned,
                   callback, listenVars, abortVars, procVars, fileVars, readVars>>

SetOnTimeout ==
    /\ cmd.autoBg /\ ~callback
    /\ callback' = TRUE
    /\ UNCHANGED <<cmd, status, taskId, killedForSize, exitVars, result, abandoned,
                   cleaned, listenVars, abortVars, procVars, fileVars, readVars>>

-----------------------------------------------------------------------------
(* Pieces the handlers share.                                              *)

StopWatchdog == watchdog' = "off"

StopTimerAndAbortWatch ==
    /\ timer' = "off"
    /\ abortWatch' = IF abortWatch = "waiting" THEN "off" ELSE abortWatch

(* A fault: the size watchdog is left running.                             *)
CleanupListenersButWatchdog == StopTimerAndAbortWatch /\ UNCHANGED watchdog

(* _cleanup_listeners                                                      *)
CleanupListeners == StopTimerAndAbortWatch /\ StopWatchdog

(* A fault: every code is taken, not only the first.                       *)
ResolveEveryCode(code) == exitCode' = exitCode \cup {code} /\ handler' = "queued"

(* _resolve_exit_code: the first code wins and starts _handle_exit.        *)
ResolveExitCode(code) ==
    IF exitCode = {}
    THEN exitCode' = {code} /\ handler' = "queued"
    ELSE UNCHANGED exitVars

(* A fault: nothing is signalled.                                          *)
TreeKillNothing == UNCHANGED proc

(* _tree_kill returns: the child got SIGKILL, or there is none any more.   *)
TreeKill ==
    \/ proc \notin Writing /\ UNCHANGED proc
    \/ cmd.killable /\ proc \in Writing /\ proc' = "dying"

(* _tree_kill raises PermissionError, and nothing of _do_kill after it is  *)
(* executed.                                                               *)
TreeKillDenied == ~cmd.killable /\ proc # "reaped" /\ UNCHANGED proc

(* A fault: the exit code is left to _wait_for_exit.                       *)
DoKillUnresolved(code) ==
    /\ status' = "killed"
    /\ TreeKill \/ TreeKillDenied
    /\ UNCHANGED exitVars

(* _do_kill                                                                *)
DoKill(code) ==
    /\ status' = "killed"
    /\ \/ TreeKill /\ ResolveExitCode(code)
       \/ TreeKillDenied /\ UNCHANGED exitVars

-----------------------------------------------------------------------------
(* The host's calls.                                                       *)

(* Faults: background() accepts whatever is not killed, or not resolved.   *)
CanBackgroundUnkilled == status # "killed"
CanBackgroundUnresolved == exitCode = {}

CanBackground == status = "running"

(* background(id) that returns True; one that returns False does nothing.  *)
Background(id) ==
    /\ CanBackground
    /\ taskId' = id
    /\ status' = "backgrounded"
    /\ StopTimerAndAbortWatch
    /\ watchdog' = IF cmd.file THEN "sleeping" ELSE "off"
    /\ spilled' = (spilled \/ ~cmd.file)
    /\ UNCHANGED <<cmd, killedForSize, exitVars, result, hostVars, abortVars,
                   procVars, size, file, readVars>>

Kill ==
    /\ DoKill(SIGKILL_CODE)
    /\ UNCHANGED <<cmd, taskId, killedForSize, result, hostVars, listenVars,
                   abortVars, rc, fileVars, readVars>>

Cleanup ==
    /\ cleaned' = TRUE
    /\ CleanupListeners
    /\ UNCHANGED <<cmd, status, taskId, killedForSize, exitVars, result, abandoned,
                   callback, abortVars, procVars, fileVars, readVars>>

-----------------------------------------------------------------------------
(* The loop's callbacks and tasks.                                         *)

(* A fault: only the exit of a foreground command is looked at.            *)
WaitForForegroundExit ==
    /\ proc = "reaped" /\ exitCode = {} /\ status = "running"
    /\ ResolveExitCode(MapRc(rc))
    /\ UNCHANGED <<cmd, status, taskId, killedForSize, result, hostVars, listenVars,
                   abortVars, procVars, fileVars, readVars>>

(* _wait_for_exit, never cancelled, resumes.                               *)
WaitForExit ==
    /\ proc = "reaped" /\ exitCode = {}
    /\ ResolveExitCode(MapRc(rc))
    /\ UNCHANGED <<cmd, status, taskId, killedForSize, result, hostVars, listenVars,
                   abortVars, procVars, fileVars, readVars>>

(* A fault: an auto-background command without a callback is not killed.   *)
OffersToNobody == cmd.autoBg

(* The callback gets self.background: calling it is a Background(id) step, *)
(* at once or later.                                                       *)
OffersBackground == cmd.autoBg /\ callback

(* _handle_timeout                                                         *)
HandleTimeout ==
    /\ timer = "armed"
    /\ timer' = "off"
    /\ IF OffersBackground
       THEN UNCHANGED <<status, proc, exitVars>>
       ELSE DoKill(SIGTERM_CODE)
    /\ UNCHANGED <<cmd, taskId, killedForSize, result, hostVars, abortWatch, watchdog,
                   abortVars, rc, fileVars, readVars>>

(* A fault: an abort of any reason leaves the command alone.               *)
WatchAbortByAnyReason ==
    /\ abortWatch = "waiting" /\ demanded # {}
    /\ abortWatch' = "ended"
    /\ UNCHANGED <<cmd, status, taskId, killedForSize, exitVars, result, hostVars, timer,
                   watchdog, abortVars, procVars, fileVars, readVars>>

(* _watch_abort resumes after the event was set, and looks at the reason   *)
(* only now.                                                               *)
WatchAbort ==
    /\ abortWatch = "waiting" /\ demanded # {}
    /\ IF reason = "interrupt"
       THEN abortWatch' = "ended" /\ UNCHANGED <<status, proc, exitVars>>
       ELSE abortWatch' = "killed" /\ DoKill(SIGKILL_CODE)
    /\ UNCHANGED <<cmd, taskId, killedForSize, result, hostVars, timer, watchdog,
                   abortVars, rc, fileVars, readVars>>

(* Faults: a killed command reads completed; a background task's file is   *)
(* deleted like any other.                                                 *)
EndedStatusAnyway == "completed"
DeletesAnyRedundant == redundant

(* The status _handle_exit leaves: a killed command stays killed.          *)
EndedStatus == IF status \in {"running", "backgrounded"} THEN "completed" ELSE status

DeletesFile == taskId = NoId /\ redundant

NoteFor(code) == IF killedForSize THEN "size"
                 ELSE IF code = SIGTERM_CODE THEN "timeout" ELSE "none"

ExecResult(code) ==
    [code |-> code, taskId |-> taskId, note |-> NoteFor(code),
     path |-> cmd.file /\ taskId = NoId /\ ~redundant,
     inline |-> seen, saved |-> spilled]

(* The rest of _handle_exit, once get_stdout() has returned.               *)
Deliver ==
    /\ handler' = "done"
    /\ result' = IF abandoned THEN {} ELSE {ExecResult(code) : code \in exitCode}
    /\ file' = IF DeletesFile /\ file = "present" THEN "deleting" ELSE file

(* _handle_exit up to its first suspension.  In pipe mode get_stdout()     *)
(* does not suspend, and the same step delivers the result.                *)
BeginExit ==
    /\ handler = "queued"
    /\ CleanupListeners
    /\ status' = EndedStatus
    /\ IF cmd.file
       THEN handler' = "reading" /\ UNCHANGED <<result, file>>
       ELSE Deliver
    /\ UNCHANGED <<cmd, taskId, killedForSize, exitCode, hostVars, abortVars, procVars,
                   size, spilled, readVars>>

(* A fault: an off-by-one in what counts as read in full.                  *)
RedundantButOne(total, read) == total <= read + 1

Redundant(total, read) == total <= read

(* read_file_range: how much of a file of that size is read.               *)
BytesRead(total) == IF total < MaxRead THEN total ELSE MaxRead

(* The worker thread of get_stdout(): it reads the file's head; an empty   *)
(* file, or none, is redundant; a file that cannot be read is kept.        *)
ReadOutput ==
    /\ handler = "reading"
    /\ handler' = "read"
    /\ \/ /\ file = "present"
          /\ seen' = BytesRead(size)
          /\ redundant' = Redundant(size, seen')
       \/ /\ file = "removed"
          /\ seen' = 0
          /\ redundant' = TRUE
       \/ UNCHANGED readVars
    /\ UNCHANGED <<cmd, status, taskId, killedForSize, exitCode, result, hostVars,
                   listenVars, abortVars, procVars, fileVars>>

FinishExit ==
    /\ handler = "read"
    /\ Deliver
    /\ UNCHANGED <<cmd, status, taskId, killedForSize, exitCode, hostVars, listenVars,
                   abortVars, procVars, size, spilled, readVars>>

(* delete_output_file: a failing unlink is ignored and leaves the file.    *)
DeleteOutput ==
    /\ file = "deleting"
    /\ file' \in {"gone", "present"}
    /\ UNCHANGED <<cmd, status, taskId, killedForSize, exitVars, result, hostVars,
                   listenVars, abortVars, procVars, size, spilled, readVars>>

(* _size_watchdog_loop: the sleep is over.                                 *)
WatchdogWake ==
    /\ watchdog = "sleeping"
    /\ watchdog' = IF status = "backgrounded" THEN "statting" ELSE "off"
    /\ UNCHANGED <<cmd, status, taskId, killedForSize, exitVars, result, hostVars,
                   timer, abortWatch, abortVars, procVars, fileVars, readVars>>

Oversize == size > MaxOutput

(* A fault: the watchdog looks only once.                                  *)
WatchdogStatOnce ==
    /\ watchdog = "statting"
    /\ watchdog' = IF file = "present" /\ Oversize THEN "over" ELSE "off"
    /\ UNCHANGED <<cmd, status, taskId, killedForSize, exitVars, result, hostVars,
                   timer, abortWatch, abortVars, procVars, fileVars, readVars>>

(* Its thread stats the file; a missing file only means another round.     *)
WatchdogStat ==
    /\ watchdog = "statting"
    /\ watchdog' = IF file = "present" /\ Oversize THEN "over" ELSE "sleeping"
    /\ UNCHANGED <<cmd, status, taskId, killedForSize, exitVars, result, hostVars,
                   timer, abortWatch, abortVars, procVars, fileVars, readVars>>

(* It resumes with a size over the limit.                                  *)
WatchdogKill ==
    /\ watchdog = "over"
    /\ IF status = "backgrounded"
       THEN /\ killedForSize' = TRUE
            /\ StopWatchdog
            /\ DoKill(SIGKILL_CODE)
       ELSE /\ watchdog' = "sleeping"
            /\ UNCHANGED <<killedForSize, status, proc, exitVars>>
    /\ UNCHANGED <<cmd, taskId, result, hostVars, timer, abortWatch, abortVars, rc,
                   fileVars, readVars>>

-----------------------------------------------------------------------------
Environment ==
    \/ ChildWrite
    \/ Overflow
    \/ \E code \in ExitCodes \cup {-s : s \in Signals} : ChildExit(code)
    \/ ChildDies
    \/ Reap
    \/ \E why \in {"plain", "interrupt"} : Abort(why)
    \/ RemoveFile
    \/ AbandonResult

Host ==
    \/ SetOnTimeout
    \/ \E id \in TaskIds : Background(id)
    \/ Kill
    \/ Cleanup

Loop ==
    \/ WaitForExit
    \/ HandleTimeout
    \/ WatchAbort
    \/ BeginExit
    \/ ReadOutput
    \/ FinishExit
    \/ DeleteOutput
    \/ WatchdogWake
    \/ WatchdogStat
    \/ WatchdogKill

Next == Environment \/ Host \/ Loop

Spec == Init /\ [][Next]_vars

(***************************************************************************)
(* Fairness: the loop runs every ready callback, its timers fire, worker   *)
(* threads answer, the kernel ends a killed process and asyncio reaps it.  *)
(* A child need not end by itself, and nobody need call anything.  With    *)
(* pipes, process.wait() returns only after both have been read to their   *)
(* end (in CPython 3.11, which the project supports).  A descendant that   *)
(* lingers may keep them open for good, and after cleanup() nobody reads   *)
(* them, so that asyncio stops at its buffer's limit: WaitForExit is not   *)
(* fair then.                                                              *)
(***************************************************************************)
PipesStayOpen == ~cmd.file /\ (cmd.lingers \/ cleaned)

Fairness ==
    /\ WF_vars(ChildDies) /\ WF_vars(Reap)
    /\ WF_vars(~PipesStayOpen /\ WaitForExit)
    /\ WF_vars(HandleTimeout) /\ WF_vars(WatchAbort)
    /\ WF_vars(BeginExit) /\ WF_vars(ReadOutput) /\ WF_vars(FinishExit)
    /\ WF_vars(DeleteOutput)
    /\ WF_vars(WatchdogWake) /\ WF_vars(WatchdogStat) /\ WF_vars(WatchdogKill)

FairSpec == Spec /\ Fairness

-----------------------------------------------------------------------------
(* Every future holds at most one value, and every variable a value of its *)
(* kind: in particular no second code reaches _exit_code_future, which     *)
(* asyncio would answer with InvalidStateError.                            *)
TypeOK ==
    /\ cmd \in Commands
    /\ status \in Statuses
    /\ taskId \in TaskIds \cup {NoId}
    /\ killedForSize \in BOOLEAN
    /\ callback \in BOOLEAN
    /\ exitCode = {} \/ \E c \in ResultCodes : exitCode = {c}
    /\ handler \in Handlers
    /\ result = {} \/ \E r \in Results : result = {r}
    /\ abandoned \in BOOLEAN
    /\ timer \in {"armed", "off"}
    /\ abortWatch \in Watchers
    /\ reason \in {"none", "plain", "interrupt"}
    /\ demanded \in SUBSET {"plain", "interrupt"}
    /\ watchdog \in Watchdogs
    /\ cleaned \in BOOLEAN
    /\ proc \in Processes
    /\ rc \in ReturnCodes \cup {0}
    /\ size \in 0 .. MaxSize
    /\ file \in Files
    /\ seen \in 0 .. MaxRead
    /\ redundant \in BOOLEAN
    /\ spilled \in BOOLEAN

(* A command that reads "completed" ended by itself: its child has been    *)
(* reaped and the code delivered is the child's own, so a kill, whoever    *)
(* ordered it and however it raced with the exit, never reads as success.  *)
CompletedMeansExited ==
    status = "completed" => proc = "reaped" /\ exitCode = {MapRc(rc)}

(* Once the exit is being handled nothing is left that could still kill:   *)
(* neither the timeout, nor the abort watcher, nor the size watchdog.      *)
NoListenerAfterExit ==
    handler \in {"reading", "read", "done"} =>
        timer = "off" /\ abortWatch # "waiting" /\ watchdog = "off"

(* A host whose background(id) returned True gets a result that says so,   *)
(* and a result that names a background task names the one it was given;   *)
(* through pipes its stdout then points to the file with the full output.  *)
AckedBackgroundReported ==
    \A r \in result : /\ r.taskId = taskId
                      /\ taskId # NoId /\ ~cmd.file => r.saved

(* Deleting the output file of a command that ran to its end loses nothing *)
(* its child wrote: the result holds all of it inline.  (Descendants that  *)
(* outlive the child may write on: that output is lost.)                   *)
OutputAccounted ==
    /\ file \in {"deleting", "gone"}
    /\ status = "completed"
    /\ ~cmd.lingers
    => \A r \in result : r.inline = size

(* The engine never deletes a file the host has been pointed to: that of a *)
(* background task, or one a delivered result names.                       *)
NamedFileKept ==
    file \in {"deleting", "gone"} => /\ taskId = NoId
                                     /\ \A r \in result : ~r.path

Outcome == INSTANCE CommandOutcome WITH outcome <- {r.taskId : r \in result}

(* Refinement: to the host a command is a CommandOutcome.                  *)
ImplementsOutcome == Outcome!Spec

-----------------------------------------------------------------------------
Settled == result # {} \/ abandoned

(* A child that has exited gets its result delivered, in the background    *)
(* too and whatever the host calls meanwhile, unless its pipes are left    *)
(* open by a descendant or unread by an early cleanup().                   *)
ExitDelivers == (proc = "reaped" /\ ~PipesStayOpen) ~> (Settled \/ PipesStayOpen)

(* Killing a child that can be killed delivers a result.                   *)
KillDelivers == (status = "killed" /\ cmd.killable) ~> Settled

(* ... and leaves no zombie: the signal is sent, whoever kills it.         *)
KilledChildReaped == (status = "killed" /\ cmd.killable) ~> (proc = "reaped")

(* A foreground command that nobody can put in the background is over      *)
(* within its timeout, unless the host disarms it by an early cleanup().   *)
TimeoutBounds ==
    (timer = "armed" /\ cmd.killable /\ ~callback)
        ~> (Settled \/ callback \/ cleaned \/ status = "backgrounded")

(* A background command whose output file has outgrown the limit is ended  *)
(* by the watchdog, unless the host took the file or the watchdog away.    *)
OversizeKilled ==
    (status = "backgrounded" /\ cmd.file /\ cmd.killable /\ Oversize)
        ~> (status # "backgrounded" \/ file = "removed" \/ cleaned)

(* README.md:124, "abort.abort()  # kill": a command in the foreground     *)
(* whose context is aborted without a reason is killed, if it does not end *)
(* first, unless an abort with reason interrupt comes before or after it,  *)
(* or an early cleanup().                                                  *)
AbortKills ==
    (demanded = {"plain"} /\ status = "running")
        ~> (status # "running" \/ "interrupt" \in demanded \/ cleaned)

-----------------------------------------------------------------------------
(* README.md:124, "abort.abort()  # kill -> code 137": while a command     *)
(* runs on after an abort without a reason, somebody is there to kill it.  *)
PlainAbortHeeded ==
    reason = "plain" /\ status = "running" => abortWatch = "waiting" \/ cleaned
=============================================================================
