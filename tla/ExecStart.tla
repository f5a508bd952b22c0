----------------------------- MODULE ExecStart ------------------------------
(***************************************************************************)
(* How concurrent calls of exec() come to their shells: exec() and         *)
(* _resolve_provider of engine/shell.py, the login-shell decision of       *)
(* providers/bash_provider.py, and the memoized snapshot of                *)
(* providers/snapshot.py.                                                  *)
(*                                                                         *)
(* All calls await one task that creates the snapshot, in a thread.  A     *)
(* call may be cancelled wherever it awaits: asyncio then cancels what it  *)
(* awaits, and the shared task is what it awaits.                          *)
(***************************************************************************)
CONSTANT Calls \* calls of exec(), all with one shell path

VARIABLES
    request,  \* the options of each call, see Options
    stage,    \* where each call stands, see Stages
    asked,    \* the calls whose task was cancelled
    startup,  \* how the call's shell starts, see Startups
    shell,    \* the shell of each call, see Shells
    fds,      \* the calls whose output file the host has open
    files,    \* the calls whose output file was created
    registry, \* the calls whose output is in TaskOutput._registry
    cache,    \* the task in _snapshot_cache, see Caches
    creation, \* the thread that runs the snapshot's script, see Creations
    snapshot  \* the snapshot file: "none" or "there", whatever is in it

callVars == <<stage, asked, startup, shell>>
heldVars == <<fds, files, registry>>
snapVars == <<cache, creation, snapshot>>
execVars == <<request, callVars, heldVars, snapVars>>

(* pipe: on_stdout is given; progress: on_progress is; skip: skip_snapshot *)
Options == {"pipe", "progress", "skip"}

(* awaiting: the shared task; spawning: create_subprocess_exec; reaping:   *)
(* the same, after a cancellation.  The rest have ended: with a command,   *)
(* which is over once it was cleaned up, a pre-resolved one, an error, or  *)
(* CancelledError.                                                         *)
Stages == {"idle", "awaiting", "spawning", "reaping",
           "command", "over", "refused", "raised", "cancelled"}
Ended == {"command", "over", "refused", "raised", "cancelled"}

Startups == {"none", "login", "source"}

Shells == {"none", "alive", "killed", "gone"}

(* cancelling: the task is to raise at its next step.  The rest are what   *)
(* it has ended with.                                                      *)
Caches == {"none", "running", "cancelling", "path", "nopath", "cancelled"}
Done == {"path", "nopath", "cancelled"}

Creations == {"none", "running", "succeeded", "failed"}

ExecInit ==
    /\ request \in [Calls -> SUBSET Options]
    /\ stage = [c \in Calls |-> "idle"]
    /\ asked = {}
    /\ startup = [c \in Calls |-> "none"]
    /\ shell = [c \in Calls |-> "none"]
    /\ fds = {} /\ files = {} /\ registry = {}
    /\ cache = "none" /\ creation = "none" /\ snapshot = "none"

-----------------------------------------------------------------------------
(* From the provider to the spawn, without suspension.                     *)

ToFile(c) == "pipe" \notin request[c]

Ends(c, how) == stage' = [stage EXCEPT ![c] = how] /\ UNCHANGED <<startup, shell>>

(* A directory that is gone, an abort: nothing was acquired.               *)
RefuseEarly(c) == Ends(c, "refused") /\ UNCHANGED heldVars

(* TaskOutput registers itself for progress.                               *)
Registers(c) == IF ToFile(c) /\ "progress" \in request[c] THEN {c} ELSE {}

(* os.makedirs or os.open raises, which no one catches.                    *)
FailToOpen(c) ==
    /\ Ends(c, "raised")
    /\ registry' = registry \cup Registers(c)
    /\ UNCHANGED <<fds, files>>

(* The spawn raises: the descriptor is closed, the file stays.             *)
FailToSpawn(c) ==
    /\ Ends(c, "refused")
    /\ registry' = registry \cup Registers(c)
    /\ files' = files \cup {d \in {c} : ToFile(d)}
    /\ UNCHANGED fds

(* A login shell, unless there is a snapshot and its file still exists.    *)
StartupWith(path) == IF path /\ snapshot # "none" THEN "source" ELSE "login"

(* The shell is started before the call suspends.                          *)
Spawn(c, path) ==
    /\ stage' = [stage EXCEPT ![c] = "spawning"]
    /\ startup' = [startup EXCEPT ![c] = StartupWith(path)]
    /\ shell' = [shell EXCEPT ![c] = "alive"]
    /\ registry' = registry \cup Registers(c)
    /\ files' = files \cup {d \in {c} : ToFile(d)}
    /\ fds' = fds \cup {d \in {c} : ToFile(d)}

Proceed(c, path) ==
    \/ RefuseEarly(c)
    \/ FailToOpen(c)
    \/ FailToSpawn(c)
    \/ Spawn(c, path)

-----------------------------------------------------------------------------
(* A call and the shared task.                                             *)

(* What follows "await task" once the task is done.                        *)
AfterAwait(c) ==
    \/ cache = "cancelled" /\ Ends(c, "cancelled") /\ UNCHANGED heldVars
    \/ cache # "cancelled" /\ Proceed(c, cache = "path")

(* find_suitable_shell finds none.                                         *)
FindNoShell(c) ==
    /\ stage[c] = "idle"
    /\ Ends(c, "raised")
    /\ UNCHANGED <<request, asked, heldVars, snapVars>>

(* Without a snapshot there is nothing to wait for.                        *)
ExecSkipping(c) ==
    /\ stage[c] = "idle" /\ "skip" \in request[c]
    /\ Proceed(c, FALSE)
    /\ UNCHANGED <<request, asked, snapVars>>

(* The task is created by the first call that has none, and awaited by it. *)
ExecAwaiting(c) ==
    /\ stage[c] = "idle" /\ "skip" \notin request[c]
    /\ cache \notin Done
    /\ stage' = [stage EXCEPT ![c] = "awaiting"]
    /\ cache' = IF cache = "none" THEN "running" ELSE cache
    /\ UNCHANGED <<request, asked, startup, shell, heldVars, creation, snapshot>>

(* Awaiting a task that is done does not suspend.                          *)
ExecWithTaskDone(c) ==
    /\ stage[c] = "idle" /\ "skip" \notin request[c]
    /\ cache \in Done
    /\ AfterAwait(c)
    /\ UNCHANGED <<request, asked, snapVars>>

(* The call's task is resumed, with CancelledError if it was cancelled.    *)
Resume(c) ==
    /\ stage[c] = "awaiting" /\ cache \in Done
    /\ \/ c \in asked /\ Ends(c, "cancelled") /\ UNCHANGED heldVars
       \/ c \notin asked /\ AfterAwait(c)
    /\ UNCHANGED <<request, asked, snapVars>>

(* wrap_spawn; the child has its own descriptor.                           *)
Attach(c) ==
    /\ stage[c] = "spawning"
    /\ stage' = [stage EXCEPT ![c] = "command"]
    /\ fds' = fds \ {c}
    /\ UNCHANGED <<request, asked, startup, shell, files, registry, snapVars>>

(* The command is over, and BashTool.run or the host cleans it up.         *)
CleanupCommand(c) ==
    /\ stage[c] = "command" /\ shell[c] = "gone"
    /\ stage' = [stage EXCEPT ![c] = "over"]
    /\ registry' = registry \ {c}
    /\ UNCHANGED <<request, asked, startup, shell, fds, files, snapVars>>

ShellEnds(c) ==
    /\ shell[c] \in {"alive", "killed"}
    /\ shell' = [shell EXCEPT ![c] = "gone"]
    /\ UNCHANGED <<request, stage, asked, startup, heldVars, snapVars>>

-----------------------------------------------------------------------------
(* Cancellation.                                                           *)

(* The call's task cancels the task it awaits, which is everybody's.  When *)
(* that is done already, only the call is cancelled, as it resumes.        *)
CancelAwaiting(c) ==
    /\ stage[c] = "awaiting" /\ c \notin asked
    /\ asked' = asked \cup {c}
    /\ cache' = IF cache \in Done THEN cache ELSE "cancelling"
    /\ UNCHANGED <<request, stage, startup, shell, heldVars, creation, snapshot>>

(* A fault: the shell goes on.                                             *)
CancelSpawningOnly(c) ==
    /\ stage[c] = "spawning"
    /\ asked' = asked \cup {c}
    /\ stage' = [stage EXCEPT ![c] = "cancelled"]
    /\ UNCHANGED <<request, startup, shell, heldVars, snapVars>>

(* asyncio's transport kills the shell, and waits for it; "except          *)
(* Exception" lets CancelledError pass, and no one closes the descriptor.  *)
CancelSpawning(c) ==
    /\ stage[c] = "spawning"
    /\ asked' = asked \cup {c}
    /\ stage' = [stage EXCEPT ![c] = "reaping"]
    /\ shell' = [shell EXCEPT ![c] = IF @ = "alive" THEN "killed" ELSE @]
    /\ UNCHANGED <<request, startup, heldVars, snapVars>>

(* The shell is reaped, or a second cancellation ends the wait for it.     *)
Reaped(c) ==
    /\ stage[c] = "reaping"
    /\ Ends(c, "cancelled")
    /\ UNCHANGED <<request, asked, heldVars, snapVars>>

-----------------------------------------------------------------------------
(* create_and_save_snapshot, and its thread.                               *)

(* The task's first step: the script is made and handed to a thread, or    *)
(* that fails, and there is no snapshot.                                   *)
StartCreation ==
    /\ cache = "running" /\ creation = "none"
    /\ \/ creation' = "running" /\ UNCHANGED cache
       \/ cache' = "nopath" /\ UNCHANGED creation
    /\ UNCHANGED <<request, callVars, heldVars, snapshot>>

(* A fault: an exit code other than 0 is only logged.                      *)
CreationEndsAnyhow ==
    /\ cache = "running" /\ creation \in {"failed", "succeeded"}
    /\ cache' = IF snapshot # "none" THEN "path" ELSE "nopath"
    /\ UNCHANGED <<request, callVars, heldVars, creation, snapshot>>

(* A fault: a failure is raised to those who await the task.               *)
CreationRaises ==
    /\ cache = "running" /\ creation \in {"failed", "succeeded"}
    /\ cache' = IF creation = "succeeded" THEN "path" ELSE "cancelled"
    /\ UNCHANGED <<request, callVars, heldVars, creation, snapshot>>

(* A fault: it waits for the file, whatever became of the script.          *)
CreationEndsWithFile ==
    /\ cache = "running" /\ creation \in {"failed", "succeeded"}
    /\ snapshot # "none" /\ cache' = "path"
    /\ UNCHANGED <<request, callVars, heldVars, creation, snapshot>>

(* The path, when the script succeeded and its file is there, else None.   *)
CreationEnds ==
    /\ cache = "running" /\ creation \in {"failed", "succeeded"}
    /\ cache' = IF creation = "succeeded" /\ snapshot # "none" THEN "path" ELSE "nopath"
    /\ UNCHANGED <<request, callVars, heldVars, creation, snapshot>>

(* CancelledError is no Exception: the task ends cancelled, and stays in   *)
(* the cache.  The thread, if there is one, goes on.                       *)
CreationCancelled ==
    /\ cache = "cancelling"
    /\ cache' = "cancelled"
    /\ UNCHANGED <<request, callVars, heldVars, creation, snapshot>>

ScriptWrites ==
    /\ creation = "running" /\ snapshot = "none"
    /\ snapshot' = "there"
    /\ UNCHANGED <<request, callVars, heldVars, cache, creation>>

(* Exit code 0, whatever is in the file: there is no set -e, and what the  *)
(* script ends with is the test that the file exists.  A write or a tool   *)
(* that fails leaves a part of a snapshot, an exit 0 in the user's         *)
(* configuration leaves none.                                              *)
ScriptSucceeds ==
    /\ creation = "running"
    /\ creation' = "succeeded"
    /\ UNCHANGED <<request, callVars, heldVars, cache, snapshot>>

(* It fails, or is killed after SNAPSHOT_CREATION_TIMEOUT_S.               *)
ScriptFails ==
    /\ creation = "running"
    /\ creation' = "failed"
    /\ UNCHANGED <<request, callVars, heldVars, cache, snapshot>>

SnapshotVanishes ==
    /\ snapshot # "none" /\ creation # "running"
    /\ snapshot' = "none"
    /\ UNCHANGED <<request, callVars, heldVars, cache, creation>>

-----------------------------------------------------------------------------
CallStep(c) ==
    \/ ExecSkipping(c)
    \/ ExecAwaiting(c)
    \/ ExecWithTaskDone(c)
    \/ FindNoShell(c)
    \/ Resume(c)
    \/ Attach(c)
    \/ Reaped(c)
    \/ CleanupCommand(c)

WorldStep(c) == ShellEnds(c) \/ CancelAwaiting(c) \/ CancelSpawning(c)

Creation ==
    \/ StartCreation
    \/ CreationEnds
    \/ CreationCancelled
    \/ ScriptWrites
    \/ ScriptSucceeds
    \/ ScriptFails

ExecNext ==
    \/ \E c \in Calls : CallStep(c) \/ WorldStep(c)
    \/ Creation
    \/ SnapshotVanishes

(* The loop resumes what can be resumed; the creation ends, by its timeout *)
(* at the latest; a killed shell dies.                                     *)
ExecFairness ==
    /\ \A c \in Calls : /\ WF_execVars(Resume(c) \/ Attach(c) \/ Reaped(c))
                        /\ WF_execVars(shell[c] = "killed" /\ ShellEnds(c))
    /\ WF_execVars(Creation)

ExecSpec == ExecInit /\ [][ExecNext]_execVars /\ ExecFairness

-----------------------------------------------------------------------------
Live(c) == stage[c] \in {"spawning", "command"}

(* Every variable keeps its kind, and a call has a shell exactly if it got *)
(* past the spawn.                                                         *)
ExecTypeOK ==
    /\ request \in [Calls -> SUBSET Options]
    /\ stage \in [Calls -> Stages]
    /\ asked \in SUBSET Calls
    /\ startup \in [Calls -> Startups]
    /\ shell \in [Calls -> Shells]
    /\ fds \in SUBSET Calls /\ files \in SUBSET Calls /\ registry \in SUBSET Calls
    /\ cache \in Caches /\ creation \in Creations
    /\ snapshot \in {"none", "there"}
    /\ \A c \in Calls : shell[c] = "none" <=> startup[c] = "none"

(* A shell is told to source a snapshot only when its script has ended by  *)
(* itself, with exit code 0: never the file that a cancelled creation's    *)
(* thread still writes, and never what is left of a script that failed or  *)
(* timed out.  (Not that it is whole: the exit code does not tell.)        *)
SourcedIsFinished ==
    \A c \in Calls : startup[c] = "source" => /\ creation = "succeeded"
                                            /\ "skip" \notin request[c]

(* The snapshot is best effort: whatever becomes of its creation and its   *)
(* file, short of a cancellation, no call fails for it; and a cancellation *)
(* cannot touch the calls that skip the snapshot.                          *)
SnapshotBestEffort ==
    \A c \in Calls : stage[c] = "cancelled" /\ c \notin asked =>
        /\ "skip" \notin request[c] /\ cache = "cancelled"
        /\ \E d \in asked : stage[d] \in {"awaiting", "cancelled"}

(* However calls end and are cancelled, a living shell is in the hands of  *)
(* a command or of the call that is about to return one, the host has an   *)
(* output file open only for a call that spawns or was cancelled in the    *)
(* spawn, and only commands and calls that failed after they had acquired  *)
(* something are registered.                                               *)
HeldByCalls ==
    /\ \A c \in Calls : shell[c] = "alive" => Live(c)
    /\ \A c \in fds : stage[c] \in {"spawning", "reaping", "cancelled"}
    /\ fds \subseteq files
    /\ \A c \in registry : stage[c] # "over" /\ ToFile(c)
    /\ \A c \in fds : stage[c] # "spawning" => c \in asked

(* Every call that awaits something ends, if only by CancelledError,       *)
(* whoever else is cancelled.                                              *)
CallsEnd == \A c \in Calls : stage[c] \in {"awaiting", "spawning"} ~> stage[c] \in Ended

-----------------------------------------------------------------------------
(* snapshot.py:149-150, "Returns the snapshot path, or None on failure",   *)
(* and :179, "snapshot is best-effort; fall back to -l": a call that       *)
(* nobody cancelled does not end with CancelledError.                      *)
OnlyAskedAreCancelled == \A c \in Calls : stage[c] = "cancelled" => c \in asked
=============================================================================
