---------------------------- MODULE OutputPoller ----------------------------
(***************************************************************************)
(* The poller that all commands of a process share: the class attributes   *)
(* _registry, _active_polling and _poll_task of TaskOutput, and its        *)
(* methods start_polling, stop_polling, _poll_loop, _poll_once and clear   *)
(* (output/task_output.py).                                                *)
(*                                                                         *)
(* The poll task sleeps, takes a list of the active outputs, and for each  *)
(* awaits a thread that reads the tail of the file, and calls the host's   *)
(* on_progress.  start_polling, stop_polling and clear come in between, a  *)
(* cancelled task takes its time to end, and a new one may be started      *)
(* meanwhile.                                                              *)
(***************************************************************************)
EXTENDS Naturals

CONSTANTS
    Tasks,    \* outputs of commands, by task id: file mode, with on_progress
    Pollers,  \* bound of the model: poll tasks there are at a time
    NoPoller  \* None

ASSUME NoPollerAssumption == NoPoller \notin Pollers

VARIABLES
    cleared,   \* tasks after clear(): no _on_progress, not in _registry
    active,    \* _active_polling
    pollTask,  \* _poll_task
    stage,     \* where each poll task stands, see PollStages
    cancelled, \* poll tasks that were cancelled and have not noticed
    round,     \* the rest of the list each goes through
    current,   \* the output whose tail it awaits: {} or {a task}
    late       \* history: calls of on_progress since stop_polling or clear(), to 2

pollerVars == <<stage, cancelled, round, current>>
pollVars == <<cleared, active, pollTask, pollerVars, late>>

(* over: never created, or done; failed: done, by an exception.            *)
PollStages == {"over", "failed", "created", "sleeping", "reading"}

Done(p) == stage[p] \in {"over", "failed"}

PollInit ==
    /\ cleared = {} /\ active = {} /\ pollTask = NoPoller
    /\ stage = [p \in Pollers |-> "over"]
    /\ cancelled = {}
    /\ round = [p \in Pollers |-> {}] /\ current = [p \in Pollers |-> {}]
    /\ late = [t \in Tasks |-> 0]

-----------------------------------------------------------------------------
(* The calls.                                                              *)

CreatePoller ==
    \E p \in Pollers :
        /\ Done(p)
        /\ pollTask' = p
        /\ stage' = [stage EXCEPT ![p] = "created"]

(* A fault: every start creates a poll task.                               *)
NeedsPollerAlways == TRUE

NeedsPoller == IF pollTask = NoPoller THEN TRUE ELSE Done(pollTask)

StartPolling(t) ==
    /\ t \notin cleared
    /\ active' = active \cup {t}
    /\ IF NeedsPoller THEN CreatePoller ELSE UNCHANGED <<pollTask, stage>>
    /\ late' = [late EXCEPT ![t] = 0]
    /\ UNCHANGED <<cleared, cancelled, round, current>>

(* A fault: the poll task is cancelled, but not forgotten.                 *)
StopKeepingTask(t) ==
    /\ active' = active \ {t}
    /\ IF active' = {} /\ pollTask # NoPoller /\ ~Done(pollTask)
       THEN cancelled' = cancelled \cup {pollTask}
       ELSE UNCHANGED cancelled
    /\ UNCHANGED pollTask

(* A fault: the poll task is forgotten, but not cancelled.                 *)
StopLeavingTask(t) ==
    /\ active' = active \ {t}
    /\ pollTask' = IF active' = {} THEN NoPoller ELSE pollTask
    /\ UNCHANGED cancelled

(* The body of stop_polling.                                               *)
Stop(t) ==
    /\ active' = active \ {t}
    /\ IF active' = {} /\ pollTask # NoPoller
       THEN /\ pollTask' = NoPoller
            /\ cancelled' = IF Done(pollTask) THEN cancelled ELSE cancelled \cup {pollTask}
       ELSE UNCHANGED <<pollTask, cancelled>>

StopPolling(t) ==
    /\ Stop(t)
    /\ UNCHANGED <<cleared, stage, round, current, late>>

(* A fault: the poller goes on with an output that is cleared.             *)
ClearButPolling(t) ==
    /\ t \notin cleared
    /\ cleared' = cleared \cup {t}
    /\ late' = [late EXCEPT ![t] = 0]
    /\ UNCHANGED <<active, pollTask, pollerVars>>

Clear(t) ==
    /\ t \notin cleared
    /\ cleared' = cleared \cup {t}
    /\ Stop(t)
    /\ late' = [late EXCEPT ![t] = 0]
    /\ UNCHANGED <<stage, round, current>>

-----------------------------------------------------------------------------
(* The poll task.                                                          *)

Runs(p) == p \notin cancelled

(* The top of the while loop.                                              *)
LoopTop(p) ==
    /\ stage' = [stage EXCEPT ![p] = IF active # {} THEN "sleeping" ELSE "over"]
    /\ round' = [round EXCEPT ![p] = {}] /\ current' = [current EXCEPT ![p] = {}]

(* The for loop goes to the next entry that has a callback.                *)
Advance(p, rest) ==
    \/ \E t \in rest \ cleared :
           /\ stage' = [stage EXCEPT ![p] = "reading"]
           /\ round' = [round EXCEPT ![p] = rest \ {t}]
           /\ current' = [current EXCEPT ![p] = {t}]
    \/ rest \subseteq cleared /\ LoopTop(p)

FirstStep(p) ==
    /\ stage[p] = "created" /\ Runs(p)
    /\ LoopTop(p)
    /\ UNCHANGED <<cleared, active, pollTask, cancelled, late>>

Wakes(p) ==
    /\ stage[p] = "sleeping" /\ Runs(p)
    /\ Advance(p, active)
    /\ UNCHANGED <<cleared, active, pollTask, cancelled, late>>

(* A call of on_progress, counted if the output is not active any more.    *)
Counted(t) ==
    late' = [late EXCEPT ![t] = IF t \notin active /\ @ < 2 THEN @ + 1 ELSE @]

(* A fault: the callback is not looked at again after the read.            *)
ReportsAnyway(p, t) ==
    /\ stage[p] = "reading" /\ Runs(p) /\ current[p] = {t}
    /\ Counted(t)
    /\ Advance(p, round[p])
    /\ UNCHANGED <<cleared, active, pollTask, cancelled>>

(* The thread has answered, and on_progress is called.                     *)
Reports(p, t) ==
    /\ stage[p] = "reading" /\ Runs(p) /\ current[p] = {t}
    /\ t \notin cleared
    /\ Counted(t)
    /\ Advance(p, round[p])
    /\ UNCHANGED <<cleared, active, pollTask, cancelled>>

(* ... but clear() has removed the callback meanwhile.                     *)
Skips(p) ==
    /\ stage[p] = "reading" /\ Runs(p) /\ current[p] \subseteq cleared
    /\ Advance(p, round[p])
    /\ UNCHANGED <<cleared, active, pollTask, cancelled, late>>

(* The file cannot be read, or on_progress raises: nothing catches it.     *)
Fails(p) ==
    /\ stage[p] = "reading" /\ Runs(p)
    /\ stage' = [stage EXCEPT ![p] = "failed"]
    /\ round' = [round EXCEPT ![p] = {}] /\ current' = [current EXCEPT ![p] = {}]
    /\ UNCHANGED <<cleared, active, pollTask, cancelled, late>>

(* A cancelled task resumes with CancelledError, wherever it stands.       *)
CancelTakes(p) ==
    /\ p \in cancelled
    /\ cancelled' = cancelled \ {p}
    /\ stage' = [stage EXCEPT ![p] = "over"]
    /\ round' = [round EXCEPT ![p] = {}] /\ current' = [current EXCEPT ![p] = {}]
    /\ UNCHANGED <<cleared, active, pollTask, late>>

-----------------------------------------------------------------------------
PollerStep(p) ==
    \/ FirstStep(p)
    \/ Wakes(p)
    \/ \E t \in Tasks : Reports(p, t)
    \/ Skips(p)
    \/ Fails(p)
    \/ CancelTakes(p)

PollNext ==
    \/ \E t \in Tasks : StartPolling(t) \/ StopPolling(t) \/ Clear(t)
    \/ \E p \in Pollers : PollerStep(p)

PollSpec == PollInit /\ [][PollNext]_pollVars

(* The loop runs its tasks and timers, and the threads answer.             *)
PollFairness == \A p \in Pollers : WF_pollVars(PollerStep(p))

-----------------------------------------------------------------------------
(* Every variable keeps its kind; a poll task goes through a list only     *)
(* while it reads.                                                         *)
PollTypeOK ==
    /\ cleared \subseteq Tasks
    /\ active \subseteq Tasks \ cleared
    /\ pollTask \in Pollers \cup {NoPoller}
    /\ stage \in [Pollers -> PollStages]
    /\ cancelled \in SUBSET Pollers /\ \A p \in cancelled : ~Done(p)
    /\ round \in [Pollers -> SUBSET Tasks]
    /\ current \in [Pollers -> SUBSET Tasks]
    /\ \A p \in Pollers : IF stage[p] = "reading" THEN \E t \in Tasks : current[p] = {t}
                                                  ELSE round[p] = {} /\ current[p] = {}
    /\ late \in [Tasks -> 0 .. 2]

(* However starts and stops alternate, all poll tasks but the one the      *)
(* class knows have ended or are about to.                                 *)
OnePoller == \A p \in Pollers \ {pollTask} : Done(p) \/ p \in cancelled

(* While there is an active output the poll task is there, and was not     *)
(* cancelled; unless it has failed, for all outputs at once.               *)
SomebodyPolls ==
    active # {} => /\ pollTask \in Pollers \ cancelled
                   /\ stage[pollTask] # "over"

(* The poll task may be halfway through its list when an output is         *)
(* stopped: on_progress is called at most once more, however often polling *)
(* stops and starts, and not at all after clear().                         *)
FewLateReports == \A t \in Tasks : late[t] <= IF t \in cleared THEN 0 ELSE 1

PollTaskFailed == pollTask # NoPoller /\ stage[pollTask] = "failed"

(* An output that stays active is reported again and again, whatever       *)
(* others do, unless the one poll task fails.                              *)
EachIsReported ==
    \A t \in Tasks :
        \/ []<>(t \notin active)
        \/ []<>PollTaskFailed
        \/ []<><<\E p \in Pollers : Reports(p, t)>>_pollVars
=============================================================================
