---------------------------- MODULE BashToolRun -----------------------------
(***************************************************************************)
(* One call of BashTool.run (tool/bash_tool.py) and the command it runs.   *)
(* The command is its abstract self, CommandOutcome, which ShellCommand    *)
(* implements; added to it is what run depends on besides: the timer that  *)
(* calls run back, and the first piece of the exit path, which ends it.    *)
(* run suspends while the host's hook mints a task id, for the progress    *)
(* threshold, and in its progress loop; the coroutine _go, started by the  *)
(* timer, mints an id beside it.                                           *)
(***************************************************************************)
CONSTANTS TaskIds, \* ids a hook, or generate_task_id, may mint
          NoId     \* None

ASSUME IdsAssumption == NoId \notin TaskIds

VARIABLES
    request,   \* the call, see Requests
    status,    \* the command's status
    taskId,    \* the id of its accepted background() call
    outcome,   \* its result, reduced to the id it carries; {} while pending
    ended,     \* its exit is being handled, or has been
    timer,     \* its timeout: "armed" or "off"
    run,       \* where run stands, see Stages
    go,        \* where _go stands: "none", "minting", "done" or "failed"
    backgroundShellId, \* background_shell_id, set by _go
    event,     \* progress_event
    polling,   \* the shared poller serves this command
    answer     \* what run returned: {} or {an element of Answers}

commandVars == <<status, taskId, outcome, ended, timer>>
goVars == <<go, backgroundShellId>>
vars == <<request, commandVars, run, goVars, event, polling, answer>>

(* explicit: run_in_background, and background tasks are not disabled;     *)
(* autoBg: should_auto_bg; hook: on_auto_background was given; spawned:    *)
(* exec() got a process, else its command is a pre-resolved one.           *)
Requests == [explicit : BOOLEAN, autoBg : BOOLEAN, hook : BOOLEAN, spawned : BOOLEAN]

(* expired: wait_for has timed out, and run has not resumed yet.           *)
Stages == {"called", "minting", "phase1", "expired", "phase2",
           "returned", "raised", "cancelled"}
Over == {"returned", "raised", "cancelled"}

(* result: it presents the command's result, else only that the command is *)
(* in the background; names: the id its text says the command runs under.  *)
Answers == [result : BOOLEAN, names : TaskIds \cup {NoId}]

Command == INSTANCE CommandOutcome

Init ==
    /\ request \in Requests
    /\ IF request.spawned
       THEN status = "running" /\ outcome = {} /\ ended = FALSE /\ timer = "armed"
       ELSE /\ status \in {"completed", "killed"}
            /\ outcome = {NoId} /\ ended = TRUE /\ timer = "off"
    /\ taskId = NoId
    /\ run = "called"
    /\ go = "none" /\ backgroundShellId = NoId
    /\ event = FALSE /\ polling = FALSE
    /\ answer = {}

-----------------------------------------------------------------------------
(* The command.                                                            *)

(* exec() and run up to its first suspension are one step: no step of the  *)
(* command comes before it.                                                *)
Live == request.spawned /\ run # "called"

(* Killed by the abort watcher, or by a host whose hook was given it.      *)
CommandKilled ==
    /\ Live
    /\ Command!Kill
    /\ UNCHANGED <<request, ended, timer, run, goVars, event, polling, answer>>

CommandEnds ==
    /\ Live /\ ~ended
    /\ Command!Finish
    /\ ended' = TRUE
    /\ timer' = "off"
    /\ UNCHANGED <<request, run, goVars, event, polling, answer>>

CommandAnswers ==
    /\ Live /\ ended
    /\ Command!Answer
    /\ UNCHANGED <<request, ended, timer, run, goVars, event, polling, answer>>

(* A fault: background() does not look at the status.                      *)
BackgroundFnAnyway(id) ==
    /\ status' = "backgrounded" /\ taskId' = id /\ timer' = "off"
    /\ UNCHANGED <<outcome, ended>>

(* background(id): its result is ignored wherever run or _go calls it.     *)
BackgroundFn(id) ==
    IF status = "running"
    THEN Command!Background(id) /\ timer' = "off" /\ UNCHANGED ended
    ELSE UNCHANGED commandVars

(* sc.cleanup(), of a command that has ended                               *)
CleanupCommand == timer' = "off" /\ UNCHANGED <<status, taskId, outcome, ended>>

-----------------------------------------------------------------------------
(* The timeout.  _timeout_cb is set only by a run that goes on to phase 1. *)

OffersBackground == request.autoBg /\ ~request.explicit

TimerFires ==
    /\ Live /\ timer = "armed"
    /\ timer' = "off"
    /\ IF OffersBackground
       THEN go' = "minting" /\ UNCHANGED status
       ELSE go' = go /\ status' = "killed"
    /\ UNCHANGED <<request, taskId, outcome, ended, run, backgroundShellId, event,
                   polling, answer>>

(* A fault: _go does not wake the progress loop.                           *)
GoMintedSilently(id) ==
    /\ go = "minting"
    /\ go' = "done"
    /\ BackgroundFn(id)
    /\ backgroundShellId' = id
    /\ UNCHANGED <<request, run, event, polling, answer>>

GoMinted(id) ==
    /\ go = "minting"
    /\ go' = "done"
    /\ BackgroundFn(id)
    /\ backgroundShellId' = id
    /\ event' = TRUE
    /\ UNCHANGED <<request, run, polling, answer>>

(* The hook raises: the exception stays in the task of _go.                *)
GoFails ==
    /\ go = "minting" /\ request.hook
    /\ go' = "failed"
    /\ UNCHANGED <<request, commandVars, run, backgroundShellId, event, polling, answer>>

-----------------------------------------------------------------------------
(* run.                                                                    *)

(* A fault: the answer is given without a call of background().            *)
ReturnBackgroundUncalled(id) ==
    /\ UNCHANGED commandVars
    /\ run' = "returned"
    /\ answer' = {[result |-> FALSE, names |-> id]}

(* An explicit request: background(), and run returns.                     *)
ReturnBackground(id) ==
    /\ BackgroundFn(id)
    /\ run' = "returned"
    /\ answer' = {[result |-> FALSE, names |-> id]}

(* Without a hook an id is minted without suspending.                      *)
CallExplicit ==
    /\ run = "called" /\ request.explicit
    /\ IF request.hook
       THEN run' = "minting" /\ UNCHANGED <<commandVars, answer>>
       ELSE \E id \in TaskIds : ReturnBackground(id)
    /\ UNCHANGED <<request, goVars, event, polling>>

Minted(id) ==
    /\ run = "minting"
    /\ ReturnBackground(id)
    /\ UNCHANGED <<request, goVars, event, polling>>

(* An exception of the hook is run's own.                                  *)
MintingFails ==
    /\ run = "minting"
    /\ run' = "raised"
    /\ UNCHANGED <<request, commandVars, goVars, event, polling, answer>>

CallForeground ==
    /\ run = "called" /\ ~request.explicit
    /\ run' = "phase1"
    /\ UNCHANGED <<request, commandVars, goVars, event, polling, answer>>

(* Phase 1 got the result, and presents it as it is; wait_for may return   *)
(* it even when its time is over.                                          *)
Phase1Result ==
    /\ run \in {"phase1", "expired"} /\ outcome # {}
    /\ CleanupCommand
    /\ run' = "returned"
    /\ answer' = {[result |-> TRUE, names |-> id] : id \in outcome}
    /\ UNCHANGED <<request, goVars, event, polling>>

(* wait_for times out, possibly although the result has just come.         *)
ThresholdPasses ==
    /\ run = "phase1"
    /\ run' = "expired"
    /\ UNCHANGED <<request, commandVars, goVars, event, polling, answer>>

(* run returns from, or never enters, the progress loop: the poller stops. *)
AnswerBackgrounded ==
    /\ run' = "returned"
    /\ answer' = {[result |-> FALSE, names |-> backgroundShellId]}
    /\ polling' = FALSE
    /\ UNCHANGED <<commandVars, event>>

(* The loop has seen the result: an id in it is taken out again.           *)
AnswerResult ==
    /\ CleanupCommand
    /\ run' = "returned"
    /\ answer' = {[result |-> TRUE, names |-> NoId]}
    /\ polling' = FALSE

EnterPhase2 ==
    /\ run = "expired"
    /\ \/ backgroundShellId # NoId /\ AnswerBackgrounded
       \/ backgroundShellId = NoId /\ outcome # {} /\ AnswerResult /\ event' = FALSE
       \/ /\ backgroundShellId = NoId /\ outcome = {}
          /\ run' = "phase2" /\ polling' = TRUE /\ event' = FALSE
          /\ UNCHANGED <<commandVars, answer>>
    /\ UNCHANGED <<request, goVars>>

(* The poller's callback.                                                  *)
Progress ==
    /\ polling /\ ~event
    /\ event' = TRUE
    /\ UNCHANGED <<request, commandVars, run, goVars, polling, answer>>

(* on_progress is called, and may raise; then the event is cleared for the *)
(* next round.                                                             *)
ReportProgress ==
    /\ \/ event' = FALSE /\ UNCHANGED <<run, polling>>
       \/ run' = "raised" /\ polling' = FALSE /\ UNCHANGED event
    /\ UNCHANGED <<commandVars, answer>>

(* The wait of the loop is over: the result is looked at first.            *)
Wake ==
    /\ run = "phase2" /\ (event \/ outcome # {})
    /\ \/ outcome # {} /\ AnswerResult /\ UNCHANGED event
       \/ outcome = {} /\ backgroundShellId # NoId /\ AnswerBackgrounded
       \/ outcome = {} /\ backgroundShellId = NoId /\ ReportProgress
    /\ UNCHANGED <<request, goVars>>

(* A fault: a cancelled run cleans its command up.                         *)
CancelRunAndCleanup ==
    /\ run \in {"minting", "phase1", "expired", "phase2"}
    /\ run' = "cancelled"
    /\ polling' = FALSE
    /\ CleanupCommand
    /\ UNCHANGED <<request, goVars, event, answer>>

(* The host cancels the task that awaits run: the command goes on.         *)
CancelRun ==
    /\ run \in {"minting", "phase1", "expired", "phase2"}
    /\ run' = "cancelled"
    /\ polling' = FALSE
    /\ UNCHANGED <<request, commandVars, goVars, event, answer>>

-----------------------------------------------------------------------------
CommandNext == CommandKilled \/ CommandEnds \/ CommandAnswers

GoNext ==
    \/ TimerFires
    \/ \E id \in TaskIds : GoMinted(id)
    \/ GoFails

RunNext ==
    \/ CallExplicit
    \/ \E id \in TaskIds : Minted(id)
    \/ MintingFails
    \/ CallForeground
    \/ Phase1Result
    \/ ThresholdPasses
    \/ EnterPhase2
    \/ Progress
    \/ Wake
    \/ CancelRun

Next == CommandNext \/ GoNext \/ RunNext

Spec == Init /\ [][Next]_vars

(***************************************************************************)
(* Fairness: the loop's timers fire and run resumes; a hook answers or     *)
(* raises.  A command that was killed ends and one that has ended answers, *)
(* as ShellCommand's KillDelivers and ExitDelivers say for a child that    *)
(* can be killed.  Nothing makes a command end by itself.                  *)
(***************************************************************************)
Fairness ==
    /\ WF_vars(CallExplicit) /\ WF_vars(CallForeground)
    /\ WF_vars(MintingFails \/ \E id \in TaskIds : Minted(id))
    /\ WF_vars(TimerFires)
    /\ WF_vars(GoFails \/ \E id \in TaskIds : GoMinted(id))
    /\ WF_vars(ThresholdPasses) /\ WF_vars(EnterPhase2) /\ WF_vars(Wake)
    /\ WF_vars(status = "killed" /\ CommandEnds) /\ WF_vars(CommandAnswers)

FairSpec == Spec /\ Fairness

-----------------------------------------------------------------------------
(* Every variable keeps its kind; a result carries the command's own id,   *)
(* and run answers exactly when it returns.                                *)
TypeOK ==
    /\ request \in Requests
    /\ status \in {"running", "backgrounded", "completed", "killed"}
    /\ taskId \in TaskIds \cup {NoId}
    /\ outcome \in {{}, {taskId}}
    /\ ended \in BOOLEAN
    /\ timer \in {"armed", "off"}
    /\ run \in Stages
    /\ go \in {"none", "minting", "done", "failed"}
    /\ backgroundShellId \in TaskIds \cup {NoId}
    /\ event \in BOOLEAN
    /\ polling \in BOOLEAN
    /\ answer = {} \/ \E a \in Answers : answer = {a}
    /\ (answer # {}) = (run = "returned")

(* A command in the foreground always has something that will end it or    *)
(* put it in the background, whatever became of the run that started it:   *)
(* its timer, or a _go that is minting.  (A hook that raises is the        *)
(* exception: such a command runs without any limit.)                      *)
SomebodyWatches ==
    status = "running" => timer = "armed" \/ go \in {"minting", "failed"}

(* run never returns with its command still in the foreground.             *)
NothingUnattended == run = "returned" => status # "running"

(* run comes to an end within the command's timeout, whenever timer, hook, *)
(* exit and kill come, unless the hook raises in _go: progress_event never *)
(* misses what the loop must see.                                          *)
RunReturns == <>(run \in Over \/ go = "failed")

-----------------------------------------------------------------------------
(* README.md:157, "background runs return a \"running in background with   *)
(* ID ...\" message": one that names an id comes of a command that is in   *)
(* the background under it, and not with the result of one that is over.   *)
BackgroundMessageTrue ==
    \A a \in answer : a.names # NoId => a.names = taskId /\ ~a.result
=============================================================================
