--------------------------- MODULE CommandOutcome ---------------------------
(***************************************************************************)
(* What a ShellCommand promises the host that awaits its result: the       *)
(* abstract specification that ShellCommand implements.                    *)
(*                                                                         *)
(* A command is put in the background at most once, and only while it is   *)
(* running.  It ends completed or killed, a kill being accepted at any     *)
(* time and never taken back.  It answers at most once, only when it has   *)
(* ended, and the answer carries the background id the host was given, or  *)
(* none if it was given none.                                              *)
(***************************************************************************)
CONSTANTS TaskIds, \* background ids the host may choose
          NoId     \* None: the command was not put in the background

VARIABLES status,  \* what ShellCommand.status reads
          taskId,  \* the id of the one accepted background() call, or NoId
          outcome  \* {} until the command answers, then {the id it reports}

vars == <<status, taskId, outcome>>

Init == /\ status = "running"
        /\ taskId = NoId
        /\ outcome = {}

(* background() is accepted: it returns True to the host.                  *)
Background(id) ==
    /\ status = "running"
    /\ status' = "backgrounded"
    /\ taskId' = id
    /\ UNCHANGED outcome

Kill ==
    /\ status' = "killed"
    /\ UNCHANGED <<taskId, outcome>>

Ended == IF status = "killed" THEN "killed" ELSE "completed"

Finish ==
    /\ status' = Ended
    /\ UNCHANGED <<taskId, outcome>>

(* The answer.  It may be the same step as the end of the command.         *)
Answer ==
    /\ outcome = {}
    /\ status' = Ended
    /\ outcome' = {taskId}
    /\ UNCHANGED taskId

Next == \/ \E id \in TaskIds : Background(id)
        \/ Kill
        \/ Finish
        \/ Answer

Spec == Init /\ [][Next]_vars
=============================================================================
