----------------------------- MODULE ToolResult -----------------------------
(***************************************************************************)
(* From the result of a command to the tool_result the model sees:         *)
(* _build_run_result of tool/bash_tool.py, with tool/tool_result.py and    *)
(* tool/command_semantics.py.  While it works, and afterwards, the output  *)
(* file may vanish, a process the command left behind or that is still     *)
(* dying may write on, and the abort context may be used again.            *)
(***************************************************************************)
VARIABLES
    subject, \* the result, and what command it is of: see Subjects
    reason,  \* AbortContext.reason
    file,    \* the output file: "none", "within" or "over" MAX_PERSISTED_SIZE
    step,    \* of _build_run_result: "none", "stat", "truncate", "build", "done"
    named,   \* persisted_output_path is set
    block,   \* {} or {the tool_result}, see Blocks
    written  \* history: the file was written to since it was measured or cut

resultVars == <<subject, reason, file, step, named, block, written>>

Reasons == {"none", "plain", "interrupt"}

(* Exit codes: 0, 1, and all others; what 1 means to the command: a        *)
(* failure, or, as for grep and diff, an answer; files: the result gives   *)
(* the path of a file with more than stdout.                               *)
Subjects == [code : {"zero", "one", "other"}, lenient : BOOLEAN, interrupted : BOOLEAN,
             background : BOOLEAN, stdout : BOOLEAN, files : BOOLEAN]

(* What the content says.                                                  *)
Facts == {"code", "interrupted", "stdout", "file", "id"}
Blocks == [is_error : BOOLEAN, says : SUBSET Facts]

NoSubject == [code |-> "zero", lenient |-> FALSE, interrupted |-> FALSE,
              background |-> FALSE, stdout |-> FALSE, files |-> FALSE]

ResultInit ==
    /\ subject = NoSubject /\ reason = "none" /\ file = "none"
    /\ step = "none" /\ named = FALSE /\ block = {}
    /\ written = FALSE

-----------------------------------------------------------------------------
(* The command's result is there.  Only a code of its own, neither 0 nor   *)
(* 1, comes with interrupted, and a file with some output.                 *)
ResultArrives ==
    /\ step = "none"
    /\ step' = "stat"
    /\ subject' \in {s \in Subjects : (s.interrupted => s.code = "other") /\ (s.files => s.stdout)}
    /\ file' \in IF subject'.files THEN {"within", "over"} ELSE {"none"}
    /\ reason' \in Reasons
    /\ UNCHANGED <<named, block, written>>

(* interpret_command_result                                                *)
SemanticError == subject.code = "other" \/ (subject.code = "one" /\ ~subject.lenient)

(* os.path.getsize; an OSError leaves the path unset.                      *)
Stat ==
    /\ step = "stat"
    /\ step' = IF file = "over" THEN "truncate" ELSE "build"
    /\ named' = (file = "within")
    /\ written' = FALSE
    /\ UNCHANGED <<subject, reason, file, block>>

(* os.truncate, in a thread: it may fail.                                  *)
Truncate ==
    /\ step = "truncate"
    /\ step' = "build"
    /\ \/ /\ file = "over" /\ file' = "within"
          /\ named' = TRUE /\ written' = FALSE
       \/ UNCHANGED <<file, named, written>>
    /\ UNCHANGED <<subject, reason, block>>

(* A process that has the file open writes on.                             *)
GrowFile ==
    /\ file # "none"
    /\ file' \in {file, "over"}
    /\ written' = TRUE
    /\ UNCHANGED <<subject, reason, step, named, block>>

RemoveFile ==
    /\ file # "none" /\ step \in {"stat", "truncate", "build"}
    /\ file' = "none"
    /\ UNCHANGED <<subject, reason, step, named, block, written>>

(* abort(), although the command is over.                                  *)
AbortLate ==
    /\ step \in {"stat", "truncate", "build"}
    /\ reason' \in Reasons \ {"none"}
    /\ UNCHANGED <<subject, file, step, named, block, written>>

(* The error path has the code and the output; the persisted output and    *)
(* the background id are not its matter.                                   *)
ErrorPath ==
    [is_error |-> TRUE,
     says |-> {"code"} \cup {f \in {"interrupted"} : subject.interrupted}
                       \cup {f \in {"stdout"} : subject.stdout}]

DataPath ==
    [is_error |-> subject.interrupted,
     says |-> {f \in {"interrupted"} : subject.interrupted}
              \cup {f \in {"stdout"} : subject.stdout}
              \cup {f \in {"file"} : named}
              \cup {f \in {"id"} : subject.background}]

(* A fault: an abort of any reason counts as an interrupt.                 *)
IsInterruptOfAnyReason == subject.interrupted \/ reason = "interrupt"

IsInterrupt == subject.interrupted /\ reason = "interrupt"

(* build_tool_result                                                       *)
BuildToolResult ==
    /\ step = "build"
    /\ step' = "done"
    /\ block' = {IF SemanticError /\ ~IsInterrupt THEN ErrorPath ELSE DataPath}
    /\ UNCHANGED <<subject, reason, file, named, written>>

ResultNext ==
    \/ ResultArrives \/ Stat \/ Truncate \/ BuildToolResult
    \/ GrowFile \/ RemoveFile \/ AbortLate

ResultSpec == ResultInit /\ [][ResultNext]_resultVars

-----------------------------------------------------------------------------
(* However late aborts, later writers and a vanishing file interleave with *)
(* its steps, the tool_result is an error exactly if the command failed by *)
(* its own semantics or was interrupted, no late abort hides that, and it  *)
(* says which; what output there was is in it.  A result that is no error  *)
(* has the background id and names the file with the rest if that fits.  A *)
(* named file that does not fit has grown since it was measured or cut.    *)
ResultTells ==
    \A a \in block :
        /\ a.is_error <=> SemanticError \/ subject.interrupted
        /\ a.is_error => "code" \in a.says \/ "interrupted" \in a.says
        /\ "interrupted" \in a.says <=> subject.interrupted
        /\ subject.stdout => "stdout" \in a.says
        /\ ~a.is_error => /\ "id" \in a.says <=> subject.background
                          /\ file = "within" => "file" \in a.says
        /\ "file" \in a.says /\ file = "over" => written
=============================================================================
