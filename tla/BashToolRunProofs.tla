-------------------------- MODULE BashToolRunProofs -------------------------
(* Theorems about BashToolRun and ToolResult, for every set of task ids.   *)
EXTENDS BashToolRun, ToolResult, TLAPS

-----------------------------------------------------------------------------
(* The inductive invariant: what run relies on when it returns or cleans   *)
(* up.  A command that has ended, or delivered, is not in the foreground   *)
(* any more, and neither is one for which _go has stored an id, although   *)
(* both callers of background() ignore what it returns.                    *)

EndedIsOver == ended \/ outcome # {} => status \in {"completed", "killed"}

StoredIdIsOver == backgroundShellId # NoId => status # "running"

IInv ==
    /\ TypeOK
    /\ EndedIsOver
    /\ StoredIdIsOver
    /\ SomebodyWatches
    /\ NothingUnattended

-----------------------------------------------------------------------------
(* background() leaves no command in the foreground, and no other trace on *)
(* one that was not there.                                                 *)
LEMMA BackgroundFnEffect ==
  ASSUME IInv, NEW id \in TaskIds, BackgroundFn(id)
  PROVE  /\ status' # "running"
         /\ status' \in {"backgrounded", "completed", "killed"}
         /\ taskId' \in TaskIds \cup {NoId}
         /\ outcome' \in {{}, {taskId'}}
         /\ timer' \in {"armed", "off"}
         /\ ended' = ended
         /\ ended' \/ outcome' # {} => status' \in {"completed", "killed"}
<1>1. CASE status = "running"
  BY <1>1 DEF BackgroundFn, Command!Background, IInv, TypeOK, EndedIsOver
<1>2. CASE status # "running"
  BY <1>2 DEF BackgroundFn, commandVars, IInv, TypeOK, EndedIsOver
<1> QED
  BY <1>1, <1>2

LEMMA InitEstablishes == Init => IInv
<1> SUFFICES ASSUME Init PROVE IInv
  OBVIOUS
<1>1. CASE request.spawned
  BY <1>1 DEF Init, IInv, TypeOK, Stages, EndedIsOver, StoredIdIsOver,
              SomebodyWatches, NothingUnattended
<1>2. CASE ~request.spawned
  BY <1>2 DEF Init, IInv, TypeOK, Stages, EndedIsOver, StoredIdIsOver,
              SomebodyWatches, NothingUnattended
<1> QED
  BY <1>1, <1>2

(* No step falsifies the invariant.                                        *)
LEMMA NextPreserves == IInv /\ [Next]_vars => IInv'
<1> SUFFICES ASSUME IInv, [Next]_vars PROVE IInv'
  OBVIOUS
<1> USE IdsAssumption DEF IInv, TypeOK, Stages, Answers, EndedIsOver, StoredIdIsOver,
        SomebodyWatches, NothingUnattended, commandVars, goVars
<1>1. ASSUME CommandKilled PROVE IInv'
  BY <1>1 DEF CommandKilled, Command!Kill
<1>2. ASSUME CommandEnds PROVE IInv'
  BY <1>2 DEF CommandEnds, Command!Finish, Command!Ended
<1>3. ASSUME CommandAnswers PROVE IInv'
  BY <1>3 DEF CommandAnswers, Command!Answer, Command!Ended
<1>4. ASSUME TimerFires PROVE IInv'
  BY <1>4 DEF TimerFires
<1>5. ASSUME NEW id \in TaskIds, GoMinted(id) PROVE IInv'
  BY <1>5, BackgroundFnEffect DEF GoMinted
<1>6. ASSUME GoFails PROVE IInv'
  BY <1>6 DEF GoFails
<1>7. ASSUME CallExplicit PROVE IInv'
  <2>1. CASE request.hook
    BY <1>7, <2>1 DEF CallExplicit
  <2>2. CASE ~request.hook
    <3>1. PICK id \in TaskIds : ReturnBackground(id)
      BY <1>7, <2>2 DEF CallExplicit
    <3> QED
      BY <1>7, <3>1, BackgroundFnEffect DEF CallExplicit, ReturnBackground
  <2> QED
    BY <2>1, <2>2
<1>8. ASSUME NEW id \in TaskIds, Minted(id) PROVE IInv'
  BY <1>8, BackgroundFnEffect DEF Minted, ReturnBackground
<1>9. ASSUME MintingFails PROVE IInv'
  BY <1>9 DEF MintingFails
<1>10. ASSUME CallForeground PROVE IInv'
  BY <1>10 DEF CallForeground
<1>11. ASSUME Phase1Result PROVE IInv'
  <2>1. outcome = {taskId}
    BY <1>11 DEF Phase1Result
  <2>2. answer' = {[result |-> TRUE, names |-> taskId]}
    BY <1>11, <2>1 DEF Phase1Result
  <2>3. [result |-> TRUE, names |-> taskId] \in Answers
    OBVIOUS
  <2>4. TypeOK'
    BY <1>11, <2>1, <2>2, <2>3 DEF Phase1Result, CleanupCommand
  <2> QED
    BY <1>11, <2>1, <2>4 DEF Phase1Result, CleanupCommand
<1>12. ASSUME ThresholdPasses PROVE IInv'
  BY <1>12 DEF ThresholdPasses
<1>13. ASSUME EnterPhase2 PROVE IInv'
  BY <1>13 DEF EnterPhase2, AnswerBackgrounded, AnswerResult, CleanupCommand
<1>14. ASSUME Progress PROVE IInv'
  BY <1>14 DEF Progress
<1>15. ASSUME Wake PROVE IInv'
  BY <1>15 DEF Wake, AnswerBackgrounded, AnswerResult, CleanupCommand, ReportProgress
<1>16. ASSUME CancelRun PROVE IInv'
  BY <1>16 DEF CancelRun
<1>17. ASSUME UNCHANGED vars PROVE IInv'
  BY <1>17 DEF vars
<1> QED
  BY <1>1, <1>2, <1>3, <1>4, <1>5, <1>6, <1>7, <1>8, <1>9, <1>10, <1>11, <1>12,
     <1>13, <1>14, <1>15, <1>16, <1>17
     DEF Next, CommandNext, GoNext, RunNext

-----------------------------------------------------------------------------
(* The invariant holds in every state of every run.                        *)
THEOREM Invariance == Spec => []IInv
  BY InitEstablishes, NextPreserves, PTL DEF Spec

(* Every variable keeps its kind, and a result carries the command's id.   *)
THEOREM TypeCorrect == Spec => []TypeOK
<1>1. IInv => TypeOK
  BY DEF IInv
<1> QED
  BY <1>1, Invariance, PTL

(* A foreground command is never without a timer or a _go that will take   *)
(* care of it, also after its run was cancelled, has raised or returned,   *)
(* unless a hook has raised.                                               *)
THEOREM ForegroundIsWatched == Spec => []SomebodyWatches
<1>1. IInv => SomebodyWatches
  BY DEF IInv
<1> QED
  BY <1>1, Invariance, PTL

(* run never returns and leaves its command in the foreground.             *)
THEOREM ReturnLeavesNoForeground == Spec => []NothingUnattended
<1>1. IInv => NothingUnattended
  BY DEF IInv
<1> QED
  BY <1>1, Invariance, PTL

-----------------------------------------------------------------------------
(* The tool_result.                                                        *)

(* Until the result is built nothing is said.  The file that is truncated  *)
(* is too large and not named yet; when the result is built, a file that   *)
(* fits is named, and a named one that does not fit has been written to.   *)
FileNamed ==
    /\ step # "done" => block = {}
    /\ step \in {"none", "stat", "truncate"} => ~named
    /\ step = "truncate" => file # "within"
    /\ step \in {"build", "done"} =>
           (file = "within" => named) /\ (named /\ file = "over" => written)

ResultIInv ==
    /\ subject \in Subjects /\ (subject.interrupted => subject.code = "other")
    /\ named \in BOOLEAN
    /\ FileNamed
    /\ ResultTells

LEMMA ResultInitEstablishes == ResultInit => ResultIInv
<1> SUFFICES ASSUME ResultInit PROVE ResultIInv
  OBVIOUS
<1>1. NoSubject \in Subjects /\ ~NoSubject.interrupted
  BY DEF NoSubject, Subjects
<1>2. FileNamed /\ ResultTells /\ named \in BOOLEAN
  BY DEF ResultInit, FileNamed, ResultTells
<1> QED
  BY <1>1, <1>2 DEF ResultInit, ResultIInv

LEMMA BuiltResultTells ==
  ASSUME ResultIInv, BuildToolResult
  PROVE  ResultTells'
<1>1. /\ step = "build" /\ UNCHANGED <<subject, reason, file, named, written>>
      /\ block' = {IF SemanticError /\ ~IsInterrupt THEN ErrorPath ELSE DataPath}
  BY DEF BuildToolResult
<1>2. /\ subject.interrupted \in BOOLEAN /\ subject.stdout \in BOOLEAN
      /\ subject.background \in BOOLEAN /\ named \in BOOLEAN
      /\ subject.interrupted => SemanticError
      /\ file = "within" => named
      /\ named /\ file = "over" => written
  BY <1>1 DEF ResultIInv, FileNamed, Subjects, SemanticError
<1>3. CASE SemanticError /\ ~IsInterrupt
  BY <1>1, <1>2, <1>3 DEF ResultTells, ErrorPath, SemanticError, IsInterrupt
<1>4. CASE ~(SemanticError /\ ~IsInterrupt)
  BY <1>1, <1>2, <1>4 DEF ResultTells, DataPath, SemanticError, IsInterrupt
<1> QED
  BY <1>3, <1>4

LEMMA ResultNextPreserves == ResultIInv /\ [ResultNext]_resultVars => ResultIInv'
<1> SUFFICES ASSUME ResultIInv, [ResultNext]_resultVars PROVE ResultIInv'
  OBVIOUS
<1>1. CASE ResultArrives
  BY <1>1 DEF ResultArrives, ResultIInv, FileNamed, ResultTells
<1>2. CASE Stat
  BY <1>2 DEF Stat, ResultIInv, FileNamed, ResultTells
<1>3. CASE Truncate
  <2>1. block = {} /\ block' = block
    BY <1>3 DEF Truncate, ResultIInv, FileNamed
  <2>2. ResultTells'
    BY <2>1 DEF ResultTells
  <2>3. FileNamed' /\ named' \in BOOLEAN
    <3>1. step = "truncate" /\ step' = "build" /\ file # "within" /\ ~named
      BY <1>3 DEF Truncate, ResultIInv, FileNamed
    <3>2. CASE file' = "within" /\ named' = TRUE
      BY <2>1, <3>1, <3>2 DEF FileNamed
    <3>3. CASE file' = file /\ named' = named
      BY <2>1, <3>1, <3>3 DEF ResultIInv, FileNamed
    <3> QED
      BY <1>3, <3>2, <3>3 DEF Truncate
  <2> QED
    BY <1>3, <2>2, <2>3 DEF Truncate, ResultIInv
<1>4. CASE RemoveFile
  BY <1>4 DEF RemoveFile, ResultIInv, FileNamed, ResultTells
<1>5. CASE AbortLate
  BY <1>5 DEF AbortLate, ResultIInv, FileNamed, ResultTells
<1>6. CASE BuildToolResult
  <2>1. ResultTells'
    BY <1>6, BuiltResultTells
  <2> QED
    BY <1>6, <2>1 DEF BuildToolResult, ResultIInv, FileNamed
<1>7. CASE GrowFile
  BY <1>7 DEF GrowFile, ResultIInv, FileNamed, ResultTells, SemanticError
<1>8. CASE UNCHANGED resultVars
  BY <1>8 DEF resultVars, ResultIInv, FileNamed, ResultTells, SemanticError
<1> QED
  BY <1>1, <1>2, <1>3, <1>4, <1>5, <1>6, <1>7, <1>8 DEF ResultNext

(* However late aborts, later writers and a vanishing file interleave with *)
(* its steps, the tool_result is an error exactly if the command failed or *)
(* was interrupted, says which, and names the file if it fits; a named one *)
(* that does not has grown since it was measured or cut.                   *)
THEOREM ToolResultTells == ResultSpec => []ResultTells
<1>1. ResultIInv => ResultTells
  BY DEF ResultIInv
<1> QED
  BY <1>1, ResultInitEstablishes, ResultNextPreserves, PTL DEF ResultSpec
=============================================================================
