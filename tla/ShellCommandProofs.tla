------------------------- MODULE ShellCommandProofs -------------------------
(* Theorems about ShellCommand, for every set of ids, exit codes and       *)
(* signals and for every limit.                                            *)
EXTENDS ShellCommand, TLAPS

-----------------------------------------------------------------------------
(* The inductive invariant.  It says in which order the pieces of the exit *)
(* path run: what each stage of _handle_exit still guarantees is what its  *)
(* next piece relies on after the loop has run anything else in between.   *)

(* _handle_exit exists from the moment a code is there.                    *)
HandlerHasCode == exitCode = {} <=> handler = "none"

(* A return code is there from the child's exit on.                        *)
ExitHasReturnCode == proc \notin Writing => rc \in ReturnCodes

(* The exit code of a command nobody killed is the child's.                *)
CodeIsChilds ==
    exitCode # {} /\ status # "killed" => proc = "reaped" /\ exitCode = {MapRc(rc)}

(* The handler's first piece ends the command, and nothing else does.      *)
HandledIsEnded ==
    /\ status = "completed" => handler \in {"reading", "read", "done"}
    /\ handler \in {"reading", "read", "done"} => status \in {"completed", "killed"}

ResultIsLast == result # {} => handler = "done"

BackgroundSpills == taskId # NoId /\ ~cmd.file => spilled

(* A delivered result is the copy of what the command still holds.         *)
ResultMatches ==
    \A r \in result : /\ r.taskId = taskId
                      /\ taskId # NoId /\ ~cmd.file => r.saved
                      /\ r.inline = seen
                      /\ r.path => ~redundant

(* Redundancy is decided by the read; a file is deleted only after that.   *)
ReadDecides == redundant => handler \in {"read", "done"}
DeletedWasRedundant ==
    file \in {"deleting", "gone"} => handler = "done" /\ redundant /\ taskId = NoId

(* What the read of a file that was there found stays all there is.        *)
ReadAll ==
    redundant /\ file # "removed" /\ status = "completed" /\ ~cmd.lingers => seen = size

IInv ==
    /\ TypeOK
    /\ HandlerHasCode
    /\ ExitHasReturnCode
    /\ CodeIsChilds
    /\ HandledIsEnded
    /\ NoListenerAfterExit
    /\ ResultIsLast
    /\ BackgroundSpills
    /\ ResultMatches
    /\ ReadDecides
    /\ DeletedWasRedundant
    /\ ReadAll

-----------------------------------------------------------------------------
LEMMA MapRcType == \A c \in ReturnCodes : MapRc(c) \in ResultCodes
  BY DEF ResultCodes

(* Every command starts in a state that satisfies the invariant.           *)
LEMMA InitEstablishes == Init => IInv
<1> SUFFICES ASSUME Init PROVE IInv
  OBVIOUS
<1>1. TypeOK
  <2>1. file \in Files
    BY DEF Init, Files
  <2>2. size \in 0 .. MaxSize /\ seen \in 0 .. MaxRead
    BY SizesAssumption DEF Init
  <2>3. demanded \in SUBSET {"plain", "interrupt"}
    BY DEF Init
  <2> QED
    BY <2>1, <2>2, <2>3
       DEF Init, TypeOK, Statuses, Handlers, Watchdogs, Watchers, Processes
<1>2. /\ HandlerHasCode
      /\ ExitHasReturnCode
      /\ CodeIsChilds
      /\ HandledIsEnded
      /\ NoListenerAfterExit
  BY DEF Init, HandlerHasCode, ExitHasReturnCode, CodeIsChilds, HandledIsEnded,
         NoListenerAfterExit, Writing
<1>3. /\ ResultIsLast
      /\ BackgroundSpills
      /\ ResultMatches
      /\ ReadDecides
      /\ DeletedWasRedundant
      /\ ReadAll
  BY DEF Init, ResultIsLast, BackgroundSpills, ResultMatches, ReadDecides,
         DeletedWasRedundant, ReadAll
<1> QED
  BY <1>1, <1>2, <1>3 DEF IInv

(* No step falsifies the invariant.                                        *)
LEMMA NextPreserves == IInv /\ [Next]_vars => IInv'
<1> SUFFICES ASSUME IInv, [Next]_vars PROVE IInv'
  OBVIOUS
<1> USE DEF IInv, TypeOK, HandlerHasCode, ExitHasReturnCode, CodeIsChilds,
         HandledIsEnded, NoListenerAfterExit, ResultIsLast, BackgroundSpills,
         ResultMatches, ReadDecides, DeletedWasRedundant, ReadAll, Statuses,
         Handlers, Watchers, Watchdogs, Processes, Writing, Files, Notes,
         exitVars, hostVars, listenVars, abortVars, procVars, fileVars, readVars
<1>1. ASSUME ChildWrite PROVE IInv'
  BY <1>1, SizesAssumption DEF ChildWrite
<1>2. ASSUME Overflow PROVE IInv'
  BY <1>2, SizesAssumption DEF Overflow
<1>3. ASSUME NEW code \in ExitCodes \cup {-s : s \in Signals}, ChildExit(code) PROVE IInv'
  BY <1>3, SizesAssumption DEF ChildExit, ReturnCodes
<1>4. ASSUME ChildDies PROVE IInv'
  BY <1>4, SizesAssumption DEF ChildDies, ReturnCodes
<1>5. ASSUME Reap PROVE IInv'
  BY <1>5, SizesAssumption DEF Reap
<1>6. ASSUME NEW why \in {"plain", "interrupt"}, Abort(why) PROVE IInv'
  BY <1>6, SizesAssumption DEF Abort
<1>7. ASSUME RemoveFile PROVE IInv'
  BY <1>7, SizesAssumption DEF RemoveFile
<1>8. ASSUME AbandonResult PROVE IInv'
  BY <1>8, SizesAssumption DEF AbandonResult
<1>9. ASSUME SetOnTimeout PROVE IInv'
  BY <1>9, SizesAssumption DEF SetOnTimeout
<1>10. ASSUME NEW id \in TaskIds, Background(id) PROVE IInv'
  <2>1. TypeOK'
    BY <1>10 DEF Background, CanBackground, StopTimerAndAbortWatch
  <2>2. /\ HandlerHasCode'
       /\ ExitHasReturnCode'
       /\ CodeIsChilds'
       /\ HandledIsEnded'
       /\ NoListenerAfterExit'
       /\ ResultIsLast'
       /\ BackgroundSpills'
       /\ ResultMatches'
       /\ ReadDecides'
       /\ DeletedWasRedundant'
       /\ ReadAll'
    BY <1>10 DEF Background, CanBackground, StopTimerAndAbortWatch
  <2> QED
    BY <2>1, <2>2
<1>11. ASSUME Kill PROVE IInv'
  BY <1>11, SizesAssumption DEF Kill, DoKill, TreeKill, TreeKillDenied, ResolveExitCode, ResultCodes
<1>12. ASSUME Cleanup PROVE IInv'
  BY <1>12, SizesAssumption DEF Cleanup, CleanupListeners, StopTimerAndAbortWatch, StopWatchdog
<1>13. ASSUME WaitForExit PROVE IInv'
  BY <1>13, SizesAssumption, MapRcType DEF WaitForExit, ResolveExitCode
<1>14. ASSUME HandleTimeout PROVE IInv'
  BY <1>14, SizesAssumption DEF HandleTimeout, DoKill, TreeKill, TreeKillDenied, ResolveExitCode, ResultCodes, OffersBackground
<1>15. ASSUME WatchAbort PROVE IInv'
  BY <1>15, SizesAssumption DEF WatchAbort, DoKill, TreeKill, TreeKillDenied, ResolveExitCode, ResultCodes
<1>16. ASSUME BeginExit PROVE IInv'
  BY <1>16, SizesAssumption DEF BeginExit, CleanupListeners, StopTimerAndAbortWatch, StopWatchdog, EndedStatus, Deliver, ExecResult, Results, NoteFor, DeletesFile
<1>17. ASSUME ReadOutput PROVE IInv'
  <2>1. /\ seen' \in 0 .. MaxRead
        /\ redundant' \in BOOLEAN
        /\ redundant' /\ file # "removed" => seen' = size
    <3>1. CASE /\ file = "present"
               /\ seen' = BytesRead(size)
               /\ redundant' = Redundant(size, seen')
      <4>1. seen' \in 0 .. MaxRead /\ (size <= seen' => seen' = size)
        BY <3>1, SizesAssumption DEF BytesRead
      <4>2. redundant' <=> size <= seen'
        BY <3>1 DEF Redundant
      <4>3. redundant' \in BOOLEAN
        BY <3>1 DEF Redundant
      <4> QED
        BY <4>1, <4>2, <4>3
    <3>2. CASE file = "removed" /\ seen' = 0 /\ redundant' = TRUE
      BY <3>2, SizesAssumption
    <3>3. CASE UNCHANGED readVars
      BY <3>3, <1>17 DEF ReadOutput
    <3> QED
      BY <1>17, <3>1, <3>2, <3>3 DEF ReadOutput
  <2>2. TypeOK'
    BY <1>17, <2>1 DEF ReadOutput
  <2>3. /\ HandlerHasCode'
       /\ ExitHasReturnCode'
       /\ CodeIsChilds'
       /\ HandledIsEnded'
       /\ NoListenerAfterExit'
       /\ ResultIsLast'
       /\ BackgroundSpills'
       /\ ResultMatches'
       /\ ReadDecides'
       /\ DeletedWasRedundant'
       /\ ReadAll'
    BY <1>17, <2>1 DEF ReadOutput
  <2> QED
    BY <2>2, <2>3
<1>18. ASSUME FinishExit PROVE IInv'
  <2>1. PICK c \in ResultCodes : exitCode = {c}
    BY <1>18 DEF FinishExit
  <2>2. result' = {} \/ \E r \in Results : result' = {r}
    <3>1. NoteFor(c) \in Notes
      BY DEF NoteFor
    <3>2. (cmd.file /\ taskId = NoId /\ ~redundant) \in BOOLEAN
      OBVIOUS
    <3>3. ExecResult(c) \in Results
      BY <3>1, <3>2 DEF ExecResult, Results
    <3>4. result' = {} \/ result' = {ExecResult(c)}
      BY <1>18, <2>1 DEF FinishExit, Deliver
    <3> QED
      BY <3>3, <3>4
  <2>3. TypeOK'
    BY <1>18, <2>2 DEF FinishExit, Deliver, DeletesFile
  <2>4. /\ HandlerHasCode'
       /\ ExitHasReturnCode'
       /\ CodeIsChilds'
       /\ HandledIsEnded'
       /\ NoListenerAfterExit'
       /\ ResultIsLast'
       /\ BackgroundSpills'
       /\ ResultMatches'
       /\ ReadDecides'
       /\ DeletedWasRedundant'
       /\ ReadAll'
    BY <1>18 DEF FinishExit, Deliver, ExecResult, DeletesFile
  <2> QED
    BY <2>3, <2>4
<1>19. ASSUME DeleteOutput PROVE IInv'
  BY <1>19, SizesAssumption DEF DeleteOutput
<1>20. ASSUME WatchdogWake PROVE IInv'
  BY <1>20, SizesAssumption DEF WatchdogWake
<1>21. ASSUME WatchdogStat PROVE IInv'
  BY <1>21, SizesAssumption DEF WatchdogStat
<1>22. ASSUME WatchdogKill PROVE IInv'
  <2>1. exitCode' = {} \/ \E c \in ResultCodes : exitCode' = {c}
    BY <1>22 DEF WatchdogKill, DoKill, ResolveExitCode, ResultCodes
  <2>2. TypeOK'
    <3>1. killedForSize' \in BOOLEAN /\ watchdog' \in Watchdogs
      BY <1>22 DEF WatchdogKill, StopWatchdog
    <3>2. status' \in Statuses /\ proc' \in Processes
      BY <1>22 DEF WatchdogKill, DoKill, TreeKill, TreeKillDenied
    <3>3. handler' \in Handlers
      BY <1>22 DEF WatchdogKill, DoKill, ResolveExitCode
    <3> QED
      BY <1>22, <2>1, <3>1, <3>2, <3>3 DEF WatchdogKill
  <2>3. /\ HandlerHasCode'
       /\ ExitHasReturnCode'
       /\ CodeIsChilds'
       /\ HandledIsEnded'
       /\ NoListenerAfterExit'
       /\ ResultIsLast'
       /\ BackgroundSpills'
       /\ ResultMatches'
       /\ ReadDecides'
       /\ DeletedWasRedundant'
       /\ ReadAll'
    BY <1>22 DEF WatchdogKill, DoKill, TreeKill, TreeKillDenied, ResolveExitCode, StopWatchdog
  <2> QED
    BY <2>2, <2>3
<1>23. CASE UNCHANGED vars
  BY <1>23 DEF vars
<1> QED
  BY <1>1, <1>2, <1>3, <1>4, <1>5, <1>6, <1>7, <1>8, <1>9, <1>10, <1>11, <1>12, <1>13, <1>14, <1>15, <1>16, <1>17, <1>18, <1>19, <1>20, <1>21, <1>22, <1>23 DEF Next, Environment, Host, Loop

-----------------------------------------------------------------------------
(* In every behaviour the invariant holds at all times.                    *)
THEOREM Invariance == Spec => []IInv
<1>1. Init => IInv
  BY InitEstablishes
<1>2. IInv /\ [Next]_vars => IInv'
  BY NextPreserves
<1> QED
  BY <1>1, <1>2, PTL DEF Spec

(* The futures of command.py are resolved at most once, and every attribute *)
(* keeps its kind.                                                         *)
THEOREM TypeCorrect == Spec => []TypeOK
<1>1. IInv => TypeOK
  BY DEF IInv
<1> QED
  BY <1>1, Invariance, PTL

(* A command that was killed, or whose child has not ended, never reads    *)
(* "completed", and the code of a completed one is its child's.            *)
THEOREM CompletedCommandsExited == Spec => []CompletedMeansExited
<1>1. IInv => CompletedMeansExited
  BY DEF IInv, HandlerHasCode, CodeIsChilds, HandledIsEnded, CompletedMeansExited
<1> QED
  BY <1>1, Invariance, PTL

(* Neither timeout, abort watcher nor watchdog outlives the start of       *)
(* _handle_exit.                                                           *)
THEOREM ListenersEnd == Spec => []NoListenerAfterExit
<1>1. IInv => NoListenerAfterExit
  BY DEF IInv
<1> QED
  BY <1>1, Invariance, PTL

(* background() returning True is reported by the result.                  *)
THEOREM BackgroundIsReported == Spec => []AckedBackgroundReported
<1>1. IInv => AckedBackgroundReported
  BY DEF IInv, ResultMatches, AckedBackgroundReported
<1> QED
  BY <1>1, Invariance, PTL

(* delete_output_file() loses none of a completed command's output.        *)
THEOREM DeletionLosesNothing == Spec => []OutputAccounted
<1>1. IInv => OutputAccounted
  BY DEF IInv, ResultMatches, DeletedWasRedundant, ReadAll, OutputAccounted
<1> QED
  BY <1>1, Invariance, PTL

(* No file of a background task or of a result is deleted by the engine.   *)
THEOREM NamedFilesAreKept == Spec => []NamedFileKept
<1>1. IInv => NamedFileKept
  BY DEF IInv, ResultMatches, DeletedWasRedundant, NamedFileKept
<1> QED
  BY <1>1, Invariance, PTL

-----------------------------------------------------------------------------
(* The refinement of CommandOutcome, by the invariant that a result exists *)
(* only when the handler is done and one is delivered only when it is not. *)

LEMMA InitMaps == Init => Outcome!Init
  BY DEF Init, Outcome!Init

(* What a delivering piece of _handle_exit looks like to the host.         *)
LEMMA DeliverMaps ==
  ASSUME IInv, Deliver, handler # "done", exitCode # {}, UNCHANGED taskId,
         status' = EndedStatus
  PROVE  Outcome!Answer \/ Outcome!Finish
<1>1. result = {}
  BY DEF IInv, ResultIsLast
<1>2. status' = Outcome!Ended
  BY DEF IInv, TypeOK, Statuses, EndedStatus, Outcome!Ended
<1>3. {r.taskId : r \in result} = {}
  BY <1>1
<1>4. PICK c : exitCode = {c}
  BY DEF IInv, TypeOK
<1>5. CASE abandoned
  <2>1. result' = {}
    BY <1>5 DEF Deliver
  <2> QED
    BY <1>1, <1>2, <2>1 DEF Outcome!Finish
<1>6. CASE ~abandoned
  <2>1. {r.taskId : r \in result'} = {taskId}
    <3>1. result' = {ExecResult(c)}
      BY <1>4, <1>6 DEF Deliver
    <3>2. ExecResult(c).taskId = taskId
      BY DEF ExecResult
    <3> QED
      BY <3>1, <3>2
  <2> QED
    BY <1>2, <1>3, <2>1 DEF Outcome!Answer
<1> QED
  BY <1>5, <1>6

(* Every step is a step of the abstract command or leaves it alone.        *)
LEMMA StepMaps == IInv /\ [Next]_vars => [Outcome!Next]_Outcome!vars
<1> SUFFICES ASSUME IInv, [Next]_vars
             PROVE  Outcome!Next \/ UNCHANGED <<status, taskId, result>>
  BY DEF Outcome!vars
<1>1. ASSUME NEW id \in TaskIds, Background(id) PROVE Outcome!Next
  <2>1. Outcome!Background(id)
    BY <1>1 DEF Background, CanBackground, Outcome!Background
  <2> QED
    BY <2>1 DEF Outcome!Next
<1>2. ASSUME BeginExit PROVE Outcome!Next
  <2>1. CASE cmd.file
    <3>1. status' = Outcome!Ended
      BY <1>2 DEF BeginExit, IInv, TypeOK, Statuses, EndedStatus, Outcome!Ended
    <3>2. Outcome!Finish
      BY <1>2, <2>1, <3>1 DEF BeginExit, Outcome!Finish
    <3> QED
      BY <3>2 DEF Outcome!Next
  <2>2. CASE ~cmd.file
    <3>1. Outcome!Answer \/ Outcome!Finish
      BY <1>2, <2>2, DeliverMaps DEF BeginExit, IInv, HandlerHasCode
    <3> QED
      BY <3>1 DEF Outcome!Next
  <2> QED
    BY <2>1, <2>2
<1>3. ASSUME FinishExit PROVE Outcome!Next
  <2>1. status' = EndedStatus
    BY <1>3 DEF FinishExit, IInv, HandledIsEnded, EndedStatus
  <2>2. Outcome!Answer \/ Outcome!Finish
    BY <1>3, <2>1, DeliverMaps DEF FinishExit, IInv, HandlerHasCode
  <2> QED
    BY <2>2 DEF Outcome!Next
<1>4. ASSUME Kill \/ HandleTimeout \/ WatchAbort \/ WatchdogKill
      PROVE  Outcome!Next \/ UNCHANGED <<status, taskId, result>>
  <2>1. UNCHANGED <<taskId, result>> /\ (status' = "killed" \/ UNCHANGED status)
    BY <1>4 DEF Kill, HandleTimeout, WatchAbort, WatchdogKill, DoKill
  <2> QED
    BY <2>1 DEF Outcome!Next, Outcome!Kill
<1>5. CASE \/ \E why \in {"plain", "interrupt"} : Abort(why)
           \/ \E code \in ExitCodes \cup {-s : s \in Signals} : ChildExit(code)
           \/ ChildWrite \/ Overflow \/ ChildDies \/ Reap \/ RemoveFile
           \/ AbandonResult \/ SetOnTimeout \/ Cleanup
  BY <1>5 DEF Abort, ChildExit, ChildWrite, Overflow, ChildDies, Reap, RemoveFile,
              AbandonResult, SetOnTimeout, Cleanup
<1>6. CASE \/ WaitForExit \/ ReadOutput \/ DeleteOutput \/ WatchdogWake
           \/ WatchdogStat
  BY <1>6 DEF WaitForExit, ReadOutput, DeleteOutput, WatchdogWake, WatchdogStat
<1>7. CASE UNCHANGED vars
  BY <1>7 DEF vars
<1> QED
  BY <1>1, <1>2, <1>3, <1>4, <1>5, <1>6, <1>7 DEF Next, Environment, Host, Loop

(* A ShellCommand implements CommandOutcome: it is put in the background   *)
(* at most once and only while running, a kill is never taken back, and it *)
(* answers at most once, with the id the host was told was accepted.       *)
THEOREM Refinement == Spec => ImplementsOutcome
<1>1. Init => Outcome!Init
  BY InitMaps
<1>2. IInv /\ [Next]_vars => [Outcome!Next]_Outcome!vars
  BY StepMaps
<1> QED
  BY <1>1, <1>2, Invariance, PTL DEF Spec, ImplementsOutcome, Outcome!Spec
=============================================================================
