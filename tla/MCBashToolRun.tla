--------------------------- MODULE MCBashToolRun ----------------------------
(***************************************************************************)
(* BashTool.run, and what it makes of the result it waited for.            *)
(***************************************************************************)
EXTENDS BashToolRun, ToolResult

BothInit == Init /\ ResultInit

(* run has a result to present, and it is this command's.                  *)
Presents ==
    /\ \E a \in answer : a.result
    /\ subject'.background => outcome # {NoId}

BothNext ==
    \/ Next /\ UNCHANGED resultVars
    \/ ResultNext /\ Presents /\ UNCHANGED vars

BothSpec == BothInit /\ [][BothNext]_<<vars, resultVars>> /\ Fairness
=============================================================================
