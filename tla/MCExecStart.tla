---------------------------- MODULE MCExecStart -----------------------------
(***************************************************************************)
(* Two parts of exec() that share nothing: how calls come to their shells, *)
(* and what a shell is given to execute.  A behaviour is one of either.    *)
(***************************************************************************)
EXTENDS ExecStart, CommandText

Init == ExecInit /\ TextInit

Next ==
    \/ TextInit /\ ExecNext /\ UNCHANGED textVars
    \/ ExecInit /\ request = [c \in Calls |-> {}] /\ TextNext /\ UNCHANGED execVars

Spec == Init /\ [][Next]_<<execVars, textVars>> /\ ExecFairness
=============================================================================
