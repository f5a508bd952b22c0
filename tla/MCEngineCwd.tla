---------------------------- MODULE MCEngineCwd -----------------------------
EXTENDS EngineCwd, TLC

CONSTANTS composed, accented, latin1

AllPaths == {composed, accented, latin1}

(* Two names that look alike, one of them in NFC form.                     *)
ToNfc == [p \in AllPaths |-> IF p = accented THEN composed ELSE p]
Same == [p \in AllPaths |-> p]

Symmetries == Permutations(Calls) \cup Permutations(CmdIds)
=============================================================================
