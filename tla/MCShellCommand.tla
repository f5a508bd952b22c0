--------------------------- MODULE MCShellCommand ---------------------------
(* TLC instances of ShellCommand.                                          *)
EXTENDS ShellCommand, TLC

IdSymmetry == Permutations(TaskIds)
=============================================================================
