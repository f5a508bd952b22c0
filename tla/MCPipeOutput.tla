---------------------------- MODULE MCPipeOutput ----------------------------
(***************************************************************************)
(* Three parts of a command's output that share nothing: what pipe mode    *)
(* keeps of it, the recent lines, and its reading piece by piece.  A       *)
(* behaviour is one of any of them.                                        *)
(***************************************************************************)
EXTENDS PipeOutput, RecentLines, OutputReader, TLC

CONSTANTS blank, short, long

Widest == (blank :> 1) @@ (short :> 1) @@ (long :> 2)

(* Characters of one to three bytes.                                       *)
MixedText == <<1, 3, 2, 1>>

AllInit == Init /\ LinesInit /\ ReaderInit

AllNext ==
    \/ LinesInit /\ ReaderInit /\ Next /\ UNCHANGED <<linesVars, readerVars>>
    \/ Init /\ ReaderInit /\ LinesNext /\ UNCHANGED <<vars, readerVars>>
    \/ Init /\ LinesInit /\ ReaderNext /\ UNCHANGED <<vars, linesVars>>

AllSpec == AllInit /\ [][AllNext]_<<vars, linesVars, readerVars>> /\ Fairness
=============================================================================
