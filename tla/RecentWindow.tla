---------------------------- MODULE RecentWindow ----------------------------
(***************************************************************************)
(* What TaskOutput keeps for the progress callback: of all the lines it    *)
(* recorded the last ones, of which the callback is shown the end.         *)
(***************************************************************************)
EXTENDS Integers, SequencesExt

CONSTANTS Lines, Capacity, Recent

VARIABLES
    recorded, \* all lines since the last Clear
    window,   \* those that are kept
    shown,    \* those that the callback was shown
    watched   \* there is a callback

LastOf(n, lines) == SubSeq(lines, IF Len(lines) > n THEN Len(lines) - n + 1 ELSE 1, Len(lines))

Init == recorded = <<>> /\ window = <<>> /\ shown = <<>> /\ watched \in BOOLEAN

(* Lines are added to those recorded before.                               *)
Record ==
    /\ recorded' \in Seq(Lines) /\ IsStrictPrefix(recorded, recorded')
    /\ window' = LastOf(Capacity, recorded')
    /\ shown' = IF watched THEN LastOf(Recent, recorded') ELSE shown
    /\ UNCHANGED watched

Clear ==
    /\ recorded' = <<>> /\ window' = <<>>
    /\ watched' = FALSE
    /\ UNCHANGED shown

Spec == Init /\ [][Record \/ Clear]_<<recorded, window, shown, watched>>
=============================================================================
