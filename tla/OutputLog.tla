----------------------------- MODULE OutputLog ------------------------------
(***************************************************************************)
(* What DiskTaskOutput promises: an append-only file.  What is accepted is *)
(* written in the order in which it was accepted and never twice; chunks   *)
(* are lost only after a fault of the file system or a cancel().           *)
(***************************************************************************)
EXTENDS Integers, Sequences

CONSTANT Chunks

VARIABLES pending, \* accepted and not yet written, oldest first
          disk,    \* the file
          faulty   \* a write failed, or cancel() dropped chunks

vars == <<pending, disk, faulty>>

Init == pending = <<>> /\ disk = <<>> /\ faulty = FALSE

Accept(chunk) ==
    /\ pending' = Append(pending, chunk)
    /\ UNCHANGED <<disk, faulty>>

(* The first m chunks leave the queue; all of them reach the file, or only *)
(* the first k when something is wrong.                                    *)
Write(k, m) ==
    /\ disk' = disk \o SubSeq(pending, 1, k)
    /\ pending' = SubSeq(pending, m + 1, Len(pending))
    /\ faulty' \in BOOLEAN /\ (faulty \/ k < m => faulty')

(* The last chunks are dropped.                                            *)
Drop(m) ==
    /\ pending' = SubSeq(pending, 1, m)
    /\ faulty' = TRUE
    /\ UNCHANGED disk

Fault == faulty' = TRUE /\ UNCHANGED <<pending, disk>>

Next == \/ \E chunk \in Chunks : Accept(chunk)
        \/ \E m \in 0 .. Len(pending) : Drop(m) \/ \E k \in 0 .. m : Write(k, m)
        \/ Fault

Spec == Init /\ [][Next]_vars
=============================================================================
