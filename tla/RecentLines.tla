---------------------------- MODULE RecentLines -----------------------------
(***************************************************************************)
(* The recent lines of a command's output in pipe mode: _update_progress   *)
(* of output/task_output.py, and the ring of output/circular_buffer.py.    *)
(*                                                                         *)
(* A chunk is given as the segments that its newlines divide it into.      *)
(***************************************************************************)
EXTENDS Integers, SequencesExt

CONSTANTS
    Segments,    \* texts without a newline
    NoLine,      \* an empty slot
    Width,       \* their lengths
    Blank,       \* those that strip() leaves nothing of
    MaxProgress, \* MAX_PROGRESS_BYTES
    MaxRecorded, \* MAX_PROGRESS_LINES
    Capacity,    \* of the ring
    Recent,      \* how many lines the callback is shown
    MaxSegments, \* bound: segments in a chunk
    MaxLines     \* bound: newlines in all

ASSUME RingAssumption == Capacity \in Nat \ {0} /\ Recent \in 1 .. Capacity
ASSUME ProgressAssumption == MaxProgress \in Nat /\ MaxRecorded \in Nat

(* A text that strip() leaves something of is not empty.                   *)
ASSUME WidthAssumption ==
    Width \in [Segments -> Nat] /\ \A s \in Segments \ Blank : Width[s] >= 1

VARIABLES
    ring,       \* TaskOutput._recent_lines
    totalLines, \* TaskOutput._total_lines
    shownLines, \* the recent lines of the last call of on_progress
    onProgress, \* TaskOutput._on_progress is set
    recorded    \* history: the lines due since the ring was cleared, see Due

linesVars == <<ring, totalLines, shownLines, onProgress, recorded>>

EmptyRing == [buffer |-> [i \in 0 .. Capacity - 1 |-> NoLine], head |-> 0, size |-> 0]

LinesInit ==
    /\ ring = EmptyRing
    /\ totalLines = 0
    /\ shownLines = <<>>
    /\ onProgress \in BOOLEAN
    /\ recorded = <<>>

-----------------------------------------------------------------------------
(* CircularBuffer.                                                         *)

(* A fault: the size goes on to grow.                                      *)
AddUncapped(r, item) ==
    [buffer |-> [r.buffer EXCEPT ![r.head] = item],
     head   |-> (r.head + 1) % Capacity,
     size   |-> r.size + 1]

Add(r, item) ==
    [buffer |-> [r.buffer EXCEPT ![r.head] = item],
     head   |-> (r.head + 1) % Capacity,
     size   |-> IF r.size < Capacity THEN r.size + 1 ELSE r.size]

GetRecent(r, count) ==
    LET start == IF r.size < Capacity THEN 0 ELSE r.head
        available == IF count < r.size THEN count ELSE r.size
    IN  [i \in 1 .. available |-> r.buffer[(start + r.size - available + i - 1) % Capacity]]

-----------------------------------------------------------------------------
(* A line that fits in what is left of MAX_PROGRESS_BYTES is recorded.     *)
Records(segment, found) ==
    /\ Len(found.lines) < MaxRecorded
    /\ found.bytes < MaxProgress
    /\ Width[segment] \in 1 .. MaxProgress - found.bytes
    /\ segment \notin Blank

Extract(segment, found) ==
    IF Records(segment, found)
    THEN [lines |-> <<segment>> \o found.lines, bytes |-> found.bytes + Width[segment]]
    ELSE found

(* The segments are searched from the last one back to the first newline:  *)
(* what stands before it, the end of a line or a whole one, is left out,   *)
(* and what stands after the last one counts as a line.                    *)
Extracted(chunk) == FoldRight(Extract, Tail(chunk), [lines |-> <<>>, bytes |-> 0]).lines

(* The reference: a line is due if it is not blank, and it fits with those *)
(* due after it.                                                           *)
After(i, due) == {j \in due : j > i}

Weight(lines, due) == MapThenSumSet(LAMBDA j : Width[lines[j]], due)

Fits(lines, i, due) ==
    /\ Cardinality(After(i, due)) < MaxRecorded
    /\ Width[lines[i]] + Weight(lines, After(i, due)) <= MaxProgress

IsDue(lines, due) ==
    \A i \in DOMAIN lines : i \in due <=> lines[i] \notin Blank /\ Fits(lines, i, due)

Due(chunk) ==
    LET lines == Tail(chunk)
        due == CHOOSE d \in SUBSET DOMAIN lines : IsDue(lines, d)
    IN  [n \in 1 .. Cardinality(due) |->
            lines[CHOOSE i \in due : Cardinality(After(i, due)) = Cardinality(due) - n]]

UpdateProgress(chunk) ==
    /\ totalLines + Len(chunk) - 1 <= MaxLines
    /\ totalLines' = totalLines + Len(chunk) - 1
    /\ ring' = FoldLeft(Add, ring, Extracted(chunk))
    /\ shownLines' = IF onProgress /\ Extracted(chunk) # <<>>
                     THEN GetRecent(ring', Recent) ELSE shownLines
    /\ recorded' = recorded \o Due(chunk)
    /\ UNCHANGED onProgress

(* TaskOutput.clear()                                                      *)
ClearLines ==
    /\ ring' = EmptyRing
    /\ onProgress' = FALSE
    /\ recorded' = <<>>
    /\ UNCHANGED <<totalLines, shownLines>>

LinesNext ==
    \/ ClearLines
    \/ \E n \in 1 .. MaxSegments : \E chunk \in [1 .. n -> Segments] : UpdateProgress(chunk)

LinesSpec == LinesInit /\ [][LinesNext]_linesVars

-----------------------------------------------------------------------------
Window == INSTANCE RecentWindow WITH
    Lines <- Segments, window <- GetRecent(ring, Capacity), shown <- shownLines,
    watched <- onProgress

(* However chunks fill the ring and wrap around in it, and although they   *)
(* are searched backwards under two limits, the ring holds the last of all *)
(* lines that were due, in order and without a gap, and the callback sees  *)
(* their end.                                                              *)
ImplementsRecent == Window!Spec
=============================================================================
