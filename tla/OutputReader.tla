---------------------------- MODULE OutputReader ----------------------------
(***************************************************************************)
(* Output read piece by piece while it is written: get_task_output_delta   *)
(* and get_task_output of output/disk_output.py over util/fs.py, and       *)
(* _read_stream of engine/command.py.  The output is UTF-8 text; every     *)
(* piece is decoded by itself, with errors="replace".                      *)
(***************************************************************************)
EXTENDS Integers, FiniteSets, SequencesExt

CONSTANTS
    Widths,  \* the text: the number of bytes of each of its characters
    MaxBytes \* the most that one read returns

ASSUME TextAssumption == Widths \in Seq(1 .. 4) /\ MaxBytes \in Nat \ {0}

VARIABLES
    source,  \* "file" or "pipe"
    size,    \* the bytes written so far
    there,   \* the file exists
    offset,  \* the bytes read so far
    pieces,  \* what the reads gave: characters by number, 0 for U+FFFD
    cuts,    \* history: the offsets that reads ended at
    tail     \* what get_task_output gave last, of the bytes from .. to

readerVars == <<source, size, there, offset, pieces, cuts, tail>>

Characters == DOMAIN Widths

(* The bytes of a character, numbered from 1.                              *)
End(c) == FoldLeft(+, 0, SubSeq(Widths, 1, c))
Start(c) == End(c) - Widths[c] + 1
Total == End(Len(Widths))

ReaderInit ==
    /\ source \in {"file", "pipe"}
    /\ size = 0 /\ there = TRUE
    /\ offset = 0 /\ pieces = <<>> /\ cuts = {}
    /\ tail = [from |-> 1, to |-> 0, items |-> <<>>]

-----------------------------------------------------------------------------
Write(n) ==
    /\ there /\ size + n <= Total
    /\ size' = size + n
    /\ UNCHANGED <<source, there, offset, pieces, cuts, tail>>

(* Of a character that is cut, its beginning is replaced by one U+FFFD,    *)
(* and every byte of the rest by one more.                                 *)
DecodeCharacter(c, first, last) ==
    CASE last < Start(c) \/ End(c) < first             -> <<>>
      [] first <= Start(c) /\ End(c) <= last           -> <<c>>
      [] Start(c) \in first .. last /\ last < End(c)   -> <<0>>
      [] OTHER -> [i \in 1 .. (IF last < End(c) THEN last ELSE End(c)) - first + 1 |-> 0]

(* The bytes from first to last as text.                                   *)
Decode(first, last) == FlattenSeq([c \in Characters |-> DecodeCharacter(c, first, last)])

(* A fault: the offset counts the characters read.                         *)
ReadByCharacters(n) ==
    /\ offset' = offset + Len(Decode(offset + 1, offset + n))
    /\ pieces' = pieces \o Decode(offset + 1, offset + n)
    /\ cuts' = cuts \cup {offset + n}
    /\ UNCHANGED <<source, size, there, tail>>

Read(n) ==
    /\ offset' = offset + n
    /\ pieces' = pieces \o Decode(offset + 1, offset + n)
    /\ cuts' = cuts \cup {offset + n}
    /\ UNCHANGED <<source, size, there, tail>>

(* get_task_output_delta, from the offset the last one returned.           *)
ReadDelta ==
    /\ source = "file" /\ there /\ size > offset
    /\ Read(IF size - offset < MaxBytes THEN size - offset ELSE MaxBytes)

(* stream.read: what is in the pipe, or less of it.                        *)
ReadPipe ==
    /\ source = "pipe"
    /\ \E n \in 1 .. MaxBytes : n <= size - offset /\ Read(n)

(* get_task_output: the end of the file, or nothing without one.           *)
ReadTail ==
    /\ source = "file"
    /\ LET from == IF size > MaxBytes THEN size - MaxBytes + 1 ELSE 1
           to == IF there THEN size ELSE 0
       IN  tail' = [from |-> from, to |-> to, items |-> Decode(from, to)]
    /\ UNCHANGED <<source, size, there, offset, pieces, cuts>>

(* cleanup_task_output.                                                    *)
RemoveFile ==
    /\ source = "file" /\ there
    /\ there' = FALSE
    /\ UNCHANGED <<source, size, offset, pieces, cuts, tail>>

ReaderNext ==
    \/ \E n \in 1 .. Total : Write(n)
    \/ ReadDelta
    \/ ReadPipe
    \/ ReadTail
    \/ RemoveFile

ReaderSpec == ReaderInit /\ [][ReaderNext]_readerVars

-----------------------------------------------------------------------------
(* The characters of a text, and that they are in order there.             *)
Shown(items) == ToSet(items) \ {0}

InPlace(items) ==
    \A i, j \in DOMAIN items :
        i < j /\ items[i] # 0 /\ items[j] # 0 => items[i] < items[j]

Uncut(c) == \A cut \in cuts : cut < Start(c) \/ End(c) <= cut

(* Wherever the writes of the command and the limits of the reads fall,    *)
(* the pieces have every character that was not cut between two reads,     *)
(* once and in its place, and something in place of each one that was; and *)
(* the tail has every character that begins in it.                         *)
PiecesIntact ==
    /\ InPlace(pieces)
    /\ Shown(pieces) = {c \in Characters : End(c) <= offset /\ Uncut(c)}
    /\ Len(pieces) >= Cardinality({c \in Characters : Start(c) <= offset})
    /\ InPlace(tail.items)
    /\ Shown(tail.items) = {c \in Characters : tail.from <= Start(c) /\ End(c) <= tail.to}
=============================================================================
