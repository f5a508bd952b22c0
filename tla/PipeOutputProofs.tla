-------------------------- MODULE PipeOutputProofs --------------------------
(* Theorems about PipeOutput, for every memory limit and amount of output. *)
EXTENDS PipeOutput, SequenceTheorems, TLAPS

-----------------------------------------------------------------------------
(* The inductive invariant.                                                *)

(* A buffer is empty, or all that was read from its stream.                *)
BuffersFirst ==
    \A s \in Streams :
        /\ taken[s] <= written[s]
        /\ buffer[s] = FirstChunks(s, Len(buffer[s]))
        /\ Len(buffer[s]) \in {0, taken[s]}
        /\ ~spilled /\ ~cleared => Len(buffer[s]) = taken[s]

(* A reader that ended has read its stream; one that is still reading was  *)
(* not told to stop.                                                       *)
ReadersEnd ==
    \A s \in Streams :
        /\ reader[s] = "ended" => child = "exited" /\ taken[s] = written[s]
        /\ cleared => reader[s] # "reading"

(* An exit code that no kill has decided comes after the readers.          *)
DecidedLast ==
    /\ decided /\ status # "killed" =>
           child = "exited" /\ \A s \in Streams : reader[s] # "reading"
    /\ status = "completed" => decided
    /\ outcome # {} => status \in {"completed", "killed"}

IInv ==
    /\ TypeOK
    /\ BuffersFirst
    /\ ReadersEnd
    /\ DecidedLast
    /\ ResultShowsOutput

-----------------------------------------------------------------------------
(* FirstChunks is a sequence of k chunks, and the next chunk extends it.   *)
LEMMA FirstChunksIsSeq ==
  ASSUME NEW s \in Streams, NEW k \in 0 .. MaxChunks
  PROVE  FirstChunks(s, k) \in Seq(Chunks) /\ Len(FirstChunks(s, k)) = k
  BY LimitsAssumption DEF FirstChunks, Chunks

LEMMA FirstChunksExtends ==
  ASSUME NEW s \in Streams, NEW k \in Nat
  PROVE  Append(FirstChunks(s, k), [from |-> s, n |-> k + 1]) = FirstChunks(s, k + 1)
  BY DEF FirstChunks

LEMMA NoOutputIsFirst ==
  \A s \in Streams : NoOutput[s] = FirstChunks(s, Len(NoOutput[s])) /\ Len(NoOutput[s]) = 0
  BY DEF NoOutput, FirstChunks

LEMMA OneMore ==
  \A a, b, m \in Nat : a + b + 1 <= m => (a + 1) + b <= m /\ a + (b + 1) <= m
  OBVIOUS

(* Moving the buffers to the disk leaves them empty.                       *)
LEMMA SpillEffect ==
  ASSUME TypeOK, NEW chunks \in Seq(Chunks), SpillToDisk(chunks)
  PROVE  /\ spilled' = TRUE /\ buffer' = NoOutput
         /\ pending' \in Seq(Chunks)
  BY DEF TypeOK, SpillToDisk, Streams

(* What the drain and clear() do to the queue leaves it a queue.           *)
LEMMA WriteEffect ==
  ASSUME TypeOK, NEW m \in 1 .. Len(pending), NEW k \in 0 .. m, Log!Write(k, m)
  PROVE  pending' \in Seq(Chunks) /\ disk' \in Seq(Chunks) /\ faulty' \in BOOLEAN
<1>1. SubSeq(pending, 1, k) \in Seq(Chunks) /\ SubSeq(pending, m + 1, Len(pending)) \in Seq(Chunks)
  BY DEF TypeOK
<1> QED
  BY <1>1 DEF Log!Write, TypeOK

LEMMA DropEffect ==
  ASSUME TypeOK, NEW m \in 0 .. Len(pending), Log!Drop(m)
  PROVE  pending' \in Seq(Chunks) /\ disk' = disk /\ faulty' = TRUE
  BY DEF Log!Drop, TypeOK

LEMMA InitEstablishes == Init => IInv
<1> SUFFICES ASSUME Init PROVE IInv
  OBVIOUS
<1>1. TypeOK
  <2>1. NoOutput \in [Streams -> Seq(Chunks)]
    BY DEF NoOutput
  <2>2. Len(NoOutput["stdout"]) + Len(NoOutput["stderr"]) <= MaxMemory
    BY LimitsAssumption DEF NoOutput, Streams
  <2>3. [t \in Streams |-> 0] \in [Streams -> 0 .. MaxChunks]
    BY LimitsAssumption
  <2>4. pending \in Seq(Chunks) /\ disk \in Seq(Chunks) /\ faulty \in BOOLEAN
    <3>1. pending = <<>> /\ disk = <<>> /\ faulty = FALSE
      BY DEF Init, Log!Init
    <3>2. <<>> \in Seq(Chunks)
      OBVIOUS
    <3> QED
      BY <3>1, <3>2
  <2> QED
    BY <2>1, <2>2, <2>3, <2>4 DEF Init, Command!Init, TypeOK, Readers
<1>2. BuffersFirst
  BY LimitsAssumption DEF Init, BuffersFirst, NoOutput, FirstChunks
<1>3. ReadersEnd /\ DecidedLast /\ ResultShowsOutput
  BY DEF Init, Command!Init, ReadersEnd, DecidedLast, ResultShowsOutput
<1> QED
  BY <1>1, <1>2, <1>3 DEF IInv

-----------------------------------------------------------------------------
(* A chunk that is stored.                                                 *)
LEMMA StoreKeeps ==
  ASSUME IInv, NEW s \in Streams, ReadChunk(s)
  PROVE  IInv'
<1> DEFINE chunk == [from |-> s, n |-> taken[s] + 1]
<1>1. /\ taken[s] \in Nat /\ taken[s] < written[s] /\ reader[s] = "reading"
      /\ chunk \in Chunks /\ <<chunk>> \in Seq(Chunks)
      /\ taken' = [taken EXCEPT ![s] = @ + 1]
      /\ WriteBuffered(chunk)
      /\ ~cleared
  <2>1. taken[s] \in 0 .. MaxChunks /\ written[s] \in 0 .. MaxChunks
    BY DEF IInv, TypeOK
  <2>2. taken[s] + 1 \in 1 .. MaxChunks
    BY <2>1, LimitsAssumption DEF ReadChunk
  <2>3. taken'[s] = taken[s] + 1
    BY DEF ReadChunk, IInv, TypeOK
  <2> QED
    BY <2>1, <2>2, <2>3 DEF ReadChunk, IInv, ReadersEnd, Chunks
<1>2. reader' \in [Streams -> Readers] /\ \A t \in Streams : reader'[t] \in {reader[t], "dead"}
  BY DEF ReadChunk, IInv, TypeOK, Readers
<1>3. UNCHANGED <<commandVars, childVars, fileVars, cleared, result>>
  BY DEF ReadChunk
<1>4. \/ spilled' = TRUE /\ buffer' = NoOutput /\ pending' \in Seq(Chunks)
      \/ /\ ~spilled /\ spilled' = spilled /\ pending' = pending
         /\ buffer' = [buffer EXCEPT ![s] = Append(@, chunk)]
         /\ Len(buffer["stdout"]) + Len(buffer["stderr"]) + 1 <= MaxMemory
  <2>1. CASE spilled
    <3>1. pending' = Append(pending, chunk) /\ UNCHANGED <<buffer, spilled>>
      BY <1>1, <2>1 DEF WriteBuffered
    <3>2. pending' \in Seq(Chunks)
      BY <1>1, <3>1 DEF IInv, TypeOK
    <3>3. buffer' = NoOutput
      BY <2>1, <3>1 DEF IInv, TypeOK
    <3>4. spilled' = TRUE
      BY <2>1, <3>1 DEF IInv, TypeOK
    <3> QED
      BY <3>2, <3>3, <3>4
  <2>2. CASE SpillToDisk(<<chunk>>)
    BY <1>1, <2>2, SpillEffect DEF IInv
  <2>3. CASE ~spilled /\ ~SpillToDisk(<<chunk>>)
    <3>1. chunk.from = s
      OBVIOUS
    <3>2. /\ Len(buffer["stdout"]) + Len(buffer["stderr"]) + 1 <= MaxMemory
          /\ buffer' = [buffer EXCEPT ![chunk.from] = Append(@, chunk)]
          /\ UNCHANGED <<spilled, pending>>
      BY <1>1, <2>3 DEF WriteBuffered
    <3> QED
      BY <2>3, <3>1, <3>2
  <2> QED
    BY <2>1, <2>2, <2>3
<1>5. CASE spilled' = TRUE /\ buffer' = NoOutput /\ pending' \in Seq(Chunks)
  <2>1. TypeOK'
    <3>1. /\ buffer' \in [Streams -> Seq(Chunks)]
          /\ Len(buffer'["stdout"]) + Len(buffer'["stderr"]) <= MaxMemory
      <4>1. buffer' = NoOutput /\ NoOutput \in [Streams -> Seq(Chunks)]
        BY <1>5 DEF NoOutput
      <4>2. NoOutput["stdout"] = <<>> /\ NoOutput["stderr"] = <<>>
        BY DEF NoOutput, Streams
      <4>3. Len(buffer'["stdout"]) = 0 /\ Len(buffer'["stderr"]) = 0
        BY <4>1, <4>2
      <4> QED
        BY <4>1, <4>3, LimitsAssumption
    <3>2. UNCHANGED <<commandVars, childVars, fileVars, cleared, result>>
      BY <1>1, <1>3
    <3>3. taken' \in [Streams -> 0 .. MaxChunks] /\ reader' \in [Streams -> Readers]
      <4>1. taken \in [Streams -> 0 .. MaxChunks]
        BY DEF IInv, TypeOK
      <4>2. chunk.n = taken[s] + 1 /\ chunk.n \in 1 .. MaxChunks
        BY <1>1 DEF Chunks
      <4>3. taken[s] + 1 \in 0 .. MaxChunks
        BY <4>2, LimitsAssumption
      <4> QED
        BY <1>1, <1>2, <4>1, <4>3
    <3> QED
      BY <1>5, <3>1, <3>2, <3>3 DEF IInv, TypeOK, commandVars, childVars, fileVars
  <2>2. BuffersFirst'
    BY <1>1, <1>3, <1>5 DEF IInv, TypeOK, BuffersFirst, NoOutput, FirstChunks, childVars
  <2>3. ReadersEnd' /\ DecidedLast' /\ ResultShowsOutput'
    BY <1>1, <1>2, <1>3 DEF IInv, TypeOK, ReadersEnd, DecidedLast, ResultShowsOutput,
                            commandVars, childVars
  <2> QED
    BY <2>1, <2>2, <2>3 DEF IInv
<1>6. CASE /\ ~spilled /\ spilled' = spilled /\ pending' = pending
           /\ buffer' = [buffer EXCEPT ![s] = Append(@, chunk)]
           /\ Len(buffer["stdout"]) + Len(buffer["stderr"]) + 1 <= MaxMemory
  <2>1. buffer[s] \in Seq(Chunks) /\ buffer[s] = FirstChunks(s, taken[s])
    BY <1>1, <1>6 DEF IInv, TypeOK, BuffersFirst
  <2>2. /\ buffer'[s] = FirstChunks(s, taken[s] + 1)
        /\ buffer'[s] \in Seq(Chunks) /\ Len(buffer'[s]) = taken[s] + 1
        /\ Len(buffer'[s]) = Len(buffer[s]) + 1
    <3>1. buffer'[s] = Append(buffer[s], chunk)
      BY <1>6 DEF IInv, TypeOK
    <3>2. buffer'[s] = FirstChunks(s, taken[s] + 1)
      BY <1>1, <2>1, <3>1, FirstChunksExtends
    <3>3. Len(buffer[s]) = taken[s]
      BY <1>1, <1>6 DEF IInv, BuffersFirst
    <3> QED
      BY <1>1, <2>1, <3>1, <3>2, <3>3
  <2>3. \A t \in Streams : t # s => buffer'[t] = buffer[t] /\ taken'[t] = taken[t]
    BY <1>1, <1>6 DEF IInv, TypeOK
  <2>4. buffer' \in [Streams -> Seq(Chunks)]
    BY <1>6, <2>2, <2>3 DEF IInv, TypeOK
  <2>5. Len(buffer'["stdout"]) + Len(buffer'["stderr"]) <= MaxMemory
    <3>1. /\ Len(buffer["stdout"]) \in Nat /\ Len(buffer["stderr"]) \in Nat
          /\ "stdout" \in Streams /\ "stderr" \in Streams
      BY DEF IInv, TypeOK, Streams
    <3>2. CASE s = "stdout"
      <4>1. /\ Len(buffer'["stdout"]) = Len(buffer["stdout"]) + 1
            /\ Len(buffer'["stderr"]) = Len(buffer["stderr"])
        BY <2>2, <2>3, <3>1, <3>2
      <4>2. Len(buffer["stdout"]) + Len(buffer["stderr"]) + 1 <= MaxMemory
        BY <1>6
      <4> QED
        BY <3>1, <4>1, <4>2, LimitsAssumption, OneMore, Zenon
    <3>3. CASE s = "stderr"
      <4>1. /\ Len(buffer'["stderr"]) = Len(buffer["stderr"]) + 1
            /\ Len(buffer'["stdout"]) = Len(buffer["stdout"])
        BY <2>2, <2>3, <3>1, <3>3
      <4>2. Len(buffer["stdout"]) + Len(buffer["stderr"]) + 1 <= MaxMemory
        BY <1>6
      <4> QED
        BY <3>1, <4>1, <4>2, LimitsAssumption, OneMore, Zenon
    <3> QED
      BY <3>2, <3>3 DEF Streams
  <2>6. taken' \in [Streams -> 0 .. MaxChunks]
    <3>1. taken[s] + 1 \in 0 .. MaxChunks
      <4>1. written[s] \in 0 .. MaxChunks
        BY DEF IInv, TypeOK
      <4> QED
        BY <1>1, <4>1, LimitsAssumption
    <3> QED
      BY <1>1, <3>1 DEF IInv, TypeOK
  <2>7. TypeOK'
    BY <1>2, <1>3, <1>6, <2>4, <2>5, <2>6
       DEF IInv, TypeOK, commandVars, childVars, fileVars
  <2>8. BuffersFirst'
    <3>1. /\ taken'[s] = taken[s] + 1 /\ taken'[s] <= written[s]
          /\ written' = written /\ cleared' = cleared
      <4>1. written[s] \in 0 .. MaxChunks
        BY DEF IInv, TypeOK
      <4> QED
        BY <1>1, <1>3, <4>1 DEF IInv, TypeOK, childVars
    <3>2. ASSUME NEW t \in Streams
          PROVE  /\ taken'[t] <= written'[t]
                 /\ buffer'[t] = FirstChunks(t, Len(buffer'[t]))
                 /\ Len(buffer'[t]) \in {0, taken'[t]}
                 /\ ~spilled' /\ ~cleared' => Len(buffer'[t]) = taken'[t]
      <4>1. CASE t = s
        BY <2>2, <3>1, <4>1
      <4>2. CASE t # s
        BY <1>6, <2>3, <3>1, <4>2 DEF IInv, BuffersFirst
      <4> QED
        BY <4>1, <4>2
    <3> QED
      BY <3>2 DEF BuffersFirst, FirstChunks
  <2>9. ReadersEnd' /\ DecidedLast' /\ ResultShowsOutput'
    BY <1>1, <1>2, <1>3 DEF IInv, TypeOK, ReadersEnd, DecidedLast, ResultShowsOutput,
                            commandVars, childVars
  <2> QED
    BY <2>7, <2>8, <2>9 DEF IInv
<1> QED
  BY <1>4, <1>5, <1>6
LEMMA NextPreserves == IInv /\ [Next]_vars => IInv'
<1> SUFFICES ASSUME IInv, [Next]_vars PROVE IInv'
  OBVIOUS
<1>1. CASE DrainWrites
  <2>1. PICK m \in 1 .. Len(pending) : \E k \in 0 .. m : Log!Write(k, m)
    BY <1>1 DEF DrainWrites
  <2>2. pending' \in Seq(Chunks) /\ disk' \in Seq(Chunks) /\ faulty' \in BOOLEAN
    BY <2>1, WriteEffect DEF IInv
  <2>3. UNCHANGED <<commandVars, childVars, taken, reader, buffer, spilled, cleared, result>>
    BY <1>1 DEF DrainWrites
  <2>4. TypeOK'
    BY <2>2, <2>3 DEF IInv, TypeOK, commandVars, childVars
  <2>5. BuffersFirst' /\ ReadersEnd' /\ DecidedLast' /\ ResultShowsOutput'
    BY <2>3 DEF IInv, BuffersFirst, ReadersEnd, DecidedLast, ResultShowsOutput,
                FirstChunks, commandVars, childVars
  <2> QED
    BY <2>4, <2>5 DEF IInv
<1>2. ASSUME NEW s \in Streams, ChildWrites(s) PROVE IInv'
  <2>1. /\ child = "alive" /\ written[s] \in 0 .. MaxChunks
        /\ written' \in [Streams -> 0 .. MaxChunks]
        /\ \A t \in Streams : written'[t] \in {written[t], written[t] + 1}
        /\ \A t \in Streams : written[t] \in Nat /\ taken[t] \in Nat
        /\ UNCHANGED <<commandVars, child, taken, reader, storeVars, fileVars, cleared, result>>
    BY <1>2, LimitsAssumption DEF ChildWrites, IInv, TypeOK
  <2>2. TypeOK'
    BY <2>1 DEF IInv, TypeOK, commandVars, storeVars, fileVars
  <2>3. BuffersFirst' /\ ReadersEnd' /\ DecidedLast'
    BY <2>1 DEF IInv, BuffersFirst, ReadersEnd, DecidedLast, FirstChunks, commandVars,
                storeVars
  <2>4. ResultShowsOutput'
    <3>1. ASSUME NEW r \in result, ~r.notice, NEW t \in Streams
          PROVE  /\ r.inline[t] = FirstChunks(t, Len(r.inline[t]))
                 /\ Len(r.inline[t]) <= written'[t]
                 /\ status = "completed" /\ reader[t] = "ended" /\ ~cleared =>
                       Len(r.inline[t]) = written'[t]
      <4>1. Len(r.inline[t]) \in Nat
        BY <3>1 DEF IInv, TypeOK
      <4> QED
        BY <2>1, <3>1, <4>1 DEF IInv, ReadersEnd, ResultShowsOutput
    <3> QED
      BY <2>1, <3>1 DEF ResultShowsOutput, FirstChunks, commandVars
  <2> QED
    BY <2>2, <2>3, <2>4 DEF IInv
<1>3. CASE ChildExits
  BY <1>3 DEF ChildExits, IInv, TypeOK, BuffersFirst, ReadersEnd, DecidedLast,
              ResultShowsOutput, FirstChunks, commandVars, storeVars, fileVars
<1>4. ASSUME NEW s \in Streams, ReadChunk(s) PROVE IInv'
  BY <1>4, StoreKeeps
<1>5. ASSUME NEW s \in Streams, ProgressRaises(s) \/ ReaderEnds(s) PROVE IInv'
  <2>1. /\ reader' \in [Streams -> Readers]
        /\ \A t \in Streams : reader'[t] \in {reader[t], "dead", "ended"}
        /\ \A t \in Streams : reader'[t] = "ended" /\ reader[t] # "ended" =>
               child = "exited" /\ taken[t] = written[t] /\ reader[t] = "reading"
        /\ UNCHANGED <<commandVars, childVars, taken, storeVars, fileVars, cleared, result>>
    BY <1>5 DEF ProgressRaises, ReaderEnds, IInv, TypeOK, Readers
  <2>2. TypeOK'
    BY <2>1 DEF IInv, TypeOK, commandVars, childVars, storeVars, fileVars
  <2>3. BuffersFirst' /\ ReadersEnd' /\ DecidedLast'
    BY <2>1 DEF IInv, BuffersFirst, ReadersEnd, DecidedLast, FirstChunks, commandVars,
                childVars, storeVars
  <2>4. ResultShowsOutput'
    <3>1. status = "completed" => \A t \in Streams : reader'[t] = "ended" => reader[t] = "ended"
      BY <2>1 DEF IInv, DecidedLast
    <3>2. status' = status /\ written' = written /\ cleared' = cleared /\ result' = result
      BY <2>1 DEF commandVars, childVars
    <3>3. ASSUME NEW r \in result, ~r.notice, NEW t \in Streams
          PROVE  /\ r.inline[t] = FirstChunks(t, Len(r.inline[t]))
                 /\ Len(r.inline[t]) <= written[t]
                 /\ status = "completed" /\ reader'[t] = "ended" /\ ~cleared =>
                       Len(r.inline[t]) = written[t]
      BY <3>1, <3>3 DEF IInv, ResultShowsOutput
    <3> QED
      BY <3>2, <3>3 DEF ResultShowsOutput, FirstChunks
  <2> QED
    BY <2>2, <2>3, <2>4 DEF IInv
<1>6. CASE Kill
  BY <1>6 DEF Kill, Command!Kill, IInv, TypeOK, BuffersFirst, ReadersEnd, DecidedLast,
              ResultShowsOutput, FirstChunks, childVars, storeVars, fileVars
<1>7. ASSUME NEW id \in TaskIds, Background(id) PROVE IInv'
  <2>1. /\ status' = "backgrounded" /\ taskId' = id /\ outcome' = outcome
        /\ status = "running" /\ outcome = {} /\ result = {}
        /\ UNCHANGED <<decided, childVars, taken, reader, fileVars, cleared, result>>
    BY <1>7 DEF Background, Command!Background, IInv, TypeOK, DecidedLast
  <2>2. buffer' = NoOutput /\ spilled' \in BOOLEAN /\ pending' \in Seq(Chunks) /\ spilled'
    <3>1. CASE spilled
      BY <1>7, <3>1 DEF Background, storeVars, IInv, TypeOK
    <3>2. CASE ~spilled
      <4>1. SpillToDisk(<<>>)
        BY <1>7, <3>2 DEF Background
      <4>2. <<>> \in Seq(Chunks)
        OBVIOUS
      <4> QED
        BY <4>1, <4>2, SpillEffect DEF IInv
    <3> QED
      BY <3>1, <3>2
  <2>3. Len(NoOutput["stdout"]) + Len(NoOutput["stderr"]) <= MaxMemory
    BY LimitsAssumption DEF NoOutput, Streams
  <2>4. NoOutput \in [Streams -> Seq(Chunks)]
    BY DEF NoOutput
  <2>5. TypeOK'
    BY <2>1, <2>2, <2>3, <2>4 DEF IInv, TypeOK, childVars, fileVars
  <2>6. BuffersFirst'
    BY <2>1, <2>2, NoOutputIsFirst DEF IInv, BuffersFirst, FirstChunks, childVars
  <2>7. ReadersEnd' /\ DecidedLast' /\ ResultShowsOutput'
    BY <2>1 DEF IInv, ReadersEnd, DecidedLast, ResultShowsOutput, childVars
  <2> QED
    BY <2>5, <2>6, <2>7 DEF IInv
<1>8. CASE WaitForExit
  BY <1>8 DEF WaitForExit, IInv, TypeOK, BuffersFirst, ReadersEnd, DecidedLast,
              ResultShowsOutput, FirstChunks, childVars, storeVars, fileVars
<1>9. CASE HandleExit
  <2>1. /\ decided /\ outcome = {} /\ outcome' = {taskId} /\ taskId' = taskId
        /\ status' \in {"completed", "killed"}
        /\ status' = "completed" => status # "killed"
        /\ result' = {Told}
        /\ UNCHANGED <<decided, childVars, taken, reader, storeVars, fileVars, cleared>>
    BY <1>9 DEF HandleExit, Command!Answer, Command!Ended
  <2>2. TypeOK'
    <3>1. Told \in [notice : BOOLEAN, inline : [Streams -> Seq(Chunks)]]
      BY DEF IInv, TypeOK, Told, NoOutput
    <3> QED
      BY <2>1, <3>1 DEF IInv, TypeOK, childVars, storeVars, fileVars
  <2>3. BuffersFirst' /\ ReadersEnd' /\ DecidedLast'
    BY <2>1 DEF IInv, BuffersFirst, ReadersEnd, DecidedLast, FirstChunks, childVars, storeVars
  <2>4. ASSUME ~Told.notice, NEW s \in Streams
        PROVE  /\ Told.inline[s] = FirstChunks(s, Len(Told.inline[s]))
               /\ Len(Told.inline[s]) <= written[s]
               /\ status' = "completed" /\ reader[s] = "ended" /\ ~cleared =>
                     Len(Told.inline[s]) = written[s]
    <3>1. ~spilled /\ Told.inline = buffer
      BY <2>4 DEF Told
    <3>2. taken[s] \in Nat /\ written[s] \in Nat
      BY DEF IInv, TypeOK
    <3> QED
      BY <3>1, <3>2 DEF IInv, BuffersFirst, ReadersEnd
  <2>5. ResultShowsOutput'
    BY <2>1, <2>4 DEF ResultShowsOutput, FirstChunks, childVars
  <2> QED
    BY <2>2, <2>3, <2>5 DEF IInv
<1>10. CASE Cleanup
  <2>1. /\ cleared' /\ cleared' \in BOOLEAN /\ buffer' = NoOutput
        /\ reader' = [s \in Streams |-> IF reader[s] = "reading" THEN "cancelled" ELSE reader[s]]
        /\ UNCHANGED <<commandVars, childVars, taken, spilled, result>>
    BY <1>10 DEF Cleanup
  <2>2. pending' \in Seq(Chunks) /\ disk' = disk /\ faulty' \in BOOLEAN
    <3>1. CASE spilled
      <4>1. PICK m \in 0 .. Len(pending) : Log!Drop(m)
        BY <1>10, <3>1 DEF Cleanup
      <4> QED
        BY <4>1, DropEffect DEF IInv
    <3>2. CASE ~spilled
      BY <1>10, <3>2 DEF Cleanup, fileVars, IInv, TypeOK
    <3> QED
      BY <3>1, <3>2
  <2>3. /\ reader' \in [Streams -> Readers]
        /\ \A s \in Streams : reader'[s] # "reading" /\ reader'[s] \in {reader[s], "cancelled"}
    BY <2>1 DEF IInv, TypeOK, Readers
  <2>4. Len(NoOutput["stdout"]) + Len(NoOutput["stderr"]) <= MaxMemory
    BY LimitsAssumption DEF NoOutput, Streams
  <2>5. NoOutput \in [Streams -> Seq(Chunks)]
    BY DEF NoOutput
  <2>6. TypeOK'
    BY <2>1, <2>2, <2>3, <2>4, <2>5 DEF IInv, TypeOK, commandVars, childVars
  <2>7. BuffersFirst'
    BY <2>1, NoOutputIsFirst DEF IInv, BuffersFirst, FirstChunks, childVars
  <2>8. ReadersEnd' /\ DecidedLast' /\ ResultShowsOutput'
    BY <2>1, <2>3 DEF IInv, ReadersEnd, DecidedLast, ResultShowsOutput, FirstChunks,
                      commandVars, childVars
  <2> QED
    BY <2>6, <2>7, <2>8 DEF IInv
<1>11. CASE UNCHANGED vars
  BY <1>11 DEF vars, commandVars, childVars, storeVars, fileVars, IInv, TypeOK, BuffersFirst,
               ReadersEnd, DecidedLast, ResultShowsOutput, FirstChunks
<1> QED
  BY <1>1, <1>2, <1>3, <1>4, <1>5, <1>6, <1>7, <1>8, <1>9, <1>10, <1>11 DEF Next

-----------------------------------------------------------------------------
(* What the disk queue and the file hold together.                         *)

(* A log has the first chunks of each stream, as many as are counted.      *)
HoldsFirst(log, count) ==
    /\ InOrder(log)
    /\ \A s \in Streams : \A n \in 1 .. MaxChunks :
           Holds(log, [from |-> s, n |-> n]) <=> n <= count[s]

(* Nothing is on its way before the buffers have moved; after that, what   *)
(* was read is in the queue or in the file, unless some was dropped.       *)
LogHolds ==
    /\ ~spilled => pending = <<>> /\ disk = <<>>
    /\ spilled /\ ~cleared /\ ~faulty => HoldsFirst(disk \o pending, taken)

FirstOf(k) == FirstChunks("stdout", k["stdout"]) \o FirstChunks("stderr", k["stderr"])

LEMMA ConcatIndex ==
  ASSUME NEW s \in Seq(Chunks), NEW t \in Seq(Chunks)
  PROVE  /\ s \o t \in Seq(Chunks) /\ Len(s \o t) = Len(s) + Len(t)
         /\ \A i \in 1 .. Len(s) : (s \o t)[i] = s[i]
         /\ \A i \in Len(s) + 1 .. Len(s) + Len(t) : (s \o t)[i] = t[i - Len(s)]
  BY ConcatProperties

LEMMA ChunkParts ==
  \A c \in Chunks : /\ c.from \in Streams /\ c.n \in 1 .. MaxChunks /\ c.n \in Nat
                     /\ c = [from |-> c.from, n |-> c.n]
  BY DEF Chunks

LEMMA SameChunk ==
  \A s, t, m, n : [from |-> s, n |-> m] = [from |-> t, n |-> n] <=> s = t /\ m = n
  OBVIOUS

(* What a log holds when a chunk is appended.                             *)
LEMMA HoldsAppended ==
  ASSUME NEW log \in Seq(Chunks), NEW c \in Chunks, NEW d
  PROVE  Holds(Append(log, c), d) <=> Holds(log, d) \/ d = c
<1> DEFINE more == Append(log, c)
<1>1. /\ DOMAIN more = 1 .. Len(log) + 1
      /\ DOMAIN log = 1 .. Len(log) /\ Len(log) \in Nat
      /\ \A i \in 1 .. Len(log) : more[i] = log[i]
      /\ more[Len(log) + 1] = c
  BY AppendProperties, LenProperties
<1> HIDE DEF more
<1>2. Holds(more, d) <=> Holds(log, d) \/ d = c
  BY <1>1 DEF Holds
<1> QED
  BY <1>2 DEF more

(* The next chunk of its stream is appended.                               *)
LEMMA AppendHolds ==
  ASSUME NEW log \in Seq(Chunks), NEW count \in [Streams -> 0 .. MaxChunks],
         HoldsFirst(log, count), NEW s \in Streams, count[s] < MaxChunks,
         NEW chunk, chunk = [from |-> s, n |-> count[s] + 1]
  PROVE  /\ chunk \in Chunks
         /\ HoldsFirst(Append(log, chunk), [count EXCEPT ![s] = @ + 1])
<1> DEFINE more == Append(log, chunk)
<1>0. count[s] \in Nat /\ chunk \in Chunks
  BY LimitsAssumption DEF Chunks
<1>1. /\ more \in Seq(Chunks) /\ DOMAIN more = 1 .. Len(log) + 1
      /\ DOMAIN log = 1 .. Len(log) /\ Len(log) \in Nat
      /\ \A i \in 1 .. Len(log) : more[i] = log[i]
      /\ more[Len(log) + 1] = chunk
  BY <1>0, AppendProperties, LenProperties
<1> HIDE DEF more
<1>e. \A i \in DOMAIN log : log[i] \in Chunks
  BY ElementOfSeq, LenProperties
<1>2. \A i \in DOMAIN log : log[i].from = s => log[i].n <= count[s]
  <2>1. SUFFICES ASSUME NEW i \in DOMAIN log, log[i].from = s PROVE log[i].n <= count[s]
    OBVIOUS
  <2>2. log[i] = [from |-> s, n |-> log[i].n] /\ log[i].n \in 1 .. MaxChunks
    BY <1>e, <2>1, ChunkParts
  <2>3. Holds(log, [from |-> s, n |-> log[i].n])
    BY <2>1, <2>2 DEF Holds
  <2>4. \A n \in 1 .. MaxChunks : Holds(log, [from |-> s, n |-> n]) <=> n <= count[s]
    BY DEF HoldsFirst
  <2> QED
    BY <2>2, <2>3, <2>4
<1>3. InOrder(more)
  <2>1. SUFFICES ASSUME NEW i \in DOMAIN more, NEW j \in DOMAIN more, i < j,
                        more[i].from = more[j].from
                 PROVE  more[i].n < more[j].n
    BY DEF InOrder
  <2>2. CASE j \in 1 .. Len(log)
    <3>1. /\ i \in DOMAIN log /\ more[i] = log[i]
          /\ j \in DOMAIN log /\ more[j] = log[j]
      BY <1>1, <2>1, <2>2
    <3>2. InOrder(log)
      BY DEF HoldsFirst
    <3> QED
      BY <2>1, <3>1, <3>2 DEF InOrder
  <2>3. CASE j = Len(log) + 1
    <3>1. i \in DOMAIN log /\ log[i].from = s /\ more[i] = log[i] /\ log[i].n \in Nat
      <4>1. i \in DOMAIN log /\ more[i] = log[i] /\ more[j] = chunk /\ chunk.from = s
        BY <1>1, <2>1, <2>3
      <4> QED
        BY <1>e, <2>1, <4>1, ChunkParts
    <3>2. log[i].n <= count[s] /\ more[j].n = count[s] + 1
      BY <1>1, <1>2, <2>3, <3>1
    <3> QED
      BY <1>0, <3>1, <3>2
  <2> QED
    BY <1>1, <2>2, <2>3
<1>4. ASSUME NEW t \in Streams, NEW n \in 1 .. MaxChunks
      PROVE  Holds(more, [from |-> t, n |-> n]) <=> n <= [count EXCEPT ![s] = @ + 1][t]
  <2>1. Holds(more, [from |-> t, n |-> n]) <=>
            Holds(log, [from |-> t, n |-> n]) \/ (t = s /\ n = count[s] + 1)
    BY <1>0, HoldsAppended, SameChunk DEF more
  <2>2. Holds(log, [from |-> t, n |-> n]) <=> n <= count[t]
    BY DEF HoldsFirst
  <2> QED
    BY <1>0, <2>1, <2>2, LimitsAssumption
<1> QED
  BY <1>0, <1>3, <1>4 DEF HoldsFirst, more

(* The first chunks of stdout, and then those of stderr.                   *)
LEMMA FirstHolds ==
  ASSUME NEW k \in [Streams -> 0 .. MaxChunks]
  PROVE  FirstOf(k) \in Seq(Chunks) /\ HoldsFirst(FirstOf(k), k)
<1> DEFINE a == FirstChunks("stdout", k["stdout"])
           b == FirstChunks("stderr", k["stderr"])
           log == a \o b
           na == k["stdout"]
           nb == k["stderr"]
<1>1. /\ na \in 0 .. MaxChunks /\ nb \in 0 .. MaxChunks /\ na \in Nat /\ nb \in Nat
      /\ a \in Seq(Chunks) /\ Len(a) = na /\ b \in Seq(Chunks) /\ Len(b) = nb
  BY FirstChunksIsSeq, LimitsAssumption DEF Streams
<1>2. /\ \A i \in 1 .. na : a[i] = [from |-> "stdout", n |-> i]
      /\ \A i \in 1 .. nb : b[i] = [from |-> "stderr", n |-> i]
  BY DEF FirstChunks
<1> HIDE DEF a, b, na, nb
<1>c. /\ log \in Seq(Chunks) /\ Len(log) = na + nb
      /\ \A i \in 1 .. na : log[i] = a[i]
      /\ \A i \in na + 1 .. na + nb : log[i] = b[i - na]
  BY <1>1, ConcatIndex
<1> HIDE DEF log
<1>d. DOMAIN log = 1 .. na + nb
  BY <1>c, LenProperties
<1>3. /\ \A i \in 1 .. na : log[i] = [from |-> "stdout", n |-> i]
      /\ \A i \in na + 1 .. na + nb : log[i] = [from |-> "stderr", n |-> i - na]
  <2>1. ASSUME NEW i \in na + 1 .. na + nb PROVE log[i] = [from |-> "stderr", n |-> i - na]
    <3>1. i - na \in 1 .. nb
      BY <1>1
    <3> QED
      BY <1>c, <1>2, <3>1
  <2> QED
    BY <1>c, <1>2, <2>1
<1>4. /\ \A i \in 1 .. na : log[i].from = "stdout" /\ log[i].n = i
      /\ \A i \in na + 1 .. na + nb : log[i].from = "stderr" /\ log[i].n = i - na
  <2>1. ASSUME NEW i \in 1 .. na PROVE log[i].from = "stdout" /\ log[i].n = i
    <3>1. log[i] = [from |-> "stdout", n |-> i]
      BY <1>3
    <3> QED
      BY <3>1
  <2>2. ASSUME NEW i \in na + 1 .. na + nb PROVE log[i].from = "stderr" /\ log[i].n = i - na
    <3>1. log[i] = [from |-> "stderr", n |-> i - na]
      BY <1>3
    <3> QED
      BY <3>1
  <2> QED
    BY <2>1, <2>2
<1>5. InOrder(log)
  <2>1. SUFFICES ASSUME NEW i \in 1 .. na + nb, NEW j \in 1 .. na + nb, i < j,
                        log[i].from = log[j].from
                 PROVE  log[i].n < log[j].n
    BY <1>d DEF InOrder
  <2>2. CASE j \in 1 .. na
    BY <1>1, <1>4, <2>1, <2>2
  <2>3. CASE i \in 1 .. na /\ j \in na + 1 .. na + nb
    BY <1>4, <2>1, <2>3
  <2>4. CASE i \in na + 1 .. na + nb /\ j \in na + 1 .. na + nb
    BY <1>1, <1>4, <2>1, <2>4
  <2> QED
    BY <1>1, <2>1, <2>2, <2>3, <2>4
<1>6. ASSUME NEW n \in 1 .. MaxChunks
      PROVE  /\ Holds(log, [from |-> "stdout", n |-> n]) <=> n <= na
             /\ Holds(log, [from |-> "stderr", n |-> n]) <=> n <= nb
  <2>1. n <= na => n \in DOMAIN log /\ log[n] = [from |-> "stdout", n |-> n]
    BY <1>1, <1>3, <1>d
  <2>2. n <= nb => n + na \in DOMAIN log /\ log[n + na] = [from |-> "stderr", n |-> n]
    BY <1>1, <1>3, <1>d
  <2>3. ASSUME NEW i \in DOMAIN log, log[i] = [from |-> "stdout", n |-> n] PROVE n <= na
    <3>1. log[i].from = "stdout" /\ log[i].n = n
      BY <2>3
    <3> QED
      BY <1>1, <1>d, <1>4, <3>1
  <2>4. ASSUME NEW i \in DOMAIN log, log[i] = [from |-> "stderr", n |-> n] PROVE n <= nb
    <3>1. log[i].from = "stderr" /\ log[i].n = n
      BY <2>4
    <3> QED
      BY <1>1, <1>d, <1>4, <3>1
  <2> QED
    BY <2>1, <2>2, <2>3, <2>4 DEF Holds
<1> QED
  BY <1>c, <1>5, <1>6 DEF HoldsFirst, FirstOf, Streams, a, b, na, nb, log

LEMMA EmptyConcat ==
  ASSUME NEW S, NEW s \in Seq(S)
  PROVE  s \o <<>> = s /\ <<>> \o s = s /\ <<>> \in Seq(S)
  BY ConcatEmptySeq

LEMMA AppendToConcat ==
  ASSUME NEW s \in Seq(Chunks), NEW t \in Seq(Chunks), NEW c \in Chunks
  PROVE  /\ s \o Append(t, c) = Append(s \o t, c)
         /\ t \o <<c>> = Append(t, c) /\ <<c>> \in Seq(Chunks)
  BY DEF Chunks

(* What the move of the buffers puts in the queue.                         *)
LEMMA FirstsInLog ==
  ASSUME IInv, ~spilled, ~cleared
  PROVE  /\ buffer["stdout"] \o buffer["stderr"] \in Seq(Chunks)
         /\ HoldsFirst(buffer["stdout"] \o buffer["stderr"], taken)
<1>1. \A s \in Streams : buffer[s] = FirstChunks(s, taken[s])
  BY DEF IInv, BuffersFirst
<1>2. taken \in [Streams -> 0 .. MaxChunks]
  BY DEF IInv, TypeOK
<1>3. buffer["stdout"] \o buffer["stderr"] = FirstOf(taken)
  BY <1>1 DEF FirstOf, Streams
<1> QED
  BY <1>2, <1>3, FirstHolds

(* A chunk that is stored goes behind the others.                          *)
LEMMA StoreKeepsLog ==
  ASSUME IInv, LogHolds, NEW s \in Streams, ReadChunk(s)
  PROVE  LogHolds'
<1> DEFINE chunk == [from |-> s, n |-> taken[s] + 1]
<1>1. /\ taken \in [Streams -> 0 .. MaxChunks] /\ taken[s] \in Nat /\ taken[s] < MaxChunks
      /\ taken' = [taken EXCEPT ![s] = @ + 1] /\ taken'[s] = taken[s] + 1
      /\ pending \in Seq(Chunks) /\ disk \in Seq(Chunks)
      /\ \A t \in Streams : buffer[t] \in Seq(Chunks)
      /\ ~cleared /\ UNCHANGED <<disk, faulty, cleared>>
  BY LimitsAssumption DEF ReadChunk, IInv, TypeOK, ReadersEnd, fileVars
<1>2. WriteBuffered(chunk) /\ chunk \in Chunks
  BY <1>1, LimitsAssumption DEF ReadChunk, Chunks
<1>a. ASSUME NEW log \in Seq(Chunks), HoldsFirst(log, taken)
      PROVE  HoldsFirst(Append(log, chunk), [taken EXCEPT ![s] = @ + 1])
  BY <1>1, <1>a, AppendHolds, Zenon
<1> HIDE DEF chunk
<1>3. CASE spilled
  <2>1. spilled' = spilled /\ pending' = Append(pending, chunk)
    BY <1>2, <1>3 DEF WriteBuffered
  <2>2. ~faulty => HoldsFirst(disk \o pending, taken)
    BY <1>1, <1>3 DEF LogHolds
  <2>3. disk' \o pending' = Append(disk \o pending, chunk)
    BY <1>1, <1>2, <2>1, AppendToConcat
  <2>4. disk \o pending \in Seq(Chunks)
    BY <1>1, ConcatIndex
  <2>5. ~faulty => HoldsFirst(disk' \o pending', taken')
    BY <1>1, <1>a, <2>2, <2>3, <2>4
  <2> QED
    BY <1>1, <1>3, <2>1, <2>5 DEF LogHolds
<1>4. CASE ~spilled /\ SpillToDisk(<<chunk>>)
  <2>1. pending = <<>> /\ disk = <<>>
    BY <1>4 DEF LogHolds
  <2> DEFINE moved == buffer["stdout"] \o buffer["stderr"]
  <2>2. moved \in Seq(Chunks) /\ HoldsFirst(moved, taken)
    BY <1>1, <1>4, FirstsInLog
  <2>3. pending' = pending \o buffer["stdout"] \o buffer["stderr"] \o <<chunk>> /\ spilled'
    BY <1>4 DEF SpillToDisk
  <2>4. disk' \o pending' = Append(moved, chunk)
    <3>1. pending \o buffer["stdout"] \o buffer["stderr"] = moved
      BY <1>1, <2>1, EmptyConcat DEF Streams
    <3>2. pending' = Append(moved, chunk) /\ Append(moved, chunk) \in Seq(Chunks)
      <4> HIDE DEF moved
      <4>1. pending' = moved \o <<chunk>>
        BY <2>3, <3>1
      <4>2. moved \o <<chunk>> = Append(moved, chunk)
        BY <1>2, <2>2, AppendToConcat
      <4> QED
        BY <1>2, <2>2, <4>1, <4>2, AppendProperties
    <3> QED
      BY <1>1, <2>1, <3>2, EmptyConcat
  <2> HIDE DEF moved
  <2>5. HoldsFirst(disk' \o pending', taken')
    BY <1>1, <1>a, <2>2, <2>4
  <2> QED
    BY <2>3, <2>5 DEF LogHolds
<1>5. CASE ~spilled /\ UNCHANGED <<spilled, pending>>
  BY <1>1, <1>5 DEF LogHolds
<1> QED
  BY <1>2, <1>3, <1>4, <1>5 DEF WriteBuffered

(* A batch that is written whole goes from the queue to the file.          *)
LEMMA WriteKeepsLog ==
  ASSUME TypeOK, NEW m \in 1 .. Len(pending), NEW k \in 0 .. m, Log!Write(k, m), ~faulty'
  PROVE  ~faulty /\ disk' \o pending' = disk \o pending
<1>0. disk \in Seq(Chunks) /\ pending \in Seq(Chunks)
  BY DEF TypeOK
<1>1. /\ k = m /\ ~faulty
      /\ disk' = disk \o SubSeq(pending, 1, m)
      /\ pending' = SubSeq(pending, m + 1, Len(pending))
  <2>1. ~faulty /\ ~(k < m)
    BY DEF Log!Write
  <2>2. k = m
    BY <1>0, <2>1
  <2> QED
    BY <2>1, <2>2 DEF Log!Write
<1>2. pending = SubSeq(pending, 1, m) \o SubSeq(pending, m + 1, Len(pending))
  BY <1>0, ConcatAdjacentSubSeq, SubSeqFull
<1>3. SubSeq(pending, 1, m) \in Seq(Chunks) /\ SubSeq(pending, m + 1, Len(pending)) \in Seq(Chunks)
  BY <1>0
<1> DEFINE a == SubSeq(pending, 1, m)
           b == SubSeq(pending, m + 1, Len(pending))
<1>4. (disk \o a) \o b = disk \o (a \o b)
  <2> HIDE DEF a, b
  <2>1. a \in Seq(Chunks) /\ b \in Seq(Chunks)
    BY <1>3 DEF a, b
  <2>2. disk \in Seq(Chunks)
    BY <1>0
  <2> QED
    BY <2>1, <2>2, ConcatAssociative
<1> QED
  BY <1>1, <1>2, <1>4

(* No step takes a chunk out of its place.                                 *)
LEMMA NextKeepsLog == IInv /\ LogHolds /\ [Next]_vars => LogHolds'
<1> SUFFICES ASSUME IInv, LogHolds, [Next]_vars PROVE LogHolds'
  OBVIOUS
<1>1. CASE DrainWrites
  <2>1. PICK m \in 1 .. Len(pending) : \E k \in 0 .. m : Log!Write(k, m)
    BY <1>1 DEF DrainWrites
  <2>2. ~faulty' => ~faulty /\ disk' \o pending' = disk \o pending
    BY <2>1, WriteKeepsLog DEF IInv
  <2>3. spilled /\ spilled' = spilled /\ taken' = taken /\ cleared' = cleared
    BY <1>1 DEF DrainWrites
  <2> QED
    BY <2>2, <2>3 DEF LogHolds
<1>2. ASSUME NEW s \in Streams, ReadChunk(s) PROVE LogHolds'
  BY <1>2, StoreKeepsLog
<1>3. ASSUME NEW id \in TaskIds, Background(id) PROVE LogHolds'
  <2>1. UNCHANGED <<disk, faulty, taken, cleared>>
    BY <1>3 DEF Background, fileVars
  <2>2. CASE spilled
    BY <1>3, <2>1, <2>2 DEF Background, storeVars, LogHolds
  <2>3. CASE ~spilled
    <3> DEFINE moved == buffer["stdout"] \o buffer["stderr"]
    <3>1. pending = <<>> /\ disk = <<>> /\ \A t \in Streams : buffer[t] \in Seq(Chunks)
      BY <2>3 DEF LogHolds, IInv, TypeOK
    <3>2. pending' = pending \o buffer["stdout"] \o buffer["stderr"] \o <<>> /\ spilled'
      BY <1>3, <2>3 DEF Background, SpillToDisk
    <3>3. moved \in Seq(Chunks)
      BY <3>1, ConcatIndex DEF Streams
    <3>4. pending \o buffer["stdout"] \o buffer["stderr"] = moved
      BY <3>1, EmptyConcat DEF Streams
    <3>5. disk' \o pending' = moved
      BY <2>1, <3>1, <3>2, <3>3, <3>4, EmptyConcat
    <3>6. ~cleared => HoldsFirst(moved, taken)
      BY <2>3, FirstsInLog
    <3> QED
      BY <2>1, <3>2, <3>5, <3>6 DEF LogHolds
  <2> QED
    BY <2>2, <2>3
<1>4. CASE Cleanup
  BY <1>4 DEF Cleanup, LogHolds, fileVars
<1>5. CASE \/ \E s \in Streams : ChildWrites(s) \/ ProgressRaises(s) \/ ReaderEnds(s)
           \/ ChildExits \/ Kill \/ WaitForExit \/ HandleExit \/ UNCHANGED vars
  <2>1. UNCHANGED <<spilled, pending, disk, taken, cleared, faulty>>
    BY <1>5 DEF ChildWrites, ProgressRaises, ReaderEnds, ChildExits, Kill, WaitForExit,
                HandleExit, vars, storeVars, fileVars
  <2> QED
    BY <2>1 DEF LogHolds
<1> QED
  BY <1>1, <1>2, <1>3, <1>4, <1>5 DEF Next

(* The file, the queue and a buffer one after the other.                   *)
LEMMA LogIsKept == IInv /\ LogHolds => OutputKept
<1> SUFFICES ASSUME IInv, LogHolds, ~cleared, ~faulty, NEW s \in Streams
             PROVE  /\ InOrder(disk \o pending \o buffer[s])
                    /\ \A n \in 1 .. MaxChunks :
                           Holds(disk \o pending \o buffer[s], [from |-> s, n |-> n]) <=> n <= taken[s]
  BY DEF OutputKept
<1>1. /\ taken[s] \in 0 .. MaxChunks /\ buffer[s] \in Seq(Chunks)
      /\ disk \in Seq(Chunks) /\ pending \in Seq(Chunks)
  BY DEF IInv, TypeOK
<1>2. CASE spilled
  <2>1. HoldsFirst(disk \o pending, taken)
    BY <1>2 DEF LogHolds
  <2>2. buffer[s] = <<>>
    BY <1>2 DEF IInv, TypeOK, NoOutput
  <2>3. disk \o pending \o buffer[s] = disk \o pending
    BY <1>1, <2>2, ConcatIndex, EmptyConcat
  <2> QED
    BY <2>1, <2>3 DEF HoldsFirst
<1>3. CASE ~spilled
  <2>1. buffer[s] = FirstChunks(s, taken[s])
    BY <1>3 DEF IInv, BuffersFirst
  <2>2. disk \o pending \o buffer[s] = FirstChunks(s, taken[s])
    <3>1. disk = <<>> /\ pending = <<>>
      BY <1>3 DEF LogHolds
    <3> QED
      BY <1>1, <2>1, <3>1, EmptyConcat
  <2>3. InOrder(FirstChunks(s, taken[s]))
    BY <1>1 DEF InOrder, FirstChunks
  <2>4. ASSUME NEW n \in 1 .. MaxChunks
        PROVE  Holds(FirstChunks(s, taken[s]), [from |-> s, n |-> n]) <=> n <= taken[s]
    <3> DEFINE first == FirstChunks(s, taken[s])
    <3>1. DOMAIN first = 1 .. taken[s] /\ \A i \in 1 .. taken[s] : first[i] = [from |-> s, n |-> i]
      BY <1>1 DEF FirstChunks
    <3> HIDE DEF first
    <3>2. ASSUME NEW i \in DOMAIN first PROVE first[i] = [from |-> s, n |-> n] <=> i = n
      <4>1. first[i] = [from |-> s, n |-> i]
        BY <3>1
      <4> QED
        BY <4>1, SameChunk
    <3>3. Holds(first, [from |-> s, n |-> n]) <=> n \in DOMAIN first
      BY <3>2 DEF Holds
    <3> QED
      BY <1>1, <3>1, <3>3 DEF first
  <2> QED
    BY <2>2, <2>3, <2>4
<1> QED
  BY <1>2, <1>3

-----------------------------------------------------------------------------
(* The invariant holds in every state of every run.                        *)
THEOREM Invariance == Spec => []IInv
  BY InitEstablishes, NextPreserves, PTL DEF Spec

(* The buffers keep to their limit, and are empty once there is a disk.    *)
THEOREM TypeCorrect == Spec => []TypeOK
<1>1. IInv => TypeOK
  BY DEF IInv
<1> QED
  BY <1>1, Invariance, PTL

(* A result that shows the output shows its beginning, in order, and all   *)
(* of it when the command ran to its end and no callback raised.           *)
THEOREM ResultsShowOutput == Spec => []ResultShowsOutput
<1>1. IInv => ResultShowsOutput
  BY DEF IInv
<1> QED
  BY <1>1, Invariance, PTL

(* What was stored of each stream is all that was read from it, once and   *)
(* in order, in the buffers, in the queue or in the file, through the move *)
(* from one to the other: for every memory limit and amount of output.     *)
THEOREM StoredIsKept == Spec => []OutputKept
<1>1. Init => LogHolds
  BY DEF Init, Log!Init, LogHolds
<1>2. IInv /\ LogHolds /\ [Next]_vars => LogHolds'
  BY NextKeepsLog
<1>3. IInv /\ LogHolds => OutputKept
  BY LogIsKept
<1> QED
  BY <1>1, <1>2, <1>3, Invariance, PTL DEF Spec
=============================================================================
