-------------------------- MODULE DiskOutputProofs --------------------------
(* Theorems about DiskOutput, for any number of chunks, of faults and any  *)
(* cap: the file is an append-only log, every chunk is accounted for, no   *)
(* append goes unnoticed, and flush() returns when all is settled.         *)
EXTENDS DiskOutput, SequenceTheorems, TLAPS

Chunks == 1 .. MaxChunks

Kept == disk \o InTransit

(* The stages a fault has led to have one, or two, on record.              *)
FaultsCounted ==
    /\ attempt = 2 \/ drain = "aborting" => faults >= 1
    /\ attempt = 2 /\ drain = "aborting" => faults >= 2

IInv == /\ TypeOK
        /\ NothingLost
        /\ FaultsCounted
        /\ NoLostWakeup
        /\ FlushedIsSettled

-----------------------------------------------------------------------------
(* Facts about sequences.                                                  *)

LEMMA EmptyConcat ==
  ASSUME NEW S, NEW s \in Seq(S)
  PROVE  s \o <<>> = s /\ <<>> \o s = s
  BY ConcatEmptySeq

(* The head of s \o t as long as s is s, and the rest is t.                *)
LEMMA SplitConcat ==
  ASSUME NEW S, NEW s \in Seq(S), NEW t \in Seq(S)
  PROVE  /\ SubSeq(s \o t, 1, Len(s)) = s
         /\ SubSeq(s \o t, Len(s) + 1, Len(s \o t)) = t
<1>1. CASE s = <<>>
  BY <1>1, EmptyConcat, SubSeqEmpty, SubSeqFull, EmptySeq
<1>2. CASE s # <<>>
  <2>1. Len(s) \in Nat \ {0} /\ Len(t) \in Nat /\ Len(s \o t) = Len(s) + Len(t)
    BY <1>2, EmptySeq, ConcatProperties
  <2>2. SubSeq(s \o t, 1, Len(s)) = s
    BY <2>1, SubSeqOfConcat1, SubSeqFull
  <2>3. CASE t = <<>>
    BY <2>1, <2>2, <2>3, EmptyConcat, SubSeqEmpty, EmptySeq
  <2>4. CASE t # <<>>
    <3>1. Len(t) \in Nat \ {0}
      BY <2>4, EmptySeq
    <3>2. SubSeq(s \o t, Len(s) + 1, Len(s) + Len(t)) = SubSeq(t, 1, Len(t))
      BY <2>1, <3>1, SubSeqOfConcat2
    <3> QED
      BY <2>1, <2>2, <3>2, SubSeqFull
  <2> QED
    BY <2>3, <2>4
<1> QED
  BY <1>1, <1>2

(* A head of s \o t no longer than s is a head of s.                       *)
LEMMA HeadOfConcat ==
  ASSUME NEW S, NEW s \in Seq(S), NEW t \in Seq(S), NEW k \in 0 .. Len(s)
  PROVE  SubSeq(s \o t, 1, k) = SubSeq(s, 1, k)
<1>1. CASE k = 0
  BY <1>1, SubSeqEmpty
<1>2. CASE k # 0
  BY <1>2, SubSeqOfConcat1, LenProperties
<1> QED
  BY <1>1, <1>2

LEMMA SubSeqType ==
  ASSUME NEW S, NEW s \in Seq(S), NEW k \in 0 .. Len(s)
  PROVE  SubSeq(s, 1, k) \in Seq(S) /\ SubSeq(s, k + 1, Len(s)) \in Seq(S)
  BY SubSeqProperties, LenProperties, ElementOfSeq

(* A larger number at the end of an increasing sequence.                   *)
LEMMA PutLast ==
  ASSUME NEW S \in SUBSET Nat, NEW s \in Seq(S), NEW e \in S, Increasing(s),
         \A x \in Range(s) : x < e
  PROVE  Increasing(Append(s, e)) /\ Range(Append(s, e)) = Range(s) \cup {e}
<1> DEFINE t == Append(s, e)
<1>1. /\ t \in Seq(S) /\ Len(t) = Len(s) + 1 /\ Len(s) \in Nat
      /\ \A i \in 1 .. Len(s) : t[i] = s[i]
      /\ t[Len(s) + 1] = e
  BY AppendProperties, LenProperties
<1>2. Range(s) = {s[i] : i \in 1 .. Len(s)} /\ Range(t) = {t[i] : i \in 1 .. Len(t)}
  BY <1>1, RangeEquality
<1>3. Increasing(t)
  <2>1. ASSUME NEW i \in 1 .. Len(t), NEW j \in 1 .. Len(t), i < j PROVE t[i] < t[j]
    <3>1. i \in 1 .. Len(s) /\ t[i] = s[i]
      BY <1>1, <2>1
    <3>2. CASE j = Len(s) + 1
      BY <1>1, <1>2, <3>1, <3>2
    <3>3. CASE j \in 1 .. Len(s)
      BY <1>1, <2>1, <3>1, <3>3 DEF Increasing
    <3> QED
      BY <1>1, <3>2, <3>3
  <2> QED
    BY <2>1 DEF Increasing
<1>4. Range(t) = Range(s) \cup {e}
  BY <1>1, <1>2
<1> QED
  BY <1>3, <1>4

(* The elements of s \o t, by where they come from.                        *)
LEMMA ConcatParts ==
  ASSUME NEW S, NEW s \in Seq(S), NEW t \in Seq(S)
  PROVE  /\ s \o t \in Seq(S) /\ Len(s \o t) = Len(s) + Len(t)
         /\ Len(s) \in Nat /\ Len(t) \in Nat
         /\ \A i \in 1 .. Len(s) : i \in 1 .. Len(s \o t) /\ (s \o t)[i] = s[i]
         /\ \A i \in 1 .. Len(t) : /\ Len(s) + i \in 1 .. Len(s \o t)
                                  /\ (s \o t)[Len(s) + i] = t[i]
<1>1. /\ Len(s) \in Nat /\ Len(t) \in Nat
      /\ s \o t \in Seq(S) /\ Len(s \o t) = Len(s) + Len(t)
      /\ \A i \in 1 .. Len(s) + Len(t) :
            (s \o t)[i] = IF i <= Len(s) THEN s[i] ELSE t[i - Len(s)]
  BY ConcatProperties, LenProperties
<1>2. ASSUME NEW i \in 1 .. Len(t)
      PROVE  Len(s) + i \in 1 .. Len(s \o t) /\ (s \o t)[Len(s) + i] = t[i]
  <2>1. Len(s) + i \in 1 .. Len(s) + Len(t) /\ ~(Len(s) + i <= Len(s)) /\ Len(s) + i - Len(s) = i
    BY <1>1
  <2> QED
    BY <1>1, <2>1
<1> QED
  BY <1>1, <1>2

(* A middle piece taken out of an increasing sequence leaves one, and      *)
(* shares nothing with what is left.                                       *)
LEMMA CutOut ==
  ASSUME NEW S \in SUBSET Nat, NEW a \in Seq(S), NEW b \in Seq(S), NEW c \in Seq(S),
         Increasing(a \o (b \o c))
  PROVE  /\ Increasing(a \o c)
         /\ Range(a \o c) \cup Range(b) = Range(a \o (b \o c))
         /\ Range(a \o c) \cap Range(b) = {}
<1> DEFINE bc == b \o c
           s == a \o bc
           t == a \o c
<1>1. bc \in Seq(S) /\ Len(a) \in Nat /\ Len(b) \in Nat /\ Len(c) \in Nat
  BY ConcatParts
<1>2. /\ \A i \in 1 .. Len(b) : i \in 1 .. Len(bc) /\ bc[i] = b[i]
      /\ \A i \in 1 .. Len(c) : Len(b) + i \in 1 .. Len(bc) /\ bc[Len(b) + i] = c[i]
  BY ConcatParts
<1> HIDE DEF bc
<1>3. /\ \A i \in 1 .. Len(a) : i \in 1 .. Len(s) /\ s[i] = a[i]
      /\ \A i \in 1 .. Len(bc) : Len(a) + i \in 1 .. Len(s) /\ s[Len(a) + i] = bc[i]
  BY <1>1, ConcatParts
<1>4. /\ t \in Seq(S) /\ Len(t) = Len(a) + Len(c)
      /\ \A i \in 1 .. Len(a) : t[i] = a[i]
      /\ \A i \in 1 .. Len(c) : t[Len(a) + i] = c[i]
  BY ConcatParts
<1>5. Increasing(s)
  BY DEF bc
<1> HIDE DEF s, t
<1>6. ASSUME NEW i \in 1 .. Len(a) PROVE s[i] = a[i] /\ t[i] = a[i] /\ i \in 1 .. Len(s)
  BY <1>3, <1>4
<1>7. ASSUME NEW i \in 1 .. Len(b)
      PROVE  s[Len(a) + i] = b[i] /\ Len(a) + i \in 1 .. Len(s)
  BY <1>2, <1>3
<1>8. ASSUME NEW i \in 1 .. Len(c)
      PROVE  /\ s[Len(a) + Len(b) + i] = c[i] /\ Len(a) + Len(b) + i \in 1 .. Len(s)
             /\ t[Len(a) + i] = c[i]
  <2>1. Len(b) + i \in 1 .. Len(bc) /\ bc[Len(b) + i] = c[i]
    BY <1>2
  <2>2. Len(a) + (Len(b) + i) = Len(a) + Len(b) + i
    BY <1>1
  <2> QED
    BY <1>3, <1>4, <2>1, <2>2
<1>9. Increasing(t)
  <2>1. ASSUME NEW i \in 1 .. Len(t), NEW j \in 1 .. Len(t), i < j PROVE t[i] < t[j]
    <3>1. CASE j <= Len(a)
      BY <1>1, <1>5, <1>6, <2>1, <3>1 DEF Increasing
    <3>2. CASE j > Len(a)
      <4> DEFINE m == j - Len(a)
      <4>1. m \in 1 .. Len(c) /\ j = Len(a) + m
        BY <1>1, <1>4, <3>2
      <4>2. t[j] = s[Len(a) + Len(b) + m] /\ Len(a) + Len(b) + m \in 1 .. Len(s)
        BY <1>8, <4>1
      <4>3. CASE i <= Len(a)
        BY <1>1, <1>5, <1>6, <4>1, <4>2, <4>3 DEF Increasing
      <4>4. CASE i > Len(a)
        <5> DEFINE n == i - Len(a)
        <5>1. n \in 1 .. Len(c) /\ i = Len(a) + n /\ n < m
          BY <1>1, <1>4, <2>1, <4>1, <4>4
        <5>2. t[i] = s[Len(a) + Len(b) + n] /\ Len(a) + Len(b) + n \in 1 .. Len(s)
          BY <1>8, <5>1
        <5>3. Len(a) + Len(b) + n < Len(a) + Len(b) + m
          BY <1>1, <4>1, <5>1
        <5> HIDE DEF n
        <5> QED
          BY <1>5, <4>2, <5>2, <5>3 DEF Increasing
      <4> QED
        BY <1>1, <4>3, <4>4
    <3> QED
      BY <1>1, <1>4, <3>1, <3>2
  <2> QED
    BY <2>1 DEF Increasing
<1>10. Range(t) \cup Range(b) = Range(s)
  <2>1. Range(t) = Range(a) \cup Range(c) /\ Range(bc) = Range(b) \cup Range(c)
    BY RangeConcatenation DEF t, bc
  <2>2. Range(s) = Range(a) \cup Range(bc)
    BY <1>1, RangeConcatenation DEF s
  <2> QED
    BY <2>1, <2>2
<1>11. ASSUME NEW x \in Range(t), x \in Range(b) PROVE FALSE
  <2>1. PICK j \in 1 .. Len(b) : x = b[j]
    BY <1>11, RangeEquality
  <2>2. x \in Nat /\ x = s[Len(a) + j] /\ Len(a) + j \in 1 .. Len(s)
    BY <1>7, <2>1, ElementOfSeq
  <2>3. x \in Range(a) \/ x \in Range(c)
    BY <1>11, RangeConcatenation DEF t
  <2>4. CASE x \in Range(a)
    <3>1. PICK i \in 1 .. Len(a) : x = a[i]
      BY <2>4, RangeEquality
    <3>2. x = s[i] /\ i \in 1 .. Len(s) /\ i < Len(a) + j
      BY <1>1, <1>6, <3>1
    <3>3. x < x
      BY <1>5, <2>2, <3>2 DEF Increasing
    <3> QED
      BY <2>2, <3>3
  <2>5. CASE x \in Range(c)
    <3>1. PICK i \in 1 .. Len(c) : x = c[i]
      BY <2>5, RangeEquality
    <3>2. /\ x = s[Len(a) + Len(b) + i] /\ Len(a) + Len(b) + i \in 1 .. Len(s)
          /\ Len(a) + j < Len(a) + Len(b) + i
      BY <1>1, <1>8, <3>1
    <3>3. x < x
      BY <1>5, <2>2, <3>2 DEF Increasing
    <3> QED
      BY <2>2, <3>3
  <2> QED
    BY <2>3, <2>4, <2>5
<1> QED
  BY <1>9, <1>10, <1>11 DEF s, t, bc

-----------------------------------------------------------------------------
(* Type correctness, and the stages faults leave behind.                   *)

TypedParts == TypeOK /\ FaultsCounted

StagesTyped ==
    /\ drain \in Stages
    /\ attempt \in {1, 2}
    /\ flushed = (drain = "idle")
    /\ flusher \in {"none", "waiting", "returned"}
    /\ flusher = "waiting" => ~flushed

(* After an exception the drain starts over, a second time, or is idle.    *)
LEMMA RecoverTyped ==
  ASSUME TypedParts, Recover, drain # "idle"
  PROVE  /\ StagesTyped' /\ drain' \in {"starting", "idle"} /\ target' = target
         /\ abandoned' \in SUBSET Chunks
<1>a. Range(queue) \in SUBSET Chunks
  BY RangeOfSeq DEF TypedParts, TypeOK, Chunks
<1>b. abandoned' \in SUBSET Chunks
  BY <1>a DEF TypedParts, TypeOK, Recover, LeavesQueue, Chunks
<1> USE DEF TypedParts, TypeOK, Stages, Recover, EndDrain, flushVars
<1>1. flushed' = (drain' = "idle")
  OBVIOUS
<1>2. /\ drain' \in {"starting", "idle"}
      /\ attempt' \in {1, 2}
      /\ target' = target
  OBVIOUS
<1>3. flusher' \in {"none", "waiting", "returned"} /\ (flusher' = "waiting" => ~flushed')
  OBVIOUS
<1> QED
  BY <1>b, <1>1, <1>2, <1>3 DEF StagesTyped

LEMMA InitTyped == Init => TypedParts
<1> SUFFICES ASSUME Init PROVE TypedParts
  OBVIOUS
<1>1. <<>> \in Seq(1 .. MaxChunks)
  BY EmptySeq
<1>2. accepted \in 0 .. MaxChunks /\ target \in 0 .. accepted /\ faults \in 0 .. MaxFaults
  BY BoundsAssumption DEF Init
<1>3. StagesTyped /\ FaultsCounted
  <2>1. flushed = (drain = "idle")
    BY DEF Init
  <2> QED
    BY <2>1 DEF Init, StagesTyped, FaultsCounted, Stages
<1> QED
  BY <1>1, <1>2, <1>3 DEF Init, TypedParts, TypeOK, StagesTyped

LEMMA NextTyped == TypedParts /\ [Next]_vars => TypedParts'
<1> SUFFICES ASSUME TypedParts, [Next]_vars PROVE TypedParts'
  OBVIOUS
<1> USE DEF TypedParts, TypeOK, FaultsCounted, Stages, StagesTyped, logVars, flushVars,
            lossVars, Chunks
<1>e. <<>> \in Seq(1 .. MaxChunks)
  BY EmptySeq
<1>1. ASSUME NEW length \in Lengths, AppendChunk(length) PROVE TypedParts'
  <2>1. accepted' \in 1 .. MaxChunks /\ accepted' = accepted + 1
    BY <1>1, BoundsAssumption DEF AppendChunk
  <2>2. queue' \in Seq(1 .. MaxChunks)
    BY <1>1, <2>1, AppendProperties DEF AppendChunk
  <2>3. bytes' \in Nat /\ capped' \in BOOLEAN
    BY <1>1, BoundsAssumption DEF AppendChunk
  <2>4. StagesTyped' /\ FaultsCounted'
    BY <1>1 DEF AppendChunk
  <2>5. target' \in 0 .. accepted'
    BY <1>1, <2>1 DEF AppendChunk
  <2> QED
    BY <1>1, <2>1, <2>2, <2>3, <2>4, <2>5 DEF AppendChunk
<1>2. ASSUME Cancel PROVE TypedParts'
  BY <1>2, <1>e, RangeOfSeq DEF Cancel
<1>3. ASSUME Flush PROVE TypedParts'
  BY <1>3 DEF Flush
<1>4. ASSUME Start PROVE TypedParts'
  <2>1. StagesTyped'
    BY <1>4, RecoverTyped DEF Start
  <2>2. faults' \in 0 .. MaxFaults /\ (faults' = faults + 1 \/ faults' = faults)
    BY <1>4, BoundsAssumption DEF Start, GoesWrong
  <2>3. FaultsCounted'
    BY <1>4, <2>2 DEF Start, Recover, EndDrain, GoesWrong
  <2> QED
    BY <1>4, <2>1, <2>2, <2>3, RecoverTyped DEF Start
<1>5. ASSUME OpenFile PROVE TypedParts'
  <2>1. CASE NextBatch /\ UNCHANGED <<faults, abandoned>>
    <3>1. StagesTyped' /\ FaultsCounted'
      BY <1>5, <2>1 DEF OpenFile, NextBatch
    <3>2. drain' = "writing" <=> batch' # <<>>
      BY <1>5, <2>1 DEF OpenFile, NextBatch
    <3> QED
      BY <1>5, <1>e, <2>1, <3>1, <3>2 DEF OpenFile, NextBatch
  <2>2. CASE GoesWrong /\ Recover /\ UNCHANGED <<queue, batch>>
    <3>1. faults' \in 0 .. MaxFaults /\ faults' = faults + 1
      BY <2>2, BoundsAssumption DEF GoesWrong
    <3>2. FaultsCounted'
      BY <1>5, <2>2, <3>1 DEF Recover, EndDrain
    <3>3. StagesTyped' /\ drain' \in {"starting", "idle"} /\ target' = target
      BY <1>5, <2>2, RecoverTyped DEF OpenFile
    <3>4. abandoned' \in SUBSET Chunks
      BY <1>5, <2>2, RecoverTyped DEF OpenFile
    <3> QED
      BY <1>5, <2>2, <3>1, <3>2, <3>3, <3>4 DEF OpenFile
  <2> QED
    BY <1>5, <2>1, <2>2 DEF OpenFile
<1>6. ASSUME WriteAll PROVE TypedParts'
  <2>1. disk' \in Seq(1 .. MaxChunks)
    BY <1>6, ConcatProperties DEF WriteAll
  <2> QED
    BY <1>6, <1>e, <2>1 DEF WriteAll, NextBatch
<1>7. ASSUME WriteShort PROVE TypedParts'
  <2>1. PICK k \in 0 .. Len(batch) - 1 :
              /\ disk' = disk \o SubSeq(batch, 1, k)
              /\ dropped' = dropped \cup Range(SubSeq(batch, k + 1, Len(batch)))
    BY <1>7 DEF WriteShort
  <2>2. k \in 0 .. Len(batch)
    BY LenProperties
  <2>3. SubSeq(batch, 1, k) \in Seq(Chunks) /\ SubSeq(batch, k + 1, Len(batch)) \in Seq(Chunks)
    BY <2>2, SubSeqType
  <2>4. disk' \in Seq(Chunks)
    BY <2>1, <2>3, ConcatProperties
  <2>5. dropped' \in SUBSET Chunks
    <3>1. Range(SubSeq(batch, k + 1, Len(batch))) \in SUBSET Chunks
      BY <2>3, RangeOfSeq
    <3> QED
      BY <2>1, <3>1
  <2> QED
    BY <1>7, <1>e, <2>4, <2>5, BoundsAssumption DEF WriteShort, NextBatch, GoesWrong
<1>8. ASSUME WriteFails PROVE TypedParts'
  <2>1. dropped' \in SUBSET Chunks
    BY <1>8, RangeOfSeq DEF WriteFails
  <2>2. faults' \in 0 .. MaxFaults /\ faults' = faults + 1
    BY <1>8, BoundsAssumption DEF WriteFails, GoesWrong
  <2>3. StagesTyped' /\ FaultsCounted'
    BY <1>8, <2>2 DEF WriteFails
  <2> QED
    BY <1>8, <1>e, <2>1, <2>2, <2>3 DEF WriteFails
<1>9. ASSUME CloseFile PROVE TypedParts'
  <2>1. CASE GoesWrong /\ Recover
    <3>1. faults' \in 0 .. MaxFaults /\ faults' = faults + 1
      BY <2>1, BoundsAssumption DEF GoesWrong
    <3>2. FaultsCounted'
      BY <1>9, <2>1, <3>1 DEF Recover, EndDrain
    <3> QED
      BY <1>9, <2>1, <3>1, <3>2, RecoverTyped DEF CloseFile
  <2>2. CASE /\ UNCHANGED <<faults, abandoned>>
             /\ IF queue # <<>>
                THEN drain' = "opening" /\ UNCHANGED <<attempt, flushVars>>
                ELSE EndDrain
    <3> USE <1>9, <2>2 DEF CloseFile, EndDrain
    <3>1. flushed' = (drain' = "idle")
      OBVIOUS
    <3>2. /\ drain' \in {"opening", "idle"}
          /\ attempt' \in {1, 2}
          /\ target' = target
          /\ FaultsCounted'
      OBVIOUS
    <3>3. /\ flusher' \in {"none", "waiting", "returned"}
          /\ flusher' = "waiting" => ~flushed'
      OBVIOUS
    <3> QED
      BY <3>1, <3>2, <3>3
  <2> QED
    BY <1>9, <2>1, <2>2 DEF CloseFile
<1>10. ASSUME CloseAfterError PROVE TypedParts'
  <2>1. FaultsCounted'
    BY <1>10 DEF CloseAfterError, Recover, EndDrain
  <2>2. StagesTyped' /\ drain' \in {"starting", "idle"} /\ target' = target
    BY <1>10, RecoverTyped DEF CloseAfterError
  <2>3. abandoned' \in SUBSET Chunks
    BY <1>10, RecoverTyped DEF CloseAfterError
  <2> QED
    BY <1>10, <2>1, <2>2, <2>3 DEF CloseAfterError
<1>11. CASE UNCHANGED vars
  BY <1>11 DEF vars
<1> QED
  BY <1>1, <1>2, <1>3, <1>4, <1>5, <1>6, <1>7, <1>8, <1>9, <1>10, <1>11 DEF Next

-----------------------------------------------------------------------------
(* How each step moves chunks.                                             *)

LEMMA BatchMoves ==
  ASSUME TypeOK, NextBatch
  PROVE  InTransit' = queue
  BY EmptyConcat DEF TypeOK, NextBatch, InTransit

LEMMA TransitTyped ==
  ASSUME TypeOK
  PROVE  /\ InTransit \in Seq(1 .. MaxChunks)
         /\ Len(InTransit) = Len(batch) + Len(queue)
         /\ Len(batch) \in Nat /\ Len(queue) \in Nat /\ Len(InTransit) \in Nat
  BY ConcatProperties, LenProperties DEF TypeOK, InTransit

(* An append puts one more chunk at the end of what is in transit.         *)
LEMMA AppendMoves ==
  ASSUME TypeOK, NEW length \in Lengths, AppendChunk(length)
  PROVE  /\ accepted + 1 \in 1 .. MaxChunks
         /\ accepted' = accepted + 1
         /\ InTransit' = Append(InTransit, accepted + 1)
         /\ disk' = disk
<1>1. accepted + 1 \in 1 .. MaxChunks /\ accepted' = accepted + 1
  BY BoundsAssumption DEF TypeOK, AppendChunk
<1> DEFINE one == <<accepted + 1>>
<1>2. one \in Seq(1 .. MaxChunks)
  BY <1>1
<1>3. queue' = queue \o one
  BY <1>1, AppendIsConcat DEF TypeOK, AppendChunk
<1>4. batch \o (queue \o one) = (batch \o queue) \o one
  <2>1. batch \in Seq(1 .. MaxChunks) /\ queue \in Seq(1 .. MaxChunks)
    BY DEF TypeOK
  <2> HIDE DEF one
  <2> QED
    BY <1>2, <2>1, ConcatAssociative
<1>5. InTransit' = InTransit \o one
  BY <1>3, <1>4 DEF AppendChunk, InTransit
<1>6. Append(InTransit, accepted + 1) = InTransit \o one
  BY <1>1, TransitTyped, AppendIsConcat
<1> QED
  BY <1>1, <1>5, <1>6 DEF AppendChunk

(* A cancel drops the end of what is in transit.                           *)
LEMMA CancelMoves ==
  ASSUME TypeOK, Cancel
  PROVE  InTransit' = SubSeq(InTransit, 1, Len(batch)) /\ disk' = disk
<1>1. InTransit' = batch
  BY EmptyConcat DEF TypeOK, Cancel, InTransit
<1>2. SubSeq(InTransit, 1, Len(batch)) = batch
  BY SplitConcat DEF TypeOK, InTransit
<1> QED
  BY <1>1, <1>2 DEF Cancel

(* A write takes the batch out of transit: all of it, or k of its chunks,  *)
(* reach the file.                                                         *)
LEMMA WriteMoves ==
  ASSUME TypeOK, NEW k \in 0 .. Len(batch), InTransit' = queue,
         disk' = disk \o SubSeq(batch, 1, k)
  PROVE  /\ disk' = disk \o SubSeq(InTransit, 1, k)
         /\ InTransit' = SubSeq(InTransit, Len(batch) + 1, Len(InTransit))
<1>1. SubSeq(InTransit, 1, k) = SubSeq(batch, 1, k)
  BY HeadOfConcat DEF TypeOK, InTransit
<1>2. SubSeq(InTransit, Len(batch) + 1, Len(InTransit)) = queue
  BY SplitConcat DEF TypeOK, InTransit
<1> QED
  BY <1>1, <1>2

(* The other steps move nothing, and no fault or cancel is forgotten.      *)
LEMMA OthersMoveNothing ==
  ASSUME TypeOK,
         Flush \/ Start \/ OpenFile \/ CloseFile \/ CloseAfterError \/ UNCHANGED vars
  PROVE  /\ UNCHANGED <<InTransit, disk, accepted, dropped>>
         /\ faults' = faults \/ faults' = faults + 1
<1>1. CASE Flush \/ Start \/ CloseFile \/ CloseAfterError \/ UNCHANGED vars
  BY <1>1 DEF Flush, Start, CloseFile, CloseAfterError, vars, logVars, lossVars,
              InTransit, GoesWrong
<1>2. CASE OpenFile
  <2>1. batch = <<>>
    BY <1>2 DEF OpenFile, TypeOK
  <2>2. InTransit = queue
    BY <2>1, EmptyConcat DEF TypeOK, InTransit
  <2>3. InTransit' = InTransit
    BY <1>2, <2>2, BatchMoves DEF OpenFile, InTransit
  <2> QED
    BY <1>2, <2>3 DEF OpenFile, GoesWrong, logVars
<1> QED
  BY <1>1, <1>2

-----------------------------------------------------------------------------
(* Nothing is lost.                                                        *)

LEMMA AppendAfterConcat ==
  ASSUME NEW S, NEW s \in Seq(S), NEW t \in Seq(S), NEW e \in S
  PROVE  s \o Append(t, e) = Append(s \o t, e)
<1> DEFINE one == <<e>>
<1>1. one \in Seq(S)
  OBVIOUS
<1>2. Append(t, e) = t \o one /\ Append(s \o t, e) = (s \o t) \o one
  BY AppendIsConcat, ConcatProperties
<1>3. (s \o t) \o one = s \o (t \o one)
  <2> HIDE DEF one
  <2> QED
    BY <1>1, ConcatAssociative
<1> QED
  BY <1>2, <1>3

(* Chunks cut out of the middle, and recorded as dropped, are the only loss.*)
LEMMA CutIsDropped ==
  ASSUME NEW a \in Seq(Chunks), NEW b \in Seq(Chunks), NEW c \in Seq(Chunks),
         NothingLost, Kept = a \o (b \o c), Kept' = a \o c,
         dropped' = dropped \cup Range(b), accepted' = accepted
  PROVE  NothingLost'
<1>1. Chunks \in SUBSET Nat
  BY BoundsAssumption DEF Chunks
<1>2. /\ Increasing(Kept) /\ Range(Kept) \cup dropped = 1 .. accepted
      /\ Range(Kept) \cap dropped = {}
  BY DEF NothingLost, Kept
<1>3. /\ Increasing(Kept') /\ Range(Kept') \cup Range(b) = Range(Kept)
      /\ Range(Kept') \cap Range(b) = {}
  <2>1. Increasing(a \o (b \o c))
    BY <1>2
  <2>2. /\ Increasing(a \o c)
        /\ Range(a \o c) \cup Range(b) = Range(a \o (b \o c))
        /\ Range(a \o c) \cap Range(b) = {}
    BY <1>1, <2>1, CutOut
  <2> QED
    BY <2>2
<1>4. Range(Kept') \cup dropped' = 1 .. accepted'
  BY <1>2, <1>3
<1>5. Range(Kept') \cap dropped' = {}
  BY <1>2, <1>3
<1> QED
  BY <1>3, <1>4, <1>5 DEF NothingLost, Kept

LEMMA Associative ==
  \A f, g, h \in Seq(Chunks) : (f \o g) \o h = f \o (g \o h)
<1> TAKE f, g, h \in Seq(Chunks)
<1> QED
  BY ONLY f \in Seq(Chunks), g \in Seq(Chunks), h \in Seq(Chunks), ConcatAssociative

(* A write that reaches the middle of its batch.                           *)
LEMMA TailIsDropped ==
  ASSUME NEW head \in Seq(Chunks), NEW tail \in Seq(Chunks),
         disk \in Seq(Chunks), queue \in Seq(Chunks),
         NothingLost, batch = head \o tail, disk' = disk \o head, InTransit' = queue,
         dropped' = dropped \cup Range(tail), accepted' = accepted
  PROVE  NothingLost'
<1>1. disk \o head \in Seq(Chunks) /\ tail \o queue \in Seq(Chunks)
  BY ConcatProperties
<1>2. (head \o tail) \o queue = head \o (tail \o queue)
  BY ConcatAssociative
<1>3. ASSUME NEW g \in Seq(Chunks) PROVE (disk \o head) \o g = disk \o (head \o g)
  BY Associative, Zenon
<1>4. Kept = (disk \o head) \o (tail \o queue)
  BY <1>1, <1>2, <1>3 DEF Kept, InTransit
<1>5. Kept' = (disk \o head) \o queue
  BY DEF Kept
<1> QED
  BY <1>1, <1>4, <1>5, CutIsDropped

LEMMA NextLosesNothing == TypedParts /\ NothingLost /\ [Next]_vars => NothingLost'
<1> SUFFICES ASSUME TypedParts, NothingLost, [Next]_vars PROVE NothingLost'
  OBVIOUS
<1>0. /\ TypeOK /\ disk \in Seq(Chunks) /\ batch \in Seq(Chunks) /\ queue \in Seq(Chunks)
      /\ <<>> \in Seq(Chunks)
  BY EmptySeq DEF TypedParts, TypeOK, Chunks
<1>1. ASSUME NEW length \in Lengths, AppendChunk(length) PROVE NothingLost'
  <2>1. /\ accepted + 1 \in Chunks /\ accepted' = accepted + 1
        /\ InTransit' = Append(InTransit, accepted + 1) /\ disk' = disk
    BY <1>0, <1>1, AppendMoves DEF Chunks
  <2>2. InTransit \in Seq(Chunks)
    BY <1>0, TransitTyped DEF Chunks
  <2>3. Kept' = Append(Kept, accepted + 1) /\ Kept \in Seq(Chunks)
    <3>1. disk \o Append(InTransit, accepted + 1) = Append(disk \o InTransit, accepted + 1)
      BY <1>0, <2>1, <2>2, AppendAfterConcat
    <3> QED
      BY <1>0, <2>1, <2>2, <3>1, ConcatProperties DEF Kept
  <2>4. /\ Increasing(Kept) /\ Range(Kept) \cup dropped = 1 .. accepted
        /\ Range(Kept) \cap dropped = {} /\ accepted \in Nat
    BY <1>0 DEF NothingLost, Kept, TypeOK
  <2>5. Chunks \in SUBSET Nat /\ \A x \in Range(Kept) : x < accepted + 1
    BY <2>4, BoundsAssumption DEF Chunks
  <2>6. Increasing(Kept') /\ Range(Kept') = Range(Kept) \cup {accepted + 1}
    BY <2>1, <2>3, <2>4, <2>5, PutLast
  <2>7. dropped' = dropped /\ 1 .. accepted + 1 = (1 .. accepted) \cup {accepted + 1}
    BY <1>1, <2>4 DEF AppendChunk, lossVars
  <2>8. accepted + 1 \notin dropped
    BY <2>4
  <2> QED
    BY <2>1, <2>4, <2>6, <2>7, <2>8 DEF NothingLost, Kept
<1>2. CASE Cancel
  <2>1. Kept = (disk \o batch) \o (queue \o <<>>)
    BY <1>0, ConcatAssociative, EmptyConcat DEF Kept, InTransit
  <2>2. Kept' = (disk \o batch) \o <<>>
    BY <1>0, <1>2, EmptyConcat, ConcatProperties DEF Cancel, Kept, InTransit
  <2>3. disk \o batch \in Seq(Chunks)
    BY <1>0, ConcatProperties
  <2> QED
    BY <1>0, <1>2, <2>1, <2>2, <2>3, CutIsDropped DEF Cancel, logVars
<1>3. CASE WriteAll
  <2>1. Kept' = (disk \o batch) \o queue
    BY <1>0, <1>3, BatchMoves DEF WriteAll, Kept
  <2>2. Kept' = Kept
    <3>1. disk \in Seq(Chunks) /\ batch \in Seq(Chunks) /\ queue \in Seq(Chunks)
      BY <1>0
    <3>2. (disk \o batch) \o queue = disk \o (batch \o queue)
      BY ONLY <3>1, ConcatAssociative
    <3> QED
      BY <2>1, <3>2 DEF Kept, InTransit
  <2> QED
    BY <1>3, <2>2 DEF WriteAll, NothingLost, Kept, logVars, lossVars
<1>4. CASE WriteShort
  <2>1. PICK k \in 0 .. Len(batch) - 1 :
              /\ disk' = disk \o SubSeq(batch, 1, k)
              /\ dropped' = dropped \cup Range(SubSeq(batch, k + 1, Len(batch)))
    BY <1>4 DEF WriteShort
  <2>2. k \in 0 .. Len(batch) /\ Len(batch) \in Nat
    BY <1>0, LenProperties
  <2>3. SubSeq(batch, 1, k) \in Seq(Chunks) /\ SubSeq(batch, k + 1, Len(batch)) \in Seq(Chunks)
    BY <1>0, <2>2, SubSeqType
  <2>4. batch = SubSeq(batch, 1, k) \o SubSeq(batch, k + 1, Len(batch))
    <3>1. 1 \in 1 .. Len(batch) + 1 /\ k \in 1 - 1 .. Len(batch) /\ Len(batch) \in k .. Len(batch)
      BY <2>2
    <3> QED
      BY <1>0, <3>1, ConcatAdjacentSubSeq, SubSeqFull
  <2>5. InTransit' = queue /\ accepted' = accepted
    BY <1>0, <1>4, BatchMoves DEF WriteShort, logVars
  <2> QED
    BY <1>0, <2>1, <2>3, <2>4, <2>5, TailIsDropped
<1>5. CASE WriteFails
  <2>1. Kept = disk \o (batch \o queue) /\ Kept' = disk \o queue
    BY <1>0, <1>5, EmptyConcat DEF WriteFails, Kept, InTransit
  <2> QED
    BY <1>0, <1>5, <2>1, CutIsDropped DEF WriteFails, logVars
<1>6. CASE Flush \/ Start \/ OpenFile \/ CloseFile \/ CloseAfterError \/ UNCHANGED vars
  <2>1. UNCHANGED <<InTransit, disk, accepted, dropped>>
    BY <1>0, <1>6, OthersMoveNothing
  <2> QED
    BY <2>1 DEF NothingLost
<1> QED
  BY <1>1, <1>2, <1>3, <1>4, <1>5, <1>6 DEF Next

-----------------------------------------------------------------------------
(* No append goes unnoticed.                                               *)

(* Leaving the queue behind takes a fault in the second attempt, and what  *)
(* is left is on record.                                                   *)
LEMMA GivingUp ==
  ASSUME TypedParts, NoLostWakeup, Recover,
         faults' = faults + 1 \/ (drain = "aborting" /\ faults' = faults)
  PROVE  /\ drain' = "idle" => Range(queue) \subseteq abandoned'
         /\ abandoned' # {} => faults' >= 2
<1>0. faults \in Nat
  BY BoundsAssumption DEF TypedParts, TypeOK
<1>1. CASE attempt = 1 /\ queue # <<>>
  BY <1>0, <1>1 DEF Recover, NoLostWakeup
<1>2. CASE ~(attempt = 1 /\ queue # <<>>)
  <2>1. abandoned' = abandoned \cup Range(queue)
    BY <1>2 DEF Recover, LeavesQueue
  <2>2. CASE queue = <<>>
    <3>1. Range(queue) = {}
      BY <2>2 DEF Range
    <3> QED
      BY <1>0, <2>1, <3>1 DEF NoLostWakeup
  <2>3. CASE attempt = 2
    <3>1. faults' >= 2
      BY <1>0, <2>3 DEF TypedParts, FaultsCounted
    <3> QED
      BY <2>1, <3>1
  <2> QED
    BY <1>2, <2>2, <2>3 DEF TypedParts, TypeOK
<1> QED
  BY <1>1, <1>2

LEMMA NextWakes == TypedParts /\ NoLostWakeup /\ [Next]_vars => NoLostWakeup'
<1> SUFFICES ASSUME TypedParts, NoLostWakeup, [Next]_vars PROVE NoLostWakeup'
  OBVIOUS
<1>0. faults \in Nat /\ Range(<<>>) = {}
  BY BoundsAssumption DEF TypedParts, TypeOK, Range
<1>1. ASSUME NEW length \in Lengths, AppendChunk(length) PROVE NoLostWakeup'
  BY <1>1 DEF AppendChunk, NoLostWakeup, lossVars
<1>2. CASE Cancel
  BY <1>0, <1>2 DEF Cancel, NoLostWakeup
<1>3. CASE Flush \/ UNCHANGED vars
  BY <1>3 DEF Flush, NoLostWakeup, vars, lossVars
<1>4. CASE Start \/ OpenFile \/ CloseFile
  <2>1. \/ UNCHANGED <<faults, abandoned>> /\ (drain' # "idle" \/ queue' = <<>>)
        \/ Recover /\ faults' = faults + 1 /\ queue' = queue
    BY <1>4 DEF Start, OpenFile, NextBatch, CloseFile, GoesWrong
  <2>2. CASE UNCHANGED <<faults, abandoned>> /\ (drain' # "idle" \/ queue' = <<>>)
    BY <1>0, <2>2 DEF NoLostWakeup
  <2>3. CASE Recover /\ faults' = faults + 1 /\ queue' = queue
    BY <2>3, GivingUp DEF NoLostWakeup
  <2> QED
    BY <2>1, <2>2, <2>3
<1>5. CASE WriteAll \/ WriteShort \/ WriteFails
  <2>1. drain' # "idle" /\ abandoned' = abandoned /\ (faults' = faults \/ faults' = faults + 1)
    BY <1>5 DEF WriteAll, WriteShort, WriteFails, NextBatch, GoesWrong, lossVars
  <2> QED
    BY <1>0, <2>1 DEF NoLostWakeup
<1>6. CASE CloseAfterError
  <2>1. Recover /\ drain = "aborting" /\ faults' = faults /\ queue' = queue
    BY <1>6 DEF CloseAfterError
  <2> QED
    BY <2>1, GivingUp DEF NoLostWakeup
<1> QED
  BY <1>1, <1>2, <1>3, <1>4, <1>5, <1>6 DEF Next

-----------------------------------------------------------------------------
(* flush().                                                                *)

(* What the file holds, and what is lost, stays so.                        *)
LEMMA RecordsGrow ==
  TypedParts /\ [Next]_vars => /\ Range(disk) \subseteq Range(disk')
                              /\ dropped \subseteq dropped'
                              /\ abandoned \subseteq abandoned'
<1> SUFFICES ASSUME TypedParts, [Next]_vars
             PROVE  /\ Range(disk) \subseteq Range(disk')
                    /\ dropped \subseteq dropped'
                    /\ abandoned \subseteq abandoned'
  OBVIOUS
<1>0. disk \in Seq(Chunks) /\ batch \in Seq(Chunks)
  BY DEF TypedParts, TypeOK, Chunks
<1>1. Range(disk) \subseteq Range(disk')
  <2>1. CASE WriteAll
    BY <1>0, <2>1, RangeConcatenation DEF WriteAll
  <2>2. CASE WriteShort
    <3>1. PICK k \in 0 .. Len(batch) - 1 : disk' = disk \o SubSeq(batch, 1, k)
      BY <2>2 DEF WriteShort
    <3>2. SubSeq(batch, 1, k) \in Seq(Chunks)
      BY <1>0, LenProperties, SubSeqType
    <3>3. Range(disk \o SubSeq(batch, 1, k)) = Range(disk) \cup Range(SubSeq(batch, 1, k))
      BY <1>0, <3>2, RangeConcatenation
    <3> QED
      BY <3>1, <3>3
  <2> QED
    BY <2>1, <2>2 DEF Next, AppendChunk, Cancel, Flush, Start, OpenFile, WriteFails,
       CloseFile, CloseAfterError, vars
<1>2. dropped \subseteq dropped'
  BY DEF Next, AppendChunk, Cancel, Flush, Start, OpenFile, WriteAll, WriteShort,
     WriteFails, CloseFile, CloseAfterError, vars, lossVars
<1>3. abandoned \subseteq abandoned'
  <2>1. Recover => abandoned \subseteq abandoned'
    BY DEF Recover, LeavesQueue
  <2> QED
    BY <2>1 DEF Next, AppendChunk, Cancel, Flush, Start, OpenFile, WriteAll, WriteShort,
       WriteFails, CloseFile, CloseAfterError, vars, lossVars
<1> QED
  BY <1>1, <1>2, <1>3

LEMMA NextFlushes ==
  ASSUME TypedParts, TypedParts', NothingLost', NoLostWakeup', FlushedIsSettled,
         [Next]_vars
  PROVE  FlushedIsSettled'
<1> SUFFICES ASSUME flusher' = "returned", NEW chunk \in 1 .. target'
             PROVE  Settled(chunk)'
  BY DEF FlushedIsSettled
<1>1. drain' = "idle" \/ (flusher = "returned" /\ target' = target)
  BY DEF Next, AppendChunk, Cancel, Flush, Start, OpenFile, WriteAll, WriteShort,
     WriteFails, CloseFile, CloseAfterError, NextBatch, Recover, EndDrain,
     vars, flushVars, TypedParts, TypeOK
<1>2. CASE drain' = "idle"
  <2>1. /\ chunk \in 1 .. accepted' /\ disk' \in Seq(Chunks) /\ queue' \in Seq(Chunks)
        /\ batch' = <<>>
    BY <1>2 DEF TypedParts, TypeOK, Chunks
  <2>2. InTransit' = queue'
    BY <2>1, EmptyConcat DEF InTransit
  <2>3. Range(disk' \o queue') = Range(disk') \cup Range(queue')
    BY <2>1, RangeConcatenation
  <2>4. chunk \in Range(disk') \cup Range(queue') \cup dropped'
    BY <2>1, <2>2, <2>3 DEF NothingLost
  <2>5. Range(queue') \subseteq abandoned'
    BY <1>2 DEF NoLostWakeup
  <2> QED
    BY <2>4, <2>5 DEF Settled
<1>3. CASE flusher = "returned" /\ target' = target
  <2>1. Settled(chunk)
    BY <1>3 DEF FlushedIsSettled
  <2> QED
    BY <2>1, RecordsGrow DEF Settled
<1> QED
  BY <1>1, <1>2, <1>3

-----------------------------------------------------------------------------
LEMMA InitEstablishes == Init => IInv
<1> SUFFICES ASSUME Init PROVE IInv
  OBVIOUS
<1>1. TypeOK /\ FaultsCounted
  BY InitTyped DEF TypedParts
<1>2. Range(<<>>) = {} /\ Increasing(<<>>)
  BY DEF Range, Increasing
<1>3. NothingLost
  <2>1. disk \o InTransit = <<>> \o (<<>> \o <<>>) /\ accepted = 0 /\ dropped = {}
    BY DEF Init, InTransit
  <2>2. <<>> \o (<<>> \o <<>>) = <<>>
    BY EmptyConcat, EmptySeq
  <2> QED
    BY <1>2, <2>1, <2>2 DEF NothingLost
<1>4. NoLostWakeup /\ FlushedIsSettled
  BY <1>2 DEF Init, NoLostWakeup, FlushedIsSettled
<1> QED
  BY <1>1, <1>3, <1>4 DEF IInv

(* In every behaviour the invariant holds at all times.                    *)
THEOREM Invariance == Spec => []IInv
<1>1. Init => IInv
  BY InitEstablishes
<1>2. IInv /\ [Next]_vars => IInv'
  <2> SUFFICES ASSUME IInv, [Next]_vars PROVE IInv'
    OBVIOUS
  <2>1. TypedParts'
    BY NextTyped DEF IInv, TypedParts
  <2>2. NothingLost'
    BY NextLosesNothing DEF IInv, TypedParts
  <2>3. NoLostWakeup'
    BY NextWakes DEF IInv, TypedParts
  <2>4. FlushedIsSettled'
    BY <2>1, <2>2, <2>3, NextFlushes DEF IInv, TypedParts
  <2> QED
    BY <2>1, <2>2, <2>3, <2>4 DEF IInv, TypedParts
<1> QED
  BY <1>1, <1>2, PTL DEF Spec

(* Every attribute of DiskTaskOutput keeps its kind, and the flush event   *)
(* is clear exactly while a drain is under way.                            *)
THEOREM TypeCorrect == Spec => []TypeOK
<1>1. IInv => TypeOK
  BY DEF IInv
<1> QED
  BY <1>1, Invariance, PTL

(* Every accepted chunk is in the file or on its way there, in order and   *)
(* once, or was dropped by cancel() or with a write that went wrong.       *)
THEOREM ChunksAreKept == Spec => []NothingLost
<1>1. IInv => NothingLost
  BY DEF IInv
<1> QED
  BY <1>1, Invariance, PTL

(* A chunk nobody drains was left by a drain that failed on it twice.      *)
THEOREM AppendsAreNoticed == Spec => []NoLostWakeup
<1>1. IInv => NoLostWakeup
  BY DEF IInv
<1> QED
  BY <1>1, Invariance, PTL

(* When flush() returns, each chunk appended before the call is in the     *)
(* file, or dropped, or left behind by a drain that failed twice.          *)
THEOREM FlushSettles == Spec => []FlushedIsSettled
<1>1. IInv => FlushedIsSettled
  BY DEF IInv
<1> QED
  BY <1>1, Invariance, PTL

-----------------------------------------------------------------------------
(* The refinement of OutputLog.                                            *)

LEMMA InitMaps == Init => Log!Init
<1> SUFFICES ASSUME Init PROVE Log!Init
  OBVIOUS
<1>1. InTransit = <<>>
  BY EmptyConcat, EmptySeq DEF Init, InTransit
<1>2. (faults > 0 \/ dropped # {}) = FALSE
  BY DEF Init
<1> QED
  BY <1>1, <1>2 DEF Init, Log!Init

(* Every step accepts, writes or drops chunks as the log does, or is a     *)
(* fault, or leaves the log alone.                                         *)
LEMMA StepMaps == TypeOK /\ [Next]_vars => [Log!Next]_Log!vars
<1> DEFINE faulty == faults > 0 \/ dropped # {}
<1> SUFFICES ASSUME TypeOK, [Next]_vars
             PROVE  Log!Next \/ UNCHANGED <<InTransit, disk, faulty>>
  BY DEF Log!vars
<1>0. faults \in Nat
  BY BoundsAssumption DEF TypeOK
<1>1. ASSUME NEW length \in Lengths, AppendChunk(length) PROVE Log!Next
  <2>1. Log!Accept(accepted + 1) /\ accepted + 1 \in 1 .. MaxChunks
    BY <1>1, AppendMoves DEF Log!Accept, AppendChunk, lossVars
  <2> QED
    BY <2>1 DEF Log!Next
<1>2. ASSUME Cancel PROVE Log!Next
  <2>1. dropped' # {}
    <3>1. Len(queue) \in Nat \ {0} /\ Range(queue) = {queue[i] : i \in 1 .. Len(queue)}
      BY <1>2, EmptySeq, RangeEquality DEF Cancel, TypeOK
    <3>2. queue[1] \in dropped'
      BY <1>2, <3>1 DEF Cancel
    <3> QED
      BY <3>2
  <2>2. Log!Drop(Len(batch)) /\ Len(batch) \in 0 .. Len(InTransit)
    BY <1>2, <2>1, CancelMoves, TransitTyped DEF Log!Drop
  <2> QED
    BY <2>2 DEF Log!Next
<1>3. ASSUME NEW k \in 0 .. Len(batch), InTransit' = queue,
             disk' = disk \o SubSeq(batch, 1, k),
             faulty' \in BOOLEAN, faulty \/ k < Len(batch) => faulty'
      PROVE  Log!Next
  <2>1. Log!Write(k, Len(batch))
    BY <1>3, WriteMoves DEF Log!Write
  <2>2. Len(batch) \in 0 .. Len(InTransit)
    BY TransitTyped
  <2> QED
    BY <2>1, <2>2 DEF Log!Next
<1>4. ASSUME WriteAll PROVE Log!Next
  <2>1. InTransit' = queue /\ Len(batch) \in 0 .. Len(batch)
    BY <1>4, BatchMoves, TransitTyped DEF WriteAll
  <2>2. disk' = disk \o SubSeq(batch, 1, Len(batch))
    BY <1>4, SubSeqFull DEF WriteAll, TypeOK
  <2>3. faulty' \in BOOLEAN /\ (faulty => faulty')
    BY <1>4, <1>0 DEF WriteAll, lossVars
  <2> QED
    BY <1>3, <2>1, <2>2, <2>3
<1>5. ASSUME WriteShort PROVE Log!Next
  <2>1. PICK k \in 0 .. Len(batch) - 1 : disk' = disk \o SubSeq(batch, 1, k)
    BY <1>5 DEF WriteShort
  <2>2. InTransit' = queue /\ k \in 0 .. Len(batch)
    BY <1>5, BatchMoves, TransitTyped DEF WriteShort
  <2>3. faulty' \in BOOLEAN /\ faulty'
    BY <1>5, <1>0 DEF WriteShort, GoesWrong
  <2> QED
    BY <1>3, <2>1, <2>2, <2>3
<1>6. ASSUME WriteFails PROVE Log!Next
  <2>1. disk' = disk \o SubSeq(batch, 1, 0)
    BY <1>6, SubSeqEmpty, EmptyConcat DEF WriteFails, TypeOK
  <2>2. InTransit' = queue /\ 0 \in 0 .. Len(batch)
    BY <1>6, EmptyConcat, TransitTyped DEF WriteFails, InTransit, TypeOK
  <2>3. faulty' \in BOOLEAN /\ faulty'
    BY <1>6, <1>0 DEF WriteFails, GoesWrong
  <2> QED
    BY <1>3, <2>1, <2>2, <2>3
<1>7. ASSUME Flush \/ Start \/ OpenFile \/ CloseFile \/ CloseAfterError \/ UNCHANGED vars
      PROVE  Log!Next \/ UNCHANGED <<InTransit, disk, faulty>>
  <2>1. UNCHANGED <<InTransit, disk, dropped>> /\ (faults' = faults \/ faults' = faults + 1)
    BY <1>7, OthersMoveNothing
  <2>2. CASE faults' = faults
    BY <2>1, <2>2
  <2>3. CASE faults' = faults + 1
    <3>1. Log!Fault
      BY <1>0, <2>1, <2>3 DEF Log!Fault
    <3> QED
      BY <3>1 DEF Log!Next
  <2> QED
    BY <2>1, <2>2, <2>3
<1> QED
  BY <1>1, <1>2, <1>4, <1>5, <1>6, <1>7 DEF Next

(* DiskTaskOutput implements an append-only log: through every failing,    *)
(* short and retried write the file only grows, in the order of appends    *)
(* and without repetition, and chunks go missing only after a fault.       *)
THEOREM Refinement == Spec => ImplementsLog
<1>1. Init => Log!Init
  BY InitMaps
<1>2. IInv /\ [Next]_vars => [Log!Next]_Log!vars
  BY StepMaps DEF IInv
<1> QED
  BY <1>1, <1>2, Invariance, PTL DEF Spec, ImplementsLog, Log!Spec
=============================================================================
