-------------------------- MODULE ExecStartProofs ---------------------------
(***************************************************************************)
(* Theorems about the two parts of exec(): how calls come to their shells  *)
(* (ExecStart, for any number of calls), and what a shell is given to      *)
(* execute (CommandText, for commands of any length).                      *)
(***************************************************************************)
EXTENDS ExecStart, CommandText, SequenceTheorems, WellFoundedInduction, TLAPS

-----------------------------------------------------------------------------
(* The inductive invariant.                                                *)

(* The path is given, and a shell is told to source the snapshot, only     *)
(* after its script has succeeded, which it does once.                     *)
SnapshotIsDone ==
    /\ cache = "path" => creation = "succeeded"
    /\ SourcedIsFinished

(* A call that was cancelled while it awaited the shared task.             *)
Culprit(d) == d \in asked /\ stage[d] \in {"awaiting", "cancelled"}

(* The shared task is cancelled by such a call only, which stays one; the  *)
(* task is awaited by calls that want the snapshot.                        *)
CancelledByCall ==
    /\ cache \in {"cancelling", "cancelled"} => \E d \in Calls : Culprit(d)
    /\ \A c \in Calls : stage[c] = "awaiting" => "skip" \notin request[c]
    /\ \A c \in Calls : stage[c] = "reaping" => c \in asked
    /\ \A c \in Calls : stage[c] = "cancelled" /\ c \notin asked =>
           "skip" \notin request[c] /\ cache = "cancelled"

IInv ==
    /\ ExecTypeOK
    /\ SnapshotIsDone
    /\ CancelledByCall
    /\ HeldByCalls

-----------------------------------------------------------------------------
LEMMA InitEstablishes == ExecInit => IInv
  BY DEF ExecInit, IInv, ExecTypeOK, SnapshotIsDone, SourcedIsFinished,
         CancelledByCall, HeldByCalls, Stages, Startups, Shells, Caches, Creations, Live, Culprit

(* A call that goes on from its provider keeps the invariant, wherever it  *)
(* stops, if it may source the snapshot only when there is a path.         *)
LEMMA ProceedPreserves ==
  ASSUME IInv, NEW c \in Calls, NEW path \in BOOLEAN,
         path => cache = "path" /\ "skip" \notin request[c],
         stage[c] \in {"idle", "awaiting"}, c \notin asked \/ stage[c] = "idle",
         Proceed(c, path), UNCHANGED <<request, asked, snapVars>>
  PROVE  IInv'
<1> USE DEF IInv, ExecTypeOK, SnapshotIsDone, SourcedIsFinished, CancelledByCall,
        HeldByCalls, snapVars,
        Stages, Startups, Shells, Live, Culprit, Registers, ToFile
<1>1. CASE RefuseEarly(c)
  BY <1>1 DEF RefuseEarly, Ends, heldVars
<1>2. CASE FailToOpen(c)
  BY <1>2 DEF FailToOpen, Ends
<1>3. CASE FailToSpawn(c)
  BY <1>3 DEF FailToSpawn, Ends
<1>4. CASE Spawn(c, path)
  BY <1>4 DEF Spawn, StartupWith
<1>5. QED
  BY <1>1, <1>2, <1>3, <1>4 DEF Proceed

(* So does one that was given what the task ended with.                    *)
LEMMA AfterAwaitPreserves ==
  ASSUME IInv, NEW c \in Calls, "skip" \notin request[c],
         stage[c] \in {"idle", "awaiting"}, c \notin asked \/ stage[c] = "idle",
         AfterAwait(c), UNCHANGED <<request, asked, snapVars>>
  PROVE  IInv'
<1>1. CASE cache = "cancelled" /\ Ends(c, "cancelled") /\ UNCHANGED heldVars
  BY <1>1 DEF IInv, ExecTypeOK, SnapshotIsDone, SourcedIsFinished, CancelledByCall,
        HeldByCalls, snapVars,
              heldVars, Ends, Stages, Startups, Shells, Live, Culprit, ToFile
<1>2. CASE Proceed(c, cache = "path")
  BY <1>2, ProceedPreserves
<1>3. QED
  BY <1>1, <1>2 DEF AfterAwait

LEMMA CallPreserves ==
  ASSUME IInv, NEW c \in Calls, CallStep(c) \/ WorldStep(c)
  PROVE  IInv'
<1> USE DEF IInv, ExecTypeOK, SnapshotIsDone, SourcedIsFinished, CancelledByCall,
        HeldByCalls, callVars,
        heldVars, snapVars, Stages, Startups, Shells, Live, Culprit, ToFile
<1>1. CASE ExecSkipping(c)
  BY <1>1, ProceedPreserves DEF ExecSkipping
<1>2. CASE ExecAwaiting(c)
  BY <1>2 DEF ExecAwaiting, Caches, Done
<1>3. CASE ExecWithTaskDone(c)
  BY <1>3, AfterAwaitPreserves DEF ExecWithTaskDone
<1>4. CASE FindNoShell(c)
  BY <1>4 DEF FindNoShell, Ends
<1>5. CASE Resume(c)
  <2>1. CASE c \in asked /\ Ends(c, "cancelled") /\ UNCHANGED heldVars
    BY <1>5, <2>1 DEF Resume, Ends
  <2>2. CASE c \notin asked /\ AfterAwait(c)
    BY <1>5, <2>2, AfterAwaitPreserves DEF Resume
  <2>3. QED
    BY <1>5, <2>1, <2>2 DEF Resume
<1>6. CASE Attach(c)
  BY <1>6 DEF Attach
<1>7. CASE Reaped(c)
  BY <1>7 DEF Reaped, Ends
<1>8. CASE CleanupCommand(c)
  BY <1>8 DEF CleanupCommand
<1>9. CASE ShellEnds(c)
  BY <1>9 DEF ShellEnds
<1>10. CASE CancelAwaiting(c)
  BY <1>10 DEF CancelAwaiting, Caches, Done
<1>11. CASE CancelSpawning(c)
  BY <1>11 DEF CancelSpawning
<1>12. QED
  BY <1>1, <1>2, <1>3, <1>4, <1>5, <1>6, <1>7, <1>8, <1>9, <1>10, <1>11
     DEF CallStep, WorldStep

LEMMA NextPreserves == IInv /\ [ExecNext]_execVars => IInv'
<1> SUFFICES ASSUME IInv, [ExecNext]_execVars PROVE IInv'
  OBVIOUS
<1>1. ASSUME NEW c \in Calls, CallStep(c) \/ WorldStep(c) PROVE IInv'
  BY <1>1, CallPreserves
<1> USE DEF IInv, ExecTypeOK, SnapshotIsDone, SourcedIsFinished, CancelledByCall,
        HeldByCalls, callVars,
        heldVars, snapVars, Caches, Creations, Live, Culprit, ToFile
<1>2. CASE StartCreation
  BY <1>2 DEF StartCreation
<1>3. CASE CreationEnds
  BY <1>3 DEF CreationEnds
<1>4. CASE CreationCancelled
  BY <1>4 DEF CreationCancelled
<1>5. CASE ScriptWrites
  BY <1>5 DEF ScriptWrites
<1>6. CASE ScriptSucceeds
  BY <1>6 DEF ScriptSucceeds
<1>7. CASE ScriptFails
  BY <1>7 DEF ScriptFails
<1>8. CASE SnapshotVanishes
  BY <1>8 DEF SnapshotVanishes
<1>9. CASE UNCHANGED execVars
  BY <1>9 DEF execVars
<1>10. QED
  BY <1>1, <1>2, <1>3, <1>4, <1>5, <1>6, <1>7, <1>8, <1>9 DEF ExecNext, Creation

(* The inductive invariant holds throughout.                               *)
THEOREM Invariance == ExecSpec => []IInv
  BY InitEstablishes, NextPreserves, PTL DEF ExecSpec

(* Every variable keeps its kind, and a call has a shell exactly if it got *)
(* past the spawn.                                                         *)
THEOREM TypeCorrect == ExecSpec => []ExecTypeOK
<1>1. IInv => ExecTypeOK
  BY DEF IInv
<1>2. QED
  BY <1>1, Invariance, PTL

(* No shell is told to source a snapshot that is still written, or what is *)
(* left of a script that failed, timed out or was never waited for.        *)
THEOREM UnfinishedIsNotSourced == ExecSpec => []SourcedIsFinished
<1>1. IInv => SourcedIsFinished
  BY DEF IInv, SnapshotIsDone
<1>2. QED
  BY <1>1, Invariance, PTL

(* No failure of the snapshot ends a call: only a cancellation does, and   *)
(* only of calls that want the snapshot.                                   *)
THEOREM FailuresAreContained == ExecSpec => []SnapshotBestEffort
<1>1. IInv => SnapshotBestEffort
  BY DEF IInv, CancelledByCall, Culprit, SnapshotBestEffort
<1>2. QED
  BY <1>1, Invariance, PTL

(* Living shells, descriptors and registry entries are held by calls.      *)
THEOREM NothingIsAdrift == ExecSpec => []HeldByCalls
<1>1. IInv => HeldByCalls
  BY DEF IInv
<1>2. QED
  BY <1>1, Invariance, PTL

-----------------------------------------------------------------------------
(* Induction over data: a set that has 0, and with every number the next,  *)
(* has them all.                                                           *)
LEMMA NatSetInduction ==
  ASSUME NEW S, 0 \in S, \A n \in Nat : n \in S => n + 1 \in S
  PROVE  \A n \in Nat : n \in S
<1> DEFINE T == Nat \ S
<1>1. SUFFICES ASSUME T # {} PROVE FALSE
  OBVIOUS
<1>2. PICK x \in T : \A y \in T : ~ (<<y, x>> \in OpToRel(<, Nat))
  <2>1. T \subseteq Nat
    OBVIOUS
  <2> HIDE DEF T
  <2> QED
    BY <1>1, <2>1, NatLessThanWellFounded, WFMin, Zenon
<1>3. \A y \in T : ~(y < x)
  BY <1>2 DEF OpToRel
<1> QED
  BY <1>3

-----------------------------------------------------------------------------
(* Commands that bash can parse, as the host gives them.                   *)
Kinds == Words \cup Redirections \cup Separators \cup IoNumbers

Grammatical(cmd) ==
    /\ cmd \in Seq(Kinds)
    /\ \A i \in 1 .. Len(cmd) : Follows(IF i = 1 THEN "semi" ELSE cmd[i - 1], cmd[i])

IsComplete(cmd) == cmd # <<>> /\ Last(cmd) \in Words \cup {"semi", "amp"}

(* Where the simple command at place i begins.                             *)
BeginsAt(cmd, i, s) ==
    /\ s \in 0 .. i - 1
    /\ s = 0 \/ cmd[s] \in Separators
    /\ \A j \in s + 1 .. i - 1 : cmd[j] \notin Separators

LEMMA BeginIs ==
  ASSUME NEW cmd, NEW i \in Nat \ {0}
  PROVE  BeginsAt(cmd, i, Begin(cmd, i))
<1> DEFINE Found == {n \in Nat : \E s : BeginsAt(cmd, n + 1, s)}
<1>1. 0 \in Found
  <2>1. BeginsAt(cmd, 0 + 1, 0)
    BY DEF BeginsAt
  <2> QED
    BY <2>1
<1>2. ASSUME NEW n \in Nat, n \in Found PROVE n + 1 \in Found
  <2>1. PICK s : BeginsAt(cmd, n + 1, s)
    BY <1>2
  <2>2. CASE cmd[n + 1] \in Separators
    <3>1. BeginsAt(cmd, (n + 1) + 1, n + 1)
      BY <2>2 DEF BeginsAt
    <3> QED
      BY <3>1
  <2>3. CASE cmd[n + 1] \notin Separators
    <3>1. BeginsAt(cmd, (n + 1) + 1, s)
      BY <2>1, <2>3 DEF BeginsAt
    <3> QED
      BY <3>1
  <2> QED
    BY <2>2, <2>3
<1>3. \A n \in Nat : n \in Found
  <2> HIDE DEF Found
  <2> QED
    BY <1>1, <1>2, NatSetInduction
<1>4. PICK s : BeginsAt(cmd, i, s)
  <2>1. i - 1 \in Nat /\ (i - 1) + 1 = i
    OBVIOUS
  <2> QED
    BY <1>3, <2>1
<1> QED
  BY <1>4 DEF BeginsAt, Begin

LEMMA BeginUnique ==
  ASSUME NEW cmd, NEW i \in Nat \ {0}, NEW s, BeginsAt(cmd, i, s)
  PROVE  Begin(cmd, i) = s
<1> DEFINE b == Begin(cmd, i)
<1>1. BeginsAt(cmd, i, b)
  BY BeginIs
<1> HIDE DEF b
<1>2. ASSUME NEW r, NEW t, BeginsAt(cmd, i, r), BeginsAt(cmd, i, t), r < t PROVE FALSE
  BY <1>2 DEF BeginsAt
<1>3. s \in Nat /\ b \in Nat
  BY <1>1 DEF BeginsAt
<1>4. ~(s < b) /\ ~(b < s)
  BY <1>1, <1>2
<1> QED
  BY <1>3, <1>4 DEF b

(* From one place to the next.                                             *)
LEMMA BeginNext ==
  ASSUME NEW cmd, NEW i \in Nat \ {0}
  PROVE  Begin(cmd, i + 1) = IF cmd[i] \in Separators THEN i ELSE Begin(cmd, i)
<1> DEFINE b == Begin(cmd, i)
<1>1. BeginsAt(cmd, i, b)
  BY BeginIs
<1> HIDE DEF b
<1>2. CASE cmd[i] \in Separators
  <2>1. BeginsAt(cmd, i + 1, i)
    BY <1>2 DEF BeginsAt
  <2> QED
    BY <1>2, <2>1, BeginUnique
<1>3. CASE cmd[i] \notin Separators
  <2>1. BeginsAt(cmd, i + 1, b)
    BY <1>1, <1>3 DEF BeginsAt
  <2>2. Begin(cmd, i + 1) = b
    BY <2>1, BeginUnique
  <2> QED
    BY <1>3, <2>2 DEF b
<1> QED
  BY <1>2, <1>3

(* What precedes the lexemes of one simple command begins with it.         *)
LEMMA BeginWithin ==
  ASSUME NEW cmd, NEW i \in Nat \ {0}, NEW j \in Begin(cmd, i) + 1 .. i
  PROVE  Begin(cmd, j) = Begin(cmd, i) /\ j \in Nat \ {0}
<1> DEFINE b == Begin(cmd, i)
<1>1. BeginsAt(cmd, i, b) /\ j \in b + 1 .. i
  BY BeginIs
<1> HIDE DEF b
<1>2. BeginsAt(cmd, j, b) /\ j \in Nat \ {0}
  BY <1>1 DEF BeginsAt
<1>3. Begin(cmd, j) = b
  BY <1>2, BeginUnique
<1> QED
  BY <1>2, <1>3 DEF b

LEMMA LeadsWithin ==
  ASSUME NEW cmd, NEW i \in Nat \ {0}, Leads(cmd, i), NEW j \in Begin(cmd, i) + 1 .. i
  PROVE  Leads(cmd, j)
<1> DEFINE b == Begin(cmd, i)
<1>1. BeginsAt(cmd, i, b) /\ Begin(cmd, j) = b /\ j \in b + 1 .. i
  BY BeginIs, BeginWithin
<1>2. \A k \in b + 1 .. i - 1 : Precedes(cmd, k)
  BY DEF Leads
<1> HIDE DEF b
<1>3. \A k \in b + 1 .. j - 1 : Precedes(cmd, k)
  BY <1>1, <1>2 DEF BeginsAt
<1> QED
  BY <1>1, <1>3 DEF Leads

-----------------------------------------------------------------------------
(* The loop of _build_command_parts, turn by turn.                         *)
Loops(f, tokens) ==
    /\ f[0] = [next |-> 1, seen |-> FALSE, parts |-> <<>>]
    /\ \A n \in 1 .. Len(tokens) : f[n] = Turn(tokens, f[n - 1])
    /\ BuildCommandParts(tokens) = f[Len(tokens)].parts

LEMMA LoopTurns ==
  ASSUME NEW tokens, Len(tokens) \in Nat
  PROVE  \E f : Loops(f, tokens)
<1> DEFINE start == [next |-> 1, seen |-> FALSE, parts |-> <<>>]
           Loop(m, f) == f = [n \in 0 .. m |-> IF n = 0 THEN start ELSE Turn(tokens, f[n - 1])]
           Reached == {m \in Nat : \E f : Loop(m, f)}
<1> HIDE DEF start
<1>1. 0 \in Reached
  <2> DEFINE f == [n \in 0 .. 0 |-> start]
  <2>1. Loop(0, f)
    OBVIOUS
  <2> QED
    BY <2>1
<1>2. ASSUME NEW m \in Nat, m \in Reached PROVE m + 1 \in Reached
  <2>1. PICK g : Loop(m, g)
    BY <1>2
  <2> DEFINE f == [n \in 0 .. m + 1 |-> IF n <= m THEN g[n] ELSE Turn(tokens, g[m])]
  <2>2. ASSUME NEW n \in 0 .. m + 1
        PROVE  f[n] = IF n = 0 THEN start ELSE Turn(tokens, f[n - 1])
    <3>1. CASE n = 0
      BY <2>1, <3>1
    <3>2. CASE n \in 1 .. m
      <4>1. f[n] = g[n] /\ f[n - 1] = g[n - 1]
        BY <3>2
      <4>2. g[n] = Turn(tokens, g[n - 1])
        BY <2>1, <3>2
      <4> QED
        BY <3>2, <4>1, <4>2
    <3>3. CASE n = m + 1
      <4>1. f[n] = Turn(tokens, g[m]) /\ f[n - 1] = g[m]
        BY <3>3
      <4> QED
        BY <3>3, <4>1
    <3> QED
      BY <3>1, <3>2, <3>3
  <2>3. Loop(m + 1, f)
    <3>1. f = [n \in 0 .. m + 1 |-> f[n]]
      OBVIOUS
    <3> HIDE DEF f
    <3> QED
      BY <2>2, <3>1
  <2> HIDE DEF f, Loop
  <2>4. \E h : Loop(m + 1, h)
    BY <2>3
  <2> QED
    BY <2>4
<1>3. \A m \in Nat : m \in Reached
  <2> HIDE DEF Reached
  <2> QED
    BY <1>1, <1>2, NatSetInduction
<1>4. \E f : Loop(Len(tokens), f)
  <2> HIDE DEF Loop
  <2> QED
    BY <1>3
<1> DEFINE loop == CHOOSE f : Loop(Len(tokens), f)
<1>5. Loop(Len(tokens), loop)
  <2> HIDE DEF Loop
  <2> QED
    BY <1>4
<1>6. BuildCommandParts(tokens) = loop[Len(tokens)].parts
  BY DEF BuildCommandParts, start
<1> HIDE DEF loop
<1>7. Loops(loop, tokens)
  <2>1. loop[0] = start
    BY <1>5
  <2>2. ASSUME NEW n \in 1 .. Len(tokens) PROVE loop[n] = Turn(tokens, loop[n - 1])
    BY <1>5
  <2> QED
    BY <1>6, <2>1, <2>2 DEF Loops, start
<1> QED
  BY <1>7

-----------------------------------------------------------------------------
(* The tokens of a command without >| and &> and what else parse changes.  *)
Singles(t, n) == [i \in 1 .. n |-> <<t[i]>>]

LEMMA FlattenSingles ==
  ASSUME NEW n \in Nat \ {0}, NEW t
  PROVE  FlattenSeq(Singles(t, n)) = [i \in 1 .. n |-> t[i]]
<1> DEFINE seqs == Singles(t, n)
           pre(k) == [i \in 1 .. k |-> t[i]]
           r == [k \in 1 .. n |-> pre(k)]
<1>1. Len(seqs) = n /\ \A i \in 1 .. n : seqs[i] = <<t[i]>>
  BY DEF Singles
<1>2. ASSUME NEW k \in Nat \ {0}
      PROVE  pre(k + 1) = pre(k) \o <<t[k + 1]>> /\ pre(1) = <<t[1]>>
  OBVIOUS
<1> HIDE DEF seqs, pre
<1>3. r = [i \in 1 .. Len(seqs) |-> IF i = 1 THEN seqs[i] ELSE r[i - 1] \o seqs[i]]
  <2>1. ASSUME NEW i \in 1 .. n PROVE r[i] = IF i = 1 THEN seqs[i] ELSE r[i - 1] \o seqs[i]
    <3>1. CASE i = 1
      BY <1>1, <1>2, <3>1
    <3>2. CASE i # 1
      <4>1. i - 1 \in Nat \ {0} /\ i - 1 \in 1 .. n /\ (i - 1) + 1 = i
        BY <3>2
      <4>2. pre(i) = pre(i - 1) \o <<t[i]>>
        BY <1>2, <4>1
      <4> QED
        BY <1>1, <3>2, <4>1, <4>2
    <3> QED
      BY <3>1, <3>2
  <2>2. r = [i \in 1 .. n |-> r[i]]
    OBVIOUS
  <2> HIDE DEF r
  <2> QED
    BY <1>1, <2>1, <2>2
<1> HIDE DEF r
<1>4. PICK g : /\ g = [i \in 1 .. Len(seqs) |-> IF i = 1 THEN seqs[i] ELSE g[i - 1] \o seqs[i]]
               /\ FlattenSeq(seqs) = g[Len(seqs)]
  BY <1>1, <1>3 DEF FlattenSeq
<1> DEFINE Same == {k \in Nat : k + 1 <= n => g[k + 1] = pre(k + 1)}
<1>5. 0 \in Same
  <2>1. g[1] = seqs[1] /\ seqs[1] = <<t[1]>>
    BY <1>1, <1>4
  <2>2. pre(1) = <<t[1]>>
    BY <1>2
  <2> QED
    BY <2>1, <2>2
<1>6. ASSUME NEW k \in Nat, k \in Same PROVE k + 1 \in Same
  <2>1. SUFFICES ASSUME (k + 1) + 1 <= n PROVE g[(k + 1) + 1] = pre((k + 1) + 1)
    OBVIOUS
  <2>2. PICK i : i = (k + 1) + 1
    OBVIOUS
  <2>3. i \in 1 .. n /\ i # 1 /\ i - 1 = k + 1 /\ k + 1 <= n /\ k + 1 \in Nat \ {0}
    BY <2>1, <2>2
  <2>4. g[i] = g[i - 1] \o seqs[i] /\ seqs[i] = <<t[i]>>
    BY <1>1, <1>4, <2>3
  <2>5. pre((k + 1) + 1) = pre(k + 1) \o <<t[(k + 1) + 1]>>
    BY <1>2, <2>3
  <2>6. g[k + 1] = pre(k + 1)
    BY <1>6, <2>3
  <2> QED
    BY <2>2, <2>3, <2>4, <2>5, <2>6
<1>7. g[n] = pre(n)
  <2> HIDE DEF Same
  <2>1. \A k \in Nat : k \in Same
    BY <1>5, <1>6, NatSetInduction
  <2>2. n - 1 \in Nat /\ (n - 1) + 1 = n
    OBVIOUS
  <2>3. n - 1 \in Same
    BY <2>1, <2>2
  <2> QED
    BY <2>2, <2>3 DEF Same
<1> QED
  BY <1>1, <1>4, <1>7 DEF seqs, pre

(* Commands that rearranging is to keep.                                   *)
Plain == {"word", "num", "assign", "bang", "quoted", "shout", "escaped", "glob", "devnull",
          "out", "dup", "pipe", "or", "and", "semi", "amp", "ionum"}

Safe(cmd) ==
    /\ Grammatical(cmd) /\ IsComplete(cmd)
    /\ cmd \in Seq(Plain)
    /\ ~LostByParts(cmd)

Token(lexeme) == IF lexeme = "ionum" THEN "num" ELSE lexeme

LEMMA TokensAre ==
  ASSUME NEW cmd, Safe(cmd)
  PROVE  /\ Len(cmd) \in Nat \ {0}
         /\ Tokens(cmd) \in Seq(Plain) /\ Len(Tokens(cmd)) = Len(cmd)
         /\ \A i \in 1 .. Len(cmd) : Tokens(cmd)[i] = Token(cmd[i])
<1> DEFINE n == Len(cmd)
           t == [i \in 1 .. n |-> Token(cmd[i])]
<1>1. n \in Nat \ {0} /\ DOMAIN cmd = 1 .. n /\ \A i \in 1 .. n : cmd[i] \in Plain
  BY DEF Safe, IsComplete
<1>2. ASSUME NEW i \in 1 .. n PROVE Lexed(cmd[i]) = <<Token(cmd[i])>>
  BY <1>1 DEF Lexed, Token, Plain
<1>3. ASSUME NEW i \in 1 .. n PROVE Token(cmd[i]) \in Plain
  BY <1>1 DEF Token, Plain
<1>4. [i \in DOMAIN cmd |-> Lexed(cmd[i])] = Singles(t, n)
  BY <1>1, <1>2 DEF Singles
<1>5. FlattenSeq(Singles(t, n)) = [i \in 1 .. n |-> t[i]]
  <2> HIDE DEF n, t
  <2> QED
    BY <1>1, FlattenSingles
<1>6. Tokens(cmd) = t
  BY <1>4, <1>5 DEF Tokens
<1>7. t \in Seq(Plain) /\ Len(t) = n
  BY <1>1, <1>3
<1> QED
  BY <1>1, <1>6, <1>7

-----------------------------------------------------------------------------
(* What stands beside what, in a command that is kept.                     *)
Beside(cmd, i) ==
    /\ cmd[i] = "ionum" =>
          /\ i + 2 <= Len(cmd)
          /\ <<cmd[i + 1], cmd[i + 2]>> \in {<<"dup", "num">>, <<"out", "devnull">>}
    /\ cmd[i] = "num" =>
          ~ /\ i + 2 <= Len(cmd)
            /\ <<cmd[i + 1], cmd[i + 2]>> \in {<<"dup", "num">>, <<"out", "devnull">>}
    /\ cmd[i] = "dup" => i < Len(cmd) /\ cmd[i + 1] = "num"
    /\ cmd[i] \in {"out", "dup"} =>
          /\ 1 < i /\ cmd[i - 1] \notin Separators
          /\ i < Len(cmd) /\ cmd[i + 1] \in {"word", "num", "devnull"}
    /\ cmd[i] = "pipe" => 1 < i /\ cmd[i - 1] \in Words /\ (2 < i => cmd[i - 2] # "ionum")
    /\ cmd[i] = "bang" => ~Negates(cmd, i)

LEMMA FollowedByTwo ==
  ASSUME NEW cmd \in Seq(Kinds), NEW i \in 1 .. Len(cmd), NEW x, NEW y, i + 2 <= Len(cmd),
         cmd[i + 1] = x, cmd[i + 2] = y
  PROVE  FollowedBy(cmd, i, <<x, y>>)
<1>1. Len(<<x, y>>) = 2 /\ i + 2 <= Len(cmd) /\ Len(cmd) \in Nat
  OBVIOUS
<1>2. SubSeq(cmd, i + 1, i + 2) = <<x, y>>
  <2> DEFINE r == SubSeq(cmd, i + 1, i + 2)
  <2>1. /\ r \in Seq(Kinds) /\ Len(r) = 2
        /\ r[1] = cmd[i + 1] /\ r[2] = cmd[i + 2]
    OBVIOUS
  <2> HIDE DEF r
  <2>2. r = <<r[1], r[2]>>
    BY <2>1
  <2> QED
    BY <2>1, <2>2 DEF r
<1> QED
  BY <1>1, <1>2 DEF FollowedBy

LEMMA Neighbours ==
  ASSUME NEW cmd, Safe(cmd), NEW i \in 1 .. Len(cmd)
  PROVE  Beside(cmd, i)
<1> DEFINE n == Len(cmd)
<1>1. n \in Nat \ {0} /\ DOMAIN cmd = 1 .. n /\ \A j \in 1 .. n : cmd[j] \in Plain
  BY DEF Safe, IsComplete
<1>2. \A j \in 1 .. n : Follows(IF j = 1 THEN "semi" ELSE cmd[j - 1], cmd[j])
  BY DEF Safe, Grammatical
<1>3. cmd[n] \in Words \cup {"semi", "amp"} /\ cmd \in Seq(Kinds)
  BY DEF Safe, IsComplete, Grammatical, Last
<1>4. ~LostByParts(cmd)
  BY DEF Safe
<1> HIDE DEF n
<1>5. ASSUME NEW j \in 1 .. n, cmd[j] \in {"out", "dup"}
      PROVE  /\ 1 < j /\ cmd[j - 1] \notin Separators
             /\ j < n /\ cmd[j + 1] \in {"word", "num", "devnull"}
             /\ cmd[j] = "dup" => cmd[j + 1] = "num"
             /\ cmd[j] = "out" => cmd[j + 1] \in {"word", "devnull"}
  <2>1. j < n
    BY <1>1, <1>3, <1>5 DEF Words
  <2>2. 1 < j /\ cmd[j - 1] \notin Separators
    <3>1. Follows(IF j = 1 THEN "semi" ELSE cmd[j - 1], cmd[j])
      BY <1>2
    <3> QED
      BY <1>1, <1>5, <3>1
         DEF Follows, Words, Separators, Redirections, IoNumbers, NeedsTarget
  <2>3. Follows(cmd[j], cmd[j + 1])
    <3>1. j + 1 \in 1 .. n /\ j + 1 # 1 /\ (j + 1) - 1 = j
      BY <1>1, <2>1
    <3> QED
      BY <1>2, <3>1
  <2> QED
    BY <1>5, <2>1, <2>2, <2>3
       DEF Follows, Words, Separators, Redirections, IoNumbers, NeedsTarget
<1>6. ASSUME cmd[i] = "ionum"
      PROVE  /\ i + 2 <= n
             /\ <<cmd[i + 1], cmd[i + 2]>> \in {<<"dup", "num">>, <<"out", "devnull">>}
  <2>1. i < n
    BY <1>1, <1>3, <1>6 DEF Words, n
  <2>2. Follows(cmd[i], cmd[i + 1])
    <3>1. i + 1 \in 1 .. n /\ i + 1 # 1 /\ (i + 1) - 1 = i
      BY <1>1, <2>1 DEF n
    <3> QED
      BY <1>2, <3>1
  <2>3. cmd[i + 1] \in {"out", "dup"}
    BY <1>6, <2>2 DEF Follows, Words, Separators, Redirections, IoNumbers, NeedsTarget
  <2>4. PICK j \in 1 .. n : j = i + 1
    BY <1>1, <2>1 DEF n
  <2>5. /\ i + 2 <= n
        /\ cmd[i + 1] = "dup" => cmd[i + 2] = "num"
        /\ cmd[i + 1] = "out" => cmd[i + 2] \in {"word", "devnull"}
    <3>1. j + 1 = i + 2 /\ j < n
      BY <1>5, <2>3, <2>4
    <3> QED
      BY <1>1, <1>5, <2>3, <2>4, <3>1 DEF n
  <2>6. ~(cmd[i + 1] = "out" /\ cmd[i + 2] = "word")
    <3>1. SUFFICES ASSUME cmd[i + 1] = "out", cmd[i + 2] = "word" PROVE FALSE
      OBVIOUS
    <3>2. FollowedBy(cmd, i, <<"out", "word">>)
      BY <1>3, <2>5, <3>1, FollowedByTwo DEF n
    <3> QED
      BY <1>1, <1>4, <1>6, <3>2 DEF LostByParts, n
  <2> QED
    BY <2>3, <2>5, <2>6
<1>7. ASSUME cmd[i] = "num", i + 2 <= n,
             <<cmd[i + 1], cmd[i + 2]>> \in {<<"dup", "num">>, <<"out", "devnull">>}
      PROVE  FALSE
  <2>1. \/ FollowedBy(cmd, i, <<"dup", "num">>)
        \/ FollowedBy(cmd, i, <<"out", "devnull">>)
    BY <1>3, <1>7, FollowedByTwo DEF n
  <2> QED
    BY <1>1, <1>4, <1>7, <2>1 DEF LostByParts, n
<1>8. ASSUME cmd[i] = "pipe"
      PROVE  1 < i /\ cmd[i - 1] \in Words /\ (2 < i => cmd[i - 2] # "ionum")
  <2>1. Follows(IF i = 1 THEN "semi" ELSE cmd[i - 1], cmd[i])
    BY <1>2 DEF n
  <2>2. 1 < i /\ cmd[i - 1] \in Words
    BY <1>1, <1>8, <2>1 DEF Follows, Words, Separators, Redirections, IoNumbers, NeedsTarget
  <2>3. ASSUME 2 < i, cmd[i - 2] = "ionum" PROVE FALSE
    <3>1. i - 1 \in 1 .. n /\ i - 1 # 1 /\ (i - 1) - 1 = i - 2
      BY <1>1, <2>3 DEF n
    <3>2. Follows(cmd[i - 2], cmd[i - 1])
      BY <1>2, <3>1
    <3> QED
      BY <2>2, <2>3, <3>2
         DEF Follows, Words, Separators, Redirections, IoNumbers, NeedsTarget
  <2> QED
    BY <2>2, <2>3
<1>9. ASSUME cmd[i] = "bang", Negates(cmd, i) PROVE FALSE
  BY <1>1, <1>4, <1>9 DEF LostByParts, n
<1> QED
  BY <1>5, <1>6, <1>7, <1>8, <1>9 DEF Beside, n

-----------------------------------------------------------------------------
(* What a lexeme has become: an assignment stays one if it leads.          *)
Rebuilt(cmd, g, lexeme) ==
    CASE cmd[g] = "bang"   -> lexeme = "bangword"
      [] cmd[g] = "assign" -> /\ lexeme \in {"assign", "assignword"}
                              /\ Leads(cmd, g) => lexeme = "assign"
      [] OTHER             -> lexeme = cmd[g]

(* Where the loop must not have seen a word: an assignment there is kept.  *)
Unseen(cmd, g) ==
    /\ Leads(cmd, g)
    /\ Begin(cmd, g) = 0 \/ cmd[Begin(cmd, g)] \notin {"pipe", "amp"}
    /\ \A j \in Begin(cmd, g) + 2 .. g - 1 : cmd[j] \in Redirections => cmd[j - 1] = "ionum"

(* The two halves that are built: up to the first | and from it.           *)
Half(cmd, p, q) ==
    /\ p \in 1 .. q /\ q \in 1 .. Len(cmd)
    /\ p = 1 \/ cmd[p] = "pipe"
    /\ \A g \in p .. q : cmd[g] = "ionum" => g + 2 <= q

Turns == [next : Nat, seen : BOOLEAN, parts : Seq(Plain \cup Turned)]

(* After some turns, with g the place in the command that comes next.      *)
HalfBuilt(cmd, p, q, s) ==
    LET g == p - 1 + s.next IN
    /\ s \in Turns
    /\ 1 <= s.next /\ g <= q + 1
    /\ Len(s.parts) = s.next - 1
    /\ \A k \in 1 .. s.next - 1 : Rebuilt(cmd, p - 1 + k, s.parts[k])
    /\ \A j \in {g - 1, g - 2} : 1 <= j => cmd[j] # "ionum"
    /\ Unseen(cmd, g) => ~s.seen

LEMMA SafeTyped ==
  ASSUME NEW cmd, Safe(cmd)
  PROVE  /\ Len(cmd) \in Nat \ {0} /\ DOMAIN cmd = 1 .. Len(cmd)
         /\ \A j \in 1 .. Len(cmd) : cmd[j] \in Plain
         /\ cmd \in Seq(Plain)
  BY DEF Safe, IsComplete

LEMMA HalfTokens ==
  ASSUME NEW cmd, Safe(cmd), NEW p, NEW q, Half(cmd, p, q)
  PROVE  LET tokens == SubSeq(Tokens(cmd), p, q) IN
         /\ tokens \in Seq(Plain) /\ Len(tokens) = q - p + 1
         /\ \A k \in 1 .. q - p + 1 :
               /\ p - 1 + k \in 1 .. Len(cmd)
               /\ tokens[k] = Token(cmd[p - 1 + k])
<1> DEFINE all == Tokens(cmd)
           tokens == SubSeq(all, p, q)
<1>1. /\ Len(cmd) \in Nat \ {0} /\ all \in Seq(Plain) /\ Len(all) = Len(cmd)
      /\ \A i \in 1 .. Len(cmd) : all[i] = Token(cmd[i])
  BY TokensAre
<1>2. p \in 1 .. q /\ q \in 1 .. Len(cmd)
  BY DEF Half
<1> HIDE DEF all
<1>3. /\ tokens \in Seq(Plain) /\ Len(tokens) = q - p + 1
      /\ \A k \in 1 .. q - p + 1 : tokens[k] = all[p - 1 + k]
  <2>1. p \in 1 .. Len(all) /\ q \in p - 1 .. Len(all)
    BY <1>1, <1>2
  <2>2. \A k \in 1 .. q - p + 1 : SubSeq(all, p, q)[k] = all[p + k - 1]
    BY <1>1, <2>1, SubSeqProperties
  <2>3. tokens \in Seq(Plain) /\ Len(tokens) = q - p + 1
    BY <1>1, <1>2, <2>1, SubSeqProperties
  <2>4. \A k \in 1 .. q - p + 1 : p + k - 1 = p - 1 + k
    BY <1>1, <1>2
  <2> QED
    BY <2>2, <2>3, <2>4
<1>4. ASSUME NEW k \in 1 .. q - p + 1
      PROVE  p - 1 + k \in 1 .. Len(cmd)
  BY <1>1, <1>2
<1>5. ASSUME NEW k \in 1 .. q - p + 1
      PROVE  tokens[k] = Token(cmd[p - 1 + k])
  BY <1>1, <1>3, <1>4
<1> QED
  BY <1>3, <1>4, <1>5 DEF all

(* The loop takes for a redirection of a descriptor what bash takes for one. *)
LEMMA RedirectionsFound ==
  ASSUME NEW cmd, Safe(cmd), NEW p, NEW q, Half(cmd, p, q), NEW k \in 1 .. q - p + 1
  PROVE  LET tokens == SubSeq(Tokens(cmd), p, q) IN
         /\ IsFdRedirection(tokens, k) <=> cmd[p - 1 + k] = "ionum"
         /\ cmd[p - 1 + k] = "ionum" =>
               /\ k + 2 <= q - p + 1
               /\ tokens[k + 1] = cmd[p - 1 + k + 1] /\ tokens[k + 2] = cmd[p - 1 + k + 2]
               /\ <<cmd[p - 1 + k + 1], cmd[p - 1 + k + 2]>>
                     \in {<<"dup", "num">>, <<"out", "devnull">>}
<1> DEFINE tokens == SubSeq(Tokens(cmd), p, q)
<1>1. PICK g : g = p - 1 + k
  OBVIOUS
<1>2. /\ Len(cmd) \in Nat /\ p \in 1 .. q /\ q \in 1 .. Len(cmd)
      /\ g \in p .. q /\ g \in 1 .. Len(cmd) /\ k \in Nat
  BY <1>1, SafeTyped DEF Half
<1>3. /\ Len(tokens) = q - p + 1
      /\ \A m \in 1 .. q - p + 1 : tokens[m] = Token(cmd[p - 1 + m])
  BY HalfTokens
<1> HIDE DEF tokens
<1>4. Beside(cmd, g)
  BY <1>2, Neighbours
<1>5. ASSUME k + 2 <= q - p + 1
      PROVE  /\ tokens[k + 1] = Token(cmd[g + 1]) /\ tokens[k + 2] = Token(cmd[g + 2])
             /\ g + 2 <= Len(cmd)
  <2>1. k + 1 \in 1 .. q - p + 1 /\ k + 2 \in 1 .. q - p + 1
    BY <1>2, <1>5
  <2>2. p - 1 + (k + 1) = g + 1 /\ p - 1 + (k + 2) = g + 2
    BY <1>1, <1>2
  <2> QED
    BY <1>1, <1>2, <1>3, <1>5, <2>1, <2>2
<1>6. tokens[k] = Token(cmd[g])
  BY <1>1, <1>3
<1>7. CASE cmd[g] = "ionum"
  <2>1. g + 2 <= q
    BY <1>2, <1>7 DEF Half
  <2>2. k + 2 <= q - p + 1
    BY <1>1, <1>2, <2>1
  <2>3. <<cmd[g + 1], cmd[g + 2]>> \in {<<"dup", "num">>, <<"out", "devnull">>}
    BY <1>4, <1>7 DEF Beside
  <2>4. tokens[k] = "num" /\ tokens[k + 1] = cmd[g + 1] /\ tokens[k + 2] = cmd[g + 2]
    BY <1>5, <1>6, <1>7, <2>2, <2>3 DEF Token
  <2>5. IsFdRedirection(tokens, k)
    BY <1>3, <2>2, <2>3, <2>4 DEF IsFdRedirection
  <2> QED
    BY <1>1, <1>7, <2>2, <2>3, <2>4, <2>5 DEF tokens
<1>8. CASE cmd[g] # "ionum"
  <2>1. SUFFICES ASSUME IsFdRedirection(tokens, k) PROVE FALSE
    BY <1>1, <1>8 DEF tokens
  <2>2. /\ k + 2 <= q - p + 1 /\ tokens[k] = "num"
        /\ <<tokens[k + 1], tokens[k + 2]>> \in {<<"dup", "num">>, <<"out", "devnull">>}
    BY <1>3, <2>1 DEF IsFdRedirection
  <2>3. cmd[g] = "num"
    BY <1>6, <1>8, <2>2 DEF Token
  <2>4. /\ tokens[k + 1] = Token(cmd[g + 1]) /\ tokens[k + 2] = Token(cmd[g + 2])
        /\ g + 2 <= Len(cmd)
    BY <1>5, <2>2
  <2>5. cmd[g + 1] \in {"dup", "out"} /\ cmd[g + 1] = tokens[k + 1]
    BY <2>2, <2>4 DEF Token
  <2>6. cmd[g + 1] = "dup" => cmd[g + 2] = "num"
    <3>1. g + 1 \in 1 .. Len(cmd) /\ (g + 1) + 1 = g + 2
      BY <1>2, <2>4
    <3>2. Beside(cmd, g + 1)
      BY <3>1, Neighbours
    <3> QED
      BY <3>1, <3>2 DEF Beside
  <2>7. cmd[g + 1] = "out" => cmd[g + 2] = "devnull"
    BY <2>2, <2>4, <2>5 DEF Token
  <2>8. <<cmd[g + 1], cmd[g + 2]>> \in {<<"dup", "num">>, <<"out", "devnull">>}
    BY <2>5, <2>6, <2>7
  <2> QED
    BY <1>4, <2>3, <2>4, <2>8 DEF Beside
<1> QED
  BY <1>7, <1>8

-----------------------------------------------------------------------------
(* From place to place, as far as an assignment is concerned.              *)
LEMMA LeadingIsUnseen ==
  ASSUME NEW cmd, Safe(cmd), NEW g \in 1 .. Len(cmd), cmd[g] = "assign", Leads(cmd, g)
  PROVE  Unseen(cmd, g)
<1> DEFINE b == Begin(cmd, g)
<1>1. g \in DOMAIN cmd /\ g \in Nat \ {0}
  BY SafeTyped
<1>2. BeginsAt(cmd, g, b)
  BY <1>1, BeginIs
<1>3. ~ \/ b > 0 /\ cmd[b] \in {"pipe", "amp"}
        \/ \E j \in b + 2 .. g - 1 : cmd[j] \in Redirections /\ cmd[j - 1] # "ionum"
  BY <1>1 DEF Safe, LostByParts
<1>4. b \in Nat
  BY <1>1, <1>2 DEF BeginsAt
<1>5. Leads(cmd, g)
  OBVIOUS
<1> QED
  BY <1>3, <1>4, <1>5 DEF Unseen

LEMMA UnseenBefore ==
  ASSUME NEW cmd, NEW g \in Nat \ {0}, cmd[g] \notin Separators, Unseen(cmd, g + 1)
  PROVE  /\ Unseen(cmd, g) /\ Precedes(cmd, g)
         /\ \A j \in Begin(cmd, g) + 2 .. g : cmd[j] \in Redirections => cmd[j - 1] = "ionum"
<1>1. PICK b : b = Begin(cmd, g) /\ BeginsAt(cmd, g, b) /\ Begin(cmd, g + 1) = b
  BY BeginIs, BeginNext
<1>2. b \in 0 .. g - 1
  BY <1>1 DEF BeginsAt
<1>3. /\ \A j \in b + 1 .. (g + 1) - 1 : Precedes(cmd, j)
      /\ b = 0 \/ cmd[b] \notin {"pipe", "amp"}
      /\ \A j \in b + 2 .. (g + 1) - 1 : cmd[j] \in Redirections => cmd[j - 1] = "ionum"
  BY <1>1 DEF Unseen, Leads
<1>4. (g + 1) - 1 = g /\ g \in b + 1 .. g
  BY <1>2
<1>5. \A j \in b + 1 .. g - 1 : j \in b + 1 .. g
  OBVIOUS
<1>6. \A j \in b + 2 .. g - 1 : j \in b + 2 .. g
  OBVIOUS
<1> QED
  BY <1>1, <1>3, <1>4, <1>5, <1>6 DEF Unseen, Leads

LEMMA UnseenNext ==
  ASSUME NEW cmd, Safe(cmd), NEW g \in 1 .. Len(cmd), Unseen(cmd, g + 1),
         \A j \in {g, g - 1, g - 2} : 1 <= j => cmd[j] # "ionum"
  PROVE  \/ cmd[g] \in {"or", "and", "semi"}
         \/ Unseen(cmd, g) /\ cmd[g] \in {"assign", "out", "dup"}
<1>1. g \in Nat \ {0} /\ cmd[g] \in Plain /\ cmd[g] # "ionum" /\ Beside(cmd, g)
  BY SafeTyped, Neighbours
<1>2. CASE cmd[g] \in Separators
  <2>1. Begin(cmd, g + 1) = g
    BY <1>1, <1>2, BeginNext
  <2>2. cmd[g] \notin {"pipe", "amp"}
    BY <1>1, <2>1 DEF Unseen
  <2> QED
    BY <1>2, <2>2 DEF Separators
<1>3. CASE cmd[g] \notin Separators
  <2>1. PICK b : b = Begin(cmd, g) /\ BeginsAt(cmd, g, b)
    BY <1>1, BeginIs
  <2>2. /\ Unseen(cmd, g) /\ Precedes(cmd, g)
        /\ \A j \in b + 2 .. g : cmd[j] \in Redirections => cmd[j - 1] = "ionum"
    BY <1>1, <1>3, <2>1, UnseenBefore
  <2>3. ASSUME 1 < g, cmd[g - 1] \in Redirections PROVE FALSE
    <3>1. PICK j : j = g - 1
      OBVIOUS
    <3>2. j \in 1 .. Len(cmd) /\ j \in Nat /\ cmd[j] \in {"out", "dup"}
      <4>1. j \in 1 .. Len(cmd)
        BY <1>1, <2>3, <3>1, SafeTyped
      <4>2. cmd[j] \in Plain /\ cmd[j] \in Redirections
        BY <2>3, <3>1, <4>1, SafeTyped
      <4> QED
        BY <4>1, <4>2 DEF Plain, Redirections
    <3>3. 1 < j /\ cmd[j - 1] \notin Separators
      BY <3>2, Neighbours DEF Beside
    <3>4. cmd[j] \notin Separators
      BY <3>2 DEF Separators
    <3>5. b \in 0 .. g - 1 /\ (b = 0 \/ cmd[b] \in Separators)
      BY <2>1 DEF BeginsAt
    <3>6. b # j /\ b # j - 1
      BY <3>2, <3>3, <3>4, <3>5
    <3>7. j \in b + 2 .. g
      BY <1>1, <3>1, <3>2, <3>5, <3>6
    <3>8. cmd[j - 1] = "ionum"
      BY <2>2, <2>3, <3>1, <3>7
    <3> QED
      BY <1>1, <3>1, <3>3, <3>8
  <2>4. ~(cmd[g] = "bang" /\ Negates(cmd, g))
    BY <1>1 DEF Beside
  <2>5. cmd[g] \in {"assign"} \cup Redirections
    BY <1>1, <2>2, <2>3, <2>4 DEF Precedes, IoNumbers
  <2> QED
    BY <1>1, <2>2, <2>5 DEF Plain, Redirections
<1> QED
  BY <1>2, <1>3

LEMMA UnseenOverRedirection ==
  ASSUME NEW cmd, NEW g \in Nat \ {0}, NEW h, h = g + 3, Unseen(cmd, h),
         \A j \in {g, g + 1, g + 2} : cmd[j] \notin Separators
  PROVE  Unseen(cmd, g)
<1>1. g + 1 \in Nat \ {0} /\ g + 2 \in Nat \ {0} /\ (g + 1) + 1 = g + 2 /\ (g + 2) + 1 = h
  OBVIOUS
<1>2. Unseen(cmd, g + 2)
  BY <1>1, UnseenBefore
<1>3. Unseen(cmd, g + 1)
  BY <1>1, <1>2, UnseenBefore
<1> QED
  BY <1>3, UnseenBefore

-----------------------------------------------------------------------------
(* A turn that takes a redirection of a descriptor, and one that does not. *)
LEMMA RedirectionTurn ==
  ASSUME NEW cmd, Safe(cmd), NEW p, NEW q, Half(cmd, p, q), NEW s, HalfBuilt(cmd, p, q, s),
         s.next <= q - p + 1, cmd[p - 1 + s.next] = "ionum"
  PROVE  LET t == Turn(SubSeq(Tokens(cmd), p, q), s) IN
         HalfBuilt(cmd, p, q, t) /\ t.next > s.next
<1> DEFINE tokens == SubSeq(Tokens(cmd), p, q)
           t == Turn(tokens, s)
<1>1. PICK g : g = p - 1 + s.next
  OBVIOUS
<1>2. /\ s \in Turns /\ 1 <= s.next /\ Len(s.parts) = s.next - 1
      /\ s.next \in Nat /\ s.seen \in BOOLEAN /\ s.parts \in Seq(Plain \cup Turned)
      /\ \A k \in 1 .. s.next - 1 : Rebuilt(cmd, p - 1 + k, s.parts[k])
      /\ Unseen(cmd, g) => ~s.seen
  BY <1>1 DEF HalfBuilt, Turns
<1>3. /\ Len(cmd) \in Nat /\ p \in 1 .. q /\ q \in 1 .. Len(cmd)
      /\ g \in p .. q /\ s.next \in 1 .. q - p + 1
  BY <1>1, <1>2, SafeTyped DEF Half
<1>4. /\ IsFdRedirection(tokens, s.next)
      /\ s.next + 2 <= q - p + 1
      /\ tokens[s.next + 1] = cmd[g + 1] /\ tokens[s.next + 2] = cmd[g + 2]
      /\ <<cmd[g + 1], cmd[g + 2]>> \in {<<"dup", "num">>, <<"out", "devnull">>}
  <2>1. PICK k \in 1 .. q - p + 1 : k = s.next
    BY <1>3
  <2>2. /\ IsFdRedirection(tokens, k) <=> cmd[p - 1 + k] = "ionum"
        /\ cmd[p - 1 + k] = "ionum" =>
              /\ k + 2 <= q - p + 1
              /\ tokens[k + 1] = cmd[p - 1 + k + 1] /\ tokens[k + 2] = cmd[p - 1 + k + 2]
              /\ <<cmd[p - 1 + k + 1], cmd[p - 1 + k + 2]>>
                    \in {<<"dup", "num">>, <<"out", "devnull">>}
    BY RedirectionsFound
  <2>3. p - 1 + k = g /\ cmd[g] = "ionum"
    BY <1>1, <2>1
  <2> HIDE DEF tokens
  <2> QED
    BY <2>1, <2>2, <2>3
<1>5. Len(tokens) = q - p + 1
  BY HalfTokens
<1> DEFINE added == <<"ionum", tokens[s.next + 1], tokens[s.next + 2]>>
<1>6. t = [s EXCEPT !.next = @ + 3, !.parts = @ \o added]
  BY <1>3, <1>4, <1>5 DEF Turn
<1>7. t = [next |-> s.next + 3, seen |-> s.seen, parts |-> s.parts \o added]
  <2> HIDE DEF added, t
  <2> QED
    BY <1>2, <1>6 DEF Turns
<1>8. /\ added \in Seq(Plain \cup Turned) /\ Len(added) = 3
      /\ added[1] = cmd[g] /\ added[2] = cmd[g + 1] /\ added[3] = cmd[g + 2]
  <2>1. cmd[g] = "ionum"
    BY <1>1
  <2>2. cmd[g + 1] \in Plain /\ cmd[g + 2] \in Plain /\ "ionum" \in Plain
    BY <1>4 DEF Plain
  <2> QED
    BY <1>4, <2>1, <2>2
<1> HIDE DEF added
<1>9. /\ t.next = s.next + 3 /\ t.seen = s.seen
      /\ t.parts \in Seq(Plain \cup Turned) /\ Len(t.parts) = s.next + 2
      /\ \A i \in 1 .. s.next + 2 : t.parts[i] = IF i <= s.next - 1 THEN s.parts[i]
                                                ELSE added[i - (s.next - 1)]
      /\ t \in Turns
  <2>1. /\ s.parts \o added \in Seq(Plain \cup Turned)
        /\ Len(s.parts \o added) = s.next - 1 + 3
        /\ \A i \in 1 .. s.next - 1 + 3 : (s.parts \o added)[i] =
                IF i <= s.next - 1 THEN s.parts[i] ELSE added[i - (s.next - 1)]
    <3>1. PICK ps \in Seq(Plain \cup Turned) : ps = s.parts
      BY <1>2
    <3>2. /\ ps \o added \in Seq(Plain \cup Turned)
          /\ Len(ps \o added) = Len(ps) + Len(added)
          /\ \A i \in 1 .. Len(ps) + Len(added) : (ps \o added)[i] =
                  IF i <= Len(ps) THEN ps[i] ELSE added[i - Len(ps)]
      BY <1>8, ConcatProperties
    <3>3. Len(ps) = s.next - 1 /\ Len(added) = 3
      BY <1>2, <1>8, <3>1
    <3> QED
      BY <3>1, <3>2, <3>3
  <2>2. s.next - 1 + 3 = s.next + 2
    BY <1>2
  <2> HIDE DEF t
  <2> QED
    BY <1>2, <1>7, <2>1, <2>2 DEF Turns
<1> HIDE DEF t, tokens
<1>10. ASSUME NEW k \in 1 .. t.next - 1 PROVE Rebuilt(cmd, p - 1 + k, t.parts[k])
  <2>1. k \in 1 .. s.next + 2 /\ k \in Nat
    BY <1>2, <1>9
  <2>2. CASE k <= s.next - 1
    <3>1. k \in 1 .. s.next - 1 /\ t.parts[k] = s.parts[k]
      BY <1>2, <1>9, <2>1, <2>2
    <3> QED
      BY <1>2, <3>1
  <2>3. CASE k > s.next - 1
    <3>1. PICK m \in 1 .. 3 : k = s.next - 1 + m
      <4>1. k - (s.next - 1) \in 1 .. 3 /\ k = s.next - 1 + (k - (s.next - 1))
        BY <1>2, <2>1, <2>3
      <4> QED
        BY <4>1
    <3>2. t.parts[k] = added[m]
      <4>1. ~(k <= s.next - 1) /\ k - (s.next - 1) = m
        BY <1>2, <2>1, <2>3, <3>1
      <4> QED
        BY <1>9, <2>1, <4>1
    <3>3. p - 1 + k = g + (m - 1)
      <4>1. p \in Nat /\ s.next \in Nat
        BY <1>2, <1>3
      <4> QED
        BY <1>1, <3>1, <4>1
    <3>4. t.parts[k] = cmd[p - 1 + k] /\ cmd[p - 1 + k] \notin {"bang", "assign"}
      <4>1. CASE m = 1
        <5>1. p - 1 + k = g
          BY <1>3, <3>3, <4>1
        <5> QED
          BY <1>1, <1>8, <3>2, <4>1, <5>1
      <4>2. CASE m = 2
        <5>1. p - 1 + k = g + 1
          BY <1>3, <3>3, <4>2
        <5> QED
          BY <1>4, <1>8, <3>2, <4>2, <5>1
      <4>3. CASE m = 3
        <5>1. p - 1 + k = g + 2
          BY <1>3, <3>3, <4>3
        <5> QED
          BY <1>4, <1>8, <3>2, <4>3, <5>1
      <4> QED
        BY <4>1, <4>2, <4>3
    <3> QED
      BY <3>4 DEF Rebuilt
  <2> QED
    BY <1>2, <2>1, <2>2, <2>3
<1>11. PICK h : h = p - 1 + t.next
  OBVIOUS
<1>12. h = g + 3 /\ h - 1 = g + 2 /\ h - 2 = g + 1 /\ h <= q + 1 /\ g \in Nat \ {0}
  <2>1. PICK n \in Nat \ {0} : n = s.next
    BY <1>2
  <2>2. p \in Nat \ {0} /\ q \in Nat /\ n + 2 <= q - p + 1
    BY <1>3, <1>4, <2>1
  <2>3. g = p - 1 + n /\ h = p - 1 + (n + 3)
    BY <1>1, <1>9, <1>11, <2>1
  <2> QED
    BY <2>2, <2>3
<1>13. \A j \in {h - 1, h - 2} : 1 <= j => cmd[j] # "ionum"
  BY <1>4, <1>12
<1>14. ASSUME Unseen(cmd, h) PROVE ~t.seen
  <2>1. \A j \in {g, g + 1, g + 2} : cmd[j] \notin Separators
    BY <1>1, <1>4 DEF Separators
  <2>2. Unseen(cmd, g)
    BY <1>12, <1>14, <2>1, UnseenOverRedirection
  <2> QED
    BY <1>2, <1>9, <2>2
<1>15. /\ 1 <= t.next /\ Len(t.parts) = t.next - 1 /\ t.next > s.next
  BY <1>2, <1>9
<1>16. HalfBuilt(cmd, p, q, t)
  BY <1>9, <1>10, <1>11, <1>12, <1>13, <1>14, <1>15 DEF HalfBuilt
<1> QED
  BY <1>15, <1>16 DEF t, tokens

LEMMA TokenTurn ==
  ASSUME NEW cmd, Safe(cmd), NEW p, NEW q, Half(cmd, p, q), NEW s, HalfBuilt(cmd, p, q, s),
         s.next <= q - p + 1, cmd[p - 1 + s.next] # "ionum"
  PROVE  LET t == Turn(SubSeq(Tokens(cmd), p, q), s) IN
         HalfBuilt(cmd, p, q, t) /\ t.next > s.next
<1> DEFINE tokens == SubSeq(Tokens(cmd), p, q)
           t == Turn(tokens, s)
<1>1. PICK g : g = p - 1 + s.next
  OBVIOUS
<1>2. /\ s \in Turns /\ 1 <= s.next /\ Len(s.parts) = s.next - 1
      /\ s.next \in Nat /\ s.seen \in BOOLEAN /\ s.parts \in Seq(Plain \cup Turned)
      /\ \A k \in 1 .. s.next - 1 : Rebuilt(cmd, p - 1 + k, s.parts[k])
      /\ \A j \in {g - 1, g - 2} : 1 <= j => cmd[j] # "ionum"
      /\ Unseen(cmd, g) => ~s.seen
  BY <1>1 DEF HalfBuilt, Turns
<1>3. /\ Len(cmd) \in Nat /\ p \in 1 .. q /\ q \in 1 .. Len(cmd)
      /\ g \in p .. q /\ g \in 1 .. Len(cmd) /\ g \in Nat \ {0} /\ s.next \in 1 .. q - p + 1
  <2>1. Len(cmd) \in Nat /\ p \in 1 .. q /\ q \in 1 .. Len(cmd)
    BY SafeTyped DEF Half
  <2>2. p \in Nat \ {0} /\ q \in Nat \ {0} /\ p <= q /\ q <= Len(cmd)
    BY <2>1
  <2>3. s.next \in 1 .. q - p + 1
    BY <1>2, <2>2
  <2>4. g \in p .. q
    <3>1. PICK n \in 1 .. q - p + 1 : n = s.next
      BY <2>3
    <3>2. g = p - 1 + n
      BY <1>1, <3>1
    <3> QED
      BY <2>2, <3>2
  <2> QED
    BY <2>1, <2>2, <2>3, <2>4
<1>4. ~IsFdRedirection(tokens, s.next)
  BY <1>1, <1>3, RedirectionsFound
<1>5. Len(tokens) = q - p + 1 /\ tokens[s.next] = cmd[g] /\ cmd[g] \in Plain
  <2>1. Len(tokens) = q - p + 1 /\ tokens[s.next] = Token(cmd[p - 1 + s.next])
    <3>1. /\ Len(tokens) = q - p + 1
          /\ \A k \in 1 .. q - p + 1 : tokens[k] = Token(cmd[p - 1 + k])
      BY HalfTokens
    <3> HIDE DEF tokens
    <3> QED
      BY <1>3, <3>1
  <2>2. tokens[s.next] = cmd[g]
    BY <1>1, <2>1 DEF Token
  <2> QED
    BY <1>3, <2>1, <2>2, SafeTyped
<1> DEFINE kept == cmd[g] \notin Words \/ cmd[g] = "glob" \/ (cmd[g] = "assign" /\ ~s.seen)
           added == IF kept THEN <<cmd[g]>> ELSE Requoted(cmd[g])
           seen == IF kept THEN s.seen /\ cmd[g] \notin CommandSeparators ELSE TRUE
<1>6. t = [next |-> s.next + 1, seen |-> seen, parts |-> s.parts \o added]
  BY <1>3, <1>4, <1>5 DEF Turn
<1>7. PICK x \in Plain \cup Turned : added = <<x>> /\ Rebuilt(cmd, g, x)
  <2>1. CASE cmd[g] = "assign"
    <3>1. cmd[g] \in Words
      BY <2>1 DEF Words
    <3>2. CASE s.seen
      <4>1. added = <<"assignword">>
        BY <2>1, <3>1, <3>2 DEF Requoted
      <4>2. ~Leads(cmd, g)
        BY <1>2, <1>3, <2>1, <3>2, LeadingIsUnseen
      <4> QED
        BY <2>1, <4>1, <4>2 DEF Rebuilt, Turned
    <3>3. CASE ~s.seen
      <4>1. added = <<"assign">>
        BY <2>1, <3>3
      <4> QED
        BY <2>1, <4>1 DEF Rebuilt, Plain
    <3> QED
      BY <3>2, <3>3
  <2>2. CASE cmd[g] = "bang"
    <3>1. added = <<"bangword">>
      BY <2>2 DEF Requoted, Words
    <3> QED
      BY <2>2, <3>1 DEF Rebuilt, Turned
  <2>3. CASE cmd[g] \notin {"assign", "bang"}
    <3>1. Requoted(cmd[g]) = <<cmd[g]>>
      BY <1>5, <2>3 DEF Requoted, Plain
    <3>2. added = <<cmd[g]>>
      BY <3>1
    <3> QED
      BY <1>5, <2>3, <3>2 DEF Rebuilt
  <2> QED
    BY <2>1, <2>2, <2>3
<1>8. ASSUME Unseen(cmd, g + 1) PROVE ~seen
  <2>1. \A j \in {g, g - 1, g - 2} : 1 <= j => cmd[j] # "ionum"
    BY <1>1, <1>2
  <2>2. CASE cmd[g] \in {"or", "and", "semi"}
    BY <2>2 DEF CommandSeparators, Words
  <2>3. CASE Unseen(cmd, g) /\ cmd[g] \in {"assign", "out", "dup"}
    <3>1. ~s.seen
      BY <1>2, <2>3
    <3>2. kept
      BY <2>3, <3>1 DEF Words
    <3> QED
      BY <3>1, <3>2
  <2> QED
    BY <1>3, <1>8, <2>1, <2>2, <2>3, UnseenNext
<1>9. seen \in BOOLEAN
  BY <1>2
<1> HIDE DEF added, seen
<1>10. /\ t.next = s.next + 1 /\ t.seen = seen
       /\ t.parts \in Seq(Plain \cup Turned) /\ Len(t.parts) = s.next
       /\ \A i \in 1 .. s.next : t.parts[i] = IF i <= s.next - 1 THEN s.parts[i] ELSE x
       /\ t \in Turns
  <2>1. added \in Seq(Plain \cup Turned) /\ Len(added) = 1 /\ added[1] = x
    BY <1>7
  <2>2. /\ s.parts \o added \in Seq(Plain \cup Turned)
        /\ Len(s.parts \o added) = s.next - 1 + 1
        /\ \A i \in 1 .. s.next - 1 + 1 : (s.parts \o added)[i] =
                IF i <= s.next - 1 THEN s.parts[i] ELSE added[i - (s.next - 1)]
    <3>1. PICK ps \in Seq(Plain \cup Turned) : ps = s.parts
      BY <1>2
    <3>2. /\ ps \o added \in Seq(Plain \cup Turned)
          /\ Len(ps \o added) = Len(ps) + Len(added)
          /\ \A i \in 1 .. Len(ps) + Len(added) : (ps \o added)[i] =
                  IF i <= Len(ps) THEN ps[i] ELSE added[i - Len(ps)]
      BY <2>1, ConcatProperties
    <3>3. Len(ps) = s.next - 1
      BY <1>2, <3>1
    <3> QED
      BY <2>1, <3>1, <3>2, <3>3
  <2>3. s.next - 1 + 1 = s.next
    BY <1>2
  <2>4. ASSUME NEW i \in 1 .. s.next
        PROVE  (s.parts \o added)[i] = IF i <= s.next - 1 THEN s.parts[i] ELSE x
    <3>1. ~(i <= s.next - 1) => i - (s.next - 1) = 1
      BY <1>2
    <3> QED
      BY <2>1, <2>2, <2>3, <3>1
  <2> HIDE DEF t
  <2>5. t.next = s.next + 1 /\ t.seen = seen /\ t.parts = s.parts \o added
    BY <1>6
  <2>6. t \in Turns
    BY <1>2, <1>6, <1>9, <2>2 DEF Turns
  <2> QED
    BY <2>2, <2>3, <2>4, <2>5, <2>6
<1> HIDE DEF t, tokens
<1>11. ASSUME NEW k \in 1 .. t.next - 1 PROVE Rebuilt(cmd, p - 1 + k, t.parts[k])
  <2>1. k \in 1 .. s.next /\ k \in Nat
    BY <1>2, <1>10
  <2>2. CASE k <= s.next - 1
    <3>1. k \in 1 .. s.next - 1 /\ t.parts[k] = s.parts[k]
      BY <1>2, <1>10, <2>1, <2>2
    <3> QED
      BY <1>2, <3>1
  <2>3. CASE k = s.next
    <3>1. t.parts[k] = x /\ p - 1 + k = g
      BY <1>1, <1>2, <1>10, <2>1, <2>3
    <3> QED
      BY <1>7, <3>1
  <2> QED
    BY <1>2, <2>1, <2>2, <2>3
<1>12. PICK h : h = p - 1 + t.next
  OBVIOUS
<1>13. h = g + 1 /\ h - 1 = g /\ h - 2 = g - 1 /\ h <= q + 1
  <2>1. PICK n \in Nat : n = s.next
    BY <1>2
  <2>2. p \in Nat /\ q \in Nat /\ n <= q - p + 1
    BY <1>3, <2>1
  <2>3. g = p - 1 + n /\ h = p - 1 + (n + 1)
    BY <1>1, <1>10, <1>12, <2>1
  <2> QED
    BY <2>2, <2>3
<1>14. \A j \in {h - 1, h - 2} : 1 <= j => cmd[j] # "ionum"
  BY <1>1, <1>2, <1>13
<1>15. Unseen(cmd, h) => ~t.seen
  BY <1>8, <1>10, <1>13
<1>16. 1 <= t.next /\ Len(t.parts) = t.next - 1 /\ t.next > s.next
  BY <1>2, <1>10
<1>17. HalfBuilt(cmd, p, q, t)
  BY <1>10, <1>11, <1>12, <1>13, <1>14, <1>15, <1>16 DEF HalfBuilt
<1> QED
  BY <1>16, <1>17 DEF t, tokens

LEMMA HalfBegun ==
  ASSUME NEW cmd, Safe(cmd), NEW p, NEW q, Half(cmd, p, q)
  PROVE  HalfBuilt(cmd, p, q, [next |-> 1, seen |-> FALSE, parts |-> <<>>])
<1> DEFINE s == [next |-> 1, seen |-> FALSE, parts |-> <<>>]
<1>1. Len(cmd) \in Nat /\ p \in 1 .. q /\ q \in 1 .. Len(cmd) /\ p \in Nat /\ q \in Nat
  BY SafeTyped DEF Half
<1>2. s \in Turns /\ s.next = 1 /\ s.parts = <<>> /\ ~s.seen
  BY DEF Turns
<1> HIDE DEF s
<1>3. PICK g : g = p - 1 + s.next
  OBVIOUS
<1>4. g = p /\ g <= q + 1
  BY <1>1, <1>2, <1>3
<1>5. ASSUME NEW j \in {g - 1, g - 2}, 1 <= j PROVE cmd[j] # "ionum"
  <2>1. CASE p = 1
    BY <1>4, <1>5, <2>1
  <2>2. CASE cmd[p] = "pipe"
    <3>1. /\ cmd[p - 1] \in Words /\ (2 < p => cmd[p - 2] # "ionum")
      BY <1>1, <2>2, Neighbours DEF Beside
    <3>2. j = p - 1 \/ (j = p - 2 /\ 2 < p)
      BY <1>1, <1>4, <1>5
    <3> QED
      BY <3>1, <3>2 DEF Words
  <2> QED
    BY <2>1, <2>2 DEF Half
<1>6. Len(s.parts) = s.next - 1 /\ 1 <= s.next /\ \A k \in 1 .. s.next - 1 : FALSE
  BY <1>2
<1>7. HalfBuilt(cmd, p, q, s)
  BY <1>2, <1>3, <1>4, <1>5, <1>6 DEF HalfBuilt
<1> QED
  BY <1>7 DEF s

LEMMA HalfIsBuilt ==
  ASSUME NEW cmd, Safe(cmd), NEW p, NEW q, Half(cmd, p, q)
  PROVE  LET parts == BuildCommandParts(SubSeq(Tokens(cmd), p, q)) IN
         /\ parts \in Seq(Plain \cup Turned) /\ Len(parts) = q - p + 1
         /\ \A k \in 1 .. q - p + 1 : Rebuilt(cmd, p - 1 + k, parts[k])
<1> DEFINE tokens == SubSeq(Tokens(cmd), p, q)
<1>1. PICK n : n = q - p + 1
  OBVIOUS
<1>2. n \in Nat /\ Len(tokens) = n /\ p \in Nat /\ q \in Nat
  <2>1. p \in 1 .. q /\ q \in 1 .. Len(cmd) /\ Len(cmd) \in Nat
    BY SafeTyped DEF Half
  <2> QED
    BY <1>1, <2>1, HalfTokens
<1>3. PICK f : Loops(f, tokens)
  <2> HIDE DEF tokens
  <2> QED
    BY <1>2, LoopTurns
<1> DEFINE Built(m) == HalfBuilt(cmd, p, q, f[m]) /\ f[m].next > m
           Reached == {m \in Nat : m <= n => Built(m)}
<1>4. 0 \in Reached
  <2>1. f[0] = [next |-> 1, seen |-> FALSE, parts |-> <<>>]
    BY <1>3 DEF Loops
  <2>2. HalfBuilt(cmd, p, q, f[0]) /\ f[0].next = 1
    BY <2>1, HalfBegun
  <2> QED
    BY <2>2
<1>5. ASSUME NEW m \in Nat, m \in Reached PROVE m + 1 \in Reached
  <2>1. SUFFICES ASSUME m + 1 <= n PROVE Built(m + 1)
    OBVIOUS
  <2>2. PICK s : s = f[m]
    OBVIOUS
  <2>3. HalfBuilt(cmd, p, q, s) /\ s.next > m
    BY <1>2, <1>5, <2>1, <2>2
  <2>4. f[m + 1] = Turn(tokens, s)
    <3>1. m + 1 \in 1 .. Len(tokens) /\ (m + 1) - 1 = m
      BY <1>2, <2>1
    <3>2. f[m + 1] = Turn(tokens, f[(m + 1) - 1])
      BY <1>3, <3>1 DEF Loops
    <3> QED
      BY <2>2, <3>1, <3>2
  <2>5. s.next \in Nat /\ s.next <= n + 1
    BY <1>1, <1>2, <2>3 DEF HalfBuilt, Turns
  <2>6. CASE s.next > n
    <3>1. f[m + 1] = s
      BY <1>2, <2>4, <2>6 DEF Turn
    <3> QED
      BY <1>2, <2>1, <2>3, <2>5, <2>6, <3>1
  <2>7. CASE s.next <= n
    <3>1. s.next <= q - p + 1
      BY <1>1, <2>7
    <3>2. HalfBuilt(cmd, p, q, Turn(tokens, s)) /\ Turn(tokens, s).next > s.next
      BY <2>3, <3>1, RedirectionTurn, TokenTurn
    <3>3. PICK t : t = f[m + 1]
      OBVIOUS
    <3>4. HalfBuilt(cmd, p, q, t) /\ t.next > s.next
      BY <2>4, <3>2, <3>3
    <3>5. t.next \in Nat
      BY <3>4 DEF HalfBuilt, Turns
    <3> QED
      BY <2>3, <2>5, <3>3, <3>4, <3>5
  <2> QED
    BY <1>2, <2>5, <2>6, <2>7
<1>6. Built(n)
  <2>1. n \in Reached
    <3> HIDE DEF Reached
    <3> QED
      BY <1>2, <1>4, <1>5, NatSetInduction
  <2> QED
    BY <1>2, <2>1
<1>7. PICK s : s = f[n]
  OBVIOUS
<1>8. /\ s \in Turns /\ s.next > n /\ p - 1 + s.next <= q + 1
      /\ Len(s.parts) = s.next - 1
      /\ \A k \in 1 .. s.next - 1 : Rebuilt(cmd, p - 1 + k, s.parts[k])
  BY <1>6, <1>7 DEF HalfBuilt
<1>9. s.next = n + 1 /\ s.next - 1 = n /\ s.parts \in Seq(Plain \cup Turned)
  <2>1. s.parts \in Seq(Plain \cup Turned)
    BY <1>8 DEF Turns
  <2>2. PICK m \in Nat : m = s.next
    BY <1>8 DEF Turns
  <2>3. m > n /\ p - 1 + m <= q + 1
    BY <1>8, <2>2
  <2>4. m = n + 1 /\ m - 1 = n
    BY <1>1, <1>2, <2>3
  <2> QED
    BY <2>1, <2>2, <2>4
<1>10. BuildCommandParts(tokens) = s.parts
  BY <1>2, <1>3, <1>7 DEF Loops
<1> HIDE DEF tokens
<1>11. PICK parts : parts = BuildCommandParts(tokens)
  OBVIOUS
<1>12. /\ parts \in Seq(Plain \cup Turned) /\ Len(parts) = q - p + 1
       /\ \A k \in 1 .. q - p + 1 : Rebuilt(cmd, p - 1 + k, parts[k])
  BY <1>1, <1>8, <1>9, <1>10, <1>11
<1> QED
  BY <1>11, <1>12 DEF tokens

-----------------------------------------------------------------------------
(* A command rebuilt lexeme by lexeme means what it meant.                 *)
IsRebuilt(cmd, new) ==
    /\ new \in Seq(Plain \cup Turned) /\ Len(new) = Len(cmd)
    /\ \A g \in 1 .. Len(cmd) : Rebuilt(cmd, g, new[g])

LEMMA RebuiltLexeme ==
  ASSUME NEW cmd, Safe(cmd), NEW new, IsRebuilt(cmd, new), NEW g \in 1 .. Len(cmd)
  PROVE  /\ new[g] \in Separators <=> cmd[g] \in Separators
         /\ new[g] \in Redirections <=> cmd[g] \in Redirections
         /\ new[g] \in IoNumbers <=> cmd[g] \in IoNumbers
         /\ new[g] = "assign" => cmd[g] = "assign"
         /\ cmd[g] = "assign" /\ Leads(cmd, g) => new[g] = "assign"
         /\ cmd[g] = "assign" => new[g] \in {"assign", "assignword"}
         /\ cmd[g] = "bang" => new[g] = "bangword"
         /\ cmd[g] \notin {"assign", "bang"} => new[g] = cmd[g]
         /\ new[g] \notin {"in", "tightin", "bang"}
<1>1. cmd[g] \in Plain /\ Rebuilt(cmd, g, new[g])
  BY SafeTyped DEF IsRebuilt
<1>2. CASE cmd[g] = "assign"
  <2>1. new[g] \in {"assign", "assignword"} /\ (Leads(cmd, g) => new[g] = "assign")
    BY <1>1, <1>2 DEF Rebuilt
  <2> QED
    BY <1>2, <2>1 DEF Separators, Redirections, IoNumbers
<1>3. CASE cmd[g] = "bang"
  <2>1. new[g] = "bangword"
    BY <1>1, <1>3 DEF Rebuilt
  <2> QED
    BY <1>3, <2>1 DEF Separators, Redirections, IoNumbers
<1>4. CASE cmd[g] \notin {"assign", "bang"}
  <2>1. new[g] = cmd[g]
    BY <1>1, <1>4 DEF Rebuilt
  <2> QED
    BY <1>1, <1>4, <2>1 DEF Plain
<1> QED
  BY <1>2, <1>3, <1>4

LEMMA SameBegin ==
  ASSUME NEW cmd, Safe(cmd), NEW new, IsRebuilt(cmd, new), NEW i \in 1 .. Len(cmd) + 1
  PROVE  Begin(new, i) = Begin(cmd, i)
<1> DEFINE b == Begin(cmd, i)
<1>1. i \in Nat \ {0} /\ Len(cmd) \in Nat
  BY SafeTyped
<1>2. BeginsAt(cmd, i, b)
  BY <1>1, BeginIs
<1> HIDE DEF b
<1>3. \A g \in 1 .. i - 1 : g \in 1 .. Len(cmd)
  BY <1>1
<1>4. \A g \in 1 .. i - 1 : new[g] \in Separators <=> cmd[g] \in Separators
  BY <1>3, RebuiltLexeme
<1>5. BeginsAt(new, i, b)
  BY <1>1, <1>2, <1>4 DEF BeginsAt
<1> QED
  BY <1>1, <1>5, BeginUnique DEF b

LEMMA SameLeads ==
  ASSUME NEW cmd, Safe(cmd), NEW new, IsRebuilt(cmd, new), NEW i \in 1 .. Len(cmd)
  PROVE  Leads(new, i) <=> Leads(cmd, i)
<1>1. PICK b : b = Begin(cmd, i) /\ BeginsAt(cmd, i, b)
  <2>1. i \in Nat \ {0}
    OBVIOUS
  <2> QED
    BY <2>1, BeginIs
<1>2. Len(cmd) \in Nat /\ i \in Nat \ {0} /\ b \in 0 .. i - 1
  BY <1>1, SafeTyped DEF BeginsAt
<1>3. Begin(new, i) = b
  <2>1. i \in 1 .. Len(cmd) + 1
    BY <1>2
  <2> QED
    BY <1>1, <2>1, SameBegin
<1>4. ASSUME NEW j \in b + 1 .. i - 1
      PROVE  j \in 1 .. Len(cmd) /\ j \in b + 1 .. i /\ (j > 1 => j - 1 \in 1 .. Len(cmd))
  BY <1>2
<1>5. ASSUME Leads(cmd, i), NEW j \in b + 1 .. i - 1 PROVE Precedes(new, j)
  <2>1. Precedes(cmd, j)
    BY <1>1, <1>5 DEF Leads
  <2>2. j \in 1 .. Len(cmd) /\ j \in b + 1 .. i
    BY <1>4
  <2>3. Leads(cmd, j)
    BY <1>1, <1>2, <1>5, <2>2, LeadsWithin
  <2>4. CASE cmd[j] \in {"assign"} \cup IoNumbers \cup Redirections
    BY <2>2, <2>3, <2>4, RebuiltLexeme DEF Precedes
  <2>5. CASE j > 1 /\ cmd[j - 1] \in Redirections
    BY <1>4, <2>5, RebuiltLexeme DEF Precedes
  <2>6. CASE cmd[j] = "bang" /\ Negates(cmd, j)
    BY <2>2, <2>6, Neighbours DEF Beside
  <2> QED
    BY <2>1, <2>4, <2>5, <2>6 DEF Precedes
<1>6. ASSUME Leads(new, i), NEW j \in b + 1 .. i - 1 PROVE Precedes(cmd, j)
  <2>1. Precedes(new, j)
    BY <1>3, <1>6 DEF Leads
  <2>2. j \in 1 .. Len(cmd)
    BY <1>4
  <2>3. CASE new[j] \in {"assign"} \cup IoNumbers \cup Redirections
    BY <2>2, <2>3, RebuiltLexeme DEF Precedes
  <2>4. CASE j > 1 /\ new[j - 1] \in Redirections
    BY <1>4, <2>4, RebuiltLexeme DEF Precedes
  <2>5. new[j] # "bang"
    BY <2>2, RebuiltLexeme
  <2> QED
    BY <2>1, <2>3, <2>4, <2>5 DEF Precedes
<1>7. Leads(cmd, i) => Leads(new, i)
  BY <1>3, <1>5 DEF Leads
<1>8. Leads(new, i) => Leads(cmd, i)
  BY <1>1, <1>6 DEF Leads
<1> QED
  BY <1>7, <1>8

LEMMA RebuiltKeeps ==
  ASSUME NEW cmd, Safe(cmd), NEW new, IsRebuilt(cmd, new), NEW at \in 0 .. Len(cmd)
  PROVE  Keeps(cmd, [text |-> new, at |-> at])
<1>1. /\ DOMAIN new = 1 .. Len(cmd) /\ DOMAIN cmd = 1 .. Len(cmd) /\ Len(cmd) \in Nat
  BY SafeTyped DEF IsRebuilt
<1>2. ASSUME NEW i \in 1 .. Len(cmd) PROVE Meaning(new)[i] = Meaning(cmd)[i]
  <2>1. Leads(new, i) <=> Leads(cmd, i)
    BY SameLeads
  <2>2. ~(cmd[i] = "bang" /\ Negates(cmd, i)) /\ cmd[i] # "tightin"
    BY Neighbours, SafeTyped DEF Beside, Plain
  <2>3. CASE cmd[i] = "assign"
    <3>1. new[i] \in {"assign", "assignword"} /\ (Leads(cmd, i) => new[i] = "assign")
      BY <2>3, RebuiltLexeme
    <3>2. Meaning(cmd)[i] = IF Leads(cmd, i) THEN "assign" ELSE "assignword"
      BY <1>1, <2>3 DEF Meaning
    <3>3. Meaning(new)[i] = IF Leads(cmd, i) THEN "assign" ELSE "assignword"
      BY <1>1, <2>1, <3>1 DEF Meaning
    <3> QED
      BY <3>2, <3>3
  <2>4. CASE cmd[i] = "bang"
    <3>1. new[i] = "bangword"
      BY <2>4, RebuiltLexeme
    <3>2. Meaning(cmd)[i] = "bangword"
      BY <1>1, <2>2, <2>4 DEF Meaning
    <3>3. Meaning(new)[i] = "bangword"
      BY <1>1, <3>1 DEF Meaning
    <3> QED
      BY <3>2, <3>3
  <2>5. CASE cmd[i] \notin {"assign", "bang"}
    <3>1. new[i] = cmd[i]
      BY <2>5, RebuiltLexeme
    <3>2. Meaning(cmd)[i] = cmd[i]
      BY <1>1, <2>2, <2>5 DEF Meaning
    <3>3. Meaning(new)[i] = cmd[i]
      BY <1>1, <2>2, <2>5, <3>1 DEF Meaning
    <3> QED
      BY <3>2, <3>3
  <2> QED
    BY <2>3, <2>4, <2>5
<1>3. Meaning(new) = Meaning(cmd)
  <2>1. /\ Meaning(new) = [i \in 1 .. Len(cmd) |-> Meaning(new)[i]]
        /\ Meaning(cmd) = [i \in 1 .. Len(cmd) |-> Meaning(cmd)[i]]
    BY <1>1 DEF Meaning
  <2> QED
    BY <1>2, <2>1
<1>4. StdinIsFree([text |-> new, at |-> at])
  <2>1. SUFFICES ASSUME at > 0, NEW j \in Begin(new, at + 1) + 1 .. at
                 PROVE  new[j] \notin {"in", "tightin"}
    BY DEF StdinIsFree
  <2>2. PICK b : b = Begin(new, at + 1) /\ BeginsAt(new, at + 1, b)
    <3>1. at + 1 \in Nat \ {0}
      BY <1>1
    <3> QED
      BY <3>1, BeginIs
  <2>3. j \in 1 .. Len(cmd)
    BY <1>1, <2>2 DEF BeginsAt
  <2> QED
    BY <2>3, RebuiltLexeme
<1> QED
  BY <1>3, <1>4 DEF Keeps

-----------------------------------------------------------------------------
(* The first | is found.                                                   *)
LEMMA FirstOf ==
  ASSUME NEW tokens, Len(tokens) \in Nat
  PROVE  LET pipe == SelectInSeq(tokens, LAMBDA token : token = "pipe") IN
         pipe # 0 => pipe \in 1 .. Len(tokens) /\ tokens[pipe] = "pipe"
<1> DEFINE I == {i \in 1 .. Len(tokens) : tokens[i] = "pipe"}
<1>1. CASE I = {}
  BY <1>1 DEF SelectInSeq
<1>2. CASE I # {}
  <2>1. I \subseteq Nat
    OBVIOUS
  <2>2. PICK x \in I : \A y \in I : ~ (<<y, x>> \in OpToRel(<, Nat))
    <3> HIDE DEF I
    <3> QED
      BY <1>2, <2>1, NatLessThanWellFounded, WFMin, Zenon
  <2>3. \A y \in I : x <= y
    <3> HIDE DEF I
    <3>1. \A y \in I : x \in Nat /\ y \in Nat /\ ~(y < x)
      BY <2>1, <2>2 DEF OpToRel
    <3> QED
      BY <3>1
  <2>4. Min(I) \in I
    BY <2>3 DEF Min
  <2>5. SelectInSeq(tokens, LAMBDA token : token = "pipe") = Min(I)
    BY <1>2 DEF SelectInSeq
  <2> HIDE DEF I
  <2>6. PICK m : m = Min(I)
    OBVIOUS
  <2>7. m \in 1 .. Len(tokens) /\ tokens[m] = "pipe"
    BY <2>4, <2>6 DEF I
  <2> QED
    BY <2>5, <2>6, <2>7
<1> QED
  BY <1>1, <1>2

LEMMA HalvesAreBuilt ==
  ASSUME NEW cmd, Safe(cmd), NEW pipe \in 1 .. Len(cmd), pipe > 1, cmd[pipe] = "pipe",
         NEW first, first = BuildCommandParts(SubSeq(Tokens(cmd), 1, pipe - 1)),
         NEW rest, rest = BuildCommandParts(SubSeq(Tokens(cmd), pipe, Len(cmd)))
  PROVE  IsRebuilt(cmd, first \o rest) /\ Len(first) = pipe - 1
<1> DEFINE n == Len(cmd)
<1>1. n \in Nat \ {0} /\ pipe \in Nat
  BY SafeTyped
<1>2. Half(cmd, 1, pipe - 1)
  <2>1. 1 \in 1 .. pipe - 1 /\ pipe - 1 \in 1 .. n
    BY <1>1
  <2>2. ASSUME NEW g \in 1 .. pipe - 1, cmd[g] = "ionum" PROVE g + 2 <= pipe - 1
    <3>1. g \in 1 .. n /\ g \in Nat
      BY <1>1
    <3>2. <<cmd[g + 1], cmd[g + 2]>> \in {<<"dup", "num">>, <<"out", "devnull">>}
      BY <2>2, <3>1, Neighbours DEF Beside
    <3>3. cmd[g + 1] # "pipe" /\ cmd[g + 2] # "pipe"
      BY <3>2
    <3>4. pipe # g + 1 /\ pipe # g + 2
      BY <3>3
    <3> QED
      BY <1>1, <3>1, <3>4
  <2> QED
    BY <2>1, <2>2 DEF Half
<1>3. Half(cmd, pipe, n)
  <2>1. pipe \in 1 .. n /\ n \in 1 .. n
    BY <1>1
  <2>2. ASSUME NEW g \in pipe .. n, cmd[g] = "ionum" PROVE g + 2 <= n
    <3>1. g \in 1 .. n
      BY <1>1
    <3> QED
      BY <2>2, <3>1, Neighbours DEF Beside
  <2> QED
    BY <2>1, <2>2 DEF Half
<1> HIDE DEF n
<1>4. /\ first \in Seq(Plain \cup Turned) /\ Len(first) = pipe - 1
      /\ \A k \in 1 .. pipe - 1 : Rebuilt(cmd, k, first[k])
  <2>1. /\ first \in Seq(Plain \cup Turned) /\ Len(first) = pipe - 1 - 1 + 1
        /\ \A k \in 1 .. pipe - 1 - 1 + 1 : Rebuilt(cmd, 1 - 1 + k, first[k])
    BY <1>2, HalfIsBuilt
  <2>2. pipe - 1 - 1 + 1 = pipe - 1
    BY <1>1
  <2>3. \A k \in 1 .. pipe - 1 : 1 - 1 + k = k
    OBVIOUS
  <2> QED
    BY <2>1, <2>2, <2>3
<1>5. /\ rest \in Seq(Plain \cup Turned) /\ Len(rest) = n - pipe + 1
      /\ \A k \in 1 .. n - pipe + 1 : Rebuilt(cmd, pipe - 1 + k, rest[k])
  BY <1>3, HalfIsBuilt DEF n
<1>6. /\ first \o rest \in Seq(Plain \cup Turned)
      /\ Len(first \o rest) = Len(first) + Len(rest)
      /\ \A i \in 1 .. Len(first) + Len(rest) : (first \o rest)[i] =
              IF i <= Len(first) THEN first[i] ELSE rest[i - Len(first)]
  BY <1>4, <1>5, ConcatProperties
<1>7. Len(first) + Len(rest) = n
  BY <1>1, <1>4, <1>5
<1>8. ASSUME NEW g \in 1 .. n PROVE Rebuilt(cmd, g, (first \o rest)[g])
  <2>1. CASE g <= pipe - 1
    <3>1. g \in 1 .. pipe - 1 /\ (first \o rest)[g] = first[g]
      BY <1>1, <1>4, <1>6, <1>7, <2>1
    <3> QED
      BY <1>4, <3>1
  <2>2. CASE g > pipe - 1
    <3>1. PICK k : k = g - (pipe - 1)
      OBVIOUS
    <3>2. k \in 1 .. n - pipe + 1 /\ pipe - 1 + k = g /\ ~(g <= pipe - 1)
      BY <1>1, <2>2, <3>1
    <3>3. (first \o rest)[g] = rest[k]
      BY <1>4, <1>6, <1>7, <3>1, <3>2
    <3>4. Rebuilt(cmd, pipe - 1 + k, rest[k])
      BY <1>5, <3>2
    <3> QED
      BY <3>2, <3>3, <3>4
  <2>3. g <= pipe - 1 \/ g > pipe - 1
    BY <1>1
  <2> QED
    BY <2>1, <2>2, <2>3
<1> QED
  BY <1>4, <1>6, <1>7, <1>8 DEF IsRebuilt, n

(* The text as it was, with its standard input its own.                    *)
LEMMA UnchangedKeeps ==
  ASSUME NEW cmd, NEW at,
         at = 0 \/ (at = Len(cmd) /\ Grammatical(cmd) /\ ~Some(cmd, {"in", "tightin"}))
  PROVE  Keeps(cmd, [text |-> cmd, at |-> at])
<1>1. CASE at = 0
  BY <1>1 DEF Keeps, StdinIsFree
<1>2. CASE at # 0
  <2>1. at = Len(cmd) /\ Len(cmd) \in Nat /\ DOMAIN cmd = 1 .. Len(cmd)
    BY <1>2 DEF Grammatical
  <2>2. PICK b : b = Begin(cmd, at + 1) /\ BeginsAt(cmd, at + 1, b)
    <3>1. at + 1 \in Nat \ {0}
      BY <2>1
    <3> QED
      BY <3>1, BeginIs
  <2>3. \A j \in b + 1 .. at : j \in DOMAIN cmd
    BY <2>1, <2>2 DEF BeginsAt
  <2>4. \A j \in b + 1 .. at : cmd[j] \notin {"in", "tightin"}
    BY <1>2, <2>3 DEF Some
  <2> QED
    BY <2>2, <2>4 DEF Keeps, StdinIsFree
<1> QED
  BY <1>1, <1>2

LEMMA QuoteKeeps ==
  ASSUME NEW cmd, Grammatical(cmd), ~LostByQuote(cmd), ~Some(cmd, {"tightin"})
  PROVE  Keeps(cmd, QuoteShellCommand(cmd))
<1> DEFINE quoted == [i \in DOMAIN cmd |-> QuoteOne(cmd, i)]
           b == QuoteShellCommand(cmd)
<1>1. DOMAIN cmd = 1 .. Len(cmd) /\ cmd = [i \in DOMAIN cmd |-> cmd[i]]
  BY DEF Grammatical
<1>2. b.text = cmd
  <2>1. CASE Some(cmd, {"heredoc", "multiline"})
    BY <2>1 DEF QuoteShellCommand
  <2>2. CASE ~Some(cmd, {"heredoc", "multiline"})
    <3>1. /\ HasSingleQuote(cmd) => ~Some(cmd, {"bang", "shout"})
          /\ ~HasSingleQuote(cmd) => ~Some(cmd, {"escaped"})
      BY <2>2 DEF LostByQuote
    <3>2. ASSUME NEW i \in DOMAIN cmd PROVE QuoteOne(cmd, i) = cmd[i]
      BY <3>1 DEF QuoteOne, Some
    <3>3. quoted = cmd
      BY <1>1, <3>2
    <3> QED
      BY <2>2, <3>3 DEF QuoteShellCommand
  <2> QED
    BY <2>1, <2>2
<1>3. b.at = 0 \/ (b.at = Len(cmd) /\ ~Some(cmd, {"in", "tightin"}))
  BY DEF QuoteShellCommand, AddStdinRedirect, Some
<1>4. b = [text |-> b.text, at |-> b.at]
  BY DEF QuoteShellCommand
<1> HIDE DEF b
<1> QED
  BY <1>2, <1>3, <1>4, UnchangedKeeps DEF b

LEMMA RearrangeKeeps ==
  ASSUME NEW cmd, Grammatical(cmd), IsComplete(cmd), ~LostByParts(cmd),
         AddStdinRedirect(cmd), ~Some(cmd, {"tightin"})
  PROVE  Keeps(cmd, RearrangePipeCommand(cmd))
<1> DEFINE pipe == SelectInSeq(Tokens(cmd), LAMBDA token : token = "pipe")
           first == BuildCommandParts(SubSeq(Tokens(cmd), 1, pipe - 1))
           rest == BuildCommandParts(SubSeq(Tokens(cmd), pipe, Len(Tokens(cmd))))
<1>1. CASE Some(cmd, {"opaque", "multiline"}) \/ pipe <= 1
  <2>1. RearrangePipeCommand(cmd) = [text |-> cmd, at |-> 0]
    BY <1>1 DEF RearrangePipeCommand, QuoteWithEvalStdinRedirect
  <2> QED
    BY <2>1, UnchangedKeeps
<1>2. CASE ~(Some(cmd, {"opaque", "multiline"}) \/ pipe <= 1)
  <2>1. RearrangePipeCommand(cmd) = [text |-> first \o rest, at |-> Len(first)]
    BY <1>2 DEF RearrangePipeCommand
  <2>2. Safe(cmd)
    <3>1. cmd \in Seq(Kinds) /\ DOMAIN cmd = 1 .. Len(cmd) /\ Len(cmd) \in Nat
      BY DEF Grammatical
    <3>2. ASSUME NEW i \in 1 .. Len(cmd) PROVE cmd[i] \in Plain
      <4>1. cmd[i] \notin {"empty", "special", "brace", "pattern", "clobber", "outerr"}
        BY <3>1 DEF LostByParts, Some
      <4>2. cmd[i] \notin {"in", "heredoc", "tightin", "opaque", "multiline"}
        BY <1>2, <3>1 DEF AddStdinRedirect, Some
      <4>3. cmd[i] \in Kinds
        BY <3>1
      <4> QED
        BY <4>1, <4>2, <4>3 DEF Kinds, Words, Redirections, Separators, IoNumbers, Plain
    <3>3. cmd \in Seq(Plain)
      BY <3>1, <3>2
    <3> QED
      BY <3>3 DEF Safe
  <2> HIDE DEF first, rest, pipe
  <2>3. pipe \in 1 .. Len(cmd) /\ cmd[pipe] = "pipe" /\ pipe > 1
    <3>1. Len(Tokens(cmd)) = Len(cmd) /\ Len(cmd) \in Nat
      BY <2>2, TokensAre
    <3>2. pipe # 0 => pipe \in 1 .. Len(Tokens(cmd)) /\ Tokens(cmd)[pipe] = "pipe"
      BY <3>1, FirstOf DEF pipe
    <3>3. pipe # 0
      BY <1>2
    <3>4. pipe \in 1 .. Len(cmd) /\ Token(cmd[pipe]) = "pipe"
      BY <2>2, <3>1, <3>2, <3>3, TokensAre
    <3> QED
      BY <1>2, <3>1, <3>4 DEF Token
  <2>4. IsRebuilt(cmd, first \o rest) /\ Len(first) = pipe - 1
    <3>1. rest = BuildCommandParts(SubSeq(Tokens(cmd), pipe, Len(cmd)))
      BY <2>2, TokensAre DEF rest
    <3>2. first = BuildCommandParts(SubSeq(Tokens(cmd), 1, pipe - 1))
      BY DEF first
    <3> QED
      BY <2>2, <2>3, <3>1, <3>2, HalvesAreBuilt
  <2>5. Len(first) \in 0 .. Len(cmd)
    BY <2>2, <2>3, <2>4, SafeTyped
  <2> QED
    BY <2>1, <2>2, <2>4, <2>5, RebuiltKeeps
<1> QED
  BY <1>1, <1>2

LEMMA BuildKeeps ==
  ASSUME NEW cmd, Grammatical(cmd), IsComplete(cmd)
  PROVE  KnownLoss(cmd) \/ Keeps(cmd, BuildExecCommand(cmd))
  BY QuoteKeeps, RearrangeKeeps DEF KnownLoss, BuildExecCommand

-----------------------------------------------------------------------------
TextIInv == Grammatical(text) /\ CommandKept

LEMMA TextInitEstablishes == TextInit => TextIInv
  BY DEF TextInit, TextIInv, Grammatical, CommandKept

LEMMA TextNextPreserves == TextIInv /\ [TextNext]_textVars => TextIInv'
<1> SUFFICES ASSUME TextIInv, [TextNext]_textVars PROVE TextIInv'
  OBVIOUS
<1>1. ASSUME NEW lexeme \in Lexemes, Append1(lexeme) PROVE TextIInv'
  <2>1. /\ built' = {} /\ text' = Append(text, lexeme)
        /\ Follows(IF text = <<>> THEN "semi" ELSE text[Len(text)], lexeme)
    BY <1>1 DEF Append1, CanFollow, Last
  <2>2. lexeme \in Kinds
    BY <2>1 DEF Follows, Kinds, Words, Redirections, Separators, IoNumbers
  <2>3. text \in Seq(Kinds)
    BY DEF TextIInv, Grammatical
  <2>4. /\ text' \in Seq(Kinds) /\ Len(text') = Len(text) + 1 /\ Len(text) \in Nat
        /\ \A i \in 1 .. Len(text) : text'[i] = text[i]
        /\ text'[Len(text) + 1] = lexeme
    BY <2>1, <2>2, <2>3, AppendProperties
  <2>5. ASSUME NEW i \in 1 .. Len(text')
        PROVE  Follows(IF i = 1 THEN "semi" ELSE text'[i - 1], text'[i])
    <3>1. CASE i \in 1 .. Len(text)
      <4>1. Follows(IF i = 1 THEN "semi" ELSE text[i - 1], text[i])
        BY <3>1 DEF TextIInv, Grammatical
      <4>2. i # 1 => text'[i - 1] = text[i - 1]
        BY <2>4, <3>1
      <4> QED
        BY <2>4, <3>1, <4>1, <4>2
    <3>2. CASE i = Len(text) + 1
      <4>1. text = <<>> <=> i = 1
        BY <2>3, <2>4, <3>2
      <4>2. i # 1 => i - 1 = Len(text) /\ text'[i - 1] = text[Len(text)]
        BY <2>4, <3>2
      <4> QED
        BY <2>1, <2>4, <3>2, <4>1, <4>2
    <3> QED
      BY <2>4, <3>1, <3>2
  <2> QED
    BY <2>1, <2>4, <2>5 DEF TextIInv, Grammatical, CommandKept
<1>2. ASSUME Build PROVE TextIInv'
  <2>1. Grammatical(text) /\ IsComplete(text) /\ text' = text /\ built' = {BuildExecCommand(text)}
    BY <1>2 DEF TextIInv, Build, Complete, IsComplete
  <2>2. KnownLoss(text) \/ Keeps(text, BuildExecCommand(text))
    BY <2>1, BuildKeeps
  <2>3. Grammatical(text')
    BY <2>1
  <2>4. CommandKept'
    BY <2>1, <2>2 DEF CommandKept
  <2> QED
    BY <2>3, <2>4 DEF TextIInv
<1>3. CASE UNCHANGED textVars
  BY <1>3 DEF TextIInv, CommandKept, textVars
<1> QED
  BY <1>1, <1>2, <1>3 DEF TextNext

(* A command of any length reaches the shell with its words, assignments,  *)
(* redirections and operators in their places, unless it is of the kinds   *)
(* that KnownLoss lists.                                                   *)
THEOREM CommandsReachShells == TextSpec => []CommandKept
<1>1. TextIInv => CommandKept
  BY DEF TextIInv
<1> QED
  BY <1>1, TextInitEstablishes, TextNextPreserves, PTL DEF TextSpec
=============================================================================
