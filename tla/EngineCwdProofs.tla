-------------------------- MODULE EngineCwdProofs ---------------------------
(* Theorems about EngineCwd, for any number of calls, ids and directories. *)
EXTENDS EngineCwd, TLAPS

-----------------------------------------------------------------------------
(* The inductive invariant.                                                *)

(* A cwd file lies under its writer's id, and the writer's directory no    *)
(* longer changes: what the file says is where the shell still is.  It     *)
(* says one thing, and nothing while its writer has not written.           *)
FileTells ==
    \A i \in CmdIds : \A content \in file[i] :
        /\ cmdId[content.by] = i
        /\ shell[content.by] \in {"recording", "gone"}
        /\ content.paths \subseteq {where[content.by]}
        /\ shell[content.by] = "recording" => content.paths = {}
        /\ file[i] = {content}

(* The calls that may still write or read the file of their id.            *)
Concerned(c) ==
    \/ stage[c] \in {"spawning", "running", "answered"}
    \/ shell[c] \in {"alive", "recording"}

(* Without a clash an id has one such call, and its file, if there is one, *)
(* is that call's.                                                         *)
IdsApart ==
    ~clash =>
        /\ \A c, d \in Calls : Concerned(c) /\ Concerned(d) /\ cmdId[c] = cmdId[d] => c = d
        /\ \A c \in Calls : Concerned(c) =>
              \A content \in file[cmdId[c]] : content.by = c

(* The shell that set the cwd had opened its file: it stays where it is,   *)
(* even if it was killed and outlives its result.                          *)
AuthorStays == ~clash /\ author \in Calls => shell[author] \in {"recording", "gone"}

IInv ==
    /\ TypeOK
    /\ FileTells
    /\ AuthorStays
    /\ IdsApart
    /\ NoFileLeft
    /\ CwdOfForeground
    /\ CwdFromItsShell

-----------------------------------------------------------------------------
(* A call that is concerned has drawn an id.                               *)
LEMMA ConcernedHasId ==
  ASSUME IInv, NEW c \in Calls, Concerned(c)
  PROVE  cmdId[c] \in CmdIds
  BY DEF IInv, TypeOK, Concerned, Unspawned

LEMMA InitEstablishes == Init => IInv
  BY PathsAssumption, IdsAssumption
     DEF Init, IInv, TypeOK, AuthorStays, FileTells, IdsApart, NoFileLeft,
         CwdOfForeground, CwdFromItsShell, Unspawned, Stages, Shells, Concerned

LEMMA NextPreserves == IInv /\ [Next]_vars => IInv'
<1> SUFFICES ASSUME IInv, [Next]_vars PROVE IInv'
  OBVIOUS
<1> USE PathsAssumption, IdsAssumption
    DEF IInv, TypeOK, AuthorStays, FileTells, IdsApart, NoFileLeft, CwdOfForeground,
        CwdFromItsShell, Unspawned, Stages, Shells, Concerned, callVars, shellVars
<1>1. ASSUME NEW c \in Calls, Exec(c) PROVE IInv'
  BY <1>1 DEF Exec
<1>2. ASSUME NEW c \in Calls, Prepare(c) PROVE IInv'
  <2>1. CASE Refuse(c)
    BY <1>2, <2>1 DEF Prepare, Refuse
  <2>2. ASSUME NEW d \in Paths, Start(c, d), cwd' \in Paths,
               \/ cwd' = cwd /\ author' = author
               \/ author' = Nobody
        PROVE  IInv'
    <3>1. PICK i \in CmdIds : DrawId(c, i)
      BY <2>2 DEF Start
    <3>2. /\ stage' = [stage EXCEPT ![c] = "spawning"]
          /\ shell' = [shell EXCEPT ![c] = "alive"]
          /\ where' = [where EXCEPT ![c] = d]
          /\ cmdId' = [cmdId EXCEPT ![c] = i]
          /\ clash' = (clash \/ InUse(i))
          /\ stage[c] = "resolving" /\ shell[c] = "none" /\ cmdId[c] = NoId
          /\ UNCHANGED <<prevent, dirs, inBack, file, late>>
      BY <1>2, <2>2, <3>1 DEF Prepare, Start, DrawId
    <3>3. TypeOK' /\ AuthorStays'
      BY <2>2, <3>2
    <3>4. FileTells'
      BY <3>2 DEF Contents
    <3>5. IdsApart'
      <4> SUFFICES ASSUME ~clash' PROVE IdsApart'
        OBVIOUS
      <4>1. file[i] = {} /\ \A e \in Calls : cmdId[e] = i => ~Concerned(e)
        BY <3>2 DEF InUse
      <4>2. \A e \in Calls : e # c => /\ Concerned(e)' <=> Concerned(e)
                                    /\ cmdId'[e] = cmdId[e]
        BY <3>2
      <4>3. cmdId'[c] = i
        BY <3>2
      <4>4. ASSUME NEW e \in Calls, NEW g \in Calls, Concerned(e)', Concerned(g)',
                   cmdId'[e] = cmdId'[g]
            PROVE  e = g
        BY <3>2, <4>1, <4>2, <4>3, <4>4
      <4>5. ASSUME NEW e \in Calls, Concerned(e)', NEW content \in file'[cmdId'[e]]
            PROVE  content.by = e
        <5>1. CASE e = c
          BY <3>2, <4>1, <4>3, <4>5, <5>1
        <5>2. CASE e # c
          BY <3>2, <4>2, <4>5, <5>2
        <5> QED
          BY <5>1, <5>2
      <4> QED
        BY <4>4, <4>5
    <3>6. NoFileLeft' /\ CwdOfForeground' /\ CwdFromItsShell'
      BY <2>2, <3>2 DEF Contents
    <3> QED
      BY <3>3, <3>4, <3>5, <3>6
  <2> QED
    BY <1>2, <2>1, <2>2 DEF Prepare
<1>3. ASSUME NEW c \in Calls, Attach(c) PROVE IInv'
  BY <1>3 DEF Attach
<1>4. ASSUME NEW c \in Calls, Answer(c) \/ AnswerKilled(c) PROVE IInv'
  <2>1. /\ stage[c] = "running" /\ stage' = [stage EXCEPT ![c] = "answered"]
        /\ UNCHANGED <<prevent, cwd, author, dirs, cmdId, inBack, shellVars, file, late, clash>>
    BY <1>4 DEF Answer, AnswerKilled
  <2>2. TypeOK' /\ FileTells' /\ AuthorStays'
    BY <2>1
  <2>3. IdsApart'
    BY <2>1
  <2>4. NoFileLeft' /\ CwdOfForeground' /\ CwdFromItsShell'
    BY <2>1
  <2> QED
    BY <2>2, <2>3, <2>4
<1>5. ASSUME NEW c \in Calls, OnDone(c) PROVE IInv'
  <2>1. /\ stage[c] = "answered" /\ cmdId[c] \in CmdIds
        /\ stage' = [stage EXCEPT ![c] = "done"]
        /\ \/ file' = [file EXCEPT ![cmdId[c]] = {}]
           \/ /\ file' = file
              /\ \E content \in file[cmdId[c]] : ~Decodes(content)
        /\ UNCHANGED <<prevent, dirs, cmdId, inBack, shellVars, late, clash>>
    BY <1>5 DEF OnDone
  <2>2. \/ cwd' = cwd /\ author' = author
        \/ \E content \in file[cmdId[c]] : c \notin prevent \cup inBack /\ SetCwdFrom(content)
    BY <1>5 DEF OnDone, MayChangeCwd
  <2>3. cwd' \in Paths /\ author' \in Calls \cup {Nobody}
    BY <2>1, <2>2 DEF SetCwdFrom, Contents
  <2>4. TypeOK'
    BY <2>1, <2>3
  <2>5. FileTells'
    BY <2>1
  <2>6. IdsApart' /\ NoFileLeft'
    <3>1. CASE file' = [file EXCEPT ![cmdId[c]] = {}]
      BY <2>1, <3>1 DEF Contents
    <3>2. ASSUME file' = file, NEW content \in file[cmdId[c]], ~Decodes(content)
          PROVE  IdsApart' /\ NoFileLeft'
      <4>1. IdsApart'
        BY <2>1, <3>2
      <4>2. ASSUME ~clash, NEW i \in CmdIds, NEW other \in file[i], Decodes(other)
            PROVE  stage'[other.by] # "done" \/ other.by \in late'
        <5>1. CASE i = cmdId[c]
          BY <2>1, <3>2, <4>2, <5>1
        <5>2. CASE i # cmdId[c]
          BY <2>1, <3>2, <4>2, <5>2 DEF Contents
        <5> QED
          BY <5>1, <5>2
      <4> QED
        BY <2>1, <3>2, <4>1, <4>2 DEF Decodes
    <3> QED
      BY <2>1, <3>1, <3>2
  <2>7. CwdOfForeground' /\ CwdFromItsShell' /\ AuthorStays'
    <3>1. CASE cwd' = cwd /\ author' = author
      BY <2>1, <3>1
    <3>2. ASSUME NEW content \in file[cmdId[c]], c \notin prevent \cup inBack,
                 SetCwdFrom(content), ~clash
          PROVE  CwdOfForeground' /\ CwdFromItsShell' /\ AuthorStays'
      <4>1. /\ content.by = c /\ content.paths \subseteq {where[c]}
            /\ shell[c] \in {"recording", "gone"}
        BY <2>1, <3>2
      <4>2. author' = c /\ cwd' \in {Nfc[where[c]], Nfc[ProcessCwd]}
        BY <3>2, <4>1 DEF SetCwdFrom
      <4> QED
        BY <2>1, <3>2, <4>2
    <3> QED
      BY <2>1, <2>2, <3>1, <3>2
  <2> QED
    BY <2>4, <2>5, <2>6, <2>7
<1>6. ASSUME NEW c \in Calls, NEW d \in Paths, ChangeDir(c, d) PROVE IInv'
  BY <1>6 DEF ChangeDir
<1>7. ASSUME NEW c \in Calls, OpenFile(c) PROVE IInv'
  <2>1. PICK new \in Contents :
          /\ new.by = c /\ new.paths = {}
          /\ file' = [file EXCEPT ![cmdId[c]] = {new}]
    <3> DEFINE fresh == [by |-> c, paths |-> {}]
    <3>1. fresh \in Contents /\ fresh.by = c /\ fresh.paths = {}
      BY DEF Contents
    <3>2. file' = [file EXCEPT ![cmdId[c]] = {fresh}]
      BY <1>7 DEF OpenFile
    <3> QED
      BY <3>1, <3>2
  <2>2. cmdId[c] \in CmdIds /\ Concerned(c) /\ file'[cmdId[c]] = {new}
    BY <1>7, <2>1 DEF OpenFile
  <2>3. TypeOK' /\ AuthorStays'
    BY <1>7, <2>1 DEF OpenFile
  <2>4. FileTells'
    BY <1>7, <2>1, <2>2 DEF OpenFile, Contents
  <2>5. IdsApart'
    BY <1>7, <2>1, <2>2 DEF OpenFile, Contents
  <2>6. NoFileLeft' /\ CwdOfForeground' /\ CwdFromItsShell'
    BY <1>7, <2>1, <2>2 DEF OpenFile, Contents
  <2> QED
    BY <2>3, <2>4, <2>5, <2>6
<1>8. ASSUME NEW c \in Calls, WriteFile(c) PROVE IInv'
  <2>1. CASE file[cmdId[c]] = {}
    <3>1. UNCHANGED file /\ cmdId[c] \in CmdIds /\ Concerned(c)
      BY <1>8, <2>1 DEF WriteFile
    <3>2. TypeOK' /\ AuthorStays' /\ IdsApart'
      BY <1>8, <3>1 DEF WriteFile
    <3>3. FileTells'
      BY <1>8, <2>1, <3>1 DEF WriteFile, Contents
    <3>4. NoFileLeft' /\ CwdOfForeground' /\ CwdFromItsShell'
      BY <1>8, <3>1 DEF WriteFile
    <3> QED
      BY <3>2, <3>3, <3>4
  <2>2. CASE file[cmdId[c]] # {}
    <3>1. PICK new \in Contents :
            /\ new.by = c /\ new.paths \subseteq {where[c]}
            /\ file' = [file EXCEPT ![cmdId[c]] = {new}]
      <4> DEFINE fresh == [by |-> c, paths |-> {where[c]} \cap dirs]
      <4>1. fresh \in Contents /\ fresh.by = c /\ fresh.paths \subseteq {where[c]}
        BY DEF Contents
      <4>2. file' = [file EXCEPT ![cmdId[c]] = {fresh}]
        BY <1>8, <2>2 DEF WriteFile
      <4> QED
        BY <4>1, <4>2
    <3>2. cmdId[c] \in CmdIds /\ Concerned(c) /\ file'[cmdId[c]] = {new}
      BY <1>8, <3>1 DEF WriteFile
    <3>3. ~clash /\ stage[c] = "done" => c \in late
      <4> SUFFICES ASSUME ~clash, stage[c] = "done" PROVE c \in late
        OBVIOUS
      <4>1. PICK old \in file[cmdId[c]] : old.by = c
        BY <2>2, <3>2
      <4>2. old.paths = {}
        BY <1>8, <3>2, <4>1 DEF WriteFile
      <4> QED
        BY <3>2, <4>1, <4>2 DEF Decodes
    <3>4. TypeOK' /\ AuthorStays'
      BY <1>8, <3>1 DEF WriteFile
    <3>5. FileTells'
      BY <1>8, <3>1, <3>2 DEF WriteFile, Contents
    <3>6. IdsApart'
      BY <1>8, <3>1, <3>2 DEF WriteFile, Contents
    <3>7. NoFileLeft' /\ CwdOfForeground' /\ CwdFromItsShell'
      BY <1>8, <3>1, <3>2, <3>3 DEF WriteFile, Contents
    <3> QED
      BY <3>4, <3>5, <3>6, <3>7
  <2> QED
    BY <2>1, <2>2
<1>9. ASSUME NEW c \in Calls, EndShell(c) PROVE IInv'
  BY <1>9 DEF EndShell
<1>10. ASSUME NEW c \in Calls, PutInBack(c) PROVE IInv'
  BY <1>10 DEF PutInBack
<1>11. ASSUME NEW c \in Calls, Abandon(c) PROVE IInv'
  BY <1>11 DEF Abandon
<1>12. ASSUME NEW p \in Paths, RemoveDir(p) PROVE IInv'
  BY <1>12 DEF RemoveDir
<1>13. ASSUME NEW p \in Paths, HostSetsCwd(p) PROVE IInv'
  BY <1>13 DEF HostSetsCwd
<1>14. ASSUME UNCHANGED vars PROVE IInv'
  BY <1>14 DEF vars
<1> QED
  BY <1>1, <1>2, <1>3, <1>4, <1>5, <1>6, <1>7, <1>8, <1>9, <1>10, <1>11, <1>12,
     <1>13, <1>14
     DEF Next, EngineStep, ShellStep, HostStep

-----------------------------------------------------------------------------
(* The invariant holds in every state of every run.                        *)
THEOREM Invariance == Spec => []IInv
  BY InitEstablishes, NextPreserves, PTL DEF Spec

(* Every variable keeps its kind, and a refused call has no shell.         *)
THEOREM TypeCorrect == Spec => []TypeOK
<1>1. IInv => TypeOK
  BY DEF IInv
<1> QED
  BY <1>1, Invariance, PTL

(* While ids do not clash, no background task, no command that was told to *)
(* leave the cwd alone, and none that is still running, sets the cwd.      *)
THEOREM CwdFollowsForeground == Spec => []CwdOfForeground
<1>1. IInv => CwdOfForeground
  BY DEF IInv
<1> QED
  BY <1>1, Invariance, PTL

(* ... and the cwd a command has set is where its own shell was last, or   *)
(* the cwd of the host's process.                                          *)
THEOREM CwdIsItsShells == Spec => []CwdFromItsShell
<1>1. IInv => CwdFromItsShell
  BY DEF IInv
<1> QED
  BY <1>1, Invariance, PTL

(* While ids do not clash, a command that is done has left no cwd file to  *)
(* read, except one that a killed shell opened afterwards.                 *)
THEOREM FilesAreRemoved == Spec => []NoFileLeft
<1>1. IInv => NoFileLeft
  BY DEF IInv
<1> QED
  BY <1>1, Invariance, PTL
=============================================================================
