----------------------------- MODULE EngineCwd ------------------------------
(***************************************************************************)
(* The commands of one EngineState and its working directory: exec() and   *)
(* _attach_cwd_tracking of engine/shell.py, with state/cwd_state.py.       *)
(*                                                                         *)
(* The string exec() gives the shell ends in "&& pwd -P >| <file>", where  *)
(* the file's name has 16 random bits; when the result is there, _on_done  *)
(* reads the file into the state's cwd, and unlinks it.  The commands run  *)
(* concurrently, and directories may vanish at any time.                   *)
(***************************************************************************)
CONSTANTS
    Calls,      \* calls of exec()
    CmdIds,     \* the 16-bit ids
    NoId,       \* a call that has drawn none yet
    Paths,      \* physical paths, of directories there are or are not
    Original,   \* EngineState.original_cwd
    ProcessCwd, \* os.getcwd() of the host's own process
    Nfc,        \* unicodedata.normalize("NFC", path)
    NonUtf8,    \* paths that are no UTF-8 text
    Nobody      \* the cwd was set by no command

ASSUME PathsAssumption == /\ Original \in Paths /\ ProcessCwd \in Paths
                          /\ Nfc \in [Paths -> Paths] /\ Nfc[Original] = Original
                          /\ NonUtf8 \subseteq Paths
ASSUME IdsAssumption == NoId \notin CmdIds /\ Nobody \notin Calls

VARIABLES
    prevent, \* the calls with prevent_cwd_changes
    cwd,     \* EngineState._cwd
    author,  \* history: the command whose file the cwd was read from
    dirs,    \* the directories that exist
    stage,   \* where each call stands, see Stages
    cmdId,   \* the id it has drawn
    inBack,  \* the calls whose command was put in the background
    shell,   \* its shell, see Shells
    where,   \* the shell's working directory, its last one when it is gone
    file,    \* the cwd file of each id: {} or {its content}
    late,    \* history: killed shells that opened their file after _on_done
    clash    \* history: an id was drawn that was in use

callVars == <<stage, cmdId, inBack>>
shellVars == <<shell, where>>
vars == <<prevent, cwd, author, dirs, callVars, shellVars, file, late, clash>>

(* refused: exec() gave a pre-resolved command; spawning: it awaits        *)
(* create_subprocess_exec; answered: the result is set, and _on_done is    *)
(* queued; abandoned: the result was cancelled.                            *)
Stages == {"idle", "resolving", "refused", "spawning", "running", "answered",
           "done", "abandoned"}

(* recording: it has opened, and so emptied, its cwd file.                 *)
Shells == {"none", "alive", "recording", "gone"}

(* A file's writer, and the one path in it, or none when it is empty.      *)
Contents == [by : Calls, paths : SUBSET Paths]

Init ==
    /\ prevent \in SUBSET Calls
    /\ cwd = Original /\ author = Nobody
    /\ dirs \in SUBSET Paths
    /\ stage = [c \in Calls |-> "idle"]
    /\ cmdId = [c \in Calls |-> NoId]
    /\ inBack = {}
    /\ shell = [c \in Calls |-> "none"]
    /\ where = [c \in Calls |-> Original]
    /\ file = [i \in CmdIds |-> {}]
    /\ late = {}
    /\ clash = FALSE

-----------------------------------------------------------------------------
(* exec().                                                                 *)

(* It awaits the provider first, and may wait for its snapshot there.      *)
Exec(c) ==
    /\ stage[c] = "idle"
    /\ stage' = [stage EXCEPT ![c] = "resolving"]
    /\ UNCHANGED <<prevent, cwd, author, dirs, cmdId, inBack, shellVars, file, late, clash>>

(* Its cwd file exists, or may still be written or read.                   *)
InUse(i) ==
    \/ file[i] # {}
    \/ \E c \in Calls : /\ cmdId[c] = i
                        /\ \/ stage[c] \in {"spawning", "running", "answered"}
                           \/ shell[c] \in {"alive", "recording"}

DrawId(c, i) == cmdId' = [cmdId EXCEPT ![c] = i] /\ clash' = (clash \/ InUse(i))

(* A fault: the abort is looked at when the shell already runs.            *)
RefuseAfterSpawn(c) ==
    /\ stage' = [stage EXCEPT ![c] = "refused"]
    /\ shell' = [shell EXCEPT ![c] = "alive"]
    /\ UNCHANGED <<cmdId, clash, where>>

(* The pre-resolved command for a directory that is gone, original_cwd     *)
(* too, and for an abort that came before the spawn, or a failing spawn.   *)
Refuse(c) ==
    /\ stage' = [stage EXCEPT ![c] = "refused"]
    /\ UNCHANGED <<cmdId, clash, shellVars>>

(* The shell is started, before exec() suspends in create_subprocess_exec. *)
Start(c, d) ==
    /\ stage' = [stage EXCEPT ![c] = "spawning"]
    /\ \E i \in CmdIds : DrawId(c, i)
    /\ shell' = [shell EXCEPT ![c] = "alive"]
    /\ where' = [where EXCEPT ![c] = d]

(* From the provider to the spawn: the cwd is replaced if it is gone.      *)
Prepare(c) ==
    /\ stage[c] = "resolving"
    /\ \/ cwd \in dirs /\ UNCHANGED <<cwd, author>> /\ (Refuse(c) \/ Start(c, cwd))
       \/ /\ cwd \notin dirs /\ Original \in dirs
          /\ cwd' = Original /\ author' = Nobody
          /\ Refuse(c) \/ Start(c, cwd')
       \/ cwd \notin dirs /\ Original \notin dirs /\ Refuse(c) /\ UNCHANGED <<cwd, author>>
    /\ UNCHANGED <<prevent, dirs, inBack, file, late>>

(* wrap_spawn, and _attach_cwd_tracking                                    *)
Attach(c) ==
    /\ stage[c] = "spawning"
    /\ stage' = [stage EXCEPT ![c] = "running"]
    /\ UNCHANGED <<prevent, cwd, author, dirs, cmdId, inBack, shellVars, file, late, clash>>

-----------------------------------------------------------------------------
(* The shells, and the world they run in.                                  *)

ChangeDir(c, d) ==
    /\ shell[c] = "alive" /\ d \in dirs
    /\ where' = [where EXCEPT ![c] = d]
    /\ UNCHANGED <<prevent, cwd, author, dirs, callVars, shell, file, late, clash>>

(* The command has succeeded: "pwd -P >| file" opens the file.             *)
OpenFile(c) ==
    /\ shell[c] = "alive"
    /\ shell' = [shell EXCEPT ![c] = "recording"]
    /\ file' = [file EXCEPT ![cmdId[c]] = {[by |-> c, paths |-> {}]}]
    /\ late' = late \cup {d \in {c} : stage[d] = "done"}
    /\ UNCHANGED <<prevent, cwd, author, dirs, callVars, where, clash>>

(* A fault: the directory is recorded before the command is executed.      *)
WriteFileEarly(c) ==
    /\ shell[c] = "recording"
    /\ shell' = [shell EXCEPT ![c] = "alive"]
    /\ file' = [file EXCEPT ![cmdId[c]] = {[by |-> c, paths |-> {where[c]} \cap dirs]}]
    /\ UNCHANGED <<prevent, cwd, author, dirs, callVars, where, late, clash>>

(* pwd writes, or fails because the shell's directory is gone; what it     *)
(* writes to a file that was unlinked meanwhile is lost.                   *)
WriteFile(c) ==
    /\ shell[c] = "recording"
    /\ shell' = [shell EXCEPT ![c] = "gone"]
    /\ \/ file[cmdId[c]] = {} /\ UNCHANGED file
       \/ /\ file[cmdId[c]] # {}
          /\ file' = [file EXCEPT ![cmdId[c]] = {[by |-> c, paths |-> {where[c]} \cap dirs]}]
    /\ UNCHANGED <<prevent, cwd, author, dirs, callVars, where, late, clash>>

(* The command fails, or is killed.                                        *)
EndShell(c) ==
    /\ shell[c] \in {"alive", "recording"}
    /\ shell' = [shell EXCEPT ![c] = "gone"]
    /\ UNCHANGED <<prevent, cwd, author, dirs, callVars, where, file, late, clash>>

RemoveDir(d) ==
    /\ d \in dirs
    /\ dirs' = dirs \ {d}
    /\ UNCHANGED <<prevent, cwd, author, callVars, shellVars, file, late, clash>>

-----------------------------------------------------------------------------
(* The command's result, and the host.                                     *)

PutInBack(c) ==
    /\ stage[c] = "running" /\ c \notin inBack
    /\ inBack' = inBack \cup {c}
    /\ UNCHANGED <<prevent, cwd, author, dirs, stage, cmdId, shellVars, file, late, clash>>

(* A command answers when its shell has ended.                             *)
Answer(c) ==
    /\ stage[c] = "running" /\ shell[c] = "gone"
    /\ stage' = [stage EXCEPT ![c] = "answered"]
    /\ UNCHANGED <<prevent, cwd, author, dirs, cmdId, inBack, shellVars, file, late, clash>>

(* _do_kill decides the code right after the signal: the shell may have    *)
(* any number of steps left before it dies of it.                          *)
AnswerKilled(c) ==
    /\ stage[c] = "running" /\ shell[c] # "gone"
    /\ stage' = [stage EXCEPT ![c] = "answered"]
    /\ UNCHANGED <<prevent, cwd, author, dirs, cmdId, inBack, shellVars, file, late, clash>>

(* The result is cancelled before it is set: _on_done returns at once.     *)
Abandon(c) ==
    /\ stage[c] = "running"
    /\ stage' = [stage EXCEPT ![c] = "abandoned"]
    /\ UNCHANGED <<prevent, cwd, author, dirs, cmdId, inBack, shellVars, file, late, clash>>

(* set_cwd of a file's content: pathlib resolves an empty one to the cwd   *)
(* of the host's process.                                                  *)
SetCwdFrom(content) ==
    /\ cwd' \in {Nfc[p] : p \in IF content.paths = {} THEN {ProcessCwd} ELSE content.paths}
    /\ author' = content.by

(* A fault: the state follows background tasks too.                        *)
MayChangeCwdInBack(c) == c \notin prevent

MayChangeCwd(c) == c \notin prevent \cup inBack

Decodes(content) == content.paths \cap NonUtf8 = {}

(* A fault: the file is unlinked only where it is read.                    *)
OnDoneUnlinksRead(c) ==
    /\ stage[c] = "answered"
    /\ stage' = [stage EXCEPT ![c] = "done"]
    /\ \/ /\ ~MayChangeCwd(c) \/ file[cmdId[c]] = {}
          /\ UNCHANGED <<cwd, author, file>>
       \/ /\ MayChangeCwd(c)
          /\ \E content \in file[cmdId[c]] : Decodes(content) /\ SetCwdFrom(content)
          /\ file' = [file EXCEPT ![cmdId[c]] = {}]
    /\ UNCHANGED <<prevent, dirs, cmdId, inBack, shellVars, late, clash>>

(* _on_done.  A decoding error ends it before the unlink.                  *)
OnDone(c) ==
    /\ stage[c] = "answered"
    /\ stage' = [stage EXCEPT ![c] = "done"]
    /\ \/ /\ ~MayChangeCwd(c) \/ file[cmdId[c]] = {}
          /\ file' = [file EXCEPT ![cmdId[c]] = {}]
          /\ UNCHANGED <<cwd, author>>
       \/ /\ MayChangeCwd(c)
          /\ \E content \in file[cmdId[c]] : Decodes(content) /\ SetCwdFrom(content)
          /\ file' = [file EXCEPT ![cmdId[c]] = {}]
       \/ /\ MayChangeCwd(c)
          /\ \E content \in file[cmdId[c]] : ~Decodes(content)
          /\ UNCHANGED <<cwd, author, file>>
    /\ UNCHANGED <<prevent, dirs, cmdId, inBack, shellVars, late, clash>>

(* The public set_cwd.                                                     *)
HostSetsCwd(p) ==
    /\ cwd' = Nfc[p] /\ author' = Nobody
    /\ UNCHANGED <<prevent, dirs, callVars, shellVars, file, late, clash>>

-----------------------------------------------------------------------------
EngineStep(c) == Exec(c) \/ Prepare(c) \/ Attach(c) \/ Answer(c) \/ AnswerKilled(c) \/ OnDone(c)

ShellStep(c) ==
    \/ \E d \in Paths : ChangeDir(c, d)
    \/ OpenFile(c)
    \/ WriteFile(c)
    \/ EndShell(c)

HostStep(c) == PutInBack(c) \/ Abandon(c)

Next ==
    \/ \E c \in Calls : EngineStep(c) \/ ShellStep(c) \/ HostStep(c)
    \/ \E p \in Paths : RemoveDir(p) \/ HostSetsCwd(p)

Spec == Init /\ [][Next]_vars

-----------------------------------------------------------------------------
Unspawned == {"idle", "resolving", "refused"}

(* Every variable keeps its kind; a call has an id and a shell exactly if  *)
(* it got past the spawn, and a refused one never has.                     *)
TypeOK ==
    /\ prevent \in SUBSET Calls
    /\ cwd \in Paths
    /\ author \in Calls \cup {Nobody}
    /\ dirs \in SUBSET Paths
    /\ stage \in [Calls -> Stages]
    /\ cmdId \in [Calls -> CmdIds \cup {NoId}]
    /\ inBack \in SUBSET Calls
    /\ shell \in [Calls -> Shells]
    /\ where \in [Calls -> Paths]
    /\ file \in [CmdIds -> SUBSET Contents]
    /\ late \in SUBSET Calls
    /\ clash \in BOOLEAN
    /\ \A c \in Calls : stage[c] \in Unspawned <=> cmdId[c] = NoId
    /\ \A c \in Calls : stage[c] \in Unspawned <=> shell[c] = "none"

(* While no two outstanding commands have drawn the same id, the cwd only  *)
(* follows commands that ran to their end in the foreground and that were  *)
(* not told to leave it alone, however many others come and go.            *)
CwdOfForeground ==
    ~clash /\ author \in Calls => author \notin prevent \cup inBack /\ stage[author] = "done"

(* ... and it is where that command's shell was last, in NFC form, or,     *)
(* when the shell could not tell, the cwd of the host's own process.       *)
CwdFromItsShell ==
    ~clash /\ author \in Calls => cwd \in {Nfc[where[author]], Nfc[ProcessCwd]}

(* A command whose result has been handled leaves no cwd file behind, in   *)
(* the background or not, killed or not, for a later command to draw its   *)
(* id and read it.  The exceptions are a path that is no text, with no one *)
(* to read it, and a file that a killed shell opens when its result has    *)
(* been handled already.                                                   *)
NoFileLeft ==
    ~clash => \A i \in CmdIds : \A content \in file[i] :
                  Decodes(content) => stage[content.by] # "done" \/ content.by \in late

-----------------------------------------------------------------------------
(* README.md:64, "cwd is tracked across calls (via `pwd -P`), without      *)
(* touching the process cwd": the cwd a command set is its shell's last.   *)
CwdTracked == author \in Calls => cwd = where[author]
=============================================================================
