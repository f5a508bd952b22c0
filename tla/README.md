# A TLA+ model of claude_bash

`claude_bash` (repository `anyshell`, code under `src/src/claude_bash/`) runs
shell commands for a host program, an agent, that wants their output, their
exit code, a timeout, a way to abort them, and the option of leaving them to
run in the background. It is one Python package, driven by one asyncio event
loop. This directory holds TLA+ modules translated from that code, the TLC
configurations that check them on small instances, and TLAPS proofs for all
instances.

Paths below are relative to `src/src/claude_bash/` unless they start with
another directory.

## 1. The system

| part | code | state it keeps | operations |
|---|---|---|---|
| `ShellCommandImpl` | `engine/command.py` | status, background id, exit-code future, result future, timer, abort watcher, size watchdog, wait task, reader tasks | `kill`, `background`, `cleanup`, `set_on_timeout`, and the callbacks `_wait_for_exit`, `_handle_timeout`, `_watch_abort`, `_handle_exit`, `_size_watchdog_loop`, `_read_stream` |
| `TaskOutput` | `output/task_output.py` | pipe-mode buffers, recent lines, disk queue, redundancy and size of the output file | `write_stdout/stderr`, spill, `get_stdout`, `flush`, `delete_output_file`, `clear` |
| shared poller | `TaskOutput` class attributes | registry, active set, the one poll task | `start_polling`, `stop_polling`, `_poll_loop`, `_poll_once` |
| `DiskTaskOutput` | `output/disk_output.py` | queue, bytes counted, cap flag, drain task, flush event | `append`, `flush`, `cancel`, `_drain` |
| file readers | `output/disk_output.py`, `util/fs.py` | none | delta, tail and range reads, removal of an output file |
| `EngineState` | `state/cwd_state.py` | cwd, original cwd, session variables | `set_cwd` |
| `AbortContext` | `state/cwd_state.py` | event, reason | `abort`, `wait` |
| `exec` | `engine/shell.py` | none of its own | resolves a provider, recovers a deleted cwd, honours an early abort, spawns, attaches cwd tracking |
| `BashTool.run` | `tool/bash_tool.py` | `background_shell_id`, progress event | two-phase wait, explicit and timeout-driven backgrounding |
| snapshot cache | `providers/snapshot.py`, `providers/bash_provider.py` | one cached task per shell | create, await, reuse |
| text functions | `quoting/`, `_shellquote.py`, `tool/tool_result.py`, `tool/command_semantics.py`, `tool/output_limits.py`, `util/` | none | quoting, pipe rearrangement, result text, clamps |
| accumulators | `output/circular_buffer.py`, `util/stringutils.py` | bounded buffers | `add`, `get_recent`, ... |
| shell discovery, PowerShell | `engine/shell.py`, `providers/powershell_*.py` | memoized path | lookups |

How they interact. The host (or `BashTool.run`, which is the host's usual front
end) calls `exec`, gets a `ShellCommand`, awaits its `result` future and may call
its methods at any time. All of the package's code runs on the event loop, so a
piece of code without an `await` is atomic. What happens beside it:

- the child process, which writes, ends, or is ended by a signal;
- the kernel and asyncio's child watcher, which turn a death into a return code;
- worker threads (`asyncio.to_thread`) that read, stat, write and unlink files;
- the host, which can also cancel a future it awaits, and delete an output file.

The parts share state directly: the exit handler reads fields that `background`,
`kill` and the watchdog assign; the abort watcher reads a reason that the next
`abort()` overwrites; every command of an `EngineState` assigns one cwd; all
commands of a process share one poll task.

What is hard to test is the order in which all of this comes: an exit against a
kill, a timeout against a background request, a watchdog's stat against both, an
append against the end of a drain, output that grows while it is being read.
`PROJECT.json` lists these hazards at the lines where they bite, each with the
properties that cover it; where they exempt a part of it, or none covers it, a note
says so and why.

What makes each part correct:

| part | correctness |
|---|---|
| `ShellCommandImpl` | one exit code and one result, whoever decides first; a kill never reads as success; nothing that could kill is alive after the exit; an accepted background request is reported; results arrive; timeouts and the size limit take effect |
| output file of a command | deleted only if nothing in it is lost and nobody was pointed to it |
| `DiskTaskOutput` | accepted chunks reach the file once and in order, except those of a write that goes wrong; no append is forgotten by a drain that is just ending; `flush` returns, when nothing appended before it is under way any more |
| `EngineState`, cwd tracking | the cwd is where the shell that set it was; a command in the background, or told not to change it, does not; no cwd file is left for another command to read |
| `BashTool.run` | it returns; it never leaves a command in the foreground that nothing will end; what it reports (in the background, or with this result) is true of the command |
| pipe mode's output | what the readers store is kept, in order, through the move to the disk; a result shows it or points to where it is |
| poller | one poll task at most goes on, for as long as some command wants it; a stopped command is left alone |
| snapshot cache | no failure of the snapshot fails a command; no shell sources one whose script has not ended well; concurrent callers share one creation |
| `exec` | a call that ends early, or is cancelled, leaves no shell without an owner |
| command text | what is quoted, rearranged and evaluated again is the command that was given, and its standard input its own |
| readers of output | no character is lost or repeated, and only one that a read cuts is replaced |
| recent lines | the callback sees the last lines, in order |
| tool result | an error exactly if the command failed or was interrupted; it names what the host needs to know |

## 2. The modules

| module | what it is |
|---|---|
| `CommandOutcome` | abstract specification: what a host may expect of a command |
| `ShellCommand` | `ShellCommandImpl`, with `AbortContext` and the parts of `TaskOutput` the exit path uses |
| `MCShellCommand` | symmetry of ids, for TLC |
| `ShellCommandProofs` | theorems about `ShellCommand` |
| `OutputLog` | abstract specification: an append-only file |
| `DiskOutput` | `DiskTaskOutput` |
| `DiskOutputProofs` | theorems about `DiskOutput` |
| `BashToolRun` | one call of `BashTool.run`, composed with `CommandOutcome` |
| `MCBashToolRun`, `BashToolRunProofs` | `BashToolRun` followed by `ToolResult` for TLC, theorems about both |
| `EngineCwd` | several calls of `exec` that share one `EngineState`, and their cwd files |
| `MCEngineCwd`, `EngineCwdProofs` | instance for TLC, theorems |
| `PipeOutput` | `TaskOutput` in pipe mode with its readers, composed with `CommandOutcome` and `OutputLog` |
| `MCPipeOutput`, `PipeOutputProofs` | the sum of `PipeOutput`, `RecentLines` and `OutputReader` for TLC, theorems |
| `OutputPoller` | the poll task all commands share |
| `OutputPollerProofs` | theorems about `OutputPoller` |
| `MCDiskOutput` | the sum of `DiskOutput` and `OutputPoller`, for TLC |
| `ExecStart` | concurrent and cancelled calls of `exec`, and the snapshot they share |
| `ExecStartProofs` | theorems about `ExecStart` and `CommandText` |
| `CommandText` | quoting and rearrangement of a command, against how bash reads it |
| `MCExecStart` | the sum of `ExecStart` and `CommandText`, for TLC |
| `RecentWindow` | abstract specification: the last of all recorded lines |
| `RecentLines` | the ring of recent lines and how chunks fill it |
| `OutputReader` | output read piece by piece while it is written |
| `OutputTextProofs` | theorems about `RecentLines` and `OutputReader` |
| `ToolResult` | from a command's result to the model's `tool_result` |

Definitions introduced by "A fault:" or "Faults:" are plausible wrong versions of
the operator that follows them. They are not part of a specification; they are
put in its place to see that the properties notice.

### 2.1 ShellCommand

One command, from the end of `__init__` on. The granularity is that of asyncio: a
callback, or a task from one suspension to the next, is one action.

| variable | code |
|---|---|
| `cmd` | constructor arguments that never change: file or pipe mode, `should_auto_background`; and two facts about the child: `killable` (the kernel lets us signal it), `lingers` (a descendant outlives it with its output open) |
| `status`, `taskId`, `killedForSize`, `callback` | `_status`, `_background_task_id`, `_killed_for_size`, `_on_timeout_callback is not None` |
| `exitCode`, `result` | the two futures, as the set of their value |
| `handler` | how far the `_handle_exit` task is: `queued` (created), `reading` (awaits the read), `read` (the thread has answered), `done` |
| `timer`, `abortWatch`, `watchdog` | `_timeout_handle`, `_abort_task`, `_watchdog_task`: what each still may do |
| `reason`, `demanded` | `AbortContext._reason`, and the history of reasons it was given |
| `abandoned`, `cleaned` | the caller that awaited `result` was cancelled; `cleanup()` was called |
| `proc`, `rc` | the child: `alive`, `dying` (SIGKILL sent), `exited`, `reaped` (`process.returncode` is set) |
| `size`, `file`, `seen`, `redundant` | bytes in the output file, what became of it, bytes `get_stdout` returned, `_output_file_redundant` |
| `spilled` | pipe mode: `TaskOutput._disk` exists |

| action | code |
|---|---|
| `ChildWrite`, `ChildExit`, `ChildDies`, `Reap` | the child, the kernel, the child watcher (external) |
| `Overflow` | a pipe reader's `write_stdout` that exceeds the memory limit |
| `Abort` | `AbortContext.abort` |
| `RemoveFile`, `AbandonResult` | `cleanup_task_output`; cancellation of the awaited future |
| `SetOnTimeout`, `Background`, `Kill`, `Cleanup` | the methods of these names |
| `WaitForExit` | `_wait_for_exit` after `process.wait()` |
| `HandleTimeout` | `_handle_timeout` |
| `WatchAbort` | `_watch_abort` after its wait |
| `BeginExit`, `ReadOutput`, `FinishExit` | `_handle_exit` up to its await, the worker thread, the rest. In pipe mode `get_stdout` does not suspend, and `BeginExit` is all of it |
| `DeleteOutput` | `delete_output_file` |
| `WatchdogWake`, `WatchdogStat`, `WatchdogKill` | `_size_watchdog_loop`: after the sleep, the thread's stat, after the stat |

`TreeKill` and `TreeKillDenied` are the two ways `_tree_kill` may end: it returns,
or it raises `PermissionError` (the second `os.kill` has the same permissions as
the `killpg` before it, and only `ProcessLookupError` is suppressed there). In the
second case `_do_kill` has set the status and goes no further.

A host that gets `background` through the timeout callback may call it at once or
later; both are a `Background` step after `HandleTimeout`. A call of
`background` that returns False changes nothing and is not an action.

Left out: the Windows branch of `_tree_kill`; `except Exception` around
`process.wait()`, which asyncio gives no occasion for; the texts of stdout and
stderr (a result carries how many bytes are inline, whether the stdout is the
notice of a spilled pipe, and which stderr prefix was added); `interrupted`, which
is the exit code compared with 137 and so also true of a child that ends with 137
by itself; the pipe readers' buffers and what `clear()` does to them, which are
`PipeOutput`.

### 2.2 DiskOutput

One `DiskTaskOutput`. A chunk is its number of acceptance; `bytes` counts lengths
for the cap (the code adds the length of the chunk before it compares, and queues a
notice instead of the chunk that exceeds it: the notice is that chunk's number).

| variable | code |
|---|---|
| `queue`, `bytes`, `capped` | `_queue`, `_bytes_written`, `_capped` |
| `batch` | the local variable of `_drain_all_chunks` |
| `drain`, `attempt` | the drain task: where it is suspended, and whether it is in the `try` or in the retry of `_drain` |
| `flushed`, `flusher` | `_flush_event`, and a caller awaiting it |
| `disk` | the file |
| `accepted`, `target`, `faults` | history: chunks accepted so far, and before the call of `flush`; file operations that went wrong |
| `dropped`, `abandoned` | history: the chunks of a write that went wrong or of `cancel()`; the chunks a drain has left queued when both its attempts had failed |

`AppendChunk`, `Cancel` and `Flush` are the methods. `Start` is `makedirs`,
`OpenFile`, `WriteAll`, `WriteShort`, `WriteFails`, `CloseFile` and
`CloseAfterError` are the worker-thread calls with the code up to the next one.
Any of them may fail, and a write may be short (the return value of `os.write` is
not looked at). `Recover` is `_drain`'s `except`: one more attempt if the queue is
not empty; `EndDrain` its `finally`.

### 2.3 BashToolRun

One call of `BashTool.run`. The command it runs is not `ShellCommand` again but what
`ShellCommand` implements: every step of it is an action of `CommandOutcome`
(`INSTANCE`), which is sound because `ShellCommandProofs` proves that refinement.
Two things `run` depends on are added: the timer, which calls `run` back, and
`ended`, the first piece of the exit path, after which no timer is left.

| variable | code |
|---|---|
| `request` | `run_in_background`, `should_auto_bg`, whether the host gave a hook, and whether `exec` got a process or returned a pre-resolved command |
| `status`, `taskId`, `outcome` | the command, as `CommandOutcome` has it |
| `ended`, `timer` | `_handle_exit` has begun; `_timeout_handle` |
| `run` | where `run` is suspended: `minting` (the hook), `phase1`, `expired` (`wait_for` has timed out, `run` has not resumed), `phase2`; or how it ended |
| `go`, `backgroundShellId` | the coroutine `_go` the timer started; `background_shell_id` |
| `event`, `polling` | `progress_event`; this command is in the poller's active set |
| `answer` | the `RunResult`: whether it presents the command's result, and the id it names |

| action | code |
|---|---|
| `CommandKilled`, `CommandEnds`, `CommandAnswers` | `kill` or the abort watcher; the two pieces of `_handle_exit` |
| `TimerFires` | `_handle_timeout`, with `_timeout_cb` if it was set |
| `GoMinted`, `GoFails` | `_go` after the hook, or its exception |
| `CallExplicit`, `Minted`, `MintingFails` | lines 136-140 |
| `CallForeground`, `Phase1Result`, `ThresholdPasses`, `EnterPhase2` | lines 142-170: the shielded wait, the timeout, the check of `background_shell_id` |
| `Progress`, `Wake` | `_progress_cb`; one round of the loop from `asyncio.wait` on |
| `CancelRun` | the host cancels the task that awaits `run` |

`exec` and `run` up to its first suspension are one step: the command's callbacks
are not run in between. `wait_for` has two ends that differ by version and timing
(a result that comes in the same turn as the timeout may be returned or not), and
both are possible after `ThresholdPasses`.

Left out: what becomes of the result, which is `ToolResult`; a hook that calls `background` itself (it is given the command,
and may: it could then make `run`'s own call fail); cancellation while `exec`
spawns.

### 2.4 EngineCwd

Calls of `exec` that share an `EngineState`. The command is reduced to what cwd
tracking sees of it: its shell, whether it was backgrounded, and when its result
comes.

| variable | code |
|---|---|
| `prevent`, `inBack` | calls with `prevent_cwd_changes`; calls whose result has a `background_task_id` |
| `cwd`, `author` | `EngineState._cwd`; history: which command it came from |
| `dirs` | the directories that exist |
| `stage`, `cmdId` | where each call stands; its 16-bit `cmd_id` |
| `shell`, `where` | its shell, and that shell's working directory |
| `file` | the cwd file of each id: who wrote it and the path in it, or none |
| `late` | history: killed shells that opened their cwd file when the result had been handled |
| `clash` | history: an id was drawn that was in use |

`Exec` is `exec` up to the provider, `Prepare` from there to the spawn: it replaces a
cwd that is gone by the original one, then either refuses (`Refuse`: both gone, abort,
failed spawn) or starts the shell (`Start`). `Attach` is the rest. `OpenFile` and
`WriteFile` are the two halves of `pwd -P >| file`, of which the first empties the file; what
is written to a file that was unlinked in between is lost. `Answer` is a result that comes
after the shell has ended, `AnswerKilled` one that `_do_kill` brings about: it decides the code
right after the signal, and the shell may have steps left until it dies of it.
`OnDone` is `_on_done`; `HostSetsCwd` the public `set_cwd`; `Abandon` a cancelled
result, for which `_on_done` returns at once. The shell's `cd`, its end at any point
and the removal of directories are external. Files in the temporary directory
that other programs remove are not modelled.

`Nfc` stands for `unicodedata.normalize`, `NonUtf8` for the directories whose name
is no UTF-8 text. `_normalize` also resolves symbolic links; `pwd -P` gives physical
paths, so on those it is the normalization alone, except on the empty string, which
`pathlib` resolves to the cwd of the host's process. `strip()`, which loses spaces at
the end of a directory's name, is the same kind of function as `Nfc` and is not
given a constant of its own.

Left out: session variables and Windows paths; the output file's descriptor, the
cancellation of `exec` itself and the snapshot it waits for, which are `ExecStart`.

### 2.5 PipeOutput

A command whose caller gave `on_stdout`. Two things are taken as what they are proved to
implement: the command is `CommandOutcome`, the write queue `OutputLog`, each an
`INSTANCE` whose actions are conjuncts of the actions here.

| variable | code |
|---|---|
| `status`, `taskId`, `outcome` | the command, as `CommandOutcome` has it |
| `decided` | the exit code is decided, so that `_handle_exit` is queued or over |
| `child`, `written` | the process, and the chunks it wrote to each pipe |
| `reader`, `taken` | the two `_read_stream` tasks, and the chunks each stored |
| `buffer`, `spilled` | `_stdout_buffer`, `_stderr_buffer`; `_disk is not None` |
| `pending`, `disk`, `faulty` | the queue, the file, and whether chunks were lost (`OutputLog`) |
| `cleared`, `result` | history: `clear()` was called; what the result says of the output |

| action | code |
|---|---|
| `ReadChunk`, `ProgressRaises`, `ReaderEnds` | one turn of `_read_stream`: `write_stdout` or `write_stderr` and the host's callback, which may raise; the end of the stream |
| `DrainWrites` | a write of the drain task: all of what is pending, a part of it, or a failure |
| `Kill`, `Background`, `Cleanup` | the methods; a `PermissionError` leaves `kill` without a code; `background` spills, `cleanup` cancels the readers and calls `clear()` |
| `WaitForExit` | `_wait_for_exit` after `process.wait()` |
| `HandleExit` | `_handle_exit`, which in pipe mode does not suspend |
| `ChildWrites`, `ChildExits` | external |

`WaitForExit` comes after both readers: in CPython 3.11 `process.wait()` returns when the
pipes are closed, and a reader has then been fed the end of its stream. A chunk that
still was in a reader's hands at that point would make results of commands that run to
their end incomplete; the readers' tasks are woken before the waiter, which is how
the model orders them.

Left out: the cap of the disk queue (`DiskOutput` has it); the recent lines
(`RecentLines`); an `on_stdout` that calls `cleanup()` itself; multi-byte characters cut by
the end of a chunk (`OutputReader`); descendants that hold a pipe open (`ShellCommand` has `lingers`).

### 2.6 OutputPoller

The class attributes of `TaskOutput` and the poll tasks, of which more than one may exist
while a cancelled one is ending.

| variable | code |
|---|---|
| `cleared` | outputs after `clear()`: no `_on_progress`, not in `_registry` |
| `active`, `pollTask` | `_active_polling`, `_poll_task` |
| `stage` | where each poll task is suspended: not yet run, in `asyncio.sleep`, awaiting the thread of `tail_file`, or ended, normally or by an exception |
| `cancelled` | `cancel()` was called and the task has not been resumed |
| `round`, `current` | the rest of the list it goes through; the output it reads |
| `late` | history: calls of `on_progress` since the output was stopped or cleared |

`StartPolling`, `StopPolling` and `Clear` are the methods, called for any output at any
time. `FirstStep`, `Wakes`, `Reports`, `Skips` and `Fails` are a poll task from one
suspension to the next: `_poll_once` looks at the callback again after its read, so it
either reports or skips; an error of the read or of the callback leaves `_poll_loop`
altogether. `CancelTakes` is the resumption with `CancelledError`.

Left out: what `_poll_once` computes from the text; the order of the active outputs (the
list is a set, in any order). The outputs exist from the start: construction
only adds to the registry.

### 2.7 ExecStart

Several calls of `exec` with one shell path, each from its start to the end of its
command, and the one task that creates the snapshot.

| variable | code |
|---|---|
| `request` | the options that matter: `on_stdout`, `on_progress`, `skip_snapshot` |
| `stage`, `asked` | where each call is suspended or how it ended; whether its task was cancelled |
| `startup`, `shell` | whether the shell sources the snapshot or is a login shell; the process |
| `fds`, `files`, `registry` | `output_fd`, the output file, `TaskOutput._registry` |
| `cache` | `_snapshot_cache[bin_shell]`: a task that runs, was told to cancel, or has ended |
| `creation`, `snapshot` | the thread with `subprocess.run`; the file |

`ExecSkipping`, `ExecAwaiting` and `ExecWithTaskDone` are the three ways through
`create_bash_shell_provider`; awaiting a task that is done does not suspend. `Proceed` is
all of `exec` from there to the spawn, which has no other suspension: it ends early
(`RefuseEarly`, `FailToOpen`, `FailToSpawn`) or has started the shell and awaits
asyncio's transport (`Spawn`). `Attach` is the rest of `exec`. `StartCreation`, `CreationEnds`
and `CreationCancelled` are `create_and_save_snapshot` up to, after and instead of its
await. Its thread is `ScriptWrites`, which makes the file, and `ScriptSucceeds` and
`ScriptFails` (also by timeout), for how the script ends. What is in the file is left out: the
script has no `set -e`, and its exit code is that of a test that the file exists, so code 0 says
nothing of the writes before it, and no property here speaks of them.

Cancellation is asyncio's: `CancelAwaiting` cancels what the call awaits, which is the task
everybody awaits, for it is not shielded. The task's end by `CancelledError` is no
`Exception` and stays in the cache. The thread is not stopped. `CancelSpawning` makes the
transport kill the shell and wait for it (`Reaped`, which a second cancellation may
bring about before the shell is dead).

Left out: the environment; the directory and abort checks are one refusal (`EngineCwd` has
the former); the command after `exec` returned it (`ShellCommand`).

### 2.8 CommandText

What `build_exec_command` hands to `eval`, for commands given as sequences of lexemes as
bash reads them. Each lexeme is a sample of its kind (`CommandText.tla` lists them): words of
sixteen kinds, six redirections, five separators, and the digit of `2>`. `Tokens` is the
lexer of `_shellquote.py`: it stands for 126 lines of scanner, of which the model keeps what
they make of each kind of lexeme (`Lexed`). `Turn` is one turn of the loop of
`_build_command_parts`, with its index and its `seen_non_env_var`. `QuoteOne`, `Requoted`,
`IsFdRedirection`, `BuildCommandParts`, `RearrangePipeCommand`, `QuoteShellCommand`, `AddStdinRedirect` and
`BuildExecCommand` are the functions of these names. The reference is `Meaning`: where
an assignment is one and a `!` negates. Like bash, it takes `B=2` in `A=1 > f B=2 env` for an
assignment: redirections may stand among them.

`KnownLoss` lists what is not kept. That list and the model were compared with the real
program: three thousand random commands of these lexemes were run by bash, once directly
and once as the package rewrites them, and the outcomes differed where the model says so
(and in the order of the output of commands with `&`, which is not determined). The proof
of `CommandKept` found one more loss, of assignments behind redirections; of three
thousand commands made of pipes, lists, assignments and redirections, no outcome differed
among those that the list does not name.

Left out: `rewrite_windows_null_redirect`; commands for which `has_malformed_tokens` or
`has_shell_quote_single_quote_bug` bails out; continuation lines; comments;
`parse` with an environment; `((`, `[[` and bit shifts.

### 2.9 RecentLines, OutputReader, ToolResult

`RecentLines`: a chunk is the sequence of segments its newlines divide it into. `Extracted` is the
backward search of `_update_progress` with its two limits, `Add` and `GetRecent` are
`CircularBuffer`'s, `ClearLines` what `TaskOutput.clear()` does to it. `Due` is an independent
definition of which lines are to be recorded. The code never records what stands before a
chunk's first newline: a line that comes in two chunks appears without its beginning,
a chunk that is one line with its newline gives no line at all, and the unfinished
line at the end of a chunk counts as one. The model does the same.

`OutputReader`: a text is the widths of its characters. Reads take bytes, and each read is decoded
by itself with `errors="replace"`: a character's beginning becomes one U+FFFD, each byte of
its rest one more. `ReadDelta`, `ReadTail` and `ReadPipe` are `get_task_output_delta`,
`get_task_output` and `_read_stream`. `cuts` remembers where reads ended.

`ToolResult`: `Stat`, `Truncate` and `BuildToolResult` are `_build_run_result` up to, during and after
its thread. `SemanticError` is `interpret_command_result` on the classes of codes (0, 1,
others), with `lenient` for the commands for which 1 is an answer. `ErrorPath` and
`DataPath` are the two halves of `build_tool_result`, by the facts the content gives. Beside its
steps, somebody may remove the file (`RemoveFile`), abort (`AbortLate`), or write to the file
(`GrowFile`: descendants of the command, or a child that is still dying, have it open), before the
`stat`, after it, between the truncation and the result, and afterwards. `written` is
history: of writes since the file was measured or cut.

### 2.10 The composing modules

`MCDiskOutput`, `MCPipeOutput` and `MCExecStart` are sums: the parts share no state, and in a behaviour only
one of them moves, the others staying in their initial states. An interleaving of them would
show nothing more. No fair action of a part is enabled in that part's initial state, so a
part that rests violates no fairness. `MCBashToolRun` is sequential: `ToolResult` begins
when `run` has a result to present, and that result's id is the command's. Its `interrupted` is free:
the code 137 that it stands for may also be that of a child that ended by itself.

## 3. What is checked

| run | module, cfg | question |
|---|---|---|
| `command_safety` | `MCShellCommand`, `MCShellCommand.cfg` | does one command keep its promises in every order of events, and implement `CommandOutcome`? |
| `command_liveness` | `MCShellCommand`, `LiveShellCommand.cfg` | do results arrive, do timeouts and limits take effect? |
| `queue_and_poller` | `MCDiskOutput`, `MCDiskOutput.cfg` | does the write queue lose, repeat, reorder or forget anything, and is it an `OutputLog`? does one poll task serve all commands, and only those that want it? |
| `tool_run` | `MCBashToolRun`, `MCBashToolRun.cfg` | does `run` return, is its command never left unattended, and does the `tool_result` say what happened? |
| `engine_cwd` | `MCEngineCwd`, `MCEngineCwd.cfg` | who sets the cwd, to what, and which cwd files stay behind? |
| `pipe_output` | `MCPipeOutput`, `MCPipeOutput.cfg` | is the output in pipe mode kept, and is what the result says of it true? are the recent lines the last ones, and are characters read once? |
| `exec_start` | `MCExecStart`, `MCExecStart.cfg` | what do failures and cancellations in one call of `exec` do to the others, and does the command reach its shell as it was? |
| `background_message` | `BashToolRun`, `BackgroundMessage.cfg` | a statement of the repository that the code does not keep (section 5), of `run` |
| `cwd_tracked` | `MCEngineCwd`, `CwdTracked.cfg` | another, of the cwd |
| `snapshot_poisoned` | `ExecStart`, `SnapshotPoisoned.cfg` | another, of the snapshot |
| `abort_again` | `ShellCommand`, `AbortAgain.cfg` | another, of one command |
| `command_text` | `CommandText`, `CommandText.cfg` | another, of quoting |

Safety of a command (`ShellCommand`):

- `CompletedMeansExited`: a command that reads "completed" was reaped and has its own
  exit code. A kill, timeout or watchdog that wins the race is never read as success.
- `NoListenerAfterExit`: once the exit is being handled, no timer, abort watcher
  or watchdog is left to kill (or to be leaked).
- `AckedBackgroundReported`: `background()` that returned True shows in the result, and
  a pipe-mode command then has its output on disk.
- `OutputAccounted`: a deleted output file held nothing the result does not have.
  `size` grows until the child ends, and the read is later than the exit of a
  command that completes; it is the kill paths, where the child may still write
  during the read, that the status excludes, and descendants (`lingers`), whose later
  output is lost with the file.
- `NamedFileKept`: the engine deletes no file the host has been pointed to.
- `ImplementsOutcome`: refinement of `CommandOutcome`: backgrounded at most once
  and only while running, killed for good, answered at most once, with the right id.
- `TypeOK` includes that no future is resolved twice, which asyncio would
  answer with `InvalidStateError`.

Liveness of a command: `ExitDelivers`, `KillDelivers`, `KilledChildReaped`,
`TimeoutBounds`, `OversizeKilled`, `AbortKills`; the comments in the module give the exact conditions.

Safety and liveness of the queue (`DiskOutput`), none of them assuming that nothing goes wrong:

- `NothingLost`: every accepted chunk is either dropped, by `cancel()` or in a write that went
  wrong, or it is in the file or on its way there, once and in order.
- `NoLostWakeup`: a queue with no drain under way has only chunks whose own drain has failed twice.
- `FlushedIsSettled`: when `flush()` returns, every chunk appended before the call is in the file, or
  was dropped, or was left queued by a drain that failed twice. More is not true: `flush()` does
  not tell its caller of a failed or short write, whose chunks are gone.
- `ImplementsLog` (refinement of `OutputLog`), `FlushReturns`, and `QueueDrains`: each queued chunk is
  settled in the end.

A call of `run` (`BashToolRun`):

- `SomebodyWatches`: a command that runs in the foreground has its timer, or `_go` is
  putting it in the background, or a hook has raised in `_go`. So a `run` that was
  cancelled, or whose callback raised, leaves a command that its timeout still
  ends. The exception is real: after a hook that raises there, nothing
  limits the command.
- `NothingUnattended`: when `run` returns, its command is not in the foreground any more.
- `RunReturns`: it does return, raise, or is cancelled, within the command's timeout: the
  loop that clears `progress_event` never misses what `_go`, the poller or the
  result have to tell it.

The cwd (`EngineCwd`), as long as ids do not clash:

- `CwdOfForeground`: the command that set the cwd has ended, in the foreground, and
  was allowed to.
- `CwdFromItsShell`: and the cwd is where that command's shell was last, in NFC form,
  or the cwd of the host's process. That last disjunct is the defect of section 5.
- `NoFileLeft`: a command that is done leaves no cwd file that can be read, unless its shell was
  killed, outlived its result and opened the file then. A path that
  is not UTF-8 makes `_on_done` raise (it only expects `OSError`), and that file stays:
  reproduced with the program, as was the loss of the cwd by a name that is not in NFC form.

Output in pipe mode (`PipeOutput`):

- `OutputKept`: what the readers stored of each stream is in the file, on its way there, or
  in the buffer, once and in order, unless the disk failed or `clear()` was called.
- `ResultShowsOutput`: a result that shows the output shows a beginning of each stream, even
  after kills and cleanups; and all of it if the command ran to its end and no
  callback raised.
- `NoticeComesTrue`: a result that says that the output is saved comes true (except
  after failures and cleanups, which the result cannot know of).

The poller (`OutputPoller`):

- `OnePoller`, `SomebodyPolls`: all poll tasks but the known one are over or cancelled, and while
  an output is active the known one is neither; unless it has failed, of which nobody is
  told: then no command is polled until the next `start_polling`.
- `FewLateReports`: after `stop_polling` there is one more call of `on_progress` at most, after
  `clear()` none.
- `EachIsReported`: an output that stays active is reported again and again, unless the poll
  task fails.

Calls of `exec` (`ExecStart`):

- `SourcedIsFinished`: a shell is told to source a snapshot only when its script has ended by itself
  with code 0, although scripts that failed, timed out, or go on behind a cancelled creation leave
  a file, too. That the file is whole is another matter (section 5).
- `SnapshotBestEffort`: no failure of the snapshot ends a call. Only a cancellation of a call
  that awaits it can end others, and only those that want a snapshot.
- `HeldByCalls`: a living shell is in the hands of a command or of a call that will return one;
  descriptors that stay open are those of calls cancelled in the spawn, and the registry
  has only outputs of calls that are not over. The three are real leaks where they
  are allowed: the property says that there are no others.
- `CallsEnd`: every call that awaits something ends, whoever is cancelled.

The command (`CommandText`): `CommandKept`: a command outside `KnownLoss` reaches the shell with all
its words, assignments, redirections and operators in place, and `< /dev/null` takes no
standard input from a command that has its own.

Data: `ImplementsRecent` (refinement of `RecentWindow`), `PiecesIntact` (each character that no
read cuts appears once and in its place, each one that is cut leaves something in its
place), `ResultTells` (the `tool_result` against the command's result, whatever late aborts,
later writers and vanishing files do while it is made; it may name a file over the limit, but
then somebody has written to that file since it was measured or cut).

There is no property that the cwd is that of the *last* command started, or ended
last in the shell: commands that overlap set it in the order their results come,
and the code promises nothing else. Two commands of one id share a file; the run
lets that happen (`clash`), and what follows is arbitrary.

### Bounds

- `command_safety`: two background ids (a second `background` call that must be
  refused), exit codes 0 and 143 (143 is also the code of a timeout), death by
  SIGTERM from elsewhere, and by our SIGKILL. `MaxSize` is 2 and both limits are 1:
  an output can be empty, exactly at a limit, and beyond it. About a million
  distinct states. Ids are symmetric.
- `command_liveness`: one id, one code, `MaxSize` 1 with a watchdog limit of 0. The
  properties do not tell ids or codes apart. No symmetry is used.
- `queue_and_poller`: five chunks of length 1 or 3 under a cap of 5, so that the cap is
  met exactly and exceeded; three faults, so that both attempts of one drain fail
  and a later drain meets another. Two outputs that are polled (one that is stopped or
  cleared while the other goes on) and three poll tasks at a time: the known one and two
  cancelled ones that have not ended. A start that finds no free task is not possible in
  the model; with three, the theorems say that nothing depends on it.
- `tool_run`: two ids, so that the id `_go` mints can differ from the one the command has;
  all sixteen requests. Nothing else is bounded.
- `engine_cwd`: two calls, since every property relates one command's file to one
  other at most (an id's previous or next owner); two ids, so that both clashes and
  their absence occur; three directories: one in NFC form, where the state
  starts, one that becomes it by normalization, and one that is not UTF-8, which is
  also the cwd of the host's process. Calls and ids are symmetric. 1.5 million states.
- `cwd_tracked`: one call, and names that no conversion changes, so that the trace shows
  the empty file and not a normalization.

- `pipe_output`: two chunks for each stream and room for two, so that each stream alone
  fits, both together do not, and the chunk that overflows can be of either; one id.
  Three kinds of lines (blank, short, long) in chunks of up to five segments, a ring of
  three that wraps twice within eight lines, limits of three lines and five characters so
  that both are met; a text with characters of one, two and three bytes under reads of up to
  three bytes, so that every cut occurs.
- `exec_start`: two calls, one that is cancelled and one that suffers from it, with all options;
  commands of up to five lexemes of nineteen kinds, which include a redirection, a pipe, a list
  and an assignment in one command. 1.2 million states.
- `snapshot_poisoned`, `command_text`: as these, without the other half; six lexemes of four
  kinds. `abort_again`: as `command_liveness`.

`MaxSize`, `MaxChunks`, `Pollers` and `MaxFaults` are bounds of the models. One has a
consequence: with endless appends a drain never ends, and `flush()` never
returns; `MaxChunks` hides that, and `FlushReturns` says only that a flush returns
once appends stop.

### Fairness

`ShellCommand`: weak fairness of each callback and task of the loop, of its worker
threads, of the kernel ending a process that got SIGKILL, and of the child
watcher. The loop runs every ready callback in order and timers fire, so this is
what asyncio provides. Nothing is assumed of the child (it may run for ever), of
the host, or of others who call `abort`. `WaitForExit` is only fair while the
pipes close: in CPython 3.11 (the project supports 3.11 and later),
`process.wait()` wakes its callers when the process has exited and all pipes are
disconnected. A descendant may keep a pipe open, and after an early `cleanup()`
nobody reads the pipes, so that asyncio pauses them when its buffer is full. Both
were reproduced with the real program: `sleep 3 & echo hi` in pipe mode delivers
after three seconds, and `head -c 190000 /dev/zero` followed by `cleanup()` never.

`DiskOutput`: weak fairness of each step of the drain: the worker threads answer.

`BashToolRun`: weak fairness of the loop's timers and of each resumption of `run`, and of
a hook, which answers or raises. A command that was killed ends, and one that has
ended answers: that is `KillDelivers` and `ExitDelivers` of `ShellCommand`, for a child
that the kernel lets us kill and whose pipes close. No command ends by itself, and the poller
need not report anything.

`EngineCwd` has safety properties only.

`PipeOutput`: weak fairness of the readers and of the drain (`QueueDrains` of `DiskOutput`),
and a child that got the signal ends. Other children need not end, and the host need
not do anything.

`OutputPoller`: weak fairness of each poll task: timers fire and worker threads answer.

`ExecStart`: weak fairness of each resumption of a call, of the creation (whose thread has a
timeout of ten seconds), and of the death of a shell that got SIGKILL. Other shells
need not end, and nobody need cancel.

## 4. What is proved

`tlapm` checks every proof; no theorem rests on more than the `ASSUME`s of the
modules: `NoId` is no task id, exit codes are bytes, signals are positive, limits are
natural numbers, a ring has at least one place and `get_recent` asks for no more lines than it
has, a line that `strip()` leaves something of has a length, a character has one to four
bytes, and a read takes at least one byte. The sets of ids, codes and signals are arbitrary,
also infinite. Every safety property of a passing run is a theorem, and so are the three
refinements. No theorem of `DiskOutput` assumes that nothing fails.

`ShellCommandProofs`. `IInv` is inductive (`InitEstablishes`, `NextPreserves`,
one step per action). The invariants that TLC checks are not inductive as they
stand, because each speaks of the end of the exit path and the path is cut in
pieces. `IInv` adds what each piece leaves to the next:

- `HandlerHasCode`: the exit handler exists exactly from the first exit code on, so
  no second one can be started;
- `CodeIsChilds`: an exit code of a command nobody killed is the child's, and the child
  reaped (the kill paths set the status before they resolve a code);
- `HandledIsEnded`: the first piece of the handler ends the command, and nothing
  else does, so `background` is refused from there on and no watchdog restarts;
- `ResultMatches`, `ResultIsLast`: a result is a copy of fields that do not change any more;
- `ReadDecides`, `DeletedWasRedundant`, `ReadAll`: the file is deleted on the strength
  of what the read saw, and the child has been dead since before that read.

From it follow `TypeCorrect`, `CompletedCommandsExited`, `ListenersEnd`,
`BackgroundIsReported`, `DeletionLosesNothing`, `NamedFilesAreKept` and
`Refinement`: `Spec => ImplementsOutcome`.

`DiskOutputProofs`. `IInv` is `TypeOK`, the three safety properties, and
`FaultsCounted`, which says how many faults each stage of the retry has behind it:
it is what turns "left behind" into "two faults". `NothingLost` is itself inductive, through
faults and `cancel()`, given lemmas that say what moving a batch, and cutting a part out of
`disk \o batch \o queue`, does to it (`CutOut`, `TailIsDropped`). `FlushSettles` follows from it: when the
drain is idle nothing is in a batch, and what is still queued was left there by a drain that
failed twice, so that every chunk accepted before is settled, and stays so. `Refinement` shows that each step of
the drain is a `Write` of `OutputLog` (of all the batch, a part, or none), a `Drop`, an `Accept`, a
`Fault` or a stutter. The lemmas on sequences they need are stated first.

`BashToolRunProofs`. `IInv` adds to `TypeOK` and the two properties: `EndedIsOver` (a command
that has ended, or delivered, is not in the foreground) and `StoredIdIsOver` (nor is one
for which `_go` has stored an id). They hold although what `background` returns is
ignored, because it only refuses where the command already left the foreground: that is
the lemma `BackgroundFnEffect`. `ForegroundIsWatched` and `ReturnLeavesNoForeground`
follow, for any set of ids. `ToolResultTells` is about what comes after: between the `stat`, the
truncation in a thread and the building of the result, a file that fits must be named, and one
that is named and does not fit must have been written to since (`FileNamed`), whatever an abort, a
writer or the removal of the file does meanwhile.

`EngineCwdProofs`. The three properties are not inductive without the files: `FileTells` (a
file lies under its writer's id, and says where the writer's shell is, which does
not move any more), `AuthorStays` (nor does the shell that has set the cwd, even if it was killed
and outlives its result), and `IdsApart` (without a clash, an id has one
call that may still write or read its file, and the file is that call's). The step that
needs care is the drawing of an id; the proof holds for any number of calls, ids and
directories.

`PipeOutputProofs`. `ResultShowsOutput` needs to know what is in a buffer at any time
(`BuffersFirst`: nothing, or all that was read of that stream), that a reader that ended
has read all (`ReadersEnd`), and that an exit nobody decided by a kill comes after the
readers (`DecidedLast`). It is proved for every memory limit and amount of output.
`StoredIsKept` needs to know what the log (the file and the queue behind it) holds together:
nothing before the buffers have moved, after that the first chunks of each stream, as many as
were read (`LogHolds`). `OutputKept` says it without filtering the file: the chunks of a stream
are in the order of their numbers (`InOrder`), and a chunk is there exactly if it was stored.

`OutputPollerProofs`. `IInv` adds `KnownRuns` (a task is forgotten when it is cancelled, not
later), and `ListsEnd`: what a running poll task has on its list was not reported
since it was stopped. With one running task at most, that makes a second late report
impossible. All four safety properties are proved, for any number of outputs and
poll tasks.

`ExecStartProofs`. `IInv` adds to the properties `SnapshotIsDone` (a path is given, and a shell told to
source it, only after the script has ended with code 0) and
`CancelledByCall` (a shared task that is being cancelled has a culprit: a call that was
cancelled while it awaited the task). The lemmas `ProceedPreserves` and `AfterAwaitPreserves`
serve the three actions that go on to the spawn. Proved for any number of calls.

The theorems on `RecentLines`, `OutputReader` and `CommandText` are about data. They need
induction, and the library states induction with an operator as a parameter, which the
installed provers cannot instantiate. A set does as well: `NatSetInduction` (a set that has 0
and with every number the next has them all) follows from the well-foundedness of `<`, and
each induction defines the set of numbers for which its claim holds. A fold, or a recursive
function, is a `CHOOSE`; that the function it chooses exists is proved the same way (`IterationExists`,
`LoopTurns`).

`OutputTextProofs`, for any capacity, any limits, and any text of any characters:

- `RecentLinesRefine`. `RingHolds`: the ring has the last lines, the oldest where `get_recent`
  begins. A call of `add` keeps that (`AddHolds`, with the wrap of `head`), a sequence of
  them too (`AddsHold`), and `get_recent` then returns the window (`RecentHeld`). What is
  added is what is due: `DueFrom` says so of the lines the backward search has gone through,
  `ExtractDue` goes one line further, and `DueUnique` says that there is one set of lines that
  is due, so that it is the one the reference means.
- `NothingReadIsLost`. `ReaderIInv`: the reader's offset is where the last read ended, and cuts
  are nowhere else. `Decodes` says what a read of some bytes shows: each character that lies in
  them whole, as itself and in its place, and replacements for those that do not. A read from the
  offset then continues what was shown (`ReadKeeps`), and the tail of a file stands for itself
  (`TailKeeps`). The attempt showed two arms of a `CASE` in `DecodeCharacter` that
  overlapped; they are disjoint now.

`ExecStartProofs`, `CommandsReachShells`: for commands of any length. `Grammatical` is the
invariant: each lexeme may follow the one before it. A text quoted at once is unchanged
outside `LostByQuote` (`QuoteKeeps`). A rearranged one has, outside `LostByParts`, one token for
each lexeme (`TokensAre`), and the loop takes three of them at once exactly at the digit of
`2>` (`RedirectionsFound`). `HalfBuilt` is the invariant of the loop: what is built so far is the
command, lexeme by lexeme (`Rebuilt`), and no word was seen where an assignment would still
be one (`Unseen`). `RebuiltKeeps` concludes that it means the same. The proof found a loss that
neither the reference nor the list knew (an assignment behind a redirection to a file, section
5), beyond the lengths that TLC explores.

Only model-checked: all liveness properties (`ExitDelivers`, `KillDelivers`,
`KilledChildReaped`, `TimeoutBounds`, `OversizeKilled`, `AbortKills`, `FlushReturns`, `QueueDrains`,
`NoticeComesTrue`, `EachIsReported`, `RunReturns`, `CallsEnd`), since they rest on fairness, whose
`ENABLED` is beyond the prover; and the refuted statements of section 5.

## 5. Where the code and its documentation disagree

Each is a run that must find a violation; `PROJECT.json` quotes the lines. All of them, and
what is said of results, snapshots and watchdogs below, were reproduced with the program.

- `BackgroundMessageTrue`. `README.md:157` says what the message "running in background
  with ID" is for. `run` ignores whether `background` accepted the id. If the command ended or was
  killed while the hook minted one, or was never spawned, the answer is "in the
  background" all the same; the output file may already be deleted. Phase 1 has
  no equivalent of the id that phase 2 takes out of a result.
- `CwdTracked`. `README.md:64` says that the cwd is tracked without touching the process's.
  An empty cwd file (a command that removed its own directory, so that `pwd -P` fails
  after the redirection has made the file; or a kill in between, which is TLC's
  trace) sets the cwd to that of the host's process.
- `OnlyAskedAreCancelled`. `providers/snapshot.py:149-150` and `:179` say that the snapshot is best
  effort. A call that is cancelled while it awaits it cancels the shared task, which stays
  in the cache: all calls without `skip_snapshot`, now and later, end with
  `CancelledError`.
- `CommandsKept`. `quoting/pipe_command.py:4-6` says that it bails out where tokens cannot be
  trusted. `cmd 2>err.log | cat` becomes `cmd 2 > err.log < /dev/null | cat`: the lexer does
  not say whether a digit touches what follows.
- `PlainAbortHeeded`. `README.md:124` says that `abort()` kills. `_watch_abort` reads the reason once,
  when it resumes, and after an interrupt it is gone: a later `abort()` does nothing. (An `abort()`
  followed by an interrupt in the same turn of the loop does not kill either.)

Other things seen while modelling, which no run is spent on:

- `output/disk_output.py:92`: `flush()` does not tell of failed or short writes.
- `tool/tool_result.py:55` tells the model "Full output saved to", with the size of the output, and a
  test asserts it. `run` truncates files over 64 MB before it names them: a command that
  printed 100,000,000 bytes was reported with 95.4MB, and its file had 67,108,864 bytes.
- `providers/snapshot.py:174`: exit code 0 of the script is taken for success, which a failing write
  does not change. On a full file system, the path of a snapshot was returned that is cut in the
  middle of a function and lacks aliases and `PATH`.
- `engine/command.py:301`: the watchdog checks only that the status is still "backgrounded", which it
  is between the resolution of the exit code and the first piece of `_handle_exit`: the result then
  says that the command was killed for its size, with the child's own code (0, when tried), where
  `tests/test_background.py:68-69` expects 137.
- `engine/command.py:6-7` says that the result never waits on descriptors a grandchild has inherited.
  In pipe mode, in CPython 3.11, it does (see Fairness); if the command was put in the background,
  or its timeout calls back, for as long as they are held.
- `engine/shell.py:214`: an `exec` cancelled in the spawn leaves the output file's descriptor open
  (`HeldByCalls` allows for it); a spawn or an `os.open` that fails leaves the registry entry.
- Commands that lose something, besides `2>file`, when they are rearranged: `>|` is taken
  for a redirection and a pipe, `&>` for `&` and `>`; `$?` and `''` vanish; `{a,b}` and a leading
  `!` are quoted; an assignment that begins a command after `&` or after a later `|` becomes
  a word, as does one behind a redirection to a file: `A=1 > f B=2 env | cat` runs a command
  named `B=2` (`quoting/pipe_command.py:118`: the name of the file counts as a word that was seen). When quoted at once: a backslash in a text with blanks and without `'` is doubled,
  a `!` in a text with `'` gets one. `cat<file`, without a blank, is not seen to have
  an input of its own, and reads `/dev/null`.
- `tool/command_semantics.py:52`: the split also cuts inside quotes, so that the command that decides
  what an exit code means can be a part of an argument: `grep 'a|b' file`.
- `tool/tool_result.py:99`: the error path names neither the file with the rest of the output nor a
  background id. `ResultTells` asks for them only of results that are no errors.
- `output/task_output.py:149`: see 2.9 on the beginnings of chunks.

## 6. The plan

In this order; each module is written to be proved about (parameters with named
assumptions, one action per operation, no recursive operators).

1. Done: `ShellCommand`, `CommandOutcome`, `DiskOutput`, `OutputLog`, with proofs.
2. Done: `BashToolRun`, composed with the command as its abstract self, and
   `ToolResult` after it, with proofs. Left: a hook that uses the command it is given.
3. Done: `EngineCwd`, with proofs. Left: an abstract register of which it is the implementation.
4. Done: `PipeOutput`, with proofs. Left: an `on_stdout` that calls back.
5. Done: `OutputPoller` and `ExecStart`, with proofs.
6. Done: `RecentLines`, `OutputReader`, `CommandText`, with proofs.

Not to be modelled: formatting of sizes and durations, path construction,
environment variables, the search for shells and PowerShell, the detectors of
malformed text in the shell parser, and the Windows branches. They hold no state that a property here
would tell apart, or are lookups on the host's file system.

## 7. Running it

    tlasany ShellCommand.tla
    tlc -workers 2 -config MCShellCommand.cfg MCShellCommand
    tlapm ShellCommandProofs.tla

The safety run of a command takes about 20 seconds, its liveness run a minute, the
queue and the pipe output half a minute each, as do the calls of `exec`, the cwd one; the proofs take about ten minutes,
of which `OutputTextProofs` needs two and `ExecStartProofs` one.
