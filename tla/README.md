# Formal models of Lua DevTools

TLA+ modules, TLC configurations and TLAPS proofs about `lua-devtools`: a debug
adapter and a language server in Go, a debugger in Lua that runs inside the
debugged program, and a VS Code extension. It models the debugger, where goroutines, two
processes and a Lua thread interleave, and of the language server the documents, the analysis of
names with its renames, and the resolution of `require`. The extension is not modelled.

Contents: [system](#the-system) · [models](#what-is-modelled) ·
[runs](#what-the-runs-check) · [disagreements](#where-the-code-disagrees-with-its-documentation) ·
[proofs](#what-is-proved) · [limits](#what-is-not-modelled)

To repeat a result, in this directory: `tlc -config LaunchSession.cfg MCDebugSession`
(the table of [runs](#what-the-runs-check) names the module of each cfg), and `tlapm` on each of
the modules `DebugSession_proofs`, `SessionChannels_proofs`, `SessionControl_proofs`, `SessionEvents_proofs` (each extends the one before),
`Stepping_proofs`, `Documents_proofs`, `Scopes_proofs` and `ModuleResolution_proofs`.

## The system

| Part | State | Operations | Makes it correct |
|---|---|---|---|
| DAP server, `internal/dap/server.go` | `bpRequestMu`, breakpoint ids, pending responses | one request at a time; `pumpEvents` forwards runtime events | a response precedes the events about it; the request loop always comes back |
| DAP runtime, `runtime.go`, `attach.go`, `transport.go` | `paused`, `liveControl`, `closed`, `pending` reply channels, `pendingBreakpoints`, channels of 64 commands and 64 events | `call`/`notify`, `Resume`, `Pause`, `SetBreakpoints`, writer, protocol reader, output copier, `flushPendingBreakpoints`, `Dispose` | no lost, doubled or orphaned call; `paused` is never wrong in a way a request can see; exit comes last |
| Debuggee, `vscode/lua/debugger.lua` | the command loop it is in, `queuedCommands`, `breakpoints`, `pauseRequested`, `sourceCache`, `detached` | blocking and polling command loop, hook, `pause`, `resolvePath`, `resumeThread`, `onError`, `detach`, exit | every command is answered once, a stop is announced once, a lost adapter is noticed |
| Stepping, `vscode/lua/debugger.lua` | `step`, `depth`, `inDebugger`, `currentThread()` | `resume(mode)`, `shouldStop`, the wrapped `coroutine.*` functions | a step ends where the user meant it to |
| Transports, `transport.lua`, `lua-devtools.lua`, `native/poll.c` | a session file, stdin, a TCP connection | read a line, poll, write a line | FIFO in each direction, the end is seen |
| LSP server, `internal/lsp/server.go`, `completion.go`, `interpreter.go` | open documents with versions, a diagnostics timer for each | edits, debounced diagnostics, requests | diagnostics belong to the text on screen |
| LSP modules and workspace, `modules.go`, `workspace.go`, `refactoring.go`, `native.go` | a cache of resolved modules, the workspace index | resolve `require`, search, rename | terminates on cycles and limits; gives only what the files give, all of it when no limit is met |
| Static analysis, `internal/analysis` | none: functions of a syntax tree | scopes, references, rename edits, members, diagnostics, test discovery | a name resolves as Lua resolves it |
| Extension, `vscode/src` | revision counters, the set of busy package operations, status items | refresh the environment, start the client, install and remove packages, format | an older answer never replaces a newer one; one operation at a time per key |
| Snapshots (`snapshot.lua`), JSON codec, localisation, scripts | none or local | encode | stay within depth and size limits |

How they interact in a session: the client sends requests to the server, which
serves them one by one on one goroutine. A request that needs the debuggee calls
the runtime, which queues a command; the writer moves it to the command stream;
`debugger.lua` reads it in one of its command loops and writes a reply; the
protocol reader delivers the reply to the blocked caller. Events go the other way:
reader → `Events` channel → `pumpEvents` → client. Three facts make this hard:

- the runtime keeps a *cached* view (`paused`) of a process that changes state by itself;
- the debuggee has three different readers of the same command stream: the blocking
  loop of a pause, the polling loop of the hook, and `resolvePath`, which waits in the
  middle of another operation for the adapter to canonicalise a file name;
- every goroutine may block on a bounded channel or on `bpRequestMu` while it is the one
  that another goroutine waits for.

`PROJECT.json` lists each component with its status and every hazard with its source line
and the properties that cover it.

## What is modelled

| Module | Models |
|---|---|
| `Wire` | command and protocol stream, the pipe of program output, their messages |
| `LuaDebugger` | `debugger.lua`: command loops, hook, pauses, `resolvePath`, errors, detach, exit |
| `AdapterRuntime` | the goroutines of `internal/dap` |
| `DebugSession` | both together, with spawn/attach, process exit, adapter crash; fairness and properties |
| `ControlHandoff` | the abstract specification: who controls the debugged program |
| `MCDebugSession` | the instance TLC checks |
| `Stepping` | step mode, depth and coroutine against the frames the user meant |
| `TextPositions` | positions and offsets (`analysis/position.go`, `offsetAt`) |
| `Documents`, `MCDocuments` | one document between the editor and the language server |
| `Scopes`, `MCScopes` | the walker of `internal/analysis`, resolution, completion of names, renames |
| `ModuleResolution`, `MCModuleResolution` | the `require` resolver and the probes of native libraries |
| `DebugSession_proofs` | theorems: types, the closed runtime, pauses |
| `SessionChannels_proofs` | lemmas: which messages each step takes, moves and adds |
| `SessionControl_proofs`, `SessionEvents_proofs` | theorems: calls and control; what the client is told |
| `Stepping_proofs`, `Documents_proofs`, `Scopes_proofs`, `ModuleResolution_proofs` | theorems about one module each |

`Wire`, `LuaDebugger`, `AdapterRuntime` and `ControlHandoff` are composed by `DebugSession`, and
`TextPositions` is used by `Documents`. The other modules stand alone: what they model shares no state in the code either,
except that `ModuleResolution` reads the open documents, as `docs`.

### The session

*Grain.* Whatever the code does under the runtime's mutex is one step, and a step ends
where the mutex is released or the goroutine may block. `SetBreakpoints` is therefore
three steps (`Decide`, then `Call` or `Notify`, then the wait): that it acts on flags it
read before releasing the mutex is in the model. A caller of `Runtime.send` is the
request loop, the capability handshake of `Start`, or a flush; `pc`, `outcome` and `job` hold
what each does. `pending` is the map of reply channels. A command carries its
caller instead of a number: `send` blocks, so a caller has at most one call under way. That `send` takes back the reply channel of a command
that found the queue full, in a second critical section (`runtime.go:362-367`), is part of the same step.

*Debuggee.* `lpc` says where the one Lua thread is: `boot` (the loop before `run`), `cmd` (the loop
of `pause()`), `run` (user code), `poll` (the polling loop of the hook), `line` (the hook after it),
`resolve` (`resolvePath`), `detached`, `gone`. `back` says what `resolvePath` returns to. `nest`
counts the command loops suspended while a coroutine resumed by hand runs inside them. A query that lists a stack may wait for the paths of several files in turn. An error in a
program run without debugging only asks for paths and does not pause (`PauseUnlessBlind`), and an attached host whose write fails detaches at once (`SendFails`).

*Data.* A breakpoint set is the number of the request that carried it, which is enough to
say which set a side holds, and which is older. The five inspection requests and `evaluate` are one `query`. `continue`,
`next`, `stepIn` and `stepOut` are one `resume` here; `Stepping` tells them apart.
Whether a program reaches a line, prints, fails or ends is nondeterministic.

*The client.* Two things are assumed of it: `configurationDone` is sent once and before any
`continue` or step (VS Code does so; see [limits](#what-is-not-modelled) for what happens
otherwise), and, with `Patient = TRUE`, it resumes only after a `stopped` event it received. `HooklessSession`
has no such patience. The request loop is free to receive any request in `Asks` at any time it is idle.

### Stepping

`chain` is the stack of running coroutines, `stack` the frames of each. The program is free:
it calls Lua functions, functions of chunks without a path and C functions, makes
tail calls (with the frame Lua 5.1 leaves behind, or without), returns, raises errors that a
`pcall` or a coroutine boundary catches, and creates, resumes and leaves coroutines. `step`, `depth` and
`inDebugger` (`waiting`, with `loops` for nested command loops) are the variables of the
code. The history variable `asked` records what the code forgets: how many frames the
coroutine had when the user stepped, and how many of them have survived untouched (`kept`). "The
frame the user stepped from" is then expressible, and the properties compare it with the
numbers the hook compares. The action names say which function each stands for; `map` in `PROJECT.json` gives the lines.

### Documents

The editor (VS Code's LSP client, external) and the server exchange messages over `toServer` and
`toClient`. A handler holds `Server.mu` to its end, so one handler is one step. The timer of `reparse` is not: it
is `armed`, then its callback runs the interpreter without the mutex (`checking`), then it takes the mutex and
decides (`Publish`). `Timer.Stop` stops an armed timer and no callback. That the interpreter names the line of the first error, and a line of the text (the code clamps one past
the end), is an assumption about it: real Lua may name the line of the token after. A timer keeps the document object it was made for, which `id`
stands for: reopening makes a new object whose version starts again. The extension may restart the server, also while a close is under way; everything under way is lost then, and a document that is
open is opened again.

A text is a sequence of characters, of which `"wide"` takes two UTF-16 units and `"nl"` ends a line; a name (`"old"`, `"new"`) is a
syntax error, since a bare name is no statement, so that diagnostics have places to be about. The server computes with `TextPositions`, the
editor with its own reading of a position (`Seen`), and the properties compare the two. A rename is asked for at
a place of the editor's text, computed on the server's, and its edits carry the server's version.

### Scopes

The walker builds scopes, symbols and references in one pass over the syntax tree. In the model the program is
written while it is walked: an action is a construct of Lua together with the handler of the walker for it, so that a behaviour
of the specification is one program, and its prefixes are programs whose open constructs end there. Beside the walker's tables runs
Lua's own rule as its compiler applies it: `active`, the variables in scope, of which the latest with the name is
meant. Each occurrence keeps the variables active there (`env`), and a renamed program is read by the same rule. `self`
of a method is in `active` and in none of the walker's tables, as in the code.

Offsets are counts of tokens, which keep the order of the places and which of them are equal: `local x = x` makes its
variable visible from the end of the statement, a function's name from its beginning.

### Module resolution

`resolve` (`modules.go:107`) recurses through the files it reads; `frames` is that recursion. `cache`, `remaining` and the depth
belong to the request and are shared by all nested requires, as in the closure. A module may lie in several `Places`, searched in order; an
open document overrides the file of its path. Each file contributes one member named after the module, and what it requires flows into what
it returns; a member has no place until a file exports it (`Here`), and keeps the place it got. The
probe of a native library is three steps (`StartProbe`, `LoadLibrary`, `FinishProbe`), and a reinstallation of the library may come between any two of them.

## What the runs check

| Run | Module | Instance | Checks | States, time |
|---|---|---|---|---|
| `LaunchSession` | `MCDebugSession` | launched, native helper, two files (symmetric), 2 sets, runs with and without debugging, queries, pauses | `TypeOK`, `CallInOnePlace`, `NoStalePause`, `VerifiedAfterResponse`, `LastSetWins` | 2.0 M, 170 s |
| `HooklessSession` | `MCDebugSession` | launched, no live control, breakpoints before the launch, runs without debugging, errors, one coroutine resumed by hand | `PausedMeansWaiting`, `ClosedLeavesNoCaller`, `OutputBeforeTerminated`, `HandsOff` | @@H |
| `AttachSession` | `MCDebugSession` | attached host that may stop, `terminate` at any time, adapter that may die, fairness | `RequestAnswered`, `PathAnswered`, `ExitReported`, `OrphanEnds` | @@A |
| `Stepping` | `Stepping` | two threads, 3 frames each, both kinds of tail call, 2 nested loops | `TypeOK`, `StepSkipsCalls`, `NoStepMissed`, `StepThreadRuns` | 1.2 M, 30 s |
| `Documents` | `MCDocuments` | texts of at most 3 characters, 2 edits, 2 openings or restarts, 2 messages under way, interpreter | `TypeOK`, `InSync`, `SettledDiagnostics`, `StaleDiagnosticsAreDue`, `NeverOlderDiagnostics`, `RenameHitsTheName`, `DiagnosticsArrive` | @@D |
| `Scopes` | `MCScopes` | two names, 3 symbols, 2 references, 4 scopes, length 9, all constructs, symmetry of the names | `TypeOK`, `ResolvesAsLua`, `CompletionSeesAsLua`, `RenameKeepsReferences`, `GlobalRenameKeepsBindings` | @@S |
| `ModuleResolution` | `MCModuleResolution` | 3 Lua modules in 2 places, one library, 2 requests, depth 2, budget 4 | `TypeOK`, `OnlyRealMembers`, `CompleteWithinLimits`, `NoReentry`, `NativeResultCurrent` | 590 k, 45 s |
| `EarlyBreakpoints`, `EventBacklog` | `MCDebugSession` | small | `LastSetWins`, `RequestAnswered`: violated | seconds |
| `StaleStepDepth`, `UninspectedError` | `Stepping` | small | `AnyStepSkipsCalls`, `ErrorsInspected`: violated | seconds |
| `CapturedGlobal` | `MCScopes` | as `Scopes` | `RenameKeepsBindings`: violated | seconds |

- `CallInOnePlace`: a blocked caller's command or reply exists exactly once between the
  processes. It is neither forgotten nor answered twice, whichever of the three readers meets it.
- `PausedMeansWaiting`: when a request may inspect the program, the program does wait for commands.
- `HandsOff` is the refinement: the session implements `ControlHandoff` under the mapping
  `Control`. Control of the program is granted by the client, taken or refused by the debuggee, returned by a stop and noticed by the
  adapter, in this order; it is never taken back from a running program, and ends once.
- `NoStalePause`: a pause request does not survive the stop it raced with.
- `VerifiedAfterResponse`: a breakpoint is reported as verified after the response that created it.
- `LastSetWins`: when nothing is in flight, the debuggee uses for each file the last set the adapter accepted.
- `ClosedLeavesNoCaller`, `OutputBeforeTerminated`: nobody waits for a closed runtime; `terminated` is the last thing the client hears.
- `RequestAnswered`, `PathAnswered`, `ExitReported`, `OrphanEnds`: the request loop comes back, a wait for a path
  ends, the end of the program is reported, and the debuggee of a dead adapter ends (or is left to itself).
- `StepSkipsCalls`, `NoStepMissed`, `StepThreadRuns`: a step given at a stop of the hook does
  not end too early, does not end too late, and is not bound to a coroutine that may never run again.
- `InSync`: when nothing is in flight, the server has the editor's text, whatever the edits counted in UTF-16 units were.
- `SettledDiagnostics`, `StaleDiagnosticsAreDue`, `NeverOlderDiagnostics`, `DiagnosticsArrive`: diagnostics on screen mark the text of their version, are
  gone or still to be replaced when they are not of it, never go back to an older version, and those of the last text arrive, although the interpreter may take longer than the user's next edit, or fail.
- `RenameHitsTheName`: a rename that is applied changes the occurrences of the name and nothing else. The texts of the run hold one occurrence; several edits of one
  rename are what the theorem `RenamesHit` covers.
- `ResolvesAsLua`, `CompletionSeesAsLua`: a reference is bound to the variable Lua means there; completion offers exactly the variables
  Lua would find, at every reference and every definition of a global: of the names in scope the one Lua means, a global of the file exactly where no variable hides it and Lua 5.5 admits implicit
  globals, and each name once. The first is about what the walk knew, the second about what the finished scope tree says.
- `RenameKeepsReferences`, `GlobalRenameKeepsBindings`: a rename that is not refused changes the meaning of no name, in the
  new program read by Lua's rule.
- `OnlyRealMembers`, `CompleteWithinLimits`: a `require` gives what an unlimited reading of the files gives (`Reach`, `Own`): never more, and no less
  when there is no cycle and no limit is met (a module that a limit cut short stays so in the cache of its request, `modules.go:206`). `NoReentry`: no file is read while it is being read.
- `NativeResultCurrent`: the result of a probe kept under the identity of the installed library is that library's.

The session runs switch deadlock checking off, since a session stops: the program has ended,
the adapter has exited. `Stepping` checks for deadlock.
`Documents`, `Scopes` and `ModuleResolution` switch it off as well: the user stops editing, the program is complete at any point, and the requests are used up.

**Bounds.** The queues hold 1 or 2 messages instead of 64, so that full queues are common;
what a longer queue adds is more messages waiting, and every guard that looks at a queue asks only whether it is empty or
full. `PollBatch = 1` ends the polling loop after each command, so that a batch ends
between any two. Two flushes (`Flushers`) may be alive: with one the reader would never see
a stop before an older flush ended. The launched session with live control has two files, so that a stack may ask for two
paths and sets of different files meet in the queues; they are interchangeable (`FileSymmetry`): no definition tells files apart, and the run checks no liveness. The other session runs have one file.
`terminate` is left to `AttachSession`, since it multiplies the states of the launched runs beyond their time; a handshake that fails disposes of a launched process there, and the
theorems about the properties of these runs cover `Terminate` in every state. `MaxSets`
counts `setBreakpoints` requests; two sets suffice for one to overtake the other.
`MaxPauses` bounds the pause requests between two stops. In `Stepping`, three frames hold a caller, a callee
and what a tail call leaves; two nested loops are enough for the pause of one
to be inside the other. The same instance with two coroutines and two frames was also
explored (1.5 M states) without adding a behaviour.
In `Documents`, two edits and two openings make an older timer, one of another object with the same version number, and an
answer to a rename meet a newer text; three characters hold a wide one, a name and an end of line. In
`Scopes`, three symbols and two references are a shadowed, a shadowing and a renamed variable with a use each of two of them. A function takes two scopes, so that
a function and a block, or three blocks, nest; `MaxAt = 9` is where the last construct may begin, and a function is four long. Without it (2.4 M states) and with a scope more (2.2 M) nothing
else was found, and all of these properties are proved for all sizes. In `ModuleResolution`, three modules hold a cycle, a diamond and a chain longer than
`MaxDepth = 2`; `Budget = 4` is met by files of sizes 1 and 2, and `FileLimit = 2` by a file of size 3. 8 levels and 8 MiB in the code.

**Fairness.** Stated per goroutine in `DebugSession`: each goroutine that can run
eventually does (weak fairness); one that waits for room in `Events` or for `bpRequestMu` gets it if it
becomes available again and again (strong fairness: Go wakes the senders of a channel in FIFO
order, and a starving waiter of a mutex gets it after a millisecond). The handshake of a launch or attach succeeds, or is given up
at the latest after five seconds (`HandshakeTimeout`). `debugger.lua` goes on once it has control.
Nothing is assumed of the debugged program, nor of the client. `BusyProgramSpec` adds that a program that
goes on executing lines reaches a hook that polls; `OrphanEnds` needs it, because a program that is inside one long C call notices nothing.
`Documents` assumes that the server's loop serves what it is sent, that the editor reads what it is sent, and that a timer fires and its callback ends: the interpreter
is run with a timeout of two seconds (`interpreter.go:103`). Nothing is assumed of the user.

Every property of a passing run has a mutant in `PROJECT.json`: a plausible slip in the code
(named in the modules as such) that makes TLC find the property violated.

## Where the code disagrees with its documentation

1. **`EarlyBreakpoints`.** `Start` flushes the sets queued before the launch on a goroutine
   that nobody waits for (`runtime.go:331`). `configurationDone` can overtake it: the flush decides to send
   `setBreakpoints` while the runtime is paused, `run` is queued first, and the running program
   refuses the set. Breakpoints that were accepted are then lost. `docs/architecture.md:206` puts the flush before the launch response.
2. **`EventBacklog`.** The request loop holds `bpRequestMu` while it waits for a reply
   (`server.go:310`); the pump waits for `bpRequestMu` (`server.go:285`); the reader waits for room in
   `Events` (`runtime.go:578`) and so never reads the reply. With `Events` full of verifications the three wait for each
   other, and no later request is served, `terminate` included. It takes 64 unread verifications in the code. `AttachSession`
   checks `RequestAnswered` with one set, where the backlog cannot fill.
3. **`StaleStepDepth`.** `resume(mode)` remembers `depth`, which only the hook computes
   (`debugger.lua:544`). After the pause of a failed coroutine, or of one resumed by hand, it is the depth of an
   earlier stop: `next` ends inside a call, or `stepOut` in the frame it should leave. The other properties of `Stepping` are therefore about
   steps given at a stop of the hook (`asked.exact`).
4. **`UninspectedError`.** With `breakOnCoroutineErrors` the frame to show is searched from level
   1 (`debugger.lua:889`), which skips the function that failed. For `error(...)` that is `error`
   itself; for an error of the language in the body of a coroutine it is the only frame, and the program does not pause.

5. **`CapturedGlobal`.** `Rename` compares references only, and the first assignment of a global is none (`analysis.go:578`). In
   `for a = a do b = 1 end` the loop variable may be renamed to `b`: the assignment, which defined a global, then sets the loop variable. `README.md:72` says that renames
   are rejected when they would capture. `RenameKeepsReferences` is what does hold.

Four further behaviours are known and excluded: without live control a set that is kept until a stop can be flushed after the request loop sent
a newer one for the same file, and the debuggee ends with the older (`runtime.go:607`; seen by TLC with `Live = FALSE` and three sets, hence `Live = TRUE` in the run that checks `LastSetWins`); a pause that arrives while a coroutine resumed by hand runs survives
its return (`debugger.lua:704`; hence `MaxNest = 0` for `NoStalePause`), and `stopped` can
reach the client after `exited` if the process is killed at a stop (`runtime.go:587`). And the walker does not declare
the parameter `self` of a method (`analysis.go:476`); the programs of the runs and of the theorems do not use that name (`Self \notin Names`).

## What is proved

All theorems hold for every value of the constants that the `ASSUME`s of the modules allow:
any number of files, flushes, coroutines, frames, edits and commands, any capacity.

| Theorem | States |
|---|---|
| `TypeCorrect` | the session keeps `TypeOK`, which bounds both channels by their capacities |
| `NoCallOutlivesRuntime` | `ClosedLeavesNoCaller` |
| `PauseAnsweredByStop` | `NoStalePause`, if no coroutine is resumed by hand (`MaxNest = 0`) |
| `SessionInvariant` | the inductive invariant that the next three follow from |
| `CallsAreInOnePlace`, `PausedIsWaiting` | `CallInOnePlace`, `PausedMeansWaiting` |
| `ControlIsHandedOver` | `HandsOff`: the session implements `ControlHandoff`, initial states and every step |
| `OutputIsForwarded`, `VerifiedIsAnswered` | `OutputBeforeTerminated`, `VerifiedAfterResponse` |
| `LastSetIsUsed` | `LastSetWins`, with live control and no set before the launch (`Live /\ ~EarlySets`) |
| `SteppingTypeCorrect`, `StepsSkipCalls`, `StepsEndInTime`, `StepThreadsRun` | `TypeOK`, `StepSkipsCalls`, `NoStepMissed`, `StepThreadRuns` of `Stepping` |
| `DiagnosticsNeverOlder`, `DiagnosticsAreDue`, `VersionsAgree` | `NeverOlderDiagnostics` and `StaleDiagnosticsAreDue` of `Documents`; the server that has read everything has the editor's version |
| `DocumentsTypeCorrect`, `TextsAgree`, `DiagnosticsMark`, `RenamesHit` | `TypeOK`, `InSync`, `SettledDiagnostics`, `RenameHitsTheName` of `Documents`, for any texts of its four sorts of characters |
| `TypeCorrect`, `Resolution`, `RenameIsSafe` (`Scopes_proofs`) | `TypeOK`, `ResolvesAsLua`, `RenameKeepsReferences` of `Scopes`, if `Self \notin Names` |
| `CompletionIsSound`, `GlobalRenameIsSafe` | `CompletionSeesAsLua`, `GlobalRenameKeepsBindings` of `Scopes`, if `Self \notin Names` |
| `TypeCorrect`, `MembersReal`, `ModulesNotReentered`, `NativeResultsCurrent` (`ModuleResolution_proofs`) | `TypeOK`, `OnlyRealMembers`, `NoReentry`, `NativeResultCurrent` of `ModuleResolution` |
| `NothingMissed` | `CompleteWithinLimits` of `ModuleResolution`: a search that stays within its limits misses nothing |

*Session, types.* `TypeOK` is inductive as stated: it includes the few relations between `pc["loop"]` and `req` and between `lpc` and
`at` that typing needs. `DebugSession_proofs` has one lemma per group of
actions (`LuaLoopType`, `FlushType`, ...), on top of lemmas about sequences. `ClosedLeavesNoCaller` is inductive: `Call` registers a caller only if the runtime is open, and
`Close` empties `pending` in the step that closes it. `NoStalePause` is not inductive: a `query` that waits
for a path is in the state `resolve` and returns to `cmd`, so `PauseInv` adds that no pause is
pending there either.

*Session, calls and control.* Neither `CallInOnePlace` nor `PausedMeansWaiting` is inductive: a message that was written earlier decides what the other side may
do later. `SessionChannels_proofs` therefore *counts*. `Transit(C, M)` is how many messages of the sorts `C` and `M` are in the three queues of commands and in the protocol
stream; each step of the debuggee is one of `Keeps`, `Stops`, `Goes`, `Ends`, `BeginsQuery`, `EndsQuery` and each step of the adapter moves, adds or takes one message,
so that each changes a count by at most one. Two sums are kept. `Owed(c)`, the command of a caller, its reply, and the query that waits for a path on its behalf, is at most one, and exactly one while the caller waits and the
stream is up (`CallInv`). `Token` adds `paused`, the running program, the request that will send a resume, the resume on its way, the stop on its way, and the refusal on its way or delivered: all that is control of
the program or will become it. It is at most one until the runtime is closed (`ControlInv`), so `paused` excludes a program that runs and a stop that has not been
seen. `PhaseInv` says what the phases of a session exclude (nothing is flushed before the launch response, nothing resumed before `configurationDone`), and
`AddressInv` that a reply goes to a caller. `ControlIsHandedOver` is the refinement mapping applied to each group of steps: with one token, a step that moves it is a step of `ControlHandoff`, any other one a stutter.

*Session, what the client is told.* `ExitInv` says that once the process is gone nothing is printed any more, and that once the reader has ended nothing is left that could become output; `QueueInv` and `DrainInv` follow the
`exit` event through the bounded channel: what was printed is in the pipe, in the channel before `exit`, or sent. For `VerifiedAfterResponse`, `SetsInv` follows every set that is being applied:
either the client has been answered for it (`acked`), or the request that carries it is still in the loop and holds `bpRequestMu`, and then the pump, which needs
the same mutex, forwards no verification of it.

*Session, the set in use.* `LastSetWins` speaks of a session at rest; on the way to it the commands stand in three queues, and what matters is their *order*, which counts do not see. `Line` is the three queues
as one sequence, in the order of service, and `OrderInv` says of it: the sets in it have growing versions (`Ordered`), each is newer than the one the debuggee uses and none is newer than the one
that will be the last answered (`Newer`, `Due`), and that one is in use or on the line (`OnItsWay`). Serving a command takes the head and sending one adds a tail, so both keep the order, provided that only one goroutine sends: that is
`FlushInv`, by which a flush has nothing to hand on. The exception is a program run without debugging, which nothing can reach (`Blind`): its sets wait for a stop that never comes, and the session is not at rest before the program ends (`Postponed`).
That a set sent is also applied needs `BootInv` and `RunInv` (before the run only calls are on the way, and a run without debugging is not refused, so `liveControl` is not lost by it).
The two hypotheses are what `LaunchSession` and `AttachSession` set. Without them the statement is false: `EarlyBreakpoints` shows the flush of an early set lose its race with a resume; without live control the flush of a set that was kept until a stop can lose the same one.

*Stepping.* `IInv` is `TypeOK` and three facts: `AskedInv` (`step` and `asked` agree in mode and thread; for an exact step, `step.depth`
is the number of Lua frames among the first `height`; the first `kept` frames of its coroutine
contribute what they did), `LoopInv` (only the innermost loop that reads commands may know the depth, and then `depth` is
that of the current coroutine), `ThreadInv` (the coroutine of a step is in `chain`). The proofs rest on three lemmas about counting
frames: the depth grows with the prefix (`DepthGrows`), strictly if a Lua frame is added (`DepthOfCall`), and
prefixes with the same frames have the same depth (`DepthOfSame`). They say why comparing *numbers* is enough: a frame that
is waiting for a call has strictly fewer Lua frames below it than the line that runs inside the call.

*Documents.* `NeverOlderDiagnostics` is about the screen and needs the queues: `VInv` orders the versions along both of them. Place 0 of `toServer` is the document the
server has, the other places are the messages; a document is told open only when it is closed, told changed only while it is open and never with a smaller version (`ToldInOrder`), and
what is told and not closed is the editor's (`ToldOfEditor`). Place 0 of `toClient` is the screen: each diagnostics there are of a version not older than the ones
before, or clear them (`ShownInOrder`), and the latest are of no version that the server's document has yet to reach (`ShownOfDocument`). That `Publish` compares document and version
under the mutex is what the last needs. `ShownOrDue` adds that the latest diagnostics are those of the document or a timer for it exists. The texts play no part.

`DInv` is about the texts. It claims a history `h` of the document (`Follows`): `h[0]` is what the server has, `h[k]` follows from `h[k - 1]` by message `k` on its way (`Handled`), and the last is what
the editor has. What is known elsewhere of a document is of one that is `Earlier` than `h[0]`: of an earlier opening, or of an earlier version, or of the same text. So are the timers (`TimersOf`), the answers to a
rename under way (`AnswersOf`) and the latest diagnostics (`ScreenOf`), these of the same opening. `Earlier` is kept along the history, so opening and version identify one text in all of it: that is why comparing
*numbers* is enough in `Publish` (`StillCurrent`) and in the editor that takes the edits of a rename (`Applicable`). With nothing in flight the history is one document, which is `InSync`; the other two follow from `Earlier`.

That each message makes the editor's next text of the server's is a matter of positions. `SeenByServer`: the server's position of a place, by its line index, is the one the editor sees. `OffsetOfSeen`: both scans, `offsetAt` and
`OffsetOf`, find the place again from the position, for any mixture of line ends and wide characters; so no two places look alike (`HitsOld`), and a range replaced is the one meant (`Splices`). `RenamesAll` applies the edits of a rename
from the end of the document to its beginning, where none moves the place of another. `InterpreterMarks`: the line the interpreter names is the one a reader would find the first error in. The line index is a set
in ascending order, reasoned about by ranks (`Ascends`), and the fold over the changes is compared step by step with the texts in between (`FoldOfChanges`, by the least counterexample).

*Scopes.* Lua looks for the latest active variable, the walker for the innermost scope and the last symbol in it. They agree because the
active variables are at every place those of the scopes around it (`Sees`), and those of an inner scope are younger
than those of an outer one (`Ordered`); both must hold as well for the places where the open constructs will return to
(`Actives`). `RefSound` says what a reference keeps of that for good: whatever is declared later is visible from a later place
only. `RenameIsSafe` needs nothing of the walk any more: it follows from `IInv` in one state, since the walker's test asks for each
reference of the old or the new name what it resolves to afterwards.

Completion and the rename of a global start from an offset and find the scope again in the finished tree, where the walk had it at hand. `PInv` says that the two agree: scopes nest
(`Nested`), a scope has ended exactly if the walk has left it (`Spans`, `Begun`), so that the innermost scope around the offset of a reference sees what the scope of the walk saw (`SeenFrom`); and a global stands
alone at its offset (`Alone`), in its scope or, as the name of a function, at the head of the function's own one (`GlobalPlace`), which is why `SiteScope` leaves that scope. A definition of a global is one because no variable of its name was
visible (`Unbound`).

*Module resolution.* `IInv` says what the stack of frames stands for: each frame reads the text of a module that its caller requires next
(`Calls`, `Reads`), so that a member handed up is a member of something the caller reaches, and `Reach` is closed under that. `NoReentry`
is inductive with it: a file is only read when it is not in the cache, and every frame's module is. For the libraries, `Probing` says that
identities only grow and that what a probe loaded is not older than the identity it is kept under; equal identities then leave one version.

For `NothingMissed` the invariant is about the whole search (`Search`, while the limits hold). A file that is cached and no longer being read has all that it leads to (`Remembered`), and a frame has all that the requires it is done with
lead to (`Collected`). The danger is a module that is met again while it is still being read: the cache has only a part of its members then. `Deep` excludes it: frame `i` reads a module at
the end of a path of `i - 2` requires from the request (`Away`), and a module that is met below itself is the end of longer and longer ones (`CycleGoesOn`), so that `Away[MaxDepth]` would not be empty, as
the limits demand. `Spent` says that the budget has paid for the visited texts, once each, and that they are among the needed ones; what is left then pays for the next. `Away` and
the sum of the sizes are recursions over numbers and sets: that they are what their equations say is proved by the least counterexample (`Least`), and no induction over data is needed.

Assumptions: `Self \notin Names` for `Scopes`; texts over the sorts of characters that positions tell apart for `Documents` (`DocumentsAssumption`); for the session that there is a flusher (`Flushers # {}` in `WireAssumption`; `Start` always starts that goroutine, `runtime.go:331`);
for `ModuleResolution` that the places are numbered and that each set of them has a
first one (induction would prove it of finite sets of numbers); `MaxNest = 0` for `NoStalePause` as said. `VInv`, `DInv`, `PInv`, `SessionInv` and the other strengthenings were
checked by TLC as invariants of the runs before they were proved.

Model-checked only, beside what the five runs that expect a violation show:

- All liveness properties (`RequestAnswered`, `PathAnswered`, `ExitReported`, `OrphanEnds`, `DiagnosticsArrive`): fairness and `ENABLED` are beyond the prover.

## What is not modelled

- The interactive launch (a launched program behind a TCP listener) with its input queue, and the splitting of UTF-8 sequences by `outputStream`.
- The inference of table members (`members.go`, the member half of `references.go`) and what is built on it: completion, definition and rename of
  members. It is an abstract interpretation of the syntax tree; a model would repeat it, for want of a simpler statement of what it promises. Likewise the
  outline, signatures, test discovery and the wording of diagnostics.
- The scan of the workspace (`workspace.go`) and renames over several files; the files beyond its limits are left out silently, as its comment says.
- The choice of the search environment and the roots of a `require`, symbolic links, and names that are no module names.
- In `Scopes`: the right-hand side of an assignment, which the walker reads before the target (`analysis.go:537`; a function there that first assigns the same global is not
  covered), several variables in one declaration, `goto` and labels, attributes, fields and table constructors (their names are no variables), files with syntax errors, and places between
  tokens: `ScopeAt` is asked at names only.
- In `Documents`: carriage returns (`OffsetOf` stops at one, `offsetAt` does not), positions inside a wide character, and several documents, which share the mutex and nothing else.
- The VS Code extension, the snapshots of values, the JSON codec, localisation and scripts: glue around VS Code, formats, or without state. The one place where the extension
  enters is the restart of the server (`Documents`).
- Malformed, partial or overlong protocol lines, the token handshake of an attach, a failed `listen` or spawn.
- Breakpoint conditions, the contents of stacks, scopes, variables and snapshots. A condition or an `evaluate` that never
  ends blocks the debuggee, as in the code; the model's handlers end.
- A grandchild that keeps the output pipe open (`WaitDelay`, two seconds), and the exit code.
- A failed launch disposes of the runtime; the client starts no second one in a session.
- `configurationDone` sent late or twice: it does not ask whether the program is paused, is refused by the
  running debuggee, and the failed `Resume` marks a running program as paused (`server.go:302`).
- In `Stepping`: the error of the main chunk (after it the hook is gone), `detach` (it removes the hooks), and breakpoints, which stop any line here. A coroutine may
  yield from anywhere, also across a C function where Lua would refuse. `MaxLoops` is a bound of the model: a user who resumes failing
  coroutines by hand can nest loops as deeply as the C stack allows.
- `bpRequestMu` is held by the pump only inside one step, because what the pump does with it does not block on anything of the model.

## Next

In this order: renames of a global over several files, with files open and not open; the revision counter of the
extension's refresh, composed with `Documents`.
