----------------------------- MODULE LuaDebugger -----------------------------
(***************************************************************************)
(* vscode/lua/debugger.lua: the debuggee.  One Lua thread alternates       *)
(* between the user's code and command loops.  The blocking loop serves    *)
(* every command (at startup, and whenever the program is paused); the     *)
(* polling loop, entered from the hook, serves pause and                   *)
(* updateBreakpoints only.                                                 *)
(***************************************************************************)
EXTENDS Wire

CONSTANTS
  MaxNest,    \* bound: command loops suspended in resumeThread at one time
  PollBatch   \* commands served by one polling loop (32 in the code)

ASSUME LuaAssumption == MaxNest \in Nat /\ PollBatch \in Nat \ {0}

VARIABLES
  lpc,             \* what the Lua thread does, see LuaStates
  at,              \* file of the line the hook (or the error) looks at
  back,            \* what follows the resolvePath being waited for
  nest,            \* command loops suspended in RESUME_THREAD
  processed,       \* commands served by the current polling loop
  queuedCommands,  \* commands read while waiting for a resolvedPath
  breakpoints,     \* the breakpoint set of each file, 0 if none was received
  pauseRequested,
  stepping,        \* step # nil
  sourceCache,     \* files whose canonical path is known
  noDebug,
  dying,           \* the main chunk has failed: onError removed its hook
  adapterGone

luaVars == <<lpc, at, back, nest, processed, queuedCommands, breakpoints,
             pauseRequested, stepping, sourceCache, noDebug, dying, adapterGone>>

\* boot: the command loop before `run`, which does not set inDebugger;
\* cmd: the command loop of pause(); run: user code; poll: commandLoop(true);
\* line: the hook after the poll; resolve: resolvePath waits for its answer;
\* detached: hooks removed, an attached host goes on; gone: process exited.
LuaStates ==
  {"off", "boot", "cmd", "run", "poll", "line", "resolve", "detached", "gone"}

LuaTypeOK ==
  /\ lpc \in LuaStates
  /\ at \in Files \union {NoFile} /\ (lpc = "resolve" => at \in Files)
  /\ back \in {"line", "stop", "query"}
  /\ nest \in 0 .. MaxNest
  /\ processed \in 0 .. PollBatch - 1
  /\ queuedCommands \in Seq(Commands)
  /\ breakpoints \in [Files -> Versions]
  /\ pauseRequested \in BOOLEAN /\ stepping \in BOOLEAN
  /\ sourceCache \in SUBSET Files
  /\ noDebug \in BOOLEAN /\ dying \in BOOLEAN /\ adapterGone \in BOOLEAN

LuaInit ==
  /\ lpc = "off" /\ at = NoFile /\ back = "line"
  /\ nest = 0 /\ processed = 0
  /\ queuedCommands = <<>>
  /\ breakpoints = [f \in Files |-> 0]
  /\ pauseRequested = FALSE /\ stepping = FALSE
  /\ sourceCache = {}
  /\ noDebug = FALSE /\ dying = FALSE /\ adapterGone = FALSE

InCommandLoop == lpc \in {"boot", "cmd"}
LuaAlive == lpc \notin {"off", "gone", "detached"}
-----------------------------------------------------------------------------
(***************************************************************************)
(* Reading and writing.                                                    *)
(***************************************************************************)

Emit(messages) == protocol' = protocol \o messages

\* readCommand: queued commands first, then the stream.
HasCommand == queuedCommands # <<>> \/ stdin # <<>>
NextCommand ==
  IF queuedCommands # <<>> THEN Head(queuedCommands) ELSE Head(stdin)
TakeCommand ==
  IF queuedCommands # <<>>
  THEN queuedCommands' = Tail(queuedCommands) /\ UNCHANGED stdin
  ELSE stdin' = Tail(stdin) /\ UNCHANGED queuedCommands

\* A command with an id gets exactly one reply.
Answer(kind, c) ==
  IF c.by = Nobody THEN <<>> ELSE <<Message(kind, c.by, c.file, c.ver)>>

Stopped == Message("stopped", Nobody, NoFile, 0)
LuaOutput == Message("output", Nobody, NoFile, 0)

\* detach(): an attached host goes on without hooks.
Detach ==
  /\ lpc' = "detached"
  /\ adapterGone' = TRUE
  /\ pauseRequested' = FALSE /\ stepping' = FALSE
  /\ eof' = TRUE                        \* tcp.close()
  /\ at' = NoFile /\ back' = "line" /\ processed' = 0
  /\ UNCHANGED <<nest, queuedCommands, breakpoints, sourceCache, noDebug,
                 dying, stdin, protocol, disposed, printed>>

Exit(messages) ==
  /\ lpc' = "gone"
  /\ eof' = TRUE                        \* the pipe has no reader any more
  /\ Emit(messages)
  /\ at' = NoFile /\ back' = "line" /\ processed' = 0
  /\ UNCHANGED <<nest, queuedCommands, breakpoints, pauseRequested, stepping,
                 sourceCache, noDebug, dying, adapterGone,
                 stdin, disposed, printed>>
-----------------------------------------------------------------------------
(***************************************************************************)
(* The blocking command loop: commandLoop() with running = nil.            *)
(***************************************************************************)

\* setBreakpoints and updateBreakpoints: the set replaces the file's set;
\* updateBreakpoints also reports it as an event, and has no id.
SetBreakpointsHandler(c) ==
  /\ c.cmd \in {"setBreakpoints", "updateBreakpoints"}
  /\ breakpoints' = [breakpoints EXCEPT ![c.file] = c.ver]
  /\ Emit((IF c.cmd = "updateBreakpoints"
           THEN <<Message("breakpointsChanged", Nobody, c.file, c.ver)>>
           ELSE <<>>) \o Answer("reply", c))
  /\ UNCHANGED pauseRequested

\* A slip of PauseHandler: it does not ask whether the program is paused.
PauseAlways(c) ==
  /\ c.cmd = "pause"
  /\ pauseRequested' = TRUE
  /\ Emit(Answer("reply", c))
  /\ UNCHANGED breakpoints

\* A pause command that arrives while the program is paused is dropped.
PauseHandler(c) ==
  /\ c.cmd = "pause"
  /\ pauseRequested' = IF lpc = "cmd" THEN pauseRequested ELSE TRUE
  /\ Emit(Answer("reply", c))
  /\ UNCHANGED breakpoints

\* A handler may fail: a stale frame or reference, a coroutine that is not
\* suspended.  The error is the reply.  A slip: it is not sent.
ServeQuerySilently(c) ==
  /\ c.cmd \in {"query", "resumeThread"}
  /\ Emit(<<>>) \/ (c.cmd = "query" /\ Emit(Answer("reply", c)))
ServeQuery(c) ==
  /\ c.cmd \in {"query", "resumeThread"}
  /\ \/ Emit(Answer("error", c))
     \/ c.cmd = "query" /\ Emit(Answer("reply", c))

\* Commands that leave the loop where it is.
ServeInLoop(c) ==
  /\ \/ SetBreakpointsHandler(c)
     \/ PauseHandler(c)
     \/ /\ c.cmd \in {"capabilities", "resolved"}
        /\ Emit(Answer(IF c.cmd = "resolved" THEN "error" ELSE "reply", c))
        /\ UNCHANGED <<breakpoints, pauseRequested>>
     \/ ServeQuery(c) /\ UNCHANGED <<breakpoints, pauseRequested>>
  /\ UNCHANGED <<lpc, at, back, nest, stepping, noDebug>>

\* run, continue, next, stepIn, stepOut: leave the loop.  Only `run` sets
\* noDebug, and a run without debugging never steps.
ServeResume(c) ==
  /\ c.cmd \in {"run", "runNoDebug", "resume"}
  /\ noDebug' = IF c.cmd = "resume" THEN noDebug ELSE c.cmd = "runNoDebug"
  /\ stepping' \in BOOLEAN
  /\ noDebug' => ~stepping'
  /\ lpc' = "run"
  /\ Emit(Answer("reply", c))
  /\ UNCHANGED <<at, back, nest, breakpoints, pauseRequested>>

\* resumeThread: the reply is sent first, then the coroutine runs inside the
\* command loop, which goes on when the coroutine yields or ends.
ServeResumeThread(c) ==
  /\ c.cmd = "resumeThread"
  /\ lpc = "cmd" /\ nest < MaxNest
  /\ nest' = nest + 1
  /\ stepping' = FALSE
  /\ lpc' = "run"
  /\ Emit(Answer("reply", c))
  /\ UNCHANGED <<at, back, breakpoints, pauseRequested, noDebug>>

\* A query walks a stack with a chunk whose path is not known yet (see
\* AskNextPath for the next one).
ServeQueryResolving(c) ==
  /\ c.cmd = "query" /\ lpc = "cmd" /\ ~adapterGone
  /\ \E f \in Files \ sourceCache :
       /\ at' = f
       /\ Emit(<<Message("resolvePath", Nobody, f, 0)>>)
  /\ lpc' = "resolve" /\ back' = "query"
  /\ UNCHANGED <<nest, breakpoints, pauseRequested, stepping, noDebug>>

LuaCommand ==
  /\ InCommandLoop /\ HasCommand
  /\ LET c == NextCommand IN
       \/ ServeInLoop(c)
       \/ ServeResume(c)
       \/ ServeResumeThread(c)
       \/ ServeQueryResolving(c)
  /\ TakeCommand
  /\ UNCHANGED <<processed, sourceCache, dying, adapterGone, eof, disposed, printed>>

\* The stream ends while a loop (blocking or polling) wants a command: a
\* launched process exits, an attached host is left to itself.
InBlockingLoop == InCommandLoop         \* a slip: the poll ignores the end
InAnyLoop == InCommandLoop \/ lpc = "poll"
StreamEnded ==
  /\ eof /\ stdin = <<>> /\ queuedCommands = <<>>
  /\ InAnyLoop
  /\ IF Attach THEN Detach ELSE Exit(<<>>)
-----------------------------------------------------------------------------
(***************************************************************************)
(* The hook.                                                               *)
(***************************************************************************)

\* A line or count event in file f (NoFile: a chunk without a path, or
\* debugger.lua itself).  Only some events poll.
HookEnter(f) ==
  /\ f = NoFile => "unnamed" \in Does
  /\ lpc = "run" /\ ~noDebug
  /\ ~dying \/ nest > 0
  /\ \/ lpc' = "line"
     \/ Live /\ lpc' = "poll"
  /\ at' = f
  /\ UNCHANGED <<back, nest, processed, queuedCommands, breakpoints,
                 pauseRequested, stepping, sourceCache, noDebug, dying,
                 adapterGone, wireVars>>

\* commandLoop(true): pause and updateBreakpoints are served, anything else is
\* answered with "unknown command"; after PollBatch commands the loop ends.
PollCommand ==
  /\ lpc = "poll" /\ HasCommand
  /\ LET c == NextCommand IN
       IF c.cmd \in {"pause", "updateBreakpoints"}
       THEN PauseHandler(c) \/ SetBreakpointsHandler(c)
       ELSE Emit(Answer("error", c)) /\ UNCHANGED <<breakpoints, pauseRequested>>
  /\ TakeCommand
  /\ IF processed + 1 = PollBatch
     THEN lpc' = "line" /\ processed' = 0
     ELSE processed' = processed + 1 /\ UNCHANGED lpc
  /\ UNCHANGED <<at, back, nest, stepping, sourceCache, noDebug, dying,
                 adapterGone, eof, disposed, printed>>

PollEmpty ==
  /\ lpc = "poll" /\ ~HasCommand /\ ~eof
  /\ lpc' = "line" /\ processed' = 0
  /\ UNCHANGED <<at, back, nest, queuedCommands, breakpoints, pauseRequested,
                 stepping, sourceCache, noDebug, dying, adapterGone, wireVars>>

\* The hook looks further only if something can stop the program here.
Interested == pauseRequested \/ stepping \/ \E f \in Files : breakpoints[f] # 0

\* No stop: nothing to look for, a chunk without a path, a count event, a line
\* without a matching breakpoint.  A requested pause is never passed over in a
\* file that has a path.
HookReturn ==
  /\ lpc = "line"
  /\ at = NoFile \/ ~pauseRequested
  /\ lpc' = "run" /\ at' = NoFile
  /\ UNCHANGED <<back, nest, processed, queuedCommands, breakpoints,
                 pauseRequested, stepping, sourceCache, noDebug, dying,
                 adapterGone, wireVars>>

\* resolvePath(path): ask the adapter and wait; `then` is what needed the path.
AskPath(f, then) ==
  /\ f \notin sourceCache
  /\ lpc' = "resolve" /\ back' = then /\ at' = f
  /\ IF adapterGone
     THEN UNCHANGED protocol
     ELSE Emit(<<Message("resolvePath", Nobody, f, 0)>>)
  /\ UNCHANGED <<pauseRequested, stepping>>

\* pause(): the stopped event, then the blocking command loop.
Pause ==
  /\ lpc' = "cmd" /\ back' = "line" /\ at' = NoFile
  /\ stepping' = FALSE /\ pauseRequested' = FALSE
  /\ Emit(<<Stopped>>)

HookStop ==
  /\ lpc = "line" /\ at # NoFile /\ Interested
  /\ \/ AskPath(at, "line")
     \/ /\ at \in sourceCache
        /\ pauseRequested \/ stepping \/ breakpoints[at] # 0
        /\ Pause
  /\ UNCHANGED <<nest, processed, queuedCommands, breakpoints, sourceCache,
                 noDebug, dying, adapterGone, stdin, eof, disposed, printed>>

\* Without debugging an error is only reported.
PauseUnlessBlind ==
  \/ ~noDebug /\ Pause
  \/ noDebug /\ lpc' = "run" /\ back' = "line" /\ at' = NoFile
     /\ UNCHANGED <<pauseRequested, stepping, protocol>>

\* An error of the main chunk (onError, which removes the hook of a launched
\* program for good), or one of a coroutine that its creator catches
\* (breakOnCoroutineErrors, which needs debugging): both pause at the error,
\* once its path is known.  A coroutine resumed by hand after the main chunk
\* has failed may fail as well.
ErrorStop(f) ==
  /\ "fail" \in Does
  /\ lpc = "run" /\ (dying => nest > 0)
  /\ dying' \in (IF nest > 0 \/ Attach THEN {dying}
                 ELSE IF noDebug THEN {TRUE} ELSE BOOLEAN)
  /\ AskPath(f, "stop") \/ (f \in sourceCache /\ PauseUnlessBlind)
  /\ UNCHANGED <<nest, processed, queuedCommands, breakpoints, sourceCache,
                 noDebug, adapterGone, stdin, eof, disposed, printed>>

\* resolvePath reads the stream until the answer, and keeps the commands it
\* meets for the next command loop.  A slip: it forgets them.
ForgetCommand(c) == UNCHANGED queuedCommands
KeepCommand(c) == queuedCommands' = Append(queuedCommands, c)
ResolveQueue ==
  /\ lpc = "resolve" /\ ~adapterGone
  /\ stdin # <<>> /\ Head(stdin).cmd # "resolved"
  /\ KeepCommand(Head(stdin))
  /\ stdin' = Tail(stdin)
  /\ UNCHANGED <<lpc, at, back, nest, processed, breakpoints, pauseRequested,
                 stepping, sourceCache, noDebug, dying, adapterGone,
                 protocol, eof, disposed, printed>>

\* The answer, or the end of the stream, which stands for the unresolved path.
PathAnsweredOnly ==                     \* a slip: the end of the stream
  /\ ~adapterGone /\ stdin # <<>> /\ Head(stdin).cmd = "resolved"
  /\ stdin' = Tail(stdin) /\ UNCHANGED adapterGone
PathKnown ==
  \/ adapterGone /\ UNCHANGED <<stdin, adapterGone>>
  \/ /\ ~adapterGone /\ stdin # <<>> /\ Head(stdin).cmd = "resolved"
     /\ stdin' = Tail(stdin) /\ UNCHANGED adapterGone
  \/ /\ ~adapterGone /\ stdin = <<>> /\ eof
     /\ adapterGone' = TRUE /\ UNCHANGED stdin

\* The stack of a query has another chunk whose path is not known.
AskNextPath ==
  /\ \E f \in Files \ sourceCache' :
       /\ at' = f
       /\ Emit(<<Message("resolvePath", Nobody, f, 0)>>)
  /\ UNCHANGED <<lpc, back, pauseRequested, stepping>>

ResolveDone ==
  /\ lpc = "resolve"
  /\ PathKnown
  /\ sourceCache' = sourceCache \union {at}
  /\ \/ back = "stop" /\ PauseUnlessBlind
     \/ /\ back = "line" /\ lpc' = "line"
        /\ UNCHANGED <<at, back, pauseRequested, stepping, protocol>>
     \/ /\ back = "query" /\ lpc' = "cmd" /\ back' = "line" /\ at' = NoFile
        /\ Emit(<<Message("reply", "loop", NoFile, 0)>>)
        /\ UNCHANGED <<pauseRequested, stepping>>
     \/ back = "query" /\ ~adapterGone' /\ AskNextPath
  /\ UNCHANGED <<nest, processed, queuedCommands, breakpoints, noDebug, dying,
                 eof, disposed, printed>>
-----------------------------------------------------------------------------
(***************************************************************************)
(* The program.                                                            *)
(***************************************************************************)

\* main() of the spawned process, or the host that accepted the connection.
LuaStart == lpc = "off" /\ lpc' = "boot"

\* A coroutine resumed by the user yields or ends: back to the command loop
\* that resumed it.  pauseRequested is not reset here.
CoroutineReturns ==
  /\ lpc = "run" /\ nest > 0
  /\ nest' = nest - 1
  /\ lpc' = "cmd"
  /\ stepping' = FALSE
  /\ \E failed \in BOOLEAN :
       Emit((IF failed THEN <<LuaOutput>> ELSE <<>>) \o <<Stopped>>)
  /\ UNCHANGED <<at, back, processed, queuedCommands, breakpoints,
                 pauseRequested, sourceCache, noDebug, dying, adapterGone,
                 stdin, eof, disposed, printed>>

\* The program writes to stdout or stderr.
ProgramPrints ==
  /\ "print" \in Does
  /\ lpc = "run" /\ printed = 0 /\ ~Attach
  /\ printed' = 1
  /\ UNCHANGED <<luaVars, stdin, protocol, eof, disposed>>

\* The program ends: the traceback of an error goes through the protocol.
ProgramEnds ==
  /\ "end" \in Does
  /\ lpc = "run" /\ ~Attach
  /\ \E failed \in BOOLEAN : Exit(IF failed THEN <<LuaOutput>> ELSE <<>>)

\* After an error of the main chunk the debugger itself ends the process.
FailedProgramEnds ==
  /\ lpc = "run" /\ dying /\ nest = 0
  /\ Exit(<<LuaOutput>>)

\* The host of an attach session calls stop().
HostStops ==
  /\ "stop" \in Does
  /\ lpc = "run" /\ Attach /\ nest = 0
  /\ Detach

PathComes ==
  \/ adapterGone
  \/ stdin # <<>> /\ Head(stdin).cmd = "resolved"
  \/ stdin = <<>> /\ eof

\* send: an attached host whose message cannot be written (the connection is
\* closed, or the adapter does not read for too long) goes on at once.
SendFails ==
  /\ Attach
  /\ \/ InAnyLoop /\ HasCommand
     \/ lpc = "line" /\ at # NoFile /\ Interested
     \/ lpc = "resolve" /\ back # "line" /\ PathComes
     \/ lpc = "run" /\ ("fail" \in Does \/ nest > 0)
  /\ Detach

LuaKilled ==
  /\ disposed /\ ~Attach /\ LuaAlive
  /\ Exit(<<>>)

LuaLoopStep == LuaCommand \/ StreamEnded \/ FailedProgramEnds
LuaHookStep ==
  \/ PollCommand \/ PollEmpty
  \/ HookReturn \/ HookStop
  \/ ResolveQueue \/ ResolveDone
ProgramStep ==
  \/ \E f \in Files \union {NoFile} : HookEnter(f)
  \/ \E f \in Files : ErrorStop(f)
  \/ CoroutineReturns \/ ProgramPrints \/ ProgramEnds \/ HostStops
  \/ SendFails

LuaStep == LuaLoopStep \/ LuaHookStep \/ ProgramStep \/ LuaKilled

=============================================================================
