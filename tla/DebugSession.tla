----------------------------- MODULE DebugSession -----------------------------
(***************************************************************************)
(* A debug session: the client's requests, the adapter and the debuggee,   *)
(* connected by the command and the protocol stream.                       *)
(***************************************************************************)
EXTENDS LuaDebugger, AdapterRuntime

vars == <<wireVars, luaVars, adapterVars>>

Init == WireInit /\ LuaInit /\ AdapterInit

\* Launching spawns the process; attaching finds a host that listens.
Start ==
  /\ Launch /\ LuaStart
  /\ UNCHANGED <<at, back, nest, processed, queuedCommands, breakpoints,
                 pauseRequested, stepping, sourceCache, noDebug, dying,
                 adapterGone>>

\* cmd.Wait returns once the process has exited and its output was copied.
ProcessWaited ==
  /\ ~Attach /\ lpc = "gone" /\ printed = 0 /\ ~done
  /\ done' = TRUE
  /\ UNCHANGED <<flags, callVars, setVars, writer, reader, pump, pumpEvent,
                 clientVars, commands, events, wireVars, luaVars>>

\* The adapter process is killed: its goroutines, its channels and its ends of
\* the streams disappear; the debuggee is not told otherwise.
Crashed == pc["loop"] = "ended" /\ ~disposed

Crash ==
  /\ MayCrash /\ ~Crashed /\ ~disposed
  /\ eof' = TRUE
  /\ pc' = [c \in Callers |-> IF c = "loop" THEN "ended" ELSE "off"]
  /\ req' = "none" /\ job' = [c \in Callers |-> NoJob]
  /\ pending' = {} /\ outcome' = [c \in Callers |-> "none"]
  /\ pendingBreakpoints' = NoSets /\ queued' = [k \in Flushers |-> NoSets]
  /\ announces' = {} /\ bpRequestMu' = FALSE
  /\ writer' = "off" /\ reader' = "done" /\ done' = TRUE
  /\ pump' = "done" /\ pumpEvent' = PlainEvent("exit")
  /\ commands' = <<>> /\ events' = <<>>
  /\ paused' = FALSE /\ liveControl' = FALSE /\ closed' = TRUE
  /\ UNCHANGED <<clientVars, stdin, protocol, disposed, printed, luaVars>>

\* One action per goroutine or thread, so that fairness can be stated for each.
Client ==
  /\ \/ QueryRequest \/ PauseRequest \/ Terminate
     \/ \E f \in Files : SetBreakpointsRequest(f)
     \/ \E r \in Resumes : ResumeRequest(r)
  /\ UNCHANGED luaVars
RequestLoop == LoopStep /\ UNCHANGED luaVars
HandshakeTimeout == HandshakeFailed /\ UNCHANGED luaVars
Flush(k) == FlushStep(k) /\ UNCHANGED luaVars
Writer == (Write \/ WriterStops) /\ UNCHANGED luaVars
Reader == Read /\ UNCHANGED luaVars
ReaderExit == (ReaderEnds \/ Close) /\ UNCHANGED luaVars
ExitEvents == ReportExit /\ UNCHANGED luaVars
Copier == CopyOutput /\ UNCHANGED luaVars
Pump == PumpReceive /\ UNCHANGED luaVars
PumpLock == PumpBreakpoints /\ UNCHANGED luaVars
CommandLoop == LuaLoopStep /\ UNCHANGED adapterVars
Hook == LuaHookStep /\ UNCHANGED adapterVars
Program == ProgramStep /\ UNCHANGED adapterVars
KilledProcess == LuaKilled /\ UNCHANGED adapterVars

Next ==
  \/ Start \/ Client \/ RequestLoop \/ HandshakeTimeout
  \/ \E k \in Flushers : Flush(k)
  \/ Writer \/ Reader \/ ReaderExit \/ ExitEvents \/ Copier \/ Pump \/ PumpLock
  \/ CommandLoop \/ Hook \/ Program \/ KilledProcess
  \/ ProcessWaited \/ Crash

Spec == Init /\ [][Next]_vars

(***************************************************************************)
(* Fairness.  Every goroutine that can run eventually does.  A goroutine   *)
(* that waits for room in Events or for bpRequestMu gets it if it becomes  *)
(* available again and again: Go wakes the senders of a channel in the     *)
(* order they came, and a mutex waiter after one millisecond at most.      *)
(* The handshake is given up after five seconds, or at once if it fails.   *)
(* debugger.lua always goes on once it has control; nothing is assumed of  *)
(* the debugged program.                                                   *)
(***************************************************************************)
AdapterFairness ==
  /\ WF_vars(RequestLoop) /\ WF_vars(HandshakeTimeout)
  /\ WF_vars(ProcessWaited) /\ WF_vars(Writer)
  /\ SF_vars(Reader) /\ WF_vars(ReaderExit)
  /\ SF_vars(ExitEvents) /\ SF_vars(Copier)
  /\ WF_vars(Pump) /\ SF_vars(PumpLock)
  /\ \A k \in Flushers : SF_vars(Flush(k))

LuaFairness == WF_vars(CommandLoop) /\ WF_vars(Hook) /\ WF_vars(KilledProcess)

FairSpec == Spec /\ AdapterFairness /\ LuaFairness

\* A program that goes on executing lines reaches a hook that polls.
Polls == Program /\ lpc' = "poll"
BusyProgramSpec == FairSpec /\ SF_vars(Polls)
-----------------------------------------------------------------------------
(***************************************************************************)
(* Safety.                                                                 *)
(***************************************************************************)

\* The state has the shape the code gives it: among other things the two
\* channels never exceed their capacity (runtime.go:141,145).
TypeOK == WireTypeOK /\ LuaTypeOK /\ AdapterTypeOK

LuaWaits == InCommandLoop \/ (lpc = "resolve" /\ back = "query")

\* Whenever the adapter takes the debuggee for paused (requirePaused,
\* server.go:334), the debuggee does wait for commands, or is gone: no request
\* ever inspects the stack of a running program, however resumes, stops and
\* coroutine resumptions overlap with messages in flight.
PausedMeansWaiting == AnswersPaused => LuaWaits \/ ~LuaAlive

CountIn(s, Test(_)) == Cardinality({i \in 1 .. Len(s) : Test(s[i])})

\* The places where the call of c can be: its command on the way, its reply on
\* the way back, or the query that waits for a path.
PlacesOf(c) ==
  LET Mine(m) == m.by = c
      Reply(m) == m.to = c
  IN CountIn(commands, Mine) + CountIn(stdin, Mine)
     + CountIn(queuedCommands, Mine) + CountIn(protocol, Reply)
     + (IF c = "loop" /\ lpc = "resolve" /\ back = "query" THEN 1 ELSE 0)

\* A caller blocked in send (runtime.go:371) is owed exactly one reply, and
\* its command or reply exists exactly once between the two processes, as long
\* as the stream is up; so it neither waits for nothing nor is answered twice,
\* whatever loop (blocking, polling, resolvePath) reads the command.
CallInOnePlace ==
  \A c \in Callers :
    /\ PlacesOf(c) <= 1
    /\ c \in pending /\ ~eof /\ ~disposed => PlacesOf(c) = 1

\* Once the runtime is closed nobody is left waiting for a reply, and nobody
\* starts to (runtime.go:348 against runtime.go:303-308).
ClosedLeavesNoCaller == closed => pending = {}

\* A pause request does not survive the stop it raced with
\* (debugger.lua:558): the command loop of a stop starts without one and never
\* acquires one.
NoStalePause == lpc = "cmd" => ~pauseRequested

\* The client learns that a set is verified only after the response to the
\* request that carried it (server.go:56, bpRequestMu).
VerifiedAfterResponse == \A f \in Files : shown[f] <= acked[f]

Quiescent ==
  /\ LoopIdle /\ \A k \in Flushers : Idle(k)
  /\ commands = <<>> /\ stdin = <<>> /\ queuedCommands = <<>> /\ protocol = <<>>
  /\ pendingBreakpoints = NoSets
  /\ Spawned /\ LuaAlive /\ ~eof /\ ~disposed

\* When nothing is in flight, the debuggee uses for each file the last set the
\* adapter answered: none is lost in a queue or overtaken by an older one.
LastSetWins == Quiescent => breakpoints = acked

HasEvent(kind) == \E i \in 1 .. Len(events) : events[i].kind = kind

\* The client is told that the program ended after everything the program and
\* debugger.lua wrote, including what was still in a pipe or in the session
\* file when the process exited (runtime.go:276-310, transport.go:28).
OutputBeforeTerminated ==
  pump = "done" /\ ~Attach /\ ~Crashed =>
    printed = 0 /\ protocol = <<>> /\ ~HasEvent("output")

\* Control of the program passes as ControlHandoff says.
Control ==
  IF lpc = "off" THEN "none"
  ELSE IF ~LuaAlive \/ eof \/ disposed THEN "over"
  ELSE IF paused THEN "client"
  ELSE IF ~LuaWaits THEN "program"
  ELSE IF \E i \in 1 .. Len(protocol) : protocol[i].kind = "stopped"
       THEN "returned" ELSE "granted"

Handoff == INSTANCE ControlHandoff WITH control <- Control
HandsOff == Handoff!Spec
-----------------------------------------------------------------------------
(***************************************************************************)
(* Liveness.                                                               *)
(***************************************************************************)

LoopBusy == pc["loop"] \notin {"idle", "ended"}

\* The request loop always comes back for the next request, so disconnect and
\* terminate work whatever the program does (runtime.go:454-455).
RequestAnswered == LoopBusy ~> ~LoopBusy

\* The debuggee never waits for a path for good: it gets the answer, the end
\* of the stream, or is killed (runtime.go:597-602).
PathAnswered == lpc = "resolve" ~> lpc # "resolve"

\* The end of the process, or of the connection, reaches the client as a
\* terminated event.
ExitReported == ~LuaAlive /\ Launched ~> pump = "done"

\* After the adapter died, a busy program with live control ends (or an
\* attached host is detached), debugger.lua:678-680.
OrphanEnds == Crashed ~> ~LuaAlive

=============================================================================
