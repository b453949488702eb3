---------------------------- MODULE AdapterRuntime ----------------------------
(***************************************************************************)
(* internal/dap: the adapter.  The request loop of the server (server.go)  *)
(* and the goroutines of the runtime (runtime.go, attach.go): the command  *)
(* writer, the protocol reader, the output copier, the flushes of queued   *)
(* breakpoints and the event pump.  Everything under the runtime's mutex   *)
(* is one step; a step ends where the mutex is released or the goroutine   *)
(* may block.                                                              *)
(***************************************************************************)
EXTENDS Wire

CONSTANTS
  CmdCap,     \* capacity of the commands channel (64 in the code)
  EvCap,      \* capacity of the Events channel (64 in the code)
  MaxPauses,  \* bound: pause requests between two stopped events
  EarlySets,  \* the client sends setBreakpoints before the launch response
  MayCrash,   \* the adapter process may be killed
  Patient     \* the client resumes only after it received a stopped event

ASSUME AdapterAssumption ==
  /\ CmdCap \in Nat \ {0} /\ EvCap \in Nat \ {0}
  /\ MaxPauses \in Nat
  /\ EarlySets \in BOOLEAN /\ MayCrash \in BOOLEAN /\ Patient \in BOOLEAN

VARIABLES
  paused, liveControl, closed,   \* flags of Runtime
  pending,             \* callers whose reply channel is registered
  outcome,             \* what each caller's call has come to
  pendingBreakpoints,  \* sets to apply at the next stop, 0 for none
  commands, events,    \* the two bounded channels
  writer, reader, done,
  pump, pumpEvent,     \* the event pump, and the event it holds
  pc,                  \* what each caller does
  req,                 \* the request the loop serves
  job,                 \* the file and the set each caller works on
  queued,              \* what each flush took from pendingBreakpoints
  announces,           \* flushes that end with a stopped event
  bpRequestMu,         \* TRUE: held by the request loop
  configured, nextSet, \* the client: configurationDone sent, sets sent
  acked, shown,        \* the client: sets answered, sets reported verified
  told,                \* the client: FALSE while it waits for a stopped event
  pauses               \* the client: pauses sent since the last stopped event

flags == <<paused, liveControl, closed>>
callVars == <<pc, req, job, pending, outcome>>
setVars == <<pendingBreakpoints, queued, announces, bpRequestMu>>
taskVars == <<writer, reader, done, pump, pumpEvent>>
clientVars == <<configured, nextSet, acked, shown, told, pauses>>
adapterVars ==
  <<flags, callVars, setVars, taskVars, clientVars, commands, events>>

Resumes == {"run", "runNoDebug", "resume", "resumeThread"}
Requests == {"none", "launch", "setBreakpoints", "query", "pause"} \union Resumes

\* The request loop is idle, in Start, waiting for bpRequestMu (lock) or has
\* ended.  A flush is off, about to take the queue or between two files.
\* The others are the steps of SetBreakpoints and of call.
PCs == {"idle", "start", "lock", "ended", "off", "take", "next",
        "decide", "notify", "call", "await"}

Outcomes == {"none", "ok", "queued", "error"}

EventKinds == {"stopped", "output", "flushFailed", "exited", "exit",
               "breakpointsChanged", "breakpointsQueued"}
Events == [kind : EventKinds, file : Files \union {NoFile}, ver : Versions]
Event(kind, file, ver) == [kind |-> kind, file |-> file, ver |-> ver]
PlainEvent(kind) == Event(kind, NoFile, 0)

NoJob == [file |-> NoFile, ver |-> 0]
NoSets == [f \in Files |-> 0]

AdapterTypeOK ==
  /\ paused \in BOOLEAN /\ liveControl \in BOOLEAN /\ closed \in BOOLEAN
  /\ pending \in SUBSET Callers
  /\ outcome \in [Callers -> Outcomes]
  /\ pendingBreakpoints \in [Files -> Versions]
  /\ commands \in Seq(Commands) /\ Len(commands) <= CmdCap
  /\ events \in Seq(Events) /\ Len(events) <= EvCap
  /\ writer \in {"off", "on"}
  /\ reader \in {"off", "read", "close", "exited", "exit", "done"}
  /\ done \in BOOLEAN
  /\ pump \in {"off", "receive", "lock", "done"}
  /\ pumpEvent \in Events
  /\ pc \in [Callers -> PCs]
  /\ req \in Requests
  /\ pc["loop"] \in {"lock", "decide"} => req = "setBreakpoints"
  /\ pc["loop"] = "call" => req \in Resumes \union {"setBreakpoints", "query"}
  /\ job \in [Callers -> [file : Files \union {NoFile}, ver : Versions]]
  /\ queued \in [Flushers -> [Files -> Versions]]
  /\ announces \in SUBSET Flushers
  /\ bpRequestMu \in BOOLEAN /\ configured \in BOOLEAN
  /\ nextSet \in 0 .. MaxSets /\ told \in BOOLEAN
  /\ pauses \in 0 .. MaxPauses
  /\ acked \in [Files -> Versions] /\ shown \in [Files -> Versions]

AdapterInit ==
  /\ paused = FALSE /\ liveControl = FALSE /\ closed = FALSE
  /\ pending = {} /\ outcome = [c \in Callers |-> "none"]
  /\ pendingBreakpoints = NoSets
  /\ commands = <<>> /\ events = <<>>
  /\ writer = "off" /\ reader = "off" /\ done = FALSE
  /\ pump = "off" /\ pumpEvent = PlainEvent("exit")
  /\ pc = [c \in Callers |-> IF c = "loop" THEN "idle" ELSE "off"]
  /\ req = "none"
  /\ job = [c \in Callers |-> NoJob]
  /\ queued = [k \in Flushers |-> NoSets]
  /\ announces = {}
  /\ bpRequestMu = FALSE
  /\ configured = FALSE /\ nextSet = 0
  /\ acked = NoSets /\ shown = NoSets /\ told = TRUE /\ pauses = 0

Spawned == reader # "off"                      \* r.stdin # nil
Launched == pump # "off"                       \* the launch response is sent
AnswersPaused == paused /\ Spawned /\ ~closed  \* Runtime.Paused
Idle(k) == pc[k] = "off"

HasRoom(ch, cap) == Len(ch) < cap
Push(e) == HasRoom(events, EvCap) /\ events' = Append(events, e)
Goto(c, label) == pc' = [pc EXCEPT ![c] = label]
Finish(c, result) == outcome' = [outcome EXCEPT ![c] = result]
-----------------------------------------------------------------------------
(***************************************************************************)
(* Runtime.send and call, Runtime.SetBreakpoints: by any caller.           *)
(***************************************************************************)

CommandOf(c) ==
  IF c = "handshake" THEN Command("capabilities", c, NoFile, 0)
  ELSE IF c = "loop" /\ req # "setBreakpoints" THEN Command(req, c, NoFile, 0)
  ELSE Command("setBreakpoints", c, job[c].file, job[c].ver)

\* Slips of Refused: the channel is taken for unbounded; or a runtime that was
\* closed in the meantime is not noticed.
UnboundedQueue == closed
ClosedUnnoticed == ~HasRoom(commands, CmdCap)

\* A command is refused once the runtime is closed, and when the queue is full.
Refused == closed \/ ~HasRoom(commands, CmdCap)

\* send: unless refused, the reply channel is registered and the command
\* queued.  The code registers the channel, tries the queue, and takes the
\* channel back under the mutex again when the queue is full; nobody else uses
\* the id, so one step stands for both critical sections.
Call(c) ==
  /\ pc[c] = "call"
  /\ Goto(c, "await")
  /\ IF Refused
     THEN Finish(c, "error") /\ UNCHANGED <<pending, commands>>
     ELSE /\ commands' = Append(commands, CommandOf(c))
          /\ pending' = pending \union {c}
          /\ UNCHANGED outcome
  /\ UNCHANGED <<flags, req, job, setVars, taskVars, clientVars, events, wireVars>>

\* SetBreakpoints looks at the flags under the mutex and acts after releasing
\* it, except that queueing for the next stop is done under the mutex.
Decide(c) ==
  /\ pc[c] = "decide"
  /\ IF paused /\ Spawned
     THEN Goto(c, "call") /\ UNCHANGED <<outcome, pendingBreakpoints>>
     ELSE IF liveControl /\ Spawned /\ ~closed
     THEN Goto(c, "notify") /\ UNCHANGED <<outcome, pendingBreakpoints>>
     ELSE /\ pendingBreakpoints' =
               [pendingBreakpoints EXCEPT ![job[c].file] = job[c].ver]
          /\ Goto(c, "await") /\ Finish(c, "queued")
  /\ UNCHANGED <<flags, req, job, pending, queued, announces, bpRequestMu,
                 taskVars, clientVars, commands, events, wireVars>>

\* notify: queue a command without an id; nobody waits for it.
Notify(c) ==
  /\ pc[c] = "notify"
  /\ Goto(c, "await")
  /\ IF Refused
     THEN Finish(c, "error") /\ UNCHANGED commands
     ELSE /\ commands' = Append(commands,
               IF c = "loop" /\ req = "pause"
               THEN Command("pause", Nobody, NoFile, 0)
               ELSE Command("updateBreakpoints", Nobody, job[c].file, job[c].ver))
          /\ Finish(c, "queued")
  /\ UNCHANGED <<flags, req, job, pending, setVars, taskVars, clientVars,
                 events, wireVars>>
-----------------------------------------------------------------------------
(***************************************************************************)
(* The request loop of the server: one request at a time.                  *)
(***************************************************************************)

LoopIdle == pc["loop"] = "idle"

\* onLaunch and Start (or onAttach and Attach) up to the handshake: the
\* debuggee runs, blocked in its command loop, and counts as paused.
Launch ==
  /\ LoopIdle /\ ~Spawned
  /\ req' = "launch"
  /\ pc' = [pc EXCEPT !["loop"] = "start", !["handshake"] = "call"]
  /\ paused' = TRUE
  /\ writer' = "on" /\ reader' = "read"
  /\ UNCHANGED <<liveControl, closed, job, pending, outcome, setVars, done,
                 pump, pumpEvent, clientVars, commands, events, wireVars>>

FreeFlusher == CHOOSE k \in Flushers : Idle(k)

\* The handshake reply: record live control, start the flush of the sets
\* queued before the launch and the event pump, send the launch response.
HandshakeDone ==
  /\ pc["loop"] = "start" /\ outcome["handshake"] = "ok"
  /\ liveControl' = Live
  /\ pc' = [pc EXCEPT !["loop"] = "idle", !["handshake"] = "off",
                      ![FreeFlusher] = "take"]
  /\ outcome' = [outcome EXCEPT !["handshake"] = "none"]
  /\ req' = "none"
  /\ pump' = "receive"
  /\ UNCHANGED <<paused, closed, job, pending, setVars, writer, reader, done,
                 pumpEvent, clientVars, commands, events, wireVars>>

\* Dispose: kill the process, or close the connection of an attach session.
Dispose ==
  /\ disposed' = TRUE
  /\ eof' = (eof \/ Attach)

\* An error reply or five seconds without one: dispose and fail the launch.
HandshakeFailed ==
  /\ pc["loop"] = "start" /\ outcome["handshake"] # "ok"
  /\ Dispose
  /\ Goto("loop", "idle") /\ req' = "none"
  /\ UNCHANGED <<flags, job, pending, outcome, setVars, taskVars, clientVars,
                 commands, events, stdin, protocol, printed>>

\* onSetBreakpoints, before it takes bpRequestMu.
SetBreakpointsRequest(f) ==
  /\ LoopIdle
  /\ Launched \/ EarlySets
  /\ nextSet < MaxSets
  /\ nextSet' = nextSet + 1
  /\ req' = "setBreakpoints"
  /\ job' = [job EXCEPT !["loop"] = [file |-> f, ver |-> nextSet']]
  /\ Goto("loop", "lock")
  /\ UNCHANGED <<flags, pending, outcome, setVars, taskVars, configured, acked,
                 shown, told, pauses, commands, events, wireVars>>

\* The pump holds bpRequestMu only inside one step of this model.
LockBpRequest ==
  /\ pc["loop"] = "lock" /\ ~bpRequestMu
  /\ bpRequestMu' = TRUE
  /\ Goto("loop", "decide")
  /\ UNCHANGED <<flags, req, job, pending, outcome, pendingBreakpoints, queued,
                 announces, taskVars, clientVars, commands, events, wireVars>>

\* A slip of MarkRunning: the flag is left for later.
MarkLater == UNCHANGED paused

\* Resume: the runtime counts as running before the command is sent.  `run`
\* (configurationDone) does not ask whether the program is paused: the client
\* sends it once, and before any continue or step.
MarkRunning == paused' = FALSE

ResumeRequest(r) ==
  /\ r \in Asks
  /\ LoopIdle /\ Launched
  /\ \/ r \in {"run", "runNoDebug"} /\ ~configured /\ configured' = TRUE
     \/ /\ r \in {"resume", "resumeThread"} /\ AnswersPaused
        /\ configured /\ UNCHANGED configured
        /\ told
  /\ told' = ~Patient
  /\ r = "runNoDebug" => ~Attach
  /\ MarkRunning
  /\ liveControl' = (liveControl /\ r # "runNoDebug")
  /\ req' = r
  /\ Goto("loop", "call")
  /\ UNCHANGED <<closed, job, pending, outcome, setVars, taskVars, nextSet,
                 acked, shown, pauses, commands, events, wireVars>>

\* threads, stackTrace, scopes, variables, snapshot, evaluate.
QueryRequest ==
  /\ "query" \in Asks
  /\ LoopIdle /\ AnswersPaused
  /\ req' = "query"
  /\ Goto("loop", "call")
  /\ UNCHANGED <<flags, job, pending, outcome, setVars, taskVars, clientVars,
                 commands, events, wireVars>>

\* Pause: nothing to do while paused, an error without live control.
PauseRequest ==
  /\ "pause" \in Asks
  /\ LoopIdle /\ Spawned
  /\ ~paused /\ liveControl
  /\ pauses < MaxPauses /\ pauses' = pauses + 1
  /\ req' = "pause"
  /\ Goto("loop", "notify")
  /\ UNCHANGED <<flags, job, pending, outcome, setVars, taskVars, configured,
                 nextSet, acked, shown, told, commands, events, wireVars>>

\* A slip of PausedAfterReply: the flag is restored whatever the reply says.
PausedAfterAnyReply == paused \/ req \in Resumes

\* A Resume that failed leaves the program paused.
PausedAfterReply == paused \/ (req \in Resumes /\ outcome["loop"] = "error")

\* The end of a request: a failed Resume counts as paused again, and the
\* setBreakpoints response is sent before bpRequestMu is released.
LoopResponds ==
  /\ pc["loop"] = "await" /\ outcome["loop"] # "none"
  /\ paused' = PausedAfterReply
  /\ IF req = "setBreakpoints" /\ outcome["loop"] # "error"
     THEN acked' = [acked EXCEPT ![job["loop"].file] = job["loop"].ver]
     ELSE UNCHANGED acked
  /\ bpRequestMu' = FALSE
  /\ Goto("loop", "idle") /\ req' = "none"
  /\ Finish("loop", "none") /\ job' = [job EXCEPT !["loop"] = NoJob]
  /\ UNCHANGED <<liveControl, closed, pending, pendingBreakpoints, queued,
                 announces, taskVars, configured, nextSet, shown, told,
                 pauses, commands, events, wireVars>>

\* terminate, disconnect and the end of the client's stream; the last two end
\* the loop, and the process of the adapter with it.
Terminate ==
  /\ "terminate" \in Asks
  /\ LoopIdle /\ Spawned /\ ~disposed
  /\ Dispose
  /\ Goto("loop", "idle") \/ Goto("loop", "ended")
  /\ UNCHANGED <<flags, req, job, pending, outcome, setVars, taskVars,
                 clientVars, commands, events, stdin, protocol, printed>>
-----------------------------------------------------------------------------
(***************************************************************************)
(* flushPendingBreakpoints, one goroutine per stop.                        *)
(***************************************************************************)

FlushTake(k) ==
  /\ pc[k] = "take"
  /\ queued' = [queued EXCEPT ![k] = pendingBreakpoints]
  /\ pendingBreakpoints' = NoSets
  /\ Goto(k, "next")
  /\ UNCHANGED <<flags, req, job, pending, outcome, announces, bpRequestMu,
                 taskVars, clientVars, commands, events, wireVars>>

FlushFile(k, f) ==
  /\ pc[k] = "next" /\ queued[k][f] # 0
  /\ job' = [job EXCEPT ![k] = [file |-> f, ver |-> queued[k][f]]]
  /\ queued' = [queued EXCEPT ![k][f] = 0]
  /\ Goto(k, "decide")
  /\ UNCHANGED <<flags, req, pending, outcome, pendingBreakpoints, announces,
                 bpRequestMu, taskVars, clientVars, commands, events, wireVars>>

\* The result of a file goes to the client as an event.
FlushReport(k) ==
  /\ pc[k] = "await" /\ outcome[k] # "none"
  /\ Push(Event(CASE outcome[k] = "ok" -> "breakpointsChanged"
                  [] outcome[k] = "queued" -> "breakpointsQueued"
                  [] outcome[k] = "error" -> "flushFailed",
                job[k].file, job[k].ver))
  /\ Finish(k, "none") /\ job' = [job EXCEPT ![k] = NoJob]
  /\ Goto(k, "next")
  /\ UNCHANGED <<flags, req, pending, setVars, taskVars, clientVars, commands,
                 wireVars>>

\* The stopped event follows the updates of its flush.
FlushEnd(k) ==
  /\ pc[k] = "next" /\ queued[k] = NoSets
  /\ IF k \in announces THEN Push(PlainEvent("stopped")) ELSE UNCHANGED events
  /\ announces' = announces \ {k}
  /\ Goto(k, "off")
  /\ UNCHANGED <<flags, req, job, pending, outcome, pendingBreakpoints, queued,
                 bpRequestMu, taskVars, clientVars, commands, wireVars>>
-----------------------------------------------------------------------------
(***************************************************************************)
(* The goroutines of the runtime.                                          *)
(***************************************************************************)

\* The writer moves one command into the pipe, and waits while that is full.
Write ==
  /\ writer = "on" /\ commands # <<>> /\ ~eof
  /\ HasRoom(stdin, PipeCap)
  /\ stdin' = Append(stdin, Head(commands))
  /\ commands' = Tail(commands)
  /\ UNCHANGED <<flags, callVars, setVars, taskVars, clientVars, events,
                 protocol, eof, disposed, printed>>

\* It stops when the process has been waited for, or when a write fails.
WriterStops ==
  /\ writer = "on"
  /\ \/ done /\ UNCHANGED <<commands, eof, disposed>>
     \/ eof /\ commands # <<>> /\ commands' = Tail(commands) /\ Dispose
  /\ writer' = "off"
  /\ UNCHANGED <<flags, callVars, setVars, reader, done, pump, pumpEvent,
                 clientVars, events, stdin, protocol, printed>>

\* handleMessage.  A reply nobody waits for is dropped; delivering one never
\* blocks; every event but `stopped` waits for room in Events.
Deliver(m) ==
  /\ m.kind \in {"reply", "error"}
  /\ pending' = pending \ {m.to}
  /\ IF m.to \in pending
     THEN Finish(m.to, IF m.kind = "reply" THEN "ok" ELSE "error")
     ELSE UNCHANGED outcome
  /\ UNCHANGED <<paused, pc, announces, commands, events, eof, disposed>>

ForwardEvent(m) ==
  /\ m.kind \in {"breakpointsChanged", "output"}
  /\ Push(Event(m.kind, m.file, m.ver))
  /\ UNCHANGED <<paused, pending, outcome, pc, announces, commands, eof, disposed>>

NoteStop(m) ==
  /\ m.kind = "stopped"
  /\ \E k \in Flushers : Idle(k)          \* bound: one slot per running flush
  /\ paused' = TRUE
  /\ Goto(FreeFlusher, "take")
  /\ announces' = announces \union {FreeFlusher}
  /\ UNCHANGED <<pending, outcome, commands, events, eof, disposed>>

AnswerPath(m) ==
  /\ m.kind = "resolvePath"
  /\ IF closed
     THEN UNCHANGED <<commands, eof, disposed>>
     ELSE IF HasRoom(commands, CmdCap)
     THEN /\ commands' = Append(commands, Command("resolved", Nobody, m.file, 0))
          /\ UNCHANGED <<eof, disposed>>
     ELSE Dispose /\ UNCHANGED commands
  /\ UNCHANGED <<paused, pending, outcome, pc, announces, events>>

Read ==
  /\ reader = "read" /\ protocol # <<>>
  /\ LET m == Head(protocol) IN
       Deliver(m) \/ ForwardEvent(m) \/ NoteStop(m) \/ AnswerPath(m)
  /\ protocol' = Tail(protocol)
  /\ UNCHANGED <<liveControl, closed, req, job, pendingBreakpoints, queued,
                 bpRequestMu, taskVars, clientVars, stdin, printed>>

\* The copier of the program's output.
CopyOutput ==
  /\ printed = 1
  /\ Push(PlainEvent("output"))
  /\ printed' = 0
  /\ UNCHANGED <<flags, callVars, setVars, taskVars, clientVars, commands,
                 stdin, protocol, eof, disposed>>

\* The reader ends at the end of the file, after the process has been waited
\* for, or when the connection is closed.  Slips: the file is not read once
\* more after the process ended; a closed connection does not end the reader.
ProtocolEndedAtExit == IF Attach THEN eof /\ (disposed \/ protocol = <<>>) ELSE done
ProtocolEndedWithProcess == done /\ protocol = <<>>
ProtocolEnded ==
  IF Attach THEN eof /\ (disposed \/ protocol = <<>>)
            ELSE done /\ protocol = <<>>

ReaderEnds ==
  /\ reader = "read" /\ ProtocolEnded
  /\ reader' = "close"
  /\ eof' = (eof \/ Attach)
  /\ UNCHANGED <<flags, callVars, setVars, writer, done, pump, pumpEvent,
                 clientVars, commands, events, stdin, protocol, disposed, printed>>

\* A slip of FailPending: the channels are forgotten instead of answered.
ForgetPending == pending' = {} /\ UNCHANGED outcome
FailPending ==
  /\ outcome' = [c \in Callers |-> IF c \in pending THEN "error" ELSE outcome[c]]
  /\ pending' = {}

\* The end of the reader: closed, the calls in progress fail.
Close ==
  /\ reader = "close"
  /\ closed' = TRUE
  /\ FailPending
  /\ done' = TRUE
  /\ reader' = IF Attach THEN "exit" ELSE "exited"
  /\ UNCHANGED <<paused, liveControl, pc, req, job, setVars, writer, pump,
                 pumpEvent, clientVars, commands, events, wireVars>>

ReportExit ==
  /\ \/ reader = "exited" /\ reader' = "exit"
     \/ reader = "exit" /\ reader' = "done"
  /\ Push(PlainEvent(reader))
  /\ UNCHANGED <<flags, callVars, setVars, writer, done, pump, pumpEvent,
                 clientVars, commands, wireVars>>

\* pumpEvents: breakpoint events wait for bpRequestMu; `exit` ends the pump.
PumpReceive ==
  /\ pump = "receive" /\ events # <<>>
  /\ events' = Tail(events)
  /\ LET e == Head(events) IN
       CASE e.kind \in {"breakpointsChanged", "breakpointsQueued"} ->
              pump' = "lock" /\ pumpEvent' = e
         [] e.kind = "exit" -> pump' = "done" /\ UNCHANGED pumpEvent
         [] OTHER -> UNCHANGED <<pump, pumpEvent>>
  /\ told' = (told \/ Head(events).kind = "stopped")
  /\ pauses' = IF Head(events).kind = "stopped" THEN 0 ELSE pauses
  /\ UNCHANGED <<flags, callVars, setVars, writer, reader, done, configured,
                 nextSet, acked, shown, commands, wireVars>>

PumpNeedsNoLock == TRUE
PumpMayLock == ~bpRequestMu
PumpBreakpoints ==
  /\ pump = "lock" /\ PumpMayLock
  /\ pump' = "receive" /\ pumpEvent' = PlainEvent("exit")
  /\ shown' = IF pumpEvent.kind = "breakpointsChanged"
              THEN [shown EXCEPT ![pumpEvent.file] = pumpEvent.ver]
              ELSE shown
  /\ UNCHANGED <<flags, callVars, setVars, writer, reader, done, configured,
                 nextSet, acked, told, pauses, commands, events, wireVars>>

\* What runs on the goroutine of the request loop (and the handshake's).
LoopStep ==
  \/ HandshakeDone \/ LockBpRequest \/ LoopResponds
  \/ Call("loop") \/ Decide("loop") \/ Notify("loop") \/ Call("handshake")

FlushStep(k) ==
  \/ FlushTake(k) \/ (\E f \in Files : FlushFile(k, f))
  \/ FlushReport(k) \/ FlushEnd(k)
  \/ Call(k) \/ Decide(k) \/ Notify(k)

=============================================================================
