------------------------- MODULE SessionControl_proofs -------------------------
(***************************************************************************)
(* Calls and control.  Every caller blocked in send is owed exactly one    *)
(* reply, the adapter takes the debuggee for paused only while it waits,   *)
(* and control passes as ControlHandoff says.  The three share one         *)
(* inductive invariant: the message of a call exists once, and there is    *)
(* one token of control, which is the `paused` flag, the running program,  *)
(* or a message that will restore one of them.                             *)
(***************************************************************************)
EXTENDS SessionChannels_proofs

-----------------------------------------------------------------------------
(***************************************************************************)
(* The invariant.                                                          *)
(***************************************************************************)

\* A caller waits with a registered reply channel, or its outcome is known;
\* the message of its call exists at most once, and exactly once while the
\* stream is up.
CallSlot(c) ==
  /\ c \in pending => outcome[c] = "none"
  /\ c \in pending \/ outcome[c] # "none" => pc[c] = "await"

CallOwed(c) ==
  /\ Owed(c) <= 1
  /\ c \in pending /\ ~eof /\ ~disposed => Owed(c) = 1
  /\ ~closed /\ c \notin pending => Owed(c) = 0

CallInv == \A c \in Callers : CallSlot(c) /\ CallOwed(c)

\* What the phases of a session exclude: before the launch response nothing is
\* flushed, before configurationDone nothing resumes the program, and the
\* runtime is closed only once the stream or the process has ended.
PhaseInv ==
  /\ ~Launched => \A k \in Flushers : Idle(k)
  /\ LoopIdle => req = "none"
  /\ pc["loop"] = "start" => Spawned /\ ~Launched
  /\ pc["loop"] = "notify" => req \notin Resumes
  /\ ~Spawned => /\ lpc = "off" /\ ~paused /\ ~closed /\ ~Launched
                 /\ writer = "off" /\ ~eof /\ ~disposed
                 /\ pc["handshake"] = "off"
  /\ lpc = "off" => ~Spawned \/ closed
  /\ configured => Launched
  /\ ~configured => req \notin Resumes
  /\ Spawned /\ ~configured => paused \/ closed
  /\ closed => reader \in {"exited", "exit", "done"}
  /\ closed \/ reader = "close" \/ done => eof \/ lpc = "gone"

ResumeCommands == {m \in Commands : m.cmd \in Resumes}
StopMessages == {m \in Messages : m.kind = "stopped"}
LoopErrors == {m \in Messages : m.kind = "error" /\ m.to = "loop"}

\* The messages that give control back to the client: a stop, and the refusal
\* of the resume the request loop waits for.
Signals == StopMessages \union (IF req \in Resumes THEN LoopErrors ELSE {})

Asked == pc["loop"] = "call" /\ req \in Resumes
Failed == req \in Resumes /\ outcome["loop"] = "error"

\* Everything that is control of the program, or will become it.
Sent == Transit(ResumeCommands, Signals)
Token == One(paused) + One(Running) + One(Asked) + One(Failed) + Sent

OwnCommands == {m \in Commands : m.by = "loop" => m.cmd = req}

ControlInv ==
  ~closed =>
    /\ Token <= One(Spawned)
    /\ commands \in Seq(OwnCommands) /\ stdin \in Seq(OwnCommands)
    /\ queuedCommands \in Seq(OwnCommands)

SessionInv == TypeOK /\ AddressInv /\ CallInv /\ PhaseInv /\ ControlInv
-----------------------------------------------------------------------------
LEMMA FlusherCaller == Flushers \subseteq Callers /\ "loop" \notin Flushers /\ "handshake" \notin Flushers
BY WireAssumption DEF Callers

LEMMA FreeFlusherIdle ==
  ASSUME \E k \in Flushers : Idle(k)
  PROVE  FreeFlusher \in Flushers /\ Idle(FreeFlusher)
BY DEF FreeFlusher

\* Before the launch response, and in NoteStop, there is a free flusher.
LEMMA FlusherAtLaunch ==
  ASSUME PhaseInv, ~Launched PROVE \E k \in Flushers : Idle(k)
BY WireAssumption DEF PhaseInv

\* A step changes the slot of a caller only from or to "await".
LEMMA SlotByCall ==
  ASSUME AdapterTypeOK, NEW c \in Callers, CallSlot(c),
         NEW d \in Callers, Call(d) \/ Decide(d) \/ Notify(d)
  PROVE  CallSlot(c)'
<1> USE DEF CallSlot, Goto, Finish, AdapterTypeOK
<1>1. CASE Call(d)
  BY <1>1 DEF Call
<1>2. CASE Decide(d)
  BY <1>2 DEF Decide
<1>3. CASE Notify(d)
  BY <1>3 DEF Notify
<1> QED
  BY <1>1, <1>2, <1>3

LEMMA SlotByClient ==
  ASSUME AdapterTypeOK, NEW c \in Callers, CallSlot(c), ClientStep
  PROVE  CallSlot(c)'
<1> USE DEF CallSlot, Goto, AdapterTypeOK, LoopIdle
<1>1. CASE QueryRequest
  BY <1>1 DEF QueryRequest
<1>2. CASE PauseRequest
  BY <1>2 DEF PauseRequest
<1>3. CASE Terminate
  BY <1>3 DEF Terminate
<1>4. ASSUME NEW f \in Files, SetBreakpointsRequest(f) PROVE CallSlot(c)'
  BY <1>4 DEF SetBreakpointsRequest
<1>5. ASSUME NEW r \in Resumes, ResumeRequest(r) PROVE CallSlot(c)'
  BY <1>5 DEF ResumeRequest
<1> QED
  BY <1>1, <1>2, <1>3, <1>4, <1>5 DEF ClientStep

LEMMA SlotByLoop ==
  ASSUME AdapterTypeOK, PhaseInv, NEW c \in Callers, CallSlot(c), CallSlot("handshake"),
         HandshakeDone \/ HandshakeFailed \/ LockBpRequest \/ LoopResponds
  PROVE  CallSlot(c)'
<1> USE DEF CallSlot, Goto, Finish, AdapterTypeOK
<1>1. CASE HandshakeDone
  <2>1. FreeFlusher \in Flushers /\ pc[FreeFlusher] = "off"
    BY <1>1, FlusherAtLaunch, FreeFlusherIdle DEF HandshakeDone, PhaseInv, Idle
  <2>2. /\ FreeFlusher # "loop" /\ FreeFlusher # "handshake"
        /\ FreeFlusher \in Callers /\ "loop" \in Callers /\ "handshake" \in Callers
    BY <2>1, FlusherCaller, CallerNames
  <2>3. "handshake" \notin pending /\ pc["loop"] = "start"
    BY <1>1 DEF HandshakeDone
  <2>4. /\ pending' = pending
        /\ outcome' = [outcome EXCEPT !["handshake"] = "none"]
        /\ pc' = [pc EXCEPT !["loop"] = "idle", !["handshake"] = "off", ![FreeFlusher] = "take"]
    BY <1>1 DEF HandshakeDone
  <2>5. CASE c \in {"loop", "handshake", FreeFlusher}
    BY <2>1, <2>2, <2>3, <2>4, <2>5
  <2>6. CASE c \notin {"loop", "handshake", FreeFlusher}
    BY <2>2, <2>4, <2>6
  <2> QED
    BY <2>5, <2>6
<1>2. CASE HandshakeFailed
  BY <1>2 DEF HandshakeFailed
<1>3. CASE LockBpRequest
  BY <1>3 DEF LockBpRequest
<1>4. CASE LoopResponds
  BY <1>4 DEF LoopResponds
<1> QED
  BY <1>1, <1>2, <1>3, <1>4

LEMMA SlotByFlush ==
  ASSUME AdapterTypeOK, NEW c \in Callers, CallSlot(c),
         NEW k \in Flushers, FlusherStep(k)
  PROVE  CallSlot(c)'
<1> USE FlusherCaller DEF CallSlot, Goto, Finish, AdapterTypeOK
<1>1. CASE FlushTake(k)
  BY <1>1 DEF FlushTake
<1>2. ASSUME NEW f \in Files, FlushFile(k, f) PROVE CallSlot(c)'
  BY <1>2 DEF FlushFile
<1>3. CASE FlushReport(k)
  BY <1>3 DEF FlushReport
<1>4. CASE FlushEnd(k)
  BY <1>4 DEF FlushEnd
<1> QED
  BY <1>1, <1>2, <1>3, <1>4 DEF FlusherStep

LEMMA SlotByTask ==
  ASSUME AdapterTypeOK, NEW c \in Callers, CallSlot(c),
         \/ Write \/ WriterStops \/ Read \/ ReaderEnds \/ Close
         \/ ReportExit \/ CopyOutput \/ PumpReceive \/ PumpBreakpoints
  PROVE  CallSlot(c)'
<1> USE DEF CallSlot, callVars
<1>1. CASE Write \/ WriterStops
  BY <1>1 DEF Write, WriterStops
<1>2. CASE Read
  <2> DEFINE m == Head(protocol)
  <2>1. CASE Deliver(m)
    BY <2>1 DEF Deliver, Finish, AdapterTypeOK
  <2>2. CASE ForwardEvent(m) \/ AnswerPath(m)
    BY <2>2 DEF ForwardEvent, AnswerPath
  <2>3. CASE NoteStop(m)
    <3>1. FreeFlusher \in Flushers /\ pc[FreeFlusher] = "off"
      BY <2>3, FreeFlusherIdle DEF NoteStop, Idle
    <3> QED
      BY <2>3, <3>1, FlusherCaller DEF NoteStop, Goto, AdapterTypeOK
  <2> QED
    BY <1>2, <2>1, <2>2, <2>3 DEF Read
<1>3. CASE ReaderEnds \/ ReportExit \/ CopyOutput \/ PumpReceive \/ PumpBreakpoints
  BY <1>3 DEF ReaderEnds, ReportExit, CopyOutput, PumpReceive, PumpBreakpoints
<1>4. CASE Close
  BY <1>4 DEF Close, FailPending
<1> QED
  BY <1>1, <1>2, <1>3, <1>4

LEMMA SlotStep ==
  ASSUME TypeOK, PhaseInv, CallInv, [Next]_vars, NEW c \in Callers
  PROVE  CallSlot(c)'
<1>0. AdapterTypeOK /\ CallSlot(c) /\ CallSlot("handshake")
  BY CallerNames DEF TypeOK, CallInv
<1>1. CASE Start
  <2>1. /\ pc["loop"] = "idle" /\ UNCHANGED <<pending, outcome>>
        /\ pc' = [pc EXCEPT !["loop"] = "start", !["handshake"] = "call"]
    BY <1>1 DEF Start, Launch, LoopIdle
  <2>2. c \notin {"loop", "handshake"} => pc'[c] = pc[c]
    BY <1>0, <2>1 DEF AdapterTypeOK
  <2>3. CASE c = "handshake"
    <3>1. pc["handshake"] = "off"
      BY <1>1 DEF PhaseInv, Start, Launch
    <3> QED
      BY <1>0, <2>1, <2>3, <3>1 DEF CallSlot
  <2> QED
    BY <1>0, <2>1, <2>2, <2>3 DEF CallSlot
<1>2. CASE Crash
  BY <1>2 DEF Crash, CallSlot
<1>3. CASE ProcessWaited \/ UNCHANGED vars \/ UNCHANGED adapterVars
  BY <1>0, <1>3 DEF ProcessWaited, vars, adapterVars, callVars, CallSlot
<1>4. CASE AdapterStep
  <2>1. ASSUME NEW d \in Callers, Call(d) \/ Decide(d) \/ Notify(d) PROVE CallSlot(c)'
    BY <1>0, <2>1, SlotByCall, Zenon
  <2>2. ASSUME NEW k \in Flushers, FlusherStep(k) PROVE CallSlot(c)'
    BY <1>0, <2>2, SlotByFlush, Zenon
  <2>3. CASE HandshakeDone \/ HandshakeFailed \/ LockBpRequest \/ LoopResponds
    BY <1>0, <2>3, SlotByLoop, Zenon
  <2>4. CASE ClientStep
    BY <1>0, <2>4, SlotByClient, Zenon
  <2>5. CASE \/ Write \/ WriterStops \/ Read \/ ReaderEnds \/ Close
             \/ ReportExit \/ CopyOutput \/ PumpReceive \/ PumpBreakpoints
    BY <1>0, <2>5, SlotByTask, Zenon
  <2> QED
    BY <1>4, <2>1, <2>2, <2>3, <2>4, <2>5, Zenon DEF AdapterStep
<1> QED
  BY <1>1, <1>2, <1>3, <1>4, StepCases
-----------------------------------------------------------------------------
(***************************************************************************)
(* The message of a call.                                                  *)
(***************************************************************************)

\* The adapter steps that concern calls: everything else leaves the channels
\* and the pending calls alone.
LEMMA AdapterEffects ==
  ASSUME AdapterStep
  PROVE  \/ \E d \in Callers : (Call(d) \/ Notify(d)) /\ ~Refused
         \/ Read \/ Close
         \/ Moves /\ UNCHANGED <<pending, disposed, closed>> /\ (eof' <=> eof)
         \/ Moves /\ UNCHANGED <<pending, closed>> /\ eof /\ eof' /\ disposed'
         \/ UNCHANGED <<commands, stdin, protocol, pending, closed>>
<1> USE DEF wireVars, clientVars, setVars, taskVars, callVars, flags
<1>1. ASSUME NEW d \in Callers, Call(d) \/ Decide(d) \/ Notify(d)
      PROVE  \/ (Call(d) \/ Notify(d)) /\ ~Refused
             \/ UNCHANGED <<commands, stdin, protocol, pending, closed>>
  BY <1>1 DEF Call, Decide, Notify
<1>2. CASE ClientStep
  <2>1. QueryRequest \/ PauseRequest \/ Terminate
          => UNCHANGED <<commands, stdin, protocol, pending, closed>>
    BY DEF QueryRequest, PauseRequest, Terminate
  <2>2. ASSUME NEW f \in Files, SetBreakpointsRequest(f)
        PROVE  UNCHANGED <<commands, stdin, protocol, pending, closed>>
    BY <2>2 DEF SetBreakpointsRequest
  <2>3. ASSUME NEW r \in Resumes, ResumeRequest(r)
        PROVE  UNCHANGED <<commands, stdin, protocol, pending, closed>>
    BY <2>3 DEF ResumeRequest
  <2> QED
    BY <1>2, <2>1, <2>2, <2>3 DEF ClientStep
<1>3. CASE HandshakeDone \/ HandshakeFailed \/ LockBpRequest \/ LoopResponds
  BY <1>3 DEF HandshakeDone, HandshakeFailed, LockBpRequest, LoopResponds
<1>4. ASSUME NEW k \in Flushers, FlusherStep(k)
      PROVE  UNCHANGED <<commands, stdin, protocol, pending, closed>>
  <2>1. FlushTake(k) \/ FlushReport(k) \/ FlushEnd(k)
          => UNCHANGED <<commands, stdin, protocol, pending, closed>>
    BY DEF FlushTake, FlushReport, FlushEnd
  <2>2. ASSUME NEW f \in Files, FlushFile(k, f)
        PROVE  UNCHANGED <<commands, stdin, protocol, pending, closed>>
    BY <2>2 DEF FlushFile
  <2> QED
    BY <1>4, <2>1, <2>2 DEF FlusherStep
<1>5. Write => Moves /\ UNCHANGED <<pending, disposed, closed>> /\ (eof' <=> eof)
  BY DEF Write, Moves
<1>6. WriterStops => \/ UNCHANGED <<commands, stdin, protocol, pending, closed>>
                     \/ /\ Moves /\ UNCHANGED <<pending, closed>>
                        /\ eof /\ eof' /\ disposed'
  BY DEF WriterStops, Moves, Dispose
<1>7. ReaderEnds \/ ReportExit \/ CopyOutput
        => UNCHANGED <<commands, stdin, protocol, pending, closed>>
  BY DEF ReaderEnds, ReportExit, CopyOutput
<1>8. PumpReceive \/ PumpBreakpoints
        => UNCHANGED <<commands, stdin, protocol, pending, closed>>
  BY DEF PumpReceive, PumpBreakpoints
<1> QED
  BY <1>1, <1>2, <1>3, <1>4, <1>5, <1>6, <1>7, <1>8, Zenon DEF AdapterStep

\* What has ended stays ended.
LEMMA EndsForGood ==
  ASSUME TypeOK, [Next]_vars
  PROVE  (eof => eof') /\ (disposed => disposed') /\ (closed => closed')
<1> USE DEF wireVars, clientVars, setVars, taskVars, callVars, flags
<1>0. Dispose => (eof => eof') /\ disposed'
  BY Zenon DEF Dispose
<1>1. CASE Start
  BY <1>1 DEF Start, Launch
<1>2. CASE Crash
  BY <1>2 DEF Crash
<1>3. CASE ProcessWaited \/ UNCHANGED vars
  BY <1>3 DEF ProcessWaited, vars, adapterVars
<1>4. CASE LuaMoves /\ UNCHANGED adapterVars
  <2>1. eof => eof'
    BY <1>4, ShapeOfLua
       DEF LuaShape, Serves, BeginsQuery, EndsQuery, Keeps, Stops, Goes, Ends
  <2>2. disposed' = disposed
    BY <1>4, LuaLives
  <2> QED
    BY <1>4, <2>1, <2>2 DEF adapterVars
<1>5. CASE AdapterStep /\ UNCHANGED luaVars
  <2>1. ASSUME NEW d \in Callers, Call(d) \/ Decide(d) \/ Notify(d)
        PROVE  UNCHANGED <<eof, disposed, closed>>
    BY <2>1 DEF Call, Decide, Notify
  <2>2. CASE ClientStep
    <3>1. CASE QueryRequest \/ PauseRequest \/ Terminate
      BY <1>0, <3>1 DEF QueryRequest, PauseRequest, Terminate
    <3>2. ASSUME NEW f \in Files, SetBreakpointsRequest(f)
          PROVE  UNCHANGED <<eof, disposed, closed>>
      BY <3>2 DEF SetBreakpointsRequest
    <3>3. ASSUME NEW r \in Resumes, ResumeRequest(r)
          PROVE  UNCHANGED <<eof, disposed, closed>>
      BY <3>3 DEF ResumeRequest
    <3> QED
      BY <2>2, <3>1, <3>2, <3>3 DEF ClientStep
  <2>3. CASE HandshakeDone \/ HandshakeFailed \/ LockBpRequest \/ LoopResponds
    BY <1>0, <2>3 DEF HandshakeDone, HandshakeFailed, LockBpRequest, LoopResponds
  <2>4. ASSUME NEW k \in Flushers, FlusherStep(k)
        PROVE  UNCHANGED <<eof, disposed, closed>>
    <3>1. FlushTake(k) \/ FlushReport(k) \/ FlushEnd(k) => UNCHANGED <<eof, disposed, closed>>
      BY DEF FlushTake, FlushReport, FlushEnd
    <3>2. ASSUME NEW f \in Files, FlushFile(k, f) PROVE UNCHANGED <<eof, disposed, closed>>
      BY <3>2 DEF FlushFile
    <3> QED
      BY <2>4, <3>1, <3>2 DEF FlusherStep
  <2>5. CASE Write \/ WriterStops
    BY <1>0, <2>5 DEF Write, WriterStops
  <2>6. CASE Read
    BY <1>0, <2>6 DEF Read, Deliver, ForwardEvent, NoteStop, AnswerPath
  <2>7. CASE ReaderEnds
    BY <2>7, Zenon DEF ReaderEnds, flags
  <2>9. CASE Close \/ ReportExit \/ CopyOutput
    BY <2>9 DEF Close, ReportExit, CopyOutput
  <2>8. CASE PumpReceive \/ PumpBreakpoints
    BY <2>8 DEF PumpReceive, PumpBreakpoints
  <2> QED
    BY <1>5, <2>1, <2>2, <2>3, <2>4, <2>5, <2>6, <2>7, <2>8, <2>9, Zenon
       DEF AdapterStep
<1> QED
  BY <1>1, <1>2, <1>3, <1>4, <1>5, StepCases

LEMMA OwedSum ==
  ASSUME TypeOK, TypeOK', NEW c \in Callers
  PROVE  /\ Owed(c) \in Nat /\ Owed(c)' \in Nat
         /\ Transit(CallsOf(c), RepliesTo(c)) \in Nat
         /\ Transit(CallsOf(c), RepliesTo(c))' \in Nat
<1>1. /\ Transit(CallsOf(c), RepliesTo(c)) \in Nat
      /\ Transit(CallsOf(c), RepliesTo(c))' \in Nat
  BY TransitType
<1> QED
  BY <1>1 DEF Owed, One

\* Whatever becomes of the message of a call of somebody else.
LEMMA OwedKept ==
  ASSUME TypeOK, TypeOK', [Next]_vars, NEW c \in Callers, CallOwed(c),
         Owed(c)' <= Owed(c), Owed(c)' = Owed(c) \/ eof',
         c \in pending' <=> c \in pending
  PROVE  CallOwed(c)'
<1>1. (eof => eof') /\ (disposed => disposed') /\ (closed => closed')
  BY EndsForGood
<1>2. Owed(c) \in Nat /\ Owed(c)' \in Nat
  BY OwedSum
<1> QED
  BY <1>1, <1>2 DEF CallOwed

LEMMA Shifted ==
  ASSUME NEW i \in Nat, NEW j \in Nat, NEW k \in 0 .. 1
  PROVE  /\ i <= j => i + k <= j + k
         /\ i = j => i + k = j + k
         /\ i = j + 1 => i + k = j + k + 1
         /\ j = i + 1 => j + k = i + k + 1
OBVIOUS

\* The Lua thread is not concerned: the adapter changes the count by what
\* becomes of the messages.
LEMMA OwedByAdapter ==
  ASSUME TypeOK, TypeOK', UNCHANGED <<lpc, back>>, NEW c \in Callers
  PROVE  /\ Transit(CallsOf(c), RepliesTo(c))' <= Transit(CallsOf(c), RepliesTo(c))
              => Owed(c)' <= Owed(c)
         /\ Transit(CallsOf(c), RepliesTo(c))' = Transit(CallsOf(c), RepliesTo(c))
              => Owed(c)' = Owed(c)
         /\ Transit(CallsOf(c), RepliesTo(c))' = Transit(CallsOf(c), RepliesTo(c)) + 1
              => Owed(c)' = Owed(c) + 1
         /\ Transit(CallsOf(c), RepliesTo(c)) = Transit(CallsOf(c), RepliesTo(c))' + 1
              => Owed(c) = Owed(c)' + 1
<1> DEFINE t == Transit(CallsOf(c), RepliesTo(c))
           q == One(c = "loop" /\ Resolving)
<1> SUFFICES /\ t' <= t => Owed(c)' <= Owed(c)
             /\ t' = t => Owed(c)' = Owed(c)
             /\ t' = t + 1 => Owed(c)' = Owed(c) + 1
             /\ t = t' + 1 => Owed(c) = Owed(c)' + 1
  OBVIOUS
<1>1. t \in Nat /\ t' \in Nat
  BY OwedSum
<1>2. q' = q /\ q \in 0 .. 1
  BY DEF q, One, Resolving
<1>3. Owed(c) = t + q /\ Owed(c)' = t' + q'
  BY DEF Owed
<1> HIDE DEF t, q
<1>4. /\ t' <= t => t' + q <= t + q
      /\ t' = t => t' + q = t + q
      /\ t' = t + 1 => t' + q = t + q + 1
      /\ t = t' + 1 => t + q = t' + q + 1
  BY <1>1, <1>2, Shifted, Zenon
<1>5. Owed(c) = t + q /\ Owed(c)' = t' + q
  BY <1>2, <1>3
<1> QED
  BY <1>4, <1>5

LEMMA OwedStep ==
  ASSUME TypeOK, TypeOK', AddressInv, CallInv, PhaseInv, [Next]_vars, NEW c \in Callers
  PROVE  CallOwed(c)'
<1> DEFINE t == Transit(CallsOf(c), RepliesTo(c))
<1>0. CallSlot(c) /\ CallOwed(c)
  BY DEF CallInv
<1>1. Owed(c) \in Nat /\ Owed(c)' \in Nat /\ t \in Nat /\ t' \in Nat
  BY OwedSum
<1>2. CASE Start
  <2>1. UNCHANGED <<commands, stdin, queuedCommands, protocol, pending>>
    BY <1>2 DEF Start, Launch, wireVars
  <2>2. ~Resolving /\ ~Resolving'
    BY <1>2 DEF Start, LuaStart, Resolving
  <2>3. Owed(c)' = Owed(c)
    BY <2>1, <2>2, SameTransit DEF Owed, One
  <2> QED
    BY <1>0, <1>1, <2>1, <2>3, OwedKept
<1>3. CASE ProcessWaited \/ UNCHANGED vars
  <2>1. UNCHANGED <<commands, stdin, queuedCommands, protocol, pending, lpc, back>>
    BY <1>3 DEF ProcessWaited, vars, wireVars, luaVars, adapterVars, callVars
  <2>2. Owed(c)' = Owed(c)
    BY <2>1, SameTransit DEF Owed, Resolving, One
  <2> QED
    BY <1>0, <1>1, <2>1, <2>2, OwedKept
<1>4. CASE Crash
  <2>1. /\ commands' = <<>> /\ UNCHANGED <<stdin, queuedCommands, protocol, lpc, back>>
        /\ pending' = {} /\ eof' /\ closed'
    BY <1>4 DEF Crash, luaVars
  <2>2. /\ Count(commands, CallsOf(c))' = 0
        /\ Count(stdin, CallsOf(c))' = Count(stdin, CallsOf(c))
        /\ Count(queuedCommands, CallsOf(c))' = Count(queuedCommands, CallsOf(c))
        /\ Count(protocol, RepliesTo(c))' = Count(protocol, RepliesTo(c))
    BY <2>1, CountEmpty
  <2>3. t' <= t
    BY <2>2, CountsOfSession DEF Transit
  <2>4. Owed(c)' <= Owed(c)
    BY <2>1, <2>3, OwedByAdapter
  <2> QED
    BY <1>0, <1>1, <2>1, <2>4 DEF CallOwed
<1>5. CASE LuaMoves /\ UNCHANGED adapterVars
  <2>1. UNCHANGED <<commands, pending>>
    BY <1>5 DEF adapterVars, callVars
  <2>2. Owed(c)' <= Owed(c) /\ (Owed(c)' = Owed(c) \/ eof')
    BY <1>5, <2>1, ShapeOfLua, LuaOwed
  <2> QED
    BY <1>0, <2>1, <2>2, OwedKept
<1>6. ASSUME NEW d \in Callers, Call(d), ~Refused, UNCHANGED luaVars PROVE CallOwed(c)'
  <2>1. /\ commands' = Append(commands, CommandOf(d)) /\ pending' = pending \union {d}
        /\ pc[d] = "call" /\ ~closed
        /\ UNCHANGED <<stdin, queuedCommands, protocol, lpc, back>>
    BY <1>6 DEF Call, wireVars, luaVars, Refused
  <2>2. CommandOf(d) \in Commands /\ CommandOf(d).by = d
    <3>1. CommandOf(d) \in Commands
      BY <2>1, CommandOfType DEF TypeOK
    <3> QED
      BY <3>1 DEF CommandOf, Command
  <2>3. t' = t + One(CommandOf(d) \in CallsOf(c))
    BY <2>1, <2>2, QueuedTransit
  <2>4. CASE d = c
    <3>1. t' = t + 1
      BY <2>2, <2>3, <2>4 DEF CallsOf, One
    <3>2. Owed(c)' = Owed(c) + 1
      BY <2>1, <3>1, OwedByAdapter
    <3>3. Owed(c) = 0
      BY <1>0, <2>1, <2>4 DEF CallSlot, CallOwed
    <3> QED
      BY <2>1, <2>4, <3>2, <3>3 DEF CallOwed
  <2>5. CASE d # c
    <3>1. t' = t
      BY <1>1, <2>2, <2>3, <2>5 DEF CallsOf, One
    <3>2. Owed(c)' = Owed(c) /\ (c \in pending' <=> c \in pending)
      BY <2>1, <2>5, <3>1, OwedByAdapter
    <3> QED
      BY <1>0, <1>1, <3>2, OwedKept
  <2> QED
    BY <2>4, <2>5
<1>7. ASSUME NEW d \in Callers, Notify(d), ~Refused, UNCHANGED luaVars PROVE CallOwed(c)'
  <2>1. /\ commands' = Append(commands, Notified(d)) /\ pending' = pending
        /\ UNCHANGED <<stdin, queuedCommands, protocol, lpc, back>>
        /\ Queues(Notified(d))
    BY <1>7 DEF Notify, wireVars, luaVars, Notified, Queues, Refused
  <2>2. Notified(d) \in Commands /\ Notified(d).by = Nobody
    BY <2>1, QueuedChannels DEF Notified, Command
  <2>3. t' = t + One(Notified(d) \in CallsOf(c))
    BY <2>1, <2>2, QueuedTransit
  <2>4. t' = t
    BY <1>1, <2>2, <2>3, NobodyIsNoCaller DEF CallsOf, One
  <2> QED
    BY <1>0, <1>1, <2>1, <2>4, OwedByAdapter, OwedKept
<1>8. CASE Read /\ UNCHANGED luaVars
  <2> DEFINE m == Head(protocol)
  <2>1. /\ m \in AddressedMessages /\ UNCHANGED <<lpc, back>>
        /\ Deliver(m) \/ ForwardEvent(m) \/ NoteStop(m) \/ AnswerPath(m)
    BY <1>8, HeadAndTail DEF Read, AddressInv, luaVars
  <2>2. \A f : Command("resolved", Nobody, f, 0) \notin CallsOf(c)
    BY NobodyIsNoCaller DEF CallsOf, Command
  <2>3. t = t' + One(m \in RepliesTo(c))
    BY <1>8, <2>2, ReadTransit
  <2>4. CASE m.to = c
    <3>1. t = t' + 1
      BY <2>1, <2>3, <2>4 DEF One, RepliesTo, AddressedMessages
    <3>2. Deliver(m) /\ pending' = pending \ {c}
      BY <2>1, <2>4, NobodyIsNoCaller
         DEF AddressedMessages, Deliver, ForwardEvent, NoteStop, AnswerPath
    <3>3. Owed(c) = Owed(c)' + 1
      BY <2>1, <3>1, OwedByAdapter
    <3> QED
      BY <1>0, <1>1, <3>2, <3>3 DEF CallOwed
  <2>5. CASE m.to # c
    <3>1. t = t'
      BY <1>1, <2>3, <2>5 DEF One, RepliesTo
    <3>2. c \in pending' <=> c \in pending
      BY <2>1, <2>5 DEF Deliver, ForwardEvent, NoteStop, AnswerPath
    <3>3. Owed(c)' = Owed(c)
      BY <2>1, <3>1, OwedByAdapter
    <3> QED
      BY <1>0, <1>1, <3>2, <3>3, OwedKept
  <2> QED
    BY <2>4, <2>5
<1>9. CASE Close /\ UNCHANGED luaVars
  <2>1. /\ UNCHANGED <<commands, stdin, queuedCommands, protocol, lpc, back>>
        /\ pending' = {} /\ closed'
    BY <1>9 DEF Close, FailPending, wireVars, luaVars
  <2>2. Owed(c)' = Owed(c)
    BY <2>1, SameTransit, OwedByAdapter
  <2> QED
    BY <1>0, <2>1, <2>2 DEF CallOwed
<1>10. CASE Moves /\ UNCHANGED <<pending, luaVars>>
  <2>1. UNCHANGED <<queuedCommands, lpc, back>>
    BY <1>10 DEF luaVars
  <2>2. t' <= t /\ (t' = t \/ eof')
    BY <1>10, <2>1, MovedTransit
  <2>3. Owed(c)' <= Owed(c) /\ (Owed(c)' = Owed(c) \/ eof')
    BY <2>1, <2>2, OwedByAdapter
  <2> QED
    BY <1>0, <1>10, <2>3, OwedKept
<1>11. CASE UNCHANGED <<commands, stdin, protocol, pending, luaVars>>
  <2>1. UNCHANGED <<commands, stdin, queuedCommands, protocol, lpc, back>>
    BY <1>11 DEF luaVars
  <2>2. Owed(c)' = Owed(c)
    BY <2>1, SameTransit, OwedByAdapter
  <2> QED
    BY <1>0, <1>1, <1>11, <2>2, OwedKept
<1>12. CASE AdapterStep /\ UNCHANGED luaVars
  BY <1>6, <1>7, <1>8, <1>9, <1>10, <1>11, <1>12, AdapterEffects
<1> QED
  BY <1>2, <1>3, <1>4, <1>5, <1>12, StepCases
-----------------------------------------------------------------------------
(***************************************************************************)
(* The token of control.                                                   *)
(***************************************************************************)

LEMMA FiveSmaller ==
  ASSUME NEW a \in 0 .. 1, NEW b \in 0 .. 1, NEW c \in 0 .. 1, NEW d \in 0 .. 1, NEW n \in Nat,
         NEW a1 \in 0 .. 1, NEW b1 \in 0 .. 1, NEW c1 \in 0 .. 1, NEW d1 \in 0 .. 1, NEW n1 \in Nat,
         a1 <= a, b1 <= b, c1 <= c, d1 <= d, n1 <= n
  PROVE  a1 + b1 + c1 + d1 + n1 <= a + b + c + d + n
OBVIOUS

LEMMA FiveExclusive ==
  ASSUME NEW a \in 0 .. 1, NEW b \in 0 .. 1, NEW c \in 0 .. 1, NEW d \in 0 .. 1, NEW n \in Nat
  PROVE  /\ a + b + c + d + n <= 0 => a = 0 /\ b = 0 /\ c = 0 /\ d = 0 /\ n = 0
         /\ a + b + c + d + n <= 1
              <=> \/ b = 0 /\ c = 0 /\ d = 0 /\ n = 0
                  \/ a = 0 /\ c = 0 /\ d = 0 /\ n = 0
                  \/ a = 0 /\ b = 0 /\ d = 0 /\ n = 0
                  \/ a = 0 /\ b = 0 /\ c = 0 /\ n = 0
                  \/ a = 0 /\ b = 0 /\ c = 0 /\ d = 0 /\ n <= 1
OBVIOUS

LEMMA Served ==
  ASSUME NEW i \in Nat, NEW j \in Nat, NEW x \in 0 .. 1, NEW y \in 0 .. 1,
         y <= x, i + x = j + y
  PROVE  i <= j /\ (x = 1 /\ y = 0 => j # 0 /\ (j = 1 => i = 0))
OBVIOUS

\* At most one of the five holds control.
LEMMA TokenOnce ==
  ASSUME TypeOK, ControlInv, ~closed
  PROVE  /\ Sent \in Nat
         /\ ~Spawned => ~paused /\ ~Running /\ ~Asked /\ ~Failed /\ Sent = 0
         /\ \/ ~Running /\ ~Asked /\ ~Failed /\ Sent = 0
            \/ ~paused /\ ~Asked /\ ~Failed /\ Sent = 0
            \/ ~paused /\ ~Running /\ ~Failed /\ Sent = 0
            \/ ~paused /\ ~Running /\ ~Asked /\ Sent = 0
            \/ ~paused /\ ~Running /\ ~Asked /\ ~Failed /\ Sent <= 1
<1>1. Sent \in Nat
  BY CountsOfSession DEF Sent, Transit
<1>2. One(paused) + One(Running) + One(Asked) + One(Failed) + Sent <= One(Spawned)
  BY DEF ControlInv, Token
<1>3. /\ One(paused) \in 0 .. 1 /\ One(Running) \in 0 .. 1 /\ One(Asked) \in 0 .. 1
      /\ One(Failed) \in 0 .. 1 /\ One(Spawned) \in 0 .. 1
  BY DEF One
<1>4. /\ One(paused) = 0 => ~paused
      /\ One(Running) = 0 => ~Running
      /\ One(Asked) = 0 => ~Asked
      /\ One(Failed) = 0 => ~Failed
      /\ ~Spawned => One(Spawned) = 0
  BY DEF One
<1>5. One(paused) + One(Running) + One(Asked) + One(Failed) + Sent <= 1
  <2> DEFINE n == One(paused) + One(Running) + One(Asked) + One(Failed) + Sent
  <2>1. n \in Nat
    BY <1>1, <1>3
  <2> HIDE DEF n
  <2>2. n <= One(Spawned)
    BY <1>2 DEF n
  <2>3. n <= 1
    BY <1>3, <2>1, <2>2
  <2> QED
    BY <2>3 DEF n
<1>6. ~Spawned => One(paused) + One(Running) + One(Asked) + One(Failed) + Sent <= 0
  BY <1>2, <1>4
<1>7. /\ One(paused) + One(Running) + One(Asked) + One(Failed) + Sent <= 0
           => /\ One(paused) = 0 /\ One(Running) = 0 /\ One(Asked) = 0
              /\ One(Failed) = 0 /\ Sent = 0
      /\ \/ One(Running) = 0 /\ One(Asked) = 0 /\ One(Failed) = 0 /\ Sent = 0
         \/ One(paused) = 0 /\ One(Asked) = 0 /\ One(Failed) = 0 /\ Sent = 0
         \/ One(paused) = 0 /\ One(Running) = 0 /\ One(Failed) = 0 /\ Sent = 0
         \/ One(paused) = 0 /\ One(Running) = 0 /\ One(Asked) = 0 /\ Sent = 0
         \/ One(paused) = 0 /\ One(Running) = 0 /\ One(Asked) = 0 /\ One(Failed) = 0 /\ Sent <= 1
  <2> DEFINE a == One(paused)
             b == One(Running)
             d == One(Asked)
             e == One(Failed)
  <2>1. a \in 0 .. 1 /\ b \in 0 .. 1 /\ d \in 0 .. 1 /\ e \in 0 .. 1
    BY <1>3
  <2>2. a + b + d + e + Sent <= 1
    BY <1>5
  <2> HIDE DEF a, b, d, e
  <2>3. /\ a + b + d + e + Sent <= 0 => a = 0 /\ b = 0 /\ d = 0 /\ e = 0 /\ Sent = 0
        /\ \/ b = 0 /\ d = 0 /\ e = 0 /\ Sent = 0
           \/ a = 0 /\ d = 0 /\ e = 0 /\ Sent = 0
           \/ a = 0 /\ b = 0 /\ e = 0 /\ Sent = 0
           \/ a = 0 /\ b = 0 /\ d = 0 /\ Sent = 0
           \/ a = 0 /\ b = 0 /\ d = 0 /\ e = 0 /\ Sent <= 1
    BY <1>1, <2>1, <2>2, FiveExclusive
  <2> QED
    BY <2>3 DEF a, b, d, e
<1> QED
  BY <1>1, <1>4, <1>6, <1>7, Zenon

LEMMA TokenSmaller ==
  ASSUME TypeOK, TypeOK', ControlInv, ~closed, Spawned => Spawned',
         paused' => paused, Running' => Running, Asked' => Asked, Failed' => Failed,
         Sent' <= Sent
  PROVE  Token' <= One(Spawned)'
<1>1. Sent \in Nat /\ Sent' \in Nat
  BY CountsOfSession, CountsAfter DEF Sent, Transit
<1>2. /\ One(paused) \in 0 .. 1 /\ One(Running) \in 0 .. 1 /\ One(Asked) \in 0 .. 1
      /\ One(Failed) \in 0 .. 1 /\ One(Spawned) \in 0 .. 1
      /\ One(paused)' \in 0 .. 1 /\ One(Running)' \in 0 .. 1 /\ One(Asked)' \in 0 .. 1
      /\ One(Failed)' \in 0 .. 1 /\ One(Spawned)' \in 0 .. 1
  BY DEF One
<1>3. /\ One(paused)' <= One(paused) /\ One(Running)' <= One(Running)
      /\ One(Asked)' <= One(Asked) /\ One(Failed)' <= One(Failed)
      /\ One(Spawned) <= One(Spawned)'
  BY DEF One
<1>4. One(paused)' + One(Running)' + One(Asked)' + One(Failed)' + Sent'
        <= One(paused) + One(Running) + One(Asked) + One(Failed) + Sent
  <2> DEFINE a == One(paused)
             b == One(Running)
             d == One(Asked)
             e == One(Failed)
  <2>1. /\ a \in 0 .. 1 /\ b \in 0 .. 1 /\ d \in 0 .. 1 /\ e \in 0 .. 1
        /\ a' \in 0 .. 1 /\ b' \in 0 .. 1 /\ d' \in 0 .. 1 /\ e' \in 0 .. 1
        /\ a' <= a /\ b' <= b /\ d' <= d /\ e' <= e
    BY <1>2, <1>3
  <2> HIDE DEF a, b, d, e
  <2>2. a' + b' + d' + e' + Sent' <= a + b + d + e + Sent
    BY <1>1, <2>1, FiveSmaller
  <2> QED
    BY <2>2 DEF a, b, d, e
<1>5. Token' <= Token /\ Token <= One(Spawned)
  BY <1>4 DEF ControlInv, Token
<1>6. Token \in Nat /\ Token' \in Nat
  BY <1>1, <1>2 DEF Token
<1> QED
  BY <1>2, <1>3, <1>5, <1>6

LEMMA TokenMade ==
  ASSUME TypeOK', Spawned',
         \/ ~Running' /\ ~Asked' /\ ~Failed' /\ Sent' = 0
         \/ ~paused' /\ ~Asked' /\ ~Failed' /\ Sent' = 0
         \/ ~paused' /\ ~Running' /\ ~Failed' /\ Sent' = 0
         \/ ~paused' /\ ~Running' /\ ~Asked' /\ Sent' = 0
         \/ ~paused' /\ ~Running' /\ ~Asked' /\ ~Failed' /\ Sent' <= 1
  PROVE  Token' <= One(Spawned)'
<1>1. Sent' \in Nat
  BY CountsAfter DEF Sent, Transit
<1>2. /\ One(paused)' \in 0 .. 1 /\ One(Running)' \in 0 .. 1 /\ One(Asked)' \in 0 .. 1
      /\ One(Failed)' \in 0 .. 1
  BY DEF One
<1>3. /\ ~paused' => One(paused)' = 0
      /\ ~Running' => One(Running)' = 0
      /\ ~Asked' => One(Asked)' = 0
      /\ ~Failed' => One(Failed)' = 0
      /\ One(Spawned)' = 1
  BY DEF One
<1>4. One(paused)' + One(Running)' + One(Asked)' + One(Failed)' + Sent' <= 1
  <2> DEFINE a == One(paused)'
             b == One(Running)'
             d == One(Asked)'
             e == One(Failed)'
             n == Sent'
  <2>1. /\ a \in 0 .. 1 /\ b \in 0 .. 1 /\ d \in 0 .. 1 /\ e \in 0 .. 1 /\ n \in Nat
        /\ \/ b = 0 /\ d = 0 /\ e = 0 /\ n = 0
           \/ a = 0 /\ d = 0 /\ e = 0 /\ n = 0
           \/ a = 0 /\ b = 0 /\ e = 0 /\ n = 0
           \/ a = 0 /\ b = 0 /\ d = 0 /\ n = 0
           \/ a = 0 /\ b = 0 /\ d = 0 /\ e = 0 /\ n <= 1
    BY <1>1, <1>2, <1>3
  <2> HIDE DEF a, b, d, e, n
  <2>2. a + b + d + e + n <= 1
    BY <2>1, FiveExclusive
  <2> QED
    BY <2>2 DEF a, b, d, e, n
<1> QED
  BY <1>3, <1>4 DEF Token

\* The debuggee takes the token with a resume, returns it with a stop or with
\* the refusal of a resume, and loses it at its end.
LEMMA LuaControl ==
  ASSUME TypeOK, TypeOK', AddressInv, ControlInv, LuaShape, UNCHANGED adapterVars
  PROVE  ControlInv'
<1> SUFFICES ASSUME ~closed PROVE ControlInv'
  BY DEF ControlInv, adapterVars, flags
<1>1. /\ UNCHANGED <<commands, paused, closed, reader, pc, req, outcome>>
      /\ Signals' = Signals /\ OwnCommands' = OwnCommands
      /\ (Asked' <=> Asked) /\ (Failed' <=> Failed) /\ (Spawned' <=> Spawned)
  BY DEF adapterVars, flags, callVars, taskVars, Signals, OwnCommands, Asked, Failed, Spawned
<1>2. /\ commands' \in Seq(OwnCommands') /\ stdin' \in Seq(OwnCommands')
      /\ queuedCommands' \in Seq(OwnCommands')
  BY <1>1, MovedCommands DEF ControlInv
<1>3. /\ Sent \in Nat
      /\ Running => ~paused /\ ~Asked /\ ~Failed /\ Sent = 0 /\ Spawned
      /\ Sent # 0 => ~paused /\ ~Asked /\ ~Failed /\ Sent = 1 /\ Spawned
  BY TokenOnce
<1> SUFFICES Token' <= One(Spawned)'
  BY <1>1, <1>2 DEF ControlInv
<1> PICK U : U = Signals
  OBVIOUS
<1>4. Sent = Transit(ResumeCommands, U) /\ Sent' = Transit(ResumeCommands, U)'
  BY <1>1 DEF Sent, Transit
<1>5. /\ U \subseteq Messages
      /\ Stopped \in U /\ Stopped \in Messages
      /\ LuaOutput \notin U /\ LuaOutput \in Messages
      /\ Message("reply", "loop", NoFile, 0) \notin U
      /\ Message("reply", "loop", NoFile, 0) \in Messages
      /\ \A f \in Files : Message("resolvePath", Nobody, f, 0) \in Messages \ U
      /\ \A kind, f, v : Message("breakpointsChanged", Nobody, f, v) \notin U
  BY PlainMessages DEF Signals, StopMessages, LoopErrors, Stopped, LuaOutput, Message
<1>6. stdin # <<>> /\ Head(stdin).cmd = "resolved" => Head(stdin) \notin ResumeCommands
  BY DEF ResumeCommands, Resumes
<1>7. \A m \in OwnCommands : \A kind \in {"reply", "error"} :
        Message(kind, m.by, m.file, m.ver) \in U => m \in ResumeCommands /\ kind = "error"
  BY DEF OwnCommands, Signals, StopMessages, LoopErrors, Message, ResumeCommands
<1>8. ASSUME Sent' <= Sent, Running' => Running PROVE Token' <= One(Spawned)'
  BY <1>1, <1>8, TokenSmaller
<1>9. ASSUME NEW n \in Nat, PathRead \/ UNCHANGED <<stdin, queuedCommands>>,
             Count(protocol, U)' = Count(protocol, U) + n
      PROVE  Sent' = Sent + n
  BY <1>1, <1>4, <1>6, <1>9, WrittenTransit
<1>10. ASSUME \/ protocol' = protocol \/ Emit(<<LuaOutput>>)
              \/ \E f \in Files : Emit(<<Message("resolvePath", Nobody, f, 0)>>)
       PROVE  Count(protocol, U)' = Count(protocol, U) + 0
  <2>1. Count(protocol, U) \in Nat
    BY CountsOfSession
  <2>2. CASE protocol' = protocol
    BY <2>1, <2>2
  <2>3. CASE Emit(<<LuaOutput>>)
    <3>1. Count(protocol, U)' = Count(protocol, U) + One(LuaOutput \in U)
      BY <1>5, <2>3, EmittedOne, Zenon
    <3> QED
      BY <1>5, <3>1 DEF One
  <2>4. ASSUME NEW f \in Files, Emit(<<Message("resolvePath", Nobody, f, 0)>>)
        PROVE  Count(protocol, U)' = Count(protocol, U) + 0
    <3>1. Count(protocol, U)'
            = Count(protocol, U) + One(Message("resolvePath", Nobody, f, 0) \in U)
      BY <1>5, <2>4, EmittedOne, Zenon
    <3> QED
      BY <1>5, <3>1 DEF One
  <2> QED
    BY <1>10, <2>2, <2>3, <2>4
<1>11. ASSUME NEW kind \in {"reply", "error"}, NEW pre, Serves(kind, pre)
       PROVE  Token' <= One(Spawned)'
  <2> DEFINE m == NextCommand
             x == One(m \in ResumeCommands)
             y == One(m.by # Nobody /\ Message(kind, m.by, m.file, m.ver) \in U)
  <2>1. m \in OwnCommands
    BY <1>11, TakenFrom DEF Serves, ControlInv
  <2>2. Sent' + x = Sent + y
    <3>1. /\ Message("breakpointsChanged", Nobody, m.file, m.ver) \notin U
          /\ UNCHANGED commands
      BY <1>1, <1>5
    <3>2. Transit(ResumeCommands, U)' + x = Transit(ResumeCommands, U) + y
      BY <1>11, <3>1, ServedTransit
    <3> QED
      BY <1>4, <3>2
  <2>3. /\ x \in 0 .. 1 /\ y \in 0 .. 1 /\ y <= x
        /\ kind = "reply" => y = 0
        /\ m.cmd \in Resumes => x = 1
    BY <1>7, <2>1 DEF One, ResumeCommands, OwnCommands
  <2> HIDE DEF x, y
  <2>4. Sent' \in Nat
    BY CountsAfter DEF Sent, Transit
  <2>5. CASE Running' <=> Running
    <3>1. Sent' <= Sent
      BY <1>3, <2>2, <2>3, <2>4, Served
    <3> QED
      BY <1>8, <2>5, <3>1
  <2>6. CASE kind = "reply" /\ m.cmd \in Resumes /\ ~Running /\ Running'
    <3>1. Sent # 0 /\ (Sent = 1 => Sent' = 0)
      BY <1>3, <2>2, <2>3, <2>4, <2>6, Served
    <3>2. Sent # 0 /\ Sent' = 0
      BY <1>3, <3>1, Zenon
    <3>3. ~paused' /\ ~Asked' /\ ~Failed' /\ Spawned'
      BY <1>1, <1>3, <3>2
    <3> QED
      BY <3>2, <3>3, TokenMade
  <2> QED
    BY <1>11, <2>5, <2>6 DEF Serves
<1>12. CASE BeginsQuery
  <2>1. Sent' + One(NextCommand \in ResumeCommands) = Sent
    BY <1>1, <1>4, <1>5, <1>12, TakenTransit
  <2>2. NextCommand \notin ResumeCommands
    BY <1>12 DEF BeginsQuery, ResumeCommands, Resumes
  <2>3. Sent' = Sent
    <3>1. One(NextCommand \in ResumeCommands) = 0
      BY <2>2 DEF One
    <3>2. Sent' \in Nat
      BY CountsAfter DEF Sent, Transit
    <3> QED
      BY <2>1, <3>1, <3>2
  <2> QED
    BY <1>3, <1>8, <1>12, <2>3 DEF BeginsQuery
<1>13. CASE EndsQuery
  <2>1. Count(protocol, U)' = Count(protocol, U) + 0
    <3>1. Count(protocol, U)'
            = Count(protocol, U) + One(Message("reply", "loop", NoFile, 0) \in U)
      BY <1>5, <1>13, EmittedOne, Zenon DEF EndsQuery
    <3> QED
      BY <1>5, <3>1 DEF One
  <2>2. Sent' = Sent + 0
    BY <1>9, <1>13, <2>1 DEF EndsQuery
  <2> QED
    BY <1>3, <1>8, <1>13, <2>2 DEF EndsQuery
<1>14. CASE Keeps
  <2>1. Sent' = Sent
    BY <1>1, <1>4, <1>14, KeptTransit
  <2> QED
    BY <1>3, <1>8, <1>14, <2>1 DEF Keeps
<1>15. CASE Stops
  <2>1. Count(protocol, U)' = Count(protocol, U) + 1
    <3>1. CASE Emit(<<Stopped>>)
      <4>1. Count(protocol, U)' = Count(protocol, U) + One(Stopped \in U)
        BY <1>5, <3>1, EmittedOne, Zenon
      <4> QED
        BY <1>5, <4>1 DEF One
    <3>2. CASE Emit(<<LuaOutput>> \o <<Stopped>>)
      <4>1. Count(protocol, U)'
              = Count(protocol, U) + (One(LuaOutput \in U) + One(Stopped \in U))
        <5>1. LuaOutput \in Messages /\ Stopped \in Messages
          BY <1>5
        <5> QED
          BY <3>2, <5>1, EmittedTwo, Zenon
      <4>2. One(LuaOutput \in U) = 0 /\ One(Stopped \in U) = 1
        BY <1>5 DEF One
      <4> QED
        BY <4>1, <4>2
    <3> QED
      BY <1>15, <3>1, <3>2 DEF Stops
  <2>2. Sent' = Sent + 1
    BY <1>9, <1>15, <2>1 DEF Stops
  <2>3. Sent' <= 1 /\ ~paused' /\ ~Running' /\ ~Asked' /\ ~Failed' /\ Spawned'
    BY <1>1, <1>3, <1>15, <2>2 DEF Stops
  <2> QED
    BY <2>3, TokenMade
<1>16. CASE Goes
  <2>1. Sent' = Sent + 0
    BY <1>9, <1>10, <1>16 DEF Goes
  <2> QED
    BY <1>3, <1>8, <1>16, <2>1 DEF Goes
<1>17. CASE Ends
  <2>1. Sent' = Sent + 0
    BY <1>9, <1>10, <1>17 DEF Ends
  <2> QED
    BY <1>3, <1>8, <1>17, <2>1 DEF Ends
<1>18. CASE \E kind \in {"reply", "error"} : \E pre : Serves(kind, pre)
  BY <1>11, <1>18, Zenon
<1> QED
  BY <1>12, <1>13, <1>14, <1>15, <1>16, <1>17, <1>18 DEF LuaShape
-----------------------------------------------------------------------------
(***************************************************************************)
(* Between two requests nothing of the request loop is on the way.         *)
(***************************************************************************)

LEMMA NoneLeft ==
  ASSUME NEW a \in Nat, NEW b \in Nat, NEW d \in Nat, NEW e \in Nat, NEW f \in 0 .. 1,
         a + b + d + e + f = 0
  PROVE  a = 0 /\ b = 0 /\ d = 0 /\ e = 0
OBVIOUS

LEMMA NoCommandOf ==
  ASSUME NEW c, NEW s \in Seq(Commands), Count(s, CallsOf(c)) = 0,
         NEW S, \A m \in Commands : m.by # c => m \in S
  PROVE  s \in Seq(S)
<1>1. \A i \in 1 .. Len(s) : s[i] \in Commands /\ s[i] \notin CallsOf(c)
  BY CountNone
<1>2. \A i \in 1 .. Len(s) : s[i] \in S
  BY <1>1 DEF CallsOf
<1> QED
  BY <1>2, IsASeq

LEMMA LoopFree ==
  ASSUME TypeOK, CallInv, ~closed, "loop" \notin pending,
         NEW S, \A m \in Commands : m.by # "loop" => m \in S
  PROVE  /\ commands \in Seq(S) /\ stdin \in Seq(S) /\ queuedCommands \in Seq(S)
         /\ Count(protocol, RepliesTo("loop")) = 0
<1> DEFINE a == Count(commands, CallsOf("loop"))
           b == Count(stdin, CallsOf("loop"))
           d == Count(queuedCommands, CallsOf("loop"))
           e == Count(protocol, RepliesTo("loop"))
           f == One("loop" = "loop" /\ Resolving)
<1>1. Owed("loop") = 0
  BY CallerNames DEF CallInv, CallOwed
<1>2. a \in Nat /\ b \in Nat /\ d \in Nat /\ e \in Nat
  BY CountsOfSession
<1>3. f \in 0 .. 1
  BY DEF One
<1>4. a + b + d + e + f = 0
  BY <1>1 DEF Owed, Transit
<1> HIDE DEF a, b, d, e, f
<1>5. a = 0 /\ b = 0 /\ d = 0 /\ e = 0
  BY <1>2, <1>3, <1>4, NoneLeft
<1>6. commands \in Seq(Commands) /\ stdin \in Seq(Commands) /\ queuedCommands \in Seq(Commands)
  BY DEF TypeOK, WireTypeOK, LuaTypeOK, AdapterTypeOK
<1> QED
  BY <1>5, <1>6, NoCommandOf DEF a, b, d, e

LEMMA SignalsOfFree ==
  ASSUME NEW s \in Seq(Messages), Count(s, RepliesTo("loop")) = 0,
         NEW R \in {{}, LoopErrors}
  PROVE  Count(s, StopMessages \union R) = Count(s, StopMessages)
<1>1. \A i \in 1 .. Len(s) : s[i] \in Messages /\ s[i] \notin RepliesTo("loop")
  BY CountNone
<1>2. Places(s, StopMessages \union R) = Places(s, StopMessages)
  BY <1>1 DEF Places, LoopErrors, RepliesTo
<1> QED
  BY <1>2 DEF Count

LEMMA LoopTurn ==
  ASSUME TypeOK, CallInv, ~closed, "loop" \notin pending,
         UNCHANGED <<commands, stdin, queuedCommands, protocol>>
  PROVE  /\ Sent' = Sent
         /\ commands' \in Seq(OwnCommands') /\ stdin' \in Seq(OwnCommands')
         /\ queuedCommands' \in Seq(OwnCommands')
<1>1. /\ protocol \in Seq(Messages)
      /\ Count(protocol, RepliesTo("loop")) = 0
  BY LoopFree DEF TypeOK, WireTypeOK
<1>2. Count(protocol, Signals) = Count(protocol, StopMessages)
  <2>1. Signals = StopMessages \union {} \/ Signals = StopMessages \union LoopErrors
    BY DEF Signals
  <2> QED
    BY <1>1, <2>1, SignalsOfFree
<1>3. Count(protocol, Signals)' = Count(protocol, StopMessages)
  <2>1. Signals' = StopMessages \union {} \/ Signals' = StopMessages \union LoopErrors
    BY DEF Signals
  <2>2. Count(protocol, Signals)' = Count(protocol, Signals')
    BY DEF Count, Places
  <2> QED
    BY <1>1, <2>1, <2>2, SignalsOfFree
<1>4. Sent' = Sent
  BY <1>2, <1>3 DEF Sent, Transit
<1>5. \A m \in Commands : m.by # "loop" => m \in OwnCommands'
  BY DEF OwnCommands
<1> QED
  BY <1>4, <1>5, LoopFree

\* A step that leaves the request and the channels alone.
LEMMA QuietControl ==
  ASSUME TypeOK, TypeOK', ControlInv, closed => closed', Spawned => Spawned',
         UNCHANGED <<paused, req, commands, stdin, protocol, luaVars>>,
         Asked' => Asked, Failed' => Failed
  PROVE  ControlInv'
<1> SUFFICES ASSUME ~closed PROVE ControlInv'
  BY DEF ControlInv
<1>1. UNCHANGED <<queuedCommands, lpc, back>>
  BY DEF luaVars
<1>2. Running' <=> Running
  BY <1>1 DEF Running, LuaAlive, LuaWaits, InCommandLoop
<1>3. Signals' = Signals /\ OwnCommands' = OwnCommands
  BY DEF Signals, OwnCommands
<1>4. Sent' = Sent
  BY <1>1, <1>3 DEF Sent, Transit
<1>5. Sent \in Nat
  BY TokenOnce
<1>6. Token' <= One(Spawned)'
  BY <1>2, <1>4, <1>5, TokenSmaller
<1> QED
  BY <1>1, <1>3, <1>6 DEF ControlInv

\* A request begins or ends, and does not resume the program.
LEMMA TurnControl ==
  ASSUME TypeOK, TypeOK', CallInv, ControlInv, closed => closed', Spawned => Spawned',
         "loop" \notin pending, UNCHANGED <<commands, stdin, protocol, luaVars>>,
         paused' => paused, ~Asked', ~Failed'
  PROVE  ControlInv'
<1> SUFFICES ASSUME ~closed PROVE ControlInv'
  BY DEF ControlInv
<1>1. UNCHANGED <<queuedCommands, lpc, back>>
  BY DEF luaVars
<1>2. Running' <=> Running
  BY <1>1 DEF Running, LuaAlive, LuaWaits, InCommandLoop
<1>3. /\ Sent' = Sent
      /\ commands' \in Seq(OwnCommands') /\ stdin' \in Seq(OwnCommands')
      /\ queuedCommands' \in Seq(OwnCommands')
  BY <1>1, LoopTurn
<1>4. Sent \in Nat
  BY TokenOnce
<1>5. Token' <= One(Spawned)'
  BY <1>2, <1>3, <1>4, TokenSmaller
<1> QED
  BY <1>3, <1>5 DEF ControlInv

LEMMA RequestControl ==
  ASSUME TypeOK, TypeOK', CallInv, PhaseInv, ControlInv, UNCHANGED luaVars,
         \/ QueryRequest \/ PauseRequest \/ Terminate \/ HandshakeDone \/ HandshakeFailed
         \/ \E f \in Files : SetBreakpointsRequest(f)
  PROVE  ControlInv'
<1> USE DEF wireVars, clientVars, setVars, taskVars, callVars, flags
<1>1. "loop" \in Callers /\ CallSlot("loop")
  BY CallerNames DEF CallInv
<1>2. pc["loop"] \in {"idle", "start"}
  BY DEF QueryRequest, PauseRequest, Terminate, HandshakeDone, HandshakeFailed,
         SetBreakpointsRequest, LoopIdle
<1>3. "loop" \notin pending
  BY <1>1, <1>2 DEF CallSlot
<1>4. req' \notin Resumes
  <2>1. QueryRequest \/ PauseRequest \/ HandshakeDone \/ HandshakeFailed
          => req' \in {"query", "pause", "none"}
    BY DEF QueryRequest, PauseRequest, HandshakeDone, HandshakeFailed
  <2>2. Terminate => req' = "none"
    BY DEF Terminate, PhaseInv
  <2>3. (\E f \in Files : SetBreakpointsRequest(f)) => req' = "setBreakpoints"
    BY DEF SetBreakpointsRequest
  <2> QED
    BY <2>1, <2>2, <2>3 DEF Resumes
<1>5. /\ UNCHANGED <<paused, closed, reader, commands, stdin, protocol>>
  <2>1. QueryRequest \/ PauseRequest \/ Terminate
          => UNCHANGED <<paused, closed, reader, commands, stdin, protocol>>
    BY DEF QueryRequest, PauseRequest, Terminate
  <2>2. HandshakeDone \/ HandshakeFailed
          => UNCHANGED <<paused, closed, reader, commands, stdin, protocol>>
    BY DEF HandshakeDone, HandshakeFailed
  <2>3. (\E f \in Files : SetBreakpointsRequest(f))
          => UNCHANGED <<paused, closed, reader, commands, stdin, protocol>>
    BY DEF SetBreakpointsRequest
  <2> QED
    BY <2>1, <2>2, <2>3
<1> QED
  BY <1>3, <1>4, <1>5, TurnControl DEF Asked, Failed, Spawned

LEMMA ResumeControl ==
  ASSUME TypeOK, TypeOK', CallInv, PhaseInv, ControlInv, UNCHANGED luaVars,
         NEW r \in Resumes, ResumeRequest(r)
  PROVE  ControlInv'
<1> SUFFICES ASSUME ~closed PROVE ControlInv'
  BY DEF ControlInv, ResumeRequest
<1>1. /\ UNCHANGED <<commands, stdin, protocol, closed, reader, outcome>>
      /\ pc["loop"] = "idle" /\ Launched /\ ~paused'
      /\ AnswersPaused \/ ~configured
  BY DEF ResumeRequest, wireVars, taskVars, LoopIdle, MarkRunning
<1>2. UNCHANGED <<queuedCommands, lpc, back>>
  BY DEF luaVars
<1>3. paused /\ Spawned
  BY <1>1 DEF AnswersPaused, PhaseInv
<1>4. ~Running /\ ~Failed /\ Sent = 0
  BY <1>3, TokenOnce
<1>5. "loop" \notin pending /\ outcome["loop"] = "none"
  BY <1>1, CallerNames DEF CallInv, CallSlot
<1>6. /\ Sent' = Sent
      /\ commands' \in Seq(OwnCommands') /\ stdin' \in Seq(OwnCommands')
      /\ queuedCommands' \in Seq(OwnCommands')
  BY <1>1, <1>2, <1>5, LoopTurn
<1>7. ~Running' /\ ~Failed' /\ Spawned'
  BY <1>1, <1>2, <1>3, <1>4, <1>5
     DEF Running, LuaAlive, LuaWaits, InCommandLoop, Failed, Spawned
<1>8. Token' <= One(Spawned)'
  BY <1>1, <1>4, <1>6, <1>7, TokenMade
<1> QED
  BY <1>6, <1>8 DEF ControlInv

LEMMA StartControl ==
  ASSUME TypeOK, TypeOK', CallInv, PhaseInv, ControlInv, Start
  PROVE  ControlInv'
<1>1. /\ UNCHANGED <<commands, stdin, protocol, queuedCommands, closed, outcome>>
      /\ pc["loop"] = "idle" /\ ~Spawned /\ Spawned' /\ lpc' = "boot"
      /\ pc' = [pc EXCEPT !["loop"] = "start", !["handshake"] = "call"]
      /\ req' = "launch"
  BY DEF Start, Launch, LuaStart, wireVars, LoopIdle, Spawned
<1>2. ~closed
  BY <1>1 DEF PhaseInv
<1>3. "loop" \notin pending
  BY <1>1, CallerNames DEF CallInv, CallSlot
<1>4. /\ Sent' = Sent
      /\ commands' \in Seq(OwnCommands') /\ stdin' \in Seq(OwnCommands')
      /\ queuedCommands' \in Seq(OwnCommands')
  BY <1>1, <1>2, <1>3, LoopTurn
<1>5. Sent = 0
  BY <1>1, <1>2, TokenOnce
<1>6. ~Running' /\ ~Asked' /\ ~Failed'
  BY <1>1 DEF Running, LuaWaits, InCommandLoop, Asked, Failed, Resumes
<1>7. Token' <= One(Spawned)'
  BY <1>1, <1>4, <1>5, <1>6, TokenMade
<1> QED
  BY <1>4, <1>7 DEF ControlInv

LEMMA ResponseControl ==
  ASSUME TypeOK, TypeOK', CallInv, ControlInv, UNCHANGED luaVars, LoopResponds
  PROVE  ControlInv'
<1>1. /\ UNCHANGED <<commands, stdin, protocol, closed, reader>>
      /\ outcome["loop"] # "none" /\ outcome' = [outcome EXCEPT !["loop"] = "none"]
      /\ pc' = [pc EXCEPT !["loop"] = "idle"] /\ req' = "none"
      /\ paused' = (paused \/ Failed)
  BY DEF LoopResponds, wireVars, taskVars, Goto, Finish, PausedAfterReply, Failed
<1>2. "loop" \notin pending
  BY <1>1, CallerNames DEF CallInv, CallSlot
<1>3. ~Asked' /\ ~Failed'
  BY <1>1 DEF Asked, Failed, Resumes
<1>4. Spawned' <=> Spawned
  BY <1>1 DEF Spawned
<1>5. CASE ~Failed
  BY <1>1, <1>2, <1>3, <1>4, <1>5, TurnControl
<1>6. CASE Failed /\ ~closed
  <2>1. ~Running /\ Sent = 0 /\ Spawned
    BY <1>6, TokenOnce
  <2>2. UNCHANGED <<queuedCommands, lpc, back>>
    BY DEF luaVars
  <2>3. /\ Sent' = Sent
        /\ commands' \in Seq(OwnCommands') /\ stdin' \in Seq(OwnCommands')
        /\ queuedCommands' \in Seq(OwnCommands')
    BY <1>1, <1>2, <1>6, <2>2, LoopTurn
  <2>4. ~Running'
    BY <2>1, <2>2 DEF Running, LuaAlive, LuaWaits, InCommandLoop
  <2>5. Token' <= One(Spawned)'
    BY <1>3, <1>4, <2>1, <2>3, <2>4, TokenMade
  <2> QED
    BY <2>3, <2>5 DEF ControlInv
<1>7. CASE closed
  BY <1>1, <1>7 DEF ControlInv
<1> QED
  BY <1>5, <1>6, <1>7

LEMMA OneMore ==
  ASSUME NEW n, NEW k, NEW x \in 0 .. 1, k = 0, n = k + x PROVE n <= 1
OBVIOUS

LEMMA OneLess ==
  ASSUME NEW n \in Nat, NEW k \in Nat, NEW x \in 0 .. 1, k = n + x
  PROVE  n <= k /\ (x = 1 => k # 0 /\ (k <= 1 => n = 0))
OBVIOUS

\* A command that does not resume the program.
LEMMA QueueControl ==
  ASSUME TypeOK, TypeOK', ControlInv, ~closed, UNCHANGED reader,
         UNCHANGED <<paused, req, stdin, protocol, luaVars>>,
         NEW e \in OwnCommands, e \notin ResumeCommands, commands' = Append(commands, e),
         Asked' => Asked, Failed' => Failed
  PROVE  ControlInv'
<1>1. UNCHANGED <<queuedCommands, lpc, back>>
  BY DEF luaVars
<1>2. (Running' <=> Running) /\ (Spawned' <=> Spawned)
  BY <1>1 DEF Running, LuaAlive, LuaWaits, InCommandLoop, Spawned
<1>3. Signals' = Signals /\ OwnCommands' = OwnCommands /\ e \in Commands
  BY DEF Signals, OwnCommands
<1>4. Sent' = Sent
  <2> PICK U : U = Signals
    OBVIOUS
  <2>1. Sent = Transit(ResumeCommands, U) /\ Sent' = Transit(ResumeCommands, U)'
    BY <1>3 DEF Sent, Transit
  <2>2. Transit(ResumeCommands, U)' = Transit(ResumeCommands, U) + One(e \in ResumeCommands)
    BY <1>1, <1>3, QueuedTransit
  <2>3. Sent \in Nat /\ One(e \in ResumeCommands) = 0
    BY TokenOnce DEF One
  <2> QED
    BY <2>1, <2>2, <2>3
<1>5. Sent \in Nat
  BY TokenOnce
<1>6. Token' <= One(Spawned)'
  BY <1>2, <1>4, <1>5, TokenSmaller
<1>7. commands' \in Seq(OwnCommands)
  BY Appended DEF ControlInv
<1> QED
  BY <1>1, <1>3, <1>6, <1>7 DEF ControlInv

LEMMA CallControl ==
  ASSUME TypeOK, TypeOK', CallInv, ControlInv, UNCHANGED luaVars, NEW c \in Callers, Call(c)
  PROVE  ControlInv'
<1> SUFFICES ASSUME ~closed PROVE ControlInv'
  BY DEF ControlInv, Call, flags
<1>1. /\ pc[c] = "call" /\ pc' = [pc EXCEPT ![c] = "await"]
      /\ UNCHANGED <<paused, closed, req, reader, stdin, protocol>>
  BY DEF Call, Goto, flags, taskVars, wireVars
<1>2. UNCHANGED <<queuedCommands, lpc, back>>
  BY DEF luaVars
<1>3. /\ Running' <=> Running
      /\ Spawned' <=> Spawned
      /\ Asked' => Asked
  BY <1>1, <1>2 DEF Running, LuaAlive, LuaWaits, InCommandLoop, Asked, Spawned
<1>4. Signals' = Signals /\ OwnCommands' = OwnCommands
  BY <1>1 DEF Signals, OwnCommands
<1> PICK U : U = Signals
  OBVIOUS
<1>5. Sent = Transit(ResumeCommands, U) /\ Sent' = Transit(ResumeCommands, U)'
  BY <1>4 DEF Sent, Transit
<1>6. CommandOf(c) \in Commands
  BY <1>1, CommandOfType DEF TypeOK
<1>7. CommandOf(c) \in OwnCommands
  BY <1>6 DEF OwnCommands, CommandOf, Command
<1>8. CASE c = "loop" /\ req \in Resumes
  <2>1. Asked
    BY <1>1, <1>8 DEF Asked
  <2>2. ~paused /\ ~Running /\ ~Failed /\ Sent = 0 /\ Spawned
    BY <2>1, TokenOnce
  <2>3. ~paused' /\ ~Running' /\ ~Asked' /\ Spawned'
    BY <1>1, <1>3, <1>8, <2>2, CallerNames DEF Asked, TypeOK, AdapterTypeOK
  <2>4. CASE Refused
    <3>1. UNCHANGED commands
      BY <2>4 DEF Call
    <3>2. Sent' = Sent
      BY <1>1, <1>2, <1>5, <3>1, SameTransit
    <3>3. Token' <= One(Spawned)'
      BY <2>2, <2>3, <3>2, TokenMade
    <3> QED
      BY <1>1, <1>2, <1>4, <3>1, <3>3 DEF ControlInv
  <2>5. CASE ~Refused
    <3>1. commands' = Append(commands, CommandOf(c)) /\ UNCHANGED outcome
      BY <2>5 DEF Call
    <3>2. Transit(ResumeCommands, U)'
            = Transit(ResumeCommands, U) + One(CommandOf(c) \in ResumeCommands)
      BY <1>1, <1>2, <1>6, <3>1, QueuedTransit
    <3>3. One(CommandOf(c) \in ResumeCommands) \in 0 .. 1
      BY DEF One
    <3>4. Sent' <= 1
      <4>1. Sent' = Sent + One(CommandOf(c) \in ResumeCommands)
        BY <1>5, <3>2, Zenon
      <4> QED
        BY <2>2, <3>3, <4>1, OneMore, Zenon
    <3>5. ~Failed'
      BY <1>1, <2>2, <3>1 DEF Failed
    <3>6. Token' <= One(Spawned)'
      BY <2>3, <3>4, <3>5, TokenMade
    <3>7. commands' \in Seq(OwnCommands)
      BY <1>7, <3>1, Appended DEF ControlInv
    <3> QED
      BY <1>1, <1>2, <1>4, <3>6, <3>7 DEF ControlInv
  <2> QED
    BY <2>4, <2>5
<1>9. CASE ~(c = "loop" /\ req \in Resumes)
  <2>1. Failed' => Failed
    BY <1>1, <1>9, CallerNames DEF Failed, Call, Finish, TypeOK, AdapterTypeOK
  <2>2. CASE Refused
    <3>1. UNCHANGED commands
      BY <2>2 DEF Call
    <3> QED
      BY <1>1, <1>3, <2>1, <3>1, QuietControl
  <2>3. CASE ~Refused
    <3>1. commands' = Append(commands, CommandOf(c))
      BY <2>3 DEF Call
    <3>2. CommandOf(c) \notin ResumeCommands
      BY <1>9 DEF CommandOf, Command, ResumeCommands, Resumes
    <3> QED
      BY <1>1, <1>3, <1>7, <2>1, <3>1, <3>2, QueueControl
  <2> QED
    BY <2>2, <2>3
<1> QED
  BY <1>8, <1>9

LEMMA NotifyControl ==
  ASSUME TypeOK, TypeOK', CallInv, PhaseInv, ControlInv, UNCHANGED luaVars,
         NEW c \in Callers, Notify(c)
  PROVE  ControlInv'
<1> SUFFICES ASSUME ~closed PROVE ControlInv'
  BY DEF ControlInv, Notify, flags
<1>1. /\ pc[c] = "notify" /\ pc' = [pc EXCEPT ![c] = "await"]
      /\ UNCHANGED <<paused, closed, req, reader, stdin, protocol>>
      /\ \E o \in {"queued", "error"} : outcome' = [outcome EXCEPT ![c] = o]
  BY DEF Notify, Goto, Finish, flags, taskVars, wireVars
<1>2. (Asked' => Asked) /\ (Failed' => Failed)
  <2>1. c = "loop" => req \notin Resumes
    BY <1>1 DEF PhaseInv
  <2> QED
    BY <1>1, <2>1, CallerNames DEF Asked, Failed, TypeOK, AdapterTypeOK
<1>3. CASE Refused
  BY <1>1, <1>2, <1>3, QuietControl DEF Notify, Spawned
<1>4. CASE ~Refused
  <2>1. commands' = Append(commands, Notified(c)) /\ Queues(Notified(c))
    BY <1>4 DEF Notify, Notified, Queues, Refused, wireVars
  <2>2. Notified(c) \in Commands
    BY <2>1, QueuedChannels
  <2>3. Notified(c) \in OwnCommands /\ Notified(c) \notin ResumeCommands
    BY <2>2, NobodyIsNoCaller, CallerNames
       DEF Notified, Command, OwnCommands, ResumeCommands, Resumes
  <2> QED
    BY <1>1, <1>2, <2>1, <2>3, QueueControl
<1> QED
  BY <1>3, <1>4

\* The reader takes a message: a signal becomes the flag, or the outcome the
\* request loop waits for.
LEMMA ReadControl ==
  ASSUME TypeOK, TypeOK', CallInv, ControlInv, UNCHANGED luaVars, Read
  PROVE  ControlInv'
<1> SUFFICES ASSUME ~closed PROVE ControlInv'
  BY DEF ControlInv, Read
<1> DEFINE m == Head(protocol)
<1>1. /\ UNCHANGED <<closed, req, reader, stdin, queuedCommands, lpc, back>>
      /\ protocol # <<>> /\ protocol' = Tail(protocol)
      /\ Deliver(m) \/ ForwardEvent(m) \/ NoteStop(m) \/ AnswerPath(m)
  BY DEF Read, taskVars, luaVars
<1>2. (Running' <=> Running) /\ (Spawned' <=> Spawned)
  BY <1>1 DEF Running, LuaAlive, LuaWaits, InCommandLoop, Spawned
<1>3. Signals' = Signals /\ OwnCommands' = OwnCommands
  BY <1>1 DEF Signals, OwnCommands
<1>4. Sent = Sent' + One(m \in Signals)
  <2> PICK U : U = Signals
    OBVIOUS
  <2>1. Sent = Transit(ResumeCommands, U) /\ Sent' = Transit(ResumeCommands, U)'
    BY <1>3 DEF Sent, Transit
  <2>2. \A f : Command("resolved", Nobody, f, 0) \notin ResumeCommands
    BY DEF ResumeCommands, Command, Resumes
  <2>3. Transit(ResumeCommands, U) = Transit(ResumeCommands, U)' + One(m \in U)
    BY <2>2, ReadTransit
  <2> QED
    BY <2>1, <2>3
<1>5. Sent \in Nat /\ Sent' \in Nat
  BY TokenOnce, CountsAfter DEF Sent, Transit
<1>6. m \in Messages
  BY <1>1, HeadAndTail DEF TypeOK, WireTypeOK
<1>7. Sent' <= Sent /\ (m \in Signals => Sent # 0 /\ (Sent <= 1 => Sent' = 0))
  <2> DEFINE n == Sent'
             k == Sent
             x == One(m \in Signals)
  <2>1. n \in Nat /\ k \in Nat /\ k = n + x
    BY <1>4, <1>5, Zenon
  <2>4. x \in 0 .. 1
    BY OneIs, Zenon
  <2> HIDE DEF n, k, x
  <2>2. n <= k /\ (x = 1 => k # 0 /\ (k <= 1 => n = 0))
    BY <2>1, <2>4, OneLess, Zenon
  <2>3. m \in Signals => x = 1
    BY DEF One, x
  <2> QED
    BY <2>2, <2>3, Zenon DEF n, k
<1>8. commands' \in Seq(OwnCommands)
  <2>1. CASE commands' = commands
    BY <2>1 DEF ControlInv
  <2>2. CASE commands' = Append(commands, Command("resolved", Nobody, m.file, 0))
    <3>1. Command("resolved", Nobody, m.file, 0) \in Commands
      BY <1>6, ZeroIsVersion DEF Messages, Commands, Command, CommandNames
    <3>2. Command("resolved", Nobody, m.file, 0) \in OwnCommands
      BY <3>1, NobodyIsNoCaller, CallerNames DEF OwnCommands, Command
    <3> QED
      BY <2>2, <3>2, Appended DEF ControlInv
  <2> QED
    BY <1>1, <2>1, <2>2 DEF Deliver, ForwardEvent, NoteStop, AnswerPath
<1> SUFFICES Token' <= One(Spawned)'
  BY <1>1, <1>3, <1>8 DEF ControlInv
<1>9. CASE ForwardEvent(m) \/ AnswerPath(m)
  <2>1. UNCHANGED <<paused, pc, outcome>>
    BY <1>9 DEF ForwardEvent, AnswerPath
  <2> QED
    BY <1>1, <1>2, <1>7, <2>1, TokenSmaller DEF Asked, Failed
<1>10. CASE NoteStop(m)
  <2>1. m \in Signals
    BY <1>6, <1>10 DEF NoteStop, Signals, StopMessages
  <2>2. FreeFlusher \in Flushers /\ FreeFlusher # "loop"
    BY <1>10, FreeFlusherIdle, FlusherCaller DEF NoteStop
  <2>3. ~Running /\ ~Asked /\ ~Failed /\ Sent <= 1 /\ Sent # 0 /\ Spawned
    <3>1. Sent # 0
      BY <1>7, <2>1, Zenon
    <3> QED
      BY <3>1, TokenOnce
  <2>4. ~Running' /\ ~Asked' /\ ~Failed' /\ Spawned' /\ Sent' = 0
    <3>1. Sent' = 0
      BY <1>7, <2>1, <2>3
    <3>2. pc'["loop"] = pc["loop"] /\ UNCHANGED outcome
      BY <1>10, <2>2, CallerNames DEF NoteStop, Goto, TypeOK, AdapterTypeOK
    <3> QED
      BY <1>1, <1>2, <2>3, <3>1, <3>2 DEF Asked, Failed
  <2> QED
    BY <2>4, TokenMade
<1>11. CASE Deliver(m)
  <2>1. UNCHANGED <<paused, pc>>
    BY <1>11 DEF Deliver
  <2>2. Asked' <=> Asked
    BY <1>1, <2>1 DEF Asked
  <2>3. CASE Failed' => Failed
    BY <1>2, <1>7, <2>1, <2>2, <2>3, TokenSmaller
  <2>4. CASE Failed' /\ ~Failed
    <3>1. m.kind = "error" /\ m.to = "loop" /\ req \in Resumes
      BY <1>1, <1>11, <2>4, CallerNames DEF Deliver, Failed, Finish, TypeOK, AdapterTypeOK
    <3>2. m \in Signals
      BY <1>6, <3>1 DEF Signals, LoopErrors
    <3>3. Sent # 0
      BY <1>7, <3>2, Zenon
    <3>4. ~paused /\ ~Running /\ ~Asked /\ Sent <= 1 /\ Spawned
      BY <3>3, TokenOnce
    <3>5. Sent' = 0
      BY <1>7, <3>2, <3>4
    <3> QED
      BY <1>2, <2>1, <2>2, <3>4, <3>5, TokenMade
  <2> QED
    BY <2>3, <2>4
<1> QED
  BY <1>1, <1>9, <1>10, <1>11

LEMMA MovesControl ==
  ASSUME TypeOK, TypeOK', ControlInv, Moves, UNCHANGED luaVars,
         UNCHANGED <<paused, closed, req, reader, pc, outcome>>
  PROVE  ControlInv'
<1> SUFFICES ASSUME ~closed PROVE ControlInv'
  BY DEF ControlInv
<1>1. /\ UNCHANGED <<queuedCommands, lpc, back, protocol>>
      /\ commands # <<>> /\ commands' = Tail(commands)
      /\ stdin' = Append(stdin, Head(commands)) \/ stdin' = stdin
  BY DEF luaVars, Moves
<1>2. /\ Running' <=> Running
      /\ Spawned' <=> Spawned
      /\ Asked' <=> Asked
      /\ Failed' <=> Failed
  BY <1>1 DEF Running, LuaAlive, LuaWaits, InCommandLoop, Asked, Failed, Spawned
<1>3. Signals' = Signals /\ OwnCommands' = OwnCommands
  BY DEF Signals, OwnCommands
<1>4. Sent' <= Sent
  <2> PICK U : U = Signals
    OBVIOUS
  <2>1. Sent = Transit(ResumeCommands, U) /\ Sent' = Transit(ResumeCommands, U)'
    BY <1>3 DEF Sent, Transit
  <2>2. Transit(ResumeCommands, U)' <= Transit(ResumeCommands, U)
    BY <1>1, MovedTransit
  <2> QED
    BY <2>1, <2>2
<1>5. Token' <= One(Spawned)'
  BY <1>2, <1>4, TokenSmaller
<1>6. commands' \in Seq(OwnCommands) /\ stdin' \in Seq(OwnCommands)
  <2>1. Head(commands) \in OwnCommands /\ Tail(commands) \in Seq(OwnCommands)
    BY <1>1, HeadAndTail DEF ControlInv
  <2>2. Append(stdin, Head(commands)) \in Seq(OwnCommands)
    BY <2>1, Appended DEF ControlInv
  <2> QED
    BY <1>1, <2>1, <2>2 DEF ControlInv
<1> QED
  BY <1>1, <1>3, <1>5, <1>6 DEF ControlInv

\* What the goroutines do besides calls and messages.
LEMMA OtherControl ==
  ASSUME TypeOK, TypeOK', ControlInv, UNCHANGED luaVars,
         \/ LockBpRequest \/ ReaderEnds \/ Close \/ ReportExit \/ CopyOutput
         \/ PumpReceive \/ PumpBreakpoints
         \/ \E c \in Callers : Decide(c)
         \/ \E k \in Flushers : FlusherStep(k)
  PROVE  ControlInv'
<1> USE DEF wireVars, clientVars, setVars, taskVars, callVars, flags
<1>1. CASE LockBpRequest
  <2>1. Asked' => Asked
    BY <1>1, CallerNames DEF LockBpRequest, Goto, Asked, TypeOK, AdapterTypeOK
  <2> QED
    BY <1>1, <2>1, QuietControl DEF LockBpRequest, Failed, Spawned
<1>2. CASE Close
  BY <1>2 DEF Close, ControlInv
<1>3. CASE ReaderEnds \/ ReportExit \/ CopyOutput
  <2>1. UNCHANGED <<paused, closed, req, pc, outcome, commands, stdin, protocol>>
    BY <1>3 DEF ReaderEnds, ReportExit, CopyOutput
  <2>2. Spawned => Spawned'
    BY <1>3 DEF ReaderEnds, ReportExit, CopyOutput, Spawned
  <2> QED
    BY <2>1, <2>2, QuietControl DEF Asked, Failed
<1>4. CASE PumpReceive \/ PumpBreakpoints
  <2>1. UNCHANGED <<paused, closed, req, reader, pc, outcome, commands, stdin, protocol>>
    BY <1>4 DEF PumpReceive, PumpBreakpoints
  <2> QED
    BY <2>1, QuietControl DEF Asked, Failed, Spawned
<1>5. ASSUME NEW c \in Callers, Decide(c) PROVE ControlInv'
  <2>1. /\ UNCHANGED <<paused, closed, req, reader, commands, stdin, protocol>>
        /\ pc[c] = "decide" /\ \E l \in PCs : pc' = [pc EXCEPT ![c] = l]
        /\ outcome' = outcome \/ outcome' = [outcome EXCEPT ![c] = "queued"]
    BY <1>5 DEF Decide, Goto, Finish, PCs
  <2>2. c = "loop" => req \notin Resumes
    BY <2>1 DEF TypeOK, AdapterTypeOK, Resumes
  <2>3. (Asked' => Asked) /\ (Failed' => Failed)
    BY <2>1, <2>2, CallerNames DEF Asked, Failed, TypeOK, AdapterTypeOK
  <2> QED
    BY <2>1, <2>3, QuietControl DEF Spawned
<1>6. ASSUME NEW k \in Flushers, FlusherStep(k) PROVE ControlInv'
  <2>1. /\ UNCHANGED <<paused, closed, req, reader, commands, stdin, protocol>>
        /\ \E l \in PCs : pc' = [pc EXCEPT ![k] = l]
        /\ outcome' = outcome \/ outcome' = [outcome EXCEPT ![k] = "none"]
    <3>1. CASE FlushTake(k) \/ FlushReport(k) \/ FlushEnd(k)
      BY <3>1 DEF FlushTake, FlushReport, FlushEnd, Goto, Finish, PCs
    <3>2. ASSUME NEW f \in Files, FlushFile(k, f)
          PROVE  /\ UNCHANGED <<paused, closed, req, reader, commands, stdin, protocol>>
                 /\ \E l \in PCs : pc' = [pc EXCEPT ![k] = l]
                 /\ outcome' = outcome
      BY <3>2 DEF FlushFile, Goto, PCs
    <3> QED
      BY <1>6, <3>1, <3>2 DEF FlusherStep
  <2>2. (Asked' => Asked) /\ (Failed' => Failed)
    BY <2>1, FlusherCaller, CallerNames DEF Asked, Failed, TypeOK, AdapterTypeOK
  <2> QED
    BY <2>1, <2>2, QuietControl DEF Spawned
<1> QED
  BY <1>1, <1>2, <1>3, <1>4, <1>5, <1>6

LEMMA WriterControl ==
  ASSUME TypeOK, TypeOK', ControlInv, UNCHANGED luaVars, Write \/ WriterStops
  PROVE  ControlInv'
<1> USE DEF wireVars, clientVars, setVars, taskVars, callVars, flags
<1>1. UNCHANGED <<paused, closed, req, reader, pc, outcome>>
  BY DEF Write, WriterStops
<1>2. Moves \/ UNCHANGED <<commands, stdin, protocol>>
  BY DEF Write, WriterStops, Moves, Dispose
<1>3. CASE Moves
  BY <1>1, <1>3, MovesControl
<1>4. CASE UNCHANGED <<commands, stdin, protocol>>
  BY <1>1, <1>4, QuietControl DEF Asked, Failed, Spawned
<1> QED
  BY <1>2, <1>3, <1>4

LEMMA ControlStep ==
  ASSUME TypeOK, TypeOK', AddressInv, CallInv, PhaseInv, ControlInv, [Next]_vars
  PROVE  ControlInv'
<1>1. CASE Start
  BY <1>1, StartControl
<1>2. CASE Crash
  BY <1>2 DEF Crash, ControlInv
<1>3. CASE ProcessWaited \/ UNCHANGED vars
  <2>1. UNCHANGED <<paused, closed, req, reader, pc, outcome, commands, stdin, protocol, luaVars>>
    BY <1>3 DEF ProcessWaited, vars, wireVars, adapterVars, callVars, flags, taskVars
  <2> QED
    BY <2>1, QuietControl DEF Asked, Failed, Spawned
<1>4. CASE LuaMoves /\ UNCHANGED adapterVars
  BY <1>4, ShapeOfLua, LuaControl
<1>5. CASE AdapterStep /\ UNCHANGED luaVars
  <2>1. ASSUME NEW c \in Callers, Call(c) PROVE ControlInv'
    BY <1>5, <2>1, CallControl
  <2>2. ASSUME NEW c \in Callers, Notify(c) PROVE ControlInv'
    BY <1>5, <2>2, NotifyControl
  <2>3. ASSUME NEW r \in Resumes, ResumeRequest(r) PROVE ControlInv'
    BY <1>5, <2>3, ResumeControl
  <2>4. CASE \/ QueryRequest \/ PauseRequest \/ Terminate \/ HandshakeDone \/ HandshakeFailed
             \/ \E f \in Files : SetBreakpointsRequest(f)
    BY <1>5, <2>4, RequestControl
  <2>5. CASE LoopResponds
    BY <1>5, <2>5, ResponseControl
  <2>6. CASE Write \/ WriterStops
    BY <1>5, <2>6, WriterControl
  <2>7. CASE Read
    BY <1>5, <2>7, ReadControl
  <2>8. CASE \/ LockBpRequest \/ ReaderEnds \/ Close \/ ReportExit \/ CopyOutput
             \/ PumpReceive \/ PumpBreakpoints
             \/ \E c \in Callers : Decide(c)
             \/ \E k \in Flushers : FlusherStep(k)
    BY <1>5, <2>8, OtherControl
  <2> QED
    BY <1>5, <2>1, <2>2, <2>3, <2>4, <2>5, <2>6, <2>7, <2>8, Zenon DEF AdapterStep, ClientStep
<1> QED
  BY <1>1, <1>2, <1>3, <1>4, <1>5, StepCases
-----------------------------------------------------------------------------
(***************************************************************************)
(* The phases of a session.                                                *)
(***************************************************************************)

LEMMA PhaseByLua ==
  ASSUME TypeOK, PhaseInv, LuaMoves, UNCHANGED adapterVars, eof => eof'
  PROVE  PhaseInv'
<1>1. LuaAlive /\ lpc' # "off" /\ UNCHANGED disposed
  BY LuaLives
<1>2. lpc # "off" /\ lpc # "gone"
  BY <1>1 DEF LuaAlive
<1>3. UNCHANGED <<pump, pc, req, reader, paused, closed, writer, configured, done>>
  BY DEF adapterVars, flags, callVars, taskVars, clientVars
<1>4. Spawned
  BY <1>2 DEF PhaseInv
<1> QED
  BY <1>1, <1>2, <1>3, <1>4 DEF PhaseInv, Launched, Spawned, Idle, LoopIdle

LEMMA PhaseByClient ==
  ASSUME TypeOK, PhaseInv, ClientStep, UNCHANGED luaVars
  PROVE  PhaseInv'
<1> USE FlusherCaller, CallerNames
    DEF PhaseInv, Launched, Spawned, Idle, LoopIdle, Goto, TypeOK, AdapterTypeOK, Resumes,
        wireVars, clientVars, setVars, taskVars, callVars, flags, luaVars
<1>1. CASE QueryRequest
  BY <1>1 DEF QueryRequest, AnswersPaused
<1>2. CASE PauseRequest
  BY <1>2 DEF PauseRequest
<1>3. CASE Terminate
  BY <1>3 DEF Terminate, Dispose
<1>4. ASSUME NEW f \in Files, SetBreakpointsRequest(f) PROVE PhaseInv'
  BY <1>4 DEF SetBreakpointsRequest
<1>5. ASSUME NEW r \in Resumes, ResumeRequest(r) PROVE PhaseInv'
  BY <1>5 DEF ResumeRequest, MarkRunning
<1> QED
  BY <1>1, <1>2, <1>3, <1>4, <1>5 DEF ClientStep

LEMMA PhaseByLoop ==
  ASSUME TypeOK, PhaseInv, UNCHANGED luaVars,
         HandshakeDone \/ HandshakeFailed \/ LockBpRequest \/ LoopResponds
  PROVE  PhaseInv'
<1> USE DEF wireVars, clientVars, setVars, taskVars, callVars, flags, luaVars, Goto
<1>0. "none" \notin Resumes
  BY DEF Resumes
<1>1. CASE HandshakeDone
  <2>1. FreeFlusher \in Flushers
    BY <1>1, FlusherAtLaunch, FreeFlusherIdle DEF HandshakeDone, PhaseInv
  <2>2. /\ UNCHANGED <<reader, lpc, paused, closed, writer, eof, disposed, configured, done>>
        /\ pc["loop"] = "start" /\ req' = "none" /\ pump' # "off"
        /\ pc' = [pc EXCEPT !["loop"] = "idle", !["handshake"] = "off",
                            ![FreeFlusher] = "take"]
    BY <1>1 DEF HandshakeDone
  <2>3. pc'["loop"] = "idle" /\ pc'["handshake"] = "off"
    BY <2>1, <2>2, FlusherCaller, CallerNames DEF TypeOK, AdapterTypeOK
  <2> QED
    BY <1>0, <2>2, <2>3 DEF PhaseInv, Launched, Spawned, Idle, LoopIdle
<1>2. CASE HandshakeFailed
  <2>1. /\ UNCHANGED <<pump, reader, lpc, paused, closed, writer, configured, done>>
        /\ pc["loop"] = "start" /\ req' = "none" /\ (eof => eof')
        /\ pc' = [pc EXCEPT !["loop"] = "idle"]
    BY <1>2 DEF HandshakeFailed, Dispose
  <2>2. /\ pc'["loop"] = "idle" /\ \A k \in Flushers : pc'[k] = pc[k]
        /\ pc'["handshake"] = pc["handshake"]
    BY <2>1, FlusherCaller, CallerNames DEF TypeOK, AdapterTypeOK
  <2> QED
    BY <1>0, <2>1, <2>2 DEF PhaseInv, Launched, Spawned, Idle, LoopIdle
<1>3. CASE LockBpRequest
  <2>1. /\ UNCHANGED <<pump, reader, lpc, paused, closed, writer, configured, done,
                       req, eof, disposed>>
        /\ pc' = [pc EXCEPT !["loop"] = "decide"]
    BY <1>3 DEF LockBpRequest
  <2>2. /\ pc'["loop"] = "decide" /\ \A k \in Flushers : pc'[k] = pc[k]
        /\ pc'["handshake"] = pc["handshake"]
    BY <2>1, FlusherCaller, CallerNames DEF TypeOK, AdapterTypeOK
  <2> QED
    BY <2>1, <2>2 DEF PhaseInv, Launched, Spawned, Idle, LoopIdle
<1>4. CASE LoopResponds
  <2>1. /\ UNCHANGED <<pump, reader, lpc, closed, writer, configured, done, eof, disposed>>
        /\ pc' = [pc EXCEPT !["loop"] = "idle"] /\ req' = "none"
        /\ (paused => paused') /\ (paused' => paused \/ req \in Resumes)
    BY <1>4 DEF LoopResponds, PausedAfterReply
  <2>2. /\ pc'["loop"] = "idle" /\ \A k \in Flushers : pc'[k] = pc[k]
        /\ pc'["handshake"] = pc["handshake"]
    BY <2>1, FlusherCaller, CallerNames DEF TypeOK, AdapterTypeOK
  <2> QED
    BY <1>0, <2>1, <2>2 DEF PhaseInv, Launched, Spawned, Idle, LoopIdle
<1> QED
  BY <1>1, <1>2, <1>3, <1>4

LEMMA PhaseByCaller ==
  ASSUME TypeOK, PhaseInv, UNCHANGED luaVars,
         NEW c \in Callers, Call(c) \/ Decide(c) \/ Notify(c)
  PROVE  PhaseInv'
<1>1. /\ UNCHANGED <<pump, req, reader, lpc, paused, closed, writer, eof, disposed,
                     configured, done>>
      /\ pc[c] \in {"call", "decide", "notify"}
      /\ \E l \in {"await", "call", "notify"} :
           /\ pc' = [pc EXCEPT ![c] = l]
           /\ l = "notify" => pc[c] = "decide"
  BY DEF Call, Decide, Notify, Goto, wireVars, clientVars, taskVars, flags, luaVars
<1>2. PICK l \in {"await", "call", "notify"} :
           /\ pc' = [pc EXCEPT ![c] = l]
           /\ l = "notify" => pc[c] = "decide"
  BY <1>1
<1>3. \A d \in Callers : pc'[d] = IF d = c THEN l ELSE pc[d]
  BY <1>2 DEF TypeOK, AdapterTypeOK
<1>4. c \in Flushers => Launched
  BY <1>1 DEF PhaseInv, Idle
<1>5. c = "handshake" => Spawned
  BY <1>1 DEF PhaseInv
<1>6. c = "loop" /\ l = "notify" => req \notin Resumes
  BY <1>1, <1>2 DEF TypeOK, AdapterTypeOK, Resumes
<1> QED
  BY <1>1, <1>3, <1>4, <1>5, <1>6, FlusherCaller, CallerNames
     DEF PhaseInv, Launched, Spawned, Idle, LoopIdle

LEMMA PhaseByFlush ==
  ASSUME TypeOK, PhaseInv, UNCHANGED luaVars, NEW k \in Flushers, FlusherStep(k)
  PROVE  PhaseInv'
<1>1. /\ UNCHANGED <<pump, req, reader, lpc, paused, closed, writer, eof, disposed,
                     configured, done>>
      /\ pc[k] # "off" /\ \E l \in PCs : pc' = [pc EXCEPT ![k] = l]
  <2> USE DEF Goto, wireVars, clientVars, taskVars, flags, luaVars, PCs
  <2>1. CASE FlushTake(k)
    BY <2>1 DEF FlushTake
  <2>2. CASE FlushReport(k)
    BY <2>2 DEF FlushReport
  <2>3. CASE FlushEnd(k)
    BY <2>3 DEF FlushEnd
  <2>4. ASSUME NEW f \in Files, FlushFile(k, f)
        PROVE  /\ UNCHANGED <<pump, req, reader, lpc, paused, closed, writer, eof, disposed,
                              configured, done>>
               /\ pc[k] # "off" /\ \E l \in PCs : pc' = [pc EXCEPT ![k] = l]
    BY <2>4 DEF FlushFile
  <2> QED
    BY <2>1, <2>2, <2>3, <2>4 DEF FlusherStep
<1>2. Launched
  BY <1>1 DEF PhaseInv, Idle
<1>3. \A d \in Callers : d # k => pc'[d] = pc[d]
  BY <1>1 DEF TypeOK, AdapterTypeOK
<1> QED
  BY <1>1, <1>2, <1>3, FlusherCaller, CallerNames
     DEF PhaseInv, Launched, Spawned, Idle, LoopIdle

LEMMA PhaseByTask ==
  ASSUME TypeOK, PhaseInv, UNCHANGED luaVars,
         \/ Write \/ WriterStops \/ ReaderEnds \/ Close \/ ReportExit \/ CopyOutput
         \/ PumpReceive \/ PumpBreakpoints
  PROVE  PhaseInv'
<1> USE DEF PhaseInv, Launched, Spawned, Idle, LoopIdle,
        wireVars, clientVars, setVars, taskVars, callVars, flags, luaVars
<1>1. CASE Write
  BY <1>1 DEF Write
<1>2. CASE WriterStops
  BY <1>2 DEF WriterStops, Dispose
<1>3. CASE ReaderEnds
  BY <1>3 DEF ReaderEnds, ProtocolEnded
<1>4. CASE Close
  BY <1>4 DEF Close
<1>5. CASE ReportExit
  BY <1>5 DEF ReportExit
<1>6. CASE CopyOutput
  BY <1>6 DEF CopyOutput
<1>7. CASE PumpReceive
  <2>1. pump' # "off" /\ pump # "off"
    BY <1>7 DEF PumpReceive
  <2> QED
    BY <1>7, <2>1 DEF PumpReceive
<1>8. CASE PumpBreakpoints
  BY <1>8 DEF PumpBreakpoints
<1> QED
  BY <1>1, <1>2, <1>3, <1>4, <1>5, <1>6, <1>7, <1>8

\* A stop that waits for the reader is the token: the flag is clear.
LEMMA StopTaken ==
  ASSUME TypeOK, ControlInv, ~closed, protocol # <<>>, Head(protocol).kind = "stopped"
  PROVE  ~paused
<1> DEFINE a == Count(commands, ResumeCommands)
           b == Count(stdin, ResumeCommands)
           d == Count(queuedCommands, ResumeCommands)
           e == Count(protocol, Signals)
<1>1. a \in Nat /\ b \in Nat /\ d \in Nat /\ e \in Nat /\ Sent = a + b + d + e
  BY CountsOfSession DEF Sent, Transit
<1>2. e # 0
  <2>1. protocol \in Seq(Messages) /\ Head(protocol) \in Messages
        /\ 1 \in 1 .. Len(protocol) /\ protocol[1] = Head(protocol)
    BY HeadAndTail DEF TypeOK, WireTypeOK
  <2>2. Head(protocol) \in Signals
    BY <2>1 DEF Signals, StopMessages
  <2> QED
    BY <2>1, <2>2, CountNone
<1> HIDE DEF a, b, d, e
<1>3. Sent # 0
  BY <1>1, <1>2
<1> QED
  BY <1>3, TokenOnce

LEMMA PhaseByRead ==
  ASSUME TypeOK, PhaseInv, ControlInv, UNCHANGED luaVars, Read
  PROVE  PhaseInv'
<1> DEFINE m == Head(protocol)
<1>1. /\ UNCHANGED <<pump, req, reader, lpc, closed, writer, configured, done>>
      /\ reader = "read" /\ protocol # <<>>
      /\ Deliver(m) \/ ForwardEvent(m) \/ NoteStop(m) \/ AnswerPath(m)
      /\ eof => eof'
  BY Zenon DEF Read, Deliver, ForwardEvent, NoteStop, AnswerPath, Dispose,
     taskVars, clientVars, luaVars
<1>2. Spawned /\ ~closed
  BY <1>1 DEF Spawned, PhaseInv
<1>3. CASE NoteStop(m)
  <2>1. ~paused
    BY <1>1, <1>2, <1>3, StopTaken DEF NoteStop
  <2>2. Launched
    BY <1>2, <2>1 DEF PhaseInv
  <2>3. FreeFlusher \in Flushers
    BY <1>3, FreeFlusherIdle DEF NoteStop
  <2>4. paused' /\ \A d \in Callers : d # FreeFlusher => pc'[d] = pc[d]
    BY <1>3 DEF NoteStop, Goto, TypeOK, AdapterTypeOK
  <2> QED
    BY <1>1, <1>2, <2>2, <2>3, <2>4, FlusherCaller, CallerNames
       DEF PhaseInv, Launched, Spawned, Idle, LoopIdle
<1>4. CASE Deliver(m) \/ ForwardEvent(m) \/ AnswerPath(m)
  <2>1. UNCHANGED <<pc, paused>>
    BY <1>4 DEF Deliver, ForwardEvent, AnswerPath
  <2> QED
    BY <1>1, <1>2, <2>1 DEF PhaseInv, Launched, Spawned, Idle, LoopIdle
<1> QED
  BY <1>1, <1>3, <1>4

LEMMA PhaseStep ==
  ASSUME TypeOK, PhaseInv, ControlInv, [Next]_vars
  PROVE  PhaseInv'
<1> USE DEF PhaseInv, Launched, Spawned, Idle, LoopIdle,
        wireVars, clientVars, taskVars, flags
<1>1. CASE Start
  <2>1. ~done
    BY <1>1 DEF Start, Launch, LuaStart
  <2>2. /\ UNCHANGED <<closed, done, pump, configured, eof, disposed>>
        /\ reader' = "read" /\ paused' /\ lpc' = "boot" /\ req' = "launch"
        /\ pc' = [pc EXCEPT !["loop"] = "start", !["handshake"] = "call"]
        /\ ~Spawned
    BY <1>1 DEF Start, Launch, LuaStart
  <2>3. pc'["loop"] = "start" /\ \A k \in Flushers : pc'[k] = pc[k]
    BY <2>2, FlusherCaller, CallerNames DEF TypeOK, AdapterTypeOK
  <2> QED
    BY <2>1, <2>2, <2>3 DEF Resumes
<1>2. CASE Crash
  BY <1>2, FlusherCaller, CallerNames DEF Crash, Resumes
<1>3. CASE ProcessWaited
  BY <1>3 DEF ProcessWaited, callVars, luaVars
<1>4. CASE UNCHANGED vars
  BY <1>4 DEF vars, adapterVars, callVars, luaVars
<1>5. CASE LuaMoves /\ UNCHANGED adapterVars
  BY <1>5, PhaseByLua, EndsForGood
<1>6. CASE AdapterStep /\ UNCHANGED luaVars
  <2>1. ASSUME NEW c \in Callers, Call(c) \/ Decide(c) \/ Notify(c) PROVE PhaseInv'
    BY <1>6, <2>1, PhaseByCaller, Zenon
  <2>2. ASSUME NEW k \in Flushers, FlusherStep(k) PROVE PhaseInv'
    BY <1>6, <2>2, PhaseByFlush, Zenon
  <2>3. CASE ClientStep
    BY <1>6, <2>3, PhaseByClient, Zenon
  <2>4. CASE HandshakeDone \/ HandshakeFailed \/ LockBpRequest \/ LoopResponds
    BY <1>6, <2>4, PhaseByLoop, Zenon
  <2>5. CASE Read
    BY <1>6, <2>5, PhaseByRead, Zenon
  <2>6. CASE \/ Write \/ WriterStops \/ ReaderEnds \/ Close \/ ReportExit \/ CopyOutput
             \/ PumpReceive \/ PumpBreakpoints
    BY <1>6, <2>6, PhaseByTask, Zenon
  <2> QED
    BY <1>6, <2>1, <2>2, <2>3, <2>4, <2>5, <2>6, Zenon DEF AdapterStep
<1> QED
  BY <1>1, <1>2, <1>3, <1>4, <1>5, <1>6, StepCases
-----------------------------------------------------------------------------
(***************************************************************************)
(* The invariant holds, and what follows from it.                          *)
(***************************************************************************)

LEMMA SessionInit == Init => SessionInv
<1> SUFFICES ASSUME Init PROVE SessionInv
  OBVIOUS
<1> USE DEF Init, WireInit, LuaInit, AdapterInit
<1>1. TypeOK /\ AddressInv
  BY InitType, AddressInit
<1>2. /\ commands = <<>> /\ stdin = <<>> /\ queuedCommands = <<>> /\ protocol = <<>>
      /\ lpc = "off" /\ ~paused /\ pending = {} /\ req = "none"
      /\ outcome = [c \in Callers |-> "none"]
      /\ pc = [c \in Callers |-> IF c = "loop" THEN "idle" ELSE "off"]
  OBVIOUS
<1>3. \A T, U : Transit(T, U) = 0
  BY <1>2, CountEmpty DEF Transit
<1>4. CallInv
  <2>1. \A c \in Callers : Owed(c) = 0
    BY <1>2, <1>3 DEF Owed, One, Resolving
  <2> QED
    BY <1>2, <2>1 DEF CallInv, CallSlot, CallOwed
<1>5. PhaseInv
  BY <1>2, FlusherCaller, CallerNames
     DEF PhaseInv, Launched, Spawned, Idle, LoopIdle, Resumes
<1>6. ControlInv
  <2>1. Sent = 0
    BY <1>3 DEF Sent
  <2>2. ~Running /\ ~Asked /\ ~Failed /\ ~Spawned
    BY <1>2 DEF Running, LuaAlive, Asked, Failed, Resumes, Spawned
  <2>3. Token <= One(Spawned)
    BY <1>2, <2>1, <2>2 DEF Token, One
  <2> QED
    BY <1>2, <2>3 DEF ControlInv
<1> QED
  BY <1>1, <1>4, <1>5, <1>6 DEF SessionInv

LEMMA SessionStep == SessionInv /\ [Next]_vars => SessionInv'
<1> SUFFICES ASSUME SessionInv, [Next]_vars PROVE SessionInv'
  OBVIOUS
<1>1. TypeOK /\ AddressInv /\ CallInv /\ PhaseInv /\ ControlInv
  BY DEF SessionInv
<1>2. TypeOK' /\ AddressInv'
  BY <1>1, StepType, AddressStep
<1>3. CallInv'
  <2>1. ASSUME NEW c \in Callers PROVE CallSlot(c)' /\ CallOwed(c)'
    BY <1>1, <1>2, <2>1, SlotStep, OwedStep
  <2> QED
    BY <2>1 DEF CallInv
<1>4. PhaseInv'
  BY <1>1, PhaseStep
<1>5. ControlInv'
  BY <1>1, <1>2, ControlStep
<1> QED
  BY <1>2, <1>3, <1>4, <1>5 DEF SessionInv

\* The inductive invariant: Runtime.send and handleMessage keep one place for
\* the message of a call (runtime.go:346, 560), Resume and the stopped event one
\* token of control (runtime.go:395, 579).
THEOREM SessionInvariant == Spec => []SessionInv
<1>1. Init => SessionInv
  BY SessionInit
<1>2. SessionInv /\ [Next]_vars => SessionInv'
  BY SessionStep
<1> QED
  BY <1>1, <1>2, PTL DEF Spec

\* A caller blocked in send is owed exactly one reply while the stream is up
\* (runtime.go:371), with any number of goroutines flushing breakpoints, of
\* queued commands and of queries that wait for a path.
THEOREM CallsAreInOnePlace == Spec => []CallInOnePlace
<1>1. SessionInv => CallInOnePlace
  <2> SUFFICES ASSUME SessionInv, NEW c \in Callers
               PROVE  /\ PlacesOf(c) <= 1
                      /\ c \in pending /\ ~eof /\ ~disposed => PlacesOf(c) = 1
    BY DEF CallInOnePlace
  <2>1. PlacesOf(c) = Owed(c)
    BY OwedIsPlaces DEF SessionInv
  <2> QED
    BY <2>1 DEF SessionInv, CallInv, CallOwed
<1> QED
  BY <1>1, SessionInvariant, PTL

\* requirePaused (server.go:334) lets no request through to a running program:
\* a set `paused` flag means that debugger.lua reads commands, or has ended.
THEOREM PausedIsWaiting == Spec => []PausedMeansWaiting
<1>1. SessionInv => PausedMeansWaiting
  <2> SUFFICES ASSUME SessionInv, AnswersPaused PROVE LuaWaits \/ ~LuaAlive
    BY DEF PausedMeansWaiting
  <2>1. ~Running
    BY TokenOnce DEF SessionInv, AnswersPaused
  <2> QED
    BY <2>1 DEF Running
<1> QED
  BY <1>1, SessionInvariant, PTL
-----------------------------------------------------------------------------
(***************************************************************************)
(* Control passes as ControlHandoff says.                                  *)
(***************************************************************************)

StopWaits == \E i \in 1 .. Len(protocol) : protocol[i].kind = "stopped"

LEMMA StopCounts ==
  ASSUME NEW s \in Seq(Messages)
  PROVE  (\E i \in 1 .. Len(s) : s[i].kind = "stopped") <=> Count(s, StopMessages) # 0
<1>1. \A i \in 1 .. Len(s) : s[i] \in Messages
  OBVIOUS
<1>2. Count(s, StopMessages) = 0 <=> \A i \in 1 .. Len(s) : s[i] \notin StopMessages
  BY CountNone
<1> QED
  BY <1>1, <1>2 DEF StopMessages

\* A stop on the way is a token.
LEMMA StopIsSent ==
  ASSUME TypeOK
  PROVE  /\ StopWaits => Count(protocol, Signals) # 0 /\ Sent # 0
         /\ HasCommand /\ NextCommand \in ResumeCommands /\ Sent <= 1
              => ~StopWaits /\ Sent # 0
<1> DEFINE a == Count(commands, ResumeCommands)
           b == Count(stdin, ResumeCommands)
           d == Count(queuedCommands, ResumeCommands)
           e == Count(protocol, Signals)
<1>1. a \in Nat /\ b \in Nat /\ d \in Nat /\ e \in Nat /\ Sent = a + b + d + e
  BY CountsOfSession DEF Sent, Transit
<1>2. StopWaits => e # 0
  <2>1. protocol \in Seq(Messages) /\ \A i \in 1 .. Len(protocol) : protocol[i] \in Messages
    BY DEF TypeOK, WireTypeOK
  <2>2. e = 0 => \A i \in 1 .. Len(protocol) : protocol[i] \notin Signals
    BY <2>1, CountNone
  <2> QED
    BY <2>1, <2>2 DEF StopWaits, Signals, StopMessages
<1>3. HasCommand /\ NextCommand \in ResumeCommands => b # 0 \/ d # 0
  <2>1. stdin \in Seq(Commands) /\ queuedCommands \in Seq(Commands)
    BY DEF TypeOK, WireTypeOK, LuaTypeOK
  <2>2. /\ b = 0 => \A i \in 1 .. Len(stdin) : stdin[i] \notin ResumeCommands
        /\ d = 0 => \A i \in 1 .. Len(queuedCommands) : queuedCommands[i] \notin ResumeCommands
    BY <2>1, CountNone
  <2>3. /\ stdin # <<>> => 1 \in 1 .. Len(stdin) /\ stdin[1] = Head(stdin)
        /\ queuedCommands # <<>>
             => 1 \in 1 .. Len(queuedCommands) /\ queuedCommands[1] = Head(queuedCommands)
    BY <2>1
  <2> QED
    BY <2>2, <2>3 DEF HasCommand, NextCommand
<1> HIDE DEF a, b, d, e
<1>4. /\ e # 0 => Sent # 0
      /\ b # 0 \/ d # 0 => Sent # 0
      /\ (b # 0 \/ d # 0) /\ Sent <= 1 => e = 0
  BY <1>1
<1> QED
  BY <1>2, <1>3, <1>4 DEF e

\* Only a stop of the debuggee puts a stop on the way.
LEMMA NoNewStop ==
  ASSUME TypeOK, TypeOK',
         \/ \E kind \in {"reply", "error"} : \E pre : Serves(kind, pre)
         \/ BeginsQuery \/ EndsQuery \/ Keeps \/ Goes
  PROVE  StopWaits' <=> StopWaits
<1> PICK T : T = StopMessages
  OBVIOUS
<1>0. /\ Message("reply", "loop", NoFile, 0) \in Messages \ T
      /\ \A f \in Files : Message("resolvePath", Nobody, f, 0) \in Messages \ T
      /\ \A c, f, v : Message("breakpointsChanged", Nobody, f, v) \notin T
      /\ \A c, f, v : Message("reply", c, f, v) \notin T /\ Message("error", c, f, v) \notin T
  BY PlainMessages DEF StopMessages, Message
<1>1. Count(protocol, T)' = Count(protocol, T) + 0 => (StopWaits' <=> StopWaits)
  <2>1. /\ protocol \in Seq(Messages) /\ protocol' \in Seq(Messages)
        /\ Count(protocol, T) \in Nat /\ Count(protocol, T)' = Count(protocol', T)
    BY CountsOfSession DEF TypeOK, WireTypeOK, Count, Places
  <2>2. /\ StopWaits <=> Count(protocol, T) # 0
        /\ StopWaits' <=> Count(protocol', T) # 0
    BY <2>1, StopCounts DEF StopWaits
  <2> QED
    BY <2>1, <2>2
<1>2. ASSUME NEW kind \in {"reply", "error"}, NEW pre, Serves(kind, pre)
      PROVE  Count(protocol, T)' = Count(protocol, T) + 0
  <2> DEFINE m == NextCommand
             x == One(/\ m.by # Nobody
                      /\ Message(kind, m.by, m.file, m.ver) \in T)
  <2>1. Message("breakpointsChanged", Nobody, m.file, m.ver) \notin T
    BY <1>0
  <2>2. Count(protocol, T)' = Count(protocol, T) + x
    BY <1>2, <2>1, AnsweredCount
  <2>3. x = 0
    BY <1>0 DEF One
  <2> QED
    BY <2>2, <2>3
<1>3. ASSUME NEW f \in Files, Emit(<<Message("resolvePath", Nobody, f, 0)>>)
      PROVE  Count(protocol, T)' = Count(protocol, T) + 0
  <2>1. Count(protocol, T)'
          = Count(protocol, T) + One(Message("resolvePath", Nobody, f, 0) \in T)
    BY <1>0, <1>3, EmittedOne, Zenon
  <2> QED
    BY <1>0, <2>1 DEF One
<1>4. CASE EndsQuery
  <2>1. Count(protocol, T)'
          = Count(protocol, T) + One(Message("reply", "loop", NoFile, 0) \in T)
    BY <1>0, <1>4, EmittedOne, Zenon DEF EndsQuery
  <2>2. Count(protocol, T)' = Count(protocol, T) + 0
    BY <1>0, <2>1 DEF One
  <2> QED
    BY <1>1, <2>2
<1>5. CASE Keeps
  BY <1>5 DEF Keeps, StopWaits
<1>6. CASE BeginsQuery
  <2>1. Count(protocol, T)' = Count(protocol, T) + 0
    BY <1>3, <1>6 DEF BeginsQuery
  <2> QED
    BY <1>1, <2>1
<1>7. CASE \E kind \in {"reply", "error"} : \E pre : Serves(kind, pre)
  <2>1. Count(protocol, T)' = Count(protocol, T) + 0
    BY <1>2, <1>7
  <2> QED
    BY <1>1, <2>1
<1>8. CASE Goes
  <2>1. CASE protocol' = protocol
    BY <2>1 DEF StopWaits
  <2>2. CASE \E f \in Files : Emit(<<Message("resolvePath", Nobody, f, 0)>>)
    BY <1>1, <1>3, <2>2
  <2> QED
    BY <1>8, <2>1, <2>2 DEF Goes
<1> QED
  BY <1>4, <1>5, <1>6, <1>7, <1>8

LEMMA StopEmitted == ASSUME TypeOK, TypeOK', Stops PROVE StopWaits'
<1>1. /\ LuaOutput \in Messages /\ Stopped \in Messages
      /\ protocol \in Seq(Messages) /\ Stopped.kind = "stopped"
  BY PlainMessages DEF TypeOK, WireTypeOK, Stopped, Message
<1> DEFINE n == Len(protocol')
<1>2. n \in 1 .. Len(protocol') /\ protocol'[n] = Stopped
  <2>1. CASE Emit(<<Stopped>>)
    BY <1>1, <2>1 DEF Emit
  <2>2. CASE Emit(<<LuaOutput>> \o <<Stopped>>)
    BY <1>1, <2>2 DEF Emit
  <2> QED
    BY <2>1, <2>2 DEF Stops
<1> QED
  BY <1>1, <1>2 DEF StopWaits

\* Where control is, in terms of the session.
LEMMA ControlIs ==
  /\ lpc = "off" => Control = "none"
  /\ lpc # "off" /\ (~LuaAlive \/ eof \/ disposed) => Control = "over"
  /\ LuaAlive /\ ~eof /\ ~disposed =>
       /\ paused => Control = "client"
       /\ ~paused /\ Running => Control = "program"
       /\ ~paused /\ ~Running /\ StopWaits => Control = "returned"
       /\ ~paused /\ ~Running /\ ~StopWaits => Control = "granted"
BY DEF Control, LuaAlive, Running, StopWaits

LEMMA ControlIsThen ==
  /\ lpc' = "off" => Control' = "none"
  /\ lpc' # "off" /\ (~LuaAlive' \/ eof' \/ disposed') => Control' = "over"
  /\ LuaAlive' /\ ~eof' /\ ~disposed' =>
       /\ paused' => Control' = "client"
       /\ ~paused' /\ Running' => Control' = "program"
       /\ ~paused' /\ ~Running' /\ StopWaits' => Control' = "returned"
       /\ ~paused' /\ ~Running' /\ ~StopWaits' => Control' = "granted"
BY DEF Control, LuaAlive, Running, StopWaits

\* Before the runtime is closed the stream has ended.
LEMMA OpenWhileUp ==
  ASSUME PhaseInv, LuaAlive, ~eof, ~disposed PROVE ~closed /\ Spawned
BY DEF PhaseInv, LuaAlive

LEMMA HandoffByLua ==
  ASSUME SessionInv, SessionInv', LuaMoves, UNCHANGED adapterVars
  PROVE  [Handoff!Next]_Control
<1> USE DEF Handoff!Next, Handoff!Take, Handoff!Stop, Handoff!End
<1>1. LuaAlive /\ lpc # "off" /\ lpc' # "off" /\ disposed' = disposed
  BY LuaLives DEF LuaAlive
<1>2. TypeOK /\ TypeOK' /\ PhaseInv /\ ControlInv /\ LuaShape
  BY ShapeOfLua DEF SessionInv
<1>3. paused' = paused
  BY DEF adapterVars, flags
<1>4. CASE ~LuaAlive' \/ eof' \/ disposed'
  <2>1. Control' = "over" /\ Control # "none"
    <3>1. Control' = "over"
      BY <1>1, <1>4, ControlIsThen
    <3>2. Control # "none"
      BY <1>1 DEF Control
    <3> QED
      BY <3>1, <3>2
  <2> QED
    BY <2>1
<1>5. CASE LuaAlive' /\ ~eof' /\ ~disposed'
  <2>0. ~eof /\ ~disposed
    BY <1>1, <1>2, <1>5
       DEF LuaShape, Serves, BeginsQuery, EndsQuery, Keeps, Stops, Goes, Ends
  <2>1. ~closed
    BY <1>1, <1>2, <2>0, OpenWhileUp
  <2>2. (Running => ~paused) /\ (Sent # 0 => ~paused /\ ~Running /\ Sent <= 1)
    BY <1>2, <2>1, TokenOnce
  <2>3. CASE /\ \/ \E kind \in {"reply", "error"} : \E pre : Serves(kind, pre)
                \/ BeginsQuery \/ EndsQuery \/ Keeps \/ Goes
             /\ Running' <=> Running
    <3>1. StopWaits' <=> StopWaits
      BY <1>2, <2>3, NoNewStop
    <3>2. Control' = Control
      BY <1>1, <1>3, <1>5, <2>0, <2>3, <3>1, ControlIs, ControlIsThen
    <3> QED
      BY <3>2
  <2>4. ASSUME NEW kind \in {"reply", "error"}, NEW pre, Serves(kind, pre),
               ~(Running' <=> Running)
        PROVE  [Handoff!Next]_Control
    <3>1. HasCommand /\ NextCommand.cmd \in Resumes /\ ~Running /\ Running'
      BY <2>4 DEF Serves
    <3>2. NextCommand \in ResumeCommands
      <4>1. NextCommand \in Commands
        BY <1>2, <3>1, TakenFrom DEF TypeOK, WireTypeOK, LuaTypeOK
      <4> QED
        BY <3>1, <4>1 DEF ResumeCommands
    <3>3. Sent <= 1
      BY <1>2, <2>1, TokenOnce
    <3>4. ~StopWaits /\ Sent # 0
      BY <1>2, <3>1, <3>2, <3>3, StopIsSent
    <3>5. Control = "granted" /\ Control' = "program"
      BY <1>1, <1>3, <1>5, <2>0, <2>2, <3>1, <3>4, ControlIs, ControlIsThen
    <3> QED
      BY <3>5
  <2>5. CASE Stops
    <3>1. StopWaits'
      BY <1>2, <2>5, StopEmitted
    <3>2. Control = "program" /\ Control' = "returned"
      BY <1>1, <1>3, <1>5, <2>0, <2>2, <2>5, <3>1, ControlIs, ControlIsThen DEF Stops
    <3> QED
      BY <3>2
  <2>6. ~Ends
    BY <1>5 DEF Ends
  <2>7. BeginsQuery \/ EndsQuery \/ Keeps \/ Goes => (Running' <=> Running)
    BY DEF BeginsQuery, EndsQuery, Keeps, Goes
  <2> QED
    BY <1>2, <2>3, <2>4, <2>5, <2>6, <2>7, Zenon DEF LuaShape
<1> QED
  BY <1>4, <1>5

\* An adapter step that touches neither the flag nor the protocol stream.
LEMMA HandoffUntouched ==
  ASSUME SessionInv, UNCHANGED <<paused, protocol, lpc, back>>,
         eof => eof', disposed => disposed'
  PROVE  [Handoff!Next]_Control
<1>1. /\ LuaAlive' <=> LuaAlive
      /\ LuaWaits' <=> LuaWaits
  BY DEF LuaAlive, LuaWaits, InCommandLoop
<1>2. CASE lpc = "off"
  BY <1>2 DEF Control
<1>3. CASE lpc # "off" /\ (~LuaAlive' \/ eof' \/ disposed')
  <2>1. Control' = "over" /\ Control # "none"
    <3>1. Control' = "over"
      BY <1>3, ControlIsThen
    <3>2. Control # "none"
      BY <1>3 DEF Control
    <3> QED
      BY <3>1, <3>2
  <2> QED
    BY <2>1 DEF Handoff!Next, Handoff!End
<1>4. CASE lpc # "off" /\ LuaAlive' /\ ~eof' /\ ~disposed'
  <2>1. Control' = Control
    BY <1>1, <1>4 DEF Control
  <2> QED
    BY <2>1
<1> QED
  BY <1>2, <1>3, <1>4

LEMMA WhoTouchesControl ==
  ASSUME AdapterStep
  PROVE  \/ Read \/ LoopResponds \/ \E r \in Resumes : ResumeRequest(r)
         \/ UNCHANGED <<paused, protocol>>
<1> USE DEF wireVars, clientVars, setVars, taskVars, callVars, flags
<1>1. ASSUME NEW c \in Callers, Call(c) \/ Decide(c) \/ Notify(c)
      PROVE  UNCHANGED <<paused, protocol>>
  BY <1>1 DEF Call, Decide, Notify
<1>2. QueryRequest \/ PauseRequest \/ Terminate => UNCHANGED <<paused, protocol>>
  BY DEF QueryRequest, PauseRequest, Terminate
<1>3. ASSUME NEW f \in Files, SetBreakpointsRequest(f) PROVE UNCHANGED <<paused, protocol>>
  BY <1>3 DEF SetBreakpointsRequest
<1>4. HandshakeDone \/ HandshakeFailed \/ LockBpRequest => UNCHANGED <<paused, protocol>>
  BY DEF HandshakeDone, HandshakeFailed, LockBpRequest
<1>5. ASSUME NEW k \in Flushers, FlusherStep(k) PROVE UNCHANGED <<paused, protocol>>
  <2>1. FlushTake(k) \/ FlushReport(k) \/ FlushEnd(k) => UNCHANGED <<paused, protocol>>
    BY DEF FlushTake, FlushReport, FlushEnd
  <2>2. ASSUME NEW f \in Files, FlushFile(k, f) PROVE UNCHANGED <<paused, protocol>>
    BY <2>2 DEF FlushFile
  <2> QED
    BY <1>5, <2>1, <2>2 DEF FlusherStep
<1>6. Write \/ WriterStops \/ ReaderEnds \/ Close \/ ReportExit \/ CopyOutput
        => UNCHANGED <<paused, protocol>>
  BY DEF Write, WriterStops, ReaderEnds, Close, ReportExit, CopyOutput
<1>7. PumpReceive \/ PumpBreakpoints => UNCHANGED <<paused, protocol>>
  BY DEF PumpReceive, PumpBreakpoints
<1> QED
  BY <1>1, <1>2, <1>3, <1>4, <1>5, <1>6, <1>7, Zenon DEF AdapterStep, ClientStep

LEMMA HandoffByAdapter ==
  ASSUME SessionInv, SessionInv', AdapterStep, UNCHANGED luaVars,
         eof => eof', disposed => disposed'
  PROVE  [Handoff!Next]_Control
<1> USE DEF Handoff!Next, Handoff!Grant, Handoff!Refuse, Handoff!Notice, Handoff!End
<1>0. /\ TypeOK /\ TypeOK' /\ PhaseInv /\ ControlInv /\ CallInv
      /\ UNCHANGED <<lpc, back>>
  BY DEF SessionInv, luaVars
<1>1. CASE UNCHANGED <<paused, protocol>>
  BY <1>0, <1>1, HandoffUntouched
<1>2. CASE lpc = "off" \/ ~LuaAlive \/ eof \/ disposed
  <2>1. Control' = Control
    BY <1>0, <1>2 DEF Control, LuaAlive, LuaWaits, InCommandLoop
  <2> QED
    BY <2>1
<1>3. CASE LuaAlive /\ ~eof /\ ~disposed /\ (eof' \/ disposed')
  <2>1. Control' = "over" /\ Control # "none"
    <3>1. Control' = "over"
      BY <1>0, <1>3, ControlIsThen DEF LuaAlive
    <3>2. Control # "none"
      BY <1>3 DEF Control, LuaAlive
    <3> QED
      BY <3>1, <3>2
  <2> QED
    BY <2>1
<1>4. ASSUME LuaAlive, ~eof, ~disposed, ~eof', ~disposed',
             Read \/ LoopResponds \/ \E r \in Resumes : ResumeRequest(r)
      PROVE  [Handoff!Next]_Control
  <2>1. ~closed /\ Spawned
    BY <1>0, <1>4, OpenWhileUp
  <2>2. /\ LuaAlive' /\ (Running' <=> Running)
    BY <1>0, <1>4 DEF LuaAlive, Running, LuaWaits, InCommandLoop
  <2>3. /\ paused => ~Running /\ Sent = 0
        /\ Failed => ~Running /\ ~paused /\ Sent = 0
        /\ Sent # 0 => ~Running /\ ~paused
    BY <1>0, <2>1, TokenOnce
  <2>4. StopWaits => Sent # 0
    BY <1>0, StopIsSent
  <2>5. ASSUME NEW r \in Resumes, ResumeRequest(r) PROVE [Handoff!Next]_Control
    <3>1. /\ ~paused' /\ protocol' = protocol
          /\ Launched /\ (AnswersPaused \/ ~configured)
      BY <2>5 DEF ResumeRequest, MarkRunning, wireVars
    <3>2. paused
      BY <1>0, <2>1, <3>1 DEF AnswersPaused, PhaseInv
    <3>3. ~StopWaits'
      BY <2>3, <2>4, <3>1, <3>2 DEF StopWaits
    <3>4. Control = "client" /\ Control' = "granted"
      BY <1>4, <2>2, <2>3, <3>1, <3>2, <3>3, ControlIs, ControlIsThen
    <3> QED
      BY <3>4
  <2>6. CASE LoopResponds
    <3>1. paused' = (paused \/ Failed) /\ protocol' = protocol
      BY <2>6 DEF LoopResponds, PausedAfterReply, Failed, wireVars
    <3>2. CASE Failed
      <4>1. Control = "granted" /\ Control' = "client"
        BY <1>4, <2>2, <2>3, <2>4, <3>1, <3>2, ControlIs, ControlIsThen
      <4> QED
        BY <4>1
    <3>3. CASE ~Failed
      <4>1. paused' = paused
        BY <1>0, <3>1, <3>3 DEF TypeOK, AdapterTypeOK
      <4> QED
        BY <1>0, <3>1, <4>1, HandoffUntouched
    <3> QED
      BY <3>2, <3>3
  <2>7. CASE Read
    <3> DEFINE m == Head(protocol)
    <3>1. /\ protocol # <<>> /\ protocol' = Tail(protocol) /\ m \in Messages
          /\ protocol \in Seq(Messages)
          /\ Deliver(m) \/ ForwardEvent(m) \/ NoteStop(m) \/ AnswerPath(m)
      BY <1>0, <2>7, HeadAndTail DEF Read, TypeOK, WireTypeOK
    <3>2. CASE NoteStop(m)
      <4>1. paused' /\ StopWaits
        BY <3>1, <3>2 DEF NoteStop, StopWaits
      <4>2. Control = "returned" /\ Control' = "client"
        BY <1>4, <2>2, <2>3, <2>4, <4>1, ControlIs, ControlIsThen
      <4> QED
        BY <4>2
    <3>3. CASE Deliver(m) \/ ForwardEvent(m) \/ AnswerPath(m)
      <4>1. paused' = paused /\ m.kind # "stopped"
        BY <3>3 DEF Deliver, ForwardEvent, AnswerPath
      <4>2. StopWaits' <=> StopWaits
        <5>1. StopWaits' => StopWaits
          <6> SUFFICES ASSUME NEW i \in 1 .. Len(Tail(protocol)),
                              Tail(protocol)[i].kind = "stopped"
                       PROVE  StopWaits
            BY <3>1 DEF StopWaits
          <6>1. i + 1 \in 1 .. Len(protocol) /\ protocol[i + 1] = Tail(protocol)[i]
            BY <3>1
          <6> QED
            BY <6>1 DEF StopWaits
        <5>2. StopWaits => StopWaits'
          <6> SUFFICES ASSUME NEW i \in 1 .. Len(protocol), protocol[i].kind = "stopped"
                       PROVE  StopWaits'
            BY DEF StopWaits
          <6>1. i # 1
            BY <3>1, <4>1
          <6>2. i - 1 \in 1 .. Len(protocol') /\ protocol'[i - 1] = protocol[i]
            BY <3>1, <6>1
          <6> QED
            BY <6>2 DEF StopWaits
        <5> QED
          BY <5>1, <5>2
      <4>3. Control' = Control
        BY <1>4, <2>2, <4>1, <4>2, ControlIs, ControlIsThen
      <4> QED
        BY <4>3
    <3> QED
      BY <3>1, <3>2, <3>3
  <2> QED
    BY <1>4, <2>5, <2>6, <2>7
<1> QED
  BY <1>1, <1>2, <1>3, <1>4, WhoTouchesControl

LEMMA HandoffStep ==
  ASSUME SessionInv, SessionInv', [Next]_vars PROVE [Handoff!Next]_Control
<1>0. TypeOK /\ PhaseInv
  BY DEF SessionInv
<1>1. (eof => eof') /\ (disposed => disposed')
  BY <1>0, EndsForGood
<1>2. CASE Start
  <2>1. /\ lpc = "off" /\ lpc' = "boot" /\ paused' /\ ~Spawned
        /\ UNCHANGED <<eof, disposed>>
    BY <1>2 DEF Start, LuaStart, Launch, Spawned, wireVars
  <2>2. ~eof' /\ ~disposed'
    BY <1>0, <2>1 DEF PhaseInv
  <2>3. Control = "none" /\ Control' = "client"
    BY <2>1, <2>2, ControlIs, ControlIsThen DEF LuaAlive
  <2> QED
    BY <2>3 DEF Handoff!Next, Handoff!Begin
<1>3. CASE Crash
  <2>1. eof' /\ lpc' = lpc
    BY <1>3 DEF Crash, luaVars
  <2>2. CASE lpc = "off"
    BY <2>1, <2>2 DEF Control
  <2>3. CASE lpc # "off"
    <3>1. Control' = "over"
      BY <2>1, <2>3, ControlIsThen
    <3>2. Control # "none"
      BY <2>3 DEF Control
    <3> QED
      BY <3>1, <3>2 DEF Handoff!Next, Handoff!End
  <2> QED
    BY <2>2, <2>3
<1>4. CASE ProcessWaited \/ UNCHANGED vars
  <2>1. UNCHANGED <<paused, protocol, lpc, back>>
    BY <1>4 DEF ProcessWaited, vars, wireVars, luaVars, adapterVars, flags
  <2> QED
    BY <1>1, <2>1, HandoffUntouched
<1>5. CASE LuaMoves /\ UNCHANGED adapterVars
  BY <1>5, HandoffByLua
<1>6. CASE AdapterStep /\ UNCHANGED luaVars
  BY <1>1, <1>6, HandoffByAdapter
<1> QED
  BY <1>2, <1>3, <1>4, <1>5, <1>6, StepCases

\* The session implements ControlHandoff: a resume passes control to the program
\* or is refused, a stop passes it back, and neither is lost, repeated or seen
\* out of turn (runtime.go:395, 579; debugger.lua:721).
THEOREM ControlIsHandedOver == Spec => HandsOff
<1>1. Init => Handoff!Init
  BY ControlIs DEF Init, LuaInit, Handoff!Init
<1>2. SessionInv /\ SessionInv' /\ [Next]_vars => [Handoff!Next]_Control
  BY HandoffStep
<1> QED
  BY <1>1, <1>2, SessionInvariant, PTL DEF Spec, HandsOff, Handoff!Spec
=============================================================================
