-------------------------- MODULE SessionEvents_proofs --------------------------
(***************************************************************************)
(* What the client is told, and which breakpoints the debuggee uses.  The  *)
(* end of a launched program is reported after everything it wrote, a      *)
(* breakpoint set is reported verified only after the response to the      *)
(* request that carried it, and the last set answered is the one in use.   *)
(***************************************************************************)
EXTENDS SessionControl_proofs

-----------------------------------------------------------------------------
(***************************************************************************)
(* The end of the program.                                                 *)
(***************************************************************************)

Ended == reader \in {"close", "exited", "exit", "done"}

\* What follows "exit" in the queue is no output, and nothing that could
\* become output is left once the reader has ended.
ExitInv ==
  /\ Crashed => writer = "off" /\ reader = "done"
  /\ ~Attach /\ ~Crashed =>
       /\ done => lpc = "gone" /\ printed = 0
       /\ Ended => done /\ protocol = <<>>
       /\ pump = "done" \/ HasEvent("exit") => reader = "done"
       /\ \A i, j \in 1 .. Len(events) :
            i < j /\ events[i].kind = "exit" => events[j].kind # "output"
       /\ pump = "done" => ~HasEvent("output")

\* A crash of the adapter is final.
LEMMA CrashedStays ==
  ASSUME TypeOK, ExitInv, [Next]_vars
  PROVE  /\ Crashed => Crashed'
         /\ Crashed' => writer' = "off" /\ reader' = "done"
<1> USE DEF wireVars, clientVars, setVars, taskVars, callVars, flags
<1>0. "loop" \in Callers /\ \A k \in Flushers : k # "loop"
  BY FlusherCaller, CallerNames
<1>1. CASE Start
  BY <1>0, <1>1 DEF Start, Launch, LoopIdle, Crashed, TypeOK, AdapterTypeOK
<1>2. CASE Crash
  BY <1>2 DEF Crash, Crashed
<1>3. CASE ProcessWaited \/ UNCHANGED vars
  BY <1>3 DEF ProcessWaited, vars, adapterVars, Crashed, ExitInv
<1>4. CASE LuaMoves /\ UNCHANGED adapterVars
  <2>1. UNCHANGED <<disposed, pc, writer, reader>>
    BY <1>4, LuaLives DEF adapterVars
  <2> QED
    BY <2>1 DEF Crashed, ExitInv
<1>5. CASE AdapterStep /\ UNCHANGED luaVars
  <2>1. ASSUME NEW c \in Callers, Call(c) \/ Decide(c) \/ Notify(c)
        PROVE  /\ Crashed => Crashed'
               /\ Crashed' => writer' = "off" /\ reader' = "done"
    <3>1. /\ UNCHANGED <<disposed, writer, reader>>
          /\ pc[c] \in {"call", "decide", "notify"}
          /\ \E l \in {"await", "call", "notify"} : pc' = [pc EXCEPT ![c] = l]
      BY <2>1 DEF Call, Decide, Notify, Goto
    <3>2. (pc'["loop"] = "ended") <=> (pc["loop"] = "ended")
      BY <1>0, <3>1 DEF TypeOK, AdapterTypeOK
    <3> QED
      BY <3>1, <3>2 DEF Crashed, ExitInv
  <2>2. ASSUME NEW k \in Flushers, FlusherStep(k)
        PROVE  /\ Crashed => Crashed'
               /\ Crashed' => writer' = "off" /\ reader' = "done"
    <3>1. /\ UNCHANGED <<disposed, writer, reader>>
          /\ \E l \in PCs : pc' = [pc EXCEPT ![k] = l]
      <4>1. CASE FlushTake(k) \/ FlushReport(k) \/ FlushEnd(k)
        BY <4>1 DEF FlushTake, FlushReport, FlushEnd, Goto, PCs
      <4>2. ASSUME NEW f \in Files, FlushFile(k, f)
            PROVE  /\ UNCHANGED <<disposed, writer, reader>>
                   /\ \E l \in PCs : pc' = [pc EXCEPT ![k] = l]
        BY <4>2 DEF FlushFile, Goto, PCs
      <4> QED
        BY <2>2, <4>1, <4>2 DEF FlusherStep
    <3>2. pc'["loop"] = pc["loop"]
      BY <1>0, <3>1 DEF TypeOK, AdapterTypeOK
    <3> QED
      BY <3>1, <3>2 DEF Crashed, ExitInv
  <2>3. CASE ClientStep
    <3>1. pc["loop"] = "idle" /\ (pc'["loop"] = "ended" => disposed')
      <4> USE <1>0 DEF LoopIdle, Goto, TypeOK, AdapterTypeOK
      <4>1. CASE QueryRequest \/ PauseRequest
        BY <4>1 DEF QueryRequest, PauseRequest
      <4>2. CASE Terminate
        BY <4>2 DEF Terminate, Dispose
      <4>3. ASSUME NEW f \in Files, SetBreakpointsRequest(f)
            PROVE  pc["loop"] = "idle" /\ (pc'["loop"] = "ended" => disposed')
        BY <4>3 DEF SetBreakpointsRequest
      <4>4. ASSUME NEW r \in Resumes, ResumeRequest(r)
            PROVE  pc["loop"] = "idle" /\ (pc'["loop"] = "ended" => disposed')
        BY <4>4 DEF ResumeRequest
      <4> QED
        BY <2>3, <4>1, <4>2, <4>3, <4>4 DEF ClientStep
    <3> QED
      BY <3>1 DEF Crashed
  <2>4. CASE HandshakeDone \/ HandshakeFailed \/ LockBpRequest \/ LoopResponds
    <3>1. pc["loop"] \in {"start", "lock", "await"}
      BY <2>4 DEF HandshakeDone, HandshakeFailed, LockBpRequest, LoopResponds
    <3>2. pc'["loop"] # "ended"
      <4>1. CASE HandshakeDone
        <5>1. pc' = [pc EXCEPT !["loop"] = "idle", !["handshake"] = "off",
                               ![FreeFlusher] = "take"]
          BY <4>1 DEF HandshakeDone
        <5> QED
          BY <1>0, <5>1 DEF TypeOK, AdapterTypeOK
      <4>2. CASE HandshakeFailed \/ LockBpRequest \/ LoopResponds
        BY <1>0, <4>2 DEF HandshakeFailed, LockBpRequest, LoopResponds, Goto, TypeOK, AdapterTypeOK
      <4> QED
        BY <2>4, <4>1, <4>2
    <3> QED
      BY <3>1, <3>2 DEF Crashed
  <2>5. CASE Write \/ WriterStops
    BY <2>5 DEF Write, WriterStops, Crashed, ExitInv, Dispose
  <2>6. CASE Read
    <3>1. reader = "read" /\ UNCHANGED <<reader, writer>> /\ (disposed => disposed')
      BY <2>6 DEF Read, Deliver, ForwardEvent, NoteStop, AnswerPath, Dispose
    <3>2. pc'["loop"] = pc["loop"]
      <4> DEFINE m == Head(protocol)
      <4>1. Deliver(m) \/ ForwardEvent(m) \/ AnswerPath(m) => pc' = pc
        BY DEF Deliver, ForwardEvent, AnswerPath
      <4>2. NoteStop(m) => pc'["loop"] = pc["loop"]
        BY <1>0, FreeFlusherIdle DEF NoteStop, Goto, TypeOK, AdapterTypeOK
      <4> QED
        BY <2>6, <4>1, <4>2 DEF Read
    <3> QED
      BY <3>1, <3>2 DEF Crashed, ExitInv
  <2>7. CASE ReaderEnds \/ Close \/ ReportExit \/ CopyOutput
    BY <2>7 DEF ReaderEnds, Close, ReportExit, CopyOutput, Crashed, ExitInv
  <2>8. CASE PumpReceive \/ PumpBreakpoints
    BY <2>8 DEF PumpReceive, PumpBreakpoints, Crashed, ExitInv
  <2> QED
    BY <1>5, <2>1, <2>2, <2>3, <2>4, <2>5, <2>6, <2>7, <2>8, Zenon DEF AdapterStep
<1> QED
  BY <1>1, <1>2, <1>3, <1>4, <1>5, StepCases

LateOutput(s) ==
  \E i, j \in 1 .. Len(s) : i < j /\ s[i].kind = "exit" /\ s[j].kind = "output"
Holds(s, kind) == \E i \in 1 .. Len(s) : s[i].kind = kind

LEMMA AppendedEvent ==
  ASSUME NEW s \in Seq(Events), NEW e \in Events
  PROVE  /\ \A kind : Holds(Append(s, e), kind) <=> Holds(s, kind) \/ e.kind = kind
         /\ LateOutput(Append(s, e))
              <=> LateOutput(s) \/ (Holds(s, "exit") /\ e.kind = "output")
<1> DEFINE t == Append(s, e)
<1>1. /\ Len(t) = Len(s) + 1 /\ Len(s) \in Nat /\ t[Len(s) + 1] = e
      /\ \A i \in 1 .. Len(s) : t[i] = s[i] /\ i \in 1 .. Len(t)
      /\ \A i \in 1 .. Len(t) : i \in 1 .. Len(s) \/ i = Len(s) + 1
      /\ Len(s) + 1 \in 1 .. Len(t)
  OBVIOUS
<1> HIDE DEF t
<1>2. ASSUME NEW kind PROVE Holds(t, kind) <=> Holds(s, kind) \/ e.kind = kind
  BY <1>1 DEF Holds
<1>3. LateOutput(t) => LateOutput(s) \/ (Holds(s, "exit") /\ e.kind = "output")
  <2> SUFFICES ASSUME NEW i \in 1 .. Len(t), NEW j \in 1 .. Len(t), i < j,
                      t[i].kind = "exit", t[j].kind = "output"
               PROVE  LateOutput(s) \/ (Holds(s, "exit") /\ e.kind = "output")
    BY DEF LateOutput
  <2>1. i \in 1 .. Len(s)
    BY <1>1
  <2> QED
    BY <1>1, <2>1 DEF LateOutput, Holds
<1>4. Holds(s, "exit") /\ e.kind = "output" => LateOutput(t)
  <2> SUFFICES ASSUME NEW i \in 1 .. Len(s), s[i].kind = "exit", e.kind = "output"
               PROVE  LateOutput(t)
    BY DEF Holds
  <2>1. i < Len(s) + 1
    BY <1>1
  <2> QED
    BY <1>1, <2>1 DEF LateOutput
<1>5. LateOutput(s) => LateOutput(t)
  BY <1>1 DEF LateOutput
<1> QED
  BY <1>2, <1>3, <1>4, <1>5 DEF t

LEMMA TakenEvent ==
  ASSUME NEW s \in Seq(Events), s # <<>>
  PROVE  /\ \A kind : Holds(Tail(s), kind) => Holds(s, kind)
         /\ Holds(s, Head(s).kind)
         /\ LateOutput(Tail(s)) => LateOutput(s)
         /\ Head(s).kind = "exit" /\ Holds(Tail(s), "output") => LateOutput(s)
<1> DEFINE t == Tail(s)
<1>1. /\ 1 \in 1 .. Len(s) /\ s[1] = Head(s)
      /\ \A i \in 1 .. Len(t) : i + 1 \in 1 .. Len(s) /\ t[i] = s[i + 1] /\ 1 < i + 1
      /\ \A i, j \in 1 .. Len(t) : i < j => i + 1 < j + 1
  OBVIOUS
<1> HIDE DEF t
<1>2. ASSUME NEW kind PROVE Holds(t, kind) => Holds(s, kind)
  BY <1>1 DEF Holds
<1>3. Holds(s, Head(s).kind)
  BY <1>1 DEF Holds
<1>4. LateOutput(t) => LateOutput(s)
  BY <1>1 DEF LateOutput
<1>5. Head(s).kind = "exit" /\ Holds(t, "output") => LateOutput(s)
  BY <1>1 DEF LateOutput, Holds
<1> QED
  BY <1>2, <1>3, <1>4, <1>5 DEF t

\* The part about the queue, of a session that did not crash.
QueueInv ==
  /\ pump = "done" \/ Holds(events, "exit") => reader = "done"
  /\ ~LateOutput(events)
  /\ pump = "done" => ~Holds(events, "output")

DrainInv ==
  /\ done => lpc = "gone" /\ printed = 0
  /\ Ended => done /\ protocol = <<>>

LEMMA ExitInvParts ==
  ASSUME ~Attach, ~Crashed
  PROVE  ExitInv <=> DrainInv /\ QueueInv
BY DEF ExitInv, DrainInv, QueueInv, HasEvent, Holds, LateOutput

\* Once the process is gone the debuggee writes nothing.
LEMMA DrainByLua ==
  ASSUME DrainInv, LuaMoves, UNCHANGED adapterVars
  PROVE  DrainInv'
<1>1. LuaAlive
  BY LuaLives
<1>2. ~done /\ ~Ended
  BY <1>1 DEF DrainInv, LuaAlive
<1>3. ~done' /\ ~Ended'
  BY <1>2 DEF adapterVars, taskVars, Ended
<1> QED
  BY <1>3 DEF DrainInv

LEMMA DrainByAdapter ==
  ASSUME ~Attach, DrainInv, AdapterStep, UNCHANGED luaVars
  PROVE  DrainInv'
<1> USE DEF wireVars, clientVars, setVars, taskVars, callVars, flags, luaVars, DrainInv, Ended
<1>1. ASSUME NEW c \in Callers, Call(c) \/ Decide(c) \/ Notify(c)
      PROVE  UNCHANGED <<done, reader, protocol, printed, lpc>>
  BY <1>1 DEF Call, Decide, Notify
<1>2. QueryRequest \/ PauseRequest \/ Terminate
        => UNCHANGED <<done, reader, protocol, printed, lpc>>
  BY DEF QueryRequest, PauseRequest, Terminate
<1>3. ASSUME NEW f \in Files, SetBreakpointsRequest(f)
      PROVE  UNCHANGED <<done, reader, protocol, printed, lpc>>
  BY <1>3 DEF SetBreakpointsRequest
<1>4. ASSUME NEW r \in Resumes, ResumeRequest(r)
      PROVE  UNCHANGED <<done, reader, protocol, printed, lpc>>
  BY <1>4 DEF ResumeRequest
<1>5. HandshakeDone \/ HandshakeFailed \/ LockBpRequest \/ LoopResponds
        => UNCHANGED <<done, reader, protocol, printed, lpc>>
  BY DEF HandshakeDone, HandshakeFailed, LockBpRequest, LoopResponds
<1>6. ASSUME NEW k \in Flushers, FlusherStep(k)
      PROVE  UNCHANGED <<done, reader, protocol, printed, lpc>>
  <2>1. FlushTake(k) \/ FlushReport(k) \/ FlushEnd(k)
          => UNCHANGED <<done, reader, protocol, printed, lpc>>
    BY DEF FlushTake, FlushReport, FlushEnd
  <2>2. ASSUME NEW f \in Files, FlushFile(k, f)
        PROVE  UNCHANGED <<done, reader, protocol, printed, lpc>>
    BY <2>2 DEF FlushFile
  <2> QED
    BY <1>6, <2>1, <2>2 DEF FlusherStep
<1>7. Write \/ WriterStops \/ PumpReceive \/ PumpBreakpoints
        => UNCHANGED <<done, reader, protocol, printed, lpc>>
  BY DEF Write, WriterStops, PumpReceive, PumpBreakpoints
<1>8. CASE Read
  BY <1>8 DEF Read
<1>9. CASE ReaderEnds
  BY <1>9 DEF ReaderEnds, ProtocolEnded
<1>10. CASE Close
  BY <1>10 DEF Close
<1>11. CASE ReportExit
  BY <1>11 DEF ReportExit
<1>12. CASE CopyOutput
  BY <1>12 DEF CopyOutput
<1>13. CASE UNCHANGED <<done, reader, protocol, printed, lpc>>
  BY <1>13
<1> QED
  BY <1>1, <1>2, <1>3, <1>4, <1>5, <1>6, <1>7, <1>8, <1>9, <1>10, <1>11, <1>12, <1>13, Zenon
     DEF AdapterStep, ClientStep

\* Who writes to the queue and who reads it.
LEMMA EventSteps ==
  ASSUME TypeOK, PhaseInv, AdapterStep
  PROVE  \/ UNCHANGED <<events, pump, reader>>
         \/ UNCHANGED <<events, reader>> /\ pump # "done" /\ pump' # "done"
         \/ ReaderEnds \/ Close \/ PumpReceive \/ ReportExit \/ CopyOutput
         \/ /\ UNCHANGED <<pump, reader>>
            /\ \E e \in Events : /\ events' = Append(events, e) /\ e.kind # "exit"
                                 /\ e.kind = "output" => reader = "read"
<1> USE DEF wireVars, clientVars, setVars, taskVars, callVars, flags
<1>1. ASSUME NEW c \in Callers, Call(c) \/ Decide(c) \/ Notify(c)
      PROVE  UNCHANGED <<events, pump, reader>>
  BY <1>1 DEF Call, Decide, Notify
<1>2. QueryRequest \/ PauseRequest \/ Terminate => UNCHANGED <<events, pump, reader>>
  BY DEF QueryRequest, PauseRequest, Terminate
<1>3. ASSUME NEW f \in Files, SetBreakpointsRequest(f) PROVE UNCHANGED <<events, pump, reader>>
  BY <1>3 DEF SetBreakpointsRequest
<1>4. ASSUME NEW r \in Resumes, ResumeRequest(r) PROVE UNCHANGED <<events, pump, reader>>
  BY <1>4 DEF ResumeRequest
<1>5. HandshakeFailed \/ LockBpRequest \/ LoopResponds => UNCHANGED <<events, pump, reader>>
  BY DEF HandshakeFailed, LockBpRequest, LoopResponds
<1>7. ASSUME NEW k \in Flushers, FlushTake(k) \/ (\E f \in Files : FlushFile(k, f))
      PROVE  UNCHANGED <<events, pump, reader>>
  <2>1. FlushTake(k) => UNCHANGED <<events, pump, reader>>
    BY DEF FlushTake
  <2>2. ASSUME NEW f \in Files, FlushFile(k, f) PROVE UNCHANGED <<events, pump, reader>>
    BY <2>2 DEF FlushFile
  <2> QED
    BY <1>7, <2>1, <2>2
<1>8. ASSUME NEW k \in Flushers, FlushReport(k)
      PROVE  /\ UNCHANGED <<pump, reader>>
             /\ \E e \in Events : /\ events' = Append(events, e) /\ e.kind # "exit"
                                  /\ e.kind = "output" => reader = "read"
  <2> DEFINE kind == CASE outcome[k] = "ok" -> "breakpointsChanged"
                       [] outcome[k] = "queued" -> "breakpointsQueued"
                       [] outcome[k] = "error" -> "flushFailed"
             e == Event(kind, job[k].file, job[k].ver)
  <2>1. /\ outcome[k] \in {"ok", "queued", "error"}
        /\ job[k].file \in Files \union {NoFile} /\ job[k].ver \in Versions
    BY <1>8, FlusherCaller DEF FlushReport, TypeOK, AdapterTypeOK, Outcomes
  <2>2. kind \in {"breakpointsChanged", "breakpointsQueued", "flushFailed"}
    BY <2>1
  <2> HIDE DEF kind
  <2>3. e \in Events /\ e.kind = kind
    BY <2>1, <2>2, EventType DEF EventKinds, Event
  <2>4. events' = Append(events, e) /\ UNCHANGED <<pump, reader>>
    BY <1>8 DEF FlushReport, Push, kind
  <2> QED
    BY <2>2, <2>3, <2>4
<1>9. ASSUME NEW k \in Flushers, FlushEnd(k)
      PROVE  \/ UNCHANGED <<events, pump, reader>>
             \/ /\ UNCHANGED <<pump, reader>>
                /\ \E e \in Events : /\ events' = Append(events, e) /\ e.kind # "exit"
                                     /\ e.kind = "output" => reader = "read"
  <2>1. PlainEvent("stopped") \in Events /\ PlainEvent("stopped").kind = "stopped"
    BY EventType, ZeroIsVersion DEF PlainEvent, EventKinds, Event
  <2> QED
    BY <1>9, <2>1 DEF FlushEnd, Push
<1>10. Write \/ WriterStops => UNCHANGED <<events, pump, reader>>
  BY DEF Write, WriterStops
<1>11. CASE Read
  <2> DEFINE m == Head(protocol)
  <2>1. UNCHANGED <<pump, reader>> /\ reader = "read" /\ m \in Messages
    BY <1>11, HeadAndTail DEF Read, TypeOK, WireTypeOK
  <2>2. Deliver(m) \/ NoteStop(m) \/ AnswerPath(m) => events' = events
    BY DEF Deliver, NoteStop, AnswerPath
  <2>3. ForwardEvent(m) => events' = Append(events, Event(m.kind, m.file, m.ver))
                           /\ m.kind \in {"breakpointsChanged", "output"}
    BY DEF ForwardEvent, Push
  <2>4. m.kind \in {"breakpointsChanged", "output"}
          => /\ Event(m.kind, m.file, m.ver) \in Events
             /\ Event(m.kind, m.file, m.ver).kind = m.kind
    BY <2>1, EventType DEF EventKinds, Event, Messages
  <2> QED
    BY <1>11, <2>1, <2>2, <2>3, <2>4 DEF Read
<1>12. HandshakeDone => UNCHANGED <<events, reader>> /\ pump # "done" /\ pump' # "done"
  BY DEF HandshakeDone, PhaseInv, Launched
<1>13. PumpBreakpoints => UNCHANGED <<events, reader>> /\ pump # "done" /\ pump' # "done"
  BY DEF PumpBreakpoints
<1>14. ASSUME NEW k \in Flushers, FlusherStep(k)
       PROVE  \/ UNCHANGED <<events, pump, reader>>
              \/ /\ UNCHANGED <<pump, reader>>
                 /\ \E e \in Events : /\ events' = Append(events, e) /\ e.kind # "exit"
                                      /\ e.kind = "output" => reader = "read"
  BY <1>7, <1>8, <1>9, <1>14, Zenon DEF FlusherStep
<1> QED
  BY <1>1, <1>2, <1>3, <1>4, <1>5, <1>10, <1>11, <1>12, <1>13, <1>14, Zenon
     DEF AdapterStep, ClientStep

LEMMA QueueByAdapter ==
  ASSUME TypeOK, PhaseInv, ~Attach, DrainInv, QueueInv, AdapterStep
  PROVE  QueueInv'
<1> USE DEF wireVars, clientVars, setVars, taskVars, callVars, flags
<1>0. events \in Seq(Events)
  BY DEF TypeOK, AdapterTypeOK
<1>1. CASE UNCHANGED <<events, pump, reader>>
  BY <1>1 DEF QueueInv, Holds, LateOutput
<1>2. CASE UNCHANGED <<events, reader>> /\ pump # "done" /\ pump' # "done"
  BY <1>2 DEF QueueInv, Holds, LateOutput
<1>3. CASE ReaderEnds \/ Close
  <2>1. UNCHANGED <<events, pump>> /\ reader # "done"
    BY <1>3 DEF ReaderEnds, Close
  <2> QED
    BY <2>1 DEF QueueInv, Holds, LateOutput
<1>4. CASE PumpReceive
  <2>1. /\ events # <<>> /\ events' = Tail(events) /\ UNCHANGED reader /\ pump # "done"
        /\ pump' = "done" => Head(events).kind = "exit"
    BY <1>4 DEF PumpReceive
  <2>2. /\ \A kind : Holds(events', kind) => Holds(events, kind)
        /\ Holds(events, Head(events).kind)
        /\ LateOutput(events') => LateOutput(events)
        /\ Head(events).kind = "exit" /\ Holds(events', "output") => LateOutput(events)
    BY <1>0, <2>1, TakenEvent
  <2> QED
    BY <2>1, <2>2 DEF QueueInv
<1>5. ASSUME NEW e \in Events, events' = Append(events, e), pump' = pump,
             e.kind = "output" => reader # "done",
             (reader' = reader /\ e.kind # "exit") \/ reader' = "done"
      PROVE  QueueInv'
  <2>1. /\ \A kind : Holds(events', kind) <=> Holds(events, kind) \/ e.kind = kind
        /\ LateOutput(events')
             <=> LateOutput(events) \/ (Holds(events, "exit") /\ e.kind = "output")
    BY <1>0, <1>5, AppendedEvent
  <2> QED
    BY <1>5, <2>1 DEF QueueInv
<1>6. CASE ReportExit
  <2> DEFINE e == PlainEvent(reader)
  <2>1. /\ reader \in {"exited", "exit"} /\ events' = Append(events, e) /\ pump' = pump
        /\ reader = "exited" => reader' = "exit"
        /\ reader = "exit" => reader' = "done"
    BY <1>6 DEF ReportExit, Push
  <2>2. e \in Events /\ e.kind = reader
    BY <2>1, EventType, ZeroIsVersion DEF PlainEvent, EventKinds, Event
  <2>3. CASE reader = "exit"
    <3>1. e.kind # "output" /\ reader' = "done"
      BY <2>1, <2>2, <2>3
    <3> QED
      BY <1>5, <2>1, <2>2, <3>1
  <2>4. CASE reader = "exited"
    <3>1. pump # "done" /\ ~Holds(events, "exit")
      BY <2>4 DEF QueueInv
    <3>2. /\ \A kind : Holds(events', kind) <=> Holds(events, kind) \/ e.kind = kind
          /\ LateOutput(events')
               <=> LateOutput(events) \/ (Holds(events, "exit") /\ e.kind = "output")
      BY <1>0, <2>1, <2>2, AppendedEvent
    <3> QED
      BY <2>1, <2>2, <2>4, <3>1, <3>2 DEF QueueInv
  <2> QED
    BY <2>1, <2>3, <2>4
<1>7. CASE CopyOutput
  <2> DEFINE e == PlainEvent("output")
  <2>1. events' = Append(events, e) /\ UNCHANGED <<pump, reader>> /\ printed = 1
    BY <1>7 DEF CopyOutput, Push
  <2>2. e \in Events /\ e.kind = "output"
    BY EventType, ZeroIsVersion DEF PlainEvent, EventKinds, Event
  <2>3. reader # "done"
    BY <2>1 DEF DrainInv, Ended
  <2>4. e.kind # "exit"
    BY <2>2
  <2> QED
    BY <1>5, <2>1, <2>2, <2>3, <2>4
<1>8. ASSUME UNCHANGED <<pump, reader>>,
             NEW e \in Events, events' = Append(events, e), e.kind # "exit",
             e.kind = "output" => reader = "read"
      PROVE  QueueInv'
  BY <1>5, <1>8
<1> QED
  BY <1>1, <1>2, <1>3, <1>4, <1>6, <1>7, <1>8, EventSteps

LEMMA ExitStep ==
  ASSUME TypeOK, PhaseInv, ExitInv, [Next]_vars PROVE ExitInv'
<1>1. /\ Crashed => Crashed'
      /\ Crashed' => writer' = "off" /\ reader' = "done"
  BY CrashedStays
<1>2. CASE Attach \/ Crashed'
  BY <1>1, <1>2 DEF ExitInv
<1>3. CASE ~Attach /\ ~Crashed'
  <2>1. ~Crashed /\ DrainInv /\ QueueInv
    BY <1>1, <1>3, ExitInvParts
  <2>2. DrainInv' /\ QueueInv'
    <3>1. CASE Start
      <4>1. UNCHANGED <<done, events, pump, protocol, printed>> /\ reader' = "read" /\ ~done
            /\ reader = "off"
        BY <2>1, <3>1 DEF Start, Launch, wireVars, Spawned, LuaStart, DrainInv
      <4> QED
        BY <2>1, <4>1 DEF DrainInv, QueueInv, Ended, Holds, LateOutput
    <3>2. ~Crash
      BY <1>3, CallerNames DEF Crash, Crashed
    <3>3. CASE ProcessWaited \/ UNCHANGED vars
      <4>1. /\ UNCHANGED <<events, pump, protocol, printed, reader, lpc>>
            /\ done' => done \/ (lpc = "gone" /\ printed = 0)
            /\ done => done'
        <5>1. CASE ProcessWaited
          BY <5>1 DEF ProcessWaited, wireVars, luaVars
        <5>2. CASE UNCHANGED vars
          BY <5>2 DEF vars, wireVars, luaVars, adapterVars, taskVars
        <5> QED
          BY <3>3, <5>1, <5>2
      <4>2. DrainInv'
        BY <2>1, <4>1 DEF DrainInv, Ended
      <4>3. QueueInv'
        BY <2>1, <4>1 DEF QueueInv, Holds, LateOutput
      <4> QED
        BY <4>2, <4>3
    <3>4. CASE LuaMoves /\ UNCHANGED adapterVars
      <4>1. DrainInv'
        BY <2>1, <3>4, DrainByLua
      <4>2. UNCHANGED <<events, pump, reader>>
        BY <3>4 DEF adapterVars, taskVars
      <4> QED
        BY <2>1, <4>1, <4>2 DEF QueueInv, Holds, LateOutput
    <3>5. CASE AdapterStep /\ UNCHANGED luaVars
      BY <1>3, <2>1, <3>5, DrainByAdapter, QueueByAdapter
    <3> QED
      BY <3>1, <3>2, <3>3, <3>4, <3>5, StepCases
  <2> QED
    BY <1>1, <1>3, <2>2 DEF ExitInv, DrainInv, QueueInv, Ended, HasEvent, Holds, LateOutput
<1> QED
  BY <1>2, <1>3

LEMMA ExitInit == Init => ExitInv
<1> SUFFICES ASSUME Init PROVE ExitInv
  OBVIOUS
<1>1. pc["loop"] = "idle"
  BY CallerNames DEF Init, AdapterInit
<1> QED
  BY <1>1 DEF Init, AdapterInit, ExitInv, Crashed, Ended, HasEvent

\* The client is told that a launched program ended after everything that was
\* in the pipe, in the session file or in the Events channel when the process
\* exited (runtime.go:276-310, transport.go:28).
THEOREM OutputIsForwarded == Spec => []OutputBeforeTerminated
<1>1. Init => ExitInv
  BY ExitInit
<1>2. SessionInv /\ ExitInv /\ [Next]_vars => ExitInv'
  BY ExitStep DEF SessionInv
<1>3. ExitInv => OutputBeforeTerminated
  BY DEF ExitInv, OutputBeforeTerminated, Ended
<1> QED
  BY <1>1, <1>2, <1>3, SessionInvariant, PTL DEF Spec
-----------------------------------------------------------------------------
(***************************************************************************)
(* Verified breakpoints.  A set that travels anywhere in the session has   *)
(* been answered, or its request holds bpRequestMu and is about to be.     *)
(***************************************************************************)

Carries == req = "setBreakpoints"

AboutToAnswer(f, v) ==
  /\ Carries /\ bpRequestMu /\ outcome["loop"] = "queued"
  /\ job["loop"].file = f /\ job["loop"].ver = v

\* A file, and a set that may be reported for it.
Allowed ==
  {s \in Files \X Versions : s[2] <= acked[s[1]] \/ AboutToAnswer(s[1], s[2])}

\* The messages that end in a "breakpoint verified" event, for the sets of A.
UpdatesOf(A) == {m \in Commands : m.cmd = "updateBreakpoints" => <<m.file, m.ver>> \in A}
NoticesOf(A) == {m \in Messages : m.kind = "breakpointsChanged" => <<m.file, m.ver>> \in A}
EventsOf(A) == {e \in Events : e.kind = "breakpointsChanged" => <<e.file, e.ver>> \in A}

LoopSet ==
  /\ Carries => /\ job["loop"].file \in Files /\ job["loop"].ver = nextSet
                /\ pc["loop"] = "lock" \/ bpRequestMu
  /\ pc["loop"] = "notify" => req \in {"setBreakpoints", "pause"}
  /\ pc["handshake"] \in {"off", "call", "await"}

Reported == \A f \in Files : acked[f] <= nextSet /\ shown[f] <= acked[f]

Applying(k) == pc[k] \in {"decide", "notify", "call", "await"}

HeldSets(A) ==
  /\ \A f \in Files : <<f, pendingBreakpoints[f]>> \in A
  /\ \A k \in Flushers : \A f \in Files : <<f, queued[k][f]>> \in A
  /\ \A k \in Flushers : Applying(k) => <<job[k].file, job[k].ver>> \in A

EventSets(A) ==
  events \in Seq(EventsOf(A)) /\ (pump = "lock" => pumpEvent \in EventsOf(A))

WireSets(A) ==
  ~closed => /\ commands \in Seq(UpdatesOf(A)) /\ stdin \in Seq(UpdatesOf(A))
             /\ queuedCommands \in Seq(UpdatesOf(A))
             /\ protocol \in Seq(NoticesOf(A))

SetsInv ==
  LoopSet /\ Reported /\ HeldSets(Allowed) /\ EventSets(Allowed) /\ WireSets(Allowed)

\* The request being served changes only by the steps of the request loop; the
\* reader may record the result of its call.
LEMMA LoopFrame ==
  ASSUME TypeOK, [Next]_vars
  PROVE  \/ /\ UNCHANGED <<req, bpRequestMu, nextSet, acked>>
            /\ job'["loop"] = job["loop"] /\ pc'["loop"] = pc["loop"]
            /\ outcome'["loop"] = outcome["loop"] \/ "loop" \in pending
         \/ Call("loop") \/ Decide("loop") \/ Notify("loop")
         \/ ClientStep \/ Start \/ HandshakeDone \/ HandshakeFailed
         \/ LockBpRequest \/ LoopResponds \/ Crash
<1> USE DEF wireVars, clientVars, setVars, taskVars, callVars, flags, TypeOK, AdapterTypeOK, Goto
<1> DEFINE Apart == /\ UNCHANGED <<req, bpRequestMu, nextSet, acked>>
                    /\ job'["loop"] = job["loop"] /\ pc'["loop"] = pc["loop"]
                    /\ outcome'["loop"] = outcome["loop"] \/ "loop" \in pending
<1>0. "loop" \in Callers /\ \A k \in Flushers : k # "loop" /\ k \in Callers
  BY FlusherCaller, CallerNames
<1>1. ASSUME NEW c \in Callers, c # "loop", Call(c) \/ Decide(c) \/ Notify(c) PROVE Apart
  <2>1. CASE Call(c)
    BY <1>0, <1>1, <2>1 DEF Call, Goto, Finish
  <2>2. CASE Decide(c)
    BY <1>0, <1>1, <2>2 DEF Decide, Goto, Finish
  <2>3. CASE Notify(c)
    BY <1>0, <1>1, <2>3 DEF Notify, Goto, Finish
  <2> QED
    BY <1>1, <2>1, <2>2, <2>3
<1>2. ASSUME NEW k \in Flushers, FlusherStep(k) PROVE Apart
  <2>1. CASE FlushTake(k)
    BY <1>0, <2>1 DEF FlushTake, Goto
  <2>2. ASSUME NEW f \in Files, FlushFile(k, f) PROVE Apart
    BY <1>0, <2>2 DEF FlushFile, Goto
  <2>3. CASE FlushReport(k)
    <3>1. /\ outcome' = [outcome EXCEPT ![k] = "none"]
          /\ job' = [job EXCEPT ![k] = NoJob] /\ pc' = [pc EXCEPT ![k] = "next"]
          /\ UNCHANGED <<req, bpRequestMu, nextSet, acked>>
      BY <2>3 DEF FlushReport, Finish, Goto
    <3> QED
      BY <1>0, <3>1
  <2>4. CASE FlushEnd(k)
    BY <1>0, <2>4 DEF FlushEnd, Goto
  <2> QED
    BY <1>2, <2>1, <2>2, <2>3, <2>4 DEF FlusherStep
<1>3. CASE Write \/ WriterStops \/ ReaderEnds \/ ReportExit \/ CopyOutput
  BY <1>3 DEF Write, WriterStops, ReaderEnds, ReportExit, CopyOutput
<1>4. CASE Close
  BY <1>0, <1>4 DEF Close, FailPending
<1>5. CASE PumpReceive \/ PumpBreakpoints
  BY <1>5 DEF PumpReceive, PumpBreakpoints
<1>6. CASE Read
  <2> DEFINE m == Head(protocol)
  <2>1. UNCHANGED <<req, bpRequestMu, nextSet, acked, job>>
    BY <1>6 DEF Read
  <2>2. CASE Deliver(m)
    BY <1>0, <2>1, <2>2 DEF Deliver, Finish
  <2>3. CASE ForwardEvent(m) \/ AnswerPath(m)
    BY <2>1, <2>3 DEF ForwardEvent, AnswerPath
  <2>4. CASE NoteStop(m)
    BY <1>0, <2>1, <2>4, FreeFlusherIdle DEF NoteStop, Goto
  <2> QED
    BY <1>6, <2>2, <2>3, <2>4 DEF Read
<1>7. CASE ProcessWaited \/ UNCHANGED vars
  BY <1>7 DEF ProcessWaited, vars, adapterVars
<1>8. CASE LuaMoves /\ UNCHANGED adapterVars
  BY <1>8 DEF adapterVars
<1>9. CASE AdapterStep
  <2> HIDE DEF TypeOK, AdapterTypeOK, Goto
  <2>1. ASSUME NEW c \in Callers, Call(c) \/ Decide(c) \/ Notify(c)
        PROVE  Apart \/ Call("loop") \/ Decide("loop") \/ Notify("loop")
    <3>1. CASE c = "loop"
      BY <2>1, <3>1
    <3> QED
      BY <1>1, <2>1, <3>1
  <2> QED
    BY <1>2, <1>3, <1>4, <1>5, <1>6, <1>9, <2>1, Zenon DEF AdapterStep
<1> QED
  BY <1>7, <1>8, <1>9, StepCases

LEMMA HandshakePc ==
  ASSUME TypeOK, [Next]_vars, pc["handshake"] \in {"off", "call", "await"}
  PROVE  pc'["handshake"] \in {"off", "call", "await"}
<1> USE DEF wireVars, clientVars, setVars, taskVars, callVars, flags, TypeOK, AdapterTypeOK, Goto
<1> DEFINE P == pc'["handshake"] \in {"off", "call", "await"}
<1>0. /\ "loop" \in Callers /\ "handshake" \in Callers
      /\ \A k \in Flushers : k # "handshake" /\ k \in Callers
  BY FlusherCaller, CallerNames
<1>1. ASSUME NEW c \in Callers, Call(c) \/ Decide(c) \/ Notify(c) PROVE P
  BY <1>0, <1>1 DEF Call, Decide, Notify
<1>2. ASSUME NEW k \in Flushers, FlusherStep(k) PROVE P
  BY <1>0, <1>2 DEF FlusherStep, FlushTake, FlushFile, FlushReport, FlushEnd
<1>3. CASE Write \/ WriterStops \/ ReaderEnds \/ ReportExit \/ CopyOutput \/ Close
  BY <1>3 DEF Write, WriterStops, ReaderEnds, ReportExit, CopyOutput, Close
<1>5. CASE PumpReceive \/ PumpBreakpoints
  BY <1>5 DEF PumpReceive, PumpBreakpoints
<1>6. CASE Read
  <2> DEFINE m == Head(protocol)
  <2>1. CASE NoteStop(m)
    BY <1>0, <2>1, FreeFlusherIdle DEF NoteStop
  <2> QED
    BY <1>6, <2>1 DEF Read, Deliver, ForwardEvent, AnswerPath
<1>7. CASE ProcessWaited \/ UNCHANGED vars
  BY <1>7 DEF ProcessWaited, vars, adapterVars
<1>8. CASE LuaMoves /\ UNCHANGED adapterVars
  BY <1>8 DEF adapterVars
<1>9. CASE ClientStep
  <2>1. CASE QueryRequest \/ PauseRequest \/ Terminate
    BY <1>0, <2>1 DEF QueryRequest, PauseRequest, Terminate
  <2>2. ASSUME NEW f \in Files, SetBreakpointsRequest(f) PROVE P
    BY <1>0, <2>2 DEF SetBreakpointsRequest
  <2>3. ASSUME NEW r \in Resumes, ResumeRequest(r) PROVE P
    BY <1>0, <2>3 DEF ResumeRequest
  <2> QED
    BY <1>9, <2>1, <2>2, <2>3 DEF ClientStep
<1>10. CASE HandshakeFailed \/ LockBpRequest \/ LoopResponds
  BY <1>0, <1>10 DEF HandshakeFailed, LockBpRequest, LoopResponds
<1>11. CASE HandshakeDone
  <2>1. pc' = [pc EXCEPT !["loop"] = "idle", !["handshake"] = "off", ![FreeFlusher] = "take"]
    BY <1>11 DEF HandshakeDone
  <2> QED
    BY <1>0, <2>1
<1>12. CASE Start
  BY <1>0, <1>12 DEF Start, Launch
<1>13. CASE Crash
  BY <1>0, <1>13 DEF Crash
<1>14. CASE AdapterStep
  <2> HIDE DEF TypeOK, AdapterTypeOK, Goto
  <2>1. P
    BY <1>1, <1>2, <1>3, <1>5, <1>6, <1>9, <1>10, <1>11, <1>14, Zenon DEF AdapterStep
  <2> QED
    BY <2>1 DEF P
<1> QED
  BY <1>7, <1>8, <1>12, <1>13, <1>14, StepCases

\* A client's request finds the request loop idle.
LEMMA ClientLoop ==
  ASSUME TypeOK, PhaseInv, ClientStep
  PROVE  /\ pc["loop"] = "idle" /\ req = "none" /\ UNCHANGED <<acked, bpRequestMu>>
         /\ \/ \E f \in Files : SetBreakpointsRequest(f)
            \/ /\ UNCHANGED <<nextSet, job>>
               /\ req' # "setBreakpoints"
               /\ pc'["loop"] = "notify" => req' = "pause"
<1> USE DEF wireVars, clientVars, setVars, taskVars, callVars, flags, Goto
<1>0. "loop" \in Callers /\ pc \in [Callers -> PCs] /\ req \in Requests
  BY CallerNames DEF TypeOK, AdapterTypeOK
<1>1. pc["loop"] = "idle" => req = "none"
  BY DEF PhaseInv, LoopIdle
<1>2. CASE QueryRequest \/ PauseRequest
  BY <1>0, <1>1, <1>2 DEF QueryRequest, PauseRequest, LoopIdle
<1>3. CASE Terminate
  BY <1>0, <1>1, <1>3 DEF Terminate, LoopIdle
<1>4. ASSUME NEW r \in Resumes, ResumeRequest(r)
      PROVE  /\ pc["loop"] = "idle" /\ UNCHANGED <<acked, bpRequestMu, nextSet, job>>
             /\ req' # "setBreakpoints" /\ pc'["loop"] = "call"
  BY <1>0, <1>4 DEF ResumeRequest, LoopIdle, Resumes
<1>5. ASSUME NEW f \in Files, SetBreakpointsRequest(f)
      PROVE  pc["loop"] = "idle" /\ UNCHANGED <<acked, bpRequestMu>>
  BY <1>5 DEF SetBreakpointsRequest, LoopIdle
<1> QED
  BY <1>1, <1>2, <1>3, <1>4, <1>5 DEF ClientStep

LEMMA LoopSetStep ==
  ASSUME TypeOK, PhaseInv, LoopSet, [Next]_vars PROVE LoopSet'
<1> USE DEF wireVars, clientVars, setVars, taskVars, callVars, flags, Goto, LoopSet, Carries
<1>0. "loop" \in Callers /\ pc \in [Callers -> PCs]
  BY CallerNames DEF TypeOK, AdapterTypeOK
<1>1. pc'["handshake"] \in {"off", "call", "await"}
  BY HandshakePc
<1>2. CASE Call("loop") \/ Notify("loop")
  BY <1>0, <1>1, <1>2 DEF Call, Notify
<1>3. CASE Decide("loop")
  BY <1>0, <1>1, <1>3 DEF Decide, TypeOK, AdapterTypeOK
<1>4. CASE ClientStep
  <2>1. ASSUME NEW f \in Files, SetBreakpointsRequest(f)
        PROVE  /\ pc'["loop"] = "lock" /\ req' = "setBreakpoints"
               /\ job'["loop"].file \in Files /\ job'["loop"].ver = nextSet'
    BY <1>0, <2>1 DEF SetBreakpointsRequest, TypeOK, AdapterTypeOK
  <2> QED
    BY <1>1, <1>4, <2>1, ClientLoop
<1>5. CASE Start
  <2>1. pc'["loop"] = "start" /\ req' = "launch"
    BY <1>0, <1>5, FlusherCaller, CallerNames DEF Start, Launch
  <2> QED
    BY <1>1, <2>1
<1>6. CASE HandshakeDone \/ HandshakeFailed \/ LoopResponds
  <2>1. req' = "none"
    BY <1>6 DEF HandshakeDone, HandshakeFailed, LoopResponds
  <2>2. pc'["loop"] = "idle"
    <3>1. CASE HandshakeDone
      <4>1. /\ FreeFlusher \in Flushers
            /\ pc' = [pc EXCEPT !["loop"] = "idle", !["handshake"] = "off",
                                ![FreeFlusher] = "take"]
        BY <3>1, FlusherAtLaunch, FreeFlusherIdle DEF HandshakeDone, PhaseInv
      <4> QED
        BY <1>0, <4>1, FlusherCaller, CallerNames
    <3> QED
      BY <1>0, <1>6, <3>1 DEF HandshakeFailed, LoopResponds
  <2> QED
    BY <1>1, <2>1, <2>2
<1>7. CASE LockBpRequest
  <2>1. /\ pc'["loop"] = "decide" /\ bpRequestMu' /\ UNCHANGED <<req, job, nextSet>>
    BY <1>0, <1>7 DEF LockBpRequest
  <2> QED
    BY <1>1, <2>1
<1>8. CASE Crash
  BY <1>1, <1>8, <1>0 DEF Crash
<1> QED
  BY <1>1, <1>2, <1>3, <1>4, <1>5, <1>6, <1>7, <1>8, LoopFrame

\* Answers only become newer.
LEMMA AnswersGrow ==
  ASSUME TypeOK, PhaseInv, LoopSet, Reported, [Next]_vars
  PROVE  /\ \A f \in Files : acked[f] <= acked'[f] /\ acked'[f] <= nextSet'
         /\ nextSet <= nextSet'
<1> USE DEF wireVars, clientVars, setVars, taskVars, callVars, flags
<1>0. /\ nextSet \in Int /\ acked \in [Files -> Versions]
      /\ \A f \in Files : acked[f] \in Int /\ acked[f] <= nextSet
  BY WireAssumption DEF TypeOK, AdapterTypeOK, Reported, Versions
<1>1. CASE LoopResponds
  <2>1. /\ nextSet' = nextSet
        /\ \/ acked' = acked
           \/ Carries /\ acked' = [acked EXCEPT ![job["loop"].file] = job["loop"].ver]
    BY <1>1, SMT DEF LoopResponds, Carries
  <2>2. Carries => job["loop"].file \in Files /\ job["loop"].ver = nextSet
    BY DEF LoopSet
  <2> QED
    BY <1>0, <2>1, <2>2
<1>2. CASE ClientStep
  <2>1. acked' = acked
    BY <1>2, ClientLoop
  <2>2. nextSet' = nextSet \/ nextSet' = nextSet + 1
    BY <1>2, ClientLoop DEF SetBreakpointsRequest
  <2> QED
    BY <1>0, <2>1, <2>2
<1>3. CASE Call("loop") \/ Decide("loop") \/ Notify("loop")
  <2>1. UNCHANGED <<acked, nextSet>>
    BY <1>3 DEF Call, Decide, Notify
  <2> QED
    BY <1>0, <2>1
<1>4. CASE Start \/ HandshakeDone \/ HandshakeFailed \/ LockBpRequest \/ Crash
  <2>1. UNCHANGED <<acked, nextSet>>
    BY <1>4 DEF Start, Launch, HandshakeDone, HandshakeFailed, LockBpRequest, Crash
  <2> QED
    BY <1>0, <2>1
<1>5. CASE UNCHANGED <<acked, nextSet>>
  BY <1>0, <1>5
<1> QED
  BY <1>1, <1>2, <1>3, <1>4, <1>5, LoopFrame

\* A set that may be reported stays so.
LEMMA AllowedKept ==
  ASSUME TypeOK, CallSlot("loop"), PhaseInv, LoopSet, Reported, [Next]_vars, ~Crash
  PROVE  Allowed \subseteq Allowed'
<1> USE DEF wireVars, clientVars, setVars, taskVars, callVars, flags
<1> SUFFICES ASSUME NEW f \in Files, NEW v \in Versions,
                    v <= acked[f] \/ AboutToAnswer(f, v)
             PROVE  v <= acked'[f] \/ AboutToAnswer(f, v)'
  BY DEF Allowed, AboutToAnswer, Carries
<1>0. v \in Int /\ acked[f] \in Int /\ acked'[f] \in Int /\ acked[f] <= acked'[f]
  <2>1. acked'[f] \in Versions /\ acked[f] \in Versions
    BY StepType DEF TypeOK, AdapterTypeOK
  <2> QED
    BY <2>1, AnswersGrow, WireAssumption DEF Versions
<1>1. CASE v <= acked[f]
  BY <1>0, <1>1
<1>2. CASE AboutToAnswer(f, v)
  <2>1. /\ req = "setBreakpoints" /\ bpRequestMu /\ outcome["loop"] = "queued"
        /\ job["loop"].file = f /\ job["loop"].ver = v
        /\ pc["loop"] = "await" /\ "loop" \notin pending
    BY <1>2 DEF AboutToAnswer, Carries, CallSlot
  <2>2. CASE LoopResponds
    <3>1. acked' = [acked EXCEPT ![f] = v]
      BY <2>1, <2>2 DEF LoopResponds
    <3> QED
      BY <1>0, <3>1 DEF TypeOK, AdapterTypeOK
  <2>3. ~Call("loop") /\ ~Decide("loop") /\ ~Notify("loop")
    BY <2>1 DEF Call, Decide, Notify
  <2>4. ~ClientStep /\ ~Start
    BY <2>1, ClientLoop DEF Start, Launch, LoopIdle
  <2>5. ~HandshakeDone /\ ~HandshakeFailed /\ ~LockBpRequest
    BY <2>1 DEF HandshakeDone, HandshakeFailed, LockBpRequest
  <2>6. CASE /\ UNCHANGED <<req, bpRequestMu, nextSet, acked>>
             /\ job'["loop"] = job["loop"] /\ outcome'["loop"] = outcome["loop"]
    BY <2>1, <2>6 DEF AboutToAnswer, Carries
  <2> QED
    BY <2>1, <2>2, <2>3, <2>4, <2>5, <2>6, LoopFrame
<1> QED
  BY <1>1, <1>2

\* The request loop queues a set, for the next stop or as a command, only while
\* it is about to answer.
LEMMA LoopAllows ==
  ASSUME TypeOK, LoopSet, Decide("loop") \/ (Notify("loop") /\ req # "pause"),
         outcome'["loop"] = "queued"
  PROVE  <<job["loop"].file, job["loop"].ver>> \in Allowed'
<1> USE DEF setVars, clientVars
<1>1. /\ Carries /\ pc["loop"] # "lock" /\ UNCHANGED <<req, job, bpRequestMu>>
  <2>1. CASE Decide("loop")
    BY <2>1 DEF Decide, TypeOK, AdapterTypeOK, Carries
  <2>2. CASE Notify("loop") /\ req # "pause"
    BY <2>2 DEF Notify, LoopSet, Carries
  <2> QED
    BY <2>1, <2>2
<1>2. job["loop"].file \in Files /\ job["loop"].ver \in Versions /\ bpRequestMu
  BY <1>1, CallerNames DEF LoopSet, TypeOK, AdapterTypeOK
<1> QED
  BY <1>1, <1>2 DEF Allowed, AboutToAnswer, Carries

LEMMA ZeroAllowed ==
  ASSUME TypeOK PROVE \A f \in Files : <<f, 0>> \in Allowed
BY ZeroIsVersion, WireAssumption DEF Allowed, TypeOK, AdapterTypeOK, Versions

\* What a flush works on changes by its own steps, and by those of SetBreakpoints.
LEMMA HeldFrame ==
  ASSUME TypeOK, PhaseInv, [Next]_vars, ~Crash
  PROVE  \/ /\ UNCHANGED <<pendingBreakpoints, queued>>
            /\ \A k \in Flushers : Applying(k)' => Applying(k) /\ job'[k] = job[k]
         \/ \E c \in Callers : Decide(c)
         \/ \E k \in Flushers : FlushTake(k) \/ \E f \in Files : FlushFile(k, f)
<1> USE DEF wireVars, clientVars, setVars, taskVars, callVars, flags, TypeOK, AdapterTypeOK,
            Goto, Applying
<1> DEFINE Apart == /\ UNCHANGED <<pendingBreakpoints, queued>>
                    /\ \A k \in Flushers : Applying(k)' => Applying(k) /\ job'[k] = job[k]
<1>0. "loop" \in Callers /\ \A k \in Flushers : k # "loop" /\ k # "handshake" /\ k \in Callers
  BY FlusherCaller, CallerNames
<1>1. ASSUME NEW c \in Callers, Call(c) \/ Notify(c) PROVE Apart
  <2>1. /\ UNCHANGED <<pendingBreakpoints, queued, job>> /\ pc[c] \in {"call", "notify"}
        /\ pc' = [pc EXCEPT ![c] = "await"]
    BY <1>1 DEF Call, Notify
  <2> QED
    BY <1>0, <2>1
<1>2. ASSUME NEW k \in Flushers, FlushReport(k) \/ FlushEnd(k) PROVE Apart
  <2>1. /\ UNCHANGED <<pendingBreakpoints, queued>>
        /\ \A d \in Flushers : d # k => job'[d] = job[d]
        /\ \E l \in {"next", "off"} : pc' = [pc EXCEPT ![k] = l]
    BY <1>0, <1>2 DEF FlushReport, FlushEnd
  <2> QED
    BY <1>0, <2>1
<1>3. CASE ClientStep
  <2>1. CASE QueryRequest \/ PauseRequest \/ Terminate
    BY <1>0, <2>1 DEF QueryRequest, PauseRequest, Terminate
  <2>2. ASSUME NEW f \in Files, SetBreakpointsRequest(f) PROVE Apart
    BY <1>0, <2>2 DEF SetBreakpointsRequest
  <2>3. ASSUME NEW r \in Resumes, ResumeRequest(r) PROVE Apart
    BY <1>0, <2>3 DEF ResumeRequest
  <2> QED
    BY <1>3, <2>1, <2>2, <2>3 DEF ClientStep
<1>4. CASE HandshakeFailed \/ LockBpRequest \/ LoopResponds
  BY <1>0, <1>4 DEF HandshakeFailed, LockBpRequest, LoopResponds
<1>5. CASE HandshakeDone
  <2>1. /\ UNCHANGED <<pendingBreakpoints, queued, job>>
        /\ pc' = [pc EXCEPT !["loop"] = "idle", !["handshake"] = "off",
                            ![FreeFlusher] = "take"]
    BY <1>5 DEF HandshakeDone
  <2> QED
    BY <1>0, <2>1
<1>6. CASE Read
  <2> DEFINE m == Head(protocol)
  <2>1. UNCHANGED <<pendingBreakpoints, queued, job>>
    BY <1>6 DEF Read
  <2>2. CASE NoteStop(m)
    BY <1>0, <2>1, <2>2 DEF NoteStop
  <2> QED
    BY <1>6, <2>1, <2>2 DEF Read, Deliver, ForwardEvent, AnswerPath
<1>7. CASE Write \/ WriterStops \/ ReaderEnds \/ Close \/ ReportExit \/ CopyOutput
           \/ PumpReceive \/ PumpBreakpoints
  BY <1>7 DEF Write, WriterStops, ReaderEnds, Close, ReportExit, CopyOutput,
              PumpReceive, PumpBreakpoints
<1>8. CASE Start
  BY <1>0, <1>8 DEF Start, Launch
<1>9. CASE ProcessWaited \/ UNCHANGED vars \/ (LuaMoves /\ UNCHANGED adapterVars)
  BY <1>9 DEF ProcessWaited, vars, adapterVars
<1>10. CASE AdapterStep
  <2> HIDE DEF TypeOK, AdapterTypeOK, Goto, Applying
  <2> QED
    BY <1>1, <1>2, <1>3, <1>4, <1>5, <1>6, <1>7, <1>10, Zenon DEF AdapterStep, FlusherStep
<1> QED
  BY <1>8, <1>9, <1>10, StepCases

LEMMA HeldStep ==
  ASSUME TypeOK, PhaseInv, LoopSet, [Next]_vars, ~Crash,
         NEW A, NEW B, A \subseteq B, HeldSets(A), \A f \in Files : <<f, 0>> \in B,
         Decide("loop") /\ outcome'["loop"] = "queued"
           => <<job["loop"].file, job["loop"].ver>> \in B
  PROVE  HeldSets(B)'
<1> USE DEF Goto, HeldSets, Applying
<1>0. /\ \A k \in Flushers : k # "loop" /\ k # "handshake" /\ k \in Callers
      /\ pc \in [Callers -> PCs] /\ pendingBreakpoints \in [Files -> Versions]
      /\ queued \in [Flushers -> [Files -> Versions]]
      /\ outcome \in [Callers -> Outcomes] /\ DOMAIN job = Callers
  BY FlusherCaller DEF TypeOK, AdapterTypeOK
<1>1. ASSUME NEW c \in Callers, Decide(c) PROVE HeldSets(B)'
  <2>1. /\ queued' = queued /\ job' = job /\ pc[c] = "decide"
        /\ \E l \in {"call", "notify", "await"} : pc' = [pc EXCEPT ![c] = l]
        /\ \/ pendingBreakpoints' = pendingBreakpoints
           \/ /\ pendingBreakpoints' = [pendingBreakpoints EXCEPT ![job[c].file] = job[c].ver]
              /\ outcome' = [outcome EXCEPT ![c] = "queued"]
    BY <1>1 DEF Decide, Finish, setVars
  <2>2. \A k \in Flushers : Applying(k)' => Applying(k)
    BY <1>0, <2>1
  <2>3. CASE pendingBreakpoints' = pendingBreakpoints
    BY <2>1, <2>2, <2>3
  <2>4. CASE /\ pendingBreakpoints' = [pendingBreakpoints EXCEPT ![job[c].file] = job[c].ver]
             /\ outcome' = [outcome EXCEPT ![c] = "queued"]
    <3>1. <<job[c].file, job[c].ver>> \in B
      <4>1. CASE c = "loop"
        BY <1>0, <1>1, <2>4, <4>1
      <4>2. CASE c \in Flushers
        BY <2>1, <4>2
      <4>3. c # "handshake"
        BY <2>1 DEF LoopSet
      <4> QED
        BY <4>1, <4>2, <4>3 DEF Callers
    <3>2. \A f \in Files : <<f, pendingBreakpoints'[f]>> \in B
      BY <1>0, <2>4, <3>1
    <3> QED
      BY <2>1, <2>2, <3>2
  <2> QED
    BY <2>1, <2>3, <2>4
<1>2. ASSUME NEW k \in Flushers, FlushTake(k) PROVE HeldSets(B)'
  <2>1. /\ queued' = [queued EXCEPT ![k] = pendingBreakpoints]
        /\ pendingBreakpoints' = NoSets
        /\ pc' = [pc EXCEPT ![k] = "next"] /\ job' = job
    BY <1>2 DEF FlushTake
  <2>2. \A f \in Files : <<f, pendingBreakpoints'[f]>> \in B
    <3>1. \A f \in Files : pendingBreakpoints'[f] = 0
      BY <2>1 DEF NoSets
    <3> HIDE DEF HeldSets
    <3> QED
      BY <3>1, Zenon
  <2>3. \A d \in Flushers : \A f \in Files : <<f, queued'[d][f]>> \in B
    BY <1>0, <2>1
  <2>4. \A d \in Flushers : Applying(d)' => <<job'[d].file, job'[d].ver>> \in B
    BY <1>0, <2>1
  <2> QED
    BY <2>2, <2>3, <2>4
<1>3. ASSUME NEW k \in Flushers, NEW f \in Files, FlushFile(k, f) PROVE HeldSets(B)'
  <2>1. /\ job' = [job EXCEPT ![k] = [file |-> f, ver |-> queued[k][f]]]
        /\ queued' = [queued EXCEPT ![k][f] = 0]
        /\ pc' = [pc EXCEPT ![k] = "decide"] /\ pendingBreakpoints' = pendingBreakpoints
    BY <1>3 DEF FlushFile
  <2>3. \A d \in Flushers : \A g \in Files : <<g, queued'[d][g]>> \in B
    BY <1>0, <2>1
  <2>4. \A d \in Flushers : Applying(d)' => <<job'[d].file, job'[d].ver>> \in B
    <3> SUFFICES ASSUME NEW d \in Flushers, Applying(d)'
                 PROVE  <<job'[d].file, job'[d].ver>> \in B
      OBVIOUS
    <3>1. CASE d = k
      BY <1>0, <2>1, <3>1
    <3>2. CASE d # k
      <4>1. job'[d] = job[d] /\ Applying(d)
        BY <1>0, <2>1, <3>2
      <4> QED
        BY <4>1
    <3> QED
      BY <3>1, <3>2
  <2> QED
    BY <2>1, <2>3, <2>4
<1>4. CASE /\ UNCHANGED <<pendingBreakpoints, queued>>
           /\ \A k \in Flushers : Applying(k)' => Applying(k) /\ job'[k] = job[k]
  BY <1>4
<1> QED
  BY <1>1, <1>2, <1>3, <1>4, HeldFrame

LEMMA SeqGrows == ASSUME NEW S, NEW T, S \subseteq T, NEW s \in Seq(S) PROVE s \in Seq(T)
OBVIOUS

LEMMA EventSetsStep ==
  ASSUME TypeOK, PhaseInv, CallInv, [Next]_vars, ~Crash,
         NEW A, NEW B, A \subseteq B, HeldSets(A), EventSets(A), WireSets(A)
  PROVE  EventSets(B)'
<1> USE DEF wireVars, clientVars, setVars, taskVars, callVars, flags, EventSets
<1>0. /\ EventsOf(A) \subseteq EventsOf(B) /\ EventsOf(B) \subseteq Events
      /\ events \in Seq(EventsOf(B))
  <2>1. EventsOf(A) \subseteq EventsOf(B) /\ EventsOf(B) \subseteq Events
    BY DEF EventsOf
  <2> QED
    BY <2>1, SeqGrows
<1>1. CASE events' = events /\ (pump' = "lock" => pump = "lock" /\ pumpEvent' = pumpEvent)
  BY <1>0, <1>1
<1>2. ASSUME NEW e \in EventsOf(B), events' = Append(events, e), UNCHANGED <<pump, pumpEvent>>
      PROVE  EventSets(B)'
  BY <1>0, <1>2, Appended
<1>3. \A kind \in EventKinds \ {"breakpointsChanged"} :
        \A f \in Files \union {NoFile} : \A v \in Versions : Event(kind, f, v) \in EventsOf(B)
  BY DEF EventsOf, Event, Events
<1>4. \A kind \in EventKinds \ {"breakpointsChanged"} : PlainEvent(kind) \in EventsOf(B)
  BY <1>3, ZeroIsVersion DEF PlainEvent
<1>5. CASE ReportExit
  <2>1. events' = Append(events, PlainEvent(reader)) /\ reader \in {"exited", "exit"}
        /\ UNCHANGED <<pump, pumpEvent>>
    BY <1>5 DEF ReportExit, Push
  <2> QED
    BY <1>2, <1>4, <2>1 DEF EventKinds
<1>6. CASE CopyOutput
  <2>1. events' = Append(events, PlainEvent("output")) /\ UNCHANGED <<pump, pumpEvent>>
    BY <1>6 DEF CopyOutput, Push
  <2> QED
    BY <1>2, <1>4, <2>1 DEF EventKinds
<1>7. ASSUME NEW k \in Flushers, FlushEnd(k) PROVE EventSets(B)'
  <2>1. /\ UNCHANGED <<pump, pumpEvent>>
        /\ events' = events \/ events' = Append(events, PlainEvent("stopped"))
    BY <1>7 DEF FlushEnd, Push
  <2> QED
    BY <1>1, <1>2, <1>4, <2>1 DEF EventKinds
<1>8. ASSUME NEW k \in Flushers, FlushReport(k) PROVE EventSets(B)'
  <2> DEFINE kind == CASE outcome[k] = "ok" -> "breakpointsChanged"
                       [] outcome[k] = "queued" -> "breakpointsQueued"
                       [] outcome[k] = "error" -> "flushFailed"
             e == Event(kind, job[k].file, job[k].ver)
  <2>1. /\ outcome[k] \in {"ok", "queued", "error"} /\ Applying(k)
        /\ job[k].file \in Files \union {NoFile} /\ job[k].ver \in Versions
    BY <1>8, FlusherCaller DEF FlushReport, TypeOK, AdapterTypeOK, Outcomes, Applying
  <2>2. kind \in EventKinds
    BY <2>1 DEF EventKinds
  <2>3. events' = Append(events, e) /\ UNCHANGED <<pump, pumpEvent>>
    BY <1>8 DEF FlushReport, Push
  <2> HIDE DEF kind
  <2>4. <<job[k].file, job[k].ver>> \in B
    BY <2>1 DEF HeldSets
  <2>5. e \in EventsOf(B)
    BY <2>1, <2>2, <2>4, EventType DEF EventsOf, Event
  <2> QED
    BY <1>2, <2>3, <2>5
<1>9. CASE Read
  <2> DEFINE m == Head(protocol)
  <2>1. UNCHANGED <<pump, pumpEvent>> /\ protocol # <<>> /\ reader = "read"
    BY <1>9 DEF Read
  <2>2. CASE ForwardEvent(m)
    <3>1. ~closed
      BY <2>1 DEF PhaseInv
    <3>2. m \in NoticesOf(A)
      BY <2>1, <3>1, HeadAndTail DEF WireSets
    <3>3. /\ m.kind \in {"breakpointsChanged", "output"}
          /\ events' = Append(events, Event(m.kind, m.file, m.ver))
      BY <2>2 DEF ForwardEvent, Push
    <3>4. Event(m.kind, m.file, m.ver) \in EventsOf(B)
      BY <3>2, <3>3, EventType DEF NoticesOf, Messages, EventsOf, Event, EventKinds
    <3> QED
      BY <1>2, <2>1, <3>3, <3>4
  <2>3. CASE Deliver(m) \/ NoteStop(m) \/ AnswerPath(m)
    BY <1>1, <2>1, <2>3 DEF Deliver, NoteStop, AnswerPath
  <2> QED
    BY <1>9, <2>2, <2>3 DEF Read
<1>10. CASE PumpReceive
  <2>1. /\ events # <<>> /\ events' = Tail(events)
        /\ pump' = "lock" => pumpEvent' = Head(events)
    BY <1>10 DEF PumpReceive
  <2> QED
    BY <1>0, <2>1, HeadAndTail
<1>11. CASE PumpBreakpoints
  BY <1>1, <1>11 DEF PumpBreakpoints
<1>12. CASE HandshakeDone
  BY <1>1, <1>12 DEF HandshakeDone
<1>13. CASE UNCHANGED <<events, pump, pumpEvent>>
  BY <1>1, <1>13
<1>14. ASSUME NEW c \in Callers, Call(c) \/ Decide(c) \/ Notify(c)
       PROVE  UNCHANGED <<events, pump, pumpEvent>>
  BY <1>14 DEF Call, Decide, Notify
<1>15. CASE ClientStep
  <2>1. CASE QueryRequest \/ PauseRequest \/ Terminate
    BY <1>13, <2>1 DEF QueryRequest, PauseRequest, Terminate
  <2>2. ASSUME NEW f \in Files, SetBreakpointsRequest(f) PROVE UNCHANGED <<events, pump, pumpEvent>>
    BY <2>2 DEF SetBreakpointsRequest
  <2>3. ASSUME NEW r \in Resumes, ResumeRequest(r) PROVE UNCHANGED <<events, pump, pumpEvent>>
    BY <2>3 DEF ResumeRequest
  <2> QED
    BY <1>13, <1>15, <2>1, <2>2, <2>3 DEF ClientStep
<1>16. CASE HandshakeFailed \/ LockBpRequest \/ LoopResponds
  BY <1>13, <1>16 DEF HandshakeFailed, LockBpRequest, LoopResponds
<1>17. ASSUME NEW k \in Flushers, FlushTake(k) \/ \E f \in Files : FlushFile(k, f)
       PROVE  UNCHANGED <<events, pump, pumpEvent>>
  BY <1>17 DEF FlushTake, FlushFile
<1>18. CASE Write \/ WriterStops \/ ReaderEnds \/ Close
  BY <1>13, <1>18 DEF Write, WriterStops, ReaderEnds, Close
<1>19. CASE Start \/ ProcessWaited \/ UNCHANGED vars \/ (LuaMoves /\ UNCHANGED adapterVars)
  BY <1>13, <1>19 DEF Start, Launch, ProcessWaited, vars, adapterVars
<1>20. CASE AdapterStep
  <2> HIDE DEF EventSets
  <2> QED
    BY <1>5, <1>6, <1>7, <1>8, <1>9, <1>10, <1>11, <1>12, <1>13, <1>14, <1>15, <1>16, <1>17,
       <1>18, <1>20, Zenon DEF AdapterStep, FlusherStep
<1> QED
  BY <1>19, <1>20, StepCases

LEMMA WireSetsStep ==
  ASSUME TypeOK, PhaseInv, LoopSet, [Next]_vars, ~Crash,
         NEW A, NEW B, A \subseteq B, HeldSets(A), WireSets(A),
         (Notify("loop") /\ req # "pause") /\ outcome'["loop"] = "queued"
           => <<job["loop"].file, job["loop"].ver>> \in B
  PROVE  WireSets(B)'
<1> USE DEF WireSets
<1>0. UpdatesOf(B) \subseteq Commands
  BY DEF UpdatesOf
<1>1. CASE closed'
  BY <1>1
<1>2. CASE ~closed'
  <2>1. ~closed
    BY <1>2, EndsForGood
  <2>2. /\ commands \in Seq(UpdatesOf(B)) /\ stdin \in Seq(UpdatesOf(B))
        /\ queuedCommands \in Seq(UpdatesOf(B)) /\ protocol \in Seq(NoticesOf(B))
    <3>1. UpdatesOf(A) \subseteq UpdatesOf(B) /\ NoticesOf(A) \subseteq NoticesOf(B)
      BY DEF UpdatesOf, NoticesOf
    <3> QED
      BY <2>1, <3>1, SeqGrows
  <2>3. CASE LuaMoves /\ UNCHANGED adapterVars
    <3>1. LuaShape /\ commands' = commands
      BY <2>3, ShapeOfLua DEF adapterVars
    <3>2. stdin' \in Seq(UpdatesOf(B)) /\ queuedCommands' \in Seq(UpdatesOf(B))
      BY <2>2, <3>1, MovedCommands
    <3>3. /\ Stopped \in NoticesOf(B) /\ LuaOutput \in NoticesOf(B)
          /\ Message("reply", "loop", NoFile, 0) \in NoticesOf(B)
          /\ \A f \in Files : Message("resolvePath", Nobody, f, 0) \in NoticesOf(B)
      BY PlainMessages DEF NoticesOf, Stopped, LuaOutput, Message
    <3>4. ASSUME HasCommand
          PROVE  /\ \A kind \in {"reply", "error"} :
                      NextCommand.by # Nobody =>
                        Message(kind, NextCommand.by, NextCommand.file, NextCommand.ver)
                          \in NoticesOf(B)
                 /\ NextCommand.cmd = "updateBreakpoints" =>
                      Message("breakpointsChanged", Nobody, NextCommand.file, NextCommand.ver)
                        \in NoticesOf(B)
      <4>1. NextCommand \in UpdatesOf(B)
        BY <2>2, <3>4, TakenFrom
      <4>2. NextCommand \in Commands
        BY <4>1 DEF UpdatesOf
      <4>3. \A kind \in {"reply", "error", "breakpointsChanged"} :
              \A to \in Callers \union {Nobody} :
                Message(kind, to, NextCommand.file, NextCommand.ver) \in Messages
        BY <4>2, MessageType DEF Commands, MessageKinds
      <4> QED
        BY <4>1, <4>2, <4>3 DEF NoticesOf, UpdatesOf, Message, Commands
    <3>5. protocol' \in Seq(NoticesOf(B))
      BY <2>2, <3>1, <3>3, <3>4, MovedMessages
    <3> QED
      BY <2>2, <3>1, <3>2, <3>5
  <2>4. CASE AdapterStep /\ UNCHANGED luaVars
    <3>1. ASSUME NEW e, Queues(e) PROVE e \in UpdatesOf(B)
      <4>1. e \in Commands
        BY <3>1, QueuedChannels
      <4>2. ASSUME NEW c \in Callers, Notify(c), e = Notified(c), ~Refused
            PROVE  e \in UpdatesOf(B)
        <5>1. pc[c] = "notify" /\ outcome' = [outcome EXCEPT ![c] = "queued"]
          BY <4>2 DEF Notify, Finish
        <5>2. CASE c = "loop" /\ req = "pause"
          BY <4>1, <4>2, <5>2 DEF Notified, Command, UpdatesOf
        <5>3. CASE ~(c = "loop" /\ req = "pause")
          <6>1. e.file = job[c].file /\ e.ver = job[c].ver
            BY <4>2, <5>3 DEF Notified, Command
          <6>2. <<job[c].file, job[c].ver>> \in B
            <7>1. CASE c = "loop"
              BY <4>2, <5>1, <5>3, <7>1 DEF TypeOK, AdapterTypeOK
            <7>2. CASE c \in Flushers
              BY <5>1, <7>2 DEF HeldSets, Applying
            <7>3. c # "handshake"
              BY <5>1 DEF LoopSet
            <7> QED
              BY <7>1, <7>2, <7>3 DEF Callers
          <6> QED
            BY <4>1, <6>1, <6>2 DEF UpdatesOf
        <5> QED
          BY <5>2, <5>3
      <4>3. ASSUME NEW c \in Callers, e = CommandOf(c) PROVE e \in UpdatesOf(B)
        BY <4>1, <4>3 DEF CommandOf, Command, UpdatesOf, TypeOK, AdapterTypeOK, Requests, Resumes
      <4>4. CASE e = Command("resolved", Nobody, Head(protocol).file, 0)
        BY <4>1, <4>4 DEF Command, UpdatesOf
      <4> QED
        BY <3>1, <4>2, <4>3, <4>4 DEF Queues, Refused
    <3>2. commands' \in Seq(UpdatesOf(B)) /\ stdin' \in Seq(UpdatesOf(B))
      BY <2>2, <2>4, <3>1, AdapterMoves
    <3>3. protocol' \in Seq(NoticesOf(B))
      BY <2>2, <2>4, AdapterReads
    <3> QED
      BY <2>2, <2>4, <3>2, <3>3 DEF luaVars
  <2>5. CASE Start \/ ProcessWaited \/ UNCHANGED vars
    <3>1. UNCHANGED <<commands, stdin, queuedCommands, protocol>>
      BY <2>5 DEF Start, Launch, ProcessWaited, vars, wireVars, luaVars, adapterVars
    <3> QED
      BY <2>2, <3>1
  <2> QED
    BY <2>3, <2>4, <2>5, StepCases
<1> QED
  BY <1>1, <1>2

LEMMA ReportedStep ==
  ASSUME TypeOK, PhaseInv, SetsInv, [Next]_vars PROVE Reported'
<1> USE DEF clientVars, adapterVars
<1>0. /\ \A f \in Files : acked[f] <= acked'[f] /\ acked'[f] <= nextSet'
      /\ \A f \in Files : shown[f] <= acked[f]
      /\ \A f \in Files : shown[f] \in Int /\ acked[f] \in Int /\ acked'[f] \in Int
  <2>1. acked \in [Files -> Versions] /\ acked' \in [Files -> Versions] /\ shown \in [Files -> Versions]
    BY StepType DEF TypeOK, AdapterTypeOK
  <2> QED
    BY <2>1, AnswersGrow, WireAssumption DEF SetsInv, Reported, Versions
<1>1. CASE PumpBreakpoints
  <2> DEFINE e == pumpEvent
  <2>1. /\ ~bpRequestMu /\ pump = "lock"
        /\ shown' = IF e.kind = "breakpointsChanged"
                    THEN [shown EXCEPT ![e.file] = e.ver] ELSE shown
    BY <1>1 DEF PumpBreakpoints, PumpMayLock
  <2>2. e.kind = "breakpointsChanged" => <<e.file, e.ver>> \in Allowed
    BY <2>1 DEF SetsInv, EventSets, EventsOf
  <2>3. e.kind = "breakpointsChanged" => e.file \in Files /\ e.ver \in Int /\ e.ver <= acked[e.file]
    BY <2>1, <2>2, WireAssumption DEF Allowed, AboutToAnswer, Versions
  <2>4. \A f \in Files : shown'[f] \in Int /\ shown'[f] <= acked[f]
    BY <1>0, <2>1, <2>3 DEF TypeOK, AdapterTypeOK
  <2> QED
    BY <1>0, <2>4 DEF Reported
<1>2. CASE shown' = shown
  BY <1>0, <1>2 DEF Reported
<1>3. ASSUME NEW c \in Callers, Call(c) \/ Decide(c) \/ Notify(c) PROVE shown' = shown
  BY <1>3 DEF Call, Decide, Notify
<1>4. CASE ClientStep
  BY <1>2, <1>4 DEF ClientStep, QueryRequest, PauseRequest, Terminate, SetBreakpointsRequest,
                    ResumeRequest
<1>5. CASE HandshakeDone \/ HandshakeFailed \/ LockBpRequest \/ LoopResponds
  BY <1>2, <1>5 DEF HandshakeDone, HandshakeFailed, LockBpRequest, LoopResponds
<1>6. ASSUME NEW k \in Flushers, FlusherStep(k) PROVE shown' = shown
  BY <1>6 DEF FlusherStep, FlushTake, FlushFile, FlushReport, FlushEnd
<1>7. CASE Write \/ WriterStops \/ Read \/ ReaderEnds \/ Close \/ ReportExit \/ CopyOutput
           \/ PumpReceive
  BY <1>2, <1>7 DEF Write, WriterStops, Read, ReaderEnds, Close, ReportExit, CopyOutput,
                    PumpReceive
<1>8. CASE Start \/ Crash \/ ProcessWaited \/ UNCHANGED vars \/ (LuaMoves /\ UNCHANGED adapterVars)
  BY <1>2, <1>8 DEF Start, Launch, Crash, ProcessWaited, vars
<1>9. CASE AdapterStep
  BY <1>1, <1>2, <1>3, <1>4, <1>5, <1>6, <1>7, <1>9, Zenon DEF AdapterStep
<1> QED
  BY <1>8, <1>9, StepCases

LEMMA SetsStep ==
  ASSUME TypeOK, CallInv, PhaseInv, SetsInv, [Next]_vars PROVE SetsInv'
<1>1. LoopSet' /\ Reported'
  BY LoopSetStep, ReportedStep DEF SetsInv
<1>2. TypeOK'
  BY StepType
<1>3. \A f \in Files : <<f, 0>> \in Allowed'
  <2>1. \A f \in Files : acked'[f] \in Versions
    BY <1>2 DEF TypeOK, AdapterTypeOK
  <2> QED
    BY <2>1, ZeroIsVersion, WireAssumption DEF Allowed, Versions
<1>4. CASE Crash
  <2>1. /\ closed' /\ pump' = "done" /\ events' = <<>>
        /\ pendingBreakpoints' = NoSets /\ queued' = [k \in Flushers |-> NoSets]
        /\ pc' = [c \in Callers |-> IF c = "loop" THEN "ended" ELSE "off"]
    BY <1>4 DEF Crash
  <2>2. EventSets(Allowed)'
    BY <2>1 DEF EventSets
  <2>3. WireSets(Allowed)'
    BY <2>1 DEF WireSets
  <2>4. HeldSets(Allowed)'
    <3>1. \A k \in Flushers : pc'[k] = "off"
      BY <2>1, FlusherCaller
    <3>2. \A f \in Files : NoSets[f] = 0
      BY DEF NoSets
    <3> QED
      BY <1>3, <2>1, <3>1, <3>2 DEF HeldSets, Applying
  <2> QED
    BY <1>1, <2>2, <2>3, <2>4 DEF SetsInv
<1>5. CASE ~Crash
  <2>1. PICK A : A = Allowed
    OBVIOUS
  <2>2. PICK B : B = Allowed'
    OBVIOUS
  <2>3. A \subseteq B /\ \A f \in Files : <<f, 0>> \in B
    <3>1. CallSlot("loop")
      BY CallerNames DEF CallInv
    <3> QED
      BY <1>3, <1>5, <2>1, <2>2, <3>1, AllowedKept DEF SetsInv
  <2>4. LoopSet /\ HeldSets(A) /\ EventSets(A) /\ WireSets(A)
    BY <2>1 DEF SetsInv
  <2>5. Decide("loop") \/ (Notify("loop") /\ req # "pause") =>
          (outcome'["loop"] = "queued" => <<job["loop"].file, job["loop"].ver>> \in B)
    BY <2>2, <2>4, LoopAllows
  <2>6. HeldSets(B)'
    BY <1>5, <2>3, <2>4, <2>5, HeldStep
  <2>7. EventSets(B)'
    BY <1>5, <2>3, <2>4, EventSetsStep
  <2>8. WireSets(B)'
    BY <1>5, <2>3, <2>4, <2>5, WireSetsStep
  <2> QED
    BY <1>1, <2>2, <2>6, <2>7, <2>8 DEF SetsInv, HeldSets, EventSets, WireSets
<1> QED
  BY <1>4, <1>5

LEMMA SetsInit == Init => SetsInv
<1> SUFFICES ASSUME Init PROVE SetsInv
  OBVIOUS
<1> USE DEF Init, AdapterInit, WireInit, LuaInit
<1>1. pc["loop"] = "idle" /\ pc["handshake"] = "off" /\ req = "none"
  BY CallerNames
<1>2. LoopSet
  BY <1>1 DEF LoopSet, Carries
<1>3. \A f \in Files : acked[f] = 0 /\ shown[f] = 0 /\ NoSets[f] = 0
  BY DEF NoSets
<1>4. Reported
  BY <1>3 DEF Reported
<1>5. HeldSets(Allowed)
  <2>1. \A f \in Files : <<f, 0>> \in Allowed
    BY <1>3, ZeroIsVersion DEF Allowed
  <2>2. \A k \in Flushers : ~Applying(k)
    BY FlusherCaller DEF Applying
  <2> QED
    BY <1>3, <2>1, <2>2 DEF HeldSets
<1>6. EventSets(Allowed) /\ WireSets(Allowed)
  BY DEF EventSets, WireSets
<1> QED
  BY <1>2, <1>4, <1>5, <1>6 DEF SetsInv

\* The client learns that a set of breakpoints is verified only after the
\* response to the request that carried it (server.go:56): whatever channel
\* holds the news, the request has been answered or still holds bpRequestMu.
THEOREM VerifiedIsAnswered == Spec => []VerifiedAfterResponse
<1>1. Init => SetsInv
  BY SetsInit
<1>2. SessionInv /\ SetsInv /\ [Next]_vars => SetsInv'
  BY SetsStep DEF SessionInv
<1>3. SetsInv => VerifiedAfterResponse
  BY DEF SetsInv, Reported, VerifiedAfterResponse
<1> QED
  BY <1>1, <1>2, <1>3, SessionInvariant, PTL DEF Spec

-----------------------------------------------------------------------------
(***************************************************************************)
(* The set the debuggee uses.  While the adapter can reach it at any time  *)
(* only the request loop hands sets on, one at a time, so they arrive in   *)
(* the order of their requests; a program run without debugging is not     *)
(* reached at all, and its sets stay behind.                               *)
(***************************************************************************)

\* The program runs without debugging: sets wait for a stop that never comes.
Blind == Launched /\ ~liveControl /\ req # "runNoDebug"
\* An error of the program is only reported, once its path is known.
BlindRun ==
  noDebug /\ nest = 0 /\ (lpc = "run" \/ (lpc = "resolve" /\ back = "stop"))

Unrefused == {m \in Messages : ~(m.kind = "error" /\ m.to = "loop")}
Unaddressed == {m \in Messages : m.to # "loop"}
NoPathAsked == {m \in Messages : m.kind # "resolvePath"}
WithCaller == {m \in Commands : m.by # Nobody}

\* Sets are kept by the flushes only in a blind run; elsewhere a flush has
\* nothing to do, and what the request loop sends is never refused.
FlushInv ==
  /\ \A k \in Flushers : pc[k] \notin {"call", "notify"}
  /\ \A k \in Flushers : Idle(k) \/ pc[k] = "take" => queued[k] = NoSets
  /\ ~Blind => /\ pendingBreakpoints = NoSets
               /\ \A k \in Flushers : queued[k] = NoSets /\ ~Applying(k)
  /\ Blind => ~paused /\ BlindRun /\ req \notin Resumes
  /\ Launched => pc["handshake"] = "off"
  /\ Carries => /\ Launched
                /\ pc["loop"] = "call" \/ "loop" \in pending => paused
  /\ req \in {"setBreakpoints", "runNoDebug"} => protocol \in Seq(Unrefused)

\* Until `run` is sent, nothing is on the way but the calls.
Starting == ~configured \/ (req = "runNoDebug" /\ pc["loop"] = "call")
BootInv ==
  Starting =>
    /\ lpc \in {"off", "boot"} /\ nest = 0 /\ pc["loop"] # "notify"
    /\ protocol \in Seq(NoPathAsked) /\ commands \in Seq(WithCaller)

\* A run without debugging succeeds.
RunInv ==
  req = "runNoDebug" =>
    /\ nest = 0 /\ (lpc = "boot" \/ BlindRun)
    /\ outcome["loop"] # "error"
    /\ lpc = "boot" => outcome["loop"] = "none" /\ protocol \in Seq(Unaddressed)

Up == ~eof => lpc \notin {"gone", "detached"}
ModeInv == ~eof => FlushInv /\ BootInv /\ RunInv

-----------------------------------------------------------------------------
\* While the stream is up the Lua thread is there.
LEMMA LuaStaysUp ==
  ASSUME LuaMoves, ~eof' PROVE lpc' \notin {"gone", "detached"}
<1> USE DEF luaVars, wireVars
<1>0. LuaAlive
  BY LuaLives
<1>1. ASSUME NEW ms PROVE ~Exit(ms)
  BY DEF Exit
<1>2. ~Detach
  BY DEF Detach
<1>3. CASE CommandLoop
  BY <1>0, <1>1, <1>2, <1>3
     DEF CommandLoop, LuaLoopStep, LuaCommand, StreamEnded, FailedProgramEnds, ServeInLoop,
         ServeResume, ServeResumeThread, ServeQueryResolving, LuaAlive
<1>4. CASE Hook
  BY <1>0, <1>4 DEF Hook, LuaHookStep, PollCommand, PollEmpty, HookReturn, HookStop, AskPath,
              Pause, PauseUnlessBlind, AskNextPath, ResolveQueue, ResolveDone, LuaAlive
<1>5. CASE Program
  <2>1. ASSUME NEW f, HookEnter(f) \/ ErrorStop(f) PROVE lpc' \notin {"gone", "detached"}
    BY <2>1 DEF HookEnter, ErrorStop, AskPath, PauseUnlessBlind, Pause
  <2>2. CASE CoroutineReturns \/ ProgramPrints
    BY <1>0, <2>2 DEF CoroutineReturns, ProgramPrints, LuaAlive
  <2>3. CASE ProgramEnds \/ HostStops \/ SendFails
    BY <1>1, <1>2, <2>3 DEF ProgramEnds, HostStops, SendFails
  <2> QED
    BY <1>5, <2>1, <2>2, <2>3 DEF Program, ProgramStep
<1>6. CASE KilledProcess
  BY <1>1, <1>6 DEF KilledProcess, LuaKilled
<1> QED
  BY <1>3, <1>4, <1>5, <1>6 DEF LuaMoves

\* A blind run can only print, report an error and end.
LEMMA LuaRunsBlind ==
  ASSUME LuaMoves, BlindRun, ~eof' PROVE BlindRun'
<1> USE DEF luaVars, wireVars
<1>1. ASSUME NEW ms PROVE ~Exit(ms)
  BY DEF Exit
<1>2. ~Detach
  BY DEF Detach
<1>3. ~CommandLoop
  BY <1>1, <1>2
     DEF BlindRun, CommandLoop, LuaLoopStep, LuaCommand, StreamEnded, FailedProgramEnds,
         InAnyLoop, InCommandLoop
<1>4. CASE Hook
  <2>1. ~PollCommand /\ ~PollEmpty /\ ~HookReturn /\ ~HookStop
    BY DEF BlindRun, PollCommand, PollEmpty, HookReturn, HookStop
  <2>2. ResolveQueue => BlindRun'
    BY DEF ResolveQueue, BlindRun
  <2>3. ResolveDone => BlindRun'
    BY DEF ResolveDone, PauseUnlessBlind, BlindRun
  <2> QED
    BY <1>4, <2>1, <2>2, <2>3 DEF Hook, LuaHookStep
<1>5. CASE Program
  <2>1. ~CoroutineReturns
    BY DEF BlindRun, CoroutineReturns
  <2>2. \A f : ~HookEnter(f)
    BY DEF BlindRun, HookEnter
  <2>3. CASE ProgramPrints
    BY <2>3 DEF ProgramPrints, BlindRun
  <2>4. ASSUME NEW f, ErrorStop(f) PROVE BlindRun'
    BY <2>4 DEF ErrorStop, AskPath, PauseUnlessBlind, BlindRun
  <2> QED
    BY <1>1, <1>2, <1>5, <2>1, <2>2, <2>3, <2>4
       DEF Program, ProgramStep, ProgramEnds, HostStops, SendFails
<1> QED
  BY <1>1, <1>3, <1>4, <1>5 DEF LuaMoves, KilledProcess, LuaKilled

\* Before the run the Lua thread serves commands.
LEMMA LuaBoots ==
  ASSUME TypeOK, LuaMoves, lpc = "boot", ~eof'
  PROVE  /\ HasCommand /\ nest' = nest
         /\ \E kind \in {"reply", "error"} : \E pre : Serves(kind, pre)
         /\ \/ lpc' = "boot" /\ NextCommand.cmd \notin {"run", "runNoDebug", "resume"}
            \/ /\ lpc' = "run" /\ NextCommand.cmd \in Resumes
               /\ NextCommand.cmd = "runNoDebug" => noDebug'
<1> USE DEF luaVars, wireVars
<1>1. ASSUME NEW ms PROVE ~Exit(ms)
  BY DEF Exit
<1>2. ~Detach
  BY DEF Detach
<1>3. ~Hook
  BY DEF Hook, LuaHookStep, PollCommand, PollEmpty, HookReturn, HookStop,
         ResolveQueue, ResolveDone
<1>4. ~Program
  BY <1>2
     DEF Program, ProgramStep, HookEnter, ErrorStop, CoroutineReturns, ProgramPrints,
         ProgramEnds, HostStops, SendFails
<1>5. LuaCommand
  BY <1>1, <1>2, <1>3, <1>4 DEF LuaMoves, KilledProcess, LuaKilled, CommandLoop, LuaLoopStep,
                                StreamEnded, FailedProgramEnds
<1> DEFINE c == NextCommand
<1>6. HasCommand /\ (ServeInLoop(c) \/ ServeResume(c))
  BY <1>5 DEF LuaCommand, ServeResumeThread, ServeQueryResolving
<1> HIDE DEF c
<1>7. ServeInLoop(c) =>
        lpc' = "boot" /\ nest' = nest /\ c.cmd \notin {"run", "runNoDebug", "resume"}
  BY DEF ServeInLoop, SetBreakpointsHandler, PauseHandler, ServeQuery
<1>8. ServeResume(c) =>
        /\ lpc' = "run" /\ nest' = nest /\ c.cmd \in Resumes
        /\ c.cmd = "runNoDebug" => noDebug'
  BY DEF ServeResume, Resumes
<1>9. \E kind \in {"reply", "error"} : \E pre : Serves(kind, pre)
  <2>1. lpc' # "resolve"
    BY <1>6, <1>7, <1>8
  <2> QED
    BY <1>5, <2>1, LuaCommandShape DEF BeginsQuery, Resolving
<1> QED
  BY <1>6, <1>7, <1>8, <1>9 DEF c

\* Which step moves a goroutine.
LEMMA PcFrame ==
  ASSUME TypeOK, PhaseInv, [Next]_vars, ~Crash, NEW c \in Callers
  PROVE  \/ pc'[c] = pc[c]
         \/ Call(c) \/ Decide(c) \/ Notify(c)
         \/ c \in Flushers /\ ((Idle(c) /\ pc'[c] = "take") \/ FlusherStep(c))
         \/ /\ c = "loop"
            /\ \/ ClientStep \/ Start \/ HandshakeDone \/ HandshakeFailed
               \/ LockBpRequest \/ LoopResponds
         \/ c = "handshake" /\ (Start \/ (HandshakeDone /\ pc'[c] = "off"))
<1> USE DEF wireVars, clientVars, setVars, taskVars, callVars, flags, TypeOK, AdapterTypeOK, Goto
<1> DEFINE P == pc'[c] = pc[c]
<1>0. /\ "loop" \in Callers /\ "handshake" \in Callers
      /\ \A k \in Flushers : k # "loop" /\ k # "handshake" /\ k \in Callers
  BY FlusherCaller, CallerNames
<1>1. ASSUME NEW d \in Callers, Call(d) \/ Decide(d) \/ Notify(d), d # c PROVE P
  BY <1>1 DEF Call, Decide, Notify
<1>2. ASSUME NEW k \in Flushers, FlusherStep(k), k # c PROVE P
  BY <1>0, <1>2 DEF FlusherStep, FlushTake, FlushFile, FlushReport, FlushEnd
<1>3. CASE Write \/ WriterStops \/ ReaderEnds \/ ReportExit \/ CopyOutput \/ Close
  BY <1>3 DEF Write, WriterStops, ReaderEnds, ReportExit, CopyOutput, Close
<1>5. CASE PumpReceive \/ PumpBreakpoints
  BY <1>5 DEF PumpReceive, PumpBreakpoints
<1>6. CASE Read
  <2> DEFINE m == Head(protocol)
  <2>1. CASE NoteStop(m)
    BY <1>0, <2>1, FreeFlusherIdle DEF NoteStop
  <2>2. Deliver(m) \/ ForwardEvent(m) \/ AnswerPath(m) => P
    BY DEF Deliver, ForwardEvent, AnswerPath
  <2> QED
    BY <1>6, <2>1, <2>2 DEF Read
<1>7. CASE ProcessWaited \/ UNCHANGED vars
  BY <1>7 DEF ProcessWaited, vars, adapterVars
<1>8. CASE LuaMoves /\ UNCHANGED adapterVars
  BY <1>8 DEF adapterVars
<1>9. ClientStep /\ c # "loop" => P
  <2>1. QueryRequest \/ PauseRequest \/ Terminate => (c # "loop" => P)
    BY <1>0 DEF QueryRequest, PauseRequest, Terminate
  <2>2. ASSUME NEW f \in Files, SetBreakpointsRequest(f), c # "loop" PROVE P
    BY <1>0, <2>2 DEF SetBreakpointsRequest
  <2>3. ASSUME NEW r \in Resumes, ResumeRequest(r), c # "loop" PROVE P
    BY <1>0, <2>3 DEF ResumeRequest
  <2> QED
    BY <2>1, <2>2, <2>3 DEF ClientStep
<1>10. HandshakeFailed \/ LockBpRequest \/ LoopResponds => (c # "loop" => P)
  BY <1>0 DEF HandshakeFailed, LockBpRequest, LoopResponds
<1>11. CASE HandshakeDone
  <2>1. /\ pc' = [pc EXCEPT !["loop"] = "idle", !["handshake"] = "off", ![FreeFlusher] = "take"]
        /\ FreeFlusher \in Flushers /\ Idle(FreeFlusher)
    BY <1>11, FlusherAtLaunch, FreeFlusherIdle DEF HandshakeDone, PhaseInv
  <2> QED
    BY <1>0, <1>11, <2>1
<1>12. CASE Start
  BY <1>0, <1>12 DEF Start, Launch
<1>13. CASE AdapterStep
  <2> HIDE DEF TypeOK, AdapterTypeOK, Goto
  <2>1. ASSUME NEW d \in Callers, Call(d) \/ Decide(d) \/ Notify(d)
        PROVE  P \/ Call(c) \/ Decide(c) \/ Notify(c)
    BY <1>1, <2>1
  <2>2. ASSUME NEW k \in Flushers, FlusherStep(k)
        PROVE  P \/ (c \in Flushers /\ FlusherStep(c))
    BY <1>2, <2>2
  <2>3. c = "loop" \/ c # "loop"
    OBVIOUS
  <2> QED
    BY <1>3, <1>5, <1>6, <1>9, <1>10, <1>11, <1>13, <2>1, <2>2, <2>3, Zenon DEF AdapterStep
<1> QED
  BY <1>7, <1>8, <1>12, <1>13, StepCases

\* Which step changes what the adapter may do with a set.
LEMMA ModeFrame ==
  ASSUME TypeOK, [Next]_vars, ~Crash
  PROVE  /\ \/ UNCHANGED liveControl /\ (Launched' <=> Launched)
            \/ HandshakeDone
            \/ \E r \in Resumes : ResumeRequest(r)
         /\ \/ paused' = paused
            \/ Start \/ Read \/ LoopResponds \/ \E r \in Resumes : ResumeRequest(r)
         /\ "loop" \in pending' => "loop" \in pending \/ Call("loop")
         /\ configured => configured'
<1> USE DEF wireVars, clientVars, setVars, taskVars, callVars, flags, Launched
<1> DEFINE L == UNCHANGED liveControl /\ (Launched' <=> Launched)
           Q == "loop" \in pending' => "loop" \in pending
           R == configured' = configured
<1>1. ASSUME NEW c \in Callers, Call(c) \/ Decide(c) \/ Notify(c)
      PROVE  L /\ R /\ paused' = paused /\ (Q \/ Call("loop"))
  <2>1. L /\ R /\ paused' = paused
    BY <1>1 DEF Call, Decide, Notify
  <2>2. Call(c) => pending' = pending \/ pending' = pending \union {c}
    BY DEF Call
  <2>3. Decide(c) \/ Notify(c) => pending' = pending
    BY DEF Decide, Notify
  <2> QED
    BY <1>1, <2>1, <2>2, <2>3
<1>2. QueryRequest \/ PauseRequest \/ Terminate \/ HandshakeFailed \/ LockBpRequest
        => L /\ R /\ Q /\ paused' = paused
  BY DEF QueryRequest, PauseRequest, Terminate, HandshakeFailed, LockBpRequest
<1>3. ASSUME NEW f \in Files, SetBreakpointsRequest(f) PROVE L /\ R /\ Q /\ paused' = paused
  BY <1>3 DEF SetBreakpointsRequest
<1>4. ASSUME NEW r \in Resumes, ResumeRequest(r) PROVE Q /\ (configured => configured')
  BY <1>4 DEF ResumeRequest
<1>5. LoopResponds => L /\ R /\ Q
  BY DEF LoopResponds
<1>6. ASSUME NEW k \in Flushers, FlusherStep(k) PROVE L /\ R /\ Q /\ paused' = paused
  <2>1. FlushTake(k) \/ FlushReport(k) \/ FlushEnd(k) => L /\ R /\ Q /\ paused' = paused
    BY DEF FlushTake, FlushReport, FlushEnd
  <2>2. ASSUME NEW f \in Files, FlushFile(k, f) PROVE L /\ R /\ Q /\ paused' = paused
    BY <2>2 DEF FlushFile
  <2> QED
    BY <1>6, <2>1, <2>2 DEF FlusherStep
<1>7. Write \/ WriterStops \/ ReaderEnds \/ ReportExit \/ CopyOutput \/ PumpBreakpoints
        => L /\ R /\ Q /\ paused' = paused
  BY DEF Write, WriterStops, ReaderEnds, ReportExit, CopyOutput, PumpBreakpoints
<1>8. Close => L /\ R /\ Q /\ paused' = paused
  BY DEF Close, FailPending
<1>9. PumpReceive => L /\ R /\ Q /\ paused' = paused
  BY DEF PumpReceive
<1>10. Read => L /\ R /\ Q
  BY DEF Read, Deliver, ForwardEvent, NoteStop, AnswerPath
<1>11. HandshakeDone => R /\ Q /\ paused' = paused
  BY DEF HandshakeDone
<1>12. Start => L /\ R /\ Q
  BY DEF Start, Launch
<1>13. ProcessWaited \/ UNCHANGED vars \/ (LuaMoves /\ UNCHANGED adapterVars)
         => L /\ R /\ Q /\ paused' = paused
  BY DEF ProcessWaited, vars, adapterVars
<1> DEFINE D == \/ L \/ HandshakeDone
                \/ \E r \in Resumes : ResumeRequest(r)
           E == \/ paused' = paused
                \/ Start \/ Read \/ LoopResponds \/ \E r \in Resumes : ResumeRequest(r)
           F == "loop" \in pending' => "loop" \in pending \/ Call("loop")
           G == D /\ E /\ F /\ (configured => configured')
<1>14. /\ L /\ R /\ Q /\ E => G
       /\ L /\ R /\ F /\ E => G
       /\ (D /\ E /\ Q /\ (configured => configured')) => G
       /\ paused' = paused => E
       /\ Q => F
  OBVIOUS
<1>15. CASE AdapterStep
  <2>1. ASSUME NEW r \in Resumes, ResumeRequest(r) PROVE D /\ E
    BY <2>1
  <2>2. HandshakeDone => D
    OBVIOUS
  <2>3. Read \/ LoopResponds => E
    OBVIOUS
  <2>4. R => (configured => configured')
    OBVIOUS
  <2>5. ASSUME NEW c \in Callers, Call(c) \/ Decide(c) \/ Notify(c) PROVE G
    BY <1>1, <1>14, <2>5
  <2>6. ASSUME NEW r \in Resumes, ResumeRequest(r) PROVE G
    BY <1>4, <1>14, <2>1, <2>6
  <2>7. HandshakeDone => G
    BY <1>11, <1>14, <2>2, <2>4
  <2>8. Read \/ LoopResponds => G
    BY <1>5, <1>10, <1>14, <2>3
  <2>9. ASSUME NEW k \in Flushers, FlusherStep(k) PROVE G
    BY <1>6, <1>14, <2>9
  <2>10. ASSUME NEW f \in Files, SetBreakpointsRequest(f) PROVE G
    BY <1>3, <1>14, <2>10
  <2>11. QueryRequest \/ PauseRequest \/ Terminate \/ HandshakeFailed \/ LockBpRequest => G
    BY <1>2, <1>14
  <2>12. Write \/ WriterStops \/ ReaderEnds \/ ReportExit \/ CopyOutput
          \/ PumpBreakpoints \/ Close \/ PumpReceive => G
    BY <1>7, <1>8, <1>9, <1>14
  <2>13. G
    <3> HIDE DEF G
    <3> QED
      BY <1>15, <2>5, <2>6, <2>7, <2>8, <2>9, <2>10, <2>11, <2>12, Zenon
         DEF AdapterStep, ClientStep
  <2> QED
    BY <2>13
<1>16. Start => G
  BY <1>12, <1>14
<1>17. ProcessWaited \/ UNCHANGED vars \/ (LuaMoves /\ UNCHANGED adapterVars) => G
  BY <1>13, <1>14
<1>18. AdapterStep => G
  BY <1>15
<1>19. G
  <2> HIDE DEF G
  <2> QED
    BY <1>16, <1>17, <1>18, StepCases, Zenon
<1> QED
  BY <1>19

LEMMA UpStep == ASSUME TypeOK, Up, [Next]_vars PROVE Up'
<1> SUFFICES ASSUME ~eof' PROVE lpc' \notin {"gone", "detached"}
  BY DEF Up
<1>1. ~eof /\ lpc \notin {"gone", "detached"}
  BY EndsForGood DEF Up
<1>2. CASE LuaMoves
  BY <1>2, LuaStaysUp
<1>3. CASE UNCHANGED luaVars
  BY <1>1, <1>3 DEF luaVars
<1>4. CASE Start
  BY <1>4 DEF Start, LuaStart
<1>5. CASE Crash \/ ProcessWaited \/ UNCHANGED vars
  BY <1>3, <1>5 DEF Crash, ProcessWaited, vars
<1> QED
  BY <1>2, <1>3, <1>4, <1>5, StepCases

\* While the stream is up nothing has ended.
LEMMA StaysOpen ==
  ASSUME SessionInv, SessionInv', Up, [Next]_vars, ~eof'
  PROVE  /\ ~eof /\ ~closed /\ ~closed' /\ ~Crash
         /\ Spawned => LuaAlive
         /\ Launched => Spawned
<1>1. TypeOK /\ PhaseInv /\ PhaseInv'
  BY DEF SessionInv
<1>2. Up'
  BY <1>1, UpStep
<1>3. ~eof
  BY <1>1, EndsForGood
<1>4. ~closed
  BY <1>1, <1>3 DEF PhaseInv, Up
<1>5. ~closed'
  BY <1>1, <1>2 DEF PhaseInv, Up
<1>6. ~Crash
  BY DEF Crash
<1> QED
  BY <1>1, <1>3, <1>4, <1>5, <1>6 DEF PhaseInv, Up, LuaAlive

\* No flush calls: it keeps the sets of a blind run, and has none elsewhere.
LEMMA FlushPc ==
  ASSUME TypeOK, PhaseInv, FlushInv, [Next]_vars, ~Crash, NEW k \in Flushers
  PROVE  pc'[k] \notin {"call", "notify"}
<1>0. k \in Callers /\ k # "loop" /\ k # "handshake" /\ pc \in [Callers -> PCs]
  BY FlusherCaller DEF TypeOK, AdapterTypeOK
<1>1. pc[k] \notin {"call", "notify"}
  BY DEF FlushInv
<1>2. ~Call(k) /\ ~Notify(k)
  BY <1>1 DEF Call, Notify
<1>3. Decide(k) => pc'[k] = "await"
  <2>1. Decide(k) => Blind
    BY DEF Decide, FlushInv, Applying
  <2>2. Blind => ~paused /\ ~liveControl
    BY DEF Blind, FlushInv
  <2> QED
    BY <1>0, <2>1, <2>2 DEF Decide, Goto
<1>4. FlusherStep(k) => pc'[k] \in {"next", "decide", "off"}
  BY <1>0 DEF FlusherStep, FlushTake, FlushFile, FlushReport, FlushEnd, Goto
<1> QED
  BY <1>0, <1>1, <1>2, <1>3, <1>4, PcFrame

\* A running program holds the token.
LEMMA RunningHolds ==
  ASSUME TypeOK, ControlInv, ~closed, lpc \in {"run", "poll", "line"} \/ BlindRun
  PROVE  ~paused /\ ~Asked /\ ~Failed /\ Sent = 0
<1>1. Running
  BY DEF BlindRun, Running, LuaAlive, LuaWaits, InCommandLoop
<1> QED
  BY <1>1, TokenOnce

LEMMA ReadStops ==
  ASSUME TypeOK, ControlInv, ~closed, Read
  PROVE  paused' = paused \/ (paused' = TRUE /\ ~paused /\ ~Running)
<1> DEFINE m == Head(protocol)
<1>1. Deliver(m) \/ ForwardEvent(m) \/ AnswerPath(m) => paused' = paused
  BY DEF Deliver, ForwardEvent, AnswerPath
<1>2. CASE NoteStop(m)
  <2>1. protocol # <<>> /\ Head(protocol).kind = "stopped" /\ paused' = TRUE
    BY <1>2 DEF NoteStop, Read
  <2>2. ~paused
    BY <2>1, StopTaken
  <2>3. StopWaits
    <3>1. 1 \in 1 .. Len(protocol) /\ protocol[1] = Head(protocol)
      BY <2>1, HeadAndTail DEF TypeOK, WireTypeOK
    <3> QED
      BY <2>1, <3>1 DEF StopWaits
  <2>4. Sent # 0
    BY <2>3, StopIsSent
  <2> QED
    BY <2>1, <2>2, <2>4, TokenOnce
<1> QED
  BY <1>1, <1>2 DEF Read

\* A blind run stays one until it ends.
LEMMA BlindStays ==
  ASSUME SessionInv, SessionInv', Up, FlushInv, [Next]_vars, ~eof', Blind
  PROVE  Blind' /\ ~paused' /\ BlindRun' /\ req' \notin Resumes
<1>0. /\ TypeOK /\ PhaseInv /\ ControlInv
      /\ ~eof /\ ~closed /\ ~Crash /\ Spawned /\ Launched
  BY StaysOpen DEF SessionInv, Blind
<1>1. ~paused /\ BlindRun /\ req \notin Resumes /\ ~liveControl
  BY DEF FlushInv, Blind
<1>2. \A r \in Resumes : ~ResumeRequest(r)
  BY <1>0, <1>1 DEF ResumeRequest, AnswersPaused, PhaseInv
<1>3. ~Start /\ ~HandshakeDone /\ ~HandshakeFailed
  BY <1>0 DEF Start, Launch, HandshakeDone, HandshakeFailed, PhaseInv
<1>4. UNCHANGED liveControl /\ Launched'
  BY <1>0, <1>2, <1>3, ModeFrame
<1>5. req' = req \/ req' \in {"none", "setBreakpoints", "query", "pause"}
  <2>1. Call("loop") \/ Decide("loop") \/ Notify("loop") \/ LockBpRequest => req' = req
    BY DEF Call, Decide, Notify, LockBpRequest
  <2>2. LoopResponds => req' = "none"
    BY DEF LoopResponds
  <2>3. ClientStep => req' = req \/ req' \in {"setBreakpoints", "query", "pause"}
    BY <1>2 DEF ClientStep, QueryRequest, PauseRequest, Terminate, SetBreakpointsRequest
  <2> QED
    BY <1>0, <1>3, <2>1, <2>2, <2>3, LoopFrame
<1>6. ~paused'
  <2>1. LoopResponds => ~paused'
    BY <1>1 DEF LoopResponds, PausedAfterReply
  <2>2. Read => ~paused'
    BY <1>0, <1>1, ReadStops DEF BlindRun, Running, LuaAlive, LuaWaits, InCommandLoop
  <2> QED
    BY <1>0, <1>1, <1>2, <1>3, <2>1, <2>2, ModeFrame
<1>7. BlindRun'
  <2>1. CASE LuaMoves
    BY <1>1, <2>1, LuaRunsBlind
  <2>2. CASE UNCHANGED luaVars
    BY <1>1, <2>2 DEF BlindRun, luaVars
  <2>3. CASE ProcessWaited \/ UNCHANGED vars
    BY <2>2, <2>3 DEF ProcessWaited, vars
  <2> QED
    BY <1>0, <1>3, <2>1, <2>2, <2>3, StepCases
<1> QED
  BY <1>1, <1>4, <1>5, <1>6, <1>7 DEF Blind, Resumes

\* A blind run begins with the reply to `run`.
LEMMA BlindBegins ==
  ASSUME Live, SessionInv, SessionInv', Up, ModeInv, [Next]_vars, ~eof', ~Blind, Blind'
  PROVE  /\ LoopResponds /\ req = "runNoDebug"
         /\ ~paused' /\ BlindRun' /\ req' \notin Resumes
<1>0. /\ TypeOK /\ PhaseInv /\ ControlInv /\ CallInv
      /\ ~eof /\ ~closed /\ ~Crash /\ (Launched => Spawned) /\ RunInv
  BY StaysOpen DEF SessionInv, ModeInv
<1>1. ~HandshakeDone
  BY DEF HandshakeDone, Blind
<1>2. ASSUME NEW r \in Resumes, ResumeRequest(r) PROVE FALSE
  <2>1. LoopIdle /\ Launched /\ req' = r /\ liveControl' = (liveControl /\ r # "runNoDebug")
    BY <1>2 DEF ResumeRequest
  <2>2. req = "none"
    BY <1>0, <2>1 DEF PhaseInv
  <2> QED
    BY <2>1, <2>2 DEF Blind
<1>3. Launched /\ liveControl' = liveControl
  BY <1>0, <1>1, <1>2, ModeFrame DEF Blind
<1>4. req = "runNoDebug" /\ req' # req
  BY <1>3 DEF Blind
<1>5. LoopResponds
  <2>1. Call("loop") \/ Decide("loop") \/ Notify("loop") \/ LockBpRequest => req' = req
    BY DEF Call, Decide, Notify, LockBpRequest
  <2>2. ~Start /\ ~HandshakeFailed
    BY <1>0, <1>3 DEF Start, Launch, HandshakeFailed, PhaseInv
  <2>3. ~ClientStep
    BY <1>0, <1>4, ClientLoop
  <2> QED
    BY <1>0, <1>1, <1>4, <2>1, <2>2, <2>3, LoopFrame
<1>6. /\ outcome["loop"] \notin {"none", "error"} /\ BlindRun
      /\ paused' = PausedAfterReply /\ req' = "none"
  BY <1>0, <1>4, <1>5 DEF LoopResponds, RunInv
<1>7. ~paused
  BY <1>0, <1>6, RunningHolds
<1>8. UNCHANGED <<lpc, back, noDebug, nest>>
  <2>1. ~(UNCHANGED adapterVars) /\ ~ProcessWaited /\ ~UNCHANGED vars
    BY <1>4 DEF adapterVars, callVars, ProcessWaited, vars
  <2>2. ~Start
    BY <1>0, <1>3 DEF Start, Launch
  <2>3. UNCHANGED luaVars
    BY <1>0, <2>1, <2>2, StepCases
  <2> QED
    BY <2>3 DEF luaVars
<1> QED
  BY <1>4, <1>5, <1>6, <1>7, <1>8 DEF PausedAfterReply, BlindRun, Resumes

\* Elsewhere flushes find nothing: the request loop queues nothing for a stop.
LEMMA FlushesIdle ==
  ASSUME Live, SessionInv, SessionInv', SetsInv, Up, ModeInv, [Next]_vars, ~eof', ~Blind'
  PROVE  /\ pendingBreakpoints' = NoSets
         /\ \A k \in Flushers : queued'[k] = NoSets /\ ~Applying(k)'
<1>0. /\ TypeOK /\ PhaseInv /\ ~eof /\ ~closed /\ ~Crash /\ (Launched => Spawned)
      /\ FlushInv
  BY StaysOpen DEF SessionInv, ModeInv
<1>1. ~Blind
  BY <1>0, BlindStays
<1>2. pendingBreakpoints = NoSets /\ \A k \in Flushers : queued[k] = NoSets /\ ~Applying(k)
  BY <1>0, <1>1 DEF FlushInv
<1>3. pc \in [Callers -> PCs] /\ queued \in [Flushers -> [Files -> Versions]]
  BY <1>0 DEF TypeOK, AdapterTypeOK
<1>4. ASSUME NEW c \in Callers, Decide(c)
      PROVE  /\ UNCHANGED <<pendingBreakpoints, queued>> /\ c = "loop"
             /\ \A k \in Flushers : pc'[k] = pc[k]
  <2>1. c = "loop"
    BY <1>2, <1>4 DEF Decide, Applying, Callers, SetsInv, LoopSet
  <2>2. req = "setBreakpoints"
    BY <1>0, <1>4, <2>1 DEF Decide, TypeOK, AdapterTypeOK
  <2>3. Launched /\ liveControl
    BY <1>0, <1>1, <2>2 DEF FlushInv, Carries, Blind
  <2>4. UNCHANGED <<pendingBreakpoints, queued>>
    BY <1>0, <1>4, <2>3 DEF Decide
  <2>5. \A k \in Flushers : pc'[k] = pc[k]
    BY <1>3, <1>4, <2>1, FlusherCaller DEF Decide, Goto
  <2> QED
    BY <2>1, <2>4, <2>5
<1>5. ASSUME NEW k \in Flushers PROVE /\ \A f \in Files : ~FlushFile(k, f)
                                      /\ FlushTake(k) =>
                                           /\ pendingBreakpoints' = NoSets
                                           /\ queued' = [queued EXCEPT ![k] = NoSets]
                                           /\ pc' = [pc EXCEPT ![k] = "next"]
  BY <1>2 DEF FlushFile, FlushTake, NoSets, Goto
<1>6. ASSUME NEW k \in Flushers, FlushTake(k)
      PROVE  /\ pendingBreakpoints' = NoSets
             /\ \A j \in Flushers : queued'[j] = NoSets /\ ~Applying(j)'
  <2>1. \A j \in Flushers : pc'[j] = pc[j] \/ pc'[j] = "next"
    BY <1>3, <1>5, <1>6, FlusherCaller
  <2> QED
    BY <1>2, <1>3, <1>5, <1>6, <2>1 DEF Applying
<1>7. CASE /\ UNCHANGED <<pendingBreakpoints, queued>>
           /\ \A k \in Flushers : Applying(k)' => Applying(k) /\ job'[k] = job[k]
  BY <1>2, <1>7
<1>8. ASSUME NEW c \in Callers, Decide(c)
      PROVE  /\ pendingBreakpoints' = NoSets
             /\ \A k \in Flushers : queued'[k] = NoSets /\ ~Applying(k)'
  BY <1>2, <1>4, <1>8 DEF Applying
<1> QED
  BY <1>0, <1>5, <1>6, <1>7, <1>8, HeldFrame

\* The handshake ends with the launch.
LEMMA HandshakeOver ==
  ASSUME SessionInv, SessionInv', Up, FlushInv, [Next]_vars, ~eof', Launched'
  PROVE  pc'["handshake"] = "off"
<1>0. TypeOK /\ PhaseInv /\ ~Crash /\ (Launched => Spawned)
  BY StaysOpen DEF SessionInv
<1>1. "handshake" \in Callers /\ pc \in [Callers -> PCs] /\ "handshake" \notin Flushers
  BY <1>0, CallerNames, FlusherCaller DEF TypeOK, AdapterTypeOK
<1>2. CASE HandshakeDone
  <2>1. FreeFlusher \in Flushers
    BY <1>0, <1>2, FlusherAtLaunch, FreeFlusherIdle DEF HandshakeDone, PhaseInv
  <2> QED
    BY <1>1, <1>2, <2>1 DEF HandshakeDone
<1>3. CASE ~HandshakeDone
  <2>1. Launched
    BY <1>0, <1>3, ModeFrame DEF ResumeRequest
  <2>2. pc["handshake"] = "off" /\ ~Start
    BY <1>0, <2>1 DEF FlushInv, Start, Launch
  <2>3. ~Call("handshake") /\ ~Decide("handshake") /\ ~Notify("handshake")
    BY <2>2 DEF Call, Decide, Notify
  <2> QED
    BY <1>0, <1>1, <1>3, <2>2, <2>3, PcFrame
<1> QED
  BY <1>2, <1>3

\* A set the request loop calls with finds the program paused.
LEMMA CarriesStep ==
  ASSUME ~EarlySets, SessionInv, SessionInv', Up, FlushInv, [Next]_vars, ~eof', Carries'
  PROVE  Launched' /\ (pc'["loop"] = "call" \/ "loop" \in pending' => paused')
<1>0. /\ TypeOK /\ TypeOK' /\ CallInv /\ PhaseInv /\ ControlInv
      /\ ~closed /\ ~Crash /\ (Launched => Spawned)
  BY StaysOpen DEF SessionInv
<1>1. "loop" \in Callers /\ pc \in [Callers -> PCs] /\ paused \in BOOLEAN
  BY <1>0, CallerNames DEF TypeOK, AdapterTypeOK
<1>2. CASE ClientStep
  <2>1. PICK f \in Files : SetBreakpointsRequest(f)
    BY <1>0, <1>2, ClientLoop DEF Carries
  <2>2. Launched' /\ pc'["loop"] = "lock" /\ pending' = pending /\ pc["loop"] = "idle"
    BY <1>1, <2>1 DEF SetBreakpointsRequest, Launched, LoopIdle, Goto, taskVars
  <2>3. "loop" \notin pending
    BY <1>0, <1>1, <2>2 DEF CallInv, CallSlot
  <2> QED
    BY <2>2, <2>3
<1>3. ~Start /\ ~HandshakeDone /\ ~HandshakeFailed /\ ~LoopResponds
  BY DEF Carries, Start, Launch, HandshakeDone, HandshakeFailed, LoopResponds
<1>4. CASE ~ClientStep
  <2>1. Carries
    <3>1. Call("loop") \/ Decide("loop") \/ Notify("loop") \/ LockBpRequest => req' = req
      BY DEF Call, Decide, Notify, LockBpRequest
    <3> QED
      BY <1>0, <1>3, <1>4, <3>1, LoopFrame DEF Carries
  <2>2. Launched /\ (pc["loop"] = "call" \/ "loop" \in pending => paused)
    BY <2>1 DEF FlushInv
  <2>3. \A r \in Resumes : ~ResumeRequest(r)
    BY <1>4 DEF ClientStep
  <2>4. Launched'
    BY <1>0, <1>3, <2>2, <2>3, ModeFrame
  <2>5. paused => paused'
    BY <1>0, <1>1, <1>3, <2>3, ReadStops, ModeFrame
  <2>6. pc'["loop"] = "call" => paused
    <3>1. Decide("loop") => (pc'["loop"] = "call" => paused)
      BY <1>1 DEF Decide, Goto
    <3>2. Call("loop") \/ Notify("loop") => pc'["loop"] = "await"
      BY <1>1 DEF Call, Notify, Goto
    <3>3. LockBpRequest => pc'["loop"] = "decide"
      BY <1>1 DEF LockBpRequest, Goto
    <3> QED
      BY <1>0, <1>1, <1>3, <1>4, <2>2, <3>1, <3>2, <3>3, PcFrame, FlusherCaller
  <2>7. "loop" \in pending' => paused
    <3>1. Call("loop") => pc["loop"] = "call"
      BY DEF Call
    <3> QED
      BY <1>0, <2>2, <3>1, ModeFrame
  <2> QED
    BY <2>4, <2>5, <2>6, <2>7
<1> QED
  BY <1>2, <1>4

\* What the Lua thread finds on the stream.
LEMMA CommandFound ==
  ASSUME SessionInv, ~closed, HasCommand
  PROVE  /\ NextCommand \in Commands
         /\ Sent = 0 => NextCommand.cmd \notin Resumes
         /\ NextCommand.by = "loop" => NextCommand.cmd = req /\ "loop" \in pending
         /\ NextCommand.cmd \in Resumes => NextCommand.by = "loop"
<1>0. TypeOK /\ AddressInv /\ CallInv /\ ControlInv
  BY DEF SessionInv
<1>1. NextCommand \in Commands
  BY <1>0, TakenFrom DEF TypeOK, WireTypeOK, LuaTypeOK
<1>2. NextCommand \in AddressedCommands
  BY <1>0, TakenFrom DEF AddressInv
<1>3. NextCommand \in OwnCommands
  BY <1>0, TakenFrom DEF ControlInv
<1>4. Sent = 0 => NextCommand \notin ResumeCommands
  BY <1>0, StopIsSent
<1>5. NextCommand.by = "loop" => "loop" \in pending
  <2> SUFFICES ASSUME "loop" \notin pending PROVE NextCommand.by # "loop"
    OBVIOUS
  <2> DEFINE S == {m \in Commands : m.by # "loop"}
  <2>1. stdin \in Seq(S) /\ queuedCommands \in Seq(S)
    BY <1>0, LoopFree
  <2>2. NextCommand \in S
    BY <2>1, TakenFrom
  <2> QED
    BY <2>2
<1> QED
  BY <1>1, <1>2, <1>3, <1>4, <1>5 DEF ResumeCommands, AddressedCommands, OwnCommands

\* A reply to a call of the request loop is out of the question between calls.
LEMMA NoneForLoop ==
  ASSUME SessionInv, ~closed, "loop" \notin pending
  PROVE  protocol \in Seq(Unaddressed)
<1>1. protocol \in Seq(Messages) /\ Count(protocol, RepliesTo("loop")) = 0
  BY LoopFree, \A m \in Commands : m.by # "loop" => m \in Commands
     DEF SessionInv, TypeOK, WireTypeOK
<1>2. \A i \in 1 .. Len(protocol) : protocol[i] \in Messages /\ protocol[i] \notin RepliesTo("loop")
  BY <1>1, CountNone
<1>3. \A i \in 1 .. Len(protocol) : protocol[i] \in Unaddressed
  BY <1>2 DEF RepliesTo, Unaddressed
<1> QED
  BY <1>1, <1>3

\* The messages the Lua thread writes itself.
LEMMA PlainWritten ==
  /\ Stopped \in Unrefused /\ LuaOutput \in Unrefused
  /\ Message("reply", "loop", NoFile, 0) \in Unrefused
  /\ \A f \in Files : Message("resolvePath", Nobody, f, 0) \in Unrefused
  /\ Nobody \notin Callers /\ Nobody # "loop"
<1>1. Nobody \notin Callers /\ Nobody # "loop"
  BY NobodyIsNoCaller, CallerNames
<1> QED
  BY <1>1, PlainMessages DEF Unrefused, Stopped, LuaOutput, Message

\* A call of the request loop that is not a query or a resume of a coroutine
\* is refused by no command loop.
LEMMA UnrefusedStep ==
  ASSUME SessionInv, SessionInv', Up, FlushInv, RunInv, [Next]_vars, ~eof',
         req' \in {"setBreakpoints", "runNoDebug"}
  PROVE  protocol' \in Seq(Unrefused)
<1>0. /\ TypeOK /\ TypeOK' /\ CallInv /\ PhaseInv /\ ControlInv
      /\ ~closed /\ ~Crash /\ (Launched => Spawned)
  BY StaysOpen DEF SessionInv
<1>1. CASE LuaMoves /\ UNCHANGED adapterVars
  <2>1. req' = req /\ protocol \in Seq(Unrefused)
    BY <1>1 DEF adapterVars, callVars, FlushInv
  <2>2. ASSUME NEW kind \in {"reply", "error"}, NEW pre, Serves(kind, pre)
        PROVE  protocol' \in Seq(Unrefused)
    <3>1. HasCommand /\ Handles(kind, NextCommand)
      BY <2>2 DEF Serves
    <3>2. /\ NextCommand \in Commands
          /\ NextCommand.by = "loop" => NextCommand.cmd = req /\ "loop" \in pending
      BY <1>0, <3>1, CommandFound
    <3>3. kind = "error" => NextCommand.by # "loop"
      <4> SUFFICES ASSUME kind = "error", NextCommand.by = "loop" PROVE FALSE
        OBVIOUS
      <4>1. lpc = "poll"
        BY <2>1, <3>1, <3>2 DEF Handles
      <4>2. ~paused
        BY <1>0, <4>1, RunningHolds
      <4>3. req = "runNoDebug"
        BY <2>1, <3>2, <4>2 DEF FlushInv, Carries
      <4> QED
        BY <4>1, <4>3 DEF RunInv, BlindRun
    <3>4. \A k \in {"reply", "error", "breakpointsChanged"} : \A to \in Callers \union {Nobody} :
            Message(k, to, NextCommand.file, NextCommand.ver) \in Messages
      BY <3>2, MessageType DEF Commands, MessageKinds
    <3>5. NextCommand.by \in Callers \union {Nobody}
      BY <3>2 DEF Commands
    <3>6. /\ Message(kind, NextCommand.by, NextCommand.file, NextCommand.ver) \in Unrefused
          /\ Message("breakpointsChanged", Nobody, NextCommand.file, NextCommand.ver) \in Unrefused
      BY <3>3, <3>4, <3>5 DEF Unrefused, Message
    <3> QED
      BY <2>1, <2>2, <3>6, ServedMessages
  <2> QED
    BY <1>0, <1>1, <2>1, <2>2, ShapeOfLua, WrittenMessages, PlainWritten
<1>2. ASSUME req' = req, UNCHANGED protocol \/ AdapterStep PROVE protocol' \in Seq(Unrefused)
  <2>1. protocol \in Seq(Unrefused)
    BY <1>2 DEF FlushInv
  <2> QED
    BY <1>2, <2>1, AdapterReads
<1>3. CASE ClientStep
  <2>1. pc["loop"] = "idle" /\ "loop" \in Callers
    BY <1>0, <1>3, ClientLoop, CallerNames
  <2>2. protocol \in Seq(Unaddressed)
    BY <1>0, <2>1, NoneForLoop DEF CallInv, CallSlot
  <2>3. protocol' = protocol
    BY <1>3 DEF ClientStep, QueryRequest, PauseRequest, Terminate, SetBreakpointsRequest,
                ResumeRequest, wireVars
  <2>4. Unaddressed \subseteq Unrefused
    BY DEF Unaddressed, Unrefused
  <2> QED
    BY <2>2, <2>3, <2>4
<1>4. ~Start /\ ~HandshakeDone /\ ~HandshakeFailed /\ ~LoopResponds
  BY DEF Start, Launch, HandshakeDone, HandshakeFailed, LoopResponds
<1>5. CASE AdapterStep /\ ~ClientStep
  <2>1. Call("loop") \/ Decide("loop") \/ Notify("loop") \/ LockBpRequest => req' = req
    BY DEF Call, Decide, Notify, LockBpRequest
  <2>2. req' = req
    BY <1>0, <1>4, <1>5, <2>1, LoopFrame
  <2> QED
    BY <1>2, <1>5, <2>2
<1>6. CASE ProcessWaited \/ UNCHANGED vars
  <2>1. UNCHANGED <<req, protocol>>
    BY <1>6 DEF ProcessWaited, vars, adapterVars, callVars, wireVars
  <2> QED
    BY <1>2, <2>1
<1> QED
  BY <1>0, <1>1, <1>3, <1>4, <1>5, <1>6, StepCases

LEMMA StartingBefore ==
  ASSUME TypeOK, PhaseInv, [Next]_vars, ~Crash, Starting' PROVE Starting
<1>0. "loop" \in Callers /\ pc \in [Callers -> PCs]
  BY CallerNames DEF TypeOK, AdapterTypeOK
<1> SUFFICES ASSUME req' = "runNoDebug", pc'["loop"] = "call", configured
             PROVE  req = "runNoDebug" /\ pc["loop"] = "call"
  BY ModeFrame DEF Starting
<1>1. ~ClientStep
  <2>1. ~ResumeRequest("runNoDebug")
    BY DEF ResumeRequest
  <2> QED
    BY <2>1, ClientLoop DEF ClientStep, QueryRequest, PauseRequest, Terminate,
                            SetBreakpointsRequest, ResumeRequest
<1>2. ~Start /\ ~HandshakeDone /\ ~HandshakeFailed /\ ~LoopResponds
  BY DEF Start, Launch, HandshakeDone, HandshakeFailed, LoopResponds
<1>3. ~Call("loop") /\ ~Notify("loop")
  BY <1>0 DEF Call, Notify, Goto
<1>4. ~LockBpRequest
  BY <1>0 DEF LockBpRequest, Goto
<1>5. ~Decide("loop")
  BY DEF Decide, TypeOK, AdapterTypeOK
<1> QED
  BY <1>1, <1>2, <1>3, <1>4, <1>5, LoopFrame

\* Before the program runs, the control is the adapter's.
LEMMA StartingHolds ==
  ASSUME SessionInv, ~closed, Starting, Spawned PROVE Sent = 0
<1>1. paused \/ Asked
  BY DEF Starting, SessionInv, PhaseInv, Asked, Resumes
<1> QED
  BY <1>1, TokenOnce DEF SessionInv

\* Before the program runs it asks for nothing, and nothing is sent to it but
\* calls.
LEMMA BootStep ==
  ASSUME SessionInv, SessionInv', SetsInv, Up, ModeInv, [Next]_vars, ~eof' PROVE BootInv'
<1>0. /\ TypeOK /\ TypeOK' /\ CallInv /\ PhaseInv /\ ControlInv
      /\ ~eof /\ ~closed /\ ~Crash /\ (Launched => Spawned)
      /\ FlushInv /\ BootInv
  BY StaysOpen DEF SessionInv, ModeInv
<1> SUFFICES ASSUME Starting'
             PROVE  /\ lpc' \in {"off", "boot"} /\ nest' = 0 /\ pc'["loop"] # "notify"
                    /\ protocol' \in Seq(NoPathAsked) /\ commands' \in Seq(WithCaller)
  BY DEF BootInv, Starting
<1>1. Starting
  BY <1>0, StartingBefore
<1>2. /\ lpc \in {"off", "boot"} /\ nest = 0 /\ pc["loop"] # "notify"
      /\ protocol \in Seq(NoPathAsked) /\ commands \in Seq(WithCaller)
  BY <1>0, <1>1 DEF BootInv, Starting
<1>3. "loop" \in Callers /\ pc \in [Callers -> PCs]
  BY <1>0, CallerNames DEF TypeOK, AdapterTypeOK
<1>4. CASE LuaMoves /\ UNCHANGED adapterVars
  <2>1. lpc = "boot" /\ pc' = pc /\ commands' = commands
    BY <1>2, <1>4, LuaLives DEF LuaAlive, adapterVars, callVars
  <2>2. Sent = 0
    BY <1>0, <1>1, <2>1, StartingHolds DEF PhaseInv
  <2>3. HasCommand /\ NextCommand.cmd \notin Resumes /\ NextCommand \in Commands
    BY <1>0, <1>4, <2>1, <2>2, LuaBoots, CommandFound
  <2>4. lpc' = "boot" /\ nest' = nest
    BY <1>0, <1>4, <2>1, <2>3, LuaBoots
  <2>5. PICK kind \in {"reply", "error"}, pre \in {<<>>, Notice(NextCommand)} : Serves(kind, pre)
    BY <1>0, <1>4, <2>1, LuaBoots DEF Serves
  <2>6. \A k \in {"reply", "error", "breakpointsChanged"} : \A to \in Callers \union {Nobody} :
          Message(k, to, NextCommand.file, NextCommand.ver) \in NoPathAsked
    BY <2>3, MessageType DEF Commands, MessageKinds, NoPathAsked, Message
  <2>7. protocol' \in Seq(NoPathAsked)
    BY <1>2, <2>3, <2>5, <2>6, ServedMessages DEF Commands
  <2> QED
    BY <1>2, <2>1, <2>4, <2>7
<1>5. CASE Start
  <2>1. lpc' = "boot" /\ UNCHANGED <<nest, protocol, commands>>
    BY <1>5 DEF Start, LuaStart, Launch, wireVars
  <2>2. pc'["loop"] # "notify"
    BY <1>3, <1>5, CallerNames DEF Start, Launch
  <2> QED
    BY <1>2, <2>1, <2>2
<1>6. CASE AdapterStep /\ UNCHANGED luaVars
  <2>1. protocol' \in Seq(NoPathAsked)
    BY <1>2, <1>6, AdapterReads
  <2>2. pc'["loop"] # "notify"
    <3>1. ClientStep => pc'["loop"] # "notify"
      <4>1. ASSUME PauseRequest PROVE FALSE
        <5>1. ~paused /\ Spawned /\ pc["loop"] = "idle"
          BY <4>1 DEF PauseRequest, LoopIdle
        <5> QED
          BY <1>0, <1>1, <5>1 DEF Starting, PhaseInv
      <4>2. ASSUME NEW r \in Resumes, ResumeRequest(r) PROVE pc'["loop"] # "notify"
        BY <1>3, <4>2 DEF ResumeRequest, Goto
      <4>3. ASSUME NEW f \in Files, SetBreakpointsRequest(f) PROVE pc'["loop"] # "notify"
        BY <1>3, <4>3 DEF SetBreakpointsRequest, Goto
      <4>4. QueryRequest \/ Terminate => pc'["loop"] # "notify"
        BY <1>3 DEF QueryRequest, Terminate, Goto
      <4> QED
        BY <4>1, <4>2, <4>3, <4>4 DEF ClientStep
    <3>2. Decide("loop") => pc'["loop"] # "notify"
      <4> SUFFICES ASSUME Decide("loop") PROVE pc'["loop"] # "notify"
        OBVIOUS
      <4>1. pc["loop"] = "decide" /\ req = "setBreakpoints"
        BY <1>0 DEF Decide, TypeOK, AdapterTypeOK
      <4>2. Launched /\ Spawned
        BY <1>0, <4>1 DEF FlushInv, Carries
      <4>3. paused
        BY <1>0, <1>1, <4>1, <4>2 DEF Starting, PhaseInv
      <4> QED
        BY <1>3, <4>2, <4>3 DEF Decide, Goto
    <3>3. Call("loop") \/ Notify("loop") => pc'["loop"] = "await"
      BY <1>3 DEF Call, Notify, Goto
    <3>4. HandshakeDone => pc'["loop"] # "notify"
      <4>1. HandshakeDone => FreeFlusher \in Flushers
        BY <1>0, FlusherAtLaunch, FreeFlusherIdle DEF HandshakeDone, PhaseInv
      <4> QED
        BY <1>3, <4>1, FlusherCaller, CallerNames DEF HandshakeDone
    <3>5. HandshakeFailed \/ LockBpRequest \/ LoopResponds => pc'["loop"] # "notify"
      BY <1>3 DEF HandshakeFailed, LockBpRequest, LoopResponds, Goto
    <3>6. Start => pc'["loop"] # "notify"
      BY <1>3, CallerNames DEF Start, Launch
    <3> QED
      BY <1>0, <1>2, <1>3, <3>1, <3>2, <3>3, <3>4, <3>5, <3>6, PcFrame, FlusherCaller
  <2>3. commands' \in Seq(WithCaller)
    <3>1. ASSUME NEW e, Queues(e) PROVE e \in WithCaller
      <4>1. e \in Commands /\ commands' = Append(commands, e)
        BY <1>0, <3>1, QueuedChannels DEF Queues
      <4>2. ASSUME NEW c \in Callers, Call(c), e = CommandOf(c) PROVE e.by # Nobody
        BY <4>2, NobodyIsNoCaller DEF CommandOf, Command
      <4>3. ASSUME NEW c \in Callers, Notify(c) PROVE FALSE
        BY <1>0, <1>2, <4>3 DEF Notify, Callers, FlushInv, SetsInv, LoopSet
      <4>4. ~Read
        <5> DEFINE m == Head(protocol)
        <5>1. commands' # commands
          BY <1>0, <4>1 DEF TypeOK, AdapterTypeOK
        <5>2. ASSUME Read PROVE m.kind = "resolvePath" /\ protocol # <<>>
          <6>1. ~Deliver(m) /\ ~ForwardEvent(m) /\ ~NoteStop(m)
            BY <5>1 DEF Deliver, ForwardEvent, NoteStop
          <6> QED
            BY <5>2, <6>1 DEF Read, AnswerPath
        <5> HIDE DEF m
        <5>3. protocol # <<>> => m \in NoPathAsked
          BY <1>2, HeadAndTail DEF m
        <5> QED
          BY <5>2, <5>3 DEF NoPathAsked
      <4> QED
        BY <3>1, <4>1, <4>2, <4>3, <4>4 DEF Queues, WithCaller
    <3>2. ASSUME NEW e, Queues(e) PROVE commands' \in Seq(WithCaller)
      BY <1>2, <3>1, <3>2, Appended DEF Queues
    <3>3. Moves => commands' \in Seq(WithCaller)
      BY <1>2, HeadAndTail DEF Moves
    <3> QED
      BY <1>2, <1>6, <3>2, <3>3, AdapterChannels
  <2> QED
    BY <1>2, <1>6, <2>1, <2>2, <2>3 DEF luaVars
<1>7. CASE ProcessWaited \/ UNCHANGED vars
  BY <1>2, <1>7 DEF ProcessWaited, vars, adapterVars, callVars, wireVars, luaVars
<1> QED
  BY <1>0, <1>4, <1>5, <1>6, <1>7, StepCases

\* No command waits for the writer when `run` is sent.
LEMMA RunFindsRoom ==
  ASSUME SessionInv, ~closed, FlushInv, BootInv, req = "runNoDebug", Call("loop")
  PROVE  ~Refused
<1>0. TypeOK /\ CallInv /\ PhaseInv /\ "loop" \in Callers /\ pc["loop"] = "call"
  BY CallerNames DEF SessionInv, Call
<1>1. commands \in Seq(WithCaller) /\ commands \in Seq(Commands)
  BY <1>0 DEF BootInv, Starting, TypeOK, AdapterTypeOK
<1>2. Launched
  BY <1>0 DEF PhaseInv, Resumes
<1>3. ASSUME NEW c \in Callers PROVE c \notin pending
  <2>1. c \in pending => pc[c] = "await"
    BY <1>0, <1>3 DEF CallInv, CallSlot
  <2>2. CASE c = "loop"
    BY <1>0, <2>1, <2>2
  <2>3. CASE c = "handshake"
    BY <1>2, <2>1, <2>3 DEF FlushInv
  <2>4. CASE c \in Flushers
    <3>1. ~Blind
      BY DEF Blind
    <3> QED
      BY <2>1, <2>4, <3>1 DEF FlushInv, Applying
  <2> QED
    BY <2>2, <2>3, <2>4 DEF Callers
<1>4. ASSUME commands # <<>> PROVE FALSE
  <2>1. Head(commands) \in WithCaller /\ 1 \in 1 .. Len(commands) /\ commands[1] = Head(commands)
    BY <1>1, <1>4
  <2> DEFINE c == Head(commands).by
  <2>2. c \in Callers
    BY <2>1 DEF WithCaller, Commands
  <2>3. Head(commands) \in CallsOf(c)
    BY <2>1 DEF CallsOf, WithCaller
  <2> HIDE DEF c
  <2>4. Count(commands, CallsOf(c)) # 0
    BY <1>1, <2>1, <2>3, CountNone
  <2>5. Owed(c) = 0
    BY <1>0, <1>3, <2>2 DEF CallInv, CallOwed
  <2>6. /\ Count(commands, CallsOf(c)) \in Nat /\ Count(stdin, CallsOf(c)) \in Nat
        /\ Count(queuedCommands, CallsOf(c)) \in Nat /\ Count(protocol, RepliesTo(c)) \in Nat
    BY <1>0, CountsOfSession
  <2>7. One(c = "loop" /\ Resolving) \in 0 .. 1
    BY OneIs
  <2> HIDE DEF Resolving
  <2> QED
    BY <2>4, <2>5, <2>6, <2>7, NoneLeft DEF Owed, Transit
<1> QED
  BY <1>4, AdapterAssumption DEF Refused, HasRoom

\* The result the request loop waits for changes with its reply only.
LEMMA OutcomeFrame ==
  ASSUME SessionInv, SessionInv', Up, [Next]_vars, ~eof', Launched, ~LoopResponds,
         ~Call("loop"), ~Decide("loop"), ~Notify("loop")
  PROVE  \/ outcome'["loop"] = outcome["loop"]
         \/ /\ Read /\ protocol # <<>> /\ Head(protocol).to = "loop"
            /\ outcome'["loop"] = IF Head(protocol).kind = "error" THEN "error" ELSE "ok"
<1>0. /\ TypeOK /\ PhaseInv /\ ~closed /\ ~closed' /\ ~Crash /\ (Launched => Spawned)
  BY StaysOpen DEF SessionInv
<1>1. "loop" \in Callers /\ outcome \in [Callers -> Outcomes] /\ pc \in [Callers -> PCs]
  BY <1>0, CallerNames DEF TypeOK, AdapterTypeOK
<1>3. ASSUME NEW c \in Callers, Call(c) \/ Decide(c) \/ Notify(c)
      PROVE outcome'["loop"] = outcome["loop"]
  <2>1. c # "loop"
    BY <1>3
  <2> QED
    BY <1>1, <1>3, <2>1 DEF Call, Decide, Notify, Finish
<1>4. CASE Read
  <2> DEFINE m == Head(protocol)
  <2>1. ForwardEvent(m) \/ NoteStop(m) \/ AnswerPath(m) => outcome' = outcome
    BY DEF ForwardEvent, NoteStop, AnswerPath
  <2>2. Deliver(m) => \/ outcome'["loop"] = outcome["loop"]
                      \/ /\ m.to = "loop"
                         /\ outcome'["loop"] = IF m.kind = "error" THEN "error" ELSE "ok"
    BY <1>1 DEF Deliver, Finish
  <2> QED
    BY <1>4, <2>1, <2>2 DEF Read
<1>5. ASSUME NEW k \in Flushers, FlusherStep(k) PROVE outcome'["loop"] = outcome["loop"]
  <2>1. FlushTake(k) \/ (\E f \in Files : FlushFile(k, f)) \/ FlushEnd(k) => outcome' = outcome
    BY DEF FlushTake, FlushFile, FlushEnd
  <2>2. FlushReport(k) => outcome' = [outcome EXCEPT ![k] = "none"]
    BY DEF FlushReport, Finish
  <2> QED
    BY <1>1, <1>5, <2>1, <2>2, FlusherCaller DEF FlusherStep
<1>6. ~Close
  BY <1>0 DEF Close
<1>7. ~Start /\ ~HandshakeDone /\ ~HandshakeFailed
  BY <1>0 DEF Start, Launch, HandshakeDone, HandshakeFailed, PhaseInv
<1>8. ClientStep => outcome' = outcome
  BY DEF ClientStep, QueryRequest, PauseRequest, Terminate, SetBreakpointsRequest, ResumeRequest
<1>9. Write \/ WriterStops \/ ReaderEnds \/ ReportExit \/ CopyOutput \/ PumpReceive
      \/ PumpBreakpoints \/ LockBpRequest => outcome' = outcome
  BY DEF Write, WriterStops, ReaderEnds, ReportExit, CopyOutput, PumpReceive, PumpBreakpoints,
         LockBpRequest, callVars
<1>10. UNCHANGED adapterVars \/ ProcessWaited \/ UNCHANGED vars => outcome' = outcome
  BY DEF adapterVars, callVars, ProcessWaited, vars
<1>11. AdapterStep => \/ outcome'["loop"] = outcome["loop"]
                      \/ Read
  BY <1>3, <1>5, <1>6, <1>7, <1>8, <1>9, Zenon DEF AdapterStep
<1> QED
  BY <1>0, <1>4, <1>7, <1>10, <1>11, StepCases

\* A run without debugging is served, and succeeds.
LEMMA RunStep ==
  ASSUME SessionInv, SessionInv', Up, ModeInv, [Next]_vars, ~eof' PROVE RunInv'
<1> SUFFICES ASSUME req' = "runNoDebug" PROVE RunInv'
  BY DEF RunInv
<1>0. /\ TypeOK /\ TypeOK' /\ CallInv /\ PhaseInv /\ ControlInv
      /\ ~eof /\ ~closed /\ ~Crash /\ (Spawned => LuaAlive) /\ (Launched => Spawned)
      /\ FlushInv /\ BootInv /\ RunInv
  BY StaysOpen DEF SessionInv, ModeInv
<1>1. "loop" \in Callers
  BY CallerNames
<1>2. CASE req # "runNoDebug"
  <2>1. ~Start /\ ~HandshakeDone /\ ~HandshakeFailed /\ ~LoopResponds
    BY DEF Start, Launch, HandshakeDone, HandshakeFailed, LoopResponds
  <2>2. Call("loop") \/ Decide("loop") \/ Notify("loop") \/ LockBpRequest => req' = req
    BY DEF Call, Decide, Notify, LockBpRequest
  <2>3. ClientStep
    BY <1>0, <1>2, <2>1, <2>2, LoopFrame
  <2>4. ResumeRequest("runNoDebug")
    BY <1>0, <2>3, ClientLoop DEF ClientStep, QueryRequest, PauseRequest, Terminate,
                               SetBreakpointsRequest, ResumeRequest
  <2>5. ~configured /\ pc["loop"] = "idle" /\ Launched
    BY <2>4 DEF ResumeRequest, LoopIdle
  <2>6. UNCHANGED <<outcome, protocol>>
    BY <2>4 DEF ResumeRequest, wireVars
  <2>7. outcome["loop"] = "none" /\ "loop" \notin pending
    BY <1>0, <1>1, <2>5 DEF CallInv, CallSlot
  <2>8. protocol \in Seq(Unaddressed)
    BY <1>0, <2>7, NoneForLoop
  <2>9. lpc = "boot" /\ nest = 0
    BY <1>0, <2>5 DEF BootInv, Starting, LuaAlive
  <2>10. UNCHANGED <<lpc, nest>>
    <3>1. ~UNCHANGED adapterVars /\ ~ProcessWaited /\ ~UNCHANGED vars
      BY <1>2 DEF adapterVars, callVars, ProcessWaited, vars
    <3> QED
      BY <1>0, <2>1, <3>1, StepCases DEF luaVars
  <2> QED
    BY <2>6, <2>7, <2>8, <2>9, <2>10 DEF RunInv
<1>3. CASE req = "runNoDebug"
  <2>0. /\ nest = 0 /\ (lpc = "boot" \/ BlindRun)
        /\ outcome["loop"] # "error"
        /\ lpc = "boot" => outcome["loop"] = "none" /\ protocol \in Seq(Unaddressed)
        /\ protocol \in Seq(Unrefused)
    BY <1>0, <1>3 DEF RunInv, FlushInv
  <2>1. ~LoopResponds /\ ~Decide("loop") /\ ~Notify("loop") /\ Launched
    BY <1>0, <1>3 DEF LoopResponds, Decide, Notify, TypeOK, AdapterTypeOK, PhaseInv, Resumes
  <2>2. outcome'["loop"] # "error" /\ (lpc = "boot" => outcome'["loop"] = "none")
    <3>1. protocol # <<>> => Head(protocol) \in Unrefused
                             /\ (lpc = "boot" => Head(protocol) \in Unaddressed)
      BY <2>0, HeadAndTail
    <3>2. Call("loop") => outcome' = outcome
      BY <1>0, <1>3, RunFindsRoom DEF Call
    <3> QED
      BY <2>0, <2>1, <3>1, <3>2, OutcomeFrame DEF Unrefused, Unaddressed
  <2>3. CASE LuaMoves /\ UNCHANGED adapterVars
    <3>1. CASE BlindRun
      <4>1. BlindRun'
        BY <2>3, <3>1, LuaRunsBlind
      <4> QED
        BY <2>2, <4>1 DEF RunInv, BlindRun
    <3>2. CASE lpc = "boot"
      <4>1. HasCommand /\ nest' = nest
        BY <1>0, <2>3, <3>2, LuaBoots
      <4>2. /\ NextCommand \in Commands
            /\ NextCommand.by = "loop" => NextCommand.cmd = "runNoDebug"
            /\ NextCommand.cmd \in Resumes => NextCommand.by = "loop"
        BY <1>0, <1>3, <4>1, CommandFound
      <4>3. CASE lpc' = "run" /\ NextCommand.cmd \in Resumes
                 /\ (NextCommand.cmd = "runNoDebug" => noDebug')
        BY <2>0, <2>2, <3>2, <4>1, <4>2, <4>3 DEF RunInv, BlindRun
      <4>4. CASE lpc' = "boot" /\ NextCommand.cmd \notin {"run", "runNoDebug", "resume"}
        <5>1. NextCommand.by # "loop"
          BY <4>2, <4>4
        <5>2. PICK kind \in {"reply", "error"}, pre \in {<<>>, Notice(NextCommand)} :
                     Serves(kind, pre)
          BY <1>0, <2>3, <3>2, LuaBoots DEF Serves
        <5>3. \A k \in {"reply", "error", "breakpointsChanged"} : \A to \in Callers \union {Nobody} :
                Message(k, to, NextCommand.file, NextCommand.ver) \in Messages
          BY <4>2, MessageType DEF Commands, MessageKinds
        <5>4. NextCommand.by \in Callers \union {Nobody}
          BY <4>2 DEF Commands
        <5>5. /\ Message(kind, NextCommand.by, NextCommand.file, NextCommand.ver) \in Unaddressed
              /\ Message("breakpointsChanged", Nobody, NextCommand.file, NextCommand.ver)
                   \in Unaddressed
          BY <5>1, <5>3, <5>4, PlainWritten DEF Unaddressed, Message
        <5>6. protocol' \in Seq(Unaddressed)
          BY <2>0, <3>2, <5>2, <5>5, ServedMessages
        <5> QED
          BY <2>0, <2>2, <3>2, <4>1, <4>4, <5>6 DEF RunInv
      <4> QED
        BY <1>0, <2>3, <3>2, <4>3, <4>4, LuaBoots
    <3> QED
      BY <2>0, <3>1, <3>2
  <2>4. ASSUME UNCHANGED luaVars, UNCHANGED protocol \/ AdapterStep PROVE RunInv'
    <3>1. UNCHANGED <<nest, lpc, noDebug, back>>
      BY <2>4 DEF luaVars
    <3>2. lpc = "boot" => protocol' \in Seq(Unaddressed)
      BY <2>0, <2>4, AdapterReads
    <3> QED
      BY <2>0, <2>2, <3>1, <3>2 DEF RunInv, BlindRun
  <2>5. ~Start
    BY <1>3 DEF Start, Launch
  <2>6. ProcessWaited \/ UNCHANGED vars => UNCHANGED luaVars /\ UNCHANGED protocol
    BY DEF ProcessWaited, vars, wireVars
  <2> QED
    BY <1>0, <2>3, <2>4, <2>5, <2>6, StepCases
<1> QED
  BY <1>2, <1>3

\* A flush begins with nothing left of the one before.
LEMMA FlushTakesAll ==
  ASSUME TypeOK, PhaseInv, FlushInv, [Next]_vars, ~Crash, NEW k \in Flushers,
         Idle(k)' \/ pc'[k] = "take"
  PROVE  queued'[k] = NoSets
<1>0. /\ k \in Callers /\ k # "loop" /\ k # "handshake"
      /\ pc \in [Callers -> PCs] /\ queued \in [Flushers -> [Files -> Versions]]
  BY FlusherCaller DEF TypeOK, AdapterTypeOK
<1>1. Idle(k) \/ pc[k] = "take" => queued[k] = NoSets
  BY DEF FlushInv
<1>2. pc'[k] \in {"off", "take"}
  BY DEF Idle
<1>3. ~Call(k) /\ ~Decide(k) /\ ~Notify(k)
  BY <1>0, <1>2 DEF Call, Decide, Notify, Goto
<1>4. FlushTake(k) => pc'[k] = "next"
  BY <1>0 DEF FlushTake, Goto
<1>5. \A f \in Files : FlushFile(k, f) => pc'[k] = "decide"
  BY <1>0 DEF FlushFile, Goto
<1>6. FlushReport(k) => pc'[k] = "next"
  BY <1>0 DEF FlushReport, Goto
<1>7. FlusherStep(k) => queued[k] = NoSets
  BY <1>2, <1>4, <1>5, <1>6 DEF FlusherStep, FlushEnd
<1>8. queued[k] = NoSets
  BY <1>0, <1>1, <1>2, <1>3, <1>7, PcFrame DEF Idle
<1>9. ASSUME NEW c \in Callers, Decide(c) PROVE queued'[k] = queued[k]
  BY <1>9 DEF Decide
<1>10. ASSUME NEW j \in Flushers, FlushTake(j) \/ \E f \in Files : FlushFile(j, f)
       PROVE  queued'[k] = queued[k]
  <2>1. j # k
    BY <1>2, <1>4, <1>5, <1>10
  <2>2. FlushTake(j) => queued'[k] = queued[k]
    BY <1>0, <2>1 DEF FlushTake
  <2>3. ASSUME NEW f \in Files, FlushFile(j, f) PROVE queued'[k] = queued[k]
    BY <1>0, <2>1, <2>3 DEF FlushFile
  <2> QED
    BY <1>10, <2>2, <2>3
<1> QED
  BY <1>8, <1>9, <1>10, HeldFrame

LEMMA ModeStep ==
  ASSUME Live, ~EarlySets, SessionInv, SessionInv', SetsInv, Up, ModeInv, [Next]_vars
  PROVE  ModeInv'
<1> SUFFICES ASSUME ~eof' PROVE FlushInv' /\ BootInv' /\ RunInv'
  BY DEF ModeInv
<1>0. TypeOK /\ PhaseInv /\ ~eof /\ ~Crash
  BY StaysOpen DEF SessionInv
<1>1. FlushInv /\ RunInv
  BY <1>0 DEF ModeInv
<1>2. \A k \in Flushers : pc'[k] \notin {"call", "notify"}
  BY <1>0, <1>1, FlushPc
<1>3. \A k \in Flushers : Idle(k)' \/ pc'[k] = "take" => queued'[k] = NoSets
  BY <1>0, <1>1, FlushTakesAll
<1>4. ~Blind' => /\ pendingBreakpoints' = NoSets
                 /\ \A k \in Flushers : queued'[k] = NoSets /\ ~Applying(k)'
  BY FlushesIdle
<1>5. Blind' => ~paused' /\ BlindRun' /\ req' \notin Resumes
  <2>1. CASE Blind
    BY <1>1, <2>1, BlindStays
  <2>2. CASE ~Blind
    BY <2>2, BlindBegins
  <2> QED
    BY <2>1, <2>2
<1>6. Launched' => pc'["handshake"] = "off"
  BY <1>1, HandshakeOver
<1>7. Carries' => Launched' /\ (pc'["loop"] = "call" \/ "loop" \in pending' => paused')
  BY <1>1, CarriesStep
<1>8. req' \in {"setBreakpoints", "runNoDebug"} => protocol' \in Seq(Unrefused)
  BY <1>1, UnrefusedStep
<1>9. FlushInv'
  BY <1>2, <1>3, <1>4, <1>5, <1>6, <1>7, <1>8 DEF FlushInv
<1> QED
  BY <1>9, BootStep, RunStep

LEMMA ModeInit == Init => Up /\ ModeInv
<1> SUFFICES ASSUME Init PROVE Up /\ ModeInv
  OBVIOUS
<1> USE DEF Init, WireInit, LuaInit, AdapterInit
<1>1. \A k \in Flushers : pc[k] = "off" /\ queued[k] = NoSets
  BY FlusherCaller
<1>2. pc["loop"] = "idle" /\ pc["handshake"] = "off"
  BY CallerNames
<1>3. protocol \in Seq(NoPathAsked) /\ commands \in Seq(WithCaller)
  OBVIOUS
<1>4. FlushInv
  BY <1>1, <1>2 DEF FlushInv, Blind, Launched, Carries, Applying, Idle
<1> QED
  BY <1>2, <1>3, <1>4 DEF Up, ModeInv, BootInv, RunInv

-----------------------------------------------------------------------------
\* The commands on their way, in the order in which they are served.
Line == queuedCommands \o (stdin \o commands)
Held(s) == {s[i] : i \in 1 .. Len(s)}
CarriesSet(m) == m.cmd \in SetCommands
Ordered(s) ==
  \A i, j \in 1 .. Len(s) :
    i < j /\ CarriesSet(s[i]) /\ CarriesSet(s[j]) => s[i].ver < s[j].ver

\* The set that will be the one answered last.
Due(f) ==
  IF /\ Carries /\ pc["loop"] = "await" /\ outcome["loop"] # "error"
     /\ job["loop"].file = f
  THEN job["loop"].ver ELSE acked[f]

\* A set that waits for a stop of a blind run.
Postponed ==
  \/ pendingBreakpoints # NoSets
  \/ \E k \in Flushers : queued[k] # NoSets
  \/ \E k \in Flushers : pc[k] = "decide"

Newer ==
  /\ \A f \in Files : breakpoints[f] <= Due(f)
  /\ \A m \in Held(Line) : CarriesSet(m) =>
       m.file \in Files /\ breakpoints[m.file] < m.ver /\ m.ver <= Due(m.file)
OnItsWay ==
  \/ \A f \in Files :
       \/ breakpoints[f] = Due(f)
       \/ \E m \in Held(Line) : CarriesSet(m) /\ m.file = f /\ m.ver = Due(f)
  \/ Blind /\ Postponed
InOrder == Ordered(Line) /\ Newer /\ OnItsWay

\* The set of a request is newer than any that was answered, and a flush hands
\* on no empty one.
Fresh == Carries => \A f \in Files : acked[f] < nextSet
Named == \A k \in Flushers : pc[k] = "decide" => job[k].ver # 0
OrderInv == ~eof => InOrder /\ Fresh /\ Named

-----------------------------------------------------------------------------
(***************************************************************************)
(* The line of commands.                                                   *)
(***************************************************************************)

LEMMA HeldInTail ==
  ASSUME NEW S, NEW s \in Seq(S), s # <<>>
  PROVE  /\ Held(s) = Held(Tail(s)) \union {Head(s)}
         /\ Ordered(s) =>
              /\ Ordered(Tail(s))
              /\ \A m \in Held(Tail(s)) :
                   CarriesSet(Head(s)) /\ CarriesSet(m) => Head(s).ver < m.ver
<1>1. /\ Len(s) \in Nat \ {0} /\ Len(Tail(s)) = Len(s) - 1 /\ Head(s) = s[1]
      /\ \A i \in 1 .. Len(Tail(s)) : Tail(s)[i] = s[i + 1]
  OBVIOUS
<1>2. \A i \in 1 .. Len(s) : i = 1 \/ (i - 1 \in 1 .. Len(Tail(s)) /\ s[i] = Tail(s)[i - 1])
  BY <1>1
<1>3. \A i \in 1 .. Len(Tail(s)) : i + 1 \in 1 .. Len(s) /\ 1 \in 1 .. Len(s)
  BY <1>1
<1>4. Held(s) = Held(Tail(s)) \union {Head(s)}
  <2> DEFINE r == Tail(s)
             h == Head(s)
  <2>1. h = s[1] /\ 1 \in 1 .. Len(s) /\ \A i \in 1 .. Len(r) : r[i] = s[i + 1]
    BY <1>1
  <2>2. \A i \in 1 .. Len(s) : i = 1 \/ (i - 1 \in 1 .. Len(r) /\ s[i] = r[i - 1])
    BY <1>2
  <2>3. \A i \in 1 .. Len(r) : i + 1 \in 1 .. Len(s)
    BY <1>3
  <2> HIDE DEF r, h
  <2>4. Held(s) \subseteq Held(r) \union {h}
    BY <2>1, <2>2 DEF Held
  <2>5. Held(r) \subseteq Held(s) /\ h \in Held(s)
    BY <2>1, <2>3 DEF Held
  <2> QED
    BY <2>4, <2>5 DEF r, h
<1>5. ASSUME Ordered(s) PROVE Ordered(Tail(s))
  <2>1. \A i, j \in 1 .. Len(Tail(s)) : i < j => i + 1 < j + 1
    BY <1>1
  <2> QED
    BY <1>1, <1>3, <1>5, <2>1 DEF Ordered
<1>6. ASSUME Ordered(s), NEW m \in Held(Tail(s)), CarriesSet(Head(s)), CarriesSet(m)
      PROVE  Head(s).ver < m.ver
  <2>1. PICK i \in 1 .. Len(Tail(s)) : m = Tail(s)[i]
    BY <1>6 DEF Held
  <2>2. m = s[i + 1] /\ i + 1 \in 1 .. Len(s) /\ 1 \in 1 .. Len(s) /\ 1 < i + 1
    BY <1>1, <1>3, <2>1
  <2> QED
    BY <1>1, <1>6, <2>2 DEF Ordered
<1> QED
  BY <1>4, <1>5, <1>6

LEMMA HeldInAppended ==
  ASSUME NEW S, NEW s \in Seq(S), NEW e \in S
  PROVE  /\ Held(Append(s, e)) = Held(s) \union {e}
         /\ /\ Ordered(s)
            /\ \A m \in Held(s) : CarriesSet(m) /\ CarriesSet(e) => m.ver < e.ver
            => Ordered(Append(s, e))
<1> DEFINE t == Append(s, e)
           n == Len(s)
<1>1. /\ n \in Nat /\ Len(t) = n + 1 /\ t[n + 1] = e
      /\ \A i \in 1 .. n : t[i] = s[i]
  OBVIOUS
<1> HIDE DEF t
<1>2. \A i \in 1 .. n + 1 : i \in 1 .. n \/ i = n + 1
  BY <1>1
<1>3. n + 1 \in 1 .. n + 1 /\ \A i \in 1 .. n : i \in 1 .. n + 1
  BY <1>1
<1>4. Held(t) = Held(s) \union {e}
  BY <1>1, <1>2, <1>3 DEF Held
<1>5. ASSUME Ordered(s), \A m \in Held(s) : CarriesSet(m) /\ CarriesSet(e) => m.ver < e.ver
      PROVE  Ordered(t)
  <2> SUFFICES ASSUME NEW i \in 1 .. n + 1, NEW j \in 1 .. n + 1, i < j,
                      CarriesSet(t[i]), CarriesSet(t[j])
               PROVE  t[i].ver < t[j].ver
    BY <1>1 DEF Ordered
  <2>1. i \in 1 .. n /\ t[i] = s[i] /\ s[i] \in Held(s)
    BY <1>1 DEF Held
  <2>2. CASE j = n + 1
    BY <1>1, <1>5, <2>1, <2>2
  <2>3. CASE j \in 1 .. n
    BY <1>1, <1>5, <2>1, <2>3 DEF Ordered
  <2> QED
    BY <1>2, <2>2, <2>3
<1> QED
  BY <1>4, <1>5 DEF t

\* A command that is taken from behind others.
LEMMA HeldInRest ==
  ASSUME NEW S, NEW q \in Seq(S), NEW t \in Seq(S), t # <<>>
  PROVE  /\ Held(q \o t) = Held(q \o Tail(t)) \union {Head(t)}
         /\ Ordered(q \o t) => Ordered(q \o Tail(t))
<1> DEFINE s == q \o t
           r == q \o Tail(t)
           n == Len(q)
<1>1. /\ n \in Nat /\ Len(t) \in Nat \ {0} /\ Tail(t) \in Seq(S)
      /\ Len(Tail(t)) = Len(t) - 1 /\ Head(t) = t[1]
      /\ \A i \in 1 .. Len(t) - 1 : Tail(t)[i] = t[i + 1]
  OBVIOUS
<1>2. /\ Len(s) = n + Len(t)
      /\ \A i \in 1 .. n + Len(t) : s[i] = IF i <= n THEN q[i] ELSE t[i - n]
  BY ConcatProperties
<1>3. /\ Len(r) = n + (Len(t) - 1)
      /\ \A i \in 1 .. n + (Len(t) - 1) : r[i] = IF i <= n THEN q[i] ELSE Tail(t)[i - n]
  BY <1>1, ConcatProperties
<1> HIDE DEF s, r
<1>4. ASSUME NEW i \in 1 .. Len(r) PROVE r[i] = IF i <= n THEN s[i] ELSE s[i + 1]
  <2>0. i \in 1 .. n + (Len(t) - 1)
    BY <1>3, <1>4
  <2>1. CASE i <= n
    <3>1. i \in 1 .. n + Len(t)
      BY <1>1, <2>0
    <3> QED
      BY <1>2, <1>3, <2>0, <2>1, <3>1
  <2>2. CASE ~(i <= n)
    <3>1. /\ i + 1 \in 1 .. n + Len(t) /\ ~(i + 1 <= n) /\ (i + 1) - n = (i - n) + 1
          /\ i - n \in 1 .. Len(t) - 1
      BY <1>1, <2>0, <2>2
    <3>2. r[i] = Tail(t)[i - n] /\ s[i + 1] = t[(i - n) + 1]
      BY <1>2, <1>3, <2>0, <2>2, <3>1
    <3> QED
      BY <1>1, <2>2, <3>1, <3>2
  <2> QED
    BY <2>1, <2>2
<1>5. s[n + 1] = Head(t) /\ n + 1 \in 1 .. Len(s)
  BY <1>1, <1>2
<1>6. \A i \in 1 .. Len(r) : i \in 1 .. Len(s) /\ i + 1 \in 1 .. Len(s)
  BY <1>1, <1>2, <1>3
<1>7. \A i \in 1 .. Len(s) : \/ i = n + 1
                             \/ i <= n /\ i \in 1 .. Len(r)
                             \/ i - 1 > n /\ i - 1 \in 1 .. Len(r) /\ (i - 1) + 1 = i
  BY <1>1, <1>2, <1>3
<1>8. ASSUME NEW m \in Held(s) PROVE m \in Held(r) \union {Head(t)}
  <2>1. PICK i \in 1 .. Len(s) : m = s[i]
    BY <1>8 DEF Held
  <2>2. CASE i = n + 1
    BY <1>5, <2>1, <2>2
  <2>3. CASE i <= n /\ i \in 1 .. Len(r)
    BY <1>4, <2>1, <2>3 DEF Held
  <2>4. CASE i - 1 > n /\ i - 1 \in 1 .. Len(r) /\ (i - 1) + 1 = i
    <3>1. r[i - 1] = s[i]
      BY <1>1, <1>4, <2>4
    <3> QED
      BY <2>1, <2>4, <3>1 DEF Held
  <2> QED
    BY <1>7, <2>2, <2>3, <2>4
<1>9. ASSUME NEW m \in Held(r) PROVE m \in Held(s)
  <2>1. PICK i \in 1 .. Len(r) : m = r[i]
    BY <1>9 DEF Held
  <2> QED
    BY <1>4, <1>6, <2>1 DEF Held
<1>10. Head(t) \in Held(s)
  BY <1>5 DEF Held
<1>11. ASSUME Ordered(s) PROVE Ordered(r)
  <2> SUFFICES ASSUME NEW i \in 1 .. Len(r), NEW j \in 1 .. Len(r), i < j,
                      CarriesSet(r[i]), CarriesSet(r[j])
               PROVE  r[i].ver < r[j].ver
    BY DEF Ordered
  <2> DEFINE a == IF i <= n THEN i ELSE i + 1
             b == IF j <= n THEN j ELSE j + 1
  <2>1. a \in 1 .. Len(s) /\ b \in 1 .. Len(s) /\ a < b /\ r[i] = s[a] /\ r[j] = s[b]
    BY <1>1, <1>3, <1>4, <1>6
  <2> HIDE DEF a, b
  <2> QED
    BY <1>11, <2>1 DEF Ordered
<1> QED
  BY <1>8, <1>9, <1>10, <1>11 DEF s, r

LEMMA HeadOfJoined ==
  ASSUME NEW S, NEW s \in Seq(S), NEW t \in Seq(S), s # <<>>
  PROVE  s \o t # <<>> /\ Head(s \o t) = Head(s) /\ Tail(s \o t) = Tail(s) \o t
<1>1. /\ s \o t \in Seq(S) /\ Len(s \o t) = Len(s) + Len(t)
      /\ \A i \in 1 .. Len(s) + Len(t) :
           (s \o t)[i] = IF i <= Len(s) THEN s[i] ELSE t[i - Len(s)]
  BY ConcatProperties
<1>2. /\ Len(s) \in Nat \ {0} /\ Len(t) \in Nat /\ Head(s) = s[1]
      /\ Tail(s) \in Seq(S) /\ Len(Tail(s)) = Len(s) - 1
      /\ \A i \in 1 .. Len(s) - 1 : Tail(s)[i] = s[i + 1]
  OBVIOUS
<1>3. /\ Tail(s) \o t \in Seq(S) /\ Len(Tail(s) \o t) = (Len(s) - 1) + Len(t)
      /\ \A i \in 1 .. (Len(s) - 1) + Len(t) :
           (Tail(s) \o t)[i] = IF i <= Len(s) - 1 THEN Tail(s)[i] ELSE t[i - (Len(s) - 1)]
  BY <1>2, ConcatProperties
<1> DEFINE u == s \o t
           v == Tail(s) \o t
<1> HIDE DEF u, v
<1>4. u # <<>> /\ Head(u) = Head(s)
  BY <1>1, <1>2 DEF u
<1>5. /\ Tail(u) \in Seq(S) /\ Len(Tail(u)) = Len(u) - 1
      /\ \A i \in 1 .. Len(u) - 1 : Tail(u)[i] = u[i + 1]
  BY <1>1, <1>4, HeadTailProperties DEF u
<1>6. Len(Tail(u)) = Len(v)
  BY <1>1, <1>2, <1>3, <1>5 DEF u, v
<1>7. ASSUME NEW i \in 1 .. Len(v) PROVE Tail(u)[i] = v[i]
  <2>1. i \in 1 .. (Len(s) - 1) + Len(t) /\ Tail(u)[i] = u[i + 1] /\ i + 1 \in 1 .. Len(s) + Len(t)
    BY <1>1, <1>2, <1>3, <1>5, <1>6, <1>7 DEF u, v
  <2>2. u[i + 1] = IF i + 1 <= Len(s) THEN s[i + 1] ELSE t[(i + 1) - Len(s)]
    BY <1>1, <2>1 DEF u
  <2>3. v[i] = IF i <= Len(s) - 1 THEN Tail(s)[i] ELSE t[i - (Len(s) - 1)]
    BY <1>3, <2>1 DEF v
  <2>4. (i + 1) - Len(s) = i - (Len(s) - 1) /\ (i + 1 <= Len(s) <=> i <= Len(s) - 1)
    BY <1>2, <2>1
  <2>5. CASE i <= Len(s) - 1
    <3>1. i \in 1 .. Len(s) - 1 /\ i + 1 <= Len(s)
      BY <2>1, <2>4, <2>5
    <3>2. Tail(s)[i] = s[i + 1]
      BY <1>2, <3>1
    <3> QED
      BY <2>1, <2>2, <2>3, <2>5, <3>1, <3>2
  <2>6. CASE ~(i <= Len(s) - 1)
    BY <2>1, <2>2, <2>3, <2>4, <2>6
  <2> QED
    BY <2>5, <2>6
<1>8. Tail(u) = v
  BY <1>3, <1>5, <1>6, <1>7, SeqEqual DEF v
<1> QED
  BY <1>4, <1>8 DEF u, v

\* A command that moves from one channel to the next keeps its place.
LEMMA MovedBetween ==
  ASSUME NEW S, NEW s \in Seq(S), NEW t \in Seq(S), t # <<>>
  PROVE  Append(s, Head(t)) \o Tail(t) = s \o t
<1>1. Head(t) \in S /\ Tail(t) \in Seq(S) /\ t = <<Head(t)>> \o Tail(t) /\ <<Head(t)>> \in Seq(S)
  <2>1. Head(t) \in S /\ Tail(t) \in Seq(S)
    BY HeadTailProperties
  <2>2. t = <<Head(t)>> \o Tail(t)
    <3> DEFINE u == <<Head(t)>> \o Tail(t)
    <3>1. <<Head(t)>> \in Seq(S) /\ Len(<<Head(t)>>) = 1 /\ <<Head(t)>>[1] = Head(t)
      BY <2>1
    <3>2. /\ u \in Seq(S) /\ Len(u) = 1 + Len(Tail(t))
          /\ \A i \in 1 .. 1 + Len(Tail(t)) :
               u[i] = IF i <= 1 THEN <<Head(t)>>[i] ELSE Tail(t)[i - 1]
      BY <2>1, <3>1, ConcatProperties
    <3>3. /\ Len(t) \in Nat \ {0} /\ Len(Tail(t)) = Len(t) - 1 /\ Head(t) = t[1]
          /\ \A i \in 1 .. Len(t) - 1 : Tail(t)[i] = t[i + 1]
      OBVIOUS
    <3> HIDE DEF u
    <3>4. Len(u) = Len(t)
      BY <3>2, <3>3
    <3>5. ASSUME NEW i \in 1 .. Len(t) PROVE u[i] = t[i]
      <4>1. CASE i = 1
        BY <3>1, <3>2, <3>3, <4>1
      <4>2. CASE i > 1
        <5>1. i \in 1 .. 1 + Len(Tail(t)) /\ ~(i <= 1) /\ i - 1 \in 1 .. Len(t) - 1 /\ (i - 1) + 1 = i
          BY <3>3, <3>5, <4>2
        <5> QED
          BY <3>2, <3>3, <5>1
      <4> QED
        BY <3>5, <4>1, <4>2
    <3>6. t = u
      BY <3>2, <3>4, <3>5, SeqEqual
    <3> QED
      BY <3>6 DEF u
  <2> QED
    BY <2>1, <2>2
<1>2. Append(s, Head(t)) = s \o <<Head(t)>>
  BY <1>1, AppendIsConcat
<1>3. (s \o <<Head(t)>>) \o Tail(t) = s \o (<<Head(t)>> \o Tail(t))
  BY <1>1, ConcatAssociative
<1> QED
  BY <1>1, <1>2, <1>3

LEMMA AppendedBehind ==
  ASSUME NEW S, NEW s \in Seq(S), NEW t \in Seq(S), NEW e \in S
  PROVE  s \o Append(t, e) = Append(s \o t, e)
<1>1. <<e>> \in Seq(S) /\ s \o t \in Seq(S)
  BY ConcatProperties
<1>2. Append(t, e) = t \o <<e>> /\ Append(s \o t, e) = (s \o t) \o <<e>>
  BY <1>1, AppendIsConcat
<1> QED
  BY <1>1, <1>2, ConcatAssociative

\* What a step of the Lua thread does to the line.
LEMMA LineType ==
  ASSUME TypeOK
  PROVE  /\ Line \in Seq(Commands) /\ stdin \o commands \in Seq(Commands)
         /\ commands \in Seq(Commands) /\ stdin \in Seq(Commands)
         /\ queuedCommands \in Seq(Commands)
         /\ \A m \in Held(Line) : m \in Commands
<1>1. /\ commands \in Seq(Commands) /\ stdin \in Seq(Commands)
      /\ queuedCommands \in Seq(Commands)
  BY DEF TypeOK, WireTypeOK, LuaTypeOK, AdapterTypeOK
<1>2. stdin \o commands \in Seq(Commands)
  BY <1>1, ConcatProperties
<1>3. Line \in Seq(Commands)
  BY <1>1, <1>2, ConcatProperties DEF Line
<1>4. \A m \in Held(Line) : m \in Commands
  BY <1>3 DEF Held
<1> QED
  BY <1>1, <1>2, <1>3, <1>4

LEMMA TakenLine ==
  ASSUME TypeOK, HasCommand, TakeCommand, UNCHANGED commands
  PROVE  Line # <<>> /\ NextCommand = Head(Line) /\ Line' = Tail(Line)
<1>1. /\ Line \in Seq(Commands) /\ stdin \o commands \in Seq(Commands)
      /\ commands \in Seq(Commands) /\ stdin \in Seq(Commands)
      /\ queuedCommands \in Seq(Commands)
  BY LineType
<1>2. CASE queuedCommands # <<>>
  <2>1. /\ Line # <<>> /\ Head(Line) = Head(queuedCommands)
        /\ Tail(Line) = Tail(queuedCommands) \o (stdin \o commands)
    BY <1>1, <1>2, HeadOfJoined DEF Line
  <2>2. queuedCommands' = Tail(queuedCommands) /\ stdin' = stdin /\ commands' = commands
    BY <1>2 DEF TakeCommand
  <2> QED
    BY <1>2, <2>1, <2>2 DEF Line, NextCommand
<1>3. CASE queuedCommands = <<>>
  <2>1. stdin # <<>>
    BY <1>3 DEF HasCommand
  <2>2. /\ stdin \o commands # <<>> /\ Head(stdin \o commands) = Head(stdin)
        /\ Tail(stdin \o commands) = Tail(stdin) \o commands
    BY <1>1, <2>1, HeadOfJoined
  <2>3. Line = stdin \o commands
    BY <1>1, <1>3, ConcatEmptySeq DEF Line
  <2>4. Tail(stdin) \o commands \in Seq(Commands)
    BY <1>1, <2>1, HeadTailProperties, ConcatProperties
  <2>5. queuedCommands' = <<>> /\ stdin' = Tail(stdin) /\ commands' = commands
    BY <1>3 DEF TakeCommand
  <2>6. Line' = <<>> \o (Tail(stdin) \o commands)
    BY <2>5 DEF Line
  <2>7. Line' = Tail(stdin) \o commands
    BY <2>4, <2>6, ConcatEmptySeq
  <2> QED
    BY <1>3, <2>2, <2>3, <2>7 DEF NextCommand
<1> QED
  BY <1>2, <1>3

LEMMA MovedJoined ==
  ASSUME NEW S, NEW a \in Seq(S), NEW b \in Seq(S), NEW c \in Seq(S), b # <<>>
  PROVE  Append(a, Head(b)) \o (Tail(b) \o c) = a \o (b \o c)
<1>1. \A q \in Seq(S) : \A t \in Seq(S) :
        q \o t = a \o b => q \o (t \o c) = a \o (b \o c)
  <2> TAKE q \in Seq(S)
  <2> TAKE t \in Seq(S)
  <2>1. (q \o t) \o c = q \o (t \o c)
    OBVIOUS
  <2>2. (a \o b) \o c = a \o (b \o c)
    OBVIOUS
  <2> QED
    BY <2>1, <2>2, Zenon
<1>2. Head(b) \in S /\ Tail(b) \in Seq(S) /\ Append(a, Head(b)) \in Seq(S)
  OBVIOUS
<1>3. Append(a, Head(b)) \o Tail(b) = a \o b
  BY MovedBetween
<1> QED
  BY <1>1, <1>2, <1>3, Zenon

LEMMA KeptLine ==
  ASSUME TypeOK, Keeps, UNCHANGED commands PROVE Line' = Line
<1>1. commands \in Seq(Commands) /\ stdin \in Seq(Commands) /\ queuedCommands \in Seq(Commands)
  BY LineType
<1>2. stdin # <<>> /\ stdin' = Tail(stdin) /\ queuedCommands' = Append(queuedCommands, Head(stdin))
  BY DEF Keeps
<1>3. Append(queuedCommands, Head(stdin)) \o (Tail(stdin) \o commands)
        = queuedCommands \o (stdin \o commands)
  BY <1>1, <1>2, MovedJoined
<1> QED
  BY <1>2, <1>3 DEF Line

LEMMA PathReadLine ==
  ASSUME TypeOK, PathRead, UNCHANGED commands
  PROVE  /\ Ordered(Line) => Ordered(Line')
         /\ \A m : CarriesSet(m) => (m \in Held(Line') <=> m \in Held(Line))
<1>1. commands \in Seq(Commands) /\ stdin \in Seq(Commands) /\ queuedCommands \in Seq(Commands)
  BY LineType
<1>2. CASE stdin' = stdin
  <2>1. Line' = Line
    BY <1>2 DEF PathRead, Line
  <2> QED
    BY <2>1
<1>3. CASE stdin # <<>> /\ Head(stdin).cmd = "resolved" /\ stdin' = Tail(stdin)
  <2> DEFINE t == stdin \o commands
  <2>1. /\ t \in Seq(Commands) /\ t # <<>> /\ Head(t) = Head(stdin)
        /\ Tail(t) = Tail(stdin) \o commands
    BY <1>1, <1>3, HeadOfJoined, ConcatProperties
  <2>2. Line = queuedCommands \o t /\ Line' = queuedCommands \o Tail(t)
    BY <1>3, <2>1 DEF Line, PathRead
  <2>3. ~CarriesSet(Head(t))
    BY <1>3, <2>1 DEF CarriesSet, SetCommands
  <2> HIDE DEF t
  <2>4. /\ Held(queuedCommands \o t) = Held(queuedCommands \o Tail(t)) \union {Head(t)}
        /\ Ordered(queuedCommands \o t) => Ordered(queuedCommands \o Tail(t))
    BY <1>1, <2>1, HeldInRest
  <2> QED
    BY <2>2, <2>3, <2>4
<1> QED
  BY <1>2, <1>3 DEF PathRead

\* What a step of the adapter does to it.
LEMMA AdapterLine ==
  ASSUME TypeOK, AdapterStep, UNCHANGED luaVars, ~eof'
  PROVE  \/ Line' = Line
         \/ \E e \in Commands : Queues(e) /\ Line' = Append(Line, e)
<1>0. queuedCommands' = queuedCommands
  BY DEF luaVars
<1>1. /\ commands \in Seq(Commands) /\ stdin \in Seq(Commands)
      /\ queuedCommands \in Seq(Commands) /\ stdin \o commands \in Seq(Commands)
  BY LineType
<1>2. ASSUME NEW e, Queues(e) PROVE e \in Commands /\ Line' = Append(Line, e)
  <2>1. e \in Commands
    BY <1>2, QueuedChannels
  <2>2. commands' = Append(commands, e) /\ stdin' = stdin
    BY <1>2 DEF Queues
  <2>3. stdin \o Append(commands, e) = Append(stdin \o commands, e)
    BY <1>1, <2>1, AppendedBehind
  <2>4. queuedCommands \o Append(stdin \o commands, e) = Append(Line, e)
    BY <1>1, <2>1, AppendedBehind DEF Line
  <2> QED
    BY <1>0, <2>1, <2>2, <2>3, <2>4 DEF Line
<1>3. CASE Moves
  <2>1. /\ commands # <<>> /\ commands' = Tail(commands) /\ stdin' = Append(stdin, Head(commands))
    BY <1>3 DEF Moves
  <2>2. Append(stdin, Head(commands)) \o Tail(commands) = stdin \o commands
    BY <1>1, <2>1, MovedBetween
  <2> QED
    BY <1>0, <2>1, <2>2 DEF Line
<1>4. CASE UNCHANGED <<commands, stdin>>
  BY <1>0, <1>4 DEF Line
<1> QED
  BY <1>2, <1>3, <1>4, AdapterChannels

-----------------------------------------------------------------------------
(***************************************************************************)
(* Four ways a step may change the sets that are on their way.             *)
(***************************************************************************)

LEMMA DueType ==
  ASSUME TypeOK
  PROVE  /\ \A f \in Files : Due(f) \in Int /\ breakpoints[f] \in Int /\ acked[f] \in Int
         /\ \A m \in Held(Line) : m.ver \in Int
         /\ breakpoints \in [Files -> Versions] /\ nextSet \in Int
<1>1. /\ \A f \in Files : Due(f) \in Versions /\ breakpoints[f] \in Versions /\ acked[f] \in Versions
      /\ breakpoints \in [Files -> Versions] /\ nextSet \in Int
  BY CallerNames DEF TypeOK, AdapterTypeOK, LuaTypeOK, Due
<1>2. \A m \in Held(Line) : m.ver \in Versions
  BY LineType DEF Commands
<1>3. Versions \subseteq Int
  BY WireAssumption DEF Versions
<1> QED
  BY <1>1, <1>2, <1>3

\* The sets are not concerned.
LEMMA OrderKept ==
  ASSUME InOrder, breakpoints' = breakpoints, \A f \in Files : Due(f)' = Due(f),
         Ordered(Line'), \A m : CarriesSet(m) => (m \in Held(Line') <=> m \in Held(Line)),
         Blind /\ Postponed => Blind' /\ Postponed'
  PROVE  InOrder'
<1>1. Newer'
  BY DEF InOrder, Newer
<1>2. OnItsWay'
  <2>1. CASE Blind /\ Postponed
    BY <2>1 DEF OnItsWay
  <2>2. CASE \A f \in Files :
               \/ breakpoints[f] = Due(f)
               \/ \E m \in Held(Line) : CarriesSet(m) /\ m.file = f /\ m.ver = Due(f)
    BY <2>2 DEF OnItsWay
  <2> QED
    BY <2>1, <2>2 DEF InOrder, OnItsWay
<1> QED
  BY <1>1, <1>2 DEF InOrder

\* The first set of the line is applied.
LEMMA OrderApplied ==
  ASSUME TypeOK, InOrder, Line # <<>>, CarriesSet(Head(Line)), Line' = Tail(Line),
         breakpoints' = [breakpoints EXCEPT ![Head(Line).file] = Head(Line).ver],
         \A f \in Files : Due(f)' = Due(f),
         Blind /\ Postponed => Blind' /\ Postponed'
  PROVE  InOrder'
<1> DEFINE h == Head(Line)
<1>1. Line \in Seq(Commands)
  BY LineType
<1>2. PICK s \in Seq(Commands) : s = Line
  BY <1>1
<1>3. /\ Held(Line) = Held(Line') \union {h}
      /\ Ordered(Line') /\ \A m \in Held(Line') : CarriesSet(m) => h.ver < m.ver
  <2>1. /\ Held(s) = Held(Tail(s)) \union {Head(s)}
        /\ Ordered(s) =>
              /\ Ordered(Tail(s))
              /\ \A m \in Held(Tail(s)) :
                   CarriesSet(Head(s)) /\ CarriesSet(m) => Head(s).ver < m.ver
    BY <1>2, HeldInTail
  <2> QED
    BY <1>2, <2>1 DEF InOrder
<1>4. h \in Held(Line) /\ h.file \in Files /\ breakpoints[h.file] < h.ver /\ h.ver <= Due(h.file)
  BY <1>3 DEF InOrder, Newer
<1>5. \A f \in Files : breakpoints'[f] = IF f = h.file THEN h.ver ELSE breakpoints[f]
  BY <1>4, DueType
<1>6. h.ver \in Int /\ \A f \in Files : Due(f) \in Int /\ breakpoints[f] \in Int
  BY <1>4, DueType
<1> HIDE DEF h
<1>7. Newer'
  <2>1. \A f \in Files : breakpoints'[f] <= Due(f)'
    BY <1>4, <1>5 DEF InOrder, Newer
  <2>2. ASSUME NEW m \in Held(Line'), CarriesSet(m)
        PROVE  m.file \in Files /\ breakpoints'[m.file] < m.ver /\ m.ver <= Due(m.file)'
    BY <1>3, <1>5, <2>2 DEF InOrder, Newer
  <2> QED
    BY <2>1, <2>2 DEF Newer
<1>8. OnItsWay'
  <2>1. CASE Blind /\ Postponed
    BY <2>1 DEF OnItsWay
  <2>2. CASE \A f \in Files :
               \/ breakpoints[f] = Due(f)
               \/ \E m \in Held(Line) : CarriesSet(m) /\ m.file = f /\ m.ver = Due(f)
    <3>1. ASSUME NEW f \in Files
          PROVE  \/ breakpoints'[f] = Due(f)'
                 \/ \E m \in Held(Line') : CarriesSet(m) /\ m.file = f /\ m.ver = Due(f)'
      <4>1. Due(f)' = Due(f)
        OBVIOUS
      <4>2. CASE breakpoints[f] = Due(f)
        <5>1. f # h.file
          BY <1>4, <1>6, <4>2
        <5> QED
          BY <1>5, <4>1, <4>2, <5>1
      <4>3. ASSUME NEW m \in Held(Line), CarriesSet(m), m.file = f, m.ver = Due(f)
            PROVE  \/ breakpoints'[f] = Due(f)'
                   \/ \E n \in Held(Line') : CarriesSet(n) /\ n.file = f /\ n.ver = Due(f)'
        BY <1>3, <1>5, <4>1, <4>3
      <4> QED
        BY <2>2, <4>2, <4>3
    <3> QED
      BY <3>1 DEF OnItsWay
  <2> QED
    BY <2>1, <2>2 DEF InOrder, OnItsWay
<1> QED
  BY <1>3, <1>7, <1>8 DEF InOrder

\* A newer set is sent.
LEMMA OrderSent ==
  ASSUME TypeOK, TypeOK', InOrder, NEW e \in Commands, CarriesSet(e), e.file \in Files,
         Line' = Append(Line, e), breakpoints' = breakpoints,
         \A f \in Files : Due(f)' = IF f = e.file THEN e.ver ELSE Due(f),
         \A f \in Files : Due(f) < e.ver,
         Blind /\ Postponed => Blind' /\ Postponed'
  PROVE  InOrder'
<1>1. Line \in Seq(Commands)
  BY LineType
<1>2. PICK s \in Seq(Commands) : s = Line
  BY <1>1
<1>3. /\ Held(Line') = Held(Line) \union {e}
      /\ /\ Ordered(Line)
         /\ \A m \in Held(Line) : CarriesSet(m) /\ CarriesSet(e) => m.ver < e.ver
         => Ordered(Line')
  <2>1. /\ Held(Append(s, e)) = Held(s) \union {e}
        /\ /\ Ordered(s)
           /\ \A m \in Held(s) : CarriesSet(m) /\ CarriesSet(e) => m.ver < e.ver
           => Ordered(Append(s, e))
    BY <1>2, HeldInAppended
  <2> QED
    BY <1>2, <2>1
<1>4. /\ \A f \in Files : Due(f) \in Int /\ breakpoints[f] \in Int
      /\ \A m \in Held(Line) : m.ver \in Int
      /\ e.ver \in Int
  <2>1. e.ver \in Int
    BY WireAssumption DEF Commands, Versions
  <2> QED
    BY <2>1, DueType
<1>5. ASSUME NEW m \in Held(Line), CarriesSet(m)
      PROVE  m.file \in Files /\ breakpoints[m.file] < m.ver /\ m.ver <= Due(m.file) /\ m.ver < e.ver
  <2>1. m.file \in Files /\ breakpoints[m.file] < m.ver /\ m.ver <= Due(m.file)
    BY <1>5 DEF InOrder, Newer
  <2> QED
    BY <1>4, <2>1
<1>6. Ordered(Line')
  BY <1>3, <1>5 DEF InOrder
<1>7. \A f \in Files : breakpoints[f] <= Due(f) /\ breakpoints[f] < e.ver
  <2>1. \A f \in Files : breakpoints[f] <= Due(f)
    BY DEF InOrder, Newer
  <2> QED
    BY <1>4, <2>1
<1>8. Newer'
  <2>1. \A f \in Files : breakpoints'[f] <= Due(f)'
    BY <1>4, <1>7
  <2>2. ASSUME NEW m \in Held(Line'), CarriesSet(m)
        PROVE  m.file \in Files /\ breakpoints'[m.file] < m.ver /\ m.ver <= Due(m.file)'
    <3>1. CASE m = e
      BY <1>4, <1>7, <3>1
    <3>2. CASE m \in Held(Line)
      <4>1. Due(m.file)' = e.ver \/ Due(m.file)' = Due(m.file)
        BY <1>5, <2>2, <3>2
      <4> QED
        BY <1>4, <1>5, <2>2, <3>2, <4>1
    <3> QED
      BY <1>3, <3>1, <3>2
  <2> QED
    BY <2>1, <2>2 DEF Newer
<1>9. OnItsWay'
  <2>1. CASE Blind /\ Postponed
    BY <2>1 DEF OnItsWay
  <2>2. CASE \A f \in Files :
               \/ breakpoints[f] = Due(f)
               \/ \E m \in Held(Line) : CarriesSet(m) /\ m.file = f /\ m.ver = Due(f)
    <3>1. ASSUME NEW f \in Files
          PROVE  \/ breakpoints'[f] = Due(f)'
                 \/ \E m \in Held(Line') : CarriesSet(m) /\ m.file = f /\ m.ver = Due(f)'
      <4>1. CASE f = e.file
        BY <1>3, <4>1
      <4>2. CASE f # e.file
        BY <1>3, <2>2, <4>2
      <4> QED
        BY <4>1, <4>2
    <3> QED
      BY <3>1 DEF OnItsWay
  <2> QED
    BY <2>1, <2>2 DEF InOrder, OnItsWay
<1> QED
  BY <1>6, <1>8, <1>9 DEF InOrder

\* A newer set waits for a stop of a blind run.
LEMMA OrderPostponed ==
  ASSUME TypeOK, TypeOK', InOrder, Line' = Line, breakpoints' = breakpoints,
         \A f \in Files : Due(f) <= Due(f)', Blind', Postponed'
  PROVE  InOrder'
<1>1. /\ \A f \in Files : Due(f) \in Int /\ breakpoints[f] \in Int /\ Due(f)' \in Int
      /\ \A m \in Held(Line) : m.ver \in Int
  <2>1. \A f \in Files : Due(f)' \in Versions
    BY CallerNames DEF TypeOK, AdapterTypeOK, Due
  <2> QED
    BY <2>1, DueType, WireAssumption DEF Versions
<1>2. \A f \in Files : breakpoints[f] <= Due(f)
  BY DEF InOrder, Newer
<1>3. \A m \in Held(Line) : CarriesSet(m) =>
        m.file \in Files /\ breakpoints[m.file] < m.ver /\ m.ver <= Due(m.file)
  BY DEF InOrder, Newer
<1>4. \A f \in Files : breakpoints'[f] <= Due(f)'
  BY <1>1, <1>2
<1>5. \A m \in Held(Line) : CarriesSet(m) =>
        m.file \in Files /\ breakpoints[m.file] < m.ver /\ m.ver <= Due(m.file)'
  <2> SUFFICES ASSUME NEW m \in Held(Line), CarriesSet(m)
               PROVE  m.file \in Files /\ breakpoints[m.file] < m.ver /\ m.ver <= Due(m.file)'
    OBVIOUS
  <2>1. m.file \in Files /\ breakpoints[m.file] < m.ver /\ m.ver <= Due(m.file)
    BY <1>3
  <2>2. Due(m.file) <= Due(m.file)' /\ Due(m.file) \in Int /\ Due(m.file)' \in Int /\ m.ver \in Int
    BY <1>1, <2>1
  <2> QED
    BY <2>1, <2>2
<1>6. Newer'
  BY <1>4, <1>5 DEF Newer
<1>7. Ordered(Line)'
  BY DEF InOrder
<1> QED
  BY <1>6, <1>7 DEF InOrder, OnItsWay

-----------------------------------------------------------------------------
\* A command with a caller has one that waits.
LEMMA CommandPending ==
  ASSUME SessionInv, ~closed, HasCommand, NextCommand.by \in Callers
  PROVE  NextCommand.by \in pending
<1>0. TypeOK /\ CallInv
  BY DEF SessionInv
<1>1. PICK c \in Callers : c = NextCommand.by
  OBVIOUS
<1> SUFFICES ASSUME c \notin pending PROVE FALSE
  BY <1>1
<1>2. Owed(c) = 0
  BY <1>0 DEF CallInv, CallOwed
<1>3. /\ Count(commands, CallsOf(c)) \in Nat /\ Count(stdin, CallsOf(c)) \in Nat
      /\ Count(queuedCommands, CallsOf(c)) \in Nat /\ Count(protocol, RepliesTo(c)) \in Nat
  BY <1>0, CountsOfSession
<1>4. One(c = "loop" /\ Resolving) \in 0 .. 1
  BY OneIs
<1>5. Count(stdin, CallsOf(c)) = 0 /\ Count(queuedCommands, CallsOf(c)) = 0
  <2>1. Count(commands, CallsOf(c)) + Count(stdin, CallsOf(c)) + Count(queuedCommands, CallsOf(c))
          + Count(protocol, RepliesTo(c)) + One(c = "loop" /\ Resolving) = 0
    BY <1>2 DEF Owed, Transit
  <2>2. PICK a \in Nat, b \in Nat, d \in Nat, g \in Nat, n \in 0 .. 1 :
          /\ a = Count(commands, CallsOf(c)) /\ b = Count(stdin, CallsOf(c))
          /\ d = Count(queuedCommands, CallsOf(c)) /\ g = Count(protocol, RepliesTo(c))
          /\ n = One(c = "loop" /\ Resolving)
    BY <1>3, <1>4, Zenon
  <2>3. a + b + d + g + n = 0
    BY <2>1, <2>2, Zenon
  <2>4. b = 0 /\ d = 0
    BY <2>3
  <2> QED
    BY <2>2, <2>4, Zenon
<1>6. /\ \A i \in 1 .. Len(stdin) : stdin[i] \notin CallsOf(c)
      /\ \A i \in 1 .. Len(queuedCommands) : queuedCommands[i] \notin CallsOf(c)
  BY <1>0, <1>5, CountNone DEF TypeOK, WireTypeOK, LuaTypeOK
<1>7. NextCommand \in CallsOf(c)
  BY <1>0, <1>1, TakenFrom DEF CallsOf, TypeOK, WireTypeOK, LuaTypeOK
<1>8. stdin # <<>> => 1 \in 1 .. Len(stdin) /\ stdin[1] = Head(stdin)
  BY <1>0 DEF TypeOK, WireTypeOK
<1>9. queuedCommands # <<>> => 1 \in 1 .. Len(queuedCommands) /\ queuedCommands[1] = Head(queuedCommands)
  BY <1>0 DEF TypeOK, LuaTypeOK
<1> QED
  BY <1>6, <1>7, <1>8, <1>9 DEF HasCommand, NextCommand

\* The polling loop, which refuses it, meets no setBreakpoints.
LEMMA SetNotPolled ==
  ASSUME SessionInv, FlushInv, BootInv, ~closed, HasCommand, lpc = "poll"
  PROVE  NextCommand.cmd # "setBreakpoints"
<1> SUFFICES ASSUME NextCommand.cmd = "setBreakpoints" PROVE FALSE
  OBVIOUS
<1>0. TypeOK /\ CallInv /\ PhaseInv /\ ControlInv /\ AddressInv
  BY DEF SessionInv
<1>1. NextCommand \in AddressedCommands
  BY <1>0, TakenFrom DEF AddressInv
<1>2. NextCommand.by \in Callers
  BY <1>1 DEF AddressedCommands
<1>3. NextCommand.by \in pending
  BY <1>2, CommandPending
<1>4. pc[NextCommand.by] = "await"
  BY <1>0, <1>2, <1>3 DEF CallInv, CallSlot
<1>5. Launched
  BY <1>0 DEF BootInv, Starting, PhaseInv
<1>6. NextCommand.by # "handshake"
  BY <1>4, <1>5 DEF FlushInv
<1>7. NextCommand.by \notin Flushers
  <2>1. ~Blind
    BY DEF FlushInv, BlindRun
  <2> QED
    BY <1>4, <2>1 DEF FlushInv, Applying
<1>8. NextCommand.by = "loop"
  BY <1>2, <1>6, <1>7 DEF Callers
<1>9. req = "setBreakpoints"
  BY <1>8, CommandFound
<1>10. paused
  BY <1>3, <1>8, <1>9 DEF FlushInv, Carries
<1> QED
  BY <1>0, <1>10, RunningHolds

\* The first of the line, if it carries no set, is no loss.
LEMMA RestOfLine ==
  ASSUME TypeOK, Line # <<>>, Line' = Tail(Line), ~CarriesSet(Head(Line))
  PROVE  /\ Ordered(Line) => Ordered(Line')
         /\ \A m : CarriesSet(m) => (m \in Held(Line') <=> m \in Held(Line))
<1>1. PICK s \in Seq(Commands) : s = Line
  BY LineType
<1>2. Held(s) = Held(Tail(s)) \union {Head(s)} /\ (Ordered(s) => Ordered(Tail(s)))
  BY <1>1, HeldInTail
<1> QED
  BY <1>1, <1>2

LEMMA OrderByLua ==
  ASSUME SessionInv, FlushInv, BootInv, InOrder, ~closed, LuaMoves, UNCHANGED adapterVars,
         ~eof', Blind /\ Postponed => Blind'
  PROVE  InOrder'
<1>0. TypeOK
  BY DEF SessionInv
<1>1. commands' = commands
  BY DEF adapterVars
<1>2. \A f \in Files : Due(f)' = Due(f)
  BY DEF adapterVars, callVars, clientVars, Due, Carries
<1>3. Blind /\ Postponed => Blind' /\ Postponed'
  BY DEF adapterVars, callVars, setVars, Postponed
<1>4. ASSUME NEW kind \in {"reply", "error"}, NEW pre, Serves(kind, pre) PROVE InOrder'
  <2>1. HasCommand /\ TakeCommand /\ Handles(kind, NextCommand)
    BY <1>4 DEF Serves
  <2>2. Line # <<>> /\ NextCommand = Head(Line) /\ Line' = Tail(Line)
    BY <1>0, <1>1, <2>1, TakenLine
  <2>3. CASE CarriesSet(NextCommand)
    <3>1. lpc = "poll" => NextCommand.cmd = "updateBreakpoints"
      BY <2>1, <2>3, SetNotPolled DEF CarriesSet, SetCommands
    <3>2. breakpoints' = [breakpoints EXCEPT ![NextCommand.file] = NextCommand.ver]
      BY <2>1, <2>3, <3>1 DEF Handles, CarriesSet
    <3> QED
      BY <1>0, <1>2, <1>3, <2>2, <2>3, <3>2, OrderApplied
  <2>4. CASE ~CarriesSet(NextCommand)
    <3>1. breakpoints' = breakpoints
      BY <2>1, <2>4 DEF Handles, CarriesSet
    <3> QED
      BY <1>0, <1>2, <1>3, <2>2, <2>4, <3>1, RestOfLine, OrderKept DEF InOrder
  <2> QED
    BY <2>3, <2>4
<1>5. CASE BeginsQuery
  <2>1. HasCommand /\ TakeCommand /\ ~CarriesSet(NextCommand) /\ breakpoints' = breakpoints
    BY <1>5 DEF BeginsQuery, CarriesSet, SetCommands
  <2>2. Line # <<>> /\ NextCommand = Head(Line) /\ Line' = Tail(Line)
    BY <1>0, <1>1, <2>1, TakenLine
  <2> QED
    BY <1>0, <1>2, <1>3, <2>1, <2>2, RestOfLine, OrderKept DEF InOrder
<1>6. CASE Keeps
  <2>1. Line' = Line /\ breakpoints' = breakpoints
    BY <1>0, <1>1, <1>6, KeptLine DEF Keeps
  <2> QED
    BY <1>2, <1>3, <2>1, OrderKept DEF InOrder
<1>7. CASE EndsQuery \/ Stops \/ Goes
  <2>1. PathRead /\ breakpoints' = breakpoints
    BY <1>7 DEF EndsQuery, Stops, Goes
  <2> QED
    BY <1>0, <1>1, <1>2, <1>3, <2>1, PathReadLine, OrderKept DEF InOrder
<1> QED
  BY <1>0, <1>4, <1>5, <1>6, <1>7, ShapeOfLua DEF LuaShape, Ends

-----------------------------------------------------------------------------
\* The set answered last is another one only once the request loop sends or
\* postpones a set.
LEMMA DueFrame ==
  ASSUME SessionInv, SessionInv', Up, FlushInv, [Next]_vars, ~eof',
         ~Call("loop"), ~Decide("loop"), ~Notify("loop")
  PROVE  \A f \in Files : Due(f)' = Due(f)
<1>0. TypeOK /\ CallInv /\ PhaseInv /\ ~Crash
  BY StaysOpen DEF SessionInv
<1>1. "loop" \in Callers /\ pc \in [Callers -> PCs]
  BY <1>0, CallerNames DEF TypeOK, AdapterTypeOK
<1>2. CASE /\ UNCHANGED <<req, acked>>
           /\ job'["loop"] = job["loop"] /\ pc'["loop"] = pc["loop"]
           /\ outcome'["loop"] = outcome["loop"] \/ "loop" \in pending
  <2>1. Carries => (outcome'["loop"] = "error" <=> outcome["loop"] = "error")
    <3> SUFFICES ASSUME Carries, outcome'["loop"] # outcome["loop"]
                 PROVE  outcome'["loop"] # "error" /\ outcome["loop"] # "error"
      OBVIOUS
    <3>1. outcome["loop"] = "none"
      BY <1>0, <1>1, <1>2 DEF CallInv, CallSlot
    <3>2. Launched /\ protocol \in Seq(Unrefused) /\ req' = "setBreakpoints"
      BY <1>2 DEF FlushInv, Carries
    <3>3. ~LoopResponds
      BY <3>2 DEF LoopResponds
    <3>4. /\ Read /\ protocol # <<>> /\ Head(protocol).to = "loop"
          /\ outcome'["loop"] = IF Head(protocol).kind = "error" THEN "error" ELSE "ok"
      BY <3>2, <3>3, OutcomeFrame
    <3>5. Head(protocol) \in Unrefused
      BY <3>2, <3>4, HeadAndTail
    <3> QED
      BY <3>1, <3>4, <3>5 DEF Unrefused
  <2>2. Carries' <=> Carries
    BY <1>2 DEF Carries
  <2> QED
    BY <1>2, <2>1, <2>2 DEF Due
<1>3. CASE ClientStep
  <2>1. req = "none" /\ acked' = acked
    BY <1>0, <1>3, ClientLoop
  <2>2. req' # "setBreakpoints" \/ pc'["loop"] # "await"
    <3>1. ASSUME NEW f \in Files, SetBreakpointsRequest(f) PROVE pc'["loop"] = "lock"
      BY <1>1, <3>1 DEF SetBreakpointsRequest, Goto
    <3> QED
      BY <1>0, <1>3, <3>1, ClientLoop
  <2> QED
    BY <2>1, <2>2 DEF Due, Carries
<1>4. CASE Start \/ HandshakeDone \/ HandshakeFailed
  <2>1. pc["loop"] # "await" /\ req' # "setBreakpoints" /\ acked' = acked
    BY <1>4 DEF Start, Launch, LoopIdle, HandshakeDone, HandshakeFailed, clientVars
  <2> QED
    BY <2>1 DEF Due, Carries
<1>5. CASE LockBpRequest
  <2>1. pc["loop"] # "await" /\ pc'["loop"] # "await" /\ acked' = acked
    BY <1>1, <1>5 DEF LockBpRequest, Goto, clientVars
  <2> QED
    BY <2>1 DEF Due
<1>6. CASE LoopResponds
  <2>1. pc["loop"] = "await" /\ req' = "none"
    BY <1>6 DEF LoopResponds
  <2>2. \A f \in Files : acked'[f] = Due(f)
    BY <1>0, <1>6, <2>1 DEF LoopResponds, Due, Carries, TypeOK, AdapterTypeOK
  <2> QED
    BY <2>1, <2>2 DEF Due, Carries
<1> QED
  BY <1>0, <1>2, <1>3, <1>4, <1>5, <1>6, LoopFrame

\* A command that nobody but the request loop may queue with a set.
LEMMA QueuedSet ==
  ASSUME TypeOK, FlushInv, SetsInv, NEW e, Queues(e), CarriesSet(e)
  PROVE  Call("loop") \/ Notify("loop")
<1>1. ASSUME NEW c \in Callers, Call(c), e = CommandOf(c) PROVE c = "loop"
  <2>1. c # "handshake"
    BY <1>1 DEF CommandOf, Command, CarriesSet, SetCommands
  <2>2. c \notin Flushers
    BY <1>1 DEF Call, FlushInv
  <2> QED
    BY <2>1, <2>2 DEF Callers
<1>2. ASSUME NEW c \in Callers, Notify(c) PROVE c = "loop"
  BY <1>2 DEF Notify, FlushInv, SetsInv, LoopSet, Callers
<1>3. \A f : e # Command("resolved", Nobody, f, 0)
  BY DEF Command, CarriesSet, SetCommands
<1> QED
  BY <1>1, <1>2, <1>3 DEF Queues

\* What the request loop sends or postpones.
LEMMA AppendedLine ==
  ASSUME TypeOK, NEW e \in Commands, commands' = Append(commands, e),
         UNCHANGED <<stdin, queuedCommands>>
  PROVE  Line' = Append(Line, e)
<1>1. /\ commands \in Seq(Commands) /\ stdin \in Seq(Commands)
      /\ queuedCommands \in Seq(Commands) /\ stdin \o commands \in Seq(Commands)
  BY LineType
<1>2. stdin \o Append(commands, e) = Append(stdin \o commands, e)
  BY <1>1, AppendedBehind
<1>3. queuedCommands \o Append(stdin \o commands, e) = Append(Line, e)
  BY <1>1, AppendedBehind DEF Line
<1> QED
  BY <1>2, <1>3 DEF Line

LEMMA UnsetLine ==
  ASSUME TypeOK, NEW e \in Commands, Line' = Append(Line, e), ~CarriesSet(e)
  PROVE  /\ Ordered(Line) => Ordered(Line')
         /\ \A m : CarriesSet(m) => (m \in Held(Line') <=> m \in Held(Line))
<1>1. PICK s \in Seq(Commands) : s = Line
  BY LineType
<1>2. /\ Held(Append(s, e)) = Held(s) \union {e}
      /\ Ordered(s) => Ordered(Append(s, e))
  BY HeldInAppended
<1> QED
  BY <1>1, <1>2

\* A request that carries no set.
LEMMA OrderByOther ==
  ASSUME SessionInv, SetsInv, InOrder, UNCHANGED luaVars, ~Carries,
         Call("loop") \/ Decide("loop") \/ Notify("loop"),
         Blind /\ Postponed => Blind' /\ Postponed'
  PROVE  InOrder'
<1>0. TypeOK /\ "loop" \in Callers
  BY CallerNames DEF SessionInv
<1>1. UNCHANGED <<req, acked, stdin>>
  BY DEF Call, Decide, Notify, clientVars, wireVars
<1>2. \A f \in Files : Due(f)' = Due(f)
  BY <1>1 DEF Due, Carries
<1>3. UNCHANGED <<breakpoints, queuedCommands>>
  BY DEF luaVars
<1>4. CASE UNCHANGED commands
  <2>1. Line' = Line
    BY <1>1, <1>3, <1>4 DEF Line
  <2> QED
    BY <1>2, <1>3, <2>1, OrderKept DEF InOrder
<1>5. ASSUME NEW e \in Commands, commands' = Append(commands, e), e.cmd \notin SetCommands
      PROVE  InOrder'
  <2>1. Line' = Append(Line, e)
    BY <1>0, <1>1, <1>3, <1>5, AppendedLine
  <2>2. ~CarriesSet(e)
    BY <1>5 DEF CarriesSet
  <2> QED
    BY <1>0, <1>2, <1>3, <2>1, <2>2, UnsetLine, OrderKept DEF InOrder
<1>6. ~Decide("loop")
  BY <1>0 DEF Decide, Carries, TypeOK, AdapterTypeOK
<1>7. CASE Call("loop")
  <2>1. CommandOf("loop") \in Commands
    BY <1>0, <1>7, CommandOfType DEF Call, TypeOK
  <2>2. CommandOf("loop").cmd \notin SetCommands
    <3>1. CommandOf("loop").cmd = req
      BY DEF Carries, CommandOf, Command
    <3>2. req \in Resumes \union {"query"}
      BY <1>0, <1>7 DEF Call, TypeOK, AdapterTypeOK, Carries
    <3> QED
      BY <3>1, <3>2 DEF Resumes, SetCommands
  <2>3. commands' = commands \/ commands' = Append(commands, CommandOf("loop"))
    BY <1>7 DEF Call
  <2> QED
    BY <1>4, <1>5, <2>1, <2>2, <2>3
<1>8. CASE Notify("loop")
  <2>1. req = "pause"
    BY <1>8 DEF Notify, SetsInv, LoopSet, Carries
  <2>2. commands' = commands \/ commands' = Append(commands, Command("pause", Nobody, NoFile, 0))
    BY <1>8, <2>1 DEF Notify
  <2>3. Command("pause", Nobody, NoFile, 0) \in Commands
    BY CommandType, ZeroIsVersion DEF CommandNames
  <2>4. Command("pause", Nobody, NoFile, 0).cmd \notin SetCommands
    BY DEF Command, SetCommands
  <2> QED
    BY <1>4, <1>5, <2>2, <2>3, <2>4
<1> QED
  BY <1>6, <1>7, <1>8

\* The set of a request is called with, notified or postponed.
LEMMA OrderBySet ==
  ASSUME Live, SessionInv, SessionInv', Up, SetsInv, ModeInv, InOrder, Fresh,
         [Next]_vars, ~eof', UNCHANGED luaVars, Carries,
         Call("loop") \/ Decide("loop") \/ Notify("loop"),
         Blind /\ Postponed => Blind' /\ Postponed'
  PROVE  InOrder'
<1>0. /\ TypeOK /\ TypeOK' /\ CallInv /\ PhaseInv /\ "loop" \in Callers
      /\ ~eof /\ ~closed /\ (Launched => Spawned) /\ FlushInv
  BY StaysOpen, CallerNames DEF SessionInv, ModeInv
<1>1. UNCHANGED <<req, acked, stdin, job, breakpoints, queuedCommands>>
  BY DEF Call, Decide, Notify, clientVars, wireVars, luaVars
<1>2. /\ pc["loop"] # "await" /\ outcome["loop"] = "none"
      /\ pc \in [Callers -> PCs] /\ outcome \in [Callers -> Outcomes]
  BY <1>0 DEF Call, Decide, Notify, CallInv, CallSlot, TypeOK, AdapterTypeOK
<1> DEFINE g == job["loop"].file
           v == job["loop"].ver
<1>3. g \in Files /\ v = nextSet
  BY DEF SetsInv, LoopSet
<1>4. \A f \in Files : Due(f) = acked[f] /\ acked[f] < v
  BY <1>2, <1>3 DEF Due, Fresh
<1>5. \A f \in Files :
        Due(f)' = IF pc'["loop"] = "await" /\ outcome'["loop"] # "error" /\ g = f
                  THEN v ELSE acked[f]
  BY <1>1 DEF Due, Carries
<1>6. v \in Versions
  BY <1>0 DEF TypeOK, AdapterTypeOK
<1> HIDE DEF g, v
<1>7. CASE /\ UNCHANGED commands /\ (pc'["loop"] # "await" \/ outcome'["loop"] = "error")
  <2>1. Line' = Line
    BY <1>1, <1>7 DEF Line
  <2>2. \A f \in Files : Due(f)' = Due(f)
    BY <1>4, <1>5, <1>7
  <2> QED
    BY <1>1, <2>1, <2>2, OrderKept DEF InOrder
<1>8. ASSUME NEW e \in Commands, commands' = Append(commands, e), CarriesSet(e),
             e.file = g, e.ver = v, pc'["loop"] = "await", outcome'["loop"] # "error"
      PROVE  InOrder'
  <2>1. Line' = Append(Line, e)
    BY <1>0, <1>1, <1>8, AppendedLine
  <2>2. \A f \in Files : Due(f)' = IF f = e.file THEN e.ver ELSE Due(f)
    BY <1>4, <1>5, <1>8
  <2> QED
    BY <1>0, <1>1, <1>3, <1>4, <1>8, <2>1, <2>2, OrderSent
<1>9. CASE Call("loop")
  <2>1. pc'["loop"] = "await"
    BY <1>0, <1>2, <1>9 DEF Call, Goto
  <2>2. CASE Refused
    <3>1. commands' = commands /\ outcome'["loop"] = "error"
      BY <1>0, <1>2, <1>9, <2>2 DEF Call, Finish
    <3> QED
      BY <1>7, <3>1
  <2>3. CASE ~Refused
    <3>1. commands' = Append(commands, CommandOf("loop")) /\ outcome' = outcome
      BY <1>9, <2>3 DEF Call
    <3>2. CommandOf("loop") = Command("setBreakpoints", "loop", g, v)
      BY DEF CommandOf, Carries, g, v
    <3>3. CommandOf("loop") \in Commands
      BY <1>0, <1>9, CommandOfType DEF Call, TypeOK
    <3>4. /\ CarriesSet(CommandOf("loop"))
          /\ CommandOf("loop").file = g /\ CommandOf("loop").ver = v
      BY <3>2 DEF Command, CarriesSet, SetCommands
    <3> QED
      BY <1>2, <1>8, <2>1, <3>1, <3>3, <3>4
  <2> QED
    BY <2>2, <2>3
<1>10. CASE Notify("loop")
  <2>1. pc'["loop"] = "await"
    BY <1>0, <1>2, <1>10 DEF Notify, Goto
  <2>2. CASE Refused
    <3>1. commands' = commands /\ outcome'["loop"] = "error"
      BY <1>0, <1>2, <1>10, <2>2 DEF Notify, Finish
    <3> QED
      BY <1>7, <3>1
  <2>3. CASE ~Refused
    <3>1. /\ commands' = Append(commands, Command("updateBreakpoints", Nobody, g, v))
          /\ outcome'["loop"] = "queued"
      BY <1>0, <1>2, <1>10, <2>3 DEF Notify, Finish, Carries, g, v
    <3>2. Command("updateBreakpoints", Nobody, g, v) \in Commands
      BY <1>3, <1>6, CommandType DEF CommandNames
    <3>3. /\ CarriesSet(Command("updateBreakpoints", Nobody, g, v))
          /\ Command("updateBreakpoints", Nobody, g, v).file = g
          /\ Command("updateBreakpoints", Nobody, g, v).ver = v
      BY DEF Command, CarriesSet, SetCommands
    <3> QED
      BY <1>8, <2>1, <3>1, <3>2, <3>3
  <2> QED
    BY <2>2, <2>3
<1>11. CASE Decide("loop")
  <2>1. commands' = commands
    BY <1>11 DEF Decide
  <2>2. CASE pc'["loop"] # "await"
    BY <1>7, <2>1, <2>2
  <2>3. CASE pc'["loop"] = "await"
    <3>1. Launched
      BY <1>0 DEF FlushInv
    <3>2. ~liveControl /\ pendingBreakpoints' = [pendingBreakpoints EXCEPT ![g] = v]
      BY <1>0, <1>2, <1>11, <2>3, <3>1 DEF Decide, Goto, g, v
    <3>3. Blind
      BY <3>1, <3>2 DEF Blind, Carries
    <3>4. Blind'
      BY <1>0, <3>3, BlindStays
    <3>5. v # 0
      <4>1. acked[g] \in Versions /\ acked[g] < v
        BY <1>0, <1>3, <1>4 DEF TypeOK, AdapterTypeOK
      <4> QED
        BY <4>1, WireAssumption DEF Versions
    <3>6. Postponed'
      <4>1. pendingBreakpoints'[g] = v
        BY <1>0, <1>3, <3>2 DEF TypeOK, AdapterTypeOK
      <4>2. pendingBreakpoints' # NoSets
        BY <1>3, <3>5, <4>1 DEF NoSets
      <4> QED
        BY <4>2 DEF Postponed
    <3>7. \A f \in Files : Due(f) <= Due(f)'
      <4>1. \A f \in Files : acked[f] \in Int
        BY <1>0, WireAssumption DEF TypeOK, AdapterTypeOK, Versions
      <4>2. v \in Int
        BY <1>6, WireAssumption DEF Versions
      <4> QED
        BY <1>4, <1>5, <4>1, <4>2
    <3>8. Line' = Line
      BY <1>1, <2>1 DEF Line
    <3> QED
      BY <1>0, <1>1, <3>4, <3>6, <3>7, <3>8, OrderPostponed
  <2> QED
    BY <2>2, <2>3
<1> QED
  BY <1>9, <1>10, <1>11

LEMMA OrderByAdapter ==
  ASSUME Live, SessionInv, SessionInv', Up, SetsInv, ModeInv, InOrder, Fresh,
         [Next]_vars, ~eof', AdapterStep, UNCHANGED luaVars,
         Blind /\ Postponed => Blind' /\ Postponed'
  PROVE  InOrder'
<1>0. TypeOK /\ FlushInv /\ breakpoints' = breakpoints
  BY StaysOpen DEF SessionInv, ModeInv, luaVars
<1>1. CASE Call("loop") \/ Decide("loop") \/ Notify("loop")
  BY <1>1, OrderByOther, OrderBySet
<1>2. CASE ~(Call("loop") \/ Decide("loop") \/ Notify("loop"))
  <2>1. \A f \in Files : Due(f)' = Due(f)
    BY <1>0, <1>2, DueFrame
  <2>2. CASE Line' = Line
    BY <1>0, <2>1, <2>2, OrderKept DEF InOrder
  <2>3. ASSUME NEW e \in Commands, Queues(e), Line' = Append(Line, e) PROVE InOrder'
    <3>1. ~CarriesSet(e)
      BY <1>0, <1>2, <2>3, QueuedSet
    <3> QED
      BY <1>0, <2>1, <2>3, <3>1, UnsetLine, OrderKept DEF InOrder
  <2> QED
    BY <1>0, <2>2, <2>3, AdapterLine
<1> QED
  BY <1>1, <1>2

\* A postponed set stays so as long as the run is blind.
LEMMA PostponedStep ==
  ASSUME SessionInv, SessionInv', Up, SetsInv, FlushInv, Fresh, Named, [Next]_vars, ~eof',
         Blind, Postponed
  PROVE  Postponed'
<1>0. /\ TypeOK /\ PhaseInv /\ ~Crash
      /\ pc \in [Callers -> PCs] /\ queued \in [Flushers -> [Files -> Versions]]
      /\ pendingBreakpoints \in [Files -> Versions]
  BY StaysOpen DEF SessionInv, TypeOK, AdapterTypeOK
<1>1. ~paused /\ ~liveControl
  BY DEF FlushInv, Blind
<1>2. ASSUME NEW c \in Callers, Decide(c) PROVE Postponed'
  <2> DEFINE g == job[c].file
             v == job[c].ver
  <2>1. pendingBreakpoints' = [pendingBreakpoints EXCEPT ![g] = v] /\ pc[c] = "decide"
    BY <1>1, <1>2 DEF Decide
  <2>2. g \in Files /\ v # 0
    <3>1. CASE c \in Flushers
      <4>1. <<job[c].file, job[c].ver>> \in Allowed
        BY <2>1, <3>1 DEF SetsInv, HeldSets, Applying
      <4>2. <<job[c].file, job[c].ver>> \in Files \X Versions
        BY <4>1 DEF Allowed
      <4> QED
        BY <2>1, <3>1, <4>2 DEF Named
    <3>2. CASE c = "loop"
      <4>1. Carries
        BY <1>0, <2>1, <3>2 DEF TypeOK, AdapterTypeOK, Carries
      <4>2. g \in Files /\ v = nextSet
        BY <3>2, <4>1 DEF SetsInv, LoopSet
      <4>3. acked[g] \in Versions /\ acked[g] < nextSet
        BY <1>0, <4>1, <4>2 DEF Fresh, TypeOK, AdapterTypeOK
      <4> QED
        BY <4>2, <4>3, WireAssumption DEF Versions
    <3>3. c # "handshake"
      BY <2>1 DEF SetsInv, LoopSet
    <3> QED
      BY <3>1, <3>2, <3>3 DEF Callers
  <2> HIDE DEF g, v
  <2>3. pendingBreakpoints'[g] = v
    BY <1>0, <2>1, <2>2
  <2>4. pendingBreakpoints' # NoSets
    BY <2>2, <2>3 DEF NoSets
  <2> QED
    BY <2>4 DEF Postponed
<1>3. ASSUME NEW k \in Flushers, NEW f \in Files, FlushFile(k, f) PROVE Postponed'
  <2>1. pc'[k] = "decide"
    BY <1>0, <1>3, FlusherCaller DEF FlushFile, Goto
  <2> QED
    BY <2>1 DEF Postponed
<1>4. ASSUME NEW k \in Flushers, FlushTake(k) PROVE Postponed'
  <2>1. /\ pc[k] = "take" /\ pc' = [pc EXCEPT ![k] = "next"]
        /\ queued' = [queued EXCEPT ![k] = pendingBreakpoints]
    BY <1>4 DEF FlushTake, Goto
  <2>2. queued[k] = NoSets
    BY <2>1 DEF FlushInv
  <2>3. CASE pendingBreakpoints # NoSets
    <3>1. queued'[k] = pendingBreakpoints
      BY <1>0, <2>1
    <3> QED
      BY <2>3, <3>1 DEF Postponed
  <2>4. ASSUME NEW j \in Flushers, queued[j] # NoSets PROVE Postponed'
    <3>1. queued'[j] = queued[j]
      BY <1>0, <2>1, <2>2, <2>4
    <3> QED
      BY <2>4, <3>1 DEF Postponed
  <2>5. ASSUME NEW j \in Flushers, pc[j] = "decide" PROVE Postponed'
    <3>1. pc'[j] = "decide"
      BY <1>0, <2>1, <2>5
    <3> QED
      BY <3>1 DEF Postponed
  <2> QED
    BY <2>3, <2>4, <2>5 DEF Postponed
<1>5. CASE /\ UNCHANGED <<pendingBreakpoints, queued>>
           /\ \A c \in Callers : ~Decide(c)
  <2>1. ASSUME NEW k \in Flushers, pc[k] = "decide" PROVE pc'[k] = "decide"
    <3>1. k \in Callers /\ k # "loop" /\ k # "handshake"
      BY FlusherCaller
    <3>2. ~Call(k) /\ ~Notify(k) /\ ~Idle(k) /\ ~FlusherStep(k)
      BY <2>1 DEF Call, Notify, Idle, FlusherStep, FlushTake, FlushFile, FlushReport, FlushEnd
    <3> QED
      BY <1>0, <1>5, <2>1, <3>1, <3>2, PcFrame
  <2> QED
    BY <1>5, <2>1 DEF Postponed
<1> QED
  BY <1>0, <1>2, <1>3, <1>4, <1>5, HeldFrame

LEMMA NamedStep ==
  ASSUME TypeOK, PhaseInv, Named, [Next]_vars, ~Crash PROVE Named'
<1> SUFFICES ASSUME NEW k \in Flushers, pc'[k] = "decide" PROVE job'[k].ver # 0
  BY DEF Named
<1>0. /\ k \in Callers /\ k # "loop" /\ k # "handshake"
      /\ pc \in [Callers -> PCs]
      /\ job \in [Callers -> [file : Files \union {NoFile}, ver : Versions]]
  BY FlusherCaller DEF TypeOK, AdapterTypeOK
<1>1. ~Call(k) /\ ~Notify(k) /\ ~Decide(k)
  BY <1>0 DEF Call, Notify, Decide, Goto
<1>2. pc'[k] = pc[k] \/ FlusherStep(k)
  BY <1>0, <1>1, PcFrame
<1>3. ASSUME NEW f \in Files, FlushFile(k, f) PROVE job'[k].ver # 0
  BY <1>0, <1>3 DEF FlushFile
<1>4. CASE FlusherStep(k)
  <2>1. FlushTake(k) \/ FlushReport(k) \/ FlushEnd(k) => pc'[k] # "decide"
    BY <1>0 DEF FlushTake, FlushReport, FlushEnd, Goto
  <2> QED
    BY <1>3, <1>4, <2>1 DEF FlusherStep
<1>5. CASE pc'[k] = pc[k] /\ ~FlusherStep(k)
  <2>1. job[k].ver # 0
    BY <1>5 DEF Named
  <2>2. ASSUME NEW c \in Callers, Decide(c) PROVE job'[k] = job[k]
    BY <2>2 DEF Decide
  <2>3. ASSUME NEW j \in Flushers, FlushTake(j) \/ \E f \in Files : FlushFile(j, f)
        PROVE  job'[k] = job[k]
    <3>1. j # k
      BY <1>5, <2>3 DEF FlusherStep
    <3>2. FlushTake(j) => job'[k] = job[k]
      BY DEF FlushTake
    <3>3. ASSUME NEW f \in Files, FlushFile(j, f) PROVE job'[k] = job[k]
      BY <1>0, <3>1, <3>3 DEF FlushFile
    <3> QED
      BY <2>3, <3>2, <3>3
  <2>4. Applying(k)'
    BY DEF Applying
  <2> QED
    BY <2>1, <2>2, <2>3, <2>4, HeldFrame
<1> QED
  BY <1>2, <1>4, <1>5

LEMMA FreshStep ==
  ASSUME TypeOK, PhaseInv, SetsInv, Fresh, [Next]_vars, ~Crash PROVE Fresh'
<1> SUFFICES ASSUME req' = "setBreakpoints" PROVE \A f \in Files : acked'[f] < nextSet'
  BY DEF Fresh, Carries
<1>1. CASE ClientStep
  <2>1. acked' = acked
    BY <1>1, ClientLoop
  <2>2. nextSet' = nextSet + 1
    <3>1. PICK f \in Files : SetBreakpointsRequest(f)
      BY <1>1, ClientLoop
    <3> QED
      BY <3>1 DEF SetBreakpointsRequest
  <2>3. \A f \in Files : acked[f] <= nextSet /\ acked[f] \in Int
    BY WireAssumption DEF SetsInv, Reported, TypeOK, AdapterTypeOK, Versions
  <2>4. nextSet \in Int
    BY WireAssumption DEF TypeOK, AdapterTypeOK
  <2> QED
    BY <2>1, <2>2, <2>3, <2>4
<1>2. CASE UNCHANGED <<req, nextSet, acked>>
  BY <1>2 DEF Fresh, Carries
<1>3. Call("loop") \/ Decide("loop") \/ Notify("loop") \/ LockBpRequest
        => UNCHANGED <<req, nextSet, acked>>
  BY DEF Call, Decide, Notify, LockBpRequest, clientVars
<1>4. ~Start /\ ~HandshakeDone /\ ~HandshakeFailed /\ ~LoopResponds
  BY DEF Start, Launch, HandshakeDone, HandshakeFailed, LoopResponds
<1> QED
  BY <1>1, <1>2, <1>3, <1>4, LoopFrame

LEMMA OrderStep ==
  ASSUME Live, SessionInv, SessionInv', Up, SetsInv, ModeInv, OrderInv, [Next]_vars
  PROVE  OrderInv'
<1> SUFFICES ASSUME ~eof' PROVE InOrder' /\ Fresh' /\ Named'
  BY DEF OrderInv
<1>0. TypeOK /\ PhaseInv /\ ~eof /\ ~closed /\ ~Crash
  BY StaysOpen DEF SessionInv
<1>1. FlushInv /\ BootInv /\ InOrder /\ Fresh /\ Named
  BY <1>0 DEF ModeInv, OrderInv
<1>2. Fresh' /\ Named'
  BY <1>0, <1>1, FreshStep, NamedStep
<1>3. Blind /\ Postponed => Blind' /\ Postponed'
  BY <1>1, BlindStays, PostponedStep
<1>4. CASE LuaMoves /\ UNCHANGED adapterVars
  BY <1>0, <1>1, <1>2, <1>3, <1>4, OrderByLua
<1>5. CASE AdapterStep /\ UNCHANGED luaVars
  BY <1>1, <1>2, <1>3, <1>5, OrderByAdapter
<1>6. CASE Start \/ ProcessWaited \/ UNCHANGED vars
  <2>1. UNCHANGED <<commands, stdin, queuedCommands, breakpoints>>
    BY <1>6 DEF Start, Launch, LuaStart, ProcessWaited, vars, wireVars, adapterVars, luaVars
  <2>2. Line' = Line
    BY <2>1 DEF Line
  <2>3. \A f \in Files : Due(f)' = Due(f)
    <3>1. Start => pc["loop"] # "await" /\ req' = "launch" /\ acked' = acked
      BY DEF Start, Launch, LoopIdle, clientVars
    <3>2. ProcessWaited \/ UNCHANGED vars => UNCHANGED <<req, pc, outcome, job, acked>>
      BY DEF ProcessWaited, vars, adapterVars, callVars, clientVars
    <3> QED
      BY <1>6, <3>1, <3>2 DEF Due, Carries
  <2> QED
    BY <1>1, <1>2, <1>3, <2>1, <2>2, <2>3, OrderKept DEF InOrder
<1> QED
  BY <1>0, <1>2, <1>4, <1>5, <1>6, StepCases

LEMMA OrderInit == Init => OrderInv
<1> SUFFICES ASSUME Init PROVE OrderInv
  OBVIOUS
<1> USE DEF Init, WireInit, LuaInit, AdapterInit
<1>1. Line = <<>>
  BY DEF Line
<1>2. Held(Line) = {} /\ Ordered(Line)
  BY <1>1 DEF Held, Ordered
<1>3. ~Carries /\ \A f \in Files : acked[f] = 0 /\ breakpoints[f] = 0
  BY DEF Carries, NoSets
<1>4. \A f \in Files : Due(f) = 0
  BY <1>3 DEF Due
<1>5. Named
  BY FlusherCaller DEF Named
<1> QED
  BY <1>2, <1>3, <1>4, <1>5 DEF OrderInv, InOrder, Newer, OnItsWay, Fresh

\* In a settled session the sets are where they should be.
LEMMA SettledSets ==
  ASSUME TypeOK, PhaseInv, ModeInv, OrderInv, Quiescent PROVE breakpoints = acked
<1>1. ~eof /\ req = "none" /\ pendingBreakpoints = NoSets /\ \A k \in Flushers : Idle(k)
  BY DEF Quiescent, PhaseInv
<1>2. FlushInv /\ InOrder
  BY <1>1 DEF ModeInv, OrderInv
<1>3. Line = <<>>
  BY DEF Quiescent, Line
<1>4. Held(Line) = {}
  BY <1>3 DEF Held
<1>5. ~Postponed
  BY <1>1, <1>2 DEF Postponed, FlushInv, Idle
<1>6. \A f \in Files : Due(f) = acked[f]
  BY <1>1 DEF Due, Carries
<1>7. \A f \in Files : breakpoints[f] = acked[f]
  BY <1>2, <1>4, <1>5, <1>6 DEF InOrder, OnItsWay
<1> QED
  BY <1>7 DEF TypeOK, LuaTypeOK, AdapterTypeOK

\* When nothing is in flight, the debuggee uses for each file the last set the
\* adapter answered (runtime.go:415-451, debugger.lua:530-568), if it can be
\* reached while it runs and the client waits for the launch response.
THEOREM LastSetIsUsed ==
  ASSUME Live, ~EarlySets PROVE Spec => []LastSetWins
<1> DEFINE I == SessionInv /\ SetsInv /\ Up /\ ModeInv /\ OrderInv
<1>1. Init => I
  BY SessionInit, SetsInit, ModeInit, OrderInit
<1>2. I /\ [Next]_vars => I'
  <2> SUFFICES ASSUME I, [Next]_vars PROVE I'
    OBVIOUS
  <2>1. SessionInv'
    BY SessionStep
  <2>2. SetsInv'
    BY SetsStep DEF SessionInv
  <2>3. Up'
    BY UpStep DEF SessionInv
  <2>4. ModeInv'
    BY <2>1, ModeStep
  <2>5. OrderInv'
    BY <2>1, OrderStep
  <2> QED
    BY <2>1, <2>2, <2>3, <2>4, <2>5
<1>3. I => LastSetWins
  BY SettledSets DEF SessionInv, LastSetWins
<1> QED
  <2> HIDE DEF I
  <2> QED
    BY <1>1, <1>2, <1>3, PTL DEF Spec
=============================================================================
