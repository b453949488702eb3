------------------------- MODULE DebugSession_proofs -------------------------
(***************************************************************************)
(* Theorems about every debug session, whatever the files, the capacities  *)
(* of the channels, the number of flushes and the bounds.                  *)
(***************************************************************************)
EXTENDS DebugSession, TLAPS

-----------------------------------------------------------------------------
(***************************************************************************)
(* Messages, commands and channels.                                        *)
(***************************************************************************)

LEMMA CallerNames == "loop" \in Callers /\ "handshake" \in Callers
BY DEF Callers

LEMMA ZeroIsVersion == 0 \in Versions
BY WireAssumption DEF Versions

\* Messages and commands built from well-formed parts are well formed.
LEMMA MessageType ==
  ASSUME NEW kind \in MessageKinds, NEW to \in Callers \union {Nobody},
         NEW file \in Files \union {NoFile}, NEW ver \in Versions
  PROVE  Message(kind, to, file, ver) \in Messages
BY DEF Message, Messages

LEMMA CommandType ==
  ASSUME NEW cmd \in CommandNames, NEW by \in Callers \union {Nobody},
         NEW file \in Files \union {NoFile}, NEW ver \in Versions
  PROVE  Command(cmd, by, file, ver) \in Commands
BY DEF Command, Commands

LEMMA EventType ==
  ASSUME NEW kind \in EventKinds,
         NEW file \in Files \union {NoFile}, NEW ver \in Versions
  PROVE  Event(kind, file, ver) \in Events
BY DEF Event, Events

\* A reply to a command goes to a caller.
LEMMA AnswerType ==
  ASSUME NEW kind \in {"reply", "error"}, NEW c \in Commands
  PROVE  Answer(kind, c) \in Seq(Messages)
<1>1. /\ c.by \in Callers \union {Nobody} /\ c.file \in Files \union {NoFile}
      /\ c.ver \in Versions /\ kind \in MessageKinds
  BY DEF Commands, MessageKinds
<1>2. Message(kind, c.by, c.file, c.ver) \in Messages
  BY <1>1, MessageType
<1> QED
  BY <1>2 DEF Answer

\* Taking from and adding to a channel.
LEMMA HeadAndTail ==
  ASSUME NEW S, NEW s \in Seq(S), s # <<>>
  PROVE  Head(s) \in S /\ Tail(s) \in Seq(S) /\ Len(Tail(s)) = Len(s) - 1
OBVIOUS

LEMMA Appended ==
  ASSUME NEW S, NEW s \in Seq(S), NEW e \in S
  PROVE  Append(s, e) \in Seq(S) /\ Len(Append(s, e)) = Len(s) + 1
OBVIOUS

LEMMA Joined ==
  ASSUME NEW S, NEW s \in Seq(S), NEW t \in Seq(S)
  PROVE  s \o t \in Seq(S)
OBVIOUS

LEMMA Single == ASSUME NEW S, NEW e \in S PROVE <<e>> \in Seq(S)
OBVIOUS

LEMMA EmitType ==
  ASSUME protocol \in Seq(Messages), NEW ms \in Seq(Messages), Emit(ms)
  PROVE  protocol' \in Seq(Messages)
BY Joined DEF Emit

LEMMA PlainMessages ==
  /\ Stopped \in Messages /\ LuaOutput \in Messages
  /\ \A f \in Files : Message("resolvePath", Nobody, f, 0) \in Messages
  /\ Message("reply", "loop", NoFile, 0) \in Messages
BY MessageType, ZeroIsVersion, CallerNames DEF Stopped, LuaOutput, MessageKinds

\* What readCommand returns, and what it leaves.
LEMMA CommandTaken ==
  ASSUME stdin \in Seq(Commands), queuedCommands \in Seq(Commands),
         HasCommand, TakeCommand
  PROVE  /\ NextCommand \in Commands
         /\ stdin' \in Seq(Commands)
         /\ queuedCommands' \in Seq(Commands)
<1>1. CASE queuedCommands # <<>>
  BY <1>1, HeadAndTail DEF TakeCommand, NextCommand
<1>2. CASE queuedCommands = <<>>
  BY <1>2, HeadAndTail DEF HasCommand, TakeCommand, NextCommand
<1> QED
  BY <1>1, <1>2
-----------------------------------------------------------------------------
(***************************************************************************)
(* Type correctness of the debuggee.                                       *)
(***************************************************************************)

LEMMA DetachType ==
  ASSUME WireTypeOK, LuaTypeOK, Detach
  PROVE  WireTypeOK' /\ LuaTypeOK'
<1>1. WireTypeOK'
  BY DEF Detach, WireTypeOK
<1>2. lpc' \in LuaStates /\ processed' \in 0 .. PollBatch - 1
  BY LuaAssumption DEF Detach, LuaStates
<1>3. LuaTypeOK'
  BY <1>2 DEF Detach, LuaTypeOK
<1> QED
  BY <1>1, <1>3

LEMMA ExitType ==
  ASSUME WireTypeOK, LuaTypeOK, NEW ms \in Seq(Messages), Exit(ms)
  PROVE  WireTypeOK' /\ LuaTypeOK'
<1>1. protocol' \in Seq(Messages)
  BY EmitType DEF Exit, WireTypeOK
<1> QED
  BY <1>1, LuaAssumption DEF Exit, WireTypeOK, LuaTypeOK, LuaStates

\* What leaves the blocking loop keeps the types, whatever it does to a command.
LEMMA HandlerType ==
  ASSUME WireTypeOK, LuaTypeOK, NEW c \in Commands,
         \/ ServeInLoop(c) \/ ServeResume(c)
         \/ ServeResumeThread(c) \/ ServeQueryResolving(c)
  PROVE  /\ protocol' \in Seq(Messages)
         /\ lpc' \in LuaStates /\ at' \in Files \union {NoFile}
         /\ lpc' = "resolve" => at' \in Files
         /\ back' \in {"line", "stop", "query"}
         /\ nest' \in 0 .. MaxNest
         /\ breakpoints' \in [Files -> Versions]
         /\ pauseRequested' \in BOOLEAN /\ stepping' \in BOOLEAN
         /\ noDebug' \in BOOLEAN
<1> USE DEF LuaTypeOK
<1>0. protocol \in Seq(Messages) /\ <<>> \in Seq(Messages)
  BY DEF WireTypeOK
<1>a. Answer("reply", c) \in Seq(Messages) /\ Answer("error", c) \in Seq(Messages)
  BY AnswerType
<1>1. CASE ServeInLoop(c)
  <2>1. CASE SetBreakpointsHandler(c)
    <3>1. c.ver \in Versions /\ c.file \in Files \union {NoFile}
      BY DEF Commands
    <3>2. Message("breakpointsChanged", Nobody, c.file, c.ver) \in Messages
      BY <3>1, MessageType DEF MessageKinds
    <3>3. <<Message("breakpointsChanged", Nobody, c.file, c.ver)>> \in Seq(Messages)
      BY <3>2, Single
    <3>4. protocol' \in Seq(Messages)
      BY <2>1, <3>3, <1>0, <1>a, Joined, EmitType DEF SetBreakpointsHandler
    <3> QED
      BY <1>1, <2>1, <3>1, <3>4 DEF ServeInLoop, SetBreakpointsHandler
  <2>2. CASE PauseHandler(c)
    <3>1. protocol' \in Seq(Messages)
      BY <2>2, <1>0, <1>a, EmitType DEF PauseHandler
    <3> QED
      BY <1>1, <2>2, <3>1 DEF ServeInLoop, PauseHandler
  <2>3. CASE /\ c.cmd \in {"capabilities", "resolved"}
             /\ Emit(Answer(IF c.cmd = "resolved" THEN "error" ELSE "reply", c))
             /\ UNCHANGED <<breakpoints, pauseRequested>>
    <3>1. protocol' \in Seq(Messages)
      BY <2>3, <1>0, <1>a, EmitType
    <3> QED
      BY <1>1, <2>3, <3>1 DEF ServeInLoop
  <2>4. CASE ServeQuery(c) /\ UNCHANGED <<breakpoints, pauseRequested>>
    <3>1. protocol' \in Seq(Messages)
      BY <2>4, <1>0, <1>a, EmitType DEF ServeQuery
    <3> QED
      BY <1>1, <2>4, <3>1 DEF ServeInLoop
  <2> QED
    BY <1>1, <2>1, <2>2, <2>3, <2>4 DEF ServeInLoop
<1>2. CASE ServeResume(c)
  <2>1. protocol' \in Seq(Messages)
    BY <1>2, <1>0, <1>a, EmitType DEF ServeResume
  <2> QED
    BY <1>2, <2>1 DEF ServeResume, LuaStates
<1>3. CASE ServeResumeThread(c)
  <2>1. protocol' \in Seq(Messages)
    BY <1>3, <1>0, <1>a, EmitType DEF ServeResumeThread
  <2>2. nest' \in 0 .. MaxNest
    BY <1>3, LuaAssumption DEF ServeResumeThread
  <2> QED
    BY <1>3, <2>1, <2>2 DEF ServeResumeThread, LuaStates
<1>4. CASE ServeQueryResolving(c)
  <2>1. PICK f \in Files : at' = f /\ Emit(<<Message("resolvePath", Nobody, f, 0)>>)
    BY <1>4 DEF ServeQueryResolving
  <2>2. protocol' \in Seq(Messages)
    BY <2>1, <1>0, PlainMessages, Single, EmitType
  <2> QED
    BY <1>4, <2>1, <2>2 DEF ServeQueryResolving, LuaStates
<1> QED
  BY <1>1, <1>2, <1>3, <1>4

LEMMA LuaLoopType ==
  ASSUME WireTypeOK, LuaTypeOK, LuaLoopStep
  PROVE  WireTypeOK' /\ LuaTypeOK'
<1>1. CASE LuaCommand
  <2>1. /\ NextCommand \in Commands
        /\ stdin' \in Seq(Commands) /\ queuedCommands' \in Seq(Commands)
    BY <1>1, CommandTaken DEF LuaCommand, WireTypeOK, LuaTypeOK
  <2>2. /\ protocol' \in Seq(Messages)
        /\ lpc' \in LuaStates /\ at' \in Files \union {NoFile}
        /\ lpc' = "resolve" => at' \in Files
        /\ back' \in {"line", "stop", "query"}
        /\ nest' \in 0 .. MaxNest
        /\ breakpoints' \in [Files -> Versions]
        /\ pauseRequested' \in BOOLEAN /\ stepping' \in BOOLEAN
        /\ noDebug' \in BOOLEAN
    BY <1>1, <2>1, HandlerType DEF LuaCommand
  <2> QED
    BY <1>1, <2>1, <2>2 DEF LuaCommand, WireTypeOK, LuaTypeOK
<1>2. CASE StreamEnded
  <2>1. <<>> \in Seq(Messages)
    OBVIOUS
  <2> QED
    BY <1>2, <2>1, DetachType, ExitType DEF StreamEnded
<1>3. CASE FailedProgramEnds
  <2>1. <<LuaOutput>> \in Seq(Messages)
    BY PlainMessages, Single
  <2> QED
    BY <1>3, <2>1, ExitType DEF FailedProgramEnds
<1> QED
  BY <1>1, <1>2, <1>3 DEF LuaLoopStep

\* pause() and resolvePath send one message each.
LEMMA PauseType ==
  ASSUME WireTypeOK, LuaTypeOK, Pause
  PROVE  /\ protocol' \in Seq(Messages)
         /\ lpc' \in LuaStates /\ at' \in Files \union {NoFile}
         /\ lpc' = "resolve" => at' \in Files
         /\ back' \in {"line", "stop", "query"}
         /\ pauseRequested' \in BOOLEAN /\ stepping' \in BOOLEAN
BY PlainMessages, Single, EmitType DEF Pause, WireTypeOK, LuaStates

LEMMA BlindPauseType ==
  ASSUME WireTypeOK, LuaTypeOK, PauseUnlessBlind
  PROVE  /\ protocol' \in Seq(Messages)
         /\ lpc' \in LuaStates /\ at' \in Files \union {NoFile}
         /\ lpc' = "resolve" => at' \in Files
         /\ back' \in {"line", "stop", "query"}
         /\ pauseRequested' \in BOOLEAN /\ stepping' \in BOOLEAN
<1>1. CASE ~noDebug
  BY <1>1, PauseType DEF PauseUnlessBlind
<1>2. CASE noDebug
  BY <1>2 DEF PauseUnlessBlind, WireTypeOK, LuaTypeOK, LuaStates
<1> QED
  BY <1>1, <1>2 DEF PauseUnlessBlind

LEMMA AskPathType ==
  ASSUME WireTypeOK, LuaTypeOK, NEW f \in Files,
         NEW then \in {"line", "stop", "query"}, AskPath(f, then)
  PROVE  /\ protocol' \in Seq(Messages)
         /\ lpc' \in LuaStates /\ at' \in Files \union {NoFile}
         /\ lpc' = "resolve" => at' \in Files
         /\ back' \in {"line", "stop", "query"}
         /\ pauseRequested' \in BOOLEAN /\ stepping' \in BOOLEAN
<1>1. protocol' \in Seq(Messages)
  BY PlainMessages, Single, EmitType DEF AskPath, WireTypeOK
<1> QED
  BY <1>1 DEF AskPath, LuaTypeOK, LuaStates

LEMMA LuaHookType ==
  ASSUME WireTypeOK, LuaTypeOK, LuaHookStep
  PROVE  WireTypeOK' /\ LuaTypeOK'
<1>1. CASE PollCommand
  <2> DEFINE c == NextCommand
  <2>1. c \in Commands /\ stdin' \in Seq(Commands) /\ queuedCommands' \in Seq(Commands)
    BY <1>1, CommandTaken DEF PollCommand, WireTypeOK, LuaTypeOK
  <2>2. /\ Answer("reply", c) \in Seq(Messages)
        /\ Answer("error", c) \in Seq(Messages)
        /\ <<>> \in Seq(Messages)
        /\ c.ver \in Versions
        /\ <<Message("breakpointsChanged", Nobody, c.file, c.ver)>> \in Seq(Messages)
    <3>1. c.ver \in Versions /\ c.file \in Files \union {NoFile}
      BY <2>1 DEF Commands
    <3>2. Message("breakpointsChanged", Nobody, c.file, c.ver) \in Messages
      BY <3>1, MessageType DEF MessageKinds
    <3> QED
      BY <2>1, <3>1, <3>2, AnswerType, Single
  <2> HIDE DEF c
  <2>3. /\ protocol' \in Seq(Messages)
        /\ breakpoints' \in [Files -> Versions]
        /\ pauseRequested' \in BOOLEAN
    <3>1. CASE PauseHandler(c)
      BY <3>1, <2>2, EmitType DEF PauseHandler, WireTypeOK, LuaTypeOK
    <3>2. CASE SetBreakpointsHandler(c)
      <4>1. protocol' \in Seq(Messages)
        BY <3>2, <2>2, Joined, EmitType DEF SetBreakpointsHandler, WireTypeOK
      <4> QED
        BY <3>2, <4>1, <2>2 DEF SetBreakpointsHandler, LuaTypeOK
    <3>3. CASE Emit(Answer("error", c)) /\ UNCHANGED <<breakpoints, pauseRequested>>
      BY <3>3, <2>2, EmitType DEF WireTypeOK, LuaTypeOK
    <3> QED
      BY <1>1, <3>1, <3>2, <3>3 DEF PollCommand, c
  <2>4. processed' \in 0 .. PollBatch - 1 /\ lpc' \in LuaStates
    BY <1>1, LuaAssumption DEF PollCommand, LuaTypeOK, LuaStates
  <2> QED
    BY <1>1, <2>1, <2>3, <2>4 DEF PollCommand, WireTypeOK, LuaTypeOK
<1>2. CASE PollEmpty
  <2>1. processed' \in 0 .. PollBatch - 1 /\ lpc' \in LuaStates
    BY <1>2, LuaAssumption DEF PollEmpty, LuaStates
  <2> QED
    BY <1>2, <2>1 DEF PollEmpty, WireTypeOK, LuaTypeOK, wireVars
<1>3. CASE HookReturn
  BY <1>3 DEF HookReturn, WireTypeOK, LuaTypeOK, LuaStates, wireVars
<1>4. CASE HookStop
  <2>1. /\ protocol' \in Seq(Messages)
        /\ lpc' \in LuaStates /\ at' \in Files \union {NoFile}
        /\ lpc' = "resolve" => at' \in Files
        /\ back' \in {"line", "stop", "query"}
        /\ pauseRequested' \in BOOLEAN /\ stepping' \in BOOLEAN
    <3>1. at \in Files
      BY <1>4 DEF HookStop, LuaTypeOK
    <3> QED
      BY <1>4, <3>1, AskPathType, PauseType DEF HookStop
  <2> QED
    BY <1>4, <2>1 DEF HookStop, WireTypeOK, LuaTypeOK
<1>5. CASE ResolveQueue
  <2>1. stdin' \in Seq(Commands) /\ queuedCommands' \in Seq(Commands)
    BY <1>5, HeadAndTail, Appended
       DEF ResolveQueue, KeepCommand, WireTypeOK, LuaTypeOK
  <2> QED
    BY <1>5, <2>1 DEF ResolveQueue, WireTypeOK, LuaTypeOK
<1>6. CASE ResolveDone
  <2>1. stdin' \in Seq(Commands) /\ adapterGone' \in BOOLEAN
    BY <1>6, HeadAndTail DEF ResolveDone, PathKnown, WireTypeOK, LuaTypeOK
  <2>2. /\ protocol' \in Seq(Messages)
        /\ lpc' \in LuaStates /\ at' \in Files \union {NoFile}
        /\ lpc' = "resolve" => at' \in Files
        /\ back' \in {"line", "stop", "query"}
        /\ pauseRequested' \in BOOLEAN /\ stepping' \in BOOLEAN
    <3>1. CASE back = "stop" /\ PauseUnlessBlind
      BY <3>1, BlindPauseType
    <3>2. CASE /\ back = "line" /\ lpc' = "line"
               /\ UNCHANGED <<at, back, pauseRequested, stepping, protocol>>
      BY <3>2 DEF WireTypeOK, LuaTypeOK, LuaStates
    <3>3. CASE /\ back = "query" /\ lpc' = "cmd" /\ back' = "line" /\ at' = NoFile
               /\ Emit(<<Message("reply", "loop", NoFile, 0)>>)
               /\ UNCHANGED <<pauseRequested, stepping>>
      <4>1. protocol' \in Seq(Messages)
        BY <3>3, PlainMessages, Single, EmitType DEF WireTypeOK
      <4> QED
        BY <3>3, <4>1 DEF LuaTypeOK, LuaStates
    <3>4. CASE back = "query" /\ AskNextPath
      <4>1. PICK f \in Files : at' = f /\ Emit(<<Message("resolvePath", Nobody, f, 0)>>)
        BY <3>4 DEF AskNextPath
      <4>2. protocol' \in Seq(Messages)
        BY <4>1, PlainMessages, Single, EmitType DEF WireTypeOK
      <4> QED
        BY <1>6, <3>4, <4>1, <4>2 DEF AskNextPath, ResolveDone, LuaTypeOK
    <3> QED
      BY <1>6, <3>1, <3>2, <3>3, <3>4 DEF ResolveDone
  <2>3. sourceCache' \in SUBSET Files
    BY <1>6 DEF ResolveDone, LuaTypeOK
  <2> QED
    BY <1>6, <2>1, <2>2, <2>3 DEF ResolveDone, WireTypeOK, LuaTypeOK
<1> QED
  BY <1>1, <1>2, <1>3, <1>4, <1>5, <1>6 DEF LuaHookStep

LEMMA ProgramType ==
  ASSUME WireTypeOK, LuaTypeOK, ProgramStep
  PROVE  WireTypeOK' /\ LuaTypeOK'
<1>1. CASE \E f \in Files \union {NoFile} : HookEnter(f)
  BY <1>1 DEF HookEnter, WireTypeOK, LuaTypeOK, LuaStates, wireVars
<1>2. CASE \E f \in Files : ErrorStop(f)
  <2> PICK f \in Files : ErrorStop(f)
    BY <1>2
  <2>1. /\ protocol' \in Seq(Messages)
        /\ lpc' \in LuaStates /\ at' \in Files \union {NoFile}
        /\ lpc' = "resolve" => at' \in Files
        /\ back' \in {"line", "stop", "query"}
        /\ pauseRequested' \in BOOLEAN /\ stepping' \in BOOLEAN
    BY AskPathType, BlindPauseType DEF ErrorStop
  <2>2. dying' \in BOOLEAN
    BY DEF ErrorStop, LuaTypeOK
  <2> QED
    BY <2>1, <2>2 DEF ErrorStop, WireTypeOK, LuaTypeOK
<1>3. CASE CoroutineReturns
  <2>1. protocol' \in Seq(Messages)
    <3> PICK failed \in BOOLEAN :
          Emit((IF failed THEN <<LuaOutput>> ELSE <<>>) \o <<Stopped>>)
      BY <1>3 DEF CoroutineReturns
    <3>1. (IF failed THEN <<LuaOutput>> ELSE <<>>) \in Seq(Messages)
      BY PlainMessages, Single
    <3>2. <<Stopped>> \in Seq(Messages)
      BY PlainMessages, Single
    <3> QED
      BY <3>1, <3>2, Joined, EmitType DEF WireTypeOK
  <2>2. nest' \in 0 .. MaxNest
    BY <1>3, LuaAssumption DEF CoroutineReturns, LuaTypeOK
  <2> QED
    BY <1>3, <2>1, <2>2 DEF CoroutineReturns, WireTypeOK, LuaTypeOK, LuaStates
<1>4. CASE ProgramPrints
  BY <1>4 DEF ProgramPrints, WireTypeOK, LuaTypeOK, luaVars
<1>5. CASE ProgramEnds
  <2> PICK failed \in BOOLEAN : Exit(IF failed THEN <<LuaOutput>> ELSE <<>>)
    BY <1>5 DEF ProgramEnds
  <2>1. (IF failed THEN <<LuaOutput>> ELSE <<>>) \in Seq(Messages)
    BY PlainMessages, Single
  <2> QED
    BY <2>1, ExitType
<1>6. CASE HostStops \/ SendFails
  BY <1>6, DetachType DEF HostStops, SendFails
<1> QED
  BY <1>1, <1>2, <1>3, <1>4, <1>5, <1>6 DEF ProgramStep
-----------------------------------------------------------------------------
(***************************************************************************)
(* Type correctness of the adapter.                                        *)
(***************************************************************************)

LEMMA QueuedEvent ==
  ASSUME AdapterTypeOK, NEW e \in Events, Push(e)
  PROVE  events' \in Seq(Events) /\ Len(events') <= EvCap
<1>1. events \in Seq(Events) /\ Len(events) \in Nat
  BY DEF AdapterTypeOK
<1>2. events' \in Seq(Events) /\ Len(events') = Len(events) + 1
  BY <1>1, Appended DEF Push
<1> QED
  BY <1>1, <1>2, AdapterAssumption DEF Push, HasRoom

LEMMA QueuedCommand ==
  ASSUME AdapterTypeOK, NEW c \in Commands,
         HasRoom(commands, CmdCap), commands' = Append(commands, c)
  PROVE  commands' \in Seq(Commands) /\ Len(commands') <= CmdCap
<1>1. commands \in Seq(Commands) /\ Len(commands) \in Nat
  BY DEF AdapterTypeOK
<1>2. commands' \in Seq(Commands) /\ Len(commands') = Len(commands) + 1
  BY <1>1, Appended
<1> QED
  BY <1>1, <1>2, AdapterAssumption DEF HasRoom

LEMMA CommandOfType ==
  ASSUME AdapterTypeOK, NEW c \in Callers, pc[c] = "call"
  PROVE  CommandOf(c) \in Commands
<1>1. /\ job[c].file \in Files \union {NoFile} /\ job[c].ver \in Versions
  BY DEF AdapterTypeOK
<1>2. CASE c = "handshake"
  BY <1>2, CommandType, ZeroIsVersion DEF CommandOf, CommandNames
<1>3. CASE c = "loop" /\ req # "setBreakpoints"
  <2>1. req \in CommandNames
    BY <1>3 DEF AdapterTypeOK, Resumes, CommandNames
  <2> QED
    BY <1>3, <2>1, CommandType, ZeroIsVersion DEF CommandOf
<1>4. CASE c # "handshake" /\ ~(c = "loop" /\ req # "setBreakpoints")
  BY <1>1, <1>4, CommandType DEF CommandOf, CommandNames
<1> QED
  BY <1>2, <1>3, <1>4

\* send, SetBreakpoints and notify, by any caller.
LEMMA CallType ==
  ASSUME WireTypeOK, AdapterTypeOK, NEW c \in Callers, Call(c)
  PROVE  WireTypeOK' /\ AdapterTypeOK'
<1> USE DEF Call, flags, setVars, taskVars, clientVars, wireVars
<1>1. WireTypeOK'
  BY DEF WireTypeOK
<1>2. /\ commands' \in Seq(Commands) /\ Len(commands') <= CmdCap
      /\ pending' \in SUBSET Callers
      /\ outcome' \in [Callers -> Outcomes]
  <2>1. CASE Refused
    BY <2>1 DEF Finish, AdapterTypeOK, Outcomes
  <2>2. CASE ~Refused
    <3>1. commands' \in Seq(Commands) /\ Len(commands') <= CmdCap
      BY <2>2, CommandOfType, QueuedCommand DEF Refused
    <3> QED
      BY <2>2, <3>1 DEF AdapterTypeOK
  <2> QED
    BY <2>1, <2>2
<1>3. /\ pc' \in [Callers -> PCs]
      /\ pc'["loop"] \in {"lock", "decide"} => req = "setBreakpoints"
      /\ pc'["loop"] = "call" => req \in Resumes \union {"setBreakpoints", "query"}
  BY CallerNames DEF AdapterTypeOK, Goto, PCs
<1> QED
  BY <1>1, <1>2, <1>3 DEF AdapterTypeOK

LEMMA DecideType ==
  ASSUME WireTypeOK, AdapterTypeOK, NEW c \in Callers, Decide(c)
  PROVE  WireTypeOK' /\ AdapterTypeOK'
<1> USE DEF Decide, flags, taskVars, clientVars, wireVars
<1>1. WireTypeOK'
  BY DEF WireTypeOK
<1>2. /\ outcome' \in [Callers -> Outcomes]
      /\ pendingBreakpoints' \in [Files -> Versions]
  BY DEF Finish, AdapterTypeOK, Outcomes
<1>3. /\ pc' \in [Callers -> PCs]
      /\ pc'["loop"] \in {"lock", "decide"} => req = "setBreakpoints"
      /\ pc'["loop"] = "call" => req \in Resumes \union {"setBreakpoints", "query"}
  BY CallerNames DEF AdapterTypeOK, Goto, PCs
<1> QED
  BY <1>1, <1>2, <1>3 DEF AdapterTypeOK

LEMMA NotifyType ==
  ASSUME WireTypeOK, AdapterTypeOK, NEW c \in Callers, Notify(c)
  PROVE  WireTypeOK' /\ AdapterTypeOK'
<1> USE DEF Notify, flags, setVars, taskVars, clientVars, wireVars
<1>1. WireTypeOK'
  BY DEF WireTypeOK
<1>2. outcome' \in [Callers -> Outcomes]
  BY DEF Finish, AdapterTypeOK, Outcomes
<1>3. /\ Command("pause", Nobody, NoFile, 0) \in Commands
      /\ Command("updateBreakpoints", Nobody, job[c].file, job[c].ver) \in Commands
  <2>1. job[c].file \in Files \union {NoFile} /\ job[c].ver \in Versions
    BY DEF AdapterTypeOK
  <2> QED
    BY <2>1, CommandType, ZeroIsVersion DEF CommandNames
<1>4. commands' \in Seq(Commands) /\ Len(commands') <= CmdCap
  <2>1. CASE Refused
    BY <2>1 DEF AdapterTypeOK
  <2>2. CASE ~Refused
    BY <2>2, <1>3, QueuedCommand DEF Refused
  <2> QED
    BY <2>1, <2>2
<1>5. /\ pc' \in [Callers -> PCs]
      /\ pc'["loop"] \in {"lock", "decide"} => req = "setBreakpoints"
      /\ pc'["loop"] = "call" => req \in Resumes \union {"setBreakpoints", "query"}
  BY CallerNames DEF AdapterTypeOK, Goto, PCs
<1> QED
  BY <1>1, <1>2, <1>4, <1>5 DEF AdapterTypeOK

LEMMA LoopType ==
  ASSUME WireTypeOK, AdapterTypeOK, LoopStep
  PROVE  WireTypeOK' /\ AdapterTypeOK'
<1>1. CASE HandshakeDone
  <2> USE <1>1 DEF HandshakeDone, setVars, clientVars, wireVars
  <2>1. WireTypeOK'
    BY DEF WireTypeOK
  <2>2. /\ pc' \in [Callers -> PCs]
        /\ pc'["loop"] \notin {"lock", "decide", "call"}
    BY CallerNames DEF AdapterTypeOK, PCs
  <2>3. outcome' \in [Callers -> Outcomes] /\ liveControl' \in BOOLEAN
    BY WireAssumption DEF AdapterTypeOK, Outcomes
  <2>4. req' \in Requests /\ pump' = "receive"
    BY DEF Requests
  <2>5. UNCHANGED <<paused, closed, job, pending, pendingBreakpoints, queued,
                    announces, bpRequestMu, writer, reader, done, pumpEvent,
                    configured, nextSet, acked, shown, told, pauses, commands, events>>
    OBVIOUS
  <2> HIDE <1>1 DEF HandshakeDone
  <2> QED
    BY <2>1, <2>2, <2>3, <2>4, <2>5 DEF AdapterTypeOK
<1>2. CASE LockBpRequest
  <2> USE <1>2 DEF LockBpRequest, flags, taskVars, clientVars, wireVars
  <2>1. WireTypeOK'
    BY DEF WireTypeOK
  <2> QED
    BY <2>1, CallerNames DEF AdapterTypeOK, Goto, PCs
<1>3. CASE LoopResponds
  <2> USE <1>3 DEF LoopResponds, taskVars, wireVars
  <2>1. WireTypeOK'
    BY DEF WireTypeOK
  <2>2. /\ pc' \in [Callers -> PCs]
        /\ pc'["loop"] \notin {"lock", "decide", "call"}
    BY CallerNames DEF AdapterTypeOK, Goto, PCs
  <2>3. outcome' \in [Callers -> Outcomes]
    BY DEF AdapterTypeOK, Finish, Outcomes
  <2>4. job' \in [Callers -> [file : Files \union {NoFile}, ver : Versions]]
    BY ZeroIsVersion DEF AdapterTypeOK, NoJob
  <2>5. acked' \in [Files -> Versions]
    BY CallerNames DEF AdapterTypeOK
  <2>6. /\ paused' \in BOOLEAN
        /\ req' \in Requests /\ bpRequestMu' \in BOOLEAN
        /\ UNCHANGED <<liveControl, closed, pending, pendingBreakpoints, queued,
                       announces, writer, reader, done, pump, pumpEvent,
                       configured, nextSet, shown, told, pauses, commands, events>>
    BY DEF AdapterTypeOK, PausedAfterReply, Requests
  <2> HIDE <1>3 DEF LoopResponds
  <2> QED
    BY <2>1, <2>2, <2>3, <2>4, <2>5, <2>6 DEF AdapterTypeOK
<1> QED
  BY <1>1, <1>2, <1>3, CallerNames, CallType, DecideType, NotifyType DEF LoopStep

LEMMA FlushType ==
  ASSUME WireTypeOK, AdapterTypeOK, NEW k \in Flushers, FlushStep(k)
  PROVE  WireTypeOK' /\ AdapterTypeOK'
<1> USE DEF flags, taskVars, clientVars, wireVars, setVars
<1>0. k \in Callers /\ k # "loop"
  BY WireAssumption DEF Callers
<1>1. CASE FlushTake(k)
  <2>1. WireTypeOK'
    BY <1>1 DEF FlushTake, WireTypeOK
  <2>2. pendingBreakpoints' \in [Files -> Versions]
    BY <1>1, ZeroIsVersion DEF FlushTake, NoSets
  <2>3. pc' \in [Callers -> PCs] /\ pc'["loop"] = pc["loop"]
    BY <1>0, <1>1 DEF FlushTake, Goto, AdapterTypeOK, PCs
  <2>4. queued' \in [Flushers -> [Files -> Versions]]
    BY <1>1 DEF FlushTake, AdapterTypeOK
  <2> QED
    BY <1>1, <2>1, <2>2, <2>3, <2>4 DEF FlushTake, AdapterTypeOK
<1>2. CASE \E f \in Files : FlushFile(k, f)
  <2> PICK f \in Files : FlushFile(k, f)
    BY <1>2
  <2>1. WireTypeOK'
    BY DEF FlushFile, WireTypeOK
  <2>2. queued[k][f] \in Versions
    BY DEF AdapterTypeOK
  <2>3. job' \in [Callers -> [file : Files \union {NoFile}, ver : Versions]]
    BY <1>0, <2>2 DEF FlushFile, AdapterTypeOK
  <2>4. queued' \in [Flushers -> [Files -> Versions]]
    BY ZeroIsVersion DEF FlushFile, AdapterTypeOK
  <2>5. pc' \in [Callers -> PCs] /\ pc'["loop"] = pc["loop"]
    BY <1>0 DEF FlushFile, Goto, AdapterTypeOK, PCs
  <2> QED
    BY <2>1, <2>3, <2>4, <2>5 DEF FlushFile, AdapterTypeOK
<1>3. CASE FlushReport(k)
  <2> USE <1>3 DEF FlushReport
  <2>1. WireTypeOK'
    BY DEF WireTypeOK
  <2> DEFINE kind == CASE outcome[k] = "ok" -> "breakpointsChanged"
                       [] outcome[k] = "queued" -> "breakpointsQueued"
                       [] outcome[k] = "error" -> "flushFailed"
  <2>2. outcome[k] \in {"ok", "queued", "error"}
    BY <1>0 DEF AdapterTypeOK, Outcomes
  <2>3. kind \in EventKinds
    BY <2>2 DEF EventKinds
  <2>4. job[k].file \in Files \union {NoFile} /\ job[k].ver \in Versions
    BY <1>0 DEF AdapterTypeOK
  <2> HIDE DEF kind
  <2>5. Event(kind, job[k].file, job[k].ver) \in Events
    BY <2>3, <2>4, EventType
  <2>6. events' \in Seq(Events) /\ Len(events') <= EvCap
    BY <2>5, QueuedEvent DEF kind
  <2>7. outcome' \in [Callers -> Outcomes]
    BY DEF Finish, AdapterTypeOK, Outcomes
  <2>8. job' \in [Callers -> [file : Files \union {NoFile}, ver : Versions]]
    BY ZeroIsVersion DEF AdapterTypeOK, NoJob
  <2>9. pc' \in [Callers -> PCs] /\ pc'["loop"] = pc["loop"]
    BY <1>0 DEF Goto, AdapterTypeOK, PCs
  <2> QED
    BY <2>1, <2>6, <2>7, <2>8, <2>9 DEF AdapterTypeOK
<1>4. CASE FlushEnd(k)
  <2> USE <1>4 DEF FlushEnd
  <2>1. WireTypeOK'
    BY DEF WireTypeOK
  <2>2. PlainEvent("stopped") \in Events
    BY EventType, ZeroIsVersion DEF PlainEvent, EventKinds
  <2>3. events' \in Seq(Events) /\ Len(events') <= EvCap
    BY <2>2, QueuedEvent DEF AdapterTypeOK
  <2>4. pc' \in [Callers -> PCs] /\ pc'["loop"] = pc["loop"]
    BY <1>0 DEF Goto, AdapterTypeOK, PCs
  <2>5. announces' \in SUBSET Flushers
    BY DEF AdapterTypeOK
  <2> QED
    BY <2>1, <2>3, <2>4, <2>5 DEF AdapterTypeOK
<1> QED
  BY <1>0, <1>1, <1>2, <1>3, <1>4, CallType, DecideType, NotifyType DEF FlushStep

LEMMA ClientType ==
  ASSUME WireTypeOK, AdapterTypeOK, Client
  PROVE  WireTypeOK' /\ AdapterTypeOK'
<1> USE DEF flags, setVars, taskVars, clientVars, wireVars
<1>1. CASE QueryRequest
  <2>1. WireTypeOK'
    BY <1>1 DEF QueryRequest, WireTypeOK
  <2> QED
    BY <1>1, <2>1, CallerNames
       DEF QueryRequest, LoopIdle, Goto, AdapterTypeOK, PCs, Requests
<1>2. CASE PauseRequest
  <2>1. WireTypeOK'
    BY <1>2 DEF PauseRequest, WireTypeOK
  <2>2. pauses' \in 0 .. MaxPauses
    BY <1>2, AdapterAssumption DEF PauseRequest, AdapterTypeOK
  <2> QED
    BY <1>2, <2>1, <2>2, CallerNames
       DEF PauseRequest, LoopIdle, Goto, AdapterTypeOK, PCs, Requests
<1>3. CASE Terminate
  <2>1. WireTypeOK'
    BY <1>3 DEF Terminate, Dispose, WireTypeOK
  <2>2. pc' \in [Callers -> PCs] /\ pc'["loop"] \in {"idle", "ended"}
    BY <1>3, CallerNames DEF Terminate, Goto, AdapterTypeOK, PCs
  <2> QED
    BY <1>3, <2>1, <2>2 DEF Terminate, AdapterTypeOK
<1>4. CASE \E f \in Files : SetBreakpointsRequest(f)
  <2> PICK f \in Files : SetBreakpointsRequest(f)
    BY <1>4
  <2>1. WireTypeOK'
    BY DEF SetBreakpointsRequest, WireTypeOK
  <2>2. nextSet' \in 0 .. MaxSets /\ nextSet' \in Versions
    BY WireAssumption DEF SetBreakpointsRequest, AdapterTypeOK, Versions
  <2>3. job' \in [Callers -> [file : Files \union {NoFile}, ver : Versions]]
    BY <2>2 DEF SetBreakpointsRequest, AdapterTypeOK
  <2>4. pc' \in [Callers -> PCs] /\ pc'["loop"] = "lock"
    BY CallerNames DEF SetBreakpointsRequest, Goto, AdapterTypeOK, PCs
  <2> QED
    BY <2>1, <2>2, <2>3, <2>4 DEF SetBreakpointsRequest, AdapterTypeOK, Requests
<1>5. CASE \E r \in Resumes : ResumeRequest(r)
  <2> PICK r \in Resumes : ResumeRequest(r)
    BY <1>5
  <2>1. WireTypeOK'
    BY DEF ResumeRequest, WireTypeOK
  <2>2. pc' \in [Callers -> PCs] /\ pc'["loop"] = "call"
    BY CallerNames DEF ResumeRequest, Goto, AdapterTypeOK, PCs
  <2>3. /\ paused' \in BOOLEAN /\ liveControl' \in BOOLEAN
        /\ told' \in BOOLEAN /\ configured' \in BOOLEAN
    BY AdapterAssumption DEF ResumeRequest, MarkRunning, AdapterTypeOK
  <2>4. req' \in Requests /\ req' \in Resumes
    BY DEF ResumeRequest, Requests
  <2> QED
    BY <2>1, <2>2, <2>3, <2>4 DEF ResumeRequest, AdapterTypeOK
<1> QED
  BY <1>1, <1>2, <1>3, <1>4, <1>5 DEF Client

LEMMA HandshakeFailedType ==
  ASSUME WireTypeOK, AdapterTypeOK, HandshakeFailed
  PROVE  WireTypeOK' /\ AdapterTypeOK'
<1> USE DEF HandshakeFailed, Dispose, flags, setVars, taskVars, clientVars
<1>1. WireTypeOK'
  BY DEF WireTypeOK
<1> QED
  BY <1>1, CallerNames DEF Goto, AdapterTypeOK, PCs, Requests

LEMMA WriterType ==
  ASSUME WireTypeOK, AdapterTypeOK, Write \/ WriterStops
  PROVE  WireTypeOK' /\ AdapterTypeOK'
<1> USE DEF flags, callVars, setVars, taskVars, clientVars
<1>0. commands \in Seq(Commands) /\ Len(commands) \in Nat
  BY DEF AdapterTypeOK
<1>1. CASE Write
  <2>1. /\ Head(commands) \in Commands
        /\ commands' \in Seq(Commands) /\ Len(commands') = Len(commands) - 1
    BY <1>0, <1>1, HeadAndTail DEF Write
  <2>2. stdin' \in Seq(Commands)
    BY <1>1, <2>1, Appended DEF Write, WireTypeOK
  <2>3. WireTypeOK'
    BY <1>1, <2>2 DEF Write, WireTypeOK
  <2>4. Len(commands') <= CmdCap
    BY <1>0, <2>1, AdapterAssumption DEF AdapterTypeOK
  <2> QED
    BY <1>1, <2>1, <2>3, <2>4 DEF Write, AdapterTypeOK
<1>2. CASE WriterStops
  <2>1. commands' \in Seq(Commands) /\ Len(commands') <= CmdCap
    <3>1. CASE commands' = commands
      BY <3>1 DEF AdapterTypeOK
    <3>2. CASE commands # <<>> /\ commands' = Tail(commands)
      <4>1. commands' \in Seq(Commands) /\ Len(commands') = Len(commands) - 1
        BY <1>0, <3>2, HeadAndTail
      <4> QED
        BY <1>0, <4>1, AdapterAssumption DEF AdapterTypeOK
    <3> QED
      BY <1>2, <3>1, <3>2 DEF WriterStops
  <2>2. WireTypeOK'
    BY <1>2 DEF WriterStops, Dispose, WireTypeOK
  <2> QED
    BY <1>2, <2>1, <2>2 DEF WriterStops, AdapterTypeOK
<1> QED
  BY <1>1, <1>2

LEMMA ReadType ==
  ASSUME WireTypeOK, AdapterTypeOK, Read
  PROVE  WireTypeOK' /\ AdapterTypeOK'
<1> USE DEF taskVars, clientVars
<1> DEFINE m == Head(protocol)
<1>1. m \in Messages /\ protocol' \in Seq(Messages)
  BY HeadAndTail DEF Read, WireTypeOK
<1>2. /\ m.kind \in MessageKinds /\ m.to \in Callers \union {Nobody}
      /\ m.file \in Files \union {NoFile} /\ m.ver \in Versions
  BY <1>1 DEF Messages
<1>3. Deliver(m) \/ ForwardEvent(m) \/ NoteStop(m) \/ AnswerPath(m)
  BY DEF Read
<1> HIDE DEF m
<1>4. eof' \in BOOLEAN /\ disposed' \in BOOLEAN
  BY <1>3 DEF Deliver, ForwardEvent, NoteStop, AnswerPath, Dispose, WireTypeOK
<1>5. WireTypeOK'
  BY <1>1, <1>4 DEF Read, WireTypeOK
<1>6. /\ paused' \in BOOLEAN
      /\ pending' \in SUBSET Callers
      /\ outcome' \in [Callers -> Outcomes]
      /\ pc' \in [Callers -> PCs]
      /\ pc'["loop"] \in {"lock", "decide", "call"} => pc'["loop"] = pc["loop"]
      /\ announces' \in SUBSET Flushers
      /\ commands' \in Seq(Commands) /\ Len(commands') <= CmdCap
      /\ events' \in Seq(Events) /\ Len(events') <= EvCap
  <2>1. CASE Deliver(m)
    <3>1. outcome' \in [Callers -> Outcomes]
      BY <2>1 DEF Deliver, Finish, AdapterTypeOK, Outcomes
    <3> QED
      BY <2>1, <3>1 DEF Deliver, AdapterTypeOK
  <2>2. CASE ForwardEvent(m)
    <3>1. Event(m.kind, m.file, m.ver) \in Events
      BY <1>2, <2>2, EventType DEF ForwardEvent, EventKinds
    <3>2. events' \in Seq(Events) /\ Len(events') <= EvCap
      BY <2>2, <3>1, QueuedEvent DEF ForwardEvent
    <3> QED
      BY <2>2, <3>2 DEF ForwardEvent, AdapterTypeOK
  <2>3. CASE NoteStop(m)
    <3>1. FreeFlusher \in Flushers
      BY <2>3 DEF NoteStop, FreeFlusher
    <3>2. FreeFlusher # "loop"
      BY <3>1, WireAssumption
    <3> HIDE DEF FreeFlusher
    <3>3. pc' \in [Callers -> PCs] /\ pc'["loop"] = pc["loop"]
      BY <2>3, <3>2, CallerNames DEF NoteStop, Goto, AdapterTypeOK, PCs
    <3>4. announces' \in SUBSET Flushers
      BY <2>3, <3>1 DEF NoteStop, AdapterTypeOK
    <3> QED
      BY <2>3, <3>3, <3>4 DEF NoteStop, AdapterTypeOK
  <2>4. CASE AnswerPath(m)
    <3>1. Command("resolved", Nobody, m.file, 0) \in Commands
      BY <1>2, CommandType, ZeroIsVersion DEF CommandNames
    <3>2. commands' \in Seq(Commands) /\ Len(commands') <= CmdCap
      <4>1. CASE commands' = commands
        BY <4>1 DEF AdapterTypeOK
      <4>2. CASE /\ HasRoom(commands, CmdCap)
                 /\ commands' = Append(commands, Command("resolved", Nobody, m.file, 0))
        BY <3>1, <4>2, QueuedCommand
      <4> QED
        BY <2>4, <4>1, <4>2 DEF AnswerPath
    <3> QED
      BY <2>4, <3>2 DEF AnswerPath, AdapterTypeOK
  <2> QED
    BY <1>3, <2>1, <2>2, <2>3, <2>4
<1> QED
  BY <1>5, <1>6 DEF Read, AdapterTypeOK

LEMMA ExitTaskType ==
  ASSUME WireTypeOK, AdapterTypeOK,
         ReaderEnds \/ Close \/ ReportExit \/ CopyOutput
  PROVE  WireTypeOK' /\ AdapterTypeOK'
<1> USE DEF flags, callVars, setVars, taskVars, clientVars, wireVars
<1>1. CASE ReaderEnds
  <2>1. WireTypeOK'
    BY <1>1 DEF ReaderEnds, WireTypeOK
  <2> QED
    BY <1>1, <2>1 DEF ReaderEnds, AdapterTypeOK
<1>2. CASE Close
  <2>1. WireTypeOK'
    BY <1>2 DEF Close, WireTypeOK
  <2>2. outcome' \in [Callers -> Outcomes] /\ pending' \in SUBSET Callers
    BY <1>2 DEF Close, FailPending, AdapterTypeOK, Outcomes
  <2>3. reader' \in {"exit", "exited"}
    BY <1>2 DEF Close
  <2> QED
    BY <1>2, <2>1, <2>2, <2>3 DEF Close, AdapterTypeOK
<1>3. CASE ReportExit
  <2>1. WireTypeOK'
    BY <1>3 DEF ReportExit, WireTypeOK
  <2>2. PlainEvent(reader) \in Events
    BY <1>3, EventType, ZeroIsVersion DEF ReportExit, PlainEvent, EventKinds
  <2>3. events' \in Seq(Events) /\ Len(events') <= EvCap
    BY <1>3, <2>2, QueuedEvent DEF ReportExit
  <2> QED
    BY <1>3, <2>1, <2>3 DEF ReportExit, AdapterTypeOK
<1>4. CASE CopyOutput
  <2>1. WireTypeOK'
    BY <1>4 DEF CopyOutput, WireTypeOK
  <2>2. PlainEvent("output") \in Events
    BY EventType, ZeroIsVersion DEF PlainEvent, EventKinds
  <2>3. events' \in Seq(Events) /\ Len(events') <= EvCap
    BY <1>4, <2>2, QueuedEvent DEF CopyOutput
  <2> QED
    BY <1>4, <2>1, <2>3 DEF CopyOutput, AdapterTypeOK
<1> QED
  BY <1>1, <1>2, <1>3, <1>4

LEMMA PumpType ==
  ASSUME WireTypeOK, AdapterTypeOK, PumpReceive \/ PumpBreakpoints
  PROVE  WireTypeOK' /\ AdapterTypeOK'
<1> USE DEF flags, callVars, setVars, clientVars, wireVars
<1>1. CASE PumpReceive
  <2>1. WireTypeOK'
    BY <1>1 DEF PumpReceive, WireTypeOK
  <2>2. events \in Seq(Events) /\ Len(events) \in Nat
    BY DEF AdapterTypeOK
  <2>3. /\ Head(events) \in Events
        /\ events' \in Seq(Events) /\ Len(events') = Len(events) - 1
    BY <1>1, <2>2, HeadAndTail DEF PumpReceive
  <2>4. Len(events') <= EvCap
    BY <2>2, <2>3, AdapterAssumption DEF AdapterTypeOK
  <2>5. pump' \in {"off", "receive", "lock", "done"} /\ pumpEvent' \in Events
    <3> DEFINE e == Head(events)
    <3>1. CASE e.kind \in {"breakpointsChanged", "breakpointsQueued"}
      <4>1. pump' = "lock" /\ pumpEvent' = e
        BY <1>1, <3>1 DEF PumpReceive
      <4> QED
        BY <2>3, <4>1
    <3>2. CASE e.kind = "exit"
      BY <1>1, <3>2 DEF PumpReceive, AdapterTypeOK
    <3>3. CASE e.kind \notin {"breakpointsChanged", "breakpointsQueued", "exit"}
      BY <1>1, <3>3 DEF PumpReceive, AdapterTypeOK
    <3> QED
      BY <3>1, <3>2, <3>3
  <2>6. told' \in BOOLEAN /\ pauses' \in 0 .. MaxPauses
    BY <1>1, AdapterAssumption DEF PumpReceive, AdapterTypeOK
  <2> QED
    BY <1>1, <2>1, <2>3, <2>4, <2>5, <2>6 DEF PumpReceive, AdapterTypeOK
<1>2. CASE PumpBreakpoints
  <2>1. WireTypeOK'
    BY <1>2 DEF PumpBreakpoints, WireTypeOK
  <2>2. PlainEvent("exit") \in Events
    BY EventType, ZeroIsVersion DEF PlainEvent, EventKinds
  <2>3. pumpEvent.ver \in Versions
    BY DEF AdapterTypeOK, Events
  <2>4. shown' \in [Files -> Versions]
    BY <1>2, <2>3 DEF PumpBreakpoints, AdapterTypeOK
  <2> QED
    BY <1>2, <2>1, <2>2, <2>4 DEF PumpBreakpoints, AdapterTypeOK
<1> QED
  BY <1>1, <1>2
-----------------------------------------------------------------------------
(***************************************************************************)
(* Type correctness of the session.                                        *)
(***************************************************************************)

LEMMA LuaUntouched ==
  ASSUME LuaTypeOK, UNCHANGED luaVars PROVE LuaTypeOK'
BY DEF LuaTypeOK, luaVars

LEMMA AdapterUntouched ==
  ASSUME AdapterTypeOK, UNCHANGED adapterVars PROVE AdapterTypeOK'
BY DEF AdapterTypeOK, adapterVars, flags, callVars, setVars, taskVars, clientVars

LEMMA InitType == Init => TypeOK
<1> SUFFICES ASSUME Init PROVE TypeOK
  OBVIOUS
<1>1. WireTypeOK
  <2>1. <<>> \in Seq(Commands) /\ <<>> \in Seq(Messages) /\ 0 \in 0 .. 1
    OBVIOUS
  <2> QED
    BY <2>1 DEF Init, WireInit, WireTypeOK
<1>2. LuaTypeOK
  <2> USE DEF Init, LuaInit
  <2>1. nest \in 0 .. MaxNest /\ processed \in 0 .. PollBatch - 1
    BY LuaAssumption
  <2>2. breakpoints \in [Files -> Versions] /\ sourceCache \in SUBSET Files
    BY ZeroIsVersion
  <2>3. queuedCommands \in Seq(Commands)
    OBVIOUS
  <2> QED
    BY <2>1, <2>2, <2>3 DEF LuaTypeOK, LuaStates
<1>3. AdapterTypeOK
  <2> USE DEF Init, AdapterInit
  <2>1. NoSets \in [Files -> Versions] /\ NoJob \in [file : Files \union {NoFile}, ver : Versions]
    BY ZeroIsVersion DEF NoSets, NoJob
  <2>2. PlainEvent("exit") \in Events
    BY EventType, ZeroIsVersion DEF PlainEvent, EventKinds
  <2>3. pc \in [Callers -> PCs] /\ pc["loop"] = "idle"
    BY CallerNames DEF PCs
  <2>4. commands \in Seq(Commands) /\ Len(commands) <= CmdCap
    BY AdapterAssumption
  <2>5. events \in Seq(Events) /\ Len(events) <= EvCap
    BY AdapterAssumption
  <2>6. nextSet \in 0 .. MaxSets /\ pauses \in 0 .. MaxPauses
    BY WireAssumption, AdapterAssumption
  <2> QED
    BY <2>1, <2>2, <2>3, <2>4, <2>5, <2>6 DEF AdapterTypeOK, Outcomes, Requests
<1> QED
  BY <1>1, <1>2, <1>3 DEF TypeOK

LEMMA StepType == TypeOK /\ [Next]_vars => TypeOK'
<1> SUFFICES ASSUME TypeOK, [Next]_vars PROVE TypeOK'
  OBVIOUS
<1>0. WireTypeOK /\ LuaTypeOK /\ AdapterTypeOK
  BY DEF TypeOK
<1>1. CASE Start
  <2>1. WireTypeOK'
    BY <1>0, <1>1 DEF Start, Launch, wireVars, WireTypeOK
  <2>2. LuaTypeOK'
    BY <1>0, <1>1 DEF Start, LuaStart, LuaTypeOK, LuaStates
  <2>3. pc' \in [Callers -> PCs] /\ pc'["loop"] = "start"
    BY <1>0, <1>1, CallerNames DEF Start, Launch, AdapterTypeOK, PCs
  <2>4. AdapterTypeOK'
    BY <1>0, <1>1, <2>3 DEF Start, Launch, AdapterTypeOK, setVars, clientVars, Requests
  <2> QED
    BY <2>1, <2>2, <2>4 DEF TypeOK
<1>2. CASE Client
  BY <1>0, <1>2, ClientType, LuaUntouched DEF Client, TypeOK
<1>3. CASE RequestLoop
  BY <1>0, <1>3, LoopType, LuaUntouched DEF RequestLoop, TypeOK
<1>4. CASE HandshakeTimeout
  BY <1>0, <1>4, HandshakeFailedType, LuaUntouched DEF HandshakeTimeout, TypeOK
<1>5. CASE \E k \in Flushers : Flush(k)
  BY <1>0, <1>5, FlushType, LuaUntouched DEF Flush, TypeOK
<1>6. CASE Writer
  BY <1>0, <1>6, WriterType, LuaUntouched DEF Writer, TypeOK
<1>7. CASE Reader
  BY <1>0, <1>7, ReadType, LuaUntouched DEF Reader, TypeOK
<1>8. CASE ReaderExit \/ ExitEvents \/ Copier
  <2>1. /\ ReaderEnds \/ Close \/ ReportExit \/ CopyOutput
        /\ UNCHANGED luaVars
    BY <1>8 DEF ReaderExit, ExitEvents, Copier
  <2> QED
    BY <1>0, <2>1, ExitTaskType, LuaUntouched DEF TypeOK
<1>9. CASE Pump \/ PumpLock
  <2>1. (PumpReceive \/ PumpBreakpoints) /\ UNCHANGED luaVars
    BY <1>9 DEF Pump, PumpLock
  <2> QED
    BY <1>0, <2>1, PumpType, LuaUntouched DEF TypeOK
<1>10. CASE CommandLoop
  BY <1>0, <1>10, LuaLoopType, AdapterUntouched DEF CommandLoop, TypeOK
<1>11. CASE Hook
  BY <1>0, <1>11, LuaHookType, AdapterUntouched DEF Hook, TypeOK
<1>12. CASE Program
  BY <1>0, <1>12, ProgramType, AdapterUntouched DEF Program, TypeOK
<1>13. CASE KilledProcess
  <2>1. <<>> \in Seq(Messages)
    OBVIOUS
  <2> QED
    BY <1>0, <1>13, <2>1, ExitType, AdapterUntouched
       DEF KilledProcess, LuaKilled, TypeOK
<1>14. CASE ProcessWaited
  <2>1. WireTypeOK'
    BY <1>0, <1>14 DEF ProcessWaited, wireVars, WireTypeOK
  <2>2. LuaTypeOK'
    BY <1>0, <1>14, LuaUntouched DEF ProcessWaited
  <2>3. AdapterTypeOK'
    BY <1>0, <1>14
       DEF ProcessWaited, AdapterTypeOK, flags, callVars, setVars, clientVars
  <2> QED
    BY <2>1, <2>2, <2>3 DEF TypeOK
<1>15. CASE Crash
  <2> USE <1>0, <1>15 DEF Crash
  <2>1. WireTypeOK'
    BY DEF WireTypeOK
  <2>2. LuaTypeOK'
    BY LuaUntouched
  <2>3. NoSets \in [Files -> Versions] /\ NoJob \in [file : Files \union {NoFile}, ver : Versions]
    BY ZeroIsVersion DEF NoSets, NoJob
  <2>4. PlainEvent("exit") \in Events
    BY EventType, ZeroIsVersion DEF PlainEvent, EventKinds
  <2>5. pc' \in [Callers -> PCs] /\ pc'["loop"] = "ended"
    BY CallerNames DEF PCs
  <2>6. /\ commands' \in Seq(Commands) /\ Len(commands') <= CmdCap
        /\ events' \in Seq(Events) /\ Len(events') <= EvCap
    BY AdapterAssumption
  <2>7. AdapterTypeOK'
    BY <2>3, <2>4, <2>5, <2>6 DEF AdapterTypeOK, clientVars, Outcomes, Requests
  <2> QED
    BY <2>1, <2>2, <2>7 DEF TypeOK
<1>16. CASE UNCHANGED vars
  <2>1. WireTypeOK'
    BY <1>0, <1>16 DEF vars, wireVars, WireTypeOK
  <2> QED
    BY <1>0, <1>16, <2>1, LuaUntouched, AdapterUntouched DEF vars, TypeOK
<1> QED
  BY <1>1, <1>2, <1>3, <1>4, <1>5, <1>6, <1>7, <1>8, <1>9, <1>10, <1>11, <1>12,
     <1>13, <1>14, <1>15, <1>16 DEF Next

\* Type correctness: in particular neither bounded channel ever holds more than
\* its capacity, whatever the two processes send (runtime.go:141,145).
THEOREM TypeCorrect == Spec => []TypeOK
BY InitType, StepType, PTL DEF Spec
-----------------------------------------------------------------------------
(***************************************************************************)
(* No call outlives the runtime.  Only send adds to the pending calls, and *)
(* it tests `closed` under the mutex under which the end of the reader     *)
(* sets it and fails them.                                                 *)
(***************************************************************************)

LEMMA ClosedUntouched ==
  ASSUME ClosedLeavesNoCaller, UNCHANGED <<closed, pending>>
  PROVE  ClosedLeavesNoCaller'
BY DEF ClosedLeavesNoCaller

LEMMA ClosedByCall ==
  ASSUME ClosedLeavesNoCaller, NEW c, Call(c) \/ Decide(c) \/ Notify(c)
  PROVE  ClosedLeavesNoCaller'
<1>1. CASE Call(c)
  BY <1>1 DEF Call, Refused, ClosedLeavesNoCaller, flags
<1>2. CASE Decide(c) \/ Notify(c)
  BY <1>2, ClosedUntouched DEF Decide, Notify, flags
<1> QED
  BY <1>1, <1>2

LEMMA ClosedStep == ClosedLeavesNoCaller /\ [Next]_vars => ClosedLeavesNoCaller'
<1> SUFFICES ASSUME ClosedLeavesNoCaller, [Next]_vars PROVE ClosedLeavesNoCaller'
  OBVIOUS
<1> USE DEF flags, callVars, adapterVars
<1>1. CASE Start
  BY <1>1, ClosedUntouched DEF Start, Launch
<1>2. CASE Client
  <2>1. QueryRequest \/ PauseRequest \/ Terminate => UNCHANGED <<closed, pending>>
    BY DEF QueryRequest, PauseRequest, Terminate
  <2>2. ASSUME NEW f \in Files, SetBreakpointsRequest(f)
        PROVE  UNCHANGED <<closed, pending>>
    BY <2>2 DEF SetBreakpointsRequest
  <2>3. ASSUME NEW r \in Resumes, ResumeRequest(r)
        PROVE  UNCHANGED <<closed, pending>>
    BY <2>3 DEF ResumeRequest
  <2> QED
    BY <1>2, <2>1, <2>2, <2>3, ClosedUntouched DEF Client
<1>3. CASE RequestLoop
  <2>1. HandshakeDone \/ LockBpRequest \/ LoopResponds => UNCHANGED <<closed, pending>>
    BY DEF HandshakeDone, LockBpRequest, LoopResponds
  <2> QED
    BY <1>3, <2>1, ClosedUntouched, ClosedByCall DEF RequestLoop, LoopStep
<1>4. CASE HandshakeTimeout
  BY <1>4, ClosedUntouched DEF HandshakeTimeout, HandshakeFailed
<1>5. ASSUME NEW k \in Flushers, Flush(k) PROVE ClosedLeavesNoCaller'
  <2>1. FlushTake(k) \/ FlushReport(k) \/ FlushEnd(k) => UNCHANGED <<closed, pending>>
    BY DEF FlushTake, FlushReport, FlushEnd
  <2>2. ASSUME NEW f \in Files, FlushFile(k, f) PROVE UNCHANGED <<closed, pending>>
    BY <2>2 DEF FlushFile
  <2> QED
    BY <1>5, <2>1, <2>2, ClosedUntouched, ClosedByCall DEF Flush, FlushStep
<1>6. CASE Writer
  BY <1>6, ClosedUntouched DEF Writer, Write, WriterStops
<1>7. CASE Reader
  <2>1. closed' = closed /\ (pending = {} => pending' = {})
    BY <1>7 DEF Reader, Read, Deliver, ForwardEvent, NoteStop, AnswerPath
  <2> QED
    BY <2>1 DEF ClosedLeavesNoCaller
<1>8. CASE ReaderExit
  <2>1. CASE ReaderEnds
    BY <2>1, ClosedUntouched DEF ReaderEnds
  <2>2. CASE Close
    BY <2>2 DEF Close, FailPending, ClosedLeavesNoCaller
  <2> QED
    BY <1>8, <2>1, <2>2 DEF ReaderExit
<1>9. CASE ExitEvents \/ Copier
  BY <1>9, ClosedUntouched DEF ExitEvents, ReportExit, Copier, CopyOutput
<1>10. CASE Pump \/ PumpLock
  BY <1>10, ClosedUntouched DEF Pump, PumpReceive, PumpLock, PumpBreakpoints
<1>11. CASE CommandLoop \/ Hook \/ Program \/ KilledProcess
  BY <1>11, ClosedUntouched DEF CommandLoop, Hook, Program, KilledProcess
<1>12. CASE ProcessWaited
  BY <1>12, ClosedUntouched DEF ProcessWaited
<1>13. CASE Crash
  BY <1>13 DEF Crash, ClosedLeavesNoCaller
<1>14. CASE UNCHANGED vars
  BY <1>14, ClosedUntouched DEF vars
<1> QED
  BY <1>1, <1>2, <1>3, <1>4, <1>5, <1>6, <1>7, <1>8, <1>9, <1>10, <1>11, <1>12,
     <1>13, <1>14 DEF Next

\* A call that starts while the runtime is being closed is refused or failed:
\* once the runtime is closed nobody waits for a reply (runtime.go:302-308,348).
THEOREM NoCallOutlivesRuntime == Spec => []ClosedLeavesNoCaller
<1>1. Init => ClosedLeavesNoCaller
  BY DEF Init, AdapterInit, ClosedLeavesNoCaller
<1> QED
  BY <1>1, ClosedStep, PTL DEF Spec
-----------------------------------------------------------------------------
(***************************************************************************)
(* No pause request survives the stop it raced with, when no coroutine is  *)
(* resumed by hand.  A query that waits for a path is inside a stop too.   *)
(***************************************************************************)

PauseInv ==
  lpc = "cmd" \/ (lpc = "resolve" /\ back = "query") => ~pauseRequested

LEMMA PauseUntouched ==
  ASSUME PauseInv, UNCHANGED <<lpc, back, pauseRequested>>
  PROVE  PauseInv'
BY DEF PauseInv

LEMMA PauseInExit ==
  ASSUME NEW m, Detach \/ Exit(m)
  PROVE  PauseInv'
BY DEF Detach, Exit, PauseInv

LEMMA PauseInLoop ==
  ASSUME PauseInv, nest = 0, MaxNest = 0, CommandLoop
  PROVE  PauseInv'
<1>1. CASE LuaCommand
  <2>1. PICK c : ServeInLoop(c) \/ ServeResume(c) \/ ServeResumeThread(c)
                 \/ ServeQueryResolving(c)
    BY <1>1 DEF LuaCommand
  <2>2. CASE ServeInLoop(c)
    <3>1. UNCHANGED <<lpc, back>>
      BY <2>2 DEF ServeInLoop
    <3>2. pauseRequested' = pauseRequested \/ lpc # "cmd"
      BY <2>2 DEF ServeInLoop, SetBreakpointsHandler, PauseHandler
    <3>3. lpc \in {"boot", "cmd"}
      BY <1>1 DEF LuaCommand, InCommandLoop
    <3> QED
      BY <3>1, <3>2, <3>3 DEF PauseInv
  <2>3. CASE ServeResume(c)
    BY <2>3 DEF ServeResume, PauseInv
  <2>4. CASE ServeResumeThread(c)
    BY <2>4 DEF ServeResumeThread
  <2>5. CASE ServeQueryResolving(c)
    BY <2>5 DEF ServeQueryResolving, PauseInv
  <2> QED
    BY <2>1, <2>2, <2>3, <2>4, <2>5
<1>2. CASE StreamEnded
  BY <1>2, PauseInExit DEF StreamEnded
<1>3. CASE FailedProgramEnds
  BY <1>3, PauseInExit DEF FailedProgramEnds
<1> QED
  BY <1>1, <1>2, <1>3 DEF CommandLoop, LuaLoopStep

LEMMA PauseInHook ==
  ASSUME PauseInv, Hook
  PROVE  PauseInv'
<1>1. CASE PollCommand
  <2>1. lpc' \in {"poll", "line"}
    BY <1>1 DEF PollCommand
  <2> QED
    BY <2>1 DEF PauseInv
<1>2. CASE PollEmpty \/ HookReturn
  BY <1>2 DEF PollEmpty, HookReturn, PauseInv
<1>3. CASE HookStop
  BY <1>3 DEF HookStop, AskPath, Pause, PauseInv
<1>4. CASE ResolveQueue
  BY <1>4, PauseUntouched DEF ResolveQueue
<1>5. CASE ResolveDone
  BY <1>5 DEF ResolveDone, PauseUnlessBlind, Pause, AskNextPath, PauseInv
<1> QED
  BY <1>1, <1>2, <1>3, <1>4, <1>5 DEF Hook, LuaHookStep

LEMMA PauseInProgram ==
  ASSUME PauseInv, nest = 0, Program
  PROVE  PauseInv'
<1>1. ASSUME NEW f \in Files \union {NoFile}, HookEnter(f) PROVE PauseInv'
  BY <1>1 DEF HookEnter, PauseInv
<1>2. ASSUME NEW f \in Files, ErrorStop(f) PROVE PauseInv'
  BY <1>2 DEF ErrorStop, AskPath, PauseUnlessBlind, Pause, PauseInv
<1>3. CASE CoroutineReturns
  BY <1>3 DEF CoroutineReturns
<1>4. CASE ProgramPrints
  BY <1>4, PauseUntouched DEF ProgramPrints, luaVars
<1>5. CASE ProgramEnds \/ HostStops \/ SendFails
  BY <1>5, PauseInExit DEF ProgramEnds, HostStops, SendFails
<1> QED
  BY <1>1, <1>2, <1>3, <1>4, <1>5 DEF Program, ProgramStep

LEMMA PauseStep ==
  ASSUME MaxNest = 0
  PROVE  TypeOK /\ PauseInv /\ [Next]_vars => PauseInv'
<1> SUFFICES ASSUME TypeOK, PauseInv, [Next]_vars PROVE PauseInv'
  OBVIOUS
<1>1. nest = 0
  BY DEF TypeOK, LuaTypeOK
<1>2. CASE UNCHANGED luaVars
  BY <1>2, PauseUntouched DEF luaVars
<1>3. CASE Start
  BY <1>3 DEF Start, LuaStart, PauseInv
<1>4. CASE CommandLoop
  BY <1>1, <1>4, PauseInLoop
<1>5. CASE Hook
  BY <1>5, PauseInHook
<1>6. CASE Program
  BY <1>1, <1>6, PauseInProgram
<1>7. CASE KilledProcess
  BY <1>7, PauseInExit DEF KilledProcess, LuaKilled
<1>8. CASE \/ Client \/ RequestLoop \/ HandshakeTimeout \/ Writer \/ Reader
           \/ ReaderExit \/ ExitEvents \/ Copier \/ Pump \/ PumpLock
           \/ ProcessWaited \/ Crash \/ \E k \in Flushers : Flush(k)
  <2>1. UNCHANGED luaVars
    BY <1>8 DEF Client, RequestLoop, HandshakeTimeout, Writer, Reader, ReaderExit,
                ExitEvents, Copier, Pump, PumpLock, ProcessWaited, Crash, Flush
  <2> QED
    BY <1>2, <2>1
<1>9. CASE UNCHANGED vars
  BY <1>2, <1>9 DEF vars
<1> QED
  BY <1>3, <1>4, <1>5, <1>6, <1>7, <1>8, <1>9 DEF Next

\* The command loop of a stop starts without a pause request and never acquires
\* one (debugger.lua:557-561,719), as long as no coroutine is resumed by hand.
THEOREM PauseAnsweredByStop ==
  ASSUME MaxNest = 0
  PROVE  Spec => []NoStalePause
<1>1. Init => PauseInv
  BY DEF Init, LuaInit, PauseInv
<1>2. TypeOK /\ PauseInv /\ [Next]_vars => PauseInv'
  BY PauseStep
<1>3. PauseInv => NoStalePause
  BY DEF PauseInv, NoStalePause
<1> QED
  BY <1>1, <1>2, <1>3, TypeCorrect, PTL DEF Spec
=============================================================================
