------------------------ MODULE SessionChannels_proofs ------------------------
(***************************************************************************)
(* What is between the two processes of a session.  The messages of a      *)
(* channel are counted by sort, and each step of the debuggee and of the   *)
(* adapter is described by the messages it takes, moves and adds.  The     *)
(* invariants of SessionControl_proofs and SessionEvents_proofs rest on    *)
(* these lemmas.                                                           *)
(***************************************************************************)
EXTENDS DebugSession_proofs, FiniteSetTheorems, SequenceTheorems

-----------------------------------------------------------------------------
(***************************************************************************)
(* Counting the messages of a channel that are in a set.                   *)
(***************************************************************************)

Places(s, T) == {i \in 1 .. Len(s) : s[i] \in T}
Count(s, T) == Cardinality(Places(s, T))
One(b) == IF b THEN 1 ELSE 0

LEMMA PlacesFinite ==
  ASSUME NEW S, NEW s \in Seq(S), NEW T
  PROVE  IsFiniteSet(Places(s, T)) /\ Count(s, T) \in Nat
<1>1. IsFiniteSet(1 .. Len(s)) /\ Places(s, T) \subseteq 1 .. Len(s)
  BY FS_Interval DEF Places
<1>2. IsFiniteSet(Places(s, T))
  BY <1>1, FS_Subset
<1> QED
  BY <1>2, FS_CardinalityType DEF Count

\* Nothing is counted in an empty channel, and nothing counted means nothing
\* there.
LEMMA CountNone ==
  ASSUME NEW S, NEW s \in Seq(S), NEW T
  PROVE  Count(s, T) = 0 <=> \A i \in 1 .. Len(s) : s[i] \notin T
<1>1. Count(s, T) = 0 <=> Places(s, T) = {}
  BY PlacesFinite, FS_EmptySet DEF Count
<1> QED
  BY <1>1 DEF Places

LEMMA CountEmpty == ASSUME NEW T PROVE Count(<<>>, T) = 0
<1>1. Places(<<>>, T) = {}
  BY DEF Places
<1> QED
  BY <1>1, FS_EmptySet DEF Count

LEMMA CountAppend ==
  ASSUME NEW S, NEW s \in Seq(S), NEW e \in S, NEW T
  PROVE  Count(Append(s, e), T) = Count(s, T) + One(e \in T)
<1> DEFINE n == Len(s) + 1
<1>1. Len(s) \in Nat /\ n \notin Places(s, T)
  BY DEF Places
<1>2. CASE e \in T
  <2>1. Places(Append(s, e), T) = Places(s, T) \union {n}
    BY <1>1, <1>2 DEF Places
  <2> QED
    BY <1>1, <1>2, <2>1, PlacesFinite, FS_AddElement DEF Count, One
<1>3. CASE e \notin T
  <2>1. Places(Append(s, e), T) = Places(s, T)
    BY <1>1, <1>3 DEF Places
  <2> QED
    BY <1>3, <2>1, PlacesFinite DEF Count, One
<1> QED
  BY <1>2, <1>3

\* The places of the tail are those of the channel but the first, one lower.
LEMMA CountTail ==
  ASSUME NEW S, NEW s \in Seq(S), s # <<>>, NEW T
  PROVE  Count(s, T) = Count(Tail(s), T) + One(Head(s) \in T)
<1> DEFINE R == {i \in 2 .. Len(s) : s[i] \in T}
           g == [i \in Places(Tail(s), T) |-> i + 1]
<1>1. /\ Len(s) \in Nat \ {0} /\ Tail(s) \in Seq(S) /\ Len(Tail(s)) = Len(s) - 1
      /\ \A i \in 1 .. Len(Tail(s)) : Tail(s)[i] = s[i + 1]
      /\ Head(s) = s[1]
  BY HeadTailProperties
<1>2. g \in Bijection(Places(Tail(s), T), R)
  <2>1. g \in [Places(Tail(s), T) -> R]
    BY <1>1 DEF Places
  <2>2. \A a, b \in Places(Tail(s), T) : g[a] = g[b] => a = b
    BY <1>1 DEF Places
  <2>3. ASSUME NEW j \in R PROVE \E i \in Places(Tail(s), T) : g[i] = j
    <3>1. j - 1 \in 1 .. Len(Tail(s)) /\ j - 1 + 1 = j /\ s[j] \in T
      BY <1>1
    <3>2. Tail(s)[j - 1] = s[j]
      BY <1>1, <3>1
    <3>3. j - 1 \in Places(Tail(s), T)
      BY <3>1, <3>2 DEF Places
    <3> QED
      BY <3>1, <3>3
  <2> QED
    BY <2>1, <2>2, <2>3 DEF Bijection, Injection, Surjection, IsInjective
<1> HIDE DEF g
<1>3. IsFiniteSet(R) /\ Cardinality(R) = Count(Tail(s), T)
  <2> HIDE DEF R
  <2>1. IsFiniteSet(Places(Tail(s), T))
    BY <1>1, PlacesFinite
  <2>2. ExistsBijection(Places(Tail(s), T), R)
    BY <1>2 DEF ExistsBijection
  <2> QED
    BY <2>1, <2>2, FS_Bijection DEF Count
<1>4. CASE Head(s) \in T
  <2>1. Places(s, T) = R \union {1} /\ 1 \notin R
    BY <1>1, <1>4 DEF Places
  <2> HIDE DEF R
  <2> QED
    BY <1>3, <1>4, <2>1, FS_AddElement DEF Count, One
<1>5. CASE Head(s) \notin T
  <2>1. Places(s, T) = R
    BY <1>1, <1>5 DEF Places
  <2> HIDE DEF R
  <2> QED
    BY <1>1, <1>3, <1>5, <2>1, PlacesFinite DEF Count, One
<1> QED
  BY <1>4, <1>5

\* A channel that is written counts what it had and what is added.
LEMMA CountJoined ==
  ASSUME NEW S, NEW s \in Seq(S), NEW t \in Seq(S), NEW T
  PROVE  Count(s \o t, T) = Count(s, T) + Count(t, T)
<1> DEFINE R == {i \in Len(s) + 1 .. Len(s) + Len(t) : t[i - Len(s)] \in T}
           g == [i \in Places(t, T) |-> i + Len(s)]
<1>1. /\ Len(s) \in Nat /\ Len(t) \in Nat /\ Len(s \o t) = Len(s) + Len(t)
      /\ \A i \in 1 .. Len(s) + Len(t) :
           (s \o t)[i] = IF i <= Len(s) THEN s[i] ELSE t[i - Len(s)]
  BY ConcatProperties
<1>2. g \in Bijection(Places(t, T), R)
  <2>1. g \in [Places(t, T) -> R]
    BY <1>1 DEF Places
  <2>2. \A a, b \in Places(t, T) : g[a] = g[b] => a = b
    BY <1>1 DEF Places
  <2>3. ASSUME NEW j \in R PROVE \E i \in Places(t, T) : g[i] = j
    <3>1. j - Len(s) \in 1 .. Len(t) /\ j - Len(s) + Len(s) = j
      BY <1>1
    <3>2. j - Len(s) \in Places(t, T)
      BY <3>1 DEF Places
    <3> QED
      BY <3>1, <3>2
  <2> QED
    BY <2>1, <2>2, <2>3 DEF Bijection, Injection, Surjection, IsInjective
<1>3. Places(s \o t, T) = Places(s, T) \union R
  <2>1. ASSUME NEW i \in 1 .. Len(s) + Len(t)
        PROVE  (s \o t)[i] \in T <=> i \in Places(s, T) \union R
    BY <1>1 DEF Places
  <2> QED
    BY <1>1, <2>1 DEF Places
<1>4. Places(s, T) \intersect R = {}
  BY <1>1 DEF Places
<1> HIDE DEF g, R
<1>5. IsFiniteSet(R) /\ Cardinality(R) = Count(t, T)
  <2>1. IsFiniteSet(Places(t, T))
    BY PlacesFinite
  <2>2. ExistsBijection(Places(t, T), R)
    BY <1>2 DEF ExistsBijection
  <2> QED
    BY <2>1, <2>2, FS_Bijection DEF Count
<1>6. /\ IsFiniteSet(Places(s, T)) /\ Count(s, T) \in Nat /\ Count(t, T) \in Nat
      /\ Cardinality({}) = 0
  BY PlacesFinite, FS_EmptySet
<1>7. Cardinality(Places(s, T) \union R)
        = Cardinality(Places(s, T)) + Cardinality(R)
          - Cardinality(Places(s, T) \intersect R)
  BY <1>5, <1>6, FS_Union
<1>8. Cardinality(Places(s, T) \intersect R) = 0
  BY <1>4, <1>6
<1>9. Count(s \o t, T) = Cardinality(Places(s, T) \union R)
  BY <1>3 DEF Count
<1>10. Cardinality(Places(s, T)) = Count(s, T)
  BY DEF Count
<1> QED
  BY <1>5, <1>6, <1>7, <1>8, <1>9, <1>10

LEMMA CountSingle == ASSUME NEW e, NEW T PROVE Count(<<e>>, T) = One(e \in T)
<1>1. <<>> \in Seq({e}) /\ e \in {e} /\ Append(<<>>, e) = <<e>>
  OBVIOUS
<1>2. Count(<<e>>, T) = Count(<<>>, T) + One(e \in T)
  BY <1>1, CountAppend
<1> QED
  BY <1>2, CountEmpty DEF One
-----------------------------------------------------------------------------
(***************************************************************************)
(* The debuggee.  Seen from the channels and from control, every step of   *)
(* the Lua thread has one of seven shapes.                                 *)
(***************************************************************************)

Running == LuaAlive /\ ~LuaWaits
Resolving == lpc = "resolve" /\ back = "query"

\* The event that reports an updated set before the answer.
Notice(m) ==
  IF m.cmd = "updateBreakpoints"
  THEN <<Message("breakpointsChanged", Nobody, m.file, m.ver)>> ELSE <<>>

SetCommands == {"setBreakpoints", "updateBreakpoints"}

\* The set a command carries is applied, except that the polling loop refuses
\* a setBreakpoints; a command loop refuses little else than queries.
Handles(kind, m) ==
  /\ IF m.cmd \in SetCommands /\ (lpc = "poll" => m.cmd = "updateBreakpoints")
     THEN breakpoints' = [breakpoints EXCEPT ![m.file] = m.ver]
     ELSE breakpoints' = breakpoints
  /\ kind = "error" => lpc = "poll" \/ m.cmd \in {"query", "resumeThread", "resolved"}

\* A command is served and answered; some resume the program.
Serves(kind, pre) ==
  /\ HasCommand /\ TakeCommand
  /\ pre \in {<<>>, Notice(NextCommand)}
  /\ Emit(pre \o Answer(kind, NextCommand)) /\ Handles(kind, NextCommand)
  /\ eof' = eof
  /\ \/ (Running' <=> Running) /\ (Resolving' <=> Resolving)
     \/ /\ kind = "reply" /\ NextCommand.cmd \in Resumes
        /\ ~Running /\ ~Resolving /\ Running' /\ ~Resolving'

\* A query waits for a path, and is answered when the path is known.
BeginsQuery ==
  /\ HasCommand /\ TakeCommand /\ NextCommand.cmd = "query"
  /\ \E f \in Files : Emit(<<Message("resolvePath", Nobody, f, 0)>>)
  /\ eof' = eof /\ breakpoints' = breakpoints
  /\ ~Running /\ ~Resolving /\ ~Running' /\ Resolving'

\* The answer of the adapter to a resolvePath, if one is read.
PathRead ==
  /\ queuedCommands' = queuedCommands
  /\ \/ stdin' = stdin
     \/ stdin # <<>> /\ Head(stdin).cmd = "resolved" /\ stdin' = Tail(stdin)

EndsQuery ==
  /\ PathRead /\ Emit(<<Message("reply", "loop", NoFile, 0)>>)
  /\ eof' = eof /\ breakpoints' = breakpoints
  /\ ~Running /\ Resolving /\ ~Running' /\ ~Resolving'

Keeps ==
  /\ stdin # <<>> /\ stdin' = Tail(stdin)
  /\ queuedCommands' = Append(queuedCommands, Head(stdin))
  /\ protocol' = protocol /\ eof' = eof /\ breakpoints' = breakpoints
  /\ (Running' <=> Running) /\ (Resolving' <=> Resolving)

Stops ==
  /\ PathRead
  /\ Emit(<<Stopped>>) \/ Emit(<<LuaOutput>> \o <<Stopped>>)
  /\ eof' = eof /\ breakpoints' = breakpoints
  /\ Running /\ ~Resolving /\ ~Running' /\ ~Resolving'

Goes ==
  /\ PathRead
  /\ \/ protocol' = protocol
     \/ \E f \in Files : Emit(<<Message("resolvePath", Nobody, f, 0)>>)
  /\ eof' = eof /\ breakpoints' = breakpoints
  /\ (Running' <=> Running) /\ (Resolving' <=> Resolving)
  /\ Running <=> ~Resolving

Ends ==
  /\ UNCHANGED <<stdin, queuedCommands>>
  /\ protocol' = protocol \/ Emit(<<LuaOutput>>)
  /\ eof'
  /\ ~LuaAlive' /\ ~Running' /\ ~Resolving'

LuaShape ==
  \/ \E kind \in {"reply", "error"} : \E pre : Serves(kind, pre)
  \/ BeginsQuery \/ EndsQuery \/ Keeps \/ Stops \/ Goes \/ Ends

LuaMoves == CommandLoop \/ Hook \/ Program \/ KilledProcess

LEMMA ModesOfLua ==
  /\ Running <=> LuaAlive /\ lpc \notin {"boot", "cmd"} /\ ~Resolving
  /\ Resolving => LuaAlive /\ lpc = "resolve"
BY DEF Running, Resolving, LuaAlive, LuaWaits, InCommandLoop

LEMMA DetachShape == ASSUME Detach PROVE Ends
BY DEF Detach, Ends, Running, Resolving, LuaAlive

LEMMA ExitShape ==
  ASSUME TypeOK, NEW ms, ms = <<>> \/ ms = <<LuaOutput>>, Exit(ms)
  PROVE  Ends
<1>1. protocol \o <<>> = protocol
  BY ConcatEmptySeq DEF TypeOK, WireTypeOK
<1> QED
  BY <1>1 DEF Exit, Ends, Emit, Running, Resolving, LuaAlive

\* A handler that leaves the loop where it is.
LEMMA AnswerAlone ==
  ASSUME NEW m \in Commands, NEW kind \in {"reply", "error"}
  PROVE  /\ Answer(kind, m) \in Seq(Messages)
         /\ <<>> \o Answer(kind, m) = Answer(kind, m)
BY AnswerType, ConcatEmptySeq

LEMMA LoopHandlerShape ==
  ASSUME NEW m \in Commands, InCommandLoop, ServeInLoop(m)
  PROVE  /\ \E kind \in {"reply", "error"} : \E pre \in {<<>>, Notice(m)} :
              Emit(pre \o Answer(kind, m)) /\ Handles(kind, m)
         /\ UNCHANGED <<lpc, back>>
<1>1. UNCHANGED <<lpc, back>>
  BY DEF ServeInLoop
<1>2. CASE SetBreakpointsHandler(m)
  <2>1. Emit(Notice(m) \o Answer("reply", m))
    BY <1>2 DEF SetBreakpointsHandler, Notice
  <2>2. Handles("reply", m)
    BY <1>2 DEF SetBreakpointsHandler, Handles, SetCommands, InCommandLoop
  <2> QED
    BY <1>1, <2>1, <2>2
<1>3. CASE PauseHandler(m)
  <2>1. Emit(<<>> \o Answer("reply", m))
    BY <1>3, AnswerAlone DEF PauseHandler
  <2>2. Handles("reply", m)
    BY <1>3 DEF PauseHandler, Handles, SetCommands
  <2> QED
    BY <1>1, <2>1, <2>2
<1>4. CASE /\ m.cmd \in {"capabilities", "resolved"} /\ breakpoints' = breakpoints
           /\ Emit(Answer(IF m.cmd = "resolved" THEN "error" ELSE "reply", m))
  <2>1. PICK kind \in {"reply", "error"} :
          /\ kind = IF m.cmd = "resolved" THEN "error" ELSE "reply"
          /\ Emit(<<>> \o Answer(kind, m))
    BY <1>4, AnswerAlone
  <2>2. Handles(kind, m)
    BY <1>4, <2>1 DEF Handles, SetCommands
  <2> QED
    BY <1>1, <2>1, <2>2
<1>5. CASE ServeQuery(m) /\ breakpoints' = breakpoints
  <2>1. PICK kind \in {"reply", "error"} : Emit(<<>> \o Answer(kind, m))
    BY <1>5, AnswerAlone DEF ServeQuery
  <2>2. Handles(kind, m)
    BY <1>5 DEF ServeQuery, Handles, SetCommands
  <2> QED
    BY <1>1, <2>1, <2>2
<1> QED
  BY <1>2, <1>3, <1>4, <1>5 DEF ServeInLoop

LEMMA LuaCommandShape ==
  ASSUME TypeOK, LuaCommand
  PROVE  (\E kind \in {"reply", "error"} : \E pre : Serves(kind, pre)) \/ BeginsQuery
<1> DEFINE m == NextCommand
<1>1. /\ InCommandLoop /\ HasCommand /\ TakeCommand /\ eof' = eof
      /\ m \in Commands
      /\ \/ ServeInLoop(m) \/ ServeResume(m)
         \/ ServeResumeThread(m) \/ ServeQueryResolving(m)
  BY CommandTaken DEF LuaCommand, TypeOK, WireTypeOK, LuaTypeOK
<1>2. ~Running /\ ~Resolving
  BY <1>1 DEF InCommandLoop, Running, Resolving, LuaWaits
<1>3. Emit(Answer("reply", m)) => Emit(<<>> \o Answer("reply", m))
  BY <1>1, AnswerAlone
<1>4. CASE ServeInLoop(m)
  <2>1. PICK kind \in {"reply", "error"}, pre \in {<<>>, Notice(m)} :
          Emit(pre \o Answer(kind, m)) /\ Handles(kind, m)
    BY <1>1, <1>4, LoopHandlerShape
  <2>2. UNCHANGED <<lpc, back>>
    BY <1>1, <1>4, LoopHandlerShape
  <2>3. (Running' <=> Running) /\ (Resolving' <=> Resolving)
    BY <2>2 DEF Running, Resolving, LuaAlive, LuaWaits, InCommandLoop
  <2>4. Serves(kind, pre)
    BY <1>1, <2>1, <2>3 DEF Serves
  <2> QED
    BY <2>4
<1>5. CASE ServeResume(m) \/ ServeResumeThread(m)
  <2>1. Emit(Answer("reply", m)) /\ lpc' = "run" /\ m.cmd \in Resumes
    BY <1>5 DEF ServeResume, ServeResumeThread, Resumes
  <2>2. Running' /\ ~Resolving'
    BY <2>1 DEF Running, Resolving, LuaAlive, LuaWaits, InCommandLoop
  <2>3. Handles("reply", m)
    BY <1>5, <2>1 DEF ServeResume, ServeResumeThread, Handles, SetCommands, Resumes
  <2>4. Serves("reply", <<>>)
    BY <1>1, <1>2, <1>3, <2>1, <2>2, <2>3 DEF Serves
  <2> QED
    BY <2>4
<1>6. CASE ServeQueryResolving(m)
  <2>1. /\ m.cmd = "query" /\ lpc' = "resolve" /\ back' = "query" /\ breakpoints' = breakpoints
        /\ \E f \in Files : Emit(<<Message("resolvePath", Nobody, f, 0)>>)
    BY <1>6 DEF ServeQueryResolving
  <2>2. ~Running' /\ Resolving'
    BY <2>1 DEF Running, Resolving, LuaWaits, InCommandLoop
  <2>3. BeginsQuery
    BY <1>1, <1>2, <2>1, <2>2 DEF BeginsQuery
  <2> QED
    BY <2>3
<1> QED
  BY <1>1, <1>4, <1>5, <1>6

LEMMA PollShape == ASSUME TypeOK, PollCommand PROVE LuaShape
<1> DEFINE m == NextCommand
<1>1. /\ HasCommand /\ TakeCommand /\ eof' = eof /\ m \in Commands
      /\ lpc = "poll" /\ lpc' \in {"poll", "line"}
      /\ IF m.cmd \in {"pause", "updateBreakpoints"}
         THEN PauseHandler(m) \/ SetBreakpointsHandler(m)
         ELSE Emit(Answer("error", m)) /\ breakpoints' = breakpoints
  BY CommandTaken DEF PollCommand, TypeOK, WireTypeOK, LuaTypeOK
<1>2. Running /\ ~Resolving /\ Running' /\ ~Resolving'
  BY <1>1 DEF Running, Resolving, LuaAlive, LuaWaits, InCommandLoop
<1>3. \E kind \in {"reply", "error"} : \E pre \in {<<>>, Notice(m)} :
        Emit(pre \o Answer(kind, m)) /\ Handles(kind, m)
  <2>1. CASE PauseHandler(m)
    <3>1. Emit(<<>> \o Answer("reply", m))
      BY <1>1, <2>1, AnswerAlone DEF PauseHandler
    <3>2. Handles("reply", m)
      BY <2>1 DEF PauseHandler, Handles, SetCommands
    <3> QED
      BY <3>1, <3>2
  <2>2. CASE m.cmd = "updateBreakpoints" /\ SetBreakpointsHandler(m)
    <3>1. Emit(Notice(m) \o Answer("reply", m))
      BY <2>2 DEF SetBreakpointsHandler, Notice
    <3>2. Handles("reply", m)
      BY <2>2 DEF SetBreakpointsHandler, Handles, SetCommands
    <3> QED
      BY <3>1, <3>2
  <2>3. CASE /\ m.cmd \notin {"pause", "updateBreakpoints"}
             /\ Emit(Answer("error", m)) /\ breakpoints' = breakpoints
    <3>1. Emit(<<>> \o Answer("error", m))
      BY <1>1, <2>3, AnswerAlone
    <3>2. Handles("error", m)
      BY <1>1, <2>3 DEF Handles
    <3> QED
      BY <3>1, <3>2
  <2>4. SetBreakpointsHandler(m) => m.cmd # "pause"
    BY DEF SetBreakpointsHandler
  <2> QED
    BY <1>1, <2>1, <2>2, <2>3, <2>4
<1>4. PICK kind \in {"reply", "error"}, pre \in {<<>>, Notice(m)} :
        Emit(pre \o Answer(kind, m)) /\ Handles(kind, m)
  BY <1>3
<1>5. Serves(kind, pre)
  BY <1>1, <1>2, <1>4 DEF Serves
<1> QED
  BY <1>5 DEF LuaShape

\* pause() and resolvePath.
LEMMA StopShape ==
  ASSUME Running, ~Resolving, PathRead, UNCHANGED <<eof, breakpoints>>, Pause
  PROVE  LuaShape
BY DEF Pause, Stops, LuaShape, Running, Resolving, LuaWaits, InCommandLoop

LEMMA BlindShape ==
  ASSUME Running, ~Resolving, PathRead, UNCHANGED <<eof, breakpoints>>,
         PauseUnlessBlind
  PROVE  LuaShape
<1>1. CASE Pause
  BY <1>1, StopShape
<1>2. CASE lpc' = "run" /\ protocol' = protocol
  <2>1. Running' /\ ~Resolving'
    BY <1>2 DEF Running, Resolving, LuaAlive, LuaWaits, InCommandLoop
  <2>2. Goes
    BY <1>2, <2>1 DEF Goes
  <2> QED
    BY <2>2 DEF LuaShape
<1> QED
  BY <1>1, <1>2 DEF PauseUnlessBlind

LEMMA AskShape ==
  ASSUME Running, ~Resolving, PathRead, UNCHANGED <<eof, breakpoints>>,
         NEW f \in Files, NEW then \in {"line", "stop"}, AskPath(f, then)
  PROVE  LuaShape
<1>1. Running' /\ ~Resolving'
  BY DEF AskPath, Running, Resolving, LuaAlive, LuaWaits, InCommandLoop
<1>2. \/ protocol' = protocol
      \/ \E g \in Files : Emit(<<Message("resolvePath", Nobody, g, 0)>>)
  BY DEF AskPath
<1>3. Goes
  BY <1>1, <1>2 DEF Goes
<1> QED
  BY <1>3 DEF LuaShape

LEMMA HookShape == ASSUME TypeOK, LuaHookStep PROVE LuaShape
<1>1. CASE PollCommand
  BY <1>1, PollShape
<1>2. CASE PollEmpty \/ HookReturn
  <2>1. /\ lpc \in {"poll", "line"} /\ lpc' \in {"line", "run"}
        /\ UNCHANGED <<queuedCommands, stdin, protocol, eof, breakpoints>>
    BY <1>2 DEF PollEmpty, HookReturn, wireVars
  <2>2. Running /\ ~Resolving /\ Running' /\ ~Resolving'
    BY <2>1 DEF Running, Resolving, LuaAlive, LuaWaits, InCommandLoop
  <2>3. Goes
    BY <2>1, <2>2 DEF Goes, PathRead
  <2> QED
    BY <2>3 DEF LuaShape
<1>3. CASE HookStop
  <2>1. /\ lpc = "line" /\ at \in Files
        /\ UNCHANGED <<queuedCommands, stdin, eof, breakpoints>>
        /\ AskPath(at, "line") \/ Pause
    BY <1>3 DEF HookStop, TypeOK, LuaTypeOK
  <2>2. Running /\ ~Resolving /\ PathRead
    BY <2>1 DEF Running, Resolving, LuaAlive, LuaWaits, InCommandLoop, PathRead
  <2> QED
    BY <2>1, <2>2, AskShape, StopShape
<1>4. CASE ResolveQueue
  <2>1. /\ stdin # <<>> /\ stdin' = Tail(stdin)
        /\ queuedCommands' = Append(queuedCommands, Head(stdin))
        /\ UNCHANGED <<protocol, eof, lpc, back, breakpoints>>
    BY <1>4 DEF ResolveQueue, KeepCommand
  <2>2. (Running' <=> Running) /\ (Resolving' <=> Resolving)
    BY <2>1 DEF Running, Resolving, LuaAlive, LuaWaits, InCommandLoop
  <2>3. Keeps
    BY <2>1, <2>2 DEF Keeps
  <2> QED
    BY <2>3 DEF LuaShape
<1>5. CASE ResolveDone
  <2>1. /\ lpc = "resolve" /\ PathRead /\ UNCHANGED <<eof, breakpoints>>
        /\ \/ back = "stop" /\ PauseUnlessBlind
           \/ back = "line" /\ lpc' = "line" /\ protocol' = protocol
           \/ /\ back = "query" /\ lpc' = "cmd"
              /\ Emit(<<Message("reply", "loop", NoFile, 0)>>)
           \/ back = "query" /\ AskNextPath
    BY <1>5 DEF ResolveDone, PathKnown, PathRead
  <2>2. CASE back = "stop" /\ PauseUnlessBlind
    <3>1. Running /\ ~Resolving
      BY <2>1, <2>2 DEF Running, Resolving, LuaAlive, LuaWaits, InCommandLoop
    <3> QED
      BY <2>1, <2>2, <3>1, BlindShape
  <2>3. CASE back = "line" /\ lpc' = "line" /\ protocol' = protocol
    <3>1. Running /\ ~Resolving /\ Running' /\ ~Resolving'
      BY <2>1, <2>3 DEF Running, Resolving, LuaAlive, LuaWaits, InCommandLoop
    <3> QED
      BY <2>1, <2>3, <3>1 DEF Goes, LuaShape
  <2>4. CASE /\ back = "query" /\ lpc' = "cmd"
             /\ Emit(<<Message("reply", "loop", NoFile, 0)>>)
    <3>1. ~Running /\ Resolving /\ ~Running' /\ ~Resolving'
      BY <2>1, <2>4 DEF Running, Resolving, LuaAlive, LuaWaits, InCommandLoop
    <3> QED
      BY <2>1, <2>4, <3>1 DEF EndsQuery, LuaShape
  <2>5. CASE back = "query" /\ AskNextPath
    <3>1. UNCHANGED <<lpc, back>>
      BY <2>5 DEF AskNextPath
    <3>2. ~Running /\ Resolving /\ ~Running' /\ Resolving'
      BY <2>1, <2>5, <3>1 DEF Running, Resolving, LuaAlive, LuaWaits, InCommandLoop
    <3>3. \E f \in Files : Emit(<<Message("resolvePath", Nobody, f, 0)>>)
      BY <2>5 DEF AskNextPath
    <3>4. Goes
      BY <2>1, <3>2, <3>3 DEF Goes
    <3> QED
      BY <3>4 DEF LuaShape
  <2> QED
    BY <2>1, <2>2, <2>3, <2>4, <2>5
<1> QED
  BY <1>1, <1>2, <1>3, <1>4, <1>5 DEF LuaHookStep

LEMMA ProgramShape == ASSUME TypeOK, ProgramStep PROVE LuaShape
<1>1. ASSUME NEW f \in Files \union {NoFile}, HookEnter(f) PROVE LuaShape
  <2>1. /\ lpc = "run" /\ lpc' \in {"line", "poll"}
        /\ UNCHANGED <<queuedCommands, stdin, protocol, eof, breakpoints>>
    BY <1>1 DEF HookEnter, wireVars
  <2>2. Running /\ ~Resolving /\ Running' /\ ~Resolving'
    BY <2>1 DEF Running, Resolving, LuaAlive, LuaWaits, InCommandLoop
  <2> QED
    BY <2>1, <2>2 DEF Goes, PathRead, LuaShape
<1>2. ASSUME NEW f \in Files, ErrorStop(f) PROVE LuaShape
  <2>1. /\ lpc = "run" /\ UNCHANGED <<queuedCommands, stdin, eof, breakpoints>>
        /\ AskPath(f, "stop") \/ PauseUnlessBlind
    BY <1>2 DEF ErrorStop
  <2>2. Running /\ ~Resolving /\ PathRead
    BY <2>1 DEF Running, Resolving, LuaAlive, LuaWaits, InCommandLoop, PathRead
  <2> QED
    BY <2>1, <2>2, AskShape, BlindShape
<1>3. CASE CoroutineReturns
  <2>1. PICK failed \in BOOLEAN :
          Emit((IF failed THEN <<LuaOutput>> ELSE <<>>) \o <<Stopped>>)
    BY <1>3 DEF CoroutineReturns
  <2>2. <<>> \o <<Stopped>> = <<Stopped>>
    OBVIOUS
  <2>3. Emit(<<Stopped>>) \/ Emit(<<LuaOutput>> \o <<Stopped>>)
    BY <2>1, <2>2
  <2>4. /\ lpc = "run" /\ lpc' = "cmd"
        /\ UNCHANGED <<queuedCommands, stdin, eof, breakpoints>>
    BY <1>3 DEF CoroutineReturns
  <2>5. Running /\ ~Resolving /\ ~Running' /\ ~Resolving'
    BY <2>4 DEF Running, Resolving, LuaAlive, LuaWaits, InCommandLoop
  <2>6. Stops
    BY <2>3, <2>4, <2>5 DEF Stops, PathRead
  <2> QED
    BY <2>6 DEF LuaShape
<1>4. CASE ProgramPrints
  <2>1. /\ lpc = "run" /\ lpc' = lpc
        /\ UNCHANGED <<queuedCommands, stdin, protocol, eof, breakpoints>>
    BY <1>4 DEF ProgramPrints, luaVars
  <2>2. Running /\ ~Resolving /\ Running' /\ ~Resolving'
    BY <2>1 DEF Running, Resolving, LuaAlive, LuaWaits, InCommandLoop
  <2> QED
    BY <2>1, <2>2 DEF Goes, PathRead, LuaShape
<1>5. CASE ProgramEnds
  BY <1>5, ExitShape DEF ProgramEnds, LuaShape
<1>6. CASE HostStops \/ SendFails
  BY <1>6, DetachShape DEF HostStops, SendFails, LuaShape
<1> QED
  BY <1>1, <1>2, <1>3, <1>4, <1>5, <1>6 DEF ProgramStep

LEMMA ShapeOfLua == ASSUME TypeOK, LuaMoves PROVE LuaShape
<1>1. CASE CommandLoop
  <2>1. CASE StreamEnded
    BY <2>1, DetachShape, ExitShape DEF StreamEnded, LuaShape
  <2>2. CASE FailedProgramEnds
    BY <2>2, ExitShape DEF FailedProgramEnds, LuaShape
  <2> QED
    BY <1>1, <2>1, <2>2, LuaCommandShape DEF CommandLoop, LuaLoopStep, LuaShape
<1>2. CASE Hook
  BY <1>2, HookShape DEF Hook
<1>3. CASE Program
  BY <1>3, ProgramShape DEF Program
<1>4. CASE KilledProcess
  BY <1>4, ExitShape DEF KilledProcess, LuaKilled, LuaShape
<1> QED
  BY <1>1, <1>2, <1>3, <1>4 DEF LuaMoves

\* The Lua thread acts while debugger.lua has the session, and never starts
\* over.
LEMMA LuaLives ==
  ASSUME LuaMoves
  PROVE  LuaAlive /\ lpc' # "off" /\ UNCHANGED disposed
<1> USE DEF LuaAlive, luaVars, wireVars
<1>1. ASSUME NEW ms, Exit(ms) PROVE lpc' # "off" /\ UNCHANGED disposed
  BY <1>1 DEF Exit
<1>2. Detach => lpc' # "off" /\ UNCHANGED disposed
  BY DEF Detach
<1>3. CASE CommandLoop
  <2>1. CASE LuaCommand
    BY <2>1 DEF LuaCommand, InCommandLoop, ServeInLoop, ServeResume, ServeResumeThread,
                ServeQueryResolving
  <2>2. CASE StreamEnded \/ FailedProgramEnds
    BY <1>1, <1>2, <2>2 DEF StreamEnded, FailedProgramEnds, InAnyLoop, InCommandLoop
  <2> QED
    BY <1>3, <2>1, <2>2 DEF CommandLoop, LuaLoopStep
<1>4. CASE Hook
  BY <1>4 DEF Hook, LuaHookStep, PollCommand, PollEmpty, HookReturn, HookStop, AskPath,
              Pause, PauseUnlessBlind, AskNextPath, ResolveQueue, ResolveDone
<1>5. CASE Program
  <2>1. ASSUME NEW f, HookEnter(f) \/ ErrorStop(f)
        PROVE  LuaAlive /\ lpc' # "off" /\ UNCHANGED disposed
    BY <2>1 DEF HookEnter, ErrorStop, AskPath, PauseUnlessBlind, Pause
  <2>2. CASE CoroutineReturns \/ ProgramPrints
    BY <2>2 DEF CoroutineReturns, ProgramPrints
  <2>3. CASE ProgramEnds \/ HostStops
    BY <1>1, <1>2, <2>3 DEF ProgramEnds, HostStops
  <2>4. CASE SendFails
    BY <1>2, <2>4 DEF SendFails, InAnyLoop, InCommandLoop, HasCommand, Interested
  <2> QED
    BY <1>5, <2>1, <2>2, <2>3, <2>4 DEF Program, ProgramStep
<1>6. CASE KilledProcess
  BY <1>1, <1>6 DEF KilledProcess, LuaKilled
<1> QED
  BY <1>3, <1>4, <1>5, <1>6 DEF LuaMoves
-----------------------------------------------------------------------------
(***************************************************************************)
(* Where the command and the reply of a call are.                          *)
(***************************************************************************)

CallsOf(c) == {m \in Commands : m.by = c}
RepliesTo(c) == {m \in Messages : m.to = c}

Transit(T, U) ==
  Count(commands, T) + Count(stdin, T) + Count(queuedCommands, T)
  + Count(protocol, U)
Owed(c) == Transit(CallsOf(c), RepliesTo(c)) + One(c = "loop" /\ Resolving)

LEMMA OneIs ==
  ASSUME NEW b
  PROVE  One(b) \in 0 .. 1 /\ (b => One(b) = 1) /\ (~b => One(b) = 0)
BY DEF One

LEMMA Cancelled ==
  ASSUME NEW i \in Nat, NEW j \in Nat, NEW k \in 0 .. 1, i + k = j + k
  PROVE  i = j
OBVIOUS

LEMMA OneSame == ASSUME NEW b, NEW d, b <=> d PROVE One(b) = One(d)
BY DEF One

\* The set of places the property counts, summed.
LEMMA OwedIsPlaces ==
  ASSUME TypeOK, NEW c \in Callers PROVE PlacesOf(c) = Owed(c)
<1>0. /\ commands \in Seq(Commands) /\ stdin \in Seq(Commands)
      /\ queuedCommands \in Seq(Commands) /\ protocol \in Seq(Messages)
  BY DEF TypeOK, WireTypeOK, LuaTypeOK, AdapterTypeOK
<1>1. ASSUME NEW s \in Seq(Commands)
      PROVE  Cardinality({i \in 1 .. Len(s) : s[i].by = c}) = Count(s, CallsOf(c))
  <2>1. {i \in 1 .. Len(s) : s[i].by = c} = Places(s, CallsOf(c))
    BY DEF Places, CallsOf
  <2> QED
    BY <2>1 DEF Count
<1>2. Cardinality({i \in 1 .. Len(protocol) : protocol[i].to = c})
        = Count(protocol, RepliesTo(c))
  <2>1. {i \in 1 .. Len(protocol) : protocol[i].to = c} = Places(protocol, RepliesTo(c))
    BY <1>0 DEF Places, RepliesTo
  <2> QED
    BY <2>1 DEF Count
<1>3. PlacesOf(c) =
        Cardinality({i \in 1 .. Len(commands) : commands[i].by = c})
        + Cardinality({i \in 1 .. Len(stdin) : stdin[i].by = c})
        + Cardinality({i \in 1 .. Len(queuedCommands) : queuedCommands[i].by = c})
        + Cardinality({i \in 1 .. Len(protocol) : protocol[i].to = c})
        + One(c = "loop" /\ Resolving)
  BY DEF PlacesOf, CountIn, One, Resolving
<1> QED
  BY <1>0, <1>1, <1>2, <1>3 DEF Owed, Transit

LEMMA CountsOfSession ==
  ASSUME TypeOK, NEW T
  PROVE  /\ Count(commands, T) \in Nat /\ Count(stdin, T) \in Nat
         /\ Count(queuedCommands, T) \in Nat /\ Count(protocol, T) \in Nat
BY PlacesFinite DEF TypeOK, WireTypeOK, LuaTypeOK, AdapterTypeOK

LEMMA CountsAfter ==
  ASSUME TypeOK', NEW T
  PROVE  /\ Count(commands, T)' \in Nat /\ Count(stdin, T)' \in Nat
         /\ Count(queuedCommands, T)' \in Nat /\ Count(protocol, T)' \in Nat
BY PlacesFinite DEF TypeOK, WireTypeOK, LuaTypeOK, AdapterTypeOK

\* readCommand removes the command it returns.
LEMMA TakenCount ==
  ASSUME TypeOK, HasCommand, TakeCommand, NEW T
  PROVE  \/ /\ Count(stdin, T)' = Count(stdin, T)
            /\ Count(queuedCommands, T)
                 = Count(queuedCommands, T)' + One(NextCommand \in T)
         \/ /\ Count(queuedCommands, T)' = Count(queuedCommands, T)
            /\ Count(stdin, T) = Count(stdin, T)' + One(NextCommand \in T)
<1>1. stdin \in Seq(Commands) /\ queuedCommands \in Seq(Commands)
  BY DEF TypeOK, WireTypeOK, LuaTypeOK
<1>2. CASE queuedCommands # <<>>
  <2>1. /\ NextCommand = Head(queuedCommands)
        /\ stdin' = stdin /\ queuedCommands' = Tail(queuedCommands)
    BY <1>2 DEF NextCommand, TakeCommand
  <2>2. Count(queuedCommands, T)
          = Count(Tail(queuedCommands), T) + One(Head(queuedCommands) \in T)
    BY <1>1, <1>2, CountTail
  <2> QED
    BY <2>1, <2>2
<1>3. CASE queuedCommands = <<>>
  <2>1. /\ stdin # <<>> /\ NextCommand = Head(stdin)
        /\ stdin' = Tail(stdin) /\ queuedCommands' = queuedCommands
    BY <1>3 DEF HasCommand, NextCommand, TakeCommand
  <2>2. Count(stdin, T) = Count(Tail(stdin), T) + One(Head(stdin) \in T)
    BY <1>1, <2>1, CountTail
  <2> QED
    BY <2>1, <2>2
<1> QED
  BY <1>2, <1>3

LEMMA PathReadCount ==
  ASSUME TypeOK, PathRead, NEW T,
         stdin # <<>> /\ Head(stdin).cmd = "resolved" => Head(stdin) \notin T
  PROVE  /\ Count(stdin, T)' = Count(stdin, T)
         /\ Count(queuedCommands, T)' = Count(queuedCommands, T)
<1>1. stdin \in Seq(Commands)
  BY DEF TypeOK, WireTypeOK
<1>2. CASE stdin' = stdin
  BY <1>2 DEF PathRead
<1>3. CASE stdin # <<>> /\ Head(stdin).cmd = "resolved" /\ stdin' = Tail(stdin)
  <2>1. Count(stdin, T) = Count(Tail(stdin), T) + One(Head(stdin) \in T)
    BY <1>1, <1>3, CountTail
  <2>2. Count(Tail(stdin), T) \in Nat
    BY <1>1, <1>3, HeadAndTail, PlacesFinite
  <2> QED
    BY <1>3, <2>1, <2>2 DEF One, PathRead
<1> QED
  BY <1>2, <1>3 DEF PathRead

LEMMA KeptCount ==
  ASSUME TypeOK, Keeps, NEW T
  PROVE  /\ Count(stdin, T) = Count(stdin, T)' + One(Head(stdin) \in T)
         /\ Count(queuedCommands, T)'
              = Count(queuedCommands, T) + One(Head(stdin) \in T)
<1>1. stdin \in Seq(Commands) /\ queuedCommands \in Seq(Commands) /\ stdin # <<>>
  BY DEF TypeOK, WireTypeOK, LuaTypeOK, Keeps
<1>2. Head(stdin) \in Commands
  BY <1>1, HeadAndTail
<1>3. Count(stdin, T) = Count(Tail(stdin), T) + One(Head(stdin) \in T)
  BY <1>1, CountTail
<1>4. Count(Append(queuedCommands, Head(stdin)), T)
        = Count(queuedCommands, T) + One(Head(stdin) \in T)
  BY <1>1, <1>2, CountAppend
<1> QED
  BY <1>3, <1>4 DEF Keeps

\* What is written adds to the count of the protocol.
LEMMA EmittedCount ==
  ASSUME TypeOK, NEW ms \in Seq(Messages), Emit(ms), NEW T
  PROVE  Count(protocol, T)' = Count(protocol, T) + Count(ms, T)
<1>1. protocol \in Seq(Messages)
  BY DEF TypeOK, WireTypeOK
<1> QED
  BY <1>1, CountJoined DEF Emit

LEMMA EmittedOne ==
  ASSUME TypeOK, NEW e \in Messages, Emit(<<e>>), NEW T
  PROVE  Count(protocol, T)' = Count(protocol, T) + One(e \in T)
<1>1. <<e>> \in Seq(Messages)
  OBVIOUS
<1>2. Count(<<e>>, T) = One(e \in T)
  BY CountSingle, Zenon
<1> QED
  BY <1>1, <1>2, EmittedCount, Zenon

LEMMA EmittedTwo ==
  ASSUME TypeOK, NEW d \in Messages, NEW e \in Messages, Emit(<<d>> \o <<e>>), NEW T
  PROVE  Count(protocol, T)' = Count(protocol, T) + (One(d \in T) + One(e \in T))
<1>1. /\ <<d>> \in Seq(Messages) /\ <<e>> \in Seq(Messages)
      /\ <<d>> \o <<e>> \in Seq(Messages)
  OBVIOUS
<1>2. Count(<<d>> \o <<e>>, T) = Count(<<d>>, T) + Count(<<e>>, T)
  BY <1>1, CountJoined, Zenon
<1>3. Count(<<d>>, T) = One(d \in T) /\ Count(<<e>>, T) = One(e \in T)
  BY CountSingle, Zenon
<1> QED
  BY <1>1, <1>2, <1>3, EmittedCount, Zenon

\* A served command is answered once if it has an id; the event that may
\* precede the answer is addressed to nobody.
LEMMA AnsweredCount ==
  ASSUME TypeOK, NEW kind \in {"reply", "error"}, NEW pre, Serves(kind, pre), NEW T,
         Message("breakpointsChanged", Nobody, NextCommand.file, NextCommand.ver) \notin T
  PROVE  Count(protocol, T)' = Count(protocol, T)
           + One(/\ NextCommand.by # Nobody
                 /\ Message(kind, NextCommand.by, NextCommand.file, NextCommand.ver) \in T)
<1> DEFINE m == NextCommand
<1>0. /\ HasCommand /\ m \in Commands
      /\ pre \in {<<>>, Notice(m)} /\ Emit(pre \o Answer(kind, m))
  BY CommandTaken DEF Serves, TypeOK, WireTypeOK, LuaTypeOK
<1> HIDE DEF m
<1>1. /\ protocol \in Seq(Messages) /\ Answer(kind, m) \in Seq(Messages)
  BY <1>0, AnswerType DEF TypeOK, WireTypeOK
<1>2. pre \in Seq(Messages) /\ Count(pre, T) = 0
  <2>1. CASE pre = <<>>
    BY <2>1, CountEmpty
  <2>2. CASE pre = <<Message("breakpointsChanged", Nobody, m.file, m.ver)>>
    <3>1. Message("breakpointsChanged", Nobody, m.file, m.ver) \in Messages
      BY <1>0, MessageType DEF MessageKinds, Commands
    <3> QED
      BY <2>2, <3>1, Single, CountSingle DEF One, m
  <2> QED
    BY <1>0, <2>1, <2>2 DEF Notice
<1>3. Count(Answer(kind, m), T)
        = One(m.by # Nobody /\ Message(kind, m.by, m.file, m.ver) \in T)
  <2>1. CASE m.by = Nobody
    BY <2>1, CountEmpty DEF Answer, One
  <2>2. CASE m.by # Nobody
    <3>1. Answer(kind, m) = <<Message(kind, m.by, m.file, m.ver)>>
      BY <2>2 DEF Answer
    <3> QED
      BY <2>2, <3>1, CountSingle DEF One
  <2> QED
    BY <2>1, <2>2
<1>4. pre \o Answer(kind, m) \in Seq(Messages)
  BY <1>1, <1>2, Joined
<1>5. /\ Count(pre \o Answer(kind, m), T) = Count(pre, T) + Count(Answer(kind, m), T)
      /\ Count(Answer(kind, m), T) \in Nat
  BY <1>1, <1>2, CountJoined, PlacesFinite
<1>6. Count(protocol, T)' = Count(protocol, T) + Count(pre \o Answer(kind, m), T)
  BY <1>0, <1>4, EmittedCount, Zenon
<1>7. Count(pre \o Answer(kind, m), T) = Count(Answer(kind, m), T)
  BY <1>2, <1>5
<1> QED
  BY <1>3, <1>6, <1>7, Zenon DEF m
-----------------------------------------------------------------------------
(***************************************************************************)
(* The messages are addressed: only the request loop inspects and resumes  *)
(* the program, a set sent with an id has a caller, nobody waits for an    *)
(* answer to a path, and events have no addressee.                         *)
(***************************************************************************)

AddressedCommands ==
  {m \in Commands : /\ m.cmd \in Resumes \union {"query"} => m.by = "loop"
                    /\ m.cmd = "setBreakpoints" => m.by \in Callers
                    /\ m.cmd = "resolved" => m.by = Nobody}
AddressedMessages ==
  {m \in Messages : m.kind \notin {"reply", "error"} => m.to = Nobody}

AddressInv ==
  /\ commands \in Seq(AddressedCommands)
  /\ stdin \in Seq(AddressedCommands)
  /\ queuedCommands \in Seq(AddressedCommands)
  /\ protocol \in Seq(AddressedMessages)

LEMMA NobodyIsNoCaller == Nobody \notin Callers
BY WireAssumption DEF Callers

\* Channels of any sort of command, moved by the Lua thread.
LEMMA MovedCommands ==
  ASSUME NEW S, stdin \in Seq(S), queuedCommands \in Seq(S), LuaShape
  PROVE  stdin' \in Seq(S) /\ queuedCommands' \in Seq(S)
<1>1. CASE HasCommand /\ TakeCommand
  BY <1>1, HeadAndTail DEF HasCommand, TakeCommand
<1>2. CASE PathRead
  BY <1>2, HeadAndTail DEF PathRead
<1>3. CASE Keeps
  BY <1>3, HeadAndTail, Appended DEF Keeps
<1>4. CASE Ends
  BY <1>4 DEF Ends
<1> QED
  BY <1>1, <1>2, <1>3, <1>4 DEF LuaShape, Serves, BeginsQuery, EndsQuery, Stops, Goes

LEMMA TakenFrom ==
  ASSUME NEW S, stdin \in Seq(S), queuedCommands \in Seq(S), HasCommand
  PROVE  NextCommand \in S
BY HeadAndTail DEF HasCommand, NextCommand

\* Messages of any sort that has those the Lua thread writes.
LEMMA ServedMessages ==
  ASSUME NEW S, protocol \in Seq(S), NEW kind, NEW pre, Serves(kind, pre),
         NextCommand.by # Nobody =>
           Message(kind, NextCommand.by, NextCommand.file, NextCommand.ver) \in S,
         NextCommand.cmd = "updateBreakpoints" =>
           Message("breakpointsChanged", Nobody, NextCommand.file, NextCommand.ver) \in S
  PROVE  protocol' \in Seq(S)
<1>1. HasCommand /\ pre \in {<<>>, Notice(NextCommand)}
  BY DEF Serves
<1>2. Answer(kind, NextCommand) \in Seq(S)
  BY <1>1, Single DEF Answer
<1>3. pre \in Seq(S)
  <2>1. CASE pre = <<>>
    BY <2>1
  <2>2. CASE NextCommand.cmd = "updateBreakpoints" /\ pre = Notice(NextCommand)
    <3>1. Message("breakpointsChanged", Nobody, NextCommand.file, NextCommand.ver) \in S
      BY <1>1, <2>2
    <3> QED
      BY <2>2, <3>1, Single DEF Notice
  <2> QED
    BY <1>1, <2>1, <2>2 DEF Notice
<1>4. pre \o Answer(kind, NextCommand) \in Seq(S)
  BY <1>2, <1>3, Joined
<1> QED
  BY <1>4, Joined DEF Serves, Emit

LEMMA WrittenMessages ==
  ASSUME NEW S, protocol \in Seq(S), LuaShape,
         Stopped \in S, LuaOutput \in S, Message("reply", "loop", NoFile, 0) \in S,
         \A f \in Files : Message("resolvePath", Nobody, f, 0) \in S,
         \A kind \in {"reply", "error"} : \A pre : Serves(kind, pre) => protocol' \in Seq(S)
  PROVE  protocol' \in Seq(S)
<1>0. ASSUME NEW ms \in Seq(S), Emit(ms) PROVE protocol' \in Seq(S)
  BY <1>0, Joined DEF Emit
<1>1. ASSUME NEW f \in Files, Emit(<<Message("resolvePath", Nobody, f, 0)>>)
      PROVE  protocol' \in Seq(S)
  <2>1. <<Message("resolvePath", Nobody, f, 0)>> \in Seq(S)
    BY Single
  <2> QED
    BY <1>0, <1>1, <2>1
<1>2. CASE EndsQuery
  <2>1. <<Message("reply", "loop", NoFile, 0)>> \in Seq(S)
    BY Single
  <2> QED
    BY <1>0, <1>2, <2>1 DEF EndsQuery
<1>3. <<Stopped>> \in Seq(S) /\ <<LuaOutput>> \in Seq(S)
  BY Single
<1>4. CASE Stops
  <2>1. <<LuaOutput>> \o <<Stopped>> \in Seq(S)
    BY <1>3, Joined
  <2> QED
    BY <1>0, <1>3, <1>4, <2>1 DEF Stops
<1>5. CASE Ends
  BY <1>0, <1>3, <1>5 DEF Ends
<1>6. CASE Keeps
  BY <1>6 DEF Keeps
<1> QED
  BY <1>1, <1>2, <1>4, <1>5, <1>6 DEF LuaShape, BeginsQuery, Goes

LEMMA MovedMessages ==
  ASSUME NEW S, protocol \in Seq(S), LuaShape,
         Stopped \in S, LuaOutput \in S, Message("reply", "loop", NoFile, 0) \in S,
         \A f \in Files : Message("resolvePath", Nobody, f, 0) \in S,
         HasCommand =>
           /\ \A kind \in {"reply", "error"} :
                NextCommand.by # Nobody =>
                  Message(kind, NextCommand.by, NextCommand.file, NextCommand.ver) \in S
           /\ NextCommand.cmd = "updateBreakpoints" =>
                Message("breakpointsChanged", Nobody, NextCommand.file, NextCommand.ver) \in S
  PROVE  protocol' \in Seq(S)
<1>1. ASSUME NEW kind \in {"reply", "error"}, NEW pre, Serves(kind, pre)
      PROVE  protocol' \in Seq(S)
  <2>1. HasCommand
    BY <1>1 DEF Serves
  <2> QED
    BY <1>1, <2>1, ServedMessages
<1> QED
  BY <1>1, WrittenMessages

LEMMA LuaAddressed ==
  ASSUME TypeOK, AddressInv, LuaShape, UNCHANGED commands
  PROVE  AddressInv'
<1>1. /\ Stopped \in AddressedMessages /\ LuaOutput \in AddressedMessages
      /\ Message("reply", "loop", NoFile, 0) \in AddressedMessages
      /\ \A f \in Files : Message("resolvePath", Nobody, f, 0) \in AddressedMessages
  BY PlainMessages DEF AddressedMessages, Stopped, LuaOutput, Message
<1>2. ASSUME HasCommand
      PROVE  /\ \A kind \in {"reply", "error"} :
                  NextCommand.by # Nobody =>
                    Message(kind, NextCommand.by, NextCommand.file, NextCommand.ver)
                      \in AddressedMessages
             /\ Message("breakpointsChanged", Nobody, NextCommand.file, NextCommand.ver)
                  \in AddressedMessages
  <2>1. NextCommand \in Commands
    BY <1>2, TakenFrom DEF TypeOK, WireTypeOK, LuaTypeOK
  <2>2. \A kind \in {"reply", "error", "breakpointsChanged"} :
          \A to \in Callers \union {Nobody} :
            Message(kind, to, NextCommand.file, NextCommand.ver) \in Messages
    BY <2>1, MessageType DEF Commands, MessageKinds
  <2> QED
    BY <2>1, <2>2 DEF AddressedMessages, Message, Commands
<1>3. protocol' \in Seq(AddressedMessages)
  BY <1>1, <1>2, MovedMessages DEF AddressInv
<1>4. stdin' \in Seq(AddressedCommands) /\ queuedCommands' \in Seq(AddressedCommands)
  BY MovedCommands DEF AddressInv
<1> QED
  BY <1>3, <1>4 DEF AddressInv
-----------------------------------------------------------------------------
(***************************************************************************)
(* How a step of the Lua thread changes the number of messages of a sort   *)
(* that are between the two processes.                                     *)
(***************************************************************************)

LEMMA ServedTransit ==
  ASSUME TypeOK, TypeOK', UNCHANGED commands, NEW T, NEW U,
         NEW kind \in {"reply", "error"}, NEW pre, Serves(kind, pre),
         Message("breakpointsChanged", Nobody, NextCommand.file, NextCommand.ver) \notin U
  PROVE  Transit(T, U)' + One(NextCommand \in T)
           = Transit(T, U)
             + One(/\ NextCommand.by # Nobody
                   /\ Message(kind, NextCommand.by, NextCommand.file, NextCommand.ver) \in U)
<1> DEFINE m == NextCommand
           x == One(m \in T)
           y == One(m.by # Nobody /\ Message(kind, m.by, m.file, m.ver) \in U)
<1>1. /\ HasCommand /\ TakeCommand /\ m \in Commands
      /\ pre \in {<<>>, Notice(m)} /\ Emit(pre \o Answer(kind, m))
  BY TakenFrom DEF Serves, TypeOK, WireTypeOK, LuaTypeOK
<1>2. Count(protocol, U)' = Count(protocol, U) + y
  BY AnsweredCount, Zenon
<1>3. \/ /\ Count(stdin, T)' = Count(stdin, T)
         /\ Count(queuedCommands, T) = Count(queuedCommands, T)' + x
      \/ /\ Count(queuedCommands, T)' = Count(queuedCommands, T)
         /\ Count(stdin, T) = Count(stdin, T)' + x
  BY <1>1, TakenCount
<1>4. x \in 0 .. 1 /\ y \in 0 .. 1
  BY OneIs
<1>5. Count(commands, T)' = Count(commands, T)
  OBVIOUS
<1> HIDE DEF x, y, m
<1>6. Transit(T, U)' + x = Transit(T, U) + y
  BY <1>2, <1>3, <1>4, <1>5, CountsOfSession, CountsAfter DEF Transit
<1> QED
  BY <1>6 DEF x, y, m

LEMMA TakenTransit ==
  ASSUME TypeOK, TypeOK', UNCHANGED commands, NEW T, NEW U, BeginsQuery,
         \A f \in Files : Message("resolvePath", Nobody, f, 0) \notin U
  PROVE  Transit(T, U)' + One(NextCommand \in T) = Transit(T, U)
<1>1. HasCommand /\ TakeCommand
  BY DEF BeginsQuery
<1>2. Count(protocol, U)' = Count(protocol, U)
  <2> PICK f \in Files : Emit(<<Message("resolvePath", Nobody, f, 0)>>)
    BY DEF BeginsQuery
  <2>1. Count(protocol, U)'
          = Count(protocol, U) + One(Message("resolvePath", Nobody, f, 0) \in U)
    BY PlainMessages, EmittedOne, Zenon
  <2>2. One(Message("resolvePath", Nobody, f, 0) \in U) = 0
    BY DEF One
  <2>3. Count(protocol, U) \in Nat
    BY CountsOfSession
  <2> QED
    BY <2>1, <2>2, <2>3
<1>3. \/ /\ Count(stdin, T)' = Count(stdin, T)
         /\ Count(queuedCommands, T) = Count(queuedCommands, T)' + One(NextCommand \in T)
      \/ /\ Count(queuedCommands, T)' = Count(queuedCommands, T)
         /\ Count(stdin, T) = Count(stdin, T)' + One(NextCommand \in T)
  BY <1>1, TakenCount
<1>4. One(NextCommand \in T) \in 0 .. 1
  BY OneIs
<1>5. Count(commands, T)' = Count(commands, T)
  OBVIOUS
<1> QED
  BY <1>2, <1>3, <1>4, <1>5, CountsOfSession, CountsAfter DEF Transit

LEMMA KeptTransit ==
  ASSUME TypeOK, TypeOK', UNCHANGED commands, NEW T, NEW U, Keeps
  PROVE  Transit(T, U)' = Transit(T, U)
<1> DEFINE x == One(Head(stdin) \in T)
<1>1. /\ Count(stdin, T) = Count(stdin, T)' + x
      /\ Count(queuedCommands, T)' = Count(queuedCommands, T) + x
  BY KeptCount
<1>2. x \in 0 .. 1
  BY OneIs
<1>3. Count(commands, T)' = Count(commands, T) /\ Count(protocol, U)' = Count(protocol, U)
  BY DEF Keeps
<1> HIDE DEF x
<1> QED
  BY <1>1, <1>2, <1>3, CountsOfSession, CountsAfter DEF Transit

\* A step that reads no command of the sort, and writes ms.
LEMMA WrittenTransit ==
  ASSUME TypeOK, TypeOK', UNCHANGED commands, NEW T, NEW U,
         PathRead \/ UNCHANGED <<stdin, queuedCommands>>,
         stdin # <<>> /\ Head(stdin).cmd = "resolved" => Head(stdin) \notin T,
         NEW n \in Nat, Count(protocol, U)' = Count(protocol, U) + n
  PROVE  Transit(T, U)' = Transit(T, U) + n
<1>1. Count(stdin, T)' = Count(stdin, T) /\ Count(queuedCommands, T)' = Count(queuedCommands, T)
  BY PathReadCount
<1>2. Count(commands, T)' = Count(commands, T)
  OBVIOUS
<1> QED
  BY <1>1, <1>2, CountsOfSession, CountsAfter DEF Transit

LEMMA TransitType ==
  ASSUME TypeOK, TypeOK', NEW T, NEW U
  PROVE  Transit(T, U) \in Nat /\ Transit(T, U)' \in Nat
BY CountsOfSession, CountsAfter DEF Transit

\* The Lua thread moves the message of a call, and loses it only at its end.
LEMMA LuaOwed ==
  ASSUME TypeOK, TypeOK', AddressInv, LuaShape, UNCHANGED commands, NEW c \in Callers
  PROVE  Owed(c)' <= Owed(c) /\ (Owed(c)' = Owed(c) \/ eof')
<1> DEFINE t == Transit(CallsOf(c), RepliesTo(c))
           q == One(c = "loop" /\ Resolving)
<1>1. /\ Owed(c) = t + q /\ Owed(c)' = t' + q'
      /\ t \in Nat /\ t' \in Nat /\ q \in 0 .. 1 /\ q' \in 0 .. 1
  <2>1. t \in Nat /\ t' \in Nat
    BY TransitType
  <2> QED
    BY <2>1 DEF Owed, One
<1>2. stdin # <<>> /\ Head(stdin).cmd = "resolved" => Head(stdin) \notin CallsOf(c)
  BY HeadAndTail, NobodyIsNoCaller DEF AddressInv, AddressedCommands, CallsOf
<1>3. \A f \in Files : Message("resolvePath", Nobody, f, 0) \in Messages \ RepliesTo(c)
  BY PlainMessages, NobodyIsNoCaller DEF RepliesTo, Message
<1>4. /\ Stopped \in Messages \ RepliesTo(c) /\ LuaOutput \in Messages \ RepliesTo(c)
      /\ Message("reply", "loop", NoFile, 0) \in Messages
      /\ Message("reply", "loop", NoFile, 0) \in RepliesTo(c) <=> c = "loop"
  BY PlainMessages, NobodyIsNoCaller DEF RepliesTo, Message, Stopped, LuaOutput
<1>5. ASSUME NEW n \in Nat, PathRead \/ UNCHANGED <<stdin, queuedCommands>>,
             Count(protocol, RepliesTo(c))' = Count(protocol, RepliesTo(c)) + n
      PROVE  t' = t + n
  BY <1>2, <1>5, WrittenTransit
<1>6. Count(protocol, RepliesTo(c)) \in Nat
  BY CountsOfSession
<1>7. ASSUME NEW f \in Files, Emit(<<Message("resolvePath", Nobody, f, 0)>>)
      PROVE  Count(protocol, RepliesTo(c))' = Count(protocol, RepliesTo(c)) + 0
  <2>1. Count(protocol, RepliesTo(c))' = Count(protocol, RepliesTo(c))
          + One(Message("resolvePath", Nobody, f, 0) \in RepliesTo(c))
    BY <1>3, <1>7, EmittedOne, Zenon
  <2> QED
    BY <1>3, <2>1 DEF One
<1>8. ASSUME protocol' = protocol
      PROVE  Count(protocol, RepliesTo(c))' = Count(protocol, RepliesTo(c)) + 0
  BY <1>6, <1>8
<1>9. ASSUME Emit(<<LuaOutput>>)
      PROVE  Count(protocol, RepliesTo(c))' = Count(protocol, RepliesTo(c)) + 0
  <2>1. Count(protocol, RepliesTo(c))'
          = Count(protocol, RepliesTo(c)) + One(LuaOutput \in RepliesTo(c))
    BY <1>4, <1>9, EmittedOne, Zenon
  <2> QED
    BY <1>4, <2>1 DEF One
<1> HIDE DEF t, q
<1>10. ASSUME NEW kind \in {"reply", "error"}, NEW pre, Serves(kind, pre)
       PROVE  t' = t /\ q' = q
  <2> DEFINE m == NextCommand
             w == One(m \in CallsOf(c))
             v == One(m.by # Nobody /\ Message(kind, m.by, m.file, m.ver) \in RepliesTo(c))
  <2>1. m \in Commands
    BY <1>10, TakenFrom DEF Serves, TypeOK, WireTypeOK, LuaTypeOK
  <2>2. Message("breakpointsChanged", Nobody, m.file, m.ver) \notin RepliesTo(c)
    BY NobodyIsNoCaller DEF RepliesTo, Message
  <2>3. t' + w = t + v
    BY <1>10, <2>2, ServedTransit DEF t
  <2>4. Message(kind, m.by, m.file, m.ver) \in Messages
    BY <2>1, MessageType DEF Commands, MessageKinds
  <2>5. m \in CallsOf(c) <=>
          m.by # Nobody /\ Message(kind, m.by, m.file, m.ver) \in RepliesTo(c)
    BY <2>1, <2>4, NobodyIsNoCaller DEF CallsOf, RepliesTo, Message
  <2>6. w = v /\ w \in 0 .. 1
    BY <2>5 DEF One
  <2>7. q' = q
    BY <1>10 DEF Serves, q, One
  <2> HIDE DEF w, v
  <2>8. t' + w = t + w
    BY <2>3, <2>6, Zenon
  <2>9. t' = t
    BY <1>1, <2>6, <2>8, Cancelled
  <2> QED
    BY <2>7, <2>9
<1>11. CASE BeginsQuery
  <2>1. NextCommand \in AddressedCommands /\ NextCommand.cmd = "query"
    BY <1>11, TakenFrom DEF BeginsQuery, AddressInv
  <2>2. t' + One(NextCommand \in CallsOf(c)) = t
    BY <1>3, <1>11, TakenTransit DEF t
  <2>3. One(NextCommand \in CallsOf(c)) = One(c = "loop")
    BY <2>1 DEF AddressedCommands, CallsOf, One
  <2>4. q = 0 /\ q' = One(c = "loop")
    BY <1>11 DEF BeginsQuery, q, One
  <2>5. t' + q' = t
    BY <2>2, <2>3, <2>4
  <2> QED
    BY <1>1, <2>4, <2>5
<1>12. CASE EndsQuery
  <2>1. Count(protocol, RepliesTo(c))' = Count(protocol, RepliesTo(c))
          + One(Message("reply", "loop", NoFile, 0) \in RepliesTo(c))
    <3>1. Emit(<<Message("reply", "loop", NoFile, 0)>>)
      BY <1>12 DEF EndsQuery
    <3> QED
      BY <1>4, <3>1, EmittedOne, Zenon
  <2>2. One(Message("reply", "loop", NoFile, 0) \in RepliesTo(c)) \in Nat
    BY DEF One
  <2>3. t' = t + One(Message("reply", "loop", NoFile, 0) \in RepliesTo(c))
    BY <1>5, <1>12, <2>1, <2>2 DEF EndsQuery
  <2>4. q = One(Message("reply", "loop", NoFile, 0) \in RepliesTo(c)) /\ q' = 0
    BY <1>4, <1>12 DEF EndsQuery, q, One
  <2> QED
    BY <1>1, <2>3, <2>4
<1>13. CASE Keeps
  <2>1. t' = t
    BY <1>13, KeptTransit DEF t
  <2>2. q' = q
    BY <1>13 DEF Keeps, q, One
  <2> QED
    BY <1>1, <2>1, <2>2
<1>14. CASE Stops
  <2>1. Count(protocol, RepliesTo(c))' = Count(protocol, RepliesTo(c)) + 0
    <3>1. CASE Emit(<<Stopped>>)
      <4>1. Count(protocol, RepliesTo(c))'
              = Count(protocol, RepliesTo(c)) + One(Stopped \in RepliesTo(c))
        BY <1>4, <3>1, EmittedOne, Zenon
      <4> QED
        BY <1>4, <4>1 DEF One
    <3>2. CASE Emit(<<LuaOutput>> \o <<Stopped>>)
      <4>1. Count(protocol, RepliesTo(c))' = Count(protocol, RepliesTo(c))
              + (One(LuaOutput \in RepliesTo(c)) + One(Stopped \in RepliesTo(c)))
        BY <1>4, <3>2, EmittedTwo, Zenon
      <4>2. One(LuaOutput \in RepliesTo(c)) = 0 /\ One(Stopped \in RepliesTo(c)) = 0
        BY <1>4 DEF One
      <4> QED
        BY <4>1, <4>2
    <3> QED
      BY <1>14, <3>1, <3>2 DEF Stops
  <2>2. q = 0 /\ q' = 0
    BY <1>14 DEF Stops, q, One
  <2>3. t' = t + 0
    BY <1>5, <1>14, <2>1 DEF Stops
  <2> QED
    BY <1>1, <2>2, <2>3
<1>15. CASE Goes
  <2>1. Count(protocol, RepliesTo(c))' = Count(protocol, RepliesTo(c)) + 0
    BY <1>7, <1>8, <1>15 DEF Goes
  <2>2. q' = q
    BY <1>15 DEF Goes, q, One
  <2>3. t' = t + 0
    BY <1>5, <1>15, <2>1 DEF Goes
  <2> QED
    BY <1>1, <2>2, <2>3
<1>16. CASE Ends
  <2>1. Count(protocol, RepliesTo(c))' = Count(protocol, RepliesTo(c)) + 0
    BY <1>8, <1>9, <1>16 DEF Ends
  <2>2. q' = 0 /\ eof'
    BY <1>16 DEF Ends, q, One
  <2>3. t' = t + 0
    BY <1>5, <1>16, <2>1 DEF Ends
  <2> QED
    BY <1>1, <2>2, <2>3
<1>17. CASE \E kind \in {"reply", "error"} : \E pre : Serves(kind, pre)
  <2>1. t' = t /\ q' = q
    BY <1>10, <1>17, Zenon
  <2> QED
    BY <1>1, <2>1
<1> QED
  BY <1>11, <1>12, <1>13, <1>14, <1>15, <1>16, <1>17 DEF LuaShape
-----------------------------------------------------------------------------
(***************************************************************************)
(* The steps of the session, one disjunct per action.                      *)
(***************************************************************************)

ClientStep ==
  \/ QueryRequest \/ PauseRequest \/ Terminate
  \/ (\E f \in Files : SetBreakpointsRequest(f))
  \/ (\E r \in Resumes : ResumeRequest(r))

FlusherStep(k) ==
  FlushTake(k) \/ (\E f \in Files : FlushFile(k, f)) \/ FlushReport(k) \/ FlushEnd(k)

AdapterStep ==
  \/ \E c \in Callers : Call(c) \/ Decide(c) \/ Notify(c)
  \/ ClientStep
  \/ HandshakeDone \/ HandshakeFailed \/ LockBpRequest \/ LoopResponds
  \/ \E k \in Flushers : FlusherStep(k)
  \/ Write \/ WriterStops \/ Read
  \/ ReaderEnds \/ Close \/ ReportExit \/ CopyOutput
  \/ PumpReceive \/ PumpBreakpoints

LEMMA StepCases ==
  ASSUME [Next]_vars
  PROVE  \/ Start \/ Crash \/ ProcessWaited \/ UNCHANGED vars
         \/ LuaMoves /\ UNCHANGED adapterVars
         \/ AdapterStep /\ UNCHANGED luaVars
<1>0. "loop" \in Callers /\ "handshake" \in Callers /\ Flushers \subseteq Callers
  BY DEF Callers
<1>1. CASE Client
  BY <1>1, Zenon DEF Client, AdapterStep, ClientStep
<1>2. CASE RequestLoop \/ HandshakeTimeout
  BY <1>0, <1>2, Zenon DEF RequestLoop, LoopStep, HandshakeTimeout, AdapterStep
<1>3. ASSUME NEW k \in Flushers, Flush(k) PROVE AdapterStep /\ UNCHANGED luaVars
  <2>1. k \in Callers
    BY <1>0
  <2>2. FlusherStep(k) \/ Call(k) \/ Decide(k) \/ Notify(k)
    BY <1>3, Zenon DEF Flush, FlushStep, FlusherStep
  <2> QED
    BY <1>3, <2>1, <2>2, Zenon DEF Flush, AdapterStep
<1>4. CASE Writer \/ Reader \/ ReaderExit \/ ExitEvents \/ Copier \/ Pump \/ PumpLock
  BY <1>4, Zenon
     DEF Writer, Reader, ReaderExit, ExitEvents, Copier, Pump, PumpLock, AdapterStep
<1>5. CASE CommandLoop \/ Hook \/ Program \/ KilledProcess
  BY <1>5, Zenon DEF CommandLoop, Hook, Program, KilledProcess, LuaMoves
<1> QED
  BY <1>1, <1>2, <1>3, <1>4, <1>5, Zenon DEF Next

\* A command is queued by send, by notify or as the answer to a path.
Notified(c) ==
  IF c = "loop" /\ req = "pause" THEN Command("pause", Nobody, NoFile, 0)
  ELSE Command("updateBreakpoints", Nobody, job[c].file, job[c].ver)

Queues(e) ==
  /\ HasRoom(commands, CmdCap) /\ ~closed
  /\ commands' = Append(commands, e) /\ stdin' = stdin
  /\ \/ \E c \in Callers : Call(c) /\ e = CommandOf(c) /\ protocol' = protocol
     \/ \E c \in Callers : Notify(c) /\ e = Notified(c) /\ protocol' = protocol
     \/ Read /\ e = Command("resolved", Nobody, Head(protocol).file, 0)

\* The adapter moves a command into the pipe, or loses it with the stream.
Moves ==
  /\ commands # <<>> /\ commands' = Tail(commands) /\ protocol' = protocol
  /\ \/ stdin' = Append(stdin, Head(commands))
     \/ stdin' = stdin /\ eof'

LEMMA AdapterChannels ==
  ASSUME AdapterStep
  PROVE  \/ \E e : Queues(e)
         \/ Moves
         \/ UNCHANGED <<commands, stdin, protocol>>
         \/ Read /\ UNCHANGED <<commands, stdin>>
<1> USE DEF wireVars, clientVars, setVars, taskVars
<1>1. ASSUME NEW c \in Callers, Call(c) \/ Decide(c) \/ Notify(c)
      PROVE  (\E e : Queues(e)) \/ UNCHANGED <<commands, stdin, protocol>>
  <2>1. CASE Call(c)
    <3>1. CASE Refused
      BY <2>1, <3>1 DEF Call
    <3>2. CASE ~Refused
      <4>1. Queues(CommandOf(c))
        BY <2>1, <3>2 DEF Call, Queues, Refused
      <4> QED
        BY <4>1
    <3> QED
      BY <3>1, <3>2
  <2>2. CASE Decide(c)
    BY <2>2 DEF Decide
  <2>3. CASE Notify(c)
    <3>1. CASE Refused
      BY <2>3, <3>1 DEF Notify
    <3>2. CASE ~Refused
      <4>1. Queues(Notified(c))
        BY <2>3, <3>2 DEF Notify, Queues, Notified, Refused
      <4> QED
        BY <4>1
    <3> QED
      BY <3>1, <3>2
  <2> QED
    BY <1>1, <2>1, <2>2, <2>3
<1>2. CASE ClientStep
  <2>1. QueryRequest \/ PauseRequest \/ Terminate => UNCHANGED <<commands, stdin, protocol>>
    BY DEF QueryRequest, PauseRequest, Terminate
  <2>2. ASSUME NEW f \in Files, SetBreakpointsRequest(f)
        PROVE  UNCHANGED <<commands, stdin, protocol>>
    BY <2>2 DEF SetBreakpointsRequest
  <2>3. ASSUME NEW r \in Resumes, ResumeRequest(r)
        PROVE  UNCHANGED <<commands, stdin, protocol>>
    BY <2>3 DEF ResumeRequest
  <2> QED
    BY <1>2, <2>1, <2>2, <2>3 DEF ClientStep
<1>3. CASE HandshakeDone \/ HandshakeFailed \/ LockBpRequest \/ LoopResponds
  BY <1>3 DEF HandshakeDone, HandshakeFailed, LockBpRequest, LoopResponds
<1>4. ASSUME NEW k \in Flushers, FlusherStep(k)
      PROVE  UNCHANGED <<commands, stdin, protocol>>
  <2>1. FlushTake(k) \/ FlushReport(k) \/ FlushEnd(k) => UNCHANGED <<commands, stdin, protocol>>
    BY DEF FlushTake, FlushReport, FlushEnd
  <2>2. ASSUME NEW f \in Files, FlushFile(k, f) PROVE UNCHANGED <<commands, stdin, protocol>>
    BY <2>2 DEF FlushFile
  <2> QED
    BY <1>4, <2>1, <2>2 DEF FlusherStep
<1>5. CASE Write
  BY <1>5 DEF Write, Moves
<1>6. CASE WriterStops
  BY <1>6 DEF WriterStops, Moves, Dispose
<1>7. CASE Read
  <2> DEFINE m == Head(protocol)
  <2>1. Deliver(m) \/ ForwardEvent(m) \/ NoteStop(m) => UNCHANGED commands
    BY DEF Deliver, ForwardEvent, NoteStop
  <2>2. CASE AnswerPath(m)
    <3>1. CASE closed \/ ~HasRoom(commands, CmdCap)
      BY <1>7, <2>2, <3>1 DEF AnswerPath, Read
    <3>2. CASE ~closed /\ HasRoom(commands, CmdCap)
      <4>1. Queues(Command("resolved", Nobody, m.file, 0))
        BY <1>7, <2>2, <3>2 DEF AnswerPath, Read, Queues
      <4> QED
        BY <4>1
    <3> QED
      BY <3>1, <3>2
  <2> QED
    BY <1>7, <2>1, <2>2 DEF Read
<1>8. CASE ReaderEnds \/ Close \/ ReportExit \/ CopyOutput
  BY <1>8 DEF ReaderEnds, Close, ReportExit, CopyOutput
<1>9. CASE PumpReceive \/ PumpBreakpoints
  BY <1>9 DEF PumpReceive, PumpBreakpoints
<1> QED
  BY <1>1, <1>2, <1>3, <1>4, <1>5, <1>6, <1>7, <1>8, <1>9 DEF AdapterStep

LEMMA QueuedChannels ==
  ASSUME TypeOK, NEW e, Queues(e)
  PROVE  /\ e \in Commands /\ protocol \in Seq(Messages)
         /\ \/ protocol' = protocol
            \/ Read /\ protocol # <<>> /\ protocol' = Tail(protocol)
<1>0. AdapterTypeOK /\ WireTypeOK
  BY DEF TypeOK
<1>1. ASSUME NEW c \in Callers, Call(c), e = CommandOf(c) PROVE e \in Commands
  BY <1>0, <1>1, CommandOfType, Zenon DEF Call
<1>2. ASSUME NEW c \in Callers, e = Notified(c) PROVE e \in Commands
  <2>1. job[c].file \in Files \union {NoFile} /\ job[c].ver \in Versions
    BY <1>0 DEF AdapterTypeOK
  <2> QED
    BY <1>2, <2>1, CommandType, ZeroIsVersion DEF Notified, CommandNames
<1>3. ASSUME Read, e = Command("resolved", Nobody, Head(protocol).file, 0)
      PROVE  /\ e \in Commands
             /\ protocol # <<>> /\ protocol' = Tail(protocol)
  <2>1. protocol # <<>> /\ protocol' = Tail(protocol)
    BY <1>3 DEF Read
  <2>2. Head(protocol) \in Messages
    BY <1>0, <2>1, HeadAndTail DEF WireTypeOK
  <2> QED
    BY <1>3, <2>1, <2>2, CommandType, ZeroIsVersion DEF CommandNames, Messages
<1> QED
  BY <1>0, <1>1, <1>2, <1>3 DEF Queues, WireTypeOK

\* Channels of any sort of command, moved by the adapter.
LEMMA AdapterMoves ==
  ASSUME NEW S, commands \in Seq(S), stdin \in Seq(S), AdapterStep,
         \A e : Queues(e) => e \in S
  PROVE  commands' \in Seq(S) /\ stdin' \in Seq(S)
<1>1. ASSUME NEW e, Queues(e) PROVE commands' \in Seq(S) /\ stdin' \in Seq(S)
  <2>1. e \in S
    BY <1>1
  <2> QED
    BY <1>1, <2>1, Appended DEF Queues
<1>2. CASE Moves
  BY <1>2, HeadAndTail, Appended DEF Moves
<1> QED
  BY <1>1, <1>2, AdapterChannels

LEMMA AdapterReads ==
  ASSUME NEW S, protocol \in Seq(S), AdapterStep PROVE protocol' \in Seq(S)
<1>1. CASE Read
  BY <1>1, HeadAndTail DEF Read
<1>2. ASSUME NEW e, Queues(e) PROVE protocol' \in Seq(S)
  BY <1>1, <1>2 DEF Queues
<1> QED
  BY <1>1, <1>2, AdapterChannels DEF Moves

LEMMA AdapterAddressed ==
  ASSUME TypeOK, AddressInv, AdapterStep, UNCHANGED luaVars
  PROVE  AddressInv'
<1>1. ASSUME NEW e, Queues(e) PROVE e \in AddressedCommands
  <2>1. e \in Commands
    BY <1>1, QueuedChannels
  <2>2. CASE \E c \in Callers : e = CommandOf(c)
    BY <2>1, <2>2 DEF CommandOf, Command, AddressedCommands, TypeOK, AdapterTypeOK, Requests, Resumes
  <2>3. CASE \E c \in Callers : e = Notified(c)
    BY <2>1, <2>3 DEF Notified, Command, AddressedCommands, Resumes
  <2>4. CASE e = Command("resolved", Nobody, Head(protocol).file, 0)
    BY <2>1, <2>4 DEF Command, AddressedCommands, Resumes
  <2> QED
    BY <1>1, <2>2, <2>3, <2>4 DEF Queues
<1>2. commands' \in Seq(AddressedCommands) /\ stdin' \in Seq(AddressedCommands)
  BY <1>1, AdapterMoves DEF AddressInv
<1>3. protocol' \in Seq(AddressedMessages)
  BY AdapterReads DEF AddressInv
<1> QED
  BY <1>2, <1>3 DEF AddressInv, luaVars

LEMMA AddressInit == Init => AddressInv
BY DEF Init, WireInit, LuaInit, AdapterInit, AddressInv

LEMMA AddressStep == TypeOK /\ AddressInv /\ [Next]_vars => AddressInv'
<1> SUFFICES ASSUME TypeOK, AddressInv, [Next]_vars PROVE AddressInv'
  OBVIOUS
<1>1. CASE Start \/ ProcessWaited \/ UNCHANGED vars
  <2>1. UNCHANGED <<commands, stdin, queuedCommands, protocol>>
    BY <1>1 DEF Start, Launch, ProcessWaited, vars, wireVars, luaVars, adapterVars
  <2> QED
    BY <2>1 DEF AddressInv
<1>2. CASE Crash
  BY <1>2 DEF Crash, AddressInv, luaVars
<1>3. CASE LuaMoves /\ UNCHANGED adapterVars
  BY <1>3, ShapeOfLua, LuaAddressed DEF adapterVars
<1> QED
  BY <1>1, <1>2, <1>3, AdapterAddressed, StepCases
-----------------------------------------------------------------------------
(***************************************************************************)
(* How a step of the adapter changes the number of messages of a sort that *)
(* are between the two processes.                                          *)
(***************************************************************************)

LEMMA SameTransit ==
  ASSUME UNCHANGED <<commands, stdin, queuedCommands, protocol>>, NEW T, NEW U
  PROVE  Transit(T, U)' = Transit(T, U)
BY DEF Transit

LEMMA QueuedTransit ==
  ASSUME TypeOK, TypeOK', NEW e \in Commands, commands' = Append(commands, e),
         UNCHANGED <<stdin, queuedCommands, protocol>>, NEW T, NEW U
  PROVE  Transit(T, U)' = Transit(T, U) + One(e \in T)
<1> DEFINE x == One(e \in T)
<1>1. Count(commands, T)' = Count(commands, T) + x
  BY CountAppend DEF TypeOK, AdapterTypeOK
<1>2. /\ Count(stdin, T)' = Count(stdin, T)
      /\ Count(queuedCommands, T)' = Count(queuedCommands, T)
      /\ Count(protocol, U)' = Count(protocol, U)
  OBVIOUS
<1>3. x \in 0 .. 1
  BY OneIs
<1> HIDE DEF x
<1>4. Transit(T, U)' = Count(commands, T) + x + Count(stdin, T)
                           + Count(queuedCommands, T) + Count(protocol, U)
  BY <1>1, <1>2, Zenon DEF Transit
<1>5. Transit(T, U)' = Transit(T, U) + x
  BY <1>3, <1>4, CountsOfSession DEF Transit
<1> QED
  BY <1>5 DEF x

\* The writer moves a command, or loses it once the stream is closed.
LEMMA MovedTransit ==
  ASSUME TypeOK, TypeOK', Moves, UNCHANGED queuedCommands, NEW T, NEW U
  PROVE  Transit(T, U)' <= Transit(T, U) /\ (Transit(T, U)' = Transit(T, U) \/ eof')
<1> DEFINE x == One(Head(commands) \in T)
<1>0. commands \in Seq(Commands) /\ stdin \in Seq(Commands) /\ Head(commands) \in Commands
  BY HeadAndTail DEF Moves, TypeOK, AdapterTypeOK, WireTypeOK
<1>1. Count(commands, T) = Count(commands, T)' + x
  BY <1>0, CountTail DEF Moves
<1>2. Count(Append(stdin, Head(commands)), T) = Count(stdin, T) + x
  BY <1>0, CountAppend
<1>3. /\ Count(queuedCommands, T)' = Count(queuedCommands, T)
      /\ Count(protocol, U)' = Count(protocol, U)
  BY DEF Moves
<1>4. x \in 0 .. 1
  BY OneIs
<1> HIDE DEF x
<1>5. CASE stdin' = Append(stdin, Head(commands))
  <2>1. Count(stdin, T)' = Count(stdin, T) + x
    BY <1>2, <1>5
  <2> QED
    BY <1>1, <1>3, <1>4, <2>1, CountsOfSession, CountsAfter DEF Transit
<1>6. CASE stdin' = stdin /\ eof'
  <2>1. Count(stdin, T)' = Count(stdin, T)
    BY <1>6
  <2> QED
    BY <1>1, <1>3, <1>4, <1>6, <2>1, CountsOfSession, CountsAfter DEF Transit
<1> QED
  BY <1>5, <1>6 DEF Moves

LEMMA ReadTransit ==
  ASSUME TypeOK, TypeOK', Read, UNCHANGED luaVars, NEW T, NEW U,
         \A f : Command("resolved", Nobody, f, 0) \notin T
  PROVE  Transit(T, U) = Transit(T, U)' + One(Head(protocol) \in U)
<1> DEFINE x == One(Head(protocol) \in U)
<1>1. Count(protocol, U) = Count(protocol, U)' + x
  BY CountTail DEF Read, TypeOK, WireTypeOK
<1>2. /\ Count(stdin, T)' = Count(stdin, T)
      /\ Count(queuedCommands, T)' = Count(queuedCommands, T)
  BY DEF Read, luaVars
<1>3. Count(commands, T)' = Count(commands, T)
  <2>1. ASSUME NEW e, Queues(e) PROVE Count(commands, T)' = Count(commands, T)
    <3>1. e \in Commands /\ commands \in Seq(Commands) /\ commands' = Append(commands, e)
      BY <2>1, QueuedChannels DEF Queues, TypeOK, AdapterTypeOK
    <3>2. protocol # <<>> /\ protocol' = Tail(protocol) /\ protocol \in Seq(Messages)
      BY DEF Read, TypeOK, WireTypeOK
    <3>3. protocol' # protocol
      BY <3>2
    <3>4. e \notin T
      BY <2>1, <3>3 DEF Queues
    <3> QED
      BY <3>1, <3>4, CountAppend, CountsOfSession DEF One
  <2>2. CASE UNCHANGED commands
    BY <2>2
  <2>3. Read => AdapterStep
    BY DEF AdapterStep
  <2>4. ~Moves
    <3>1. protocol # <<>> /\ protocol' = Tail(protocol) /\ protocol \in Seq(Messages)
      BY DEF Read, TypeOK, WireTypeOK
    <3>2. protocol' # protocol
      BY <3>1
    <3> QED
      BY <3>2 DEF Moves
  <2> QED
    BY <2>1, <2>2, <2>3, <2>4, AdapterChannels
<1>4. x \in 0 .. 1
  BY OneIs
<1> HIDE DEF x
<1>5. Transit(T, U) = Transit(T, U)' + x
  BY <1>1, <1>2, <1>3, <1>4, CountsOfSession, CountsAfter DEF Transit
<1> QED
  BY <1>5 DEF x
=============================================================================
