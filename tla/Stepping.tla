------------------------------ MODULE Stepping ------------------------------
(***************************************************************************)
(* vscode/lua/debugger.lua: stepping across calls, errors and coroutines.  *)
(* A step is remembered as a mode, a number of frames and a coroutine; the *)
(* hook compares numbers, and the history variable `asked` remembers which *)
(* frame the user meant.                                                   *)
(***************************************************************************)
EXTENDS Integers, FiniteSets, SequencesExt

CONSTANTS
  Main,                   \* the main thread
  Coroutines,             \* other threads; one that is dead can be created anew
  NoThread,
  TailFrames,             \* whether a tail call leaves a frame behind, as in Lua
                          \* 5.1 ({TRUE}) or not ({FALSE}); both: some do
  BreakOnCoroutineErrors, \* the launch option of that name
  MaxDepth,               \* bound: frames of one thread
  MaxLoops                \* bound: command loops on the stack

ASSUME SteppingAssumption ==
  /\ Main \notin Coroutines /\ NoThread \notin Coroutines \union {Main}
  /\ TailFrames \subseteq BOOLEAN /\ BreakOnCoroutineErrors \in BOOLEAN
  /\ MaxDepth \in Nat \ {0} /\ MaxLoops \in Nat \ {0}

VARIABLES
  chain,    \* the running thread, below it the one that resumed it, and so on
  stack,    \* the frames of each thread, the innermost last
  step,     \* step, NoStep for nil
  depth,    \* depth
  loops,    \* the command loops on the stack: how many threads were running
            \* when each was entered, and if `depth` still is what pause saw
  waiting,  \* the innermost loop reads commands (inDebugger)
  asked     \* history: what the user asked for, and what is left of the frames
            \* of that moment

vars == <<chain, stack, step, depth, loops, waiting, asked>>

Threads == Coroutines \union {Main}

\* A function of a file, one of a chunk without a path, a C function (pcall,
\* coroutine.resume), and the frame that a tail call leaves in Lua 5.1.
Frames == {"lua", "unnamed", "c", "tail"}

NoStep == [mode |-> "none", depth |-> 0, thread |-> NoThread]
StepIn(thread) == [mode |-> "in", depth |-> 0, thread |-> thread]

Ask(mode, thread, height, exact) ==
  [mode |-> mode, thread |-> thread, height |-> height, kept |-> height,
   exact |-> exact]
NotAsked == Ask("none", NoThread, 0, TRUE)

Modes == {"none", "in", "over", "out"}
Steps == [mode : Modes, depth : Nat, thread : Threads \union {NoThread}]
Requests ==
  [mode : Modes, thread : Threads \union {NoThread},
   height : Nat, kept : Nat, exact : BOOLEAN]

TypeOK ==
  /\ chain \in Seq(Threads) /\ chain # <<>>
  /\ \A i, j \in 1 .. Len(chain) : chain[i] = chain[j] => i = j
  /\ stack \in [Threads -> Seq(Frames)]
  /\ \A i \in 1 .. Len(chain) : stack[chain[i]] # <<>>
  /\ step \in Steps
  /\ depth \in Nat
  /\ loops \in Seq([running : Nat, exact : BOOLEAN])
  /\ waiting \in BOOLEAN /\ (waiting => loops # <<>>)
  /\ asked \in Requests

\* `run`, with or without stopOnEntry, has left the first command loop.
Init ==
  /\ chain = <<Main>>
  /\ stack = [t \in Threads |-> IF t = Main THEN <<"lua">> ELSE <<>>]
  /\ depth = 0 /\ loops = <<>> /\ waiting = FALSE
  /\ \/ step = NoStep /\ asked = NotAsked
     \/ /\ step = StepIn(Main)
        /\ asked = Ask("in", Main, 1, TRUE)

Current == Last(chain)
Stack == stack[Current]

\* stackDepth(): the Lua frames of the current coroutine.
StackDepth(s) == Cardinality({i \in 1 .. Len(s) : s[i] # "c"})
-----------------------------------------------------------------------------
(***************************************************************************)
(* The program.                                                            *)
(***************************************************************************)

\* The frames of the current thread become s, of which the first k are as they
\* were.
Replace(s, k) ==
  /\ ~waiting /\ Len(s) <= MaxDepth
  /\ stack' = [stack EXCEPT ![Current] = s]
  /\ asked' = IF asked.thread = Current /\ k < asked.kept
              THEN [asked EXCEPT !.kept = k] ELSE asked
  /\ UNCHANGED <<chain, step, depth, loops, waiting>>

Call ==
  \E f \in {"lua", "unnamed", "c"} : Replace(Append(Stack, f), Len(Stack))

TailCall ==
  /\ Last(Stack) # "c"
  /\ \E f \in {"lua", "unnamed"}, left \in TailFrames :
       Replace(Front(Stack) \o (IF left THEN <<"tail", f>> ELSE <<f>>),
               Len(Stack) - 1)

\* A return goes back to frame k (0: the thread ends): the frames left by tail
\* calls go with the frame above them.
FrameBelow(s, k) ==
  /\ k = 0 \/ s[k] # "tail"
  /\ \A i \in k + 1 .. Len(s) - 1 : s[i] = "tail"

Return ==
  \E k \in 1 .. Len(Stack) - 1 :
    FrameBelow(Stack, k) /\ Replace(SubSeq(Stack, 1, k), k)

\* An error, caught by a pcall of this thread.
Unwind ==
  \E k \in 1 .. Len(Stack) - 1 :
    /\ Stack[k + 1] = "c"
    /\ Replace(SubSeq(Stack, 1, k), k)

\* The program resumes a suspended or a new coroutine.
Start(co) ==
  /\ co \in Coroutines /\ ~Contains(chain, co)
  /\ chain' = Append(chain, co)
  /\ stack' = IF stack[co] = <<>>
              THEN [stack EXCEPT ![co] = <<"lua">>] ELSE stack

ResumeCoroutine(co) ==
  /\ ~waiting /\ Start(co)
  /\ UNCHANGED <<step, depth, loops, waiting, asked>>

\* coroutine.resume of debugger.lua returns: a step of the coroutine that was
\* left becomes a step in.  A slip: it stays as it is.
StepLeftAlone == UNCHANGED step
StepLeavesCoroutine ==
  step' = IF step.mode # "none" /\ step.thread = Current THEN StepIn(NoThread) ELSE step

\* RESUME_THREAD: back in the loop that resumed the coroutine.
ResumedByUser == loops # <<>> /\ Last(loops).running = Len(chain) - 1

LeaveCoroutine ==
  /\ ~waiting /\ Len(chain) > 1
  /\ chain' = Front(chain)
  /\ IF ResumedByUser
     THEN waiting' = TRUE /\ step' = NoStep /\ asked' = NotAsked
     ELSE /\ StepLeavesCoroutine
          /\ asked' = IF asked.thread = Current
                      THEN Ask("in", NoThread, 0, asked.exact) ELSE asked
          /\ UNCHANGED waiting
  /\ UNCHANGED <<depth, loops>>

Yield == LeaveCoroutine /\ UNCHANGED stack

\* It returns, or fails and its error is not shown.
Dies == stack' = [stack EXCEPT ![Current] = <<>>]

\* The search for a frame to show starts below the one that failed (level = 1).
Pausable == \E i \in 1 .. Len(Stack) - 1 : Stack[i] = "lua"

End ==
  /\ LeaveCoroutine /\ Dies
  /\ FrameBelow(Stack, 0) \/ ~BreakOnCoroutineErrors \/ ~Pausable

\* pause(): a command loop on top of `running` threads.
Pause(running, exact) ==
  /\ loops' = Append(loops, [running |-> running, exact |-> exact])
  /\ waiting' = TRUE /\ step' = NoStep /\ asked' = NotAsked

\* It fails: the resumer pauses, in coroutine.resume.
Fail ==
  /\ ~waiting /\ Len(chain) > 1
  /\ BreakOnCoroutineErrors /\ Pausable
  /\ chain' = Front(chain) /\ Dies
  /\ Pause(Len(chain) - 1, FALSE)
  /\ UNCHANGED depth
-----------------------------------------------------------------------------
(***************************************************************************)
(* The hook.                                                               *)
(***************************************************************************)

\* Slips: the thread is not compared; one comparison serves both modes.
StepStopsAnywhere(d) ==
  \/ step.mode = "in"
  \/ step.mode = "over" /\ d <= step.depth
  \/ step.mode = "out" /\ d < step.depth
StepStopsBelow(d) ==
  \/ step.mode = "in"
  \/ step.mode \in {"over", "out"} /\ step.thread = Current /\ d < step.depth

\* The second half of shouldStop.
StepStops(d) ==
  \/ step.mode = "in"
  \/ /\ step.mode = "over" /\ step.thread = Current
     /\ d <= step.depth
  \/ /\ step.mode = "out" /\ step.thread = Current
     /\ d < step.depth

\* A line of a function that has a path.
AtLine == ~waiting /\ Last(Stack) = "lua"
DepthHere ==
  IF step.mode \in {"over", "out"} THEN StackDepth(Stack) ELSE depth
StopsHere == StepStops(DepthHere)

\* A breakpoint or a requested pause stops any line.
Line ==
  /\ AtLine
  /\ \/ /\ depth' = StackDepth(Stack)
        /\ Pause(Len(chain), TRUE)
        /\ UNCHANGED <<chain, stack>>
     \/ /\ ~StopsHere
        /\ depth' = DepthHere
        /\ UNCHANGED <<chain, stack, step, loops, waiting, asked>>
-----------------------------------------------------------------------------
(***************************************************************************)
(* The commands of a paused program.                                       *)
(***************************************************************************)

\* The pause of an error whose coroutine the user resumed is inside another
\* loop, which goes on and drops the step.  A slip: inDebugger stays set.
StaysInDebugger == TRUE
InOuterLoop == Len(loops) > 1 /\ Last(Front(loops)).running = Len(chain)

\* continue ("none"), next ("over"), stepIn and stepOut end the loop.
Resume(mode) ==
  /\ waiting
  /\ loops' = Front(loops)
  /\ IF InOuterLoop
     THEN step' = NoStep /\ UNCHANGED <<waiting, asked>>
     ELSE /\ waiting' = FALSE
          /\ IF mode = "none"
             THEN step' = NoStep /\ asked' = NotAsked
             ELSE /\ step' = [mode |-> mode, depth |-> depth, thread |-> Current]
                  /\ asked' = Ask(mode, Current, Len(Stack), Last(loops).exact)
  /\ UNCHANGED <<chain, stack, depth>>

\* resumeThread: the coroutine runs inside the command loop.
ResumeThread(co) ==
  /\ waiting /\ Len(loops) < MaxLoops /\ Start(co)
  /\ waiting' = FALSE
  /\ loops' = [loops EXCEPT ![Len(loops)].exact = FALSE]
  /\ \/ step' = NoStep /\ asked' = NotAsked
     \/ step' = StepIn(NoThread) /\ asked' = Ask("in", NoThread, 0, TRUE)
  /\ UNCHANGED depth

Next ==
  \/ Call \/ TailCall \/ Return \/ Unwind
  \/ \E co \in Coroutines : ResumeCoroutine(co)
  \/ Yield \/ End \/ Fail
  \/ Line
  \/ \E mode \in Modes : Resume(mode)
  \/ \E co \in Coroutines : ResumeThread(co)

Spec == Init /\ [][Next]_vars
-----------------------------------------------------------------------------
(***************************************************************************)
(* Properties.                                                             *)
(***************************************************************************)

\* The frame the user stepped from waits for a call it made.
InCall == asked.kept = asked.height /\ Len(Stack) > asked.height

\* Where a step may end: `next` not inside a call of the frame it was given in,
\* `stepOut` only after that frame is gone, both in its coroutine.
MayStop ==
  \/ asked.mode = "in"
  \/ asked.mode = "over" /\ asked.thread = Current /\ ~InCall
  \/ asked.mode = "out" /\ asked.thread = Current /\ asked.kept < asked.height

\* Where it must end: in the frame itself, or in one that waited for it.
MustStop ==
  \/ asked.mode = "in"
  \/ /\ asked.mode = "over" /\ asked.thread = Current
     /\ Len(Stack) <= asked.kept
  \/ /\ asked.mode = "out" /\ asked.thread = Current
     /\ Len(Stack) <= asked.kept /\ Len(Stack) < asked.height

\* A step given at a stop of the hook never ends inside a call, nor in another
\* coroutine, whatever calls, tail calls, errors and coroutine switches happen
\* (debugger.lua:754-763 with the depth of :804-810).
StepSkipsCalls == AtLine /\ asked.exact /\ StopsHere => MayStop

\* Such a step does not miss its end: the next line of the frame, of one of its
\* callers, or, once the coroutine was left, of anything (debugger.lua:902-905).
NoStepMissed == AtLine /\ asked.exact /\ MustStop => StopsHere

\* The coroutine of a step is running or waits for one that does: a step is
\* never bound to a coroutine that may not run again (debugger.lua:902-905).
StepThreadRuns == step.thread # NoThread => Contains(chain, step.thread)

\* What docs/debugging.md:54 says of breakOnCoroutineErrors: a coroutine that
\* fails can be inspected, whichever of its functions raises the error.
ErrorsInspected ==
  ~waiting /\ Len(chain) > 1 /\ Last(Stack) = "lua" /\ BreakOnCoroutineErrors
    => ENABLED Fail

\* What docs/architecture.md:251 says of every step: depths are compared on the
\* current coroutine only, so no step ends inside a call.
AnyStepSkipsCalls == AtLine /\ StopsHere => MayStop
=============================================================================
