-------------------------------- MODULE Wire --------------------------------
(***************************************************************************)
(* The channels between the debug adapter (internal/dap) and debugger.lua: *)
(* the command stream (stdin, or the TCP connection of an attach session), *)
(* the protocol stream (the private session file, or the same connection)  *)
(* and the pipe of program output; with the messages that travel on them.  *)
(*                                                                         *)
(* A breakpoint set is the number of the setBreakpoints request that       *)
(* carried it (1 is the oldest), 0 standing for "none": what a set         *)
(* contains never matters here, only which one a side holds.  A command    *)
(* id is the goroutine that waits for the reply, since send() blocks the   *)
(* goroutine that allocated the id until its reply arrives.                *)
(***************************************************************************)
EXTENDS Integers, Sequences, FiniteSets

CONSTANTS
  Files,      \* source files of the debuggee
  NoFile,     \* "no file": a message that names none, a chunk without a path
  Flushers,   \* goroutines that may run flushPendingBreakpoints at one time
  Nobody,     \* the sender of a command without an id
  Attach,     \* TRUE: attach session, FALSE: launched process
  Live,       \* TRUE: the native helper (or the TCP poll) is available
  Asks,       \* the requests the client makes in this instance
  Does,       \* what the debugged program does in this instance
  MaxSets,    \* bound: setBreakpoints requests of the client
  PipeCap     \* capacity of the command pipe, in commands

ASSUME WireAssumption ==
  /\ Attach \in BOOLEAN /\ Live \in BOOLEAN
  /\ Attach => Live                    \* a connection can always be polled
  /\ Asks \subseteq {"run", "runNoDebug", "resume", "resumeThread", "query",
                  "pause", "terminate"}
  /\ Does \subseteq {"print", "fail", "unnamed", "end", "stop"}
  /\ MaxSets \in Nat /\ PipeCap \in Nat \ {0}
  /\ NoFile \notin Files
  /\ Flushers # {}
  /\ "loop" \notin Flushers /\ "handshake" \notin Flushers
  /\ Nobody \notin Flushers \union {"loop", "handshake"}

\* The goroutines that call Runtime.send: the request loop of the server, the
\* capability handshake of Start, and the breakpoint flushes.
Callers == {"loop", "handshake"} \union Flushers

Versions == 0 .. MaxSets

CommandNames ==
  {"capabilities", "setBreakpoints", "updateBreakpoints", "run", "runNoDebug",
   "resume", "resumeThread", "query", "pause", "resolved"}

\* {id, cmd, ...} lines.  "runNoDebug" is run with noDebug, "resume" stands for
\* continue, next, stepIn and stepOut; "query" for threads, stack, scopes, variables, snapshot and
\* evaluate; "resolved" for the {resolvedPath} answer, which has no cmd.
Commands ==
  [cmd : CommandNames, by : Callers \union {Nobody},
   file : Files \union {NoFile}, ver : Versions]

Command(cmd, by, file, ver) ==
  [cmd |-> cmd, by |-> by, file |-> file, ver |-> ver]

MessageKinds ==
  {"reply", "error", "stopped", "output", "breakpointsChanged", "resolvePath"}

\* Replies and events of debugger.lua.
Messages ==
  [kind : MessageKinds, to : Callers \union {Nobody},
   file : Files \union {NoFile}, ver : Versions]

Message(kind, to, file, ver) ==
  [kind |-> kind, to |-> to, file |-> file, ver |-> ver]

VARIABLES
  stdin,     \* commands written by the adapter, not yet read by Lua
  protocol,  \* messages written by Lua, not yet read by the adapter
  eof,       \* the command stream is closed, at either end
  disposed,  \* Dispose ran: kill the process, or close the connection
  printed    \* program output in the stdout/stderr pipe: 0 or 1 chunk

wireVars == <<stdin, protocol, eof, disposed, printed>>

WireTypeOK ==
  /\ stdin \in Seq(Commands)
  /\ protocol \in Seq(Messages)
  /\ eof \in BOOLEAN /\ disposed \in BOOLEAN
  /\ printed \in 0 .. 1

WireInit ==
  /\ stdin = <<>> /\ protocol = <<>>
  /\ eof = FALSE /\ disposed = FALSE
  /\ printed = 0

=============================================================================
