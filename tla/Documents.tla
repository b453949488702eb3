----------------------------- MODULE Documents -----------------------------
(* One document between the editor and the language server: internal/lsp/    *)
(* server.go, with the diagnostics timer, the interpreter it may ask, and    *)
(* rename edits that carry a version. The editor is the LSP client of VS     *)
(* Code. The server serves one message at a time and every handler holds     *)
(* Server.mu to its end; a timer callback holds it only to publish.          *)
EXTENDS TextPositions

CONSTANTS Texts,           \* texts a document may be opened with
          Inserts,         \* texts the user types or pastes
          MaxLen,          \* longest text the user makes
          MaxSpan,         \* longest range the user replaces
          MaxEdits,        \* bounds the edits
          MaxPending,      \* messages under way when the user acts
          MaxOpens,        \* bounds how often the document is opened, by the user or by a restart
          UseInterpreter   \* inspectInterpreter found a Lua interpreter

\* A bare name is no Lua statement, so each name is a syntax error; a rename turns "old" into "new".
Names == {"old", "new"}
Chars == Names \cup {"wide", "nl"}

ASSUME DocumentsAssumption ==
    /\ Texts \subseteq Seq(Chars) /\ Inserts \subseteq Seq(Chars)
    /\ MaxLen \in Nat /\ MaxSpan \in Nat /\ MaxEdits \in Nat
    /\ MaxPending \in Nat /\ MaxOpens \in Nat /\ UseInterpreter \in BOOLEAN

VARIABLES
    editor,     \* the editor's document: version and text; how often it was opened and edited
    shown,      \* the diagnostics on screen, with the version they came with
    asked,      \* the editor waits for the edits of a rename
    toServer, toClient,
    doc,        \* docs[uri] of the server
    timers      \* diagnostics timers: armed, or with their callback under way

editorVars == <<editor, shown, asked>>
vars == <<editor, shown, asked, toServer, toClient, doc, timers>>

Errors(text) == {i \in DOMAIN text : text[i] \in Names}

NoDoc == [version |-> 0]
NothingShown == [version |-> 0, ranges |-> {}]
Closed == [opens |-> 0, edits |-> 0, version |-> 0, text |-> <<>>]
IsOpen == editor.version > 0

-----------------------------------------------------------------------------
(* The server's answers.                                                     *)

\* Server.diagnostics: what tree-sitter reports, every error at its place.
ParserRanges(text) == {RangeOf(text, i - 1, i) : i \in Errors(text)}

\* syntaxDiagnostics: the interpreter reports a line, and the whole line is marked. Which
\* line is Lua's choice: taken here as that of the first error, which is in the text, so that
\* the server need not correct it. (Lua names the line it has read up to, which a construct of
\* several lines tells from that of the parser's error.)
InterpreterRanges(text) ==
    IF Errors(text) = {} THEN {}
    ELSE LET first == Min(Errors(text))
             line == Quantify(1 .. first, LAMBDA i : text[i] = "nl") + 1
             starts == LineStarts(text)
             end == IF line = Len(starts) THEN Len(text) ELSE starts[line + 1] - 1
         IN {[start |-> [line |-> line - 1, character |-> 0],
              end |-> [line |-> line - 1,
                       character |-> Utf16Len(SubSeq(text, starts[line] + 1, end))]]}

Diagnostics(version, ranges) ==
    [kind |-> "diagnostics", version |-> version, ranges |-> ranges]

\* rename: the name at the position decides, every occurrence is edited, and the edits
\* carry the version they are for.
RenameEdits(m) ==
    LET text == doc.file
        at == OffsetOf(text, m.position) + 1
    IN [kind |-> "edits", to |-> m.from, version |-> doc.version,
        ranges |-> IF at \in DOMAIN text /\ text[at] = "old"
                   THEN {RangeOf(text, i - 1, i) : i \in {i \in DOMAIN text : text[i] = "old"}}
                   ELSE {}]

-----------------------------------------------------------------------------
(* The server's handlers.                                                    *)

\* Slips: the tree of the old text stays; an armed timer is left to do it.
ReparseLater(new) ==
    /\ doc' = IF doc = NoDoc THEN [new EXCEPT !.file = new.text] ELSE new
    /\ timers' = {t \in timers : t.id # new.id \/ t.stage # "armed"}
                   \cup {[id |-> new.id, version |-> new.version,
                          text |-> new.text, stage |-> "armed"]}
ReparseOnce(new) ==
    /\ doc' = [new EXCEPT !.file = new.text]
    /\ timers' = IF \E t \in timers : t.id = new.id /\ t.stage = "armed" THEN timers
                 ELSE timers \cup {[id |-> new.id, version |-> new.version,
                                    text |-> new.text, stage |-> "armed"]}
\* reparse: Timer.Stop does not stop a callback under way. The callback keeps the text,
\* the version and the document it was made for.
Reparse(new) ==
    /\ doc' = [new EXCEPT !.file = new.text]
    /\ timers' = {t \in timers : t.id # new.id \/ t.stage # "armed"}
                   \cup {[id |-> new.id, version |-> new.version,
                          text |-> new.text, stage |-> "armed"]}

DidOpen(m) ==
    /\ m.kind = "open"
    /\ Reparse([id |-> m.id, version |-> m.version, text |-> m.text, file |-> <<>>])
    /\ UNCHANGED toClient

\* One content change: a range is replaced, or the whole text.
Changed(text, change) ==
    IF "range" \notin DOMAIN change THEN change.text
    ELSE LET start == OffsetAt(text, change.range.start)
             end == Max({start, OffsetAt(text, change.range.end)})
         IN SubSeq(text, 1, start) \o change.text \o SubSeq(text, end + 1, Len(text))

\* didChange: each change applies to the text the previous one left.
DidChange(m) ==
    /\ m.kind = "change"
    /\ Reparse([doc EXCEPT !.version = m.version,
                           !.text = FoldLeft(Changed, doc.text, m.changes)])
    /\ UNCHANGED toClient

\* A slip: the record stays, without a version.
DidCloseKeeping(m) ==
    /\ m.kind = "close"
    /\ doc' = [doc EXCEPT !.version = 0]
    /\ timers' = {t \in timers : t.id # doc.id \/ t.stage # "armed"}
    /\ toClient' = Append(toClient, Diagnostics(0, {}))
DidClose(m) ==
    /\ m.kind = "close"
    /\ doc' = NoDoc
    /\ timers' = {t \in timers : t.id # doc.id \/ t.stage # "armed"}
    /\ toClient' = Append(toClient, Diagnostics(0, {}))

Rename(m) ==
    /\ m.kind = "rename"
    /\ toClient' = Append(toClient, RenameEdits(m))
    /\ UNCHANGED <<doc, timers>>

\* A request or notification for a document the server does not have changes nothing.
UnknownDocument(m) ==
    /\ m.kind \in {"change", "close", "rename"} /\ doc = NoDoc
    /\ toClient' = IF m.kind = "rename"
                   THEN Append(toClient, [kind |-> "edits", to |-> m.from, version |-> 0, ranges |-> {}])
                   ELSE toClient
    /\ UNCHANGED <<doc, timers>>

Serve ==
    /\ toServer # <<>>
    /\ LET m == Head(toServer)
       IN \/ DidOpen(m)
          \/ UnknownDocument(m)
          \/ doc # NoDoc /\ (DidChange(m) \/ DidClose(m) \/ Rename(m))
    /\ toServer' = Tail(toServer)
    /\ UNCHANGED editorVars

Fired(t) == (timers \ {t}) \cup {[t EXCEPT !.stage = "checking"]}

\* The delay is over. The callback runs the interpreter, without the mutex.
TimerFires(t) ==
    /\ t.stage = "armed"
    /\ timers' = Fired(t)
    /\ UNCHANGED <<editorVars, toServer, toClient, doc>>

\* Slips: the version is enough; the document is enough.
SameVersion(t) == doc # NoDoc /\ doc.version = t.version
SameDocument(t) == doc # NoDoc /\ doc.id = t.id
StillCurrent(t) == doc # NoDoc /\ doc.id = t.id /\ doc.version = t.version

\* The callback publishes if the document is still the one it was made for. The interpreter
\* may have timed out: then the parser's diagnostics stand.
Publish(t) ==
    /\ t.stage = "checking"
    /\ timers' = timers \ {t}
    /\ IF StillCurrent(t)
       THEN \E ranges \in {ParserRanges(t.text)}
                 \cup (IF UseInterpreter THEN {InterpreterRanges(t.text)} ELSE {}) :
              toClient' = Append(toClient, Diagnostics(t.version, ranges))
       ELSE UNCHANGED toClient
    /\ UNCHANGED <<editorVars, toServer, doc>>

-----------------------------------------------------------------------------
(* The editor.                                                               *)

\* Where the editor sees the end of the first k characters.
Seen(text, k) ==
    LET before == {i \in 1 .. k : text[i] = "nl"}
        line == IF before = {} THEN 0 ELSE Max(before)
    IN [line |-> Cardinality(before),
        character |-> (k - line) + Cardinality({i \in line + 1 .. k : text[i] = "wide"})]

SeenRange(text, i, j) == [start |-> Seen(text, i), end |-> Seen(text, j)]

OpenMessage(e) == [kind |-> "open", id |-> e.opens, version |-> e.version, text |-> e.text]

UserMayAct == Len(toServer) + Len(toClient) < MaxPending

Open(text) ==
    /\ ~IsOpen /\ editor.opens < MaxOpens /\ UserMayAct
    /\ editor' = [editor EXCEPT !.opens = @ + 1, !.version = 1, !.text = text]
    /\ toServer' = Append(toServer, OpenMessage(editor'))
    /\ UNCHANGED <<shown, asked, toClient, doc, timers>>

\* The user edits: the editor applies the changes and reports them.
Send(text, changes) ==
    /\ editor' = [editor EXCEPT !.edits = @ + 1, !.version = @ + 1, !.text = text]
    /\ toServer' = Append(toServer, [kind |-> "change", version |-> editor'.version,
                                     changes |-> changes])

Splice(text, i, j, new) == SubSeq(text, 1, i) \o new \o SubSeq(text, j + 1, Len(text))
Replacing(text, i, j, new) == [range |-> SeenRange(text, i, j), text |-> new]

CanEdit == IsOpen /\ UserMayAct /\ editor.edits < MaxEdits

\* One change; with a second one in the same notification, of the text the first left; or
\* the whole text at once.
Edit ==
    /\ CanEdit
    /\ \E i \in 0 .. Len(editor.text), span \in 0 .. MaxSpan, new \in Inserts :
         /\ i + span <= Len(editor.text)
         /\ LET text == Splice(editor.text, i, i + span, new)
                first == Replacing(editor.text, i, i + span, new)
            IN /\ Len(text) <= MaxLen
               /\ \/ Send(text, <<first>>)
                  \/ /\ text # <<>>
                     /\ Send(Splice(text, 0, 1, <<"wide">>),
                             <<first, Replacing(text, 0, 1, <<"wide">>)>>)
                  \/ span = 0 /\ Send(new, <<[text |-> new]>>)
    /\ UNCHANGED <<shown, asked, toClient, doc, timers>>

Close ==
    /\ IsOpen /\ UserMayAct
    /\ editor' = [editor EXCEPT !.version = 0, !.text = <<>>]
    /\ asked' = FALSE
    /\ toServer' = Append(toServer, [kind |-> "close"])
    /\ UNCHANGED <<shown, toClient, doc, timers>>

AskRename(i) ==
    /\ IsOpen /\ ~asked /\ UserMayAct
    /\ i \in DOMAIN editor.text /\ editor.text[i] = "old"
    /\ asked' = TRUE
    /\ toServer' = Append(toServer, [kind |-> "rename", from |-> editor.opens,
                                     position |-> Seen(editor.text, i - 1)])
    /\ UNCHANGED <<editor, shown, toClient, doc, timers>>

ShowDiagnostics ==
    /\ toClient # <<>> /\ Head(toClient).kind = "diagnostics"
    /\ shown' = [version |-> Head(toClient).version, ranges |-> Head(toClient).ranges]
    /\ toClient' = Tail(toClient)
    /\ UNCHANGED <<editor, asked, toServer, doc, timers>>

\* The editor refuses edits of another version, and those nobody waits for any more.
Awaited(edits) == asked /\ edits.to = editor.opens
Applicable(edits) == Awaited(edits) /\ edits.version = editor.version /\ edits.ranges # {}

\* The characters the ranges stand for in the editor's text, each replaced by "new". The
\* changes are reported from the end of the document to its beginning.
Hit(edits) == {i \in DOMAIN editor.text : SeenRange(editor.text, i - 1, i) \in edits.ranges}

ReceiveEdits ==
    /\ toClient # <<>> /\ Head(toClient).kind = "edits"
    /\ toClient' = Tail(toClient)
    /\ asked' = (asked /\ ~Awaited(Head(toClient)))
    /\ LET edits == Head(toClient)
           places == Reverse(Ascending(Hit(edits)))
       IN IF Applicable(edits) /\ editor.edits < MaxEdits
          THEN Send([i \in DOMAIN editor.text |-> IF i \in Hit(edits) THEN "new" ELSE editor.text[i]],
                    [p \in DOMAIN places |->
                        Replacing(editor.text, places[p] - 1, places[p], <<"new">>)])
          ELSE UNCHANGED <<editor, toServer>>
    /\ UNCHANGED <<shown, doc, timers>>

\* The extension restarts the server: what was under way is lost (a close too), diagnostics
\* are cleared, an open document is opened again, with the version it has.
Restart ==
    /\ shown' = NothingShown /\ asked' = FALSE
    /\ doc' = NoDoc /\ timers' = {} /\ toClient' = <<>>
    /\ \/ /\ IsOpen /\ editor.opens < MaxOpens
          /\ editor' = [editor EXCEPT !.opens = @ + 1]
          /\ toServer' = <<OpenMessage(editor')>>
       \/ ~IsOpen /\ UNCHANGED editor /\ toServer' = <<>>

-----------------------------------------------------------------------------
Init ==
    /\ editor = Closed /\ shown = NothingShown /\ asked = FALSE
    /\ toServer = <<>> /\ toClient = <<>>
    /\ doc = NoDoc /\ timers = {}

Next ==
    \/ Serve
    \/ \E t \in timers : TimerFires(t) \/ Publish(t)
    \/ \E text \in Texts : Open(text)
    \/ Edit \/ Close \/ ShowDiagnostics \/ ReceiveEdits \/ Restart
    \/ \E i \in 1 .. MaxLen : AskRename(i)

Spec == Init /\ [][Next]_vars

\* The server's loop and the timers run, and the editor reads what it is sent. (A step that
\* takes a message or moves a timer is one of the actions above.)
FairSpec ==
    /\ Spec
    /\ WF_toServer(toServer # <<>> /\ toServer' = Tail(toServer))
    /\ WF_toClient(toClient # <<>> /\ toClient' = Tail(toClient))
    /\ WF_timers(\E t \in timers : timers' \in {timers \ {t}, Fired(t)})
-----------------------------------------------------------------------------
Ranges == [start : Position, end : Position]

\* Type correctness.
TypeOK ==
    /\ editor \in [opens : 0 .. MaxOpens, edits : 0 .. MaxEdits,
                  version : 0 .. MaxEdits + 1, text : Seq(Chars)]
    /\ shown.version \in 0 .. MaxEdits + 1 /\ shown.ranges \subseteq Ranges
    /\ asked \in BOOLEAN
    /\ doc = NoDoc \/ doc \in [id : 1 .. MaxOpens, version : 1 .. MaxEdits + 1,
                               text : Seq(Chars), file : Seq(Chars)]
    /\ timers \subseteq [id : 1 .. MaxOpens, version : 1 .. MaxEdits + 1, text : Seq(Chars),
                         stage : {"armed", "checking"}]

\* The line of the first error is the characters after i up to j.
ErrorLine(text, i, j) ==
    LET first == Min(Errors(text) \cup {Len(text) + 1})
    IN /\ i <= j /\ i < first /\ first <= j
       /\ \A k \in i + 1 .. j : text[k] # "nl"
       /\ i = 0 \/ text[i] = "nl"
       /\ j = Len(text) \/ text[j + 1] = "nl"

\* What a reader of the text, who counts as the editor does, would mark.
Marks(text) ==
    LET ends == 0 .. Len(text)
    IN {{SeenRange(text, i - 1, i) : i \in Errors(text)},
        {SeenRange(text, line[1], line[2]) :
            line \in {line \in ends \X ends : ErrorLine(text, line[1], line[2])}}}

Quiet == toServer = <<>> /\ toClient = <<>>

\* When nothing is in flight the server has the editor's text, character by character,
\* whatever the edits counted in UTF-16 units were.
InSync ==
    Quiet => IF IsOpen THEN doc # NoDoc /\ doc.text = editor.text /\ doc.version = editor.version
             ELSE doc = NoDoc

\* When nothing is in flight, diagnostics on screen that claim the version of the document
\* mark its text and no other one.
SettledDiagnostics ==
    Quiet /\ IsOpen /\ shown.version = editor.version => shown.ranges \in Marks(editor.text)

\* When nothing is in flight, a closed document has no diagnostics on screen, and those of
\* another version of an open one are still going to be replaced: a timer holds the version
\* the editor has. Versions start again when a document is reopened.
StaleDiagnosticsAreDue ==
    Quiet =>
      /\ ~IsOpen => shown = NothingShown
      /\ IsOpen /\ shown.version # editor.version =>
            \E t \in timers : t.id = doc.id /\ t.version = editor.version

\* Diagnostics never go back to an older version of the document, however slow the
\* interpreter was with it.
NeverOlderDiagnostics ==
    [][shown'.version = 0 \/ shown'.version >= shown.version]_shown

\* A rename that is applied changes the occurrences of the name and nothing else; one asked for
\* the text the editor still has is not refused.
RenameHitsTheName ==
    [][ReceiveEdits /\ Awaited(Head(toClient)) /\ Head(toClient).version = editor.version =>
        /\ Head(toClient).ranges # {}
        /\ editor.edits < MaxEdits =>
             editor'.text = [i \in DOMAIN editor.text |->
                               IF editor.text[i] = "old" THEN "new" ELSE editor.text[i]]]_vars

\* Once the user stops editing, the diagnostics of the text on screen arrive.
DiagnosticsArrive ==
    IsOpen ~> (~IsOpen \/ (shown.version = editor.version /\ shown.ranges \in Marks(editor.text)))
=============================================================================
