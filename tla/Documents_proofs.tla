-------------------------- MODULE Documents_proofs --------------------------
(* Versions and texts between the editor and the language server, for any    *)
(* texts and bounds. Versions: diagnostics never go back to an older one,    *)
(* and stale ones are going to be replaced. Their invariant orders the       *)
(* versions along both queues, each of which begins with what its reader     *)
(* has already: the server its document, the editor its screen. Texts: a     *)
(* position survives its way through UTF-16 code units, the server makes the *)
(* editor's text of the changes, and diagnostics and renames are of that     *)
(* text. Their invariant is a line of documents from the server's to the     *)
(* editor's, with one message on its way between each and the next.          *)
EXTENDS Documents, FiniteSetTheorems, SequenceTheorems, WellFoundedInduction, TLAPS

\* A sequence, of whatever it holds.
IsSeq(s) == s \in Seq({s[k] : k \in DOMAIN s})

\* What the server knows of the document and what it is told next: place 0 is the document it
\* has, the others are messages on their way.
Told(k) == IF k = 0 THEN doc # NoDoc ELSE toServer[k].kind \in {"open", "change"}
VersionTold(k) == IF k = 0 THEN doc.version ELSE toServer[k].version
ClosedIn(j, k) == \E c \in DOMAIN toServer : j < c /\ c < k /\ toServer[c].kind = "close"

Places == 0 .. Len(toServer)
Beyond == Len(toServer) + 1

\* The document is opened when it is closed, changed when it is open, and closed at last; its
\* version never falls while it is open.
ToldInOrder ==
    \A k \in DOMAIN toServer :
        /\ toServer[k].kind = "open" => \A j \in Places : j < k /\ Told(j) => ClosedIn(j, k)
        /\ toServer[k].kind = "change" =>
              /\ \A j \in Places : j < k /\ Told(j) /\ ~ClosedIn(j, k) => VersionTold(j) <= VersionTold(k)
              /\ \E j \in Places : j < k /\ Told(j) /\ ~ClosedIn(j, k)

\* What the server is told and not told to forget is of the editor's document.
ToldOfEditor ==
    /\ \A j \in Places : Told(j) /\ ~ClosedIn(j, Beyond) => IsOpen /\ VersionTold(j) <= editor.version
    /\ IsOpen => \E j \in Places : /\ Told(j) /\ ~ClosedIn(j, Beyond)
                                   /\ VersionTold(j) = editor.version

\* The same of the diagnostics: place 0 is what is on screen.
Diagnosed(i) == i = 0 \/ toClient[i].kind = "diagnostics"
VersionShown(i) == IF i = 0 THEN shown.version ELSE toClient[i].version
DiagnosedIn(i, k) == \E d \in DOMAIN toClient : i < d /\ d < k /\ toClient[d].kind = "diagnostics"
Sent == 0 .. Len(toClient)

\* The versions of diagnostics grow, except where a close clears them.
ShownInOrder ==
    \A k \in DOMAIN toClient : toClient[k].kind = "diagnostics" =>
        \A i \in Sent : i < k /\ Diagnosed(i) /\ ~DiagnosedIn(i, k) =>
            VersionShown(k) = 0 \/ VersionShown(i) <= VersionShown(k)

\* The last diagnostics are of a version of the document that the server has, or of none.
Latest(i) == Diagnosed(i) /\ ~DiagnosedIn(i, Len(toClient) + 1)
ShownOfDocument == \A i \in Sent : Latest(i) => VersionShown(i) <= doc.version

\* They are those of the document, or a timer is going to replace them; the last of a closed
\* document are none.
Screen(i) == IF i = 0 THEN shown ELSE [version |-> toClient[i].version, ranges |-> toClient[i].ranges]
TimerDue == \E t \in timers : t.id = doc.id /\ t.version = doc.version
ShownOrDue ==
    \A i \in Sent : Latest(i) => IF doc = NoDoc THEN Screen(i) = NothingShown
                              ELSE VersionShown(i) = doc.version \/ TimerDue

OfServer(m) ==
    /\ m.kind \in {"open", "change", "close", "rename"}
    /\ m.kind \in {"open", "change"} => m.version \in Nat \ {0}
OfClient(m) ==
    /\ m.kind \in {"diagnostics", "edits"}
    /\ m.kind = "diagnostics" => m.version \in Nat

ToServerOK == IsSeq(toServer) /\ \A k \in DOMAIN toServer : OfServer(toServer[k])
ToClientOK == IsSeq(toClient) /\ \A k \in DOMAIN toClient : OfClient(toClient[k])
EditorOK == "version" \in DOMAIN editor /\ editor.version \in Nat /\ (asked => IsOpen)
ServerOK == /\ "version" \in DOMAIN doc /\ doc.version \in Nat
            /\ doc # NoDoc => doc.version # 0 /\ "id" \in DOMAIN doc
TimersOK == \A t \in timers : "id" \in DOMAIN t /\ "version" \in DOMAIN t

Numbers ==
    /\ ToServerOK /\ ToClientOK /\ EditorOK /\ ServerOK /\ TimersOK
    /\ shown.version \in Nat

VInv == Numbers /\ ToldInOrder /\ ToldOfEditor /\ ShownInOrder /\ ShownOfDocument /\ ShownOrDue

-----------------------------------------------------------------------------
(* Sequences.                                                              *)

LEMMA Appended ==
    ASSUME NEW s, IsSeq(s), NEW e
    PROVE  /\ IsSeq(Append(s, e)) /\ Len(s) \in Nat /\ Len(Append(s, e)) = Len(s) + 1
           /\ DOMAIN s = 1 .. Len(s) /\ DOMAIN Append(s, e) = 1 .. (Len(s) + 1)
           /\ \A k \in 1 .. Len(s) : Append(s, e)[k] = s[k]
           /\ Append(s, e)[Len(s) + 1] = e
<1>1. PICK S : S = {s[k] : k \in DOMAIN s} \cup {e}
    OBVIOUS
<1>2. s \in Seq(S) /\ e \in S
    <2>1. PICK T : T = {s[k] : k \in DOMAIN s}
        OBVIOUS
    <2>2. s \in Seq(T) /\ T \subseteq S
        BY <1>1, <2>1 DEF IsSeq
    <2> QED
        BY <1>1, <2>2
<1>3. PICK t : t = Append(s, e)
    OBVIOUS
<1>4. /\ t \in Seq(S) /\ Len(s) \in Nat /\ Len(t) = Len(s) + 1
      /\ DOMAIN s = 1 .. Len(s) /\ DOMAIN t = 1 .. (Len(s) + 1)
      /\ \A k \in 1 .. Len(s) : t[k] = s[k]
      /\ t[Len(s) + 1] = e
    BY <1>2, <1>3
<1>5. IsSeq(t)
    <2>1. PICK T : T = {t[k] : k \in DOMAIN t}
        OBVIOUS
    <2>2. t \in [1 .. Len(t) -> T] /\ Len(t) \in Nat
        BY <1>4, <2>1
    <2> QED
        BY <2>1, <2>2 DEF IsSeq
<1> QED
    BY <1>3, <1>4, <1>5

LEMMA Dropped ==
    ASSUME NEW s, IsSeq(s), s # <<>>
    PROVE  /\ IsSeq(Tail(s)) /\ Len(s) \in Nat \ {0} /\ Len(Tail(s)) = Len(s) - 1
           /\ DOMAIN s = 1 .. Len(s) /\ DOMAIN Tail(s) = 1 .. (Len(s) - 1)
           /\ \A k \in 1 .. (Len(s) - 1) : Tail(s)[k] = s[k + 1]
           /\ Head(s) = s[1]
<1>1. PICK S : S = {s[k] : k \in DOMAIN s}
    OBVIOUS
<1>2. s \in Seq(S)
    BY <1>1 DEF IsSeq
<1>3. PICK t : t = Tail(s)
    OBVIOUS
<1>4. /\ t \in Seq(S) /\ Len(s) \in Nat \ {0} /\ Len(t) = Len(s) - 1
      /\ DOMAIN s = 1 .. Len(s) /\ DOMAIN t = 1 .. (Len(s) - 1)
      /\ \A k \in 1 .. (Len(s) - 1) : t[k] = s[k + 1]
      /\ Head(s) = s[1]
    BY <1>2, <1>3
<1>5. IsSeq(t)
    <2>1. PICK T : T = {t[k] : k \in DOMAIN t}
        OBVIOUS
    <2>2. t \in [1 .. Len(t) -> T] /\ Len(t) \in Nat
        BY <1>4, <2>1
    <2> QED
        BY <2>1, <2>2 DEF IsSeq
<1> QED
    BY <1>3, <1>4, <1>5

-----------------------------------------------------------------------------
(* What the server is told.                                                *)

LEMMA ServerFacts ==
    ASSUME Numbers
    PROVE  /\ Len(toServer) \in Nat /\ DOMAIN toServer = 1 .. Len(toServer)
           /\ \A k \in DOMAIN toServer : toServer[k].kind \in {"open", "change"} =>
                                            toServer[k].version \in Nat \ {0}
           /\ \A j \in Places : j \in Nat /\ (Told(j) => VersionTold(j) \in Nat)
<1>1. Len(toServer) \in Nat /\ DOMAIN toServer = 1 .. Len(toServer)
    BY Appended DEF Numbers, ToServerOK, OfServer, EditorOK, ServerOK
<1>2. ASSUME NEW j \in Places, Told(j)
      PROVE  VersionTold(j) \in Nat
    <2>1. CASE j = 0
        BY <2>1 DEF VersionTold, Numbers, ToServerOK, OfServer, EditorOK, ServerOK
    <2>2. CASE j # 0
        BY <1>1, <1>2, <2>2 DEF Places, Told, VersionTold, Numbers, ToServerOK, OfServer, EditorOK, ServerOK
    <2> QED
        BY <2>1, <2>2
<1> QED
    BY <1>1, <1>2 DEF Numbers, ToServerOK, OfServer, EditorOK, ServerOK, Places

LEMMA ToldMore ==
    ASSUME Numbers, NEW m, toServer' = Append(toServer, m), doc' = doc,
           NEW n, n = Len(toServer) + 1
    PROVE  /\ n \in Nat /\ Len(toServer') = n /\ IsSeq(toServer)' /\ DOMAIN toServer' = 1 .. n
           /\ \A j \in Places : j < n /\ (Told(j)' <=> Told(j)) /\ VersionTold(j)' = VersionTold(j)
           /\ \A j \in Places', k \in 0 .. n : ClosedIn(j, k)' <=> ClosedIn(j, k)
           /\ \A j \in Places : ClosedIn(j, n + 1)' <=> ClosedIn(j, n) \/ m.kind = "close"
           /\ ~ClosedIn(n, n + 1)'
           /\ \A j \in Places' : j \in Places \/ j = n
           /\ \A k \in DOMAIN toServer : toServer'[k] = toServer[k]
           /\ toServer'[n] = m /\ (Told(n)' <=> m.kind \in {"open", "change"}) /\ VersionTold(n)' = m.version
<1>1. /\ Len(toServer) \in Nat /\ DOMAIN toServer = 1 .. Len(toServer) /\ IsSeq(toServer)'
      /\ Len(toServer') = n /\ DOMAIN toServer' = 1 .. n /\ n \in Nat
      /\ \A k \in 1 .. Len(toServer) : toServer'[k] = toServer[k]
      /\ toServer'[n] = m
    <2>1. PICK s : s = toServer
        OBVIOUS
    <2>2. IsSeq(s)
        BY <2>1 DEF Numbers, ToServerOK, OfServer, EditorOK, ServerOK, IsSeq
    <2>3. PICK t : t = Append(s, m)
        OBVIOUS
    <2>4. /\ IsSeq(t) /\ Len(s) \in Nat /\ Len(t) = Len(s) + 1
          /\ DOMAIN s = 1 .. Len(s) /\ DOMAIN t = 1 .. (Len(s) + 1)
          /\ \A k \in 1 .. Len(s) : t[k] = s[k]
          /\ t[Len(s) + 1] = m
        BY <2>2, <2>3, Appended
    <2>5. toServer' = t
        BY <2>1, <2>3
    <2> QED
        BY <2>1, <2>4, <2>5 DEF IsSeq
<1>2. Places = 0 .. Len(toServer) /\ Places' = 0 .. n
    BY <1>1 DEF Places
<1>3. ASSUME NEW j \in Places
      PROVE  j < n /\ (Told(j)' <=> Told(j)) /\ VersionTold(j)' = VersionTold(j)
    BY <1>1, <1>2 DEF Told, VersionTold
<1>4. ASSUME NEW j \in Places', NEW k \in 0 .. n
      PROVE  ClosedIn(j, k)' <=> ClosedIn(j, k)
    BY <1>1, <1>2 DEF ClosedIn
<1>5. ASSUME NEW j \in Places
      PROVE  ClosedIn(j, n + 1)' <=> ClosedIn(j, n) \/ m.kind = "close"
    BY <1>1, <1>2 DEF ClosedIn
<1>6. ~ClosedIn(n, n + 1)'
    BY <1>1 DEF ClosedIn
<1>7. \A j \in Places' : j \in Places \/ j = n
    BY <1>1, <1>2
<1>8. (Told(n)' <=> m.kind \in {"open", "change"}) /\ VersionTold(n)' = m.version
    BY <1>1 DEF Told, VersionTold
<1> QED
    BY <1>1, <1>3, <1>4, <1>5, <1>6, <1>7, <1>8

\* What a message has to keep.
LEMMA Tells ==
    ASSUME Numbers, ToldInOrder, ToldOfEditor, NEW m, toServer' = Append(toServer, m), doc' = doc,
           editor'.version \in Nat, m.kind \in {"open", "change"} => m.version = editor'.version,
           \/ m.kind = "open" /\ ~IsOpen /\ editor'.version > 0
           \/ m.kind = "change" /\ IsOpen /\ editor'.version > editor.version
           \/ m.kind = "close" /\ editor'.version = 0
           \/ m.kind = "rename" /\ editor'.version = editor.version
    PROVE  ToldInOrder' /\ ToldOfEditor'
<1>1. PICK n : n = Len(toServer) + 1
    OBVIOUS
<1>2. /\ n \in Nat /\ Len(toServer') = n /\ IsSeq(toServer)' /\ DOMAIN toServer' = 1 .. n
      /\ \A j \in Places : j < n /\ (Told(j)' <=> Told(j)) /\ VersionTold(j)' = VersionTold(j)
      /\ \A j \in Places', k \in 0 .. n : ClosedIn(j, k)' <=> ClosedIn(j, k)
      /\ \A j \in Places : ClosedIn(j, n + 1)' <=> ClosedIn(j, n) \/ m.kind = "close"
      /\ ~ClosedIn(n, n + 1)'
      /\ \A j \in Places' : j \in Places \/ j = n
      /\ \A k \in DOMAIN toServer : toServer'[k] = toServer[k]
      /\ toServer'[n] = m /\ (Told(n)' <=> m.kind \in {"open", "change"}) /\ VersionTold(n)' = m.version
    BY <1>1, ToldMore
<1>3. /\ Len(toServer) \in Nat /\ DOMAIN toServer = 1 .. Len(toServer) /\ n \in Places' /\ Places \subseteq Places'
      /\ \A j \in Places : j \in Nat /\ (Told(j) => VersionTold(j) \in Nat)
    BY <1>1, <1>2, ServerFacts DEF Places
<1>4. /\ \A j \in Places : Told(j) /\ ~ClosedIn(j, n) => IsOpen /\ VersionTold(j) <= editor.version
      /\ IsOpen => \E j \in Places : Told(j) /\ ~ClosedIn(j, n) /\ VersionTold(j) = editor.version
    BY <1>1 DEF ToldOfEditor, Beyond
<1>5. editor.version \in Nat /\ (IsOpen <=> editor.version > 0)
    BY DEF Numbers, ToServerOK, OfServer, EditorOK, ServerOK, IsOpen
<1>6. ToldInOrder'
    <2>1. ASSUME NEW k \in DOMAIN toServer', k # n
          PROVE  /\ toServer'[k].kind = "open" => \A j \in Places' : j < k /\ Told(j)' => ClosedIn(j, k)'
                 /\ toServer'[k].kind = "change" =>
                       /\ \A j \in Places' : j < k /\ Told(j)' /\ ~ClosedIn(j, k)' =>
                                                VersionTold(j)' <= VersionTold(k)'
                       /\ \E j \in Places' : j < k /\ Told(j)' /\ ~ClosedIn(j, k)'
        <3>1. k \in DOMAIN toServer /\ k \in 0 .. n /\ k \in Places /\ k < n /\ toServer'[k] = toServer[k]
            BY <1>1, <1>2, <1>3, <2>1 DEF Places
        <3>2. \A j \in Places' : j < k => j \in Places
            BY <1>2, <3>1
        <3> QED
            BY <1>2, <1>3, <3>1, <3>2 DEF ToldInOrder
    <2>2. ASSUME m.kind = "open"
          PROVE  \A j \in Places' : j < n /\ Told(j)' => ClosedIn(j, n)'
        <3>1. ~IsOpen
            BY <2>2
        <3>2. \A j \in Places' : j < n => j \in Places
            BY <1>2
        <3>3. n \in 0 .. n
            BY <1>2
        <3> QED
            BY <1>2, <1>3, <1>4, <3>1, <3>2, <3>3
    <2>3. ASSUME m.kind = "change"
          PROVE  /\ \A j \in Places' : j < n /\ Told(j)' /\ ~ClosedIn(j, n)' => VersionTold(j)' <= VersionTold(n)'
                 /\ \E j \in Places' : j < n /\ Told(j)' /\ ~ClosedIn(j, n)'
        <3>1. IsOpen /\ editor'.version > editor.version /\ m.version = editor'.version
            BY <2>3
        <3>2. \A j \in Places' : j < n => j \in Places
            BY <1>2
        <3>3. n \in 0 .. n
            BY <1>2
        <3>4. \A j \in Places : Told(j) /\ ~ClosedIn(j, n) => VersionTold(j) <= m.version
            BY <1>3, <1>4, <1>5, <3>1
        <3> QED
            BY <1>2, <1>3, <1>4, <3>1, <3>2, <3>3, <3>4
    <2>4. \A k \in DOMAIN toServer' :
              /\ toServer'[k].kind = "open" => \A j \in Places' : j < k /\ Told(j)' => ClosedIn(j, k)'
              /\ toServer'[k].kind = "change" =>
                    /\ \A j \in Places' : j < k /\ Told(j)' /\ ~ClosedIn(j, k)' =>
                                             VersionTold(j)' <= VersionTold(k)'
                    /\ \E j \in Places' : j < k /\ Told(j)' /\ ~ClosedIn(j, k)'
        BY <1>2, <2>1, <2>2, <2>3
    <2> QED
        BY <2>4 DEF ToldInOrder
<1>7. ToldOfEditor'
    <2>1. IsOpen' <=> editor'.version > 0
        BY DEF IsOpen
    <2>2. /\ \A j \in Places' : Told(j)' /\ ~ClosedIn(j, n + 1)' => IsOpen' /\ VersionTold(j)' <= editor'.version
          /\ IsOpen' => \E j \in Places' : /\ Told(j)' /\ ~ClosedIn(j, n + 1)'
                                           /\ VersionTold(j)' = editor'.version
        <3>1. CASE m.kind = "open"
            BY <1>2, <1>3, <1>4, <1>5, <2>1, <3>1
        <3>2. CASE m.kind = "change"
            BY <1>2, <1>3, <1>4, <1>5, <2>1, <3>2
        <3>3. CASE m.kind = "close"
            BY <1>2, <1>3, <1>4, <1>5, <2>1, <3>3
        <3>4. CASE m.kind = "rename"
            BY <1>2, <1>3, <1>4, <1>5, <2>1, <3>4
        <3> QED
            BY <3>1, <3>2, <3>3, <3>4
    <2>3. Beyond' = n + 1
        BY <1>2 DEF Beyond
    <2> QED
        BY <2>2, <2>3 DEF ToldOfEditor, Told, VersionTold, ClosedIn, IsOpen
<1> QED
    BY <1>6, <1>7

\* The places of the messages that are left, and the kinds of what was served.
LEMMA ToldLess ==
    ASSUME Numbers, toServer # <<>>, toServer' = Tail(toServer)
    PROVE  /\ Len(toServer) \in Nat \ {0} /\ Len(toServer') = Len(toServer) - 1 /\ IsSeq(toServer)'
           /\ DOMAIN toServer = 1 .. Len(toServer) /\ DOMAIN toServer' = 1 .. (Len(toServer) - 1)
           /\ Head(toServer) = toServer[1]
           /\ \A k \in DOMAIN toServer' : k + 1 \in DOMAIN toServer /\ toServer'[k] = toServer[k + 1]
           /\ \A j \in Places' : j # 0 => /\ j \in Nat /\ j + 1 \in Places
                                          /\ (Told(j)' <=> Told(j + 1)) /\ VersionTold(j)' = VersionTold(j + 1)
           /\ \A j \in Nat, k \in Nat : ClosedIn(j, k)' <=> ClosedIn(j + 1, k + 1)
<1>1. PICK s : s = toServer
    OBVIOUS
<1>2. PICK t : t = Tail(s)
    OBVIOUS
<1>3. IsSeq(s) /\ s # <<>>
    BY <1>1 DEF Numbers, ToServerOK, OfServer, EditorOK, ServerOK, IsSeq
<1>4. /\ IsSeq(t) /\ Len(s) \in Nat \ {0} /\ Len(t) = Len(s) - 1
      /\ DOMAIN s = 1 .. Len(s) /\ DOMAIN t = 1 .. (Len(s) - 1)
      /\ \A k \in 1 .. (Len(s) - 1) : t[k] = s[k + 1]
      /\ Head(s) = s[1]
    BY <1>2, <1>3, Dropped
<1>5. toServer' = t
    BY <1>1, <1>2
<1>6. \A k \in DOMAIN toServer' : k + 1 \in DOMAIN toServer /\ toServer'[k] = toServer[k + 1]
    BY <1>1, <1>4, <1>5
<1>7. ASSUME NEW j \in Places', j # 0
      PROVE  /\ j \in Nat /\ j + 1 \in Places /\ j + 1 # 0
             /\ (Told(j)' <=> Told(j + 1)) /\ VersionTold(j)' = VersionTold(j + 1)
    <2>1. j \in Nat /\ j \in DOMAIN toServer' /\ j + 1 \in Places /\ j + 1 # 0
        BY <1>1, <1>4, <1>5, <1>7 DEF Places
    <2> QED
        BY <1>6, <1>7, <2>1 DEF Told, VersionTold
<1>8. ASSUME NEW j \in Nat, NEW k \in Nat
      PROVE  ClosedIn(j, k)' <=> ClosedIn(j + 1, k + 1)
    <2>2. ASSUME NEW c \in DOMAIN toServer', j < c, c < k, toServer'[c].kind = "close"
          PROVE  ClosedIn(j + 1, k + 1)
        <3>1. c + 1 \in DOMAIN toServer /\ j + 1 < c + 1 /\ c + 1 < k + 1 /\ toServer[c + 1].kind = "close"
            BY <1>1, <1>4, <1>5, <1>6, <1>8, <2>2
        <3> QED
            BY <3>1 DEF ClosedIn
    <2>3. ASSUME NEW c \in DOMAIN toServer, j + 1 < c, c < k + 1, toServer[c].kind = "close"
          PROVE  ClosedIn(j, k)'
        <3>1. c - 1 \in DOMAIN toServer' /\ j < c - 1 /\ c - 1 < k /\ (c - 1) + 1 = c
            BY <1>1, <1>4, <1>5, <1>8, <2>3
        <3>2. toServer'[c - 1].kind = "close"
            BY <1>6, <2>3, <3>1
        <3> QED
            BY <3>1, <3>2 DEF ClosedIn
    <2> QED
        BY <2>2, <2>3 DEF ClosedIn
<1>9. /\ Len(toServer) \in Nat \ {0} /\ Len(toServer') = Len(toServer) - 1
      /\ DOMAIN toServer = 1 .. Len(toServer) /\ DOMAIN toServer' = 1 .. (Len(toServer) - 1)
      /\ Head(toServer) = toServer[1]
    BY <1>1, <1>4, <1>5
<1>10. IsSeq(toServer)'
    BY <1>4, <1>5 DEF IsSeq
<1> QED
    BY <1>6, <1>7, <1>8, <1>9, <1>10

\* What the server makes of a message, as far as versions go.
Served(m) ==
    \/ m.kind \in {"open", "change"} /\ doc' # NoDoc /\ doc'.version = m.version
    \/ m.kind = "rename" /\ doc' = doc
    \/ m.kind = "close" /\ doc' = NoDoc

LEMMA ServedTold ==
    ASSUME Numbers, ToldInOrder, ToldOfEditor, toServer # <<>>, toServer' = Tail(toServer),
           editor' = editor, Served(Head(toServer))
    PROVE  ToldInOrder' /\ ToldOfEditor'
<1> DEFINE m == Head(toServer)
<1>1. /\ Len(toServer) \in Nat \ {0} /\ Len(toServer') = Len(toServer) - 1
      /\ DOMAIN toServer = 1 .. Len(toServer) /\ DOMAIN toServer' = 1 .. (Len(toServer) - 1)
      /\ m = toServer[1]
      /\ \A k \in DOMAIN toServer' : k + 1 \in DOMAIN toServer /\ toServer'[k] = toServer[k + 1]
      /\ \A j \in Places' : j # 0 => /\ j \in Nat /\ j + 1 \in Places
                                     /\ (Told(j)' <=> Told(j + 1)) /\ VersionTold(j)' = VersionTold(j + 1)
      /\ \A j \in Nat, k \in Nat : ClosedIn(j, k)' <=> ClosedIn(j + 1, k + 1)
    BY ToldLess
<1>2. 0 \in Places /\ 1 \in Places /\ 0 \in Places' /\ 1 \in DOMAIN toServer
    BY <1>1 DEF Places
\* Place 0 after the step was place o before.
<1>3. PICK o \in {0, 1} :
         /\ Told(0)' => Told(o) /\ VersionTold(0)' = VersionTold(o)
         /\ Told(0)' => \A k \in Nat \ {0} : ClosedIn(0, k)' <=> ClosedIn(o, k + 1)
         /\ m.kind \in {"open", "change"} => o = 1 /\ Told(0)'
         /\ m.kind = "rename" => o = 0 /\ (Told(0)' <=> Told(0))
    <2>1. CASE m.kind \in {"open", "change"}
        <3>1. Told(0)' /\ Told(1) /\ VersionTold(0)' = VersionTold(1)
            BY <1>1, <2>1 DEF Served, Told, VersionTold
        <3>2. \A k \in Nat \ {0} : ClosedIn(0, k)' <=> ClosedIn(1, k + 1)
            <4>1. 0 + 1 = 1 /\ 0 \in Nat
                OBVIOUS
            <4> QED
                BY <1>1, <4>1
        <3> QED
            BY <2>1, <3>1, <3>2
    <2>2. CASE m.kind = "rename"
        <3>1. (Told(0)' <=> Told(0)) /\ VersionTold(0)' = VersionTold(0)
            BY <2>2 DEF Served, Told, VersionTold
        <3>2. ASSUME NEW k \in Nat \ {0}
              PROVE  ClosedIn(0, k)' <=> ClosedIn(0, k + 1)
            <4>1. ClosedIn(0, k)' <=> ClosedIn(1, k + 1)
                <5>1. 0 + 1 = 1 /\ 0 \in Nat /\ k \in Nat
                    OBVIOUS
                <5> QED
                    BY <1>1, <5>1
            <4>2. ClosedIn(1, k + 1) <=> ClosedIn(0, k + 1)
                BY <1>1, <2>2 DEF ClosedIn
            <4> QED
                BY <4>1, <4>2
        <3> QED
            BY <2>2, <3>1, <3>2
    <2>3. CASE m.kind = "close"
        <3>1. ~Told(0)'
            BY <2>3 DEF Served, Told
        <3> QED
            BY <2>3, <3>1
    <2> QED
        BY <1>1, <1>2, <2>1, <2>2, <2>3 DEF Served
<1> HIDE DEF m
\* A place p before the step that is still told is one after it.
<1>4. ASSUME NEW k \in Nat \ {0}, k <= Len(toServer),
             NEW p \in Places, p < k + 1, Told(p), ~ClosedIn(p, k + 1)
      PROVE  \/ p = 0 /\ m.kind = "change" /\ Told(0)' /\ ~ClosedIn(0, k)'
             \/ \E j \in Places' : j < k /\ Told(j)' /\ VersionTold(j)' = VersionTold(p) /\ ~ClosedIn(j, k)'
    <2>1. CASE p = 0
        <3>1. m.kind # "close"
            <4>1. 0 < 1 /\ 1 < k + 1
                BY <1>4
            <4> QED
                BY <1>1, <1>2, <1>4, <2>1, <4>1 DEF ClosedIn
        <3>2. m.kind # "open"
            <4>1. ~ClosedIn(0, 1)
                BY <1>1 DEF ClosedIn
            <4>2. toServer[1].kind = "open" => \A j \in Places : j < 1 /\ Told(j) => ClosedIn(j, 1)
                BY <1>2 DEF ToldInOrder
            <4>3. 0 < 1 /\ Told(0)
                BY <1>4, <2>1
            <4> QED
                BY <1>1, <1>2, <4>1, <4>2, <4>3
        <3>3. CASE m.kind = "rename"
            <4>1. Told(0)' /\ VersionTold(0)' = VersionTold(0) /\ ~ClosedIn(0, k)'
                BY <1>3, <1>4, <2>1, <3>3
            <4> QED
                BY <1>2, <1>4, <2>1, <4>1
        <3>4. CASE m.kind = "change"
            <4>1. Told(0)' /\ o = 1
                BY <1>3, <3>4
            <4>2. ~ClosedIn(1, k + 1)
                BY <1>1, <1>4, <2>1, <3>4 DEF ClosedIn
            <4> QED
                BY <1>3, <2>1, <3>4, <4>1, <4>2
        <3> QED
            BY <1>1, <1>2, <3>1, <3>2, <3>3, <3>4 DEF Numbers, ToServerOK, OfServer, EditorOK, ServerOK
    <2>2. CASE p = 1
        <3>1. m.kind \in {"open", "change"}
            BY <1>1, <1>4, <2>2 DEF Told
        <3>2. Told(0)' /\ VersionTold(0)' = VersionTold(1) /\ ~ClosedIn(0, k)'
            BY <1>3, <1>4, <2>2, <3>1
        <3> QED
            BY <1>2, <1>4, <2>2, <3>2
    <2>3. CASE p # 0 /\ p # 1
        <3>0. p \in 0 .. Len(toServer) /\ DOMAIN toServer' = 1 .. Len(toServer')
            BY <1>1 DEF Places
        <3>1. PICK j \in Nat \ {0} : p = j + 1
            <4>1. p - 1 \in Nat \ {0} /\ p = (p - 1) + 1
                BY <2>3, <3>0
            <4> QED
                BY <4>1
        <3>2. j < k /\ j \in 0 .. Len(toServer') /\ j # 0
            BY <1>1, <1>4, <3>0, <3>1
        <3>3. ClosedIn(j, k)' <=> ClosedIn(p, k + 1)
            BY <1>1, <3>1
        <3>4. j \in Places'
            BY <3>2 DEF Places
        <3>5. (Told(j)' <=> Told(p)) /\ VersionTold(j)' = VersionTold(p)
            BY <1>1, <3>1, <3>2, <3>4
        <3> QED
            BY <1>4, <3>2, <3>3, <3>4, <3>5
    <2> QED
        BY <2>1, <2>2, <2>3
\* A place after the step was told and not closed before.
<1>5. ASSUME NEW k \in Nat \ {0}, k <= Len(toServer),
             NEW j \in Places', j < k, Told(j)', ~ClosedIn(j, k)'
      PROVE  \E p \in Places : p < k + 1 /\ Told(p) /\ VersionTold(j)' = VersionTold(p) /\ ~ClosedIn(p, k + 1)
    <2>1. CASE j = 0
        <3>1. o < k + 1 /\ o \in Places
            BY <1>2
        <3> QED
            BY <1>3, <1>5, <2>1, <3>1
    <2>2. CASE j # 0
        <3>1. /\ j \in Nat /\ j + 1 \in Places
              /\ Told(j + 1) /\ VersionTold(j)' = VersionTold(j + 1)
            BY <1>1, <1>5, <2>2
        <3>2. ClosedIn(j, k)' <=> ClosedIn(j + 1, k + 1)
            BY <1>1, <3>1
        <3>3. j + 1 < k + 1
            BY <1>5, <3>1
        <3> QED
            BY <1>5, <3>1, <3>2, <3>3
    <2> QED
        BY <2>1, <2>2
<1>6. ToldInOrder'
    <2>1. ASSUME NEW k \in DOMAIN toServer'
          PROVE  /\ toServer'[k].kind = "open" => \A j \in Places' : j < k /\ Told(j)' => ClosedIn(j, k)'
                 /\ toServer'[k].kind = "change" =>
                       /\ \A j \in Places' : j < k /\ Told(j)' /\ ~ClosedIn(j, k)' =>
                                                VersionTold(j)' <= VersionTold(k)'
                       /\ \E j \in Places' : j < k /\ Told(j)' /\ ~ClosedIn(j, k)'
        <3>1. /\ k \in Nat \ {0} /\ k <= Len(toServer) /\ k + 1 \in DOMAIN toServer
              /\ toServer'[k] = toServer[k + 1] /\ k \in Places'
            <4>1. Len(toServer) \in Nat /\ k \in 1 .. (Len(toServer) - 1)
                BY <1>1
            <4>2. k \in Nat \ {0} /\ k <= Len(toServer) /\ k \in 0 .. (Len(toServer) - 1)
                BY <4>1
            <4>3. Places' = 0 .. (Len(toServer) - 1)
                BY <1>1 DEF Places
            <4> QED
                BY <1>1, <4>2, <4>3
        <3>2. VersionTold(k)' = VersionTold(k + 1)
            BY <1>1, <3>1
        <3>3. ASSUME toServer'[k].kind = "open", NEW j \in Places', j < k, Told(j)', ~ClosedIn(j, k)'
              PROVE  FALSE
            <4>1. PICK p \in Places : p < k + 1 /\ Told(p) /\ ~ClosedIn(p, k + 1)
                BY <1>5, <3>1, <3>3
            <4> QED
                BY <3>1, <3>3, <4>1 DEF ToldInOrder
        <3>4. ASSUME toServer'[k].kind = "change", NEW j \in Places', j < k, Told(j)', ~ClosedIn(j, k)'
              PROVE  VersionTold(j)' <= VersionTold(k)'
            <4>1. PICK p \in Places : /\ p < k + 1 /\ Told(p) /\ VersionTold(j)' = VersionTold(p)
                                      /\ ~ClosedIn(p, k + 1)
                BY <1>5, <3>1, <3>4
            <4> QED
                BY <3>1, <3>2, <3>4, <4>1 DEF ToldInOrder
        <3>5. ASSUME toServer'[k].kind = "change"
              PROVE  \E j \in Places' : j < k /\ Told(j)' /\ ~ClosedIn(j, k)'
            <4>1. PICK p \in Places : p < k + 1 /\ Told(p) /\ ~ClosedIn(p, k + 1)
                BY <3>1, <3>5 DEF ToldInOrder
            <4>2. 0 < k
                BY <3>1
            <4> QED
                BY <1>2, <1>4, <3>1, <4>1, <4>2
        <3> QED
            BY <3>3, <3>4, <3>5
    <2> QED
        BY <2>1 DEF ToldInOrder
<1>7. ToldOfEditor'
    <2>1. PICK k : k = Len(toServer)
        OBVIOUS
    <2>2. k \in Nat \ {0} /\ k <= Len(toServer) /\ Beyond = k + 1 /\ Beyond' = k /\ 0 < k
        BY <1>1, <2>1 DEF Beyond
    <2>3. IsOpen' <=> IsOpen
        BY DEF IsOpen
    <2>4. ASSUME NEW j \in Places', Told(j)', ~ClosedIn(j, k)'
          PROVE  IsOpen /\ VersionTold(j)' <= editor.version
        <3>1. j < k
            BY <1>1, <2>1 DEF Places
        <3>2. PICK p \in Places : Told(p) /\ VersionTold(j)' = VersionTold(p) /\ ~ClosedIn(p, k + 1)
            BY <1>5, <2>2, <2>4, <3>1
        <3> QED
            BY <2>2, <3>2 DEF ToldOfEditor
    <2>5. ASSUME IsOpen
          PROVE  \E j \in Places' : Told(j)' /\ ~ClosedIn(j, k)' /\ VersionTold(j)' = editor.version
        <3>1. PICK p \in Places : Told(p) /\ ~ClosedIn(p, k + 1) /\ VersionTold(p) = editor.version
            BY <2>2, <2>5 DEF ToldOfEditor
        <3>2. p < k + 1
            BY <1>1, <2>1 DEF Places
        <3>3. CASE p = 0 /\ m.kind = "change" /\ Told(0)' /\ ~ClosedIn(0, k)'
            <4>1. VersionTold(0)' <= editor.version
                BY <1>2, <2>4, <3>3
            <4>2. VersionTold(0)' = VersionTold(1) /\ VersionTold(1) \in Nat
                <5>1. Told(1)
                    BY <1>1, <3>3 DEF Told
                <5> QED
                    BY <1>2, <1>3, <3>3, <5>1, ServerFacts
            <4>3. ~ClosedIn(0, 1)
                BY <1>1 DEF ClosedIn
            <4>4. editor.version <= VersionTold(1)
                <5>1. toServer[1].kind = "change" =>
                         \A j \in Places : j < 1 /\ Told(j) /\ ~ClosedIn(j, 1) => VersionTold(j) <= VersionTold(1)
                    BY <1>2 DEF ToldInOrder
                <5>2. 0 < 1 /\ Told(0) /\ VersionTold(0) = editor.version
                    BY <3>1, <3>3
                <5> QED
                    BY <1>1, <1>2, <3>3, <4>3, <5>1, <5>2
            <4>5. editor.version \in Nat
                BY DEF Numbers, ToServerOK, OfServer, EditorOK, ServerOK
            <4> QED
                BY <1>2, <3>3, <4>1, <4>2, <4>4, <4>5
        <3> QED
            BY <1>4, <2>2, <3>1, <3>2, <3>3
    <2> QED
        BY <2>2, <2>3, <2>4, <2>5 DEF ToldOfEditor, Told, VersionTold, ClosedIn
<1> QED
    BY <1>6, <1>7

LEMMA ServerGrows ==
    ASSUME Numbers, NEW m, OfServer(m), toServer' = Append(toServer, m)
    PROVE  ToServerOK'
<1>1. PICK s : s = toServer
    OBVIOUS
<1>2. IsSeq(s) /\ \A k \in DOMAIN s : OfServer(s[k])
    BY <1>1 DEF Numbers, ToServerOK, IsSeq
<1>3. PICK t : t = Append(s, m)
    OBVIOUS
<1>4. /\ IsSeq(t) /\ Len(s) \in Nat
      /\ DOMAIN s = 1 .. Len(s) /\ DOMAIN t = 1 .. (Len(s) + 1)
      /\ \A k \in 1 .. Len(s) : t[k] = s[k]
      /\ t[Len(s) + 1] = m
    BY <1>2, <1>3, Appended
<1>5. ASSUME NEW k \in DOMAIN t
      PROVE  OfServer(t[k])
    <2>1. k \in 1 .. Len(s) \/ k = Len(s) + 1
        BY <1>4
    <2>2. k \in 1 .. Len(s) => t[k] = s[k] /\ k \in DOMAIN s
        BY <1>4
    <2> QED
        BY <1>2, <1>4, <2>1, <2>2
<1>6. toServer' = t
    BY <1>1, <1>3
<1> QED
    BY <1>4, <1>5, <1>6 DEF ToServerOK, IsSeq, OfServer

LEMMA ServerShrinks ==
    ASSUME Numbers, toServer # <<>>, toServer' = Tail(toServer)
    PROVE  ToServerOK' /\ OfServer(Head(toServer)) /\ 1 \in DOMAIN toServer /\ Head(toServer) = toServer[1]
<1>1. /\ Len(toServer) \in Nat \ {0} /\ IsSeq(toServer)' /\ DOMAIN toServer = 1 .. Len(toServer)
      /\ Head(toServer) = toServer[1]
      /\ \A k \in DOMAIN toServer' : k + 1 \in DOMAIN toServer /\ toServer'[k] = toServer[k + 1]
    BY ToldLess
<1>2. 1 \in DOMAIN toServer
    BY <1>1
<1>3. \A k \in DOMAIN toServer' : OfServer(toServer'[k])
    BY <1>1 DEF Numbers, ToServerOK
<1> QED
    BY <1>1, <1>2, <1>3 DEF Numbers, ToServerOK, OfServer

-----------------------------------------------------------------------------
(* What the editor is shown.                                               *)

LEMMA ClientGrows ==
    ASSUME Numbers, NEW d, OfClient(d), toClient' = Append(toClient, d), NEW n, n = Len(toClient) + 1
    PROVE  /\ ToClientOK' /\ n \in Nat /\ Len(toClient') = n /\ DOMAIN toClient' = 1 .. n
           /\ DOMAIN toClient = 1 .. Len(toClient) /\ Len(toClient) \in Nat
           /\ \A k \in DOMAIN toClient : toClient'[k] = toClient[k]
           /\ toClient'[n] = d
<1>1. PICK s : s = toClient
    OBVIOUS
<1>2. IsSeq(s) /\ \A k \in DOMAIN s : OfClient(s[k])
    BY <1>1 DEF Numbers, ToClientOK, IsSeq
<1>3. PICK t : t = Append(s, d)
    OBVIOUS
<1>4. /\ IsSeq(t) /\ Len(s) \in Nat /\ Len(t) = Len(s) + 1
      /\ DOMAIN s = 1 .. Len(s) /\ DOMAIN t = 1 .. (Len(s) + 1)
      /\ \A k \in 1 .. Len(s) : t[k] = s[k]
      /\ t[Len(s) + 1] = d
    BY <1>2, <1>3, Appended
<1>5. ASSUME NEW k \in DOMAIN t
      PROVE  OfClient(t[k])
    <2>1. k \in 1 .. Len(s) \/ k = Len(s) + 1
        BY <1>4
    <2>2. k \in 1 .. Len(s) => t[k] = s[k] /\ k \in DOMAIN s
        BY <1>4
    <2> QED
        BY <1>2, <1>4, <2>1, <2>2
<1>6. toClient' = t
    BY <1>1, <1>3
<1>7. ToClientOK'
    BY <1>4, <1>5, <1>6 DEF ToClientOK, IsSeq, OfClient
<1> QED
    BY <1>1, <1>4, <1>6, <1>7

\* What a message for the editor has to keep, and a new version of the document.
LEMMA Shows ==
    ASSUME Numbers, ShownInOrder, ShownOfDocument, NEW d, OfClient(d),
           toClient' = Append(toClient, d), shown' = shown,
           \/ d.kind = "edits" /\ doc'.version = doc.version
           \/ d.kind = "diagnostics" /\ d.version \in {0, doc.version} /\ doc'.version = d.version
    PROVE  ToClientOK' /\ ShownInOrder' /\ ShownOfDocument'
<1>1. PICK n : n = Len(toClient) + 1
    OBVIOUS
<1>2. /\ ToClientOK' /\ n \in Nat /\ Len(toClient') = n /\ DOMAIN toClient' = 1 .. n
      /\ DOMAIN toClient = 1 .. Len(toClient) /\ Len(toClient) \in Nat
      /\ \A k \in DOMAIN toClient : toClient'[k] = toClient[k]
      /\ toClient'[n] = d
    BY <1>1, ClientGrows
<1>3. Sent = 0 .. Len(toClient) /\ Sent' = 0 .. n
    BY <1>2 DEF Sent
<1>4. ASSUME NEW i \in Sent
      PROVE  (Diagnosed(i)' <=> Diagnosed(i)) /\ VersionShown(i)' = VersionShown(i)
    BY <1>2, <1>3 DEF Diagnosed, VersionShown
<1>5. ASSUME NEW i \in Sent', NEW k \in 0 .. n
      PROVE  DiagnosedIn(i, k)' <=> DiagnosedIn(i, k)
    BY <1>1, <1>2, <1>3 DEF DiagnosedIn
<1>6. ASSUME NEW i \in Sent
      PROVE  DiagnosedIn(i, n + 1)' <=> DiagnosedIn(i, n) \/ d.kind = "diagnostics"
    BY <1>1, <1>2, <1>3 DEF DiagnosedIn
<1>7. (Diagnosed(n)' <=> d.kind = "diagnostics") /\ VersionShown(n)' = d.version
    BY <1>1, <1>2 DEF Diagnosed, VersionShown
<1>8. \A i \in Sent : Diagnosed(i) /\ ~DiagnosedIn(i, n) => VersionShown(i) <= doc.version
    BY <1>1 DEF ShownOfDocument, Latest
<1>9. ShownInOrder'
    <2>1. ASSUME NEW k \in DOMAIN toClient', toClient'[k].kind = "diagnostics", NEW i \in Sent',
                 i < k, Diagnosed(i)', ~DiagnosedIn(i, k)'
          PROVE  VersionShown(k)' = 0 \/ VersionShown(i)' <= VersionShown(k)'
        <3>1. i \in Sent /\ k \in 0 .. n
            BY <1>1, <1>2, <1>3, <2>1
        <3>2. Diagnosed(i) /\ ~DiagnosedIn(i, k) /\ VersionShown(i)' = VersionShown(i)
            BY <1>4, <1>5, <2>1, <3>1
        <3>3. CASE k = n
            BY <1>2, <1>7, <1>8, <2>1, <3>1, <3>2, <3>3
        <3>4. CASE k # n
            <4>1. k \in DOMAIN toClient /\ k \in Sent /\ toClient[k].kind = "diagnostics"
                BY <1>1, <1>2, <1>3, <2>1, <3>4
            <4>2. VersionShown(k)' = VersionShown(k)
                BY <1>4, <4>1
            <4> QED
                BY <2>1, <3>1, <3>2, <4>1, <4>2 DEF ShownInOrder
        <3> QED
            BY <3>3, <3>4
    <2> QED
        BY <2>1 DEF ShownInOrder
<1>10. ShownOfDocument'
    <2>1. ASSUME NEW i \in Sent', Diagnosed(i)', ~DiagnosedIn(i, n + 1)'
          PROVE  VersionShown(i)' <= doc'.version
        <3>1. CASE i = n
            <4>1. d.kind = "diagnostics" /\ VersionShown(i)' = d.version
                BY <1>7, <2>1, <3>1
            <4>2. doc'.version = d.version /\ d.version \in Nat
                BY <4>1 DEF OfClient
            <4> QED
                BY <4>1, <4>2
        <3>2. CASE i # n
            <4>1. i \in Sent
                BY <1>1, <1>2, <1>3, <3>2
            <4>2. ~DiagnosedIn(i, n) /\ d.kind # "diagnostics"
                BY <1>6, <2>1, <4>1
            <4> QED
                BY <1>4, <1>8, <2>1, <4>1, <4>2
        <3> QED
            BY <3>1, <3>2
    <2>2. Len(toClient') + 1 = n + 1
        BY <1>2
    <2> QED
        BY <2>1, <2>2 DEF ShownOfDocument, Latest
<1> QED
    BY <1>2, <1>9, <1>10

\* The latest diagnostics after a message for the editor: the new ones, or those before it.
LEMMA LatestMore ==
    ASSUME Numbers, NEW d, OfClient(d), toClient' = Append(toClient, d), shown' = shown,
           NEW i \in Sent', Latest(i)'
    PROVE  \/ d.kind = "diagnostics" /\ Screen(i)' = [version |-> d.version, ranges |-> d.ranges]
                                     /\ VersionShown(i)' = d.version
           \/ /\ d.kind = "edits" /\ i \in Sent /\ Latest(i)
              /\ Screen(i)' = Screen(i) /\ VersionShown(i)' = VersionShown(i)
<1>1. PICK n : n = Len(toClient) + 1
    OBVIOUS
<1>2. /\ n \in Nat /\ Len(toClient') = n /\ DOMAIN toClient' = 1 .. n
      /\ DOMAIN toClient = 1 .. Len(toClient) /\ Len(toClient) \in Nat
      /\ \A k \in DOMAIN toClient : toClient'[k] = toClient[k]
      /\ toClient'[n] = d
    BY <1>1, ClientGrows
<1>3. Sent = 0 .. Len(toClient) /\ Sent' = 0 .. n
    BY <1>2 DEF Sent
<1>4. Diagnosed(i)' /\ ~DiagnosedIn(i, n + 1)'
    BY <1>2 DEF Latest
<1>5. CASE i = n
    <2>1. i # 0 /\ d.kind = "diagnostics"
        BY <1>1, <1>2, <1>4, <1>5 DEF Diagnosed
    <2> QED
        BY <1>2, <1>5, <2>1 DEF Screen, VersionShown
<1>6. CASE i # n
    <2>1. i \in Sent /\ i < n
        BY <1>1, <1>2, <1>3, <1>6
    <2>2. d.kind # "diagnostics"
        BY <1>2, <1>4, <2>1 DEF DiagnosedIn
    <2>3. Diagnosed(i) /\ VersionShown(i)' = VersionShown(i) /\ Screen(i)' = Screen(i)
        BY <1>2, <1>3, <1>4, <2>1 DEF Diagnosed, VersionShown, Screen
    <2>4. ~DiagnosedIn(i, n)
        BY <1>1, <1>2, <1>4 DEF DiagnosedIn
    <2>5. d.kind = "edits"
        BY <2>2 DEF OfClient
    <2> QED
        BY <1>1, <2>1, <2>3, <2>4, <2>5 DEF Latest
<1> QED
    BY <1>5, <1>6

LEMMA DueGrows ==
    ASSUME Numbers, ShownOrDue, NEW d, OfClient(d), toClient' = Append(toClient, d), shown' = shown,
           \/ d.kind = "edits" /\ doc' = doc /\ timers' = timers
           \/ d = Diagnostics(0, {}) /\ doc' = NoDoc
           \/ d.kind = "diagnostics" /\ d.version = doc.version /\ doc' = doc /\ doc # NoDoc
    PROVE  ShownOrDue'
<1>1. ASSUME NEW i \in Sent', Latest(i)'
      PROVE  IF doc' = NoDoc THEN Screen(i)' = NothingShown ELSE VersionShown(i)' = doc'.version \/ TimerDue'
    <2>1. \/ d.kind = "diagnostics" /\ Screen(i)' = [version |-> d.version, ranges |-> d.ranges]
                                    /\ VersionShown(i)' = d.version
          \/ /\ d.kind = "edits" /\ i \in Sent /\ Latest(i)
             /\ Screen(i)' = Screen(i) /\ VersionShown(i)' = VersionShown(i)
        BY <1>1, LatestMore
    <2>2. CASE d.kind = "edits" /\ doc' = doc /\ timers' = timers
        BY <2>1, <2>2 DEF ShownOrDue, TimerDue
    <2>3. CASE d = Diagnostics(0, {}) /\ doc' = NoDoc
        BY <2>1, <2>3 DEF Diagnostics, NothingShown
    <2>4. CASE d.kind = "diagnostics" /\ d.version = doc.version /\ doc' = doc /\ doc # NoDoc
        BY <2>1, <2>4
    <2> QED
        BY <2>2, <2>3, <2>4
<1> QED
    BY <1>1 DEF ShownOrDue

LEMMA DueStays ==
    ASSUME ShownOrDue, UNCHANGED <<shown, toClient>>,
           \/ doc' = doc /\ (doc # NoDoc /\ TimerDue => TimerDue')
           \/ doc' # NoDoc /\ TimerDue'
    PROVE  ShownOrDue'
<1>1. Sent' = Sent
    BY DEF Sent
<1>2. ASSUME NEW i \in Sent, Latest(i)'
      PROVE  Latest(i) /\ Screen(i)' = Screen(i) /\ VersionShown(i)' = VersionShown(i)
    BY <1>2 DEF Latest, Diagnosed, DiagnosedIn, Screen, VersionShown
<1>3. ASSUME NEW i \in Sent, Latest(i)'
      PROVE  IF doc' = NoDoc THEN Screen(i)' = NothingShown ELSE VersionShown(i)' = doc'.version \/ TimerDue'
    BY <1>2, <1>3 DEF ShownOrDue
<1> QED
    BY <1>1, <1>3 DEF ShownOrDue

\* A document that gets a later version contradicts nothing that was sent.
LEMMA Rises ==
    ASSUME Numbers, ShownInOrder, ShownOfDocument, toClient' = toClient, shown' = shown,
           doc'.version \in Nat, doc.version <= doc'.version
    PROVE  ShownInOrder' /\ ShownOfDocument'
<1>1. /\ Sent' = Sent
      /\ \A i \in Sent : /\ Diagnosed(i)' <=> Diagnosed(i)
                         /\ VersionShown(i)' = VersionShown(i)
                         /\ \A k : DiagnosedIn(i, k)' <=> DiagnosedIn(i, k)
    BY DEF Sent, Diagnosed, VersionShown, DiagnosedIn
<1>2. ShownInOrder'
    BY DEF ShownInOrder, Sent, Diagnosed, VersionShown, DiagnosedIn
<1>3. ASSUME NEW i \in Sent, Diagnosed(i)
      PROVE  VersionShown(i) \in Nat
    <2>1. i = 0 \/ i \in DOMAIN toClient
        BY <1>3, Appended DEF Sent, Numbers, ToClientOK
    <2> QED
        BY <1>3, <2>1 DEF Diagnosed, VersionShown, Numbers, ToClientOK, OfClient
<1>4. doc.version \in Nat
    BY DEF Numbers, ServerOK
<1>5. ASSUME NEW i \in Sent', Diagnosed(i)', ~DiagnosedIn(i, Len(toClient) + 1)'
      PROVE  VersionShown(i)' <= doc'.version
    <2>1. VersionShown(i) <= doc.version
        BY <1>1, <1>5 DEF ShownOfDocument, Latest
    <2> QED
        BY <1>1, <1>3, <1>4, <1>5, <2>1
<1>6. ShownOfDocument'
    BY <1>5 DEF ShownOfDocument, Latest
<1> QED
    BY <1>2, <1>6

\* A place after the editor has read a message was one before.
LEMMA ShownLess ==
    ASSUME Numbers, toClient # <<>>, toClient' = Tail(toClient),
           \/ /\ Head(toClient).kind = "diagnostics"
              /\ shown' = [version |-> Head(toClient).version, ranges |-> Head(toClient).ranges]
           \/ Head(toClient).kind = "edits" /\ shown' = shown
    PROVE  /\ Len(toClient) \in Nat \ {0} /\ Len(toClient') = Len(toClient) - 1
           /\ \A k \in DOMAIN toClient' : k \in Nat \ {0} /\ k + 1 \in DOMAIN toClient
                                        /\ toClient'[k] = toClient[k + 1]
           /\ 1 \in DOMAIN toClient /\ Sent = 0 .. Len(toClient) /\ Sent' = 0 .. (Len(toClient) - 1)
           /\ Head(toClient) = toClient[1]
           /\ ToClientOK'
           /\ \A k \in Nat \ {0}, i \in Sent' : i < k /\ Diagnosed(i)' /\ ~DiagnosedIn(i, k)' =>
                 \E p \in Sent : /\ p < k + 1 /\ Diagnosed(p) /\ ~DiagnosedIn(p, k + 1)
                                /\ VersionShown(i)' = VersionShown(p) /\ Screen(i)' = Screen(p)
<1>1. /\ Len(toClient) \in Nat \ {0} /\ Len(toClient') = Len(toClient) - 1
      /\ DOMAIN toClient = 1 .. Len(toClient) /\ DOMAIN toClient' = 1 .. (Len(toClient) - 1)
      /\ Head(toClient) = toClient[1]
      /\ \A k \in 1 .. (Len(toClient) - 1) : toClient'[k] = toClient[k + 1]
      /\ IsSeq(toClient)'
    <2>1. PICK s : s = toClient
        OBVIOUS
    <2>2. PICK t : t = Tail(s)
        OBVIOUS
    <2>3. IsSeq(s) /\ s # <<>>
        BY <2>1 DEF Numbers, ToClientOK, IsSeq
    <2>4. /\ IsSeq(t) /\ Len(s) \in Nat \ {0} /\ Len(t) = Len(s) - 1
          /\ DOMAIN s = 1 .. Len(s) /\ DOMAIN t = 1 .. (Len(s) - 1)
          /\ \A k \in 1 .. (Len(s) - 1) : t[k] = s[k + 1]
          /\ Head(s) = s[1]
        BY <2>2, <2>3, Dropped
    <2>5. toClient' = t
        BY <2>1, <2>2
    <2>6. IsSeq(toClient)'
        BY <2>4, <2>5 DEF IsSeq
    <2> QED
        BY <2>1, <2>4, <2>5, <2>6
<1>2. \A k \in DOMAIN toClient' : k \in Nat \ {0} /\ k + 1 \in DOMAIN toClient /\ toClient'[k] = toClient[k + 1]
    BY <1>1
<1>3. 1 \in DOMAIN toClient /\ Sent = 0 .. Len(toClient) /\ Sent' = 0 .. (Len(toClient) - 1)
    BY <1>1 DEF Sent
<1>4. ToClientOK'
    BY <1>1, <1>2 DEF Numbers, ToClientOK, OfClient
<1>5. ASSUME NEW j \in Nat, NEW k \in Nat
      PROVE  DiagnosedIn(j, k)' <=> DiagnosedIn(j + 1, k + 1)
    <2>1. ASSUME NEW c \in DOMAIN toClient', j < c, c < k, toClient'[c].kind = "diagnostics"
          PROVE  DiagnosedIn(j + 1, k + 1)
        <3>1. c + 1 \in DOMAIN toClient /\ j + 1 < c + 1 /\ c + 1 < k + 1 /\ toClient[c + 1].kind = "diagnostics"
            BY <1>2, <1>5, <2>1
        <3> QED
            BY <3>1 DEF DiagnosedIn
    <2>2. ASSUME NEW c \in DOMAIN toClient, j + 1 < c, c < k + 1, toClient[c].kind = "diagnostics"
          PROVE  DiagnosedIn(j, k)'
        <3>1. c - 1 \in DOMAIN toClient' /\ j < c - 1 /\ c - 1 < k /\ (c - 1) + 1 = c
            BY <1>1, <1>5, <2>2
        <3>2. toClient'[c - 1].kind = "diagnostics"
            BY <1>2, <2>2, <3>1
        <3> QED
            BY <3>1, <3>2 DEF DiagnosedIn
    <2> QED
        BY <2>1, <2>2 DEF DiagnosedIn
\* A place after the step was one before.
<1>6. ASSUME NEW k \in Nat \ {0}, NEW i \in Sent', i < k, Diagnosed(i)', ~DiagnosedIn(i, k)'
      PROVE  \E p \in Sent : /\ p < k + 1 /\ Diagnosed(p) /\ ~DiagnosedIn(p, k + 1)
                             /\ VersionShown(i)' = VersionShown(p) /\ Screen(i)' = Screen(p)
    <2>1. CASE i = 0
        <3>1. ~DiagnosedIn(1, k + 1)
            <4>1. 0 + 1 = 1 /\ 0 \in Nat /\ k \in Nat
                OBVIOUS
            <4> QED
                BY <1>5, <1>6, <2>1, <4>1
        <3>2. CASE /\ Head(toClient).kind = "diagnostics"
                   /\ shown' = [version |-> Head(toClient).version, ranges |-> Head(toClient).ranges]
            <4>1. Diagnosed(1) /\ VersionShown(0)' = VersionShown(1) /\ Screen(0)' = Screen(1)
                BY <1>1, <3>2 DEF Diagnosed, VersionShown, Screen
            <4>2. 1 \in Sent /\ 1 < k + 1
                BY <1>1, <1>3
            <4> QED
                BY <2>1, <3>1, <4>1, <4>2
        <3>3. CASE Head(toClient).kind = "edits" /\ shown' = shown
            <4>1. Diagnosed(0) /\ VersionShown(0)' = VersionShown(0) /\ Screen(0)' = Screen(0)
                BY <3>3 DEF Diagnosed, VersionShown, Screen
            <4>2. 0 \in Sent /\ 0 < k + 1
                BY <1>1, <1>3
            <4>3. ~DiagnosedIn(0, k + 1)
                BY <1>1, <3>1, <3>3 DEF DiagnosedIn
            <4> QED
                BY <2>1, <4>1, <4>2, <4>3
        <3> QED
            BY <3>2, <3>3
    <2>2. CASE i # 0
        <3>1. i \in Nat /\ i \in DOMAIN toClient' /\ i + 1 \in Sent /\ i + 1 # 0 /\ i + 1 < k + 1
            BY <1>1, <1>3, <1>6, <2>2
        <3>2. Diagnosed(i + 1) /\ VersionShown(i)' = VersionShown(i + 1) /\ Screen(i)' = Screen(i + 1)
            BY <1>2, <1>6, <2>2, <3>1 DEF Diagnosed, VersionShown, Screen
        <3>3. ~DiagnosedIn(i + 1, k + 1)
            BY <1>5, <1>6, <3>1
        <3> QED
            BY <3>1, <3>2, <3>3
    <2> QED
        BY <2>1, <2>2
<1> QED
    BY <1>1, <1>2, <1>3, <1>4, <1>6

\* The editor shows the diagnostics that come, and reads the edits.
LEMMA ShowsLess ==
    ASSUME Numbers, ShownInOrder, ShownOfDocument, toClient # <<>>, toClient' = Tail(toClient), doc' = doc,
           \/ /\ Head(toClient).kind = "diagnostics"
              /\ shown' = [version |-> Head(toClient).version, ranges |-> Head(toClient).ranges]
           \/ Head(toClient).kind = "edits" /\ shown' = shown
    PROVE  /\ ToClientOK' /\ shown'.version \in Nat /\ ShownInOrder' /\ ShownOfDocument'
           /\ shown' = shown \/ shown'.version = 0 \/ shown'.version >= shown.version
<1>1. /\ Len(toClient) \in Nat \ {0} /\ Len(toClient') = Len(toClient) - 1
      /\ \A k \in DOMAIN toClient' : k \in Nat \ {0} /\ k + 1 \in DOMAIN toClient
                                   /\ toClient'[k] = toClient[k + 1]
      /\ 1 \in DOMAIN toClient /\ Sent = 0 .. Len(toClient) /\ Sent' = 0 .. (Len(toClient) - 1)
      /\ Head(toClient) = toClient[1]
      /\ ToClientOK'
      /\ \A k \in Nat \ {0}, i \in Sent' : i < k /\ Diagnosed(i)' /\ ~DiagnosedIn(i, k)' =>
            \E p \in Sent : /\ p < k + 1 /\ Diagnosed(p) /\ ~DiagnosedIn(p, k + 1)
                           /\ VersionShown(i)' = VersionShown(p) /\ Screen(i)' = Screen(p)
    BY ShownLess
<1>2. shown'.version \in Nat
    BY <1>1 DEF Numbers, ToClientOK, OfClient
<1>3. ShownInOrder'
    <2>1. ASSUME NEW k \in DOMAIN toClient', toClient'[k].kind = "diagnostics", NEW i \in Sent',
                 i < k, Diagnosed(i)', ~DiagnosedIn(i, k)'
          PROVE  VersionShown(k)' = 0 \/ VersionShown(i)' <= VersionShown(k)'
        <3>1. /\ k \in Nat \ {0} /\ k + 1 \in DOMAIN toClient /\ toClient[k + 1].kind = "diagnostics"
              /\ k + 1 # 0 /\ toClient'[k] = toClient[k + 1]
            BY <1>1, <2>1
        <3>2. VersionShown(k)' = VersionShown(k + 1)
            BY <3>1 DEF VersionShown
        <3>3. PICK p \in Sent : /\ p < k + 1 /\ Diagnosed(p) /\ VersionShown(i)' = VersionShown(p)
                                /\ ~DiagnosedIn(p, k + 1)
            BY <1>1, <2>1, <3>1
        <3> QED
            BY <3>1, <3>2, <3>3 DEF ShownInOrder
    <2> QED
        BY <2>1 DEF ShownInOrder
<1>4. ShownOfDocument'
    <2>1. PICK k : k = Len(toClient)
        OBVIOUS
    <2>2. k \in Nat \ {0} /\ Len(toClient') + 1 = k
        BY <1>1, <2>1
    <2>3. ASSUME NEW i \in Sent', Diagnosed(i)', ~DiagnosedIn(i, k)'
          PROVE  VersionShown(i)' <= doc'.version
        <3>1. i < k
            BY <1>1, <2>1
        <3>2. PICK p \in Sent : /\ Diagnosed(p) /\ VersionShown(i)' = VersionShown(p)
                                /\ ~DiagnosedIn(p, k + 1)
            BY <1>1, <2>2, <2>3, <3>1
        <3> QED
            BY <2>1, <3>2 DEF ShownOfDocument, Latest
    <2> QED
        BY <2>2, <2>3 DEF ShownOfDocument, Latest
<1>5. shown' = shown \/ shown'.version = 0 \/ shown'.version >= shown.version
    <2>1. SUFFICES ASSUME toClient[1].kind = "diagnostics", shown'.version = toClient[1].version
                   PROVE  shown'.version = 0 \/ shown'.version >= shown.version
        BY <1>1
    <2>2. VersionShown(1) = shown'.version /\ VersionShown(0) = shown.version /\ Diagnosed(0)
        BY <2>1 DEF VersionShown, Diagnosed
    <2>3. 0 \in Sent /\ 0 < 1 /\ ~DiagnosedIn(0, 1)
        BY <1>1 DEF DiagnosedIn
    <2>4. VersionShown(1) = 0 \/ VersionShown(0) <= VersionShown(1)
        BY <1>1, <2>1, <2>2, <2>3 DEF ShownInOrder
    <2>5. shown.version \in Nat
        BY DEF Numbers
    <2> QED
        BY <1>2, <2>2, <2>4, <2>5
<1> QED
    BY <1>1, <1>2, <1>3, <1>4, <1>5

LEMMA DueShrinks ==
    ASSUME Numbers, ShownOrDue, toClient # <<>>, toClient' = Tail(toClient), doc' = doc, timers' = timers,
           \/ /\ Head(toClient).kind = "diagnostics"
              /\ shown' = [version |-> Head(toClient).version, ranges |-> Head(toClient).ranges]
           \/ Head(toClient).kind = "edits" /\ shown' = shown
    PROVE  ShownOrDue'
<1>1. /\ Len(toClient) \in Nat \ {0} /\ Len(toClient') = Len(toClient) - 1
      /\ Sent' = 0 .. (Len(toClient) - 1)
      /\ \A k \in Nat \ {0}, i \in Sent' : i < k /\ Diagnosed(i)' /\ ~DiagnosedIn(i, k)' =>
            \E p \in Sent : /\ p < k + 1 /\ Diagnosed(p) /\ ~DiagnosedIn(p, k + 1)
                           /\ VersionShown(i)' = VersionShown(p) /\ Screen(i)' = Screen(p)
    BY ShownLess
<1>2. PICK k : k = Len(toClient)
    OBVIOUS
<1>3. k \in Nat \ {0} /\ Len(toClient') + 1 = k
    BY <1>1, <1>2
<1>4. ASSUME NEW i \in Sent', Latest(i)'
      PROVE  IF doc' = NoDoc THEN Screen(i)' = NothingShown ELSE VersionShown(i)' = doc'.version \/ TimerDue'
    <2>1. i < k /\ Diagnosed(i)' /\ ~DiagnosedIn(i, k)'
        BY <1>1, <1>2, <1>3, <1>4 DEF Latest
    <2>2. PICK p \in Sent : /\ Diagnosed(p) /\ ~DiagnosedIn(p, k + 1)
                            /\ VersionShown(i)' = VersionShown(p) /\ Screen(i)' = Screen(p)
        BY <1>1, <1>3, <2>1
    <2>3. Latest(p)
        BY <1>2, <2>2 DEF Latest
    <2> QED
        BY <2>2, <2>3 DEF ShownOrDue, TimerDue
<1> QED
    BY <1>4 DEF ShownOrDue

-----------------------------------------------------------------------------
(* The server's steps.                                                     *)

\* A version the server reads is the version of its document, and no earlier one.
LEMMA NextVersion ==
    ASSUME Numbers, ToldInOrder, toServer # <<>>, toServer' = Tail(toServer)
    PROVE  /\ Head(toServer).kind = "open" => doc = NoDoc
           /\ Head(toServer).kind = "change" => doc # NoDoc /\ doc.version <= Head(toServer).version
<1>1. 1 \in DOMAIN toServer /\ Head(toServer) = toServer[1] /\ DOMAIN toServer = 1 .. Len(toServer)
      /\ Len(toServer) \in Nat
    BY ServerShrinks, ToldLess, ServerFacts
<1>2. /\ toServer[1].kind = "open" => \A j \in Places : j < 1 /\ Told(j) => ClosedIn(j, 1)
      /\ toServer[1].kind = "change" =>
            /\ \A j \in Places : j < 1 /\ Told(j) /\ ~ClosedIn(j, 1) => VersionTold(j) <= VersionTold(1)
            /\ \E j \in Places : j < 1 /\ Told(j) /\ ~ClosedIn(j, 1)
    BY <1>1 DEF ToldInOrder
<1>3. 0 \in Places /\ 0 < 1 /\ ~ClosedIn(0, 1) /\ \A j \in Places : j < 1 => j = 0
    BY <1>1 DEF Places, ClosedIn
<1>4. (Told(0) <=> doc # NoDoc) /\ VersionTold(0) = doc.version /\ VersionTold(1) = toServer[1].version
    BY DEF Told, VersionTold
<1> QED
    BY <1>1, <1>2, <1>3, <1>4

\* A document that was just read has the version of its message.
LEMMA Reparsed ==
    ASSUME TimersOK, NEW x, NEW y, NEW r, "version" \in DOMAIN x, "id" \in DOMAIN x,
           x.version \in Nat \ {0}, doc' = [x EXCEPT !.file = y],
           timers' = {t \in timers : t.id # x.id \/ t.stage # "armed"} \cup {r},
           "id" \in DOMAIN r, "version" \in DOMAIN r, r.id = x.id, r.version = x.version
    PROVE  ServerOK' /\ TimersOK' /\ doc' # NoDoc /\ doc'.version = x.version /\ TimerDue'
<1>1. "version" \in DOMAIN doc' /\ doc'.version = x.version /\ "id" \in DOMAIN doc' /\ doc'.id = x.id
    OBVIOUS
<1>2. doc' # NoDoc
    BY <1>1 DEF NoDoc
<1>3. TimersOK' /\ TimerDue'
    BY <1>1 DEF TimersOK, TimerDue
<1> QED
    BY <1>1, <1>2, <1>3 DEF ServerOK

LEMMA OpenServed ==
    ASSUME VInv, toServer # <<>>, toServer' = Tail(toServer), DidOpen(Head(toServer))
    PROVE  /\ ServerOK' /\ Served(Head(toServer)) /\ doc.version <= doc'.version /\ toClient' = toClient
           /\ TimersOK' /\ TimerDue' /\ doc' # NoDoc
<1>1. PICK m : m = Head(toServer)
    OBVIOUS
<1>2. m.kind = "open" /\ m.version \in Nat \ {0} /\ doc = NoDoc
    <2>1. m.kind = "open"
        BY <1>1, Zenon DEF DidOpen
    <2> QED
        BY <1>1, <2>1, ServerShrinks, NextVersion DEF VInv, OfServer
<1>3. PICK x : x = [id |-> m.id, version |-> m.version, text |-> m.text, file |-> <<>>]
    OBVIOUS
<1>4. PICK r : r = [id |-> x.id, version |-> x.version, text |-> x.text, stage |-> "armed"]
    OBVIOUS
<1>5. /\ ServerOK' /\ doc' # NoDoc /\ doc'.version = m.version
      /\ TimersOK' /\ TimerDue'
    <2>1. Reparse(x)
        BY <1>1, <1>3, Zenon DEF DidOpen
    <2>2. PICK y : y = x.text
        OBVIOUS
    <2>3. /\ doc' = [x EXCEPT !.file = y]
          /\ timers' = {t \in timers : t.id # x.id \/ t.stage # "armed"} \cup {r}
        BY <1>4, <2>1, <2>2 DEF Reparse
    <2>4. "version" \in DOMAIN x /\ "id" \in DOMAIN x /\ x.version = m.version
        BY <1>3
    <2>5. "id" \in DOMAIN r /\ "version" \in DOMAIN r /\ r.id = x.id /\ r.version = x.version
        BY <1>4
    <2> QED
        BY <1>2, <2>3, <2>4, <2>5, Reparsed DEF VInv, Numbers
<1>6. doc.version <= doc'.version
    BY <1>2, <1>5 DEF NoDoc
<1> QED
    BY <1>1, <1>2, <1>5, <1>6 DEF Served, DidOpen

LEMMA ChangeServed ==
    ASSUME VInv, toServer # <<>>, toServer' = Tail(toServer), doc # NoDoc, DidChange(Head(toServer))
    PROVE  /\ ServerOK' /\ Served(Head(toServer)) /\ doc.version <= doc'.version /\ toClient' = toClient
           /\ TimersOK' /\ TimerDue' /\ doc' # NoDoc
<1>1. PICK m : m = Head(toServer)
    OBVIOUS
<1>2. m.kind = "change" /\ m.version \in Nat \ {0} /\ doc.version <= m.version
    <2>1. m.kind = "change"
        BY <1>1, Zenon DEF DidChange
    <2> QED
        BY <1>1, <2>1, ServerShrinks, NextVersion DEF VInv, OfServer
<1>3. PICK x : x = [doc EXCEPT !.version = m.version, !.text = FoldLeft(Changed, doc.text, m.changes)]
    BY Zenon
<1>4. PICK r : r = [id |-> x.id, version |-> x.version, text |-> x.text, stage |-> "armed"]
    OBVIOUS
<1>5. "version" \in DOMAIN x /\ "id" \in DOMAIN x /\ x.version = m.version
    <2>1. \E text : x = [doc EXCEPT !.version = m.version, !.text = text]
        BY <1>3, Zenon
    <2> QED
        BY <2>1 DEF VInv, Numbers, ServerOK
<1>6. /\ ServerOK' /\ doc' # NoDoc /\ doc'.version = m.version
      /\ TimersOK' /\ TimerDue'
    <2>1. Reparse(x)
        BY <1>1, <1>3, Zenon DEF DidChange
    <2>2. PICK y : y = x.text
        OBVIOUS
    <2>3. /\ doc' = [x EXCEPT !.file = y]
          /\ timers' = {t \in timers : t.id # x.id \/ t.stage # "armed"} \cup {r}
        BY <1>4, <2>1, <2>2 DEF Reparse
    <2>4. "id" \in DOMAIN r /\ "version" \in DOMAIN r /\ r.id = x.id /\ r.version = x.version
        BY <1>4
    <2> QED
        BY <1>2, <1>5, <2>3, <2>4, Reparsed DEF VInv, Numbers
<1> QED
    BY <1>1, <1>2, <1>6, Zenon DEF Served, DidChange

LEMMA ServeV == VInv /\ Serve => VInv' /\ UNCHANGED shown
<1> SUFFICES ASSUME VInv, Serve
             PROVE  VInv' /\ UNCHANGED shown
    OBVIOUS
<1> USE DEF VInv
<1>1. /\ toServer # <<>> /\ toServer' = Tail(toServer)
      /\ editor' = editor /\ shown' = shown /\ asked' = asked
    BY DEF Serve, editorVars
<1>2. PICK m : m = Head(toServer)
    OBVIOUS
<1>3. ToServerOK' /\ OfServer(m)
    BY <1>1, <1>2, ServerShrinks
<1>4. EditorOK' /\ shown'.version \in Nat
    BY <1>1 DEF Numbers, EditorOK, IsOpen
<1>5. CASE DidOpen(m) \/ (doc # NoDoc /\ DidChange(m))
    <2>1. /\ ServerOK' /\ Served(m) /\ doc.version <= doc'.version /\ toClient' = toClient
          /\ TimersOK' /\ TimerDue' /\ doc' # NoDoc
        BY <1>1, <1>2, <1>5, OpenServed, ChangeServed
    <2>2. ToldInOrder' /\ ToldOfEditor'
        BY <1>1, <1>2, <2>1, ServedTold
    <2>3. ShownInOrder' /\ ShownOfDocument'
        BY <1>1, <2>1, Rises DEF ServerOK
    <2>4. ToClientOK'
        BY <2>1 DEF Numbers, ToClientOK, IsSeq, OfClient
    <2>5. ShownOrDue'
        BY <1>1, <2>1, DueStays
    <2> QED
        BY <1>1, <1>3, <1>4, <2>1, <2>2, <2>3, <2>4, <2>5 DEF Numbers
<1>6. CASE UnknownDocument(m)
    <2>1. doc = NoDoc /\ doc' = doc /\ m.kind \in {"close", "rename"}
        BY <1>1, <1>2, <1>6, NextVersion DEF UnknownDocument
    <2>2. Served(m)
        BY <2>1 DEF Served
    <2>3. ToldInOrder' /\ ToldOfEditor'
        BY <1>1, <1>2, <2>2, ServedTold
    <2>4. CASE m.kind = "rename"
        <3>1. PICK d : d = [kind |-> "edits", to |-> m.from, version |-> 0, ranges |-> {}]
            OBVIOUS
        <3>2. OfClient(d) /\ d.kind = "edits" /\ toClient' = Append(toClient, d)
            BY <1>6, <2>4, <3>1 DEF UnknownDocument, OfClient
        <3>3. ToClientOK' /\ ShownInOrder' /\ ShownOfDocument'
            BY <1>1, <2>1, <3>2, Shows
        <3>4. ServerOK' /\ TimersOK' /\ timers' = timers
            BY <1>6, <2>1 DEF Numbers, ServerOK, TimersOK, UnknownDocument
        <3>5. ShownOrDue'
            BY <1>1, <2>1, <3>2, <3>4, DueGrows
        <3> QED
            BY <1>1, <1>3, <1>4, <2>3, <3>3, <3>4, <3>5 DEF Numbers
    <2>5. CASE m.kind # "rename"
        <3>1. toClient' = toClient
            BY <1>6, <2>5 DEF UnknownDocument
        <3>2. doc'.version \in Nat /\ doc.version <= doc'.version
            BY <2>1 DEF Numbers, ServerOK
        <3>3. ShownInOrder' /\ ShownOfDocument'
            BY <1>1, <3>1, <3>2, Rises
        <3>4. ToClientOK' /\ ServerOK'
            BY <2>1, <3>1 DEF Numbers, ServerOK, ToClientOK, IsSeq, OfClient
        <3>5. ShownOrDue'
            BY <1>1, <2>1, <3>1, DueStays
        <3>6. TimersOK'
            BY <1>6 DEF UnknownDocument, Numbers, TimersOK
        <3> QED
            BY <1>1, <1>3, <1>4, <2>3, <3>3, <3>4, <3>5, <3>6 DEF Numbers
    <2> QED
        BY <2>4, <2>5
<1>7. CASE DidClose(m)
    <2>1. doc' = NoDoc /\ m.kind = "close"
        BY <1>7 DEF DidClose
    <2>2. Served(m) /\ ServerOK'
        BY <2>1 DEF Served, ServerOK, NoDoc
    <2>3. ToldInOrder' /\ ToldOfEditor'
        BY <1>1, <1>2, <2>2, ServedTold
    <2>4. PICK d : d = Diagnostics(0, {})
        OBVIOUS
    <2>5. OfClient(d) /\ d.kind = "diagnostics" /\ d.version = 0 /\ toClient' = Append(toClient, d)
        BY <1>7, <2>4 DEF DidClose, Diagnostics, OfClient
    <2>6. doc'.version = 0
        BY <2>1 DEF NoDoc
    <2>7. ToClientOK' /\ ShownInOrder' /\ ShownOfDocument'
        BY <1>1, <2>5, <2>6, Shows
    <2>8. ShownOrDue'
        BY <1>1, <2>1, <2>4, <2>5, DueGrows
    <2>9. TimersOK'
        BY <1>7 DEF DidClose, Numbers, TimersOK
    <2> QED
        BY <1>1, <1>3, <1>4, <2>2, <2>3, <2>7, <2>8, <2>9 DEF Numbers
<1>8. CASE Rename(m)
    <2>1. doc' = doc /\ m.kind = "rename"
        BY <1>8 DEF Rename
    <2>2. Served(m) /\ ServerOK'
        BY <2>1 DEF Served, ServerOK, Numbers
    <2>3. ToldInOrder' /\ ToldOfEditor'
        BY <1>1, <1>2, <2>2, ServedTold
    <2>4. PICK d : d = RenameEdits(m)
        OBVIOUS
    <2>5. d.kind = "edits" /\ toClient' = Append(toClient, d)
        <3>1. \E r : d = [kind |-> "edits", to |-> m.from, version |-> doc.version, ranges |-> r]
            BY <2>4, Zenon DEF RenameEdits
        <3> QED
            BY <1>8, <2>4, <3>1 DEF Rename
    <2>6. OfClient(d)
        BY <2>5 DEF OfClient
    <2>7. ToClientOK' /\ ShownInOrder' /\ ShownOfDocument'
        BY <1>1, <2>1, <2>5, <2>6, Shows
    <2>8. timers' = timers /\ TimersOK'
        BY <1>8 DEF Rename, Numbers, TimersOK
    <2>9. ShownOrDue'
        BY <1>1, <2>1, <2>5, <2>6, <2>8, DueGrows
    <2> QED
        BY <1>1, <1>3, <1>4, <2>2, <2>3, <2>7, <2>8, <2>9 DEF Numbers
<1> QED
    BY <1>1, <1>2, <1>5, <1>6, <1>7, <1>8, Zenon DEF Serve

LEMMA Unmoved ==
    ASSUME VInv, UNCHANGED <<editor, shown, asked, toServer, toClient, doc>>,
           TimersOK', doc # NoDoc /\ TimerDue => TimerDue'
    PROVE  VInv'
<1>1. Numbers'
    BY DEF VInv, Numbers, ToServerOK, ToClientOK, EditorOK, ServerOK, IsSeq, OfServer, OfClient, IsOpen
<1>2. ToldInOrder'
    BY DEF VInv, ToldInOrder, Places, Told, VersionTold, ClosedIn
<1>3. ToldOfEditor'
    BY DEF VInv, ToldOfEditor, Beyond, IsOpen, Places, Told, VersionTold, ClosedIn
<1>4. ShownInOrder'
    BY DEF VInv, ShownInOrder, Sent, Diagnosed, VersionShown, DiagnosedIn
<1>5. ShownOfDocument'
    BY DEF VInv, ShownOfDocument, Latest, Sent, Diagnosed, VersionShown, DiagnosedIn
<1>6. ShownOrDue'
    BY DueStays DEF VInv
<1> QED
    BY <1>1, <1>2, <1>3, <1>4, <1>5, <1>6 DEF VInv

\* What the server's side keeps when it does not move.
LEMMA ToldAsBefore ==
    ASSUME Numbers, ToldInOrder, ToldOfEditor, UNCHANGED <<editor, toServer, doc>>
    PROVE  ToServerOK' /\ ServerOK' /\ ToldInOrder' /\ ToldOfEditor'
<1>1. ToServerOK' /\ ServerOK'
    BY DEF Numbers, ToServerOK, ServerOK, IsSeq, OfServer
<1>2. ToldInOrder'
    BY DEF ToldInOrder, Places, Told, VersionTold, ClosedIn
<1>3. ToldOfEditor'
    BY DEF ToldOfEditor, Beyond, IsOpen, Places, Told, VersionTold, ClosedIn
<1> QED
    BY <1>1, <1>2, <1>3

LEMMA ShownAsBefore ==
    ASSUME Numbers, ShownInOrder, ShownOfDocument, UNCHANGED <<shown, toClient, doc>>
    PROVE  ToClientOK' /\ ServerOK' /\ shown'.version \in Nat /\ ShownInOrder' /\ ShownOfDocument'
<1>1. ToClientOK' /\ ServerOK' /\ shown'.version \in Nat
    BY DEF Numbers, ToClientOK, ServerOK, IsSeq, OfClient
<1>2. ShownInOrder'
    BY DEF ShownInOrder, Sent, Diagnosed, VersionShown, DiagnosedIn
<1>3. ShownOfDocument'
    BY DEF ShownOfDocument, Latest, Sent, Diagnosed, VersionShown, DiagnosedIn
<1> QED
    BY <1>1, <1>2, <1>3

LEMMA PublishV == ASSUME NEW t
                  PROVE  VInv /\ Publish(t) => VInv' /\ UNCHANGED shown
<1> SUFFICES ASSUME VInv, Publish(t)
             PROVE  VInv' /\ UNCHANGED shown
    OBVIOUS
<1> USE DEF VInv
<1>1. editor' = editor /\ shown' = shown /\ asked' = asked /\ toServer' = toServer /\ doc' = doc
    BY Zenon DEF Publish, editorVars
<1>4. timers' = timers \ {t} /\ TimersOK'
    BY Zenon DEF Publish, Numbers, TimersOK
<1>2. CASE StillCurrent(t)
    <2>1. \E ranges : toClient' = Append(toClient, Diagnostics(t.version, ranges))
        BY <1>2, Zenon DEF Publish
    <2>2. PICK ranges : toClient' = Append(toClient, Diagnostics(t.version, ranges))
        BY <2>1
    <2>3. PICK d : d = Diagnostics(t.version, ranges)
        OBVIOUS
    <2>4. d.kind = "diagnostics" /\ d.version = doc.version
        BY <1>2, <2>3 DEF StillCurrent, Diagnostics
    <2>5. OfClient(d) /\ toClient' = Append(toClient, d)
        BY <2>2, <2>3, <2>4 DEF OfClient, Numbers, ServerOK
    <2>6. ToClientOK' /\ ShownInOrder' /\ ShownOfDocument'
        BY <1>1, <2>4, <2>5, Shows
    <2>7. EditorOK' /\ shown'.version \in Nat
        BY <1>1 DEF Numbers, EditorOK, IsOpen
    <2>8. ShownOrDue'
        BY <1>1, <1>2, <2>4, <2>5, DueGrows DEF StillCurrent
    <2> QED
        BY <1>1, <1>4, <2>6, <2>7, <2>8, ToldAsBefore DEF Numbers
<1>3. CASE ~StillCurrent(t)
    <2>1. toClient' = toClient
        BY <1>3, Zenon DEF Publish
    <2>2. doc # NoDoc /\ TimerDue => TimerDue'
        BY <1>1, <1>3, <1>4 DEF StillCurrent, TimerDue
    <2> QED
        BY <1>1, <1>4, <2>1, <2>2, Unmoved
<1> QED
    BY <1>2, <1>3

-----------------------------------------------------------------------------
(* The editor's steps.                                                     *)

\* A message with which the editor keeps what it told the server.
LEMMA EditorTells ==
    ASSUME VInv, NEW m, toServer' = Append(toServer, m), UNCHANGED <<shown, toClient, doc, timers>>,
           EditorOK', m.kind \in {"open", "change"} => m.version = editor'.version,
           \/ m.kind = "open" /\ ~IsOpen /\ editor'.version > 0
           \/ m.kind = "change" /\ IsOpen /\ editor'.version > editor.version
           \/ m.kind = "close" /\ editor'.version = 0
           \/ m.kind = "rename" /\ editor'.version = editor.version
    PROVE  VInv'
<1>1. editor'.version \in Nat /\ editor.version \in Nat
    BY DEF VInv, Numbers, EditorOK
<1>2. OfServer(m)
    BY <1>1 DEF OfServer
<1>3. ToServerOK'
    BY <1>2, ServerGrows DEF VInv
<1>4. ToldInOrder' /\ ToldOfEditor'
    BY <1>1, Tells DEF VInv
<1>5. ToClientOK' /\ ServerOK' /\ shown'.version \in Nat /\ ShownInOrder' /\ ShownOfDocument'
    BY ShownAsBefore DEF VInv
<1>6. ShownOrDue' /\ TimersOK'
    <2>1. TimerDue => TimerDue'
        BY DEF TimerDue
    <2> QED
        BY <2>1, DueStays DEF VInv, Numbers, TimersOK
<1> QED
    BY <1>3, <1>4, <1>5, <1>6 DEF VInv, Numbers

LEMMA OpenV == ASSUME NEW text
               PROVE  VInv /\ Open(text) => VInv' /\ UNCHANGED shown
<1> SUFFICES ASSUME VInv, Open(text)
             PROVE  VInv' /\ UNCHANGED shown
    OBVIOUS
<1>1. /\ ~IsOpen /\ editor' = [editor EXCEPT !.opens = @ + 1, !.version = 1, !.text = text]
      /\ toServer' = Append(toServer, OpenMessage(editor')) /\ UNCHANGED <<shown, asked, toClient, doc, timers>>
    BY DEF Open
<1>2. "version" \in DOMAIN editor' /\ editor'.version = 1
    BY <1>1 DEF VInv, Numbers, EditorOK
<1>3. EditorOK'
    BY <1>1, <1>2 DEF VInv, Numbers, EditorOK, IsOpen
<1>4. PICK m : m = OpenMessage(editor')
    OBVIOUS
<1>5. m.kind = "open" /\ m.version = editor'.version
    BY <1>4 DEF OpenMessage
<1>6. editor'.version > 0
    BY <1>2
<1> QED
    BY <1>1, <1>3, <1>4, <1>5, <1>6, EditorTells

\* What a report of an edit keeps.
LEMMA SendV == ASSUME NEW text, NEW changes
               PROVE  VInv /\ IsOpen /\ (asked' => asked) /\ Send(text, changes) /\ UNCHANGED <<shown, toClient, doc, timers>>
                        => VInv'
<1> SUFFICES ASSUME VInv, IsOpen, asked' => asked, Send(text, changes), UNCHANGED <<shown, toClient, doc, timers>>
             PROVE  VInv'
    OBVIOUS
<1>1. editor' = [editor EXCEPT !.edits = @ + 1, !.version = @ + 1, !.text = text]
    BY DEF Send
<1>2. editor.version \in Nat /\ "version" \in DOMAIN editor' /\ editor'.version = editor.version + 1
    BY <1>1 DEF VInv, Numbers, EditorOK
<1>3. EditorOK'
    BY <1>2 DEF EditorOK, IsOpen
<1>4. PICK m : m = [kind |-> "change", version |-> editor'.version, changes |-> changes]
    OBVIOUS
<1>5. m.kind = "change" /\ m.version = editor'.version /\ toServer' = Append(toServer, m)
    BY <1>4 DEF Send
<1>6. editor'.version > editor.version
    BY <1>2
<1> QED
    BY <1>3, <1>5, <1>6, EditorTells

LEMMA EditV == VInv /\ Edit => VInv' /\ UNCHANGED shown
<1> SUFFICES ASSUME VInv, Edit
             PROVE  VInv' /\ UNCHANGED shown
    OBVIOUS
<1>1. IsOpen /\ UNCHANGED <<shown, asked, toClient, doc, timers>>
    BY Zenon DEF Edit, CanEdit
<1>2. \E text, changes : Send(text, changes)
    BY ZenonT(40) DEF Edit
<1> QED
    BY <1>1, <1>2, SendV, Zenon

LEMMA CloseV == VInv /\ Close => VInv' /\ UNCHANGED shown
<1> SUFFICES ASSUME VInv, Close
             PROVE  VInv' /\ UNCHANGED shown
    OBVIOUS
<1>1. /\ editor' = [editor EXCEPT !.version = 0, !.text = <<>>] /\ asked' = FALSE
      /\ toServer' = Append(toServer, [kind |-> "close"]) /\ UNCHANGED <<shown, toClient, doc, timers>>
    BY DEF Close
<1>2. "version" \in DOMAIN editor' /\ editor'.version = 0
    BY <1>1 DEF VInv, Numbers, EditorOK
<1>3. EditorOK'
    BY <1>1, <1>2 DEF EditorOK
<1>4. PICK m : m = [kind |-> "close"]
    OBVIOUS
<1>5. m.kind = "close" /\ toServer' = Append(toServer, m)
    BY <1>1, <1>4
<1> QED
    BY <1>1, <1>2, <1>3, <1>5, EditorTells

LEMMA AskRenameV == ASSUME NEW i
                    PROVE  VInv /\ AskRename(i) => VInv' /\ UNCHANGED shown
<1> SUFFICES ASSUME VInv, AskRename(i)
             PROVE  VInv' /\ UNCHANGED shown
    OBVIOUS
<1>1. /\ IsOpen /\ UNCHANGED <<editor, shown, toClient, doc, timers>>
      /\ toServer' = Append(toServer, [kind |-> "rename", from |-> editor.opens,
                                       position |-> Seen(editor.text, i - 1)])
    BY Zenon DEF AskRename
<1>2. EditorOK'
    BY <1>1 DEF VInv, Numbers, EditorOK, IsOpen
<1>3. PICK m : m = [kind |-> "rename", from |-> editor.opens, position |-> Seen(editor.text, i - 1)]
    OBVIOUS
<1>4. m.kind = "rename" /\ toServer' = Append(toServer, m) /\ editor'.version = editor.version
    BY <1>1, <1>3
<1> QED
    BY <1>1, <1>2, <1>4, EditorTells

LEMMA ShowDiagnosticsV ==
    VInv /\ ShowDiagnostics => VInv' /\ (shown' = shown \/ shown'.version = 0 \/ shown'.version >= shown.version)
<1> SUFFICES ASSUME VInv, ShowDiagnostics
             PROVE  VInv' /\ (shown' = shown \/ shown'.version = 0 \/ shown'.version >= shown.version)
    OBVIOUS
<1>1. /\ toClient # <<>> /\ Head(toClient).kind = "diagnostics" /\ toClient' = Tail(toClient)
      /\ shown' = [version |-> Head(toClient).version, ranges |-> Head(toClient).ranges]
      /\ UNCHANGED <<editor, asked, toServer, doc, timers>>
    BY DEF ShowDiagnostics
<1>2. /\ ToClientOK' /\ shown'.version \in Nat /\ ShownInOrder' /\ ShownOfDocument'
      /\ shown' = shown \/ shown'.version = 0 \/ shown'.version >= shown.version
    BY <1>1, ShowsLess DEF VInv
<1>3. ToServerOK' /\ ServerOK' /\ ToldInOrder' /\ ToldOfEditor'
    BY <1>1, ToldAsBefore DEF VInv
<1>4. EditorOK'
    BY <1>1 DEF VInv, Numbers, EditorOK, IsOpen
<1>5. ShownOrDue' /\ TimersOK'
    BY <1>1, DueShrinks DEF VInv, Numbers, TimersOK
<1> QED
    BY <1>2, <1>3, <1>4, <1>5 DEF VInv, Numbers

LEMMA ReceiveEditsV == VInv /\ ReceiveEdits => VInv' /\ UNCHANGED shown
<1> SUFFICES ASSUME VInv, ReceiveEdits
             PROVE  VInv' /\ UNCHANGED shown
    OBVIOUS
<1>1. /\ toClient # <<>> /\ Head(toClient).kind = "edits" /\ toClient' = Tail(toClient)
      /\ UNCHANGED <<shown, doc, timers>>
    BY Zenon DEF ReceiveEdits
<1>2. asked' => asked
    BY Zenon DEF ReceiveEdits
<1>3. \/ IsOpen /\ \E text, changes : Send(text, changes)
      \/ UNCHANGED <<editor, toServer>>
    <2>1. CASE Applicable(Head(toClient)) /\ editor.edits < MaxEdits
        <3>1. asked
            BY <2>1 DEF Applicable, Awaited
        <3>2. IsOpen
            BY <3>1 DEF VInv, Numbers, EditorOK
        <3>3. \E text, changes : Send(text, changes)
            BY <2>1, Zenon DEF ReceiveEdits
        <3> QED
            BY <3>2, <3>3
    <2>2. CASE ~(Applicable(Head(toClient)) /\ editor.edits < MaxEdits)
        BY <2>2, Zenon DEF ReceiveEdits
    <2> QED
        BY <2>1, <2>2
<1>4. ToClientOK' /\ shown'.version \in Nat /\ ShownInOrder' /\ ShownOfDocument'
    BY <1>1, ShowsLess DEF VInv
<1>5. ServerOK'
    BY <1>1 DEF VInv, Numbers, ServerOK
<1>6. EditorOK' /\ ToServerOK' /\ ToldInOrder' /\ ToldOfEditor'
    <2>1. ASSUME IsOpen, NEW text, NEW changes, Send(text, changes)
          PROVE  EditorOK' /\ ToServerOK' /\ ToldInOrder' /\ ToldOfEditor'
        <3>1. EditorOK' /\ editor'.version = editor.version + 1
            BY <1>2, <2>1 DEF Send, VInv, Numbers, EditorOK, IsOpen
        <3>2. PICK m : m = [kind |-> "change", version |-> editor'.version, changes |-> changes]
            OBVIOUS
        <3>3. m.kind = "change" /\ m.version = editor'.version /\ toServer' = Append(toServer, m)
            BY <2>1, <3>2 DEF Send
        <3>4. editor.version \in Nat /\ editor'.version \in Nat /\ editor'.version > editor.version
            BY <3>1 DEF VInv, Numbers, EditorOK
        <3>5. OfServer(m)
            BY <3>3, <3>4 DEF OfServer
        <3>6. ToServerOK'
            BY <3>3, <3>5, ServerGrows DEF VInv
        <3>7. ToldInOrder' /\ ToldOfEditor'
            BY <1>1, <2>1, <3>3, <3>4, Tells DEF VInv
        <3> QED
            BY <3>1, <3>6, <3>7
    <2>2. CASE UNCHANGED <<editor, toServer>>
        <3>1. EditorOK'
            BY <1>2, <2>2 DEF VInv, Numbers, EditorOK, IsOpen
        <3> QED
            BY <1>1, <2>2, <3>1, ToldAsBefore DEF VInv
    <2> QED
        BY <1>3, <2>1, <2>2
<1>7. ShownOrDue' /\ TimersOK'
    BY <1>1, DueShrinks DEF VInv, Numbers, TimersOK
<1> QED
    BY <1>1, <1>4, <1>5, <1>6, <1>7 DEF VInv, Numbers

\* A server that has just started has been told of the open document and of nothing else.
LEMMA ReopenedV == VInv /\ Restart /\ IsOpen => VInv' /\ shown'.version = 0
<1> SUFFICES ASSUME VInv, Restart, IsOpen
             PROVE  VInv' /\ shown'.version = 0
    OBVIOUS
<1>1. /\ IsOpen /\ editor' = [editor EXCEPT !.opens = @ + 1]
      /\ shown' = NothingShown /\ asked' = FALSE /\ doc' = NoDoc /\ timers' = {} /\ toClient' = <<>>
      /\ toServer' = <<OpenMessage(editor')>>
    BY DEF Restart
<1>2. editor'.version = editor.version /\ "version" \in DOMAIN editor' /\ editor.version \in Nat \ {0}
    BY <1>1 DEF VInv, Numbers, EditorOK, IsOpen
<1>3. PICK m : m = OpenMessage(editor')
    OBVIOUS
<1>4. m.kind = "open" /\ m.version = editor.version
    BY <1>2, <1>3 DEF OpenMessage
<1>5. /\ toServer' = <<m>> /\ Len(toServer') = 1 /\ DOMAIN toServer' = {1} /\ toServer'[1] = m
    BY <1>1, <1>3
<1>6. EditorOK' /\ ServerOK' /\ shown'.version = 0
    BY <1>1, <1>2 DEF EditorOK, ServerOK, NoDoc, NothingShown
<1>7. ToServerOK'
    <2>1. IsSeq(toServer)'
        BY <1>5 DEF IsSeq
    <2>2. OfServer(m)
        BY <1>2, <1>4 DEF OfServer
    <2> QED
        BY <1>5, <2>1, <2>2 DEF ToServerOK, OfServer
<1>8. ToClientOK'
    BY <1>1 DEF ToClientOK, IsSeq
<1>9. /\ Places' = {0, 1} /\ Beyond' = 2 /\ ~Told(0)' /\ Told(1)' /\ VersionTold(1)' = editor'.version
      /\ ~ClosedIn(1, 2)'
    BY <1>1, <1>2, <1>4, <1>5 DEF Places, Beyond, Told, VersionTold, ClosedIn
<1>10. ToldInOrder'
    BY <1>4, <1>5, <1>9 DEF ToldInOrder
<1>11. ToldOfEditor'
    <2>1. IsOpen' /\ editor'.version \in Nat
        BY <1>2 DEF IsOpen
    <2>2. \A j \in Places' : Told(j)' => j = 1
        BY <1>9
    <2>3. /\ \A j \in Places' : Told(j)' /\ ~ClosedIn(j, 2)' => IsOpen' /\ VersionTold(j)' <= editor'.version
          /\ Told(1)' /\ ~ClosedIn(1, 2)' /\ VersionTold(1)' = editor'.version
        BY <1>9, <2>1, <2>2
    <2> QED
        BY <1>9, <2>1, <2>3 DEF ToldOfEditor, Told, VersionTold, ClosedIn
<1>12. ShownInOrder' /\ ShownOfDocument'
    <2>1. Len(toClient') = 0 /\ DOMAIN toClient' = {} /\ Sent' = {0} /\ VersionShown(0)' = 0 /\ doc'.version = 0
        BY <1>1, <1>6 DEF Sent, VersionShown, NoDoc
    <2> QED
        BY <2>1 DEF ShownInOrder, ShownOfDocument, Latest
<1>13. ShownOrDue' /\ TimersOK'
    BY <1>1 DEF ShownOrDue, Screen, Sent, TimersOK
<1> QED
    BY <1>6, <1>7, <1>8, <1>10, <1>11, <1>12, <1>13 DEF VInv, Numbers

-----------------------------------------------------------------------------
(* The theorems about the versions.                                        *)

\* Nothing is open, known, shown or under way.
Blank ==
    /\ "version" \in DOMAIN editor /\ editor.version = 0
    /\ shown = NothingShown /\ asked = FALSE
    /\ toServer = <<>> /\ toClient = <<>> /\ doc = NoDoc /\ timers = {}

LEMMA BlankV == Blank => VInv
<1> SUFFICES ASSUME Blank
             PROVE  VInv
    OBVIOUS
<1> USE DEF Blank, NothingShown, NoDoc
<1>1. /\ Len(toServer) = 0 /\ DOMAIN toServer = {} /\ Places = {0} /\ ~Told(0)
      /\ Len(toClient) = 0 /\ DOMAIN toClient = {} /\ Sent = {0}
    BY DEF Places, Told, Sent
<1>2. Numbers
    BY <1>1 DEF Numbers, ToServerOK, ToClientOK, EditorOK, ServerOK, IsSeq, IsOpen, TimersOK
<1>3. ToldInOrder /\ ToldOfEditor
    BY <1>1 DEF ToldInOrder, ToldOfEditor, IsOpen
<1>4. ShownInOrder /\ ShownOfDocument /\ ShownOrDue
    BY <1>1 DEF ShownInOrder, ShownOfDocument, ShownOrDue, Latest, VersionShown, Screen
<1> QED
    BY <1>2, <1>3, <1>4 DEF VInv

LEMMA InitV == Init => VInv
BY BlankV DEF Init, Blank, Closed

LEMMA RestartV == VInv /\ Restart => VInv' /\ shown'.version = 0
<1> SUFFICES ASSUME VInv, Restart, ~IsOpen
             PROVE  VInv' /\ shown'.version = 0
    BY ReopenedV
<1>1. editor' = editor /\ editor.version = 0 /\ "version" \in DOMAIN editor
    BY DEF Restart, IsOpen, VInv, Numbers, EditorOK
<1>2. Blank'
    BY <1>1 DEF Blank, Restart
<1>3. VInv'
    BY <1>2, BlankV, PTL
<1> QED
    BY <1>2, <1>3 DEF Blank, NothingShown

\* A step keeps the invariant, and shows no older version.
LEMMA NextV ==
    VInv /\ [Next]_vars => VInv' /\ (shown' = shown \/ shown'.version = 0 \/ shown'.version >= shown.version)
<1> SUFFICES ASSUME VInv, [Next]_vars
             PROVE  VInv' /\ (shown' = shown \/ shown'.version = 0 \/ shown'.version >= shown.version)
    OBVIOUS
<1>1. CASE Serve
    BY <1>1, ServeV
<1>2. ASSUME NEW t \in timers, TimerFires(t) \/ Publish(t)
      PROVE  VInv' /\ shown' = shown
    <2>1. CASE TimerFires(t)
        <3>1. UNCHANGED <<editor, shown, asked, toServer, toClient, doc>> /\ timers' = Fired(t)
            BY <2>1 DEF TimerFires, editorVars
        <3>2. PICK c : c = [t EXCEPT !.stage = "checking"]
            OBVIOUS
        <3>3. timers' = (timers \ {t}) \cup {c}
            BY <3>1, <3>2 DEF Fired
        <3>4. "id" \in DOMAIN t /\ "version" \in DOMAIN t
            BY <1>2 DEF VInv, Numbers, TimersOK
        <3>5. "id" \in DOMAIN c /\ "version" \in DOMAIN c /\ c.id = t.id /\ c.version = t.version
            BY <3>2, <3>4
        <3>6. TimersOK'
            BY <3>3, <3>5 DEF VInv, Numbers, TimersOK
        <3>7. TimerDue => TimerDue'
            BY <3>1, <3>3, <3>5 DEF TimerDue
        <3> QED
            BY <3>1, <3>6, <3>7, Unmoved
    <2> QED
        BY <1>2, <2>1, PublishV
<1>3. CASE \E text \in Texts : Open(text)
    BY <1>3, OpenV
<1>4. CASE Edit
    BY <1>4, EditV
<1>5. CASE Close
    BY <1>5, CloseV
<1>6. CASE ShowDiagnostics
    BY <1>6, ShowDiagnosticsV
<1>7. CASE ReceiveEdits
    BY <1>7, ReceiveEditsV
<1>8. CASE Restart
    BY <1>8, RestartV
<1>9. CASE \E i \in 1 .. MaxLen : AskRename(i)
    BY <1>9, AskRenameV
<1>10. CASE UNCHANGED vars
    <2>1. UNCHANGED <<editor, shown, asked, toServer, toClient, doc, timers>>
        BY <1>10 DEF vars
    <2>2. TimersOK' /\ (TimerDue => TimerDue')
        BY <2>1 DEF VInv, Numbers, TimersOK, TimerDue
    <2> QED
        BY <2>1, <2>2, Unmoved
<1> QED
    BY <1>1, <1>2, <1>3, <1>4, <1>5, <1>6, <1>7, <1>8, <1>9, <1>10, Zenon DEF Next

LEMMA Versioned == Spec => []VInv
<1>1. Init => VInv
    BY InitV
<1>2. VInv /\ [Next]_vars => VInv'
    BY NextV
<1> QED
    BY <1>1, <1>2, PTL DEF Spec

\* Diagnostics never go back to an older version of the document, for any texts, any number of
\* edits, messages under way and restarts, and however slow the interpreter is: publishing asks
\* for the current version under the mutex, and closing sends the empty set.
THEOREM DiagnosticsNeverOlder == Spec => NeverOlderDiagnostics
<1>1. VInv /\ [Next]_vars => [shown'.version = 0 \/ shown'.version >= shown.version]_shown
    BY NextV
<1> QED
    BY <1>1, Versioned, PTL DEF Spec, NeverOlderDiagnostics

\* Once the server has read what it was sent, it has the editor's document in the editor's version,
\* and none when the document is closed, however often it was closed, opened and restarted.
THEOREM VersionsAgree ==
    Spec => [](toServer = <<>> => IF IsOpen THEN doc # NoDoc /\ doc.version = editor.version
                                  ELSE doc = NoDoc)
<1>1. ASSUME VInv, toServer = <<>>
      PROVE  IF IsOpen THEN doc # NoDoc /\ doc.version = editor.version ELSE doc = NoDoc
    <2>1. Places = {0} /\ ~ClosedIn(0, Beyond)
        BY <1>1 DEF Places, ClosedIn
    <2> QED
        BY <1>1, <2>1 DEF VInv, ToldOfEditor, Told, VersionTold
<1>2. VInv => (toServer = <<>> => IF IsOpen THEN doc # NoDoc /\ doc.version = editor.version
                                  ELSE doc = NoDoc)
    BY <1>1
<1> QED
    BY <1>2, Versioned, PTL

\* When nothing is in flight, a closed document has no diagnostics on screen, and those of
\* another version of an open one are still going to be replaced: a timer holds the version the
\* editor has. A timer that is stopped is replaced, one that finds another version has a
\* successor, and closing sends the empty set after everything the timers sent.
THEOREM DiagnosticsAreDue == Spec => []StaleDiagnosticsAreDue
<1>1. ASSUME VInv, Quiet
      PROVE  /\ ~IsOpen => shown = NothingShown
             /\ IsOpen /\ shown.version # editor.version =>
                   \E t \in timers : t.id = doc.id /\ t.version = editor.version
    <2>1. Places = {0} /\ ~ClosedIn(0, Beyond) /\ 0 \in Sent /\ Latest(0)
        BY <1>1 DEF Quiet, Places, ClosedIn, Sent, Latest, Diagnosed, DiagnosedIn
    <2>2. IF IsOpen THEN doc # NoDoc /\ doc.version = editor.version ELSE doc = NoDoc
        BY <1>1, <2>1 DEF VInv, ToldOfEditor, Told, VersionTold
    <2>3. IF doc = NoDoc THEN shown = NothingShown ELSE shown.version = doc.version \/ TimerDue
        BY <1>1, <2>1 DEF VInv, ShownOrDue, Screen, VersionShown
    <2> QED
        BY <2>2, <2>3 DEF TimerDue
<1>2. VInv => StaleDiagnosticsAreDue
    BY <1>1 DEF StaleDiagnosticsAreDue
<1> QED
    BY <1>2, Versioned, PTL

-----------------------------------------------------------------------------
(* Places in a text.                                                       *)

LEMMA Least ==
    ASSUME NEW S, S \subseteq Nat, S # {}
    PROVE  \E n \in S : \A k \in S : n <= k
<1> DEFINE R == OpToRel(<, Nat)
<1>1. IsWellFoundedOn(R, Nat)
    BY NatLessThanWellFounded
<1>2. \A x, y \in Nat : <<y, x>> \in R <=> y < x
    BY DEF OpToRel
<1> HIDE DEF R
<1>3. PICK x \in S : \A y \in S : ~(<<y, x>> \in R)
    BY <1>1, WFMin
<1>4. ASSUME NEW k \in S PROVE x <= k
    <2>1. ~(k < x) /\ k \in Nat /\ x \in Nat
        BY <1>2, <1>3, Zenon
    <2> QED
        BY <2>1
<1> QED
    BY <1>4

\* How many numbers of S are at most n.
Rank(S, n) == Cardinality({j \in S : j <= n})

LEMMA Ranks ==
    ASSUME NEW S \in SUBSET Nat, IsFiniteSet(S), NEW a \in Nat
    PROVE  /\ IsFiniteSet({j \in S : j <= a}) /\ Cardinality(S) \in Nat
           /\ Rank(S, a) \in Nat /\ Rank(S, a) <= Cardinality(S)
<1>1. {j \in S : j <= a} \in SUBSET S
    OBVIOUS
<1>2. /\ IsFiniteSet({j \in S : j <= a}) /\ Rank(S, a) <= Cardinality(S)
    BY <1>1, FS_Subset DEF Rank
<1> QED
    BY <1>2, FS_CardinalityType DEF Rank

LEMMA RankGrows ==
    ASSUME NEW S \in SUBSET Nat, IsFiniteSet(S), NEW a \in Nat, NEW b \in Nat, a <= b
    PROVE  /\ Rank(S, a) <= Rank(S, b)
           /\ (\E k \in S : a < k /\ k <= b) => Rank(S, a) < Rank(S, b)
           /\ (\A k \in S : ~(a < k /\ k <= b)) => Rank(S, a) = Rank(S, b)
<1> DEFINE A == {j \in S : j <= a}
           B == {j \in S : j <= b}
<1>1. IsFiniteSet(A) /\ IsFiniteSet(B) /\ Cardinality(A) \in Nat /\ Cardinality(B) \in Nat
    BY Ranks, FS_CardinalityType
<1>2. A \in SUBSET B
    <2>1. \A j \in S : j \in Nat
        OBVIOUS
    <2>2. ASSUME NEW j \in S, j <= a PROVE j <= b
        BY <2>1, <2>2
    <2> QED
        BY <2>2
<1>3. Cardinality(A) <= Cardinality(B) /\ (Cardinality(B) = Cardinality(A) => B = A)
    BY <1>1, <1>2, FS_Subset
<1>4. (\E k \in S : a < k /\ k <= b) => A # B
    OBVIOUS
<1>5. (\A k \in S : ~(a < k /\ k <= b)) => A = B
    <2> SUFFICES ASSUME \A k \in S : ~(a < k /\ k <= b) PROVE A = B
        OBVIOUS
    <2>1. \A j \in S : j \in Nat
        OBVIOUS
    <2>2. ASSUME NEW j \in S, j <= b PROVE j <= a
        <3>1. ~(a < j)
            BY <2>2
        <3> QED
            BY <2>1, <3>1
    <2> QED
        BY <1>2, <2>2
<1>6. Rank(S, a) = Cardinality(A) /\ Rank(S, b) = Cardinality(B)
    BY DEF Rank
<1> HIDE DEF A, B
<1> QED
    BY <1>1, <1>3, <1>4, <1>5, <1>6

LEMMA RankOf ==
    ASSUME NEW S \in SUBSET Nat, IsFiniteSet(S)
    PROVE  /\ \A k \in S : Rank(S, k) \in 1 .. Cardinality(S)
           /\ \A j, k \in S : Rank(S, j) = Rank(S, k) => j = k
           /\ \A n \in 1 .. Cardinality(S) : \E k \in S : Rank(S, k) = n
<1>1. ASSUME NEW k \in S PROVE Rank(S, k) \in 1 .. Cardinality(S)
    <2>1. /\ Rank(S, k) \in Nat /\ Rank(S, k) <= Cardinality(S)
          /\ IsFiniteSet({j \in S : j <= k}) /\ Cardinality(S) \in Nat
        BY Ranks
    <2>2. k \in {j \in S : j <= k}
        OBVIOUS
    <2>3. Rank(S, k) # 0
        BY <2>1, <2>2, FS_EmptySet DEF Rank
    <2> QED
        BY <2>1, <2>3
<1>2. ASSUME NEW j \in S, NEW k \in S, j < k PROVE Rank(S, j) < Rank(S, k)
    BY <1>2, RankGrows
<1>3. ASSUME NEW j \in S, NEW k \in S, Rank(S, j) = Rank(S, k) PROVE j = k
    <2>1. j \in Nat /\ k \in Nat
        OBVIOUS
    <2>3. Rank(S, j) \in Nat
        BY <2>1, Ranks
    <2>2. ~(j < k) /\ ~(k < j)
        BY <1>2, <1>3, <2>3
    <2> QED
        BY <2>1, <2>2
<1>4. PICK T : T = 1 .. Cardinality(S)
    OBVIOUS
<1>5. IsFiniteSet(T) /\ Cardinality(T) = Cardinality(S)
    BY <1>4, FS_CardinalityType, FS_Interval
<1>6. PICK f : f = [k \in S |-> Rank(S, k)]
    OBVIOUS
<1>7. f \in Injection(S, T)
    BY <1>1, <1>3, <1>4, <1>6 DEF Injection, IsInjective
<1>8. f \in Surjection(S, T)
    BY <1>5, <1>7, FS_Injection
<1>9. ASSUME NEW n \in 1 .. Cardinality(S) PROVE \E k \in S : Rank(S, k) = n
    BY <1>4, <1>6, <1>8 DEF Surjection
<1> QED
    BY <1>1, <1>3, <1>9

\* Ascending lists the numbers by their rank.
LEMMA Ascends ==
    ASSUME NEW S \in SUBSET Nat, IsFiniteSet(S)
    PROVE  /\ Cardinality(S) \in Nat /\ Ascending(S) \in Seq(S)
           /\ Len(Ascending(S)) = Cardinality(S) /\ DOMAIN Ascending(S) = 1 .. Cardinality(S)
           /\ \A k \in S : Rank(S, k) \in 1 .. Cardinality(S) /\ Ascending(S)[Rank(S, k)] = k
           /\ \A n \in 1 .. Cardinality(S) :
                 Ascending(S)[n] \in S /\ Rank(S, Ascending(S)[n]) = n
<1>1. Cardinality(S) \in Nat
    BY FS_CardinalityType
<1>2. PICK N : N = Cardinality(S)
    OBVIOUS
<1>3. PICK f : f = [n \in 1 .. N |-> CHOOSE k \in S : Rank(S, k) = n]
    OBVIOUS
<1>4. Ascending(S) = f
    BY <1>2, <1>3, Zenon DEF Ascending, Quantify, Rank
<1>5. ASSUME NEW n \in 1 .. N PROVE f[n] \in S /\ Rank(S, f[n]) = n
    <2>1. \E k \in S : Rank(S, k) = n
        BY <1>2, RankOf
    <2>2. f[n] = CHOOSE k \in S : Rank(S, k) = n
        BY <1>3
    <2> QED
        BY <2>1, <2>2
<1>6. ASSUME NEW k \in S PROVE Rank(S, k) \in 1 .. N /\ f[Rank(S, k)] = k
    <2>1. Rank(S, k) \in 1 .. N
        BY <1>2, RankOf
    <2>2. f[Rank(S, k)] \in S /\ Rank(S, f[Rank(S, k)]) = Rank(S, k)
        BY <1>5, <2>1
    <2>3. \A i, j \in S : Rank(S, i) = Rank(S, j) => i = j
        BY RankOf
    <2> QED
        BY <2>1, <2>2, <2>3
<1>7. f \in [1 .. N -> S] /\ N \in Nat
    BY <1>1, <1>2, <1>3, <1>5
<1>8. f \in Seq(S) /\ Len(f) = N /\ DOMAIN f = 1 .. N
    BY <1>7
<1> QED
    BY <1>1, <1>2, <1>4, <1>5, <1>6, <1>8

LEMMA AscendsTo ==
    ASSUME NEW S \in SUBSET Nat, IsFiniteSet(S), NEW n \in 1 .. Cardinality(S), NEW x \in Nat
    PROVE  Ascending(S)[n] <= x <=> n <= Rank(S, x)
<1>1. PICK k \in S : k = Ascending(S)[n] /\ Rank(S, k) = n
    BY Ascends
<1>2. k \in Nat /\ Rank(S, x) \in Nat /\ n \in Nat
    <2>1. k \in Nat
        OBVIOUS
    <2>2. Rank(S, x) \in Nat /\ Cardinality(S) \in Nat
        BY Ranks
    <2> QED
        BY <2>1, <2>2
<1>3. k <= x => n <= Rank(S, x)
    BY <1>1, <1>2, RankGrows
<1>4. x < k => Rank(S, x) < n
    BY <1>1, <1>2, RankGrows
<1> QED
    BY <1>1, <1>2, <1>3, <1>4

LineEnds(text) == {i \in DOMAIN text : text[i] = "nl"}
Starts(text) == {0} \cup LineEnds(text)

\* The offset at which the line of an offset begins.
LineBegin(text, k) ==
    LET before == {i \in 1 .. k : text[i] = "nl"} IN IF before = {} THEN 0 ELSE Max(before)

\* The code units between two offsets.
Units(text, a, b) == (b - a) + Cardinality({i \in a + 1 .. b : text[i] = "wide"})

LEMMA MaxOf ==
    ASSUME NEW S \in SUBSET Nat, NEW n \in Nat, \A k \in S : k <= n, S # {}
    PROVE  Max(S) \in S /\ \A k \in S : k <= Max(S)
<1> DEFINE U == {m \in Nat : \A k \in S : k <= m}
<1>1. n \in U /\ U \subseteq Nat
    OBVIOUS
<1>2. PICK m \in U : \A u \in U : m <= u
    BY <1>1, Least
<1>3. m \in S
    <2> SUFFICES ASSUME m \notin S PROVE FALSE
        OBVIOUS
    <2>1. m \in Nat /\ \A k \in S : k <= m /\ k \in Nat
        OBVIOUS
    <2>2. \A k \in S : k <= m - 1
        BY <2>1
    <2>3. PICK k \in S : TRUE
        OBVIOUS
    <2>4. m - 1 \in Nat
        BY <2>1, <2>2, <2>3
    <2>5. m - 1 \in U
        BY <2>2, <2>4
    <2>6. m <= m - 1
        BY <1>2, <2>5
    <2> QED
        BY <2>1, <2>6
<1>4. \E x \in S : \A y \in S : x >= y
    BY <1>2, <1>3
<1>5. Max(S) \in S /\ \A y \in S : Max(S) >= y
    BY <1>4 DEF Max
<1>6. \A k \in S : k \in Nat
    OBVIOUS
<1> QED
    BY <1>5, <1>6

LEMMA MinOf ==
    ASSUME NEW S \in SUBSET Nat, S # {}
    PROVE  Min(S) \in S /\ \A k \in S : Min(S) <= k
<1>1. \E x \in S : \A y \in S : x <= y
    BY Least
<1> QED
    BY <1>1 DEF Min

LEMMA MinIs ==
    ASSUME NEW S \in SUBSET Nat, NEW m \in S, \A k \in S : m <= k
    PROVE  Min(S) = m
<1>1. Min(S) \in S /\ \A k \in S : Min(S) <= k
    BY MinOf
<1>2. Min(S) \in Nat /\ m \in Nat /\ Min(S) <= m /\ m <= Min(S)
    BY <1>1
<1> QED
    BY <1>2

LEMMA TextFacts ==
    ASSUME NEW text \in Seq(Chars)
    PROVE  /\ Len(text) \in Nat /\ DOMAIN text = 1 .. Len(text)
           /\ LineEnds(text) \in SUBSET Nat /\ Starts(text) \in SUBSET Nat
           /\ IsFiniteSet(LineEnds(text)) /\ IsFiniteSet(Starts(text))
<1>1. Len(text) \in Nat /\ DOMAIN text = 1 .. Len(text)
    OBVIOUS
<1>2. LineEnds(text) \in SUBSET (1 .. Len(text)) /\ IsFiniteSet(1 .. Len(text))
    BY <1>1, FS_Interval DEF LineEnds
<1>3. IsFiniteSet(LineEnds(text))
    BY <1>2, FS_Subset
<1>4. IsFiniteSet(LineEnds(text) \cup {0}) /\ Starts(text) = LineEnds(text) \cup {0}
    BY <1>3, FS_AddElement DEF Starts
<1>5. LineEnds(text) \in SUBSET Nat
    BY <1>1, <1>2
<1> QED
    BY <1>1, <1>3, <1>4, <1>5

LEMMA LineBegins ==
    ASSUME NEW text \in Seq(Chars), NEW k \in 0 .. Len(text)
    PROVE  /\ LineBegin(text, k) \in Nat /\ LineBegin(text, k) <= k
           /\ LineBegin(text, k) \in Starts(text)
           /\ \A i \in LineBegin(text, k) + 1 .. k : text[i] # "nl"
           /\ Rank(Starts(text), LineBegin(text, k)) = Rank(Starts(text), k)
           /\ Rank(Starts(text), k) = Cardinality({i \in 1 .. k : text[i] = "nl"}) + 1
<1> DEFINE before == {i \in 1 .. k : text[i] = "nl"}
           b == LineBegin(text, k)
<1>1. Len(text) \in Nat /\ DOMAIN text = 1 .. Len(text) /\ k \in Nat /\ k <= Len(text)
    BY TextFacts
<1>2. before \in SUBSET Nat /\ (\A i \in before : i <= k) /\ IsFiniteSet(before)
    <2>1. before \in SUBSET (1 .. k) /\ IsFiniteSet(1 .. k)
        BY <1>1, FS_Interval
    <2> QED
        BY <1>1, <2>1, FS_Subset
<1>3. before # {} => Max(before) \in before /\ \A i \in before : i <= Max(before)
    BY <1>1, <1>2, MaxOf
<1>4. b = IF before = {} THEN 0 ELSE Max(before)
    BY DEF LineBegin
<1>5. before \subseteq LineEnds(text)
    BY <1>1 DEF LineEnds
<1>6. b \in Nat /\ b <= k /\ b \in Starts(text)
    BY <1>1, <1>2, <1>3, <1>4, <1>5 DEF Starts
<1>7. ASSUME NEW i \in b + 1 .. k PROVE text[i] # "nl"
    <2> SUFFICES ASSUME text[i] = "nl" PROVE FALSE
        OBVIOUS
    <2>1. i \in before /\ i > b
        BY <1>1, <1>6
    <2> QED
        BY <1>2, <1>3, <1>4, <1>6, <2>1
<1>8. \A i \in Starts(text) : ~(b < i /\ i <= k)
    <2> SUFFICES ASSUME NEW i \in Starts(text), b < i, i <= k PROVE FALSE
        OBVIOUS
    <2>1. i \in LineEnds(text) /\ i \in Nat
        BY <1>6, TextFacts DEF Starts
    <2>2. i \in b + 1 .. k /\ text[i] = "nl"
        BY <1>1, <1>6, <2>1 DEF LineEnds
    <2> QED
        BY <1>7, <2>2
<1>9. Starts(text) \in SUBSET Nat /\ IsFiniteSet(Starts(text))
    BY TextFacts
<1>10. Rank(Starts(text), b) = Rank(Starts(text), k)
    BY <1>1, <1>6, <1>8, <1>9, RankGrows
<1>11. {j \in Starts(text) : j <= k} = before \cup {0}
    BY <1>1 DEF Starts, LineEnds
<1>12. 0 \notin before
    OBVIOUS
<1>13. Cardinality(before \cup {0}) = Cardinality(before) + 1
    BY <1>2, <1>12, FS_AddElement
<1>14. Rank(Starts(text), k) = Cardinality(before) + 1
    BY <1>11, <1>13 DEF Rank
<1> HIDE DEF b
<1> QED
    BY <1>6, <1>7, <1>10, <1>14 DEF b

LEMMA Starting ==
    ASSUME NEW text \in Seq(Chars)
    PROVE  /\ LineStarts(text) = Ascending(Starts(text))
           /\ \A k \in 0 .. Len(text) :
                 /\ Rank(Starts(text), k) \in 1 .. Len(LineStarts(text))
                 /\ LineStarts(text)[Rank(Starts(text), k)] = LineBegin(text, k)
<1>1. LineStarts(text) = Ascending(Starts(text))
    BY DEF LineStarts, Starts, LineEnds
<1>2. ASSUME NEW k \in 0 .. Len(text)
      PROVE  /\ Rank(Starts(text), k) \in 1 .. Len(LineStarts(text))
             /\ LineStarts(text)[Rank(Starts(text), k)] = LineBegin(text, k)
    <2>1. PICK b \in Starts(text) : b = LineBegin(text, k) /\ Rank(Starts(text), b) = Rank(Starts(text), k)
        BY LineBegins
    <2>2. Starts(text) \in SUBSET Nat /\ IsFiniteSet(Starts(text))
        BY TextFacts
    <2> QED
        BY <1>1, <2>1, <2>2, Ascends
<1> QED
    BY <1>1, <1>2

LEMMA UnitsOf ==
    ASSUME NEW text \in Seq(Chars), NEW a \in Nat, NEW b \in Nat, a <= b, b <= Len(text)
    PROVE  Utf16Len(SubSeq(text, a + 1, b)) = Units(text, a, b)
<1>1. Len(text) \in Nat /\ DOMAIN text = 1 .. Len(text)
    BY TextFacts
<1>2. PICK s : s = SubSeq(text, a + 1, b)
    OBVIOUS
<1>3. /\ s \in Seq(Chars) /\ Len(s) = b - a /\ DOMAIN s = 1 .. (b - a)
      /\ \A i \in 1 .. (b - a) : s[i] = text[i + a]
    <2>1. \A i \in a + 1 .. b : text[i] \in Chars
        BY <1>1
    <2>2. /\ s \in Seq(Chars)
          /\ Len(s) = IF a + 1 <= b THEN b - (a + 1) + 1 ELSE 0
          /\ \A i \in 1 .. b - (a + 1) + 1 : s[i] = text[a + 1 + i - 1]
        BY <1>2, <2>1, SubSeqProperties
    <2>3. Len(s) = b - a /\ DOMAIN s = 1 .. Len(s)
        BY <2>2
    <2>4. ASSUME NEW i \in 1 .. (b - a) PROVE s[i] = text[i + a]
        <3>1. i \in 1 .. b - (a + 1) + 1 /\ a + 1 + i - 1 = i + a
            OBVIOUS
        <3> QED
            BY <2>2, <3>1
    <2> QED
        BY <2>2, <2>3, <2>4
<1>4. PICK S : S = {i \in DOMAIN s : s[i] = "wide"}
    OBVIOUS
<1>5. PICK T : T = {i \in a + 1 .. b : text[i] = "wide"}
    OBVIOUS
<1>6. PICK f : f = [i \in S |-> i + a]
    OBVIOUS
<1>7. f \in Injection(S, T)
    BY <1>3, <1>4, <1>5, <1>6 DEF Injection, IsInjective
<1>8. f \in Surjection(S, T)
    <2>1. f \in [S -> T]
        BY <1>7 DEF Injection
    <2>2. ASSUME NEW j \in T PROVE \E i \in S : f[i] = j
        <3>1. j - a \in S /\ (j - a) + a = j
            BY <1>3, <1>4, <1>5
        <3> QED
            BY <1>6, <3>1
    <2> QED
        BY <2>1, <2>2 DEF Surjection
<1>9. IsFiniteSet(S)
    <2>1. S \in SUBSET (1 .. (b - a)) /\ IsFiniteSet(1 .. (b - a))
        BY <1>3, <1>4, FS_Interval
    <2> QED
        BY <2>1, FS_Subset
<1>10. Cardinality(T) = Cardinality(S)
    <2>1. ExistsBijection(S, T)
        BY <1>7, <1>8 DEF ExistsBijection, Bijection
    <2> QED
        BY <1>9, <2>1, FS_Bijection
<1>11. Utf16Len(s) = Len(s) + Cardinality(S)
    BY <1>4, Zenon DEF Utf16Len, Quantify
<1>12. Units(text, a, b) = (b - a) + Cardinality(T)
    BY <1>5, Zenon DEF Units
<1> QED
    BY <1>2, <1>3, <1>10, <1>11, <1>12

LEMMA UnitsGrow ==
    ASSUME NEW text \in Seq(Chars), NEW a \in Nat, NEW b \in Nat, NEW c \in Nat, a <= b, b <= c
    PROVE  /\ Units(text, a, b) \in Nat
           /\ b < c => Units(text, a, b) < Units(text, a, c)
           /\ a = b => Units(text, a, b) = 0
<1> DEFINE B == {i \in a + 1 .. b : text[i] = "wide"}
           C == {i \in a + 1 .. c : text[i] = "wide"}
<1>1. B \in SUBSET C /\ C \in SUBSET (a + 1 .. c) /\ IsFiniteSet(a + 1 .. c)
    BY FS_Interval
<1>2. IsFiniteSet(C)
    BY <1>1, FS_Subset
<1>3. IsFiniteSet(B) /\ Cardinality(B) <= Cardinality(C)
    BY <1>1, <1>2, FS_Subset
<1>4. Cardinality(B) \in Nat /\ Cardinality(C) \in Nat
    BY <1>2, <1>3, FS_CardinalityType
<1>5. a = b => B = {}
    OBVIOUS
<1>6. a = b => Cardinality(B) = 0
    BY <1>5, FS_EmptySet
<1>7. Units(text, a, b) = (b - a) + Cardinality(B) /\ Units(text, a, c) = (c - a) + Cardinality(C)
    BY DEF Units
<1> HIDE DEF B, C
<1> QED
    BY <1>3, <1>4, <1>6, <1>7

\* Both ways to name a place agree: the server's scan and the editor's definition.
LEMMA SeenIs ==
    ASSUME NEW text \in Seq(Chars), NEW k \in 0 .. Len(text)
    PROVE  /\ Seen(text, k) = [line |-> Rank(Starts(text), k) - 1,
                               character |-> Units(text, LineBegin(text, k), k)]
           /\ Seen(text, k) \in Position
<1> DEFINE before == {i \in 1 .. k : text[i] = "nl"}
           b == LineBegin(text, k)
<1>1. k \in Nat /\ b \in Nat /\ b <= k /\ Rank(Starts(text), k) = Cardinality(before) + 1
    BY LineBegins, TextFacts
<1>2. Rank(Starts(text), k) \in Nat
    BY <1>1, TextFacts, Ranks
<1>3. Cardinality(before) \in Nat
    <2>1. before \in SUBSET (1 .. k) /\ IsFiniteSet(1 .. k)
        BY <1>1, FS_Interval
    <2>2. IsFiniteSet(before)
        BY <2>1, FS_Subset
    <2> QED
        BY <2>2, FS_CardinalityType
<1>4. Seen(text, k) = [line |-> Cardinality(before), character |-> Units(text, b, k)]
    BY DEF Seen, Units, LineBegin
<1>5. Units(text, b, k) \in Nat
    BY <1>1, UnitsGrow
<1> HIDE DEF before, b
<1> QED
    BY <1>1, <1>2, <1>3, <1>4, <1>5 DEF Position, b

LEMMA SeenByServer ==
    ASSUME NEW text \in Seq(Chars), NEW k \in 0 .. Len(text)
    PROVE  PositionOf(text, k) = Seen(text, k)
<1> DEFINE starts == LineStarts(text)
           line == Quantify(DOMAIN starts, LAMBDA l : starts[l] <= k)
           r == Rank(Starts(text), k)
           b == LineBegin(text, k)
<1>1. k \in Nat /\ k <= Len(text)
    BY TextFacts
<1>2. Starts(text) \in SUBSET Nat /\ IsFiniteSet(Starts(text))
    BY TextFacts
<1>3. /\ starts = Ascending(Starts(text)) /\ r \in 1 .. Len(starts) /\ starts[r] = b
      /\ Len(starts) \in Nat /\ Len(starts) = Cardinality(Starts(text))
      /\ DOMAIN starts = 1 .. Len(starts)
    BY <1>2, Starting, Ascends
<1>4. ASSUME NEW l \in DOMAIN starts PROVE starts[l] <= k <=> l <= r
    BY <1>1, <1>2, <1>3, AscendsTo
<1>5. {l \in DOMAIN starts : starts[l] <= k} = 1 .. r
    BY <1>3, <1>4
<1>6. Cardinality(1 .. r) = r
    BY <1>3, FS_Interval
<1>7. line = r
    BY <1>5, <1>6 DEF Quantify
<1>8. Utf16Len(SubSeq(text, b + 1, k)) = Units(text, b, k)
    BY <1>1, LineBegins, UnitsOf
<1>9. PositionOf(text, k) = [line |-> line - 1, character |-> Utf16Len(SubSeq(text, starts[line] + 1, k))]
    BY DEF PositionOf
<1>10. Seen(text, k) = [line |-> r - 1, character |-> Units(text, b, k)]
    BY SeenIs
<1> HIDE DEF starts, line, r, b
<1> QED
    BY <1>3, <1>7, <1>8, <1>9, <1>10

LEMMA OffsetOfSeen ==
    ASSUME NEW text \in Seq(Chars), NEW k \in 0 .. Len(text)
    PROVE  OffsetAt(text, Seen(text, k)) = k /\ OffsetOf(text, Seen(text, k)) = k
<1> DEFINE starts == LineStarts(text)
           r == Rank(Starts(text), k)
           b == LineBegin(text, k)
           u == Units(text, b, k)
           S == {i \in b .. Len(text) :
                    \/ i = Len(text)
                    \/ text[i + 1] = "nl"
                    \/ Utf16Len(SubSeq(text, b + 1, i)) >= u}
<1>1. k \in Nat /\ k <= Len(text) /\ Len(text) \in Nat
    BY TextFacts
<1>2. b \in Nat /\ b <= k /\ \A i \in b + 1 .. k : text[i] # "nl"
    BY LineBegins
<1>3. \A i \in b .. Len(text) : Utf16Len(SubSeq(text, b + 1, i)) = Units(text, b, i)
    BY <1>1, <1>2, UnitsOf
<1>4. u \in Nat /\ k \in S
    <2>1. u \in Nat
        BY <1>1, <1>2, UnitsGrow
    <2>2. k \in b .. Len(text) /\ Utf16Len(SubSeq(text, b + 1, k)) = u
        BY <1>1, <1>2, <1>3
    <2> HIDE DEF u, b
    <2> QED
        BY <2>1, <2>2
<1>5. ASSUME NEW i \in S PROVE k <= i
    <2> SUFFICES ASSUME i < k PROVE FALSE
        BY <1>1, <1>2
    <2>1. i \in Nat /\ b <= i /\ i # Len(text) /\ i + 1 \in b + 1 .. k
        BY <1>1, <1>2
    <2>2. text[i + 1] # "nl"
        BY <1>2, <2>1
    <2>3. Units(text, b, i) \in Nat /\ Units(text, b, i) < u
        BY <1>1, <1>2, <2>1, UnitsGrow
    <2>4. Units(text, b, i) >= u
        BY <1>3, <2>1, <2>2
    <2> HIDE DEF u, b, S
    <2> QED
        BY <1>4, <2>3, <2>4
<1>6. S \in SUBSET Nat
    BY <1>1, <1>2
<1>7. Min(S) = k
    <2> HIDE DEF S
    <2> QED
        BY <1>4, <1>5, <1>6, MinIs
<1>8. Column(text, b, u) = k
    BY <1>7, Zenon DEF Column
<1>9. r \in 1 .. Len(starts) /\ starts[r] = b /\ Len(starts) \in Nat
    BY Starting, Ascends, TextFacts
<1>10. Seen(text, k) = [line |-> r - 1, character |-> u]
    BY SeenIs
<1>11. PICK pos : pos = Seen(text, k)
    OBVIOUS
<1> HIDE DEF starts, r, b, u, S
<1>12. pos.line = r - 1 /\ pos.character = u /\ ~(pos.line >= Len(starts)) /\ pos.line + 1 = r
    BY <1>9, <1>10, <1>11
<1>13. OffsetAt(text, pos) = IF pos.line >= Len(starts) THEN Len(text)
                           ELSE Column(text, starts[pos.line + 1], pos.character)
    BY Zenon DEF OffsetAt, starts
<1>14. OffsetOf(text, pos) = IF pos.line >= Len(starts) THEN Len(text)
                           ELSE Column(text, starts[pos.line + 1], pos.character)
    BY Zenon DEF OffsetOf, starts
<1> QED
    BY <1>8, <1>9, <1>11, <1>12, <1>13, <1>14

-----------------------------------------------------------------------------
(* Edits of a text.                                                        *)

LEMMA Splices ==
    ASSUME NEW text \in Seq(Chars), NEW i \in Nat, NEW j \in Nat, i <= j, j <= Len(text),
           NEW new \in Seq(Chars)
    PROVE  /\ Splice(text, i, j, new) \in Seq(Chars)
           /\ Changed(text, Replacing(text, i, j, new)) = Splice(text, i, j, new)
<1>1. Len(text) \in Nat /\ DOMAIN text = 1 .. Len(text) /\ i \in 0 .. Len(text) /\ j \in 0 .. Len(text)
    BY TextFacts
<1>2. SubSeq(text, 1, i) \in Seq(Chars) /\ SubSeq(text, j + 1, Len(text)) \in Seq(Chars)
    <2>1. \A k \in 1 .. i : text[k] \in Chars
        BY <1>1
    <2>2. \A k \in j + 1 .. Len(text) : text[k] \in Chars
        BY <1>1
    <2> QED
        BY <1>1, <2>1, <2>2, SubSeqProperties
<1>3. Splice(text, i, j, new) \in Seq(Chars)
    BY <1>2 DEF Splice
<1>4. PICK c : c = Replacing(text, i, j, new)
    OBVIOUS
<1>5. "range" \in DOMAIN c /\ c.range = SeenRange(text, i, j) /\ c.text = new
    BY <1>4 DEF Replacing
<1>6. c.range.start = Seen(text, i) /\ c.range.end = Seen(text, j)
    BY <1>5 DEF SeenRange
<1>7. OffsetAt(text, c.range.start) = i /\ OffsetAt(text, c.range.end) = j
    BY <1>1, <1>6, OffsetOfSeen
<1>8. Max({i, j}) = j
    <2>1. {i, j} \in SUBSET Nat /\ {i, j} # {} /\ \A k \in {i, j} : k <= j
        OBVIOUS
    <2>2. PICK S \in SUBSET Nat : S = {i, j}
        BY <2>1
    <2>3. Max(S) \in S /\ \A k \in S : k <= Max(S)
        BY <2>1, <2>2, MaxOf
    <2> QED
        BY <2>2, <2>3
<1>9. Changed(text, c) = LET start == OffsetAt(text, c.range.start)
                            end == Max({start, OffsetAt(text, c.range.end)})
                        IN SubSeq(text, 1, start) \o c.text \o SubSeq(text, end + 1, Len(text))
    BY <1>5 DEF Changed
<1>10. Changed(text, c) = SubSeq(text, 1, i) \o c.text \o SubSeq(text, j + 1, Len(text))
    BY <1>7, <1>8, <1>9
<1>11. Changed(text, c) = SubSeq(text, 1, i) \o new \o SubSeq(text, j + 1, Len(text))
    BY <1>5, <1>10
<1> QED
    BY <1>3, <1>4, <1>11 DEF Splice

LEMMA WholeText ==
    ASSUME NEW text, NEW new
    PROVE  Changed(text, [text |-> new]) = new
BY DEF Changed

\* The text after a notification's changes.
Applied(text, changes) == FoldLeft(Changed, text, changes)

\* h are the texts between n changes.
Between(h, text, changes, n) ==
    /\ DOMAIN changes = 1 .. n /\ h[0] = text
    /\ \A p \in 1 .. n : h[p] = Changed(h[p - 1], changes[p])

\* The fold applies them one after the other.
LEMMA FoldOfChanges ==
    ASSUME NEW text, NEW n \in Nat, NEW changes, NEW h, Between(h, text, changes, n)
    PROVE  Applied(text, changes) = h[n]
<1> DEFINE D == 1 .. n
           Small(m) == {S \in SUBSET D : Cardinality(S) <= m}
           Step(g, S) == IF S = {} THEN text
                         ELSE LET x == Max(S) IN Changed(g[S \ {x}], changes[x])
           Good(g, m) == g = [S \in Small(m) |-> Step(g, S)]
           Bad == {m \in Nat : ~ \E g : Good(g, m)}
           Fold[S \in SUBSET D] ==
               IF S = {} THEN text
               ELSE LET x == Max(S) IN Changed(Fold[S \ {x}], changes[x])
<1> USE DEF Between
<1>0. IsFiniteSet(D) /\ \A S \in SUBSET D : IsFiniteSet(S) /\ Cardinality(S) \in Nat
    <2>1. IsFiniteSet(D)
        BY FS_Interval
    <2> HIDE DEF D
    <2> QED
        BY <2>1, FS_Subset, FS_CardinalityType
<1>9. ASSUME NEW S \in SUBSET D, S # {} PROVE Max(S) \in S /\ \A k \in S : k <= Max(S)
    <2>1. S \in SUBSET Nat /\ \A k \in S : k <= n
        OBVIOUS
    <2> QED
        BY <1>9, <2>1, MaxOf
<1>1. Bad = {}
    <2> SUFFICES ASSUME Bad # {} PROVE FALSE
        OBVIOUS
    <2>1. PICK m \in Bad : \A k \in Bad : m <= k
        <3>1. Bad \subseteq Nat
            OBVIOUS
        <3> HIDE DEF Bad
        <3> QED
            BY <3>1, Least
    <2>2. m # 0
        <3>1. ASSUME NEW S \in Small(0) PROVE S = {}
            <4>1. IsFiniteSet(S) /\ Cardinality(S) \in Nat /\ Cardinality(S) <= 0
                BY <1>0
            <4>2. Cardinality(S) = 0
                BY <4>1
            <4> QED
                BY <4>1, <4>2, FS_EmptySet
        <3> DEFINE g == [S \in Small(0) |-> text]
        <3>2. Good(g, 0)
            BY <3>1
        <3> HIDE DEF Good, g
        <3> QED
            BY <3>2
    <2>3. m \in Nat /\ m - 1 \in Nat
        BY <2>2
    <2>4. PICK g : Good(g, m - 1)
        <3> HIDE DEF Good
        <3>1. m - 1 \notin Bad
            <4> HIDE DEF Bad
            <4> QED
                BY <2>1, <2>3
        <3> QED
            BY <3>1, <2>3
    <2> DEFINE w == [S \in Small(m) |-> Step(g, S)]
    <2>5. \A S \in Small(m - 1) : S \in Small(m) /\ w[S] = g[S]
        <3>1. \A S \in Small(m - 1) : S \in Small(m)
            BY <1>0, <2>3
        <3> HIDE DEF Small, Step
        <3> QED
            BY <2>4, <3>1, Zenon
    <2>6. ASSUME NEW S \in Small(m), S # {}, NEW x \in S PROVE S \ {x} \in Small(m - 1)
        <3>1. IsFiniteSet(S) /\ Cardinality(S) \in Nat /\ Cardinality(S) <= m
            BY <1>0
        <3>2. Cardinality(S \ {x}) = Cardinality(S) - 1
            BY <3>1, FS_RemoveElement
        <3>3. Cardinality(S \ {x}) <= m - 1
            BY <3>1, <3>2, <2>3
        <3> QED
            BY <3>3
    <2>7. ASSUME NEW S \in Small(m) PROVE Step(w, S) = Step(g, S)
        <3>1. CASE S = {}
            BY <3>1
        <3>2. CASE S # {}
            <4>1. Max(S) \in S
                BY <3>2, <1>9
            <4>2. S \ {Max(S)} \in Small(m - 1)
                BY <3>2, <4>1, <2>6
            <4> HIDE DEF Small, w
            <4>3. w[S \ {Max(S)}] = g[S \ {Max(S)}]
                BY <2>5, <4>2
            <4> QED
                BY <3>2, <4>3
        <3> QED
            BY <3>1, <3>2
    <2>8. Good(w, m)
        <3> HIDE DEF Step, Small
        <3> QED
            BY <2>7
    <2> HIDE DEF w, Good
    <2> QED
        BY <2>1, <2>8
<1>2. Cardinality(D) \in Nat /\ Small(Cardinality(D)) = SUBSET D
    BY <1>0, FS_Subset, FS_CardinalityType
<1>3. PICK g : Good(g, Cardinality(D))
    <2> HIDE DEF Good
    <2> QED
        BY <1>1, <1>2
<1>4. g = [S \in SUBSET D |-> Step(g, S)]
    <2> HIDE DEF Small, Step
    <2> QED
        BY <1>2, <1>3
<1>5. Fold = [S \in SUBSET D |-> Step(Fold, S)]
    BY <1>4 DEF Fold
<1>6. Applied(text, changes) = Fold[D]
    BY Zenon DEF Applied, FoldLeft, MapThenFoldSet, Fold
<1> DEFINE Off == {p \in 0 .. n : Fold[1 .. p] # h[p]}
<1>7. Off = {}
    <2> SUFFICES ASSUME Off # {} PROVE FALSE
        OBVIOUS
    <2>1. PICK p \in Off : \A q \in Off : p <= q
        <3>1. Off \subseteq Nat
            OBVIOUS
        <3> HIDE DEF Off
        <3> QED
            BY <3>1, Least
    <2> HIDE DEF Fold
    <2>2. p \in 0 .. n /\ Fold[1 .. p] # h[p]
        OBVIOUS
    <2>3. p # 0
        <3>1. 1 .. 0 = {} /\ {} \in SUBSET D
            OBVIOUS
        <3>2. Fold[{}] = text
            BY <1>5, <3>1
        <3> QED
            BY <2>2, <3>1, <3>2
    <2>4. p - 1 \in 0 .. n /\ p \in 1 .. n
        BY <2>2, <2>3
    <2>5. Fold[1 .. (p - 1)] = h[p - 1]
        <3>1. p - 1 \notin Off
            <4>1. ~(p <= p - 1)
                BY <2>4
            <4> HIDE DEF Off
            <4> QED
                BY <2>1, <4>1
        <3> QED
            BY <2>4, <3>1
    <2>6. 1 .. p \in SUBSET D /\ 1 .. p # {} /\ p \in 1 .. p /\ (1 .. p) \ {p} = 1 .. (p - 1)
        <3>1. p \in Nat /\ 1 <= p /\ p <= n
            BY <2>4
        <3>2. 1 .. p \in SUBSET D /\ p \in 1 .. p
            BY <3>1
        <3>3. (1 .. p) \ {p} = 1 .. (p - 1)
            <4> HIDE DEF Off
            <4> QED
                BY <3>1
        <3> HIDE DEF D
        <3> QED
            BY <3>2, <3>3
    <2>7. Max(1 .. p) = p
        <3>1. Max(1 .. p) \in 1 .. p /\ p <= Max(1 .. p)
            BY <1>9, <2>6
        <3> QED
            BY <3>1, <2>4
    <2>8. Fold[1 .. p] = Step(Fold, 1 .. p)
        <3> HIDE DEF Step, D
        <3> QED
            BY <1>5, <2>6
    <2>9. Step(Fold, 1 .. p) = Changed(Fold[1 .. (p - 1)], changes[p])
        BY <2>6, <2>7
    <2> QED
        BY <2>2, <2>4, <2>5, <2>8, <2>9
<1>8. Fold[1 .. n] = h[n]
    <2> HIDE DEF Fold
    <2> QED
        BY <1>7
<1> QED
    BY <1>6, <1>8

LEMMA SpliceOne ==
    ASSUME NEW text \in Seq(Chars), NEW q \in 1 .. Len(text), NEW c \in Chars
    PROVE  Splice(text, q - 1, q, <<c>>) = [i \in 1 .. Len(text) |-> IF i = q THEN c ELSE text[i]]
<1>1. Len(text) \in Nat /\ DOMAIN text = 1 .. Len(text) /\ q \in Nat
    BY TextFacts
<1>2. PICK a : a = SubSeq(text, 1, q - 1)
    OBVIOUS
<1>3. PICK z : z = SubSeq(text, q + 1, Len(text))
    OBVIOUS
<1>4. a \in Seq(Chars) /\ Len(a) = q - 1 /\ \A i \in 1 .. q - 1 : a[i] = text[i]
    <2>1. \A k \in 1 .. q - 1 : text[k] \in Chars
        BY <1>1
    <2>2. /\ a \in Seq(Chars) /\ Len(a) = IF 1 <= q - 1 THEN q - 1 - 1 + 1 ELSE 0
          /\ \A i \in 1 .. q - 1 - 1 + 1 : a[i] = text[1 + i - 1]
        BY <1>1, <1>2, <2>1, SubSeqProperties
    <2>3. \A i \in 1 .. q - 1 : i \in 1 .. q - 1 - 1 + 1 /\ 1 + i - 1 = i
        BY <1>1
    <2> QED
        BY <1>1, <2>2, <2>3
<1>5. z \in Seq(Chars) /\ Len(z) = Len(text) - q /\ \A i \in 1 .. Len(text) - q : z[i] = text[q + i]
    <2>1. \A k \in q + 1 .. Len(text) : text[k] \in Chars
        BY <1>1
    <2>2. /\ z \in Seq(Chars) /\ Len(z) = IF q + 1 <= Len(text) THEN Len(text) - (q + 1) + 1 ELSE 0
          /\ \A i \in 1 .. Len(text) - (q + 1) + 1 : z[i] = text[q + 1 + i - 1]
        BY <1>1, <1>3, <2>1, SubSeqProperties
    <2>3. Len(z) = Len(text) - q
        <3>1. q \in Nat /\ q <= Len(text) /\ Len(text) \in Nat
            BY <1>1
        <3> QED
            BY <2>2, <3>1
    <2>4. ASSUME NEW i \in 1 .. Len(text) - q PROVE z[i] = text[q + i]
        <3>1. i \in 1 .. Len(text) - (q + 1) + 1 /\ q + 1 + i - 1 = q + i
            BY <1>1
        <3> QED
            BY <2>2, <3>1
    <2> QED
        BY <2>2, <2>3, <2>4
<1>6. PICK b : b = a \o <<c>>
    OBVIOUS
<1>7. /\ b \in Seq(Chars) /\ Len(b) = q /\ b[q] = c /\ \A i \in 1 .. q - 1 : b[i] = text[i]
    <2>1. <<c>> \in Seq(Chars) /\ Len(<<c>>) = 1 /\ <<c>>[1] = c
        OBVIOUS
    <2>2. /\ b \in Seq(Chars) /\ Len(b) = Len(a) + 1
          /\ \A i \in 1 .. Len(a) + 1 : b[i] = IF i <= Len(a) THEN a[i] ELSE <<c>>[i - Len(a)]
        BY <1>4, <1>6, <2>1, ConcatProperties
    <2>3. Len(b) = q /\ b[q] = c
        <3>1. q \in 1 .. Len(a) + 1 /\ ~(q <= Len(a)) /\ q - Len(a) = 1
            BY <1>1, <1>4
        <3>2. b[q] = <<c>>[q - Len(a)]
            BY <2>2, <3>1
        <3>3. Len(b) = q
            BY <1>1, <1>4, <2>2
        <3> QED
            BY <2>1, <3>1, <3>2, <3>3
    <2>4. ASSUME NEW i \in 1 .. q - 1 PROVE b[i] = text[i]
        <3>1. i \in 1 .. Len(a) + 1 /\ i <= Len(a)
            BY <1>1, <1>4
        <3> QED
            BY <1>4, <2>2, <3>1
    <2> QED
        BY <2>2, <2>3, <2>4
<1>8. PICK s : s = b \o z
    OBVIOUS
<1>9. s \in Seq(Chars) /\ Len(s) = Len(text) /\ DOMAIN s = 1 .. Len(s)
    <2>1. s \in Seq(Chars) /\ Len(s) = Len(b) + Len(z)
        BY <1>5, <1>7, <1>8, ConcatProperties
    <2>2. Len(s) = Len(text)
        BY <1>1, <1>5, <1>7, <2>1
    <2> QED
        BY <2>1, <2>2
<1>10. ASSUME NEW i \in 1 .. Len(text) PROVE s[i] = IF i = q THEN c ELSE text[i]
    <2>1. s[i] = IF i <= q THEN b[i] ELSE z[i - q]
        BY <1>1, <1>5, <1>7, <1>8, ConcatProperties
    <2>2. i < q => s[i] = text[i]
        BY <1>1, <1>7, <2>1
    <2>3. i = q => s[i] = c
        BY <1>1, <1>7, <2>1
    <2>4. i > q => s[i] = text[i]
        <3>1. i > q => i - q \in 1 .. Len(text) - q /\ q + (i - q) = i /\ ~(i <= q)
            BY <1>1
        <3> QED
            BY <1>5, <2>1, <3>1
    <2> QED
        BY <1>1, <2>2, <2>3, <2>4
<1>11. s = [i \in 1 .. Len(text) |-> IF i = q THEN c ELSE text[i]]
    BY <1>9, <1>10
<1>12. s = Splice(text, q - 1, q, <<c>>)
    BY <1>2, <1>3, <1>6, <1>8 DEF Splice
<1> QED
    BY <1>11, <1>12

\* Where a place is depends on what stands before it.
LEMMA SeenBefore ==
    ASSUME NEW text, NEW other, NEW k \in Nat, \A i \in 1 .. k : text[i] = other[i]
    PROVE  Seen(text, k) = Seen(other, k)
<1>1. {i \in 1 .. k : text[i] = "nl"} = {i \in 1 .. k : other[i] = "nl"}
    OBVIOUS
<1>2. PICK B : B = {i \in 1 .. k : text[i] = "nl"}
    OBVIOUS
<1>3. PICK line : line = IF B = {} THEN 0 ELSE Max(B)
    OBVIOUS
<1>4. B # {} => Max(B) \in B
    <2>1. B \in SUBSET Nat /\ \A i \in B : i <= k
        BY <1>2
    <2> QED
        BY <2>1, MaxOf
<1>5. line \in Nat
    BY <1>2, <1>3, <1>4
<1>6. {i \in line + 1 .. k : text[i] = "wide"} = {i \in line + 1 .. k : other[i] = "wide"}
    BY <1>5
<1>7. Seen(text, k) = [line |-> Cardinality(B),
                       character |-> (k - line) + Cardinality({i \in line + 1 .. k : text[i] = "wide"})]
    BY <1>2, <1>3, Zenon DEF Seen
<1>8. Seen(other, k) = [line |-> Cardinality(B),
                        character |-> (k - line) + Cardinality({i \in line + 1 .. k : other[i] = "wide"})]
    BY <1>1, <1>2, <1>3, Zenon DEF Seen
<1> QED
    BY <1>6, <1>7, <1>8

\* The changes a rename is reported with, and the text they make.
Renamings(text, H) ==
    [p \in DOMAIN Reverse(Ascending(H)) |->
        Replacing(text, Reverse(Ascending(H))[p] - 1, Reverse(Ascending(H))[p], <<"new">>)]
Renamed(text, H) == [i \in DOMAIN text |-> IF i \in H THEN "new" ELSE text[i]]

\* The changes that rename the places of H, from the end to the beginning.
LEMMA RenamesAll ==
    ASSUME NEW text \in Seq(Chars), NEW H \in SUBSET DOMAIN text
    PROVE  Renamed(text, H) \in Seq(Chars) /\ Applied(text, Renamings(text, H)) = Renamed(text, H)
<1>a. PICK places : places = Reverse(Ascending(H))
    OBVIOUS
<1>b. PICK changes : changes = [p \in DOMAIN places |->
                                  Replacing(text, places[p] - 1, places[p], <<"new">>)]
    OBVIOUS
<1>c. SUFFICES /\ Applied(text, changes) = [i \in DOMAIN text |-> IF i \in H THEN "new" ELSE text[i]]
               /\ [i \in DOMAIN text |-> IF i \in H THEN "new" ELSE text[i]] \in Seq(Chars)
    <2>1. changes = Renamings(text, H)
        BY <1>a, <1>b, Zenon DEF Renamings
    <2> QED
        BY <2>1, Zenon DEF Renamed
<1> USE <1>a, <1>b
<1> DEFINE L == Len(text)
           n == Cardinality(H)
           a == Ascending(H)
           After(p) == [i \in 1 .. L |-> IF i \in H /\ Rank(H, i) > n - p THEN "new" ELSE text[i]]
           h == [p \in 0 .. n |-> After(p)]
<1>1. L \in Nat /\ DOMAIN text = 1 .. L
    BY TextFacts
<1>2. H \in SUBSET Nat /\ IsFiniteSet(H)
    <2>1. H \in SUBSET (1 .. L) /\ IsFiniteSet(1 .. L)
        BY <1>1, FS_Interval
    <2> QED
        BY <1>1, <2>1, FS_Subset
<1>3. /\ n \in Nat /\ Len(a) = n
      /\ \A k \in H : Rank(H, k) \in 1 .. n
      /\ \A m \in 1 .. n : a[m] \in H /\ Rank(H, a[m]) = m
    BY <1>2, Ascends
<1>4. DOMAIN places = 1 .. n /\ \A p \in 1 .. n : places[p] = a[n - p + 1]
    BY <1>3 DEF Reverse
<1> HIDE DEF n, a
<1>5. ASSUME NEW p \in 0 .. n PROVE After(p) \in Seq(Chars) /\ Len(After(p)) = L
    BY <1>1 DEF Chars, Names
<1>6. After(0) = text
    <2>1. \A i \in H : ~(Rank(H, i) > n - 0)
        BY <1>3
    <2>2. After(0) = [i \in 1 .. L |-> text[i]]
        BY <2>1
    <2> QED
        BY <1>1, <2>2
<1>7. After(n) = [i \in DOMAIN text |-> IF i \in H THEN "new" ELSE text[i]]
    <2>1. \A i \in H : Rank(H, i) > n - n
        BY <1>3
    <2> QED
        BY <1>1, <2>1
<1>8. ASSUME NEW p \in 1 .. n PROVE After(p) = Changed(After(p - 1), changes[p])
    <2>1. PICK q : q = places[p]
        OBVIOUS
    <2>2. n - p + 1 \in 1 .. n /\ p - 1 \in 0 .. n
        BY <1>3
    <2>3. q \in H /\ q \in 1 .. L /\ Rank(H, q) = n - p + 1
        BY <1>1, <1>3, <1>4, <2>1, <2>2
    <2>4. PICK u : u = After(p - 1)
        OBVIOUS
    <2>5. u \in Seq(Chars) /\ Len(u) = L
        BY <1>5, <2>2, <2>4
    <2>6. \A i \in H : Rank(H, i) > n - (p - 1) => i > q
        <3> SUFFICES ASSUME NEW i \in H, Rank(H, i) > n - (p - 1), i <= q PROVE FALSE
            BY <1>2, <2>3
        <3>1. Rank(H, i) <= Rank(H, q)
            <4>1. i \in Nat /\ q \in Nat
                BY <1>2, <2>3
            <4> QED
                BY <1>2, <4>1, RankGrows
        <3>2. Rank(H, i) \in 1 .. n
            BY <1>3
        <3> QED
            BY <1>3, <2>3, <3>1, <3>2
    <2>7. \A i \in 1 .. q : u[i] = text[i]
        <3> SUFFICES ASSUME NEW i \in 1 .. q PROVE u[i] = text[i]
            OBVIOUS
        <3>1. ~(i \in H /\ Rank(H, i) > n - (p - 1)) /\ i \in 1 .. L
            BY <1>1, <2>3, <2>6
        <3> QED
            BY <2>4, <3>1
    <2>8. Seen(u, q - 1) = Seen(text, q - 1) /\ Seen(u, q) = Seen(text, q)
        <3>1. q \in Nat /\ q - 1 \in Nat /\ \A i \in 1 .. q - 1 : i \in 1 .. q
            BY <2>3
        <3> QED
            BY <2>7, <3>1, SeenBefore
    <2>9. changes[p] = Replacing(u, q - 1, q, <<"new">>)
        BY <1>4, <2>1, <2>8 DEF Replacing, SeenRange
    <2>10. Changed(u, changes[p]) = Splice(u, q - 1, q, <<"new">>)
        <3>1. q \in Nat /\ q - 1 \in Nat /\ q - 1 <= q /\ q <= Len(u) /\ <<"new">> \in Seq(Chars)
            BY <1>1, <2>3, <2>5 DEF Chars, Names
        <3>2. PICK new \in Seq(Chars) : new = <<"new">>
            BY <3>1
        <3>3. Changed(u, Replacing(u, q - 1, q, new)) = Splice(u, q - 1, q, new)
            BY <2>5, <3>1, Splices
        <3> QED
            BY <2>9, <3>2, <3>3
    <2>11. Splice(u, q - 1, q, <<"new">>) = [i \in 1 .. L |-> IF i = q THEN "new" ELSE u[i]]
        <3>1. "new" \in Chars
            BY DEF Chars, Names
        <3>2. q \in 1 .. Len(u)
            BY <2>3, <2>5
        <3> QED
            BY <2>5, <3>1, <3>2, SpliceOne
    <2>12. ASSUME NEW i \in 1 .. L PROVE After(p)[i] = IF i = q THEN "new" ELSE u[i]
        <3>1. i \in H /\ i # q => (Rank(H, i) > n - p <=> Rank(H, i) > n - (p - 1))
            <4> SUFFICES ASSUME i \in H, i # q PROVE Rank(H, i) > n - p <=> Rank(H, i) > n - (p - 1)
                OBVIOUS
            <4>1. Rank(H, i) # Rank(H, q)
                BY <1>2, <2>3, RankOf
            <4>2. Rank(H, i) \in 1 .. n
                BY <1>3
            <4> QED
                BY <1>3, <2>3, <4>1, <4>2
        <3>2. q \in H /\ Rank(H, q) > n - p
            BY <1>3, <2>3
        <3>3. u[i] = IF i \in H /\ Rank(H, i) > n - (p - 1) THEN "new" ELSE text[i]
            BY <2>4
        <3>4. After(p)[i] = IF i \in H /\ Rank(H, i) > n - p THEN "new" ELSE text[i]
            OBVIOUS
        <3> HIDE DEF After
        <3> QED
            BY <3>1, <3>2, <3>3, <3>4
    <2>13. After(p) = [i \in 1 .. L |-> IF i = q THEN "new" ELSE u[i]]
        BY <2>12
    <2> QED
        BY <2>4, <2>10, <2>11, <2>13
<1> HIDE DEF After
<1>9. h[0] = text /\ h[n] = After(n) /\ \A p \in 1 .. n : h[p] = Changed(h[p - 1], changes[p])
    <2>1. 0 \in 0 .. n /\ n \in 0 .. n /\ \A p \in 1 .. n : p \in 0 .. n /\ p - 1 \in 0 .. n
        BY <1>3
    <2> QED
        BY <1>6, <1>8, <2>1
<1>10. DOMAIN changes = 1 .. n
    BY <1>4
<1> HIDE DEF h
<1>11. Applied(text, changes) = h[n]
    <2>1. PICK g : g = h
        OBVIOUS
    <2>2. PICK m \in Nat : m = n
        BY <1>3
    <2>3. Between(g, text, changes, m)
        BY <1>9, <1>10, <2>1, <2>2 DEF Between
    <2>4. Applied(text, changes) = g[m]
        BY <2>3, FoldOfChanges
    <2> QED
        BY <2>1, <2>2, <2>4
<1>12. After(n) \in Seq(Chars)
    BY <1>3, <1>5
<1> QED
    BY <1>7, <1>9, <1>11, <1>12

-----------------------------------------------------------------------------
(* The diagnostics of a text.                                              *)

LEMMA SeenRanges ==
    ASSUME NEW text \in Seq(Chars), NEW i \in 0 .. Len(text), NEW j \in 0 .. Len(text)
    PROVE  RangeOf(text, i, j) = SeenRange(text, i, j) /\ SeenRange(text, i, j) \in Ranges
<1>1. PositionOf(text, i) = Seen(text, i) /\ PositionOf(text, j) = Seen(text, j)
    BY SeenByServer
<1>2. Seen(text, i) \in Position /\ Seen(text, j) \in Position
    BY SeenIs
<1> QED
    BY <1>1, <1>2 DEF RangeOf, SeenRange, Ranges

LEMMA MarkedRanges ==
    ASSUME NEW text \in Seq(Chars), NEW marks \in Marks(text)
    PROVE  marks \subseteq Ranges
<1>1. Len(text) \in Nat /\ DOMAIN text = 1 .. Len(text)
    BY TextFacts
<1>2. \A i \in Errors(text) : i - 1 \in 0 .. Len(text) /\ i \in 0 .. Len(text)
    BY <1>1 DEF Errors
<1>3. \A i \in Errors(text) : SeenRange(text, i - 1, i) \in Ranges
    BY <1>2, SeenRanges
<1>4. \A line \in (0 .. Len(text)) \X (0 .. Len(text)) : SeenRange(text, line[1], line[2]) \in Ranges
    <2> SUFFICES ASSUME NEW line \in (0 .. Len(text)) \X (0 .. Len(text))
                 PROVE  SeenRange(text, line[1], line[2]) \in Ranges
        OBVIOUS
    <2>1. line[1] \in 0 .. Len(text) /\ line[2] \in 0 .. Len(text)
        OBVIOUS
    <2> QED
        BY <2>1, SeenRanges
<1>5. \/ marks = {SeenRange(text, i - 1, i) : i \in Errors(text)}
      \/ marks = {SeenRange(text, line[1], line[2]) :
                     line \in {line \in (0 .. Len(text)) \X (0 .. Len(text)) :
                                  ErrorLine(text, line[1], line[2])}}
    BY Zenon DEF Marks
<1> QED
    BY <1>3, <1>4, <1>5

LEMMA ParserMarks ==
    ASSUME NEW text \in Seq(Chars)
    PROVE  ParserRanges(text) \in Marks(text)
<1>1. Len(text) \in Nat /\ DOMAIN text = 1 .. Len(text)
    BY TextFacts
<1>2. \A i \in Errors(text) : i - 1 \in 0 .. Len(text) /\ i \in 0 .. Len(text)
    BY <1>1 DEF Errors
<1>3. \A i \in Errors(text) : RangeOf(text, i - 1, i) = SeenRange(text, i - 1, i)
    BY <1>2, SeenRanges
<1>4. ParserRanges(text) = {SeenRange(text, i - 1, i) : i \in Errors(text)}
    BY <1>3 DEF ParserRanges
<1> QED
    BY <1>4, Zenon DEF Marks

LEMMA SameLine ==
    ASSUME NEW text \in Seq(Chars), NEW i \in 0 .. Len(text), NEW j \in 0 .. Len(text),
           Rank(Starts(text), i) = Rank(Starts(text), j)
    PROVE  LineBegin(text, i) = LineBegin(text, j)
BY Starting

LEMMA ErrorFacts ==
    ASSUME NEW text \in Seq(Chars)
    PROVE  /\ Errors(text) \in SUBSET Nat
           /\ \A i \in Errors(text) : i \in 1 .. Len(text) /\ i \in Nat /\ i <= Len(text) /\ text[i] # "nl"
<1>1. Len(text) \in Nat /\ DOMAIN text = 1 .. Len(text)
    BY TextFacts
<1>2. Errors(text) \in SUBSET (1 .. Len(text)) /\ \A i \in Errors(text) : text[i] # "nl"
    BY <1>1 DEF Errors, Names
<1>3. 1 .. Len(text) \in SUBSET Nat /\ \A i \in 1 .. Len(text) : i \in Nat /\ i <= Len(text)
    BY <1>1
<1> QED
    BY <1>2, <1>3

\* The line from b to e, with the first error in it.
AroundFirst(text, first, b, e) ==
    /\ b \in Nat /\ b < first /\ e \in Nat /\ first <= e /\ e <= Len(text)
    /\ b = 0 \/ text[b] = "nl"
    /\ \A k \in b + 1 .. e : text[k] # "nl"
    /\ e = Len(text) \/ text[e + 1] = "nl"

\* The interpreter's line is the one that has the first error, from its first character to its last.
LEMMA FirstErrorLine ==
    ASSUME NEW text \in Seq(Chars), NEW first, first = Min(Errors(text)), Errors(text) # {},
           NEW line, line = Rank(Starts(text), first), NEW starts, starts = LineStarts(text),
           NEW b, b = LineBegin(text, first),
           NEW e, e = IF line = Len(starts) THEN Len(text) ELSE starts[line + 1] - 1
    PROVE  /\ first \in 1 .. Len(text) /\ line \in 1 .. Len(starts) /\ starts[line] = b
           /\ AroundFirst(text, first, b, e)
<1>1. Len(text) \in Nat /\ DOMAIN text = 1 .. Len(text)
    BY TextFacts
<1>2. first \in Errors(text)
    BY ErrorFacts, MinOf
<1>3. /\ first \in 1 .. Len(text) /\ text[first] # "nl" /\ first \in Nat
      /\ first <= Len(text) /\ first \in 0 .. Len(text)
    BY <1>1, <1>2, ErrorFacts
<1>4. PICK S \in SUBSET Nat : S = Starts(text) /\ IsFiniteSet(S)
    BY TextFacts
<1>5. /\ starts = Ascending(S) /\ Cardinality(S) \in Nat /\ Len(starts) = Cardinality(S)
      /\ line \in 1 .. Len(starts) /\ starts[line] = b /\ line = Rank(S, first)
    BY <1>3, <1>4, Starting, Ascends
<1>6. /\ b \in Nat /\ b <= first /\ b \in S /\ \A k \in b + 1 .. first : text[k] # "nl"
    BY <1>3, <1>4, LineBegins
<1>7. b = 0 \/ (b \in DOMAIN text /\ text[b] = "nl")
    BY <1>4, <1>6 DEF Starts, LineEnds
<1>8. b < first
    BY <1>3, <1>6, <1>7
<1>9. CASE line = Len(starts)
    <2>1. ASSUME NEW k \in first + 1 .. Len(text), text[k] = "nl" PROVE FALSE
        <3>1. k \in S /\ k \in Nat /\ first < k
            BY <1>1, <1>3, <1>4, <2>1 DEF Starts, LineEnds
        <3>2. Rank(S, first) < Rank(S, k)
            BY <1>3, <1>4, <3>1, RankGrows
        <3>3. Rank(S, k) <= Cardinality(S) /\ Rank(S, k) \in Nat
            BY <1>4, <3>1, Ranks
        <3> QED
            BY <1>5, <1>9, <3>2, <3>3
    <2>2. e = Len(text)
        BY <1>9
    <2>3. \A k \in b + 1 .. e : text[k] # "nl"
        <3> SUFFICES ASSUME NEW k \in b + 1 .. Len(text) PROVE text[k] # "nl"
            BY <2>2
        <3>1. k <= first => text[k] # "nl"
            BY <1>3, <1>6
        <3>2. k > first => text[k] # "nl"
            BY <1>1, <1>3, <1>6, <2>1
        <3> QED
            BY <1>3, <1>6, <3>1, <3>2
    <2> QED
        BY <1>1, <1>3, <1>5, <1>6, <1>7, <1>8, <2>2, <2>3 DEF AroundFirst
<1>10. CASE line # Len(starts)
    <2>1. line + 1 \in 1 .. Cardinality(S)
        BY <1>5, <1>10
    <2>2. PICK s \in S : s = starts[line + 1] /\ Rank(S, s) = line + 1
        BY <1>4, <1>5, <2>1, Ascends
    <2>3. s \in Nat /\ first < s
        <3>1. s <= first <=> line + 1 <= Rank(S, first)
            BY <1>3, <1>4, <1>5, <2>1, <2>2, AscendsTo
        <3>2. s \in Nat
            OBVIOUS
        <3> QED
            BY <1>3, <1>5, <3>1, <3>2
    <2>4. s \in 1 .. Len(text) /\ s <= Len(text) /\ text[s] = "nl"
        BY <1>1, <1>3, <1>4, <2>3 DEF Starts, LineEnds
    <2>5. e = s - 1
        BY <1>10, <2>2
    <2>6. e \in Nat /\ first <= e /\ e <= Len(text) /\ e + 1 = s
        <3>1. s \in Nat /\ first \in Nat /\ Len(text) \in Nat /\ first < s /\ s <= Len(text)
            BY <1>1, <1>3, <2>3, <2>4
        <3> HIDE <1>10
        <3> QED
            BY <2>5, <3>1
    <2>7. ASSUME NEW k \in first + 1 .. e, text[k] = "nl" PROVE FALSE
        <3>0. k \in Nat /\ first < k /\ k < s /\ k \in 1 .. Len(text)
            <4>1. first \in Nat /\ e \in Nat /\ Len(text) \in Nat /\ e <= Len(text) /\ e + 1 = s
                BY <1>1, <1>3, <2>6
            <4>2. k \in first + 1 .. e
                OBVIOUS
            <4> HIDE <1>10
            <4> QED
                BY <4>1, <4>2
        <3>1. k \in S
            BY <1>1, <1>4, <2>7, <3>0 DEF Starts, LineEnds
        <3>2. Rank(S, first) < Rank(S, k)
            BY <1>3, <1>4, <3>0, <3>1, RankGrows
        <3>3. Rank(S, k) < Rank(S, s)
            BY <1>4, <2>3, <3>0, <3>1, RankGrows
        <3>4. Rank(S, k) \in Nat
            BY <1>4, <3>0, <3>1, Ranks
        <3> QED
            BY <1>5, <2>2, <3>2, <3>3, <3>4
    <2>8. \A k \in b + 1 .. e : text[k] # "nl"
        <3> SUFFICES ASSUME NEW k \in b + 1 .. e PROVE text[k] # "nl"
            OBVIOUS
        <3>1. k <= first => text[k] # "nl"
            BY <1>3, <1>6
        <3>2. k > first => k \in first + 1 .. e
            BY <1>3, <1>6, <2>6
        <3>3. k > first => text[k] # "nl"
            BY <2>7, <3>2
        <3> QED
            BY <1>3, <1>6, <2>6, <3>1, <3>3
    <2> HIDE <1>10
    <2> QED
        BY <1>3, <1>5, <1>6, <1>7, <1>8, <2>4, <2>6, <2>8 DEF AroundFirst
<1> QED
    BY <1>9, <1>10

LEMMA OneErrorLine ==
    ASSUME NEW text \in Seq(Chars), NEW first, first = Min(Errors(text)), Errors(text) # {},
           NEW b, NEW e, AroundFirst(text, first, b, e)
    PROVE  \A i, j \in 0 .. Len(text) : ErrorLine(text, i, j) <=> i = b /\ j = e
<1>1. Len(text) \in Nat /\ DOMAIN text = 1 .. Len(text)
    BY TextFacts
<1>0. /\ b \in Nat /\ b < first /\ e \in Nat /\ first <= e /\ e <= Len(text)
      /\ b = 0 \/ text[b] = "nl"
      /\ \A k \in b + 1 .. e : text[k] # "nl"
      /\ e = Len(text) \/ text[e + 1] = "nl"
    BY Zenon DEF AroundFirst
<1>2. /\ first \in Errors(text) /\ (\A i \in Errors(text) : first <= i) /\ first \in Nat
      /\ b \in Nat /\ b < first /\ e \in Nat /\ first <= e /\ e <= Len(text)
    BY <1>0, ErrorFacts, MinOf
<1>3. Min(Errors(text) \cup {Len(text) + 1}) = first
    <2>1. PICK S : S = Errors(text) \cup {Len(text) + 1}
        OBVIOUS
    <2>2. S \in SUBSET Nat /\ first \in S /\ \A k \in S : first <= k
        <3>1. \A k \in Errors(text) : k \in Nat /\ k <= Len(text)
            BY ErrorFacts
        <3>2. first <= Len(text) + 1 /\ Len(text) + 1 \in Nat
            BY <1>1, <1>2, <3>1
        <3> QED
            BY <1>2, <2>1, <3>1, <3>2
    <2> QED
        BY <2>1, <2>2, MinIs
<1>4. ASSUME NEW i \in 0 .. Len(text), NEW j \in 0 .. Len(text)
      PROVE  ErrorLine(text, i, j) <=> /\ i <= j /\ i < first /\ first <= j
                                       /\ \A k \in i + 1 .. j : text[k] # "nl"
                                       /\ i = 0 \/ text[i] = "nl"
                                       /\ j = Len(text) \/ text[j + 1] = "nl"
    BY <1>3, Zenon DEF ErrorLine
<1>5. ASSUME NEW i \in 0 .. Len(text), NEW j \in 0 .. Len(text), i = b, j = e
      PROVE  ErrorLine(text, i, j)
    <2>1. i <= j /\ i < first /\ first <= j
        BY <1>2, <1>5
    <2> QED
        BY <1>0, <1>4, <1>5, <2>1
<1>6. ASSUME NEW i \in 0 .. Len(text), NEW j \in 0 .. Len(text), ErrorLine(text, i, j)
      PROVE  i = b /\ j = e
    <2>0. Len(text) \in Nat
        BY <1>1
    <2>1. /\ i <= j /\ i < first /\ first <= j
          /\ \A k \in i + 1 .. j : text[k] # "nl"
          /\ i = 0 \/ text[i] = "nl"
          /\ j = Len(text) \/ text[j + 1] = "nl"
        BY <1>4, <1>6
    <2>2. i \in Nat /\ j \in Nat /\ j <= Len(text) /\ Len(text) \in Nat
        BY <2>0
    <2>3. ~(i < b)
        <3> SUFFICES ASSUME i < b PROVE FALSE
            OBVIOUS
        <3>1. b \in i + 1 .. j /\ b # 0
            BY <1>2, <2>1, <2>2
        <3> QED
            BY <1>0, <2>1, <3>1
    <2>4. ~(b < i)
        <3> SUFFICES ASSUME b < i PROVE FALSE
            OBVIOUS
        <3>1. i \in b + 1 .. e /\ i # 0
            BY <1>2, <2>1, <2>2
        <3> QED
            BY <1>0, <2>1, <3>1
    <2>5. ~(j < e)
        <3> SUFFICES ASSUME j < e PROVE FALSE
            OBVIOUS
        <3>1. j + 1 \in b + 1 .. e /\ j # Len(text)
            BY <1>2, <2>1, <2>2
        <3> QED
            BY <1>0, <2>1, <3>1
    <2>6. ~(e < j)
        <3> SUFFICES ASSUME e < j PROVE FALSE
            OBVIOUS
        <3>1. e + 1 \in i + 1 .. j /\ e # Len(text)
            BY <1>2, <2>1, <2>2
        <3> QED
            BY <1>0, <2>1, <3>1
    <2> QED
        BY <1>2, <2>2, <2>3, <2>4, <2>5, <2>6
<1> QED
    BY <1>5, <1>6

LEMMA InterpreterMarks ==
    ASSUME NEW text \in Seq(Chars)
    PROVE  InterpreterRanges(text) \in Marks(text)
<1> DEFINE Lines == {line \in (0 .. Len(text)) \X (0 .. Len(text)) : ErrorLine(text, line[1], line[2])}
           Marked == {SeenRange(text, line[1], line[2]) : line \in Lines}
<1>1. Len(text) \in Nat /\ DOMAIN text = 1 .. Len(text)
    BY TextFacts
<1>2. Marked \in Marks(text)
    BY Zenon DEF Marks
<1>3. CASE Errors(text) = {}
    <2>1. Min(Errors(text) \cup {Len(text) + 1}) = Len(text) + 1
        <3>1. PICK S : S = Errors(text) \cup {Len(text) + 1}
            OBVIOUS
        <3>2. S = {Len(text) + 1}
            BY <1>3, <3>1
        <3>3. S \in SUBSET Nat /\ Len(text) + 1 \in S /\ \A k \in S : Len(text) + 1 <= k
            BY <1>1, <3>2
        <3> QED
            BY <3>1, <3>3, MinIs
    <2>2. ASSUME NEW i \in 0 .. Len(text), NEW j \in 0 .. Len(text) PROVE ~ErrorLine(text, i, j)
        <3>1. ErrorLine(text, i, j) => Len(text) + 1 <= j
            BY <2>1, Zenon DEF ErrorLine
        <3>2. ~(Len(text) + 1 <= j)
            BY <1>1
        <3> QED
            BY <3>1, <3>2
    <2>3. Lines = {}
        BY <2>2
    <2>4. InterpreterRanges(text) = {}
        BY <1>3 DEF InterpreterRanges
    <2> QED
        BY <1>2, <2>3, <2>4
<1>4. CASE Errors(text) # {}
    <2>1. PICK first : first = Min(Errors(text))
        OBVIOUS
    <2>2. PICK starts : starts = LineStarts(text)
        OBVIOUS
    <2>3. PICK line : line = Rank(Starts(text), first)
        OBVIOUS
    <2>4. PICK b : b = LineBegin(text, first)
        OBVIOUS
    <2>5. PICK e : e = IF line = Len(starts) THEN Len(text) ELSE starts[line + 1] - 1
        OBVIOUS
    <2>0. /\ first \in 1 .. Len(text) /\ line \in 1 .. Len(starts) /\ starts[line] = b
          /\ AroundFirst(text, first, b, e)
        BY <1>4, <2>1, <2>2, <2>3, <2>4, <2>5, FirstErrorLine
    <2>6. /\ b \in Nat /\ b < first /\ e \in Nat /\ first <= e /\ e <= Len(text)
          /\ b = 0 \/ text[b] = "nl"
          /\ \A k \in b + 1 .. e : text[k] # "nl"
        BY <2>0, Zenon DEF AroundFirst
    <2>7. /\ b \in 0 .. Len(text) /\ e \in 0 .. Len(text) /\ first \in 0 .. Len(text)
          /\ b <= e /\ first \in Nat
        <3>1. first \in Nat /\ first <= Len(text) /\ Len(text) \in Nat
            BY <1>1, <2>0
        <3>2. b \in Nat /\ b < first /\ e \in Nat /\ first <= e /\ e <= Len(text)
            BY <2>6
        <3> QED
            BY <3>1, <3>2
    <2>8. \A i, j \in 0 .. Len(text) : ErrorLine(text, i, j) <=> i = b /\ j = e
        BY <1>4, <2>0, <2>1, OneErrorLine
    <2>9. Lines = {<<b, e>>}
        BY <2>7, <2>8
    <2>10. Marked = {SeenRange(text, b, e)}
        <3> HIDE DEF Lines
        <3> QED
            BY <2>9
    <2>11. Quantify(1 .. first, LAMBDA i : text[i] = "nl") + 1 = line
        <3>1. Rank(Starts(text), first) = Cardinality({i \in 1 .. first : text[i] = "nl"}) + 1
            BY <2>7, LineBegins
        <3> QED
            BY <2>3, <3>1 DEF Quantify
    <2>12. InterpreterRanges(text) =
              {[start |-> [line |-> line - 1, character |-> 0],
                end |-> [line |-> line - 1,
                         character |-> Utf16Len(SubSeq(text, starts[line] + 1, e))]]}
        BY <1>4, <2>1, <2>2, <2>5, <2>11 DEF InterpreterRanges
    <2>13. Utf16Len(SubSeq(text, b + 1, e)) = Units(text, b, e)
        BY <2>6, <2>7, UnitsOf
    <2>14. PICK S \in SUBSET Nat : S = Starts(text) /\ IsFiniteSet(S)
        BY TextFacts
    <2>15. Rank(S, b) = line
        BY <2>3, <2>4, <2>7, <2>14, LineBegins
    <2>16. Rank(S, e) = line
        <3>1. \A k \in S : ~(b < k /\ k <= e)
            <4> SUFFICES ASSUME NEW k \in S, b < k, k <= e PROVE FALSE
                OBVIOUS
            <4>1. k \in Nat /\ k # 0
                BY <2>6
            <4>2. text[k] = "nl" /\ k \in b + 1 .. e
                BY <2>6, <2>14, <4>1 DEF Starts, LineEnds
            <4> QED
                BY <2>6, <4>2
        <3>2. Rank(S, b) = Rank(S, e)
            BY <2>6, <2>7, <2>14, <3>1, RankGrows
        <3> QED
            BY <2>15, <3>2
    <2>17. LineBegin(text, b) = b /\ LineBegin(text, e) = b
        BY <2>3, <2>4, <2>7, <2>14, <2>15, <2>16, SameLine
    <2>18. Units(text, b, b) = 0
        BY <2>6, UnitsGrow
    <2>19. Seen(text, b) = [line |-> line - 1, character |-> 0]
        BY <2>7, <2>14, <2>15, <2>17, <2>18, SeenIs
    <2>20. Seen(text, e) = [line |-> line - 1, character |-> Units(text, b, e)]
        BY <2>7, <2>14, <2>16, <2>17, SeenIs
    <2>21. InterpreterRanges(text) = {SeenRange(text, b, e)}
        BY <2>0, <2>12, <2>13, <2>19, <2>20 DEF SeenRange
    <2> HIDE DEF Marked
    <2> QED
        BY <1>2, <2>10, <2>21
<1> QED
    BY <1>3, <1>4

-----------------------------------------------------------------------------
(* Texts along the queues.                                                 *)

\* A document as the server has it after some of its messages. One that is closed keeps the
\* number of its last opening.
States == {d \in [id : 0 .. MaxOpens, version : 0 .. MaxEdits + 1, text : Seq(Chars)] :
              d.version > 0 => d.id > 0}

\* Message m makes b of a.
Handled(a, m, b) ==
    \/ /\ m.kind = "open" /\ a.version = 0 /\ a.id < m.id /\ b.version > 0
       /\ b = [id |-> m.id, version |-> m.version, text |-> m.text]
    \/ /\ m.kind = "change" /\ a.version > 0 /\ a.version < m.version
       /\ b = [id |-> a.id, version |-> m.version, text |-> Applied(a.text, m.changes)]
    \/ /\ m.kind = "close" /\ a.version > 0
       /\ b = [id |-> a.id, version |-> 0, text |-> <<>>]
    \/ /\ m.kind = "rename" /\ a.version > 0 /\ m.from = a.id /\ b = a
       /\ \E i \in DOMAIN a.text : a.text[i] = "old" /\ m.position = Seen(a.text, i - 1)

ServerHas(d) ==
    IF doc = NoDoc THEN d.version = 0
    ELSE /\ d.version > 0
         /\ doc = [id |-> d.id, version |-> d.version, text |-> d.text, file |-> d.text]
EditorHas == [id |-> editor.opens, version |-> editor.version, text |-> editor.text]

\* h[k] is the document after k messages: what the server has comes to what the editor has.
Follows(h) ==
    /\ h \in [0 .. Len(toServer) -> States]
    /\ ServerHas(h[0]) /\ h[Len(toServer)] = EditorHas
    /\ \A k \in 1 .. Len(toServer) : Handled(h[k - 1], toServer[k], h[k])

\* What is known of a document is of an earlier opening, or of an earlier version, or it is of
\* the same text.
Earlier(a, b) ==
    /\ a.id <= b.id
    /\ a.id = b.id /\ b.version > 0 =>
          a.version > 0 /\ a.version <= b.version /\ (a.version = b.version => a.text = b.text)

OldRanges(text) == {SeenRange(text, i - 1, i) : i \in {i \in DOMAIN text : text[i] = "old"}}

\* Timers, answers to a rename and the latest diagnostics are of earlier documents, the diagnostics
\* of the same opening.
Timers == [id : 1 .. MaxOpens, version : 1 .. MaxEdits + 1, text : Seq(Chars),
           stage : {"armed", "checking"}]
TimersOf(d) == \A t \in timers : t \in Timers /\ Earlier(t, d)
Answers(e, d) ==
    \E a \in States : /\ Earlier(a, d) /\ a.version > 0 /\ e.to = a.id /\ e.version = a.version
                      /\ e.ranges = OldRanges(a.text)
                      /\ \E i \in DOMAIN a.text : a.text[i] = "old"
AnswersOf(d) == \A k \in DOMAIN toClient : toClient[k].kind = "edits" => Answers(toClient[k], d)
MarksOf(version, ranges, d) ==
    \E a \in States : /\ Earlier(a, d) /\ a.id = d.id /\ version = a.version
                      /\ ranges \in Marks(a.text)
ScreenOf(d) ==
    \A i \in Sent : Latest(i) /\ VersionShown(i) # 0 =>
        d.version > 0 /\ MarksOf(VersionShown(i), Screen(i).ranges, d)

EditorTyped ==
    /\ editor \in [opens : 0 .. MaxOpens, edits : 0 .. MaxEdits,
                   version : 0 .. MaxEdits + 1, text : Seq(Chars)]
    /\ editor.version <= editor.edits + 1 /\ (IsOpen => editor.opens > 0) /\ asked \in BOOLEAN
ScreenTyped ==
    \A i \in Sent : Diagnosed(i) =>
        VersionShown(i) \in 0 .. MaxEdits + 1 /\ Screen(i).ranges \subseteq Ranges

DInv ==
    /\ EditorTyped /\ ScreenTyped
    /\ \E h : Follows(h) /\ TimersOf(h[0]) /\ AnswersOf(h[0]) /\ ScreenOf(h[0])

-----------------------------------------------------------------------------
(* Earlier documents.                                                      *)

LEMMA Bounds == MaxEdits \in Nat /\ MaxOpens \in Nat
BY DocumentsAssumption

LEMMA StateFacts ==
    ASSUME NEW a \in States
    PROVE  /\ a.id \in Nat /\ a.version \in Nat /\ a.text \in Seq(Chars)
           /\ a.id <= MaxOpens /\ a.version <= MaxEdits + 1 /\ a.version \in 0 .. MaxEdits + 1
           /\ a.version > 0 => a.version \in 1 .. MaxEdits + 1 /\ a.id > 0 /\ a.id \in 1 .. MaxOpens
BY Bounds DEF States

LEMMA HandledEarlier ==
    ASSUME NEW a \in States, NEW b \in States, NEW m, Handled(a, m, b)
    PROVE  Earlier(a, b)
<1>1. a.id \in Nat /\ a.version \in Nat /\ b.id \in Nat /\ b.version \in Nat
    BY StateFacts
<1>2. CASE a.version = 0 /\ a.id < m.id /\ b = [id |-> m.id, version |-> m.version, text |-> m.text]
    <2>1. b.id = m.id
        BY <1>2
    <2> QED
        BY <1>1, <1>2, <2>1 DEF Earlier
<1>3. CASE /\ a.version > 0 /\ a.version < m.version
           /\ b = [id |-> a.id, version |-> m.version, text |-> Applied(a.text, m.changes)]
    <2>1. b.id = a.id /\ b.version = m.version
        BY <1>3
    <2> QED
        BY <1>1, <1>3, <2>1 DEF Earlier
<1>4. CASE b = [id |-> a.id, version |-> 0, text |-> <<>>]
    <2>1. b.id = a.id /\ b.version = 0
        BY <1>4
    <2> QED
        BY <1>1, <2>1 DEF Earlier
<1>5. CASE a.version > 0 /\ b = a
    BY <1>1, <1>5 DEF Earlier
<1> QED
    BY <1>2, <1>3, <1>4, <1>5, Zenon DEF Handled

LEMMA EarlierSame ==
    ASSUME NEW a \in States
    PROVE  Earlier(a, a)
BY StateFacts DEF Earlier

LEMMA EarlierTwice ==
    ASSUME NEW a, a.id \in Nat, a.version \in Nat, NEW b \in States, NEW c \in States,
           Earlier(a, b), Earlier(b, c)
    PROVE  Earlier(a, c)
<1>1. b.id \in Nat /\ b.version \in Nat /\ c.id \in Nat /\ c.version \in Nat
    BY StateFacts
<1> QED
    BY <1>1 DEF Earlier

LEMMA FollowsEarlier ==
    ASSUME NEW h, Follows(h), Len(toServer) \in Nat, NEW n \in 0 .. Len(toServer)
    PROVE  Earlier(h[0], h[n])
<1> DEFINE Off == {k \in 0 .. Len(toServer) : ~Earlier(h[0], h[k])}
<1>1. \A k \in 0 .. Len(toServer) : h[k] \in States
    BY DEF Follows
<1>2. Off = {}
    <2> SUFFICES ASSUME Off # {} PROVE FALSE
        OBVIOUS
    <2>1. PICK p \in Off : \A q \in Off : p <= q
        <3>1. Off \subseteq Nat
            OBVIOUS
        <3> HIDE DEF Off
        <3> QED
            BY <3>1, Least
    <2>2. p \in 0 .. Len(toServer) /\ ~Earlier(h[0], h[p])
        OBVIOUS
    <2>3. p # 0
        BY <1>1, <2>2, EarlierSame
    <2>4. p - 1 \in 0 .. Len(toServer) /\ p \in 1 .. Len(toServer) /\ 0 \in 0 .. Len(toServer)
        BY <2>2, <2>3
    <2>5. Earlier(h[0], h[p - 1])
        <3>1. p - 1 \notin Off
            <4>1. ~(p <= p - 1)
                BY <2>4
            <4> HIDE DEF Off
            <4> QED
                BY <2>1, <4>1
        <3> QED
            BY <2>4, <3>1
    <2>6. Handled(h[p - 1], toServer[p], h[p])
        BY <2>4 DEF Follows
    <2>7. Earlier(h[p - 1], h[p])
        BY <1>1, <2>2, <2>4, <2>6, HandledEarlier
    <2>8. h[0].id \in Nat /\ h[0].version \in Nat
        BY <1>1, <2>4, StateFacts
    <2> QED
        BY <1>1, <2>2, <2>4, <2>5, <2>7, <2>8, EarlierTwice
<1> QED
    BY <1>2

-----------------------------------------------------------------------------
(* Messages for the server.                                                *)

LEMMA FollowsSame ==
    ASSUME NEW h, Follows(h), UNCHANGED <<editor, toServer, doc>>
    PROVE  Follows(h)'
BY DEF Follows, ServerHas, EditorHas

LEMMA FollowsMore ==
    ASSUME ToServerOK, NEW h, Follows(h), doc' = doc, NEW m, toServer' = Append(toServer, m),
           Handled(EditorHas, m, EditorHas'), EditorHas' \in States
    PROVE  \E g : Follows(g)' /\ g[0] = h[0]
<1>1. PICK s : s = toServer
    OBVIOUS
<1>2. PICK t : t = Append(s, m)
    OBVIOUS
<1>3. /\ Len(s) \in Nat /\ Len(t) = Len(s) + 1
      /\ \A k \in 1 .. Len(s) : t[k] = s[k]
      /\ t[Len(s) + 1] = m
    BY <1>1, <1>2, Appended DEF ToServerOK
<1>4. PICK n \in Nat : n = Len(s)
    BY <1>3
<1>5. PICK d : d = EditorHas'
    OBVIOUS
<1>6. PICK g : g = [k \in 0 .. n + 1 |-> IF k <= n THEN h[k] ELSE d]
    OBVIOUS
<1>7. /\ h \in [0 .. n -> States] /\ ServerHas(h[0]) /\ h[n] = EditorHas
      /\ \A k \in 1 .. n : Handled(h[k - 1], s[k], h[k])
    BY <1>1, <1>4 DEF Follows
<1>8. g \in [0 .. n + 1 -> States] /\ g[0] = h[0] /\ g[n + 1] = d /\ g[n] = h[n]
    BY <1>5, <1>6, <1>7
<1>9. ASSUME NEW k \in 1 .. n + 1 PROVE Handled(g[k - 1], t[k], g[k])
    <2>1. CASE k <= n
        <3>1. k \in 1 .. n /\ g[k] = h[k] /\ g[k - 1] = h[k - 1]
            BY <1>6, <2>1
        <3> QED
            BY <1>3, <1>4, <1>7, <3>1
    <2>2. CASE k > n
        <3>1. k = n + 1 /\ k - 1 = n
            BY <2>2
        <3> QED
            BY <1>3, <1>4, <1>5, <1>7, <1>8, <3>1
    <2> QED
        BY <2>1, <2>2
<1>10. toServer' = t /\ Len(toServer') = n + 1
    BY <1>1, <1>2, <1>3, <1>4
<1>11. ServerHas(g[0])'
    BY <1>7, <1>8 DEF ServerHas
<1>12. Follows(g)'
    BY <1>5, <1>8, <1>9, <1>10, <1>11 DEF Follows
<1> QED
    BY <1>8, <1>12

LEMMA FollowsLess ==
    ASSUME ToServerOK, NEW h, Follows(h), toServer # <<>>
    PROVE  /\ h[0] \in States /\ h[1] \in States /\ ServerHas(h[0])
           /\ Handled(h[0], Head(toServer), h[1])
           /\ toServer' = Tail(toServer) /\ editor' = editor /\ ServerHas(h[1])' =>
                 \E g : Follows(g)' /\ g[0] = h[1]
<1>1. PICK s : s = toServer
    OBVIOUS
<1>2. PICK t : t = Tail(s)
    OBVIOUS
<1>3. /\ Len(s) \in Nat \ {0} /\ Len(t) = Len(s) - 1
      /\ \A k \in 1 .. (Len(s) - 1) : t[k] = s[k + 1]
      /\ Head(s) = s[1]
    BY <1>1, <1>2, Dropped DEF ToServerOK
<1>4. PICK n \in Nat \ {0} : n = Len(s)
    BY <1>3
<1>5. PICK g : g = [k \in 0 .. n - 1 |-> h[k + 1]]
    OBVIOUS
<1>6. /\ h \in [0 .. n -> States] /\ ServerHas(h[0]) /\ h[n] = EditorHas
      /\ \A k \in 1 .. n : Handled(h[k - 1], s[k], h[k])
    BY <1>1, <1>4 DEF Follows
<1>7. 0 \in 0 .. n /\ 1 \in 0 .. n /\ 1 \in 1 .. n /\ 1 - 1 = 0
    OBVIOUS
<1>8. h[0] \in States /\ h[1] \in States /\ Handled(h[0], Head(toServer), h[1])
    BY <1>1, <1>3, <1>6, <1>7
<1>9. g \in [0 .. n - 1 -> States] /\ g[0] = h[1] /\ g[n - 1] = h[n]
    <2>1. 0 \in 0 .. n - 1 /\ n - 1 \in 0 .. n - 1 /\ (n - 1) + 1 = n /\ 0 + 1 = 1
        OBVIOUS
    <2>2. \A k \in 0 .. n - 1 : k + 1 \in 0 .. n
        OBVIOUS
    <2> QED
        BY <1>5, <1>6, <2>1, <2>2
<1>10. ASSUME NEW k \in 1 .. n - 1 PROVE Handled(g[k - 1], t[k], g[k])
    <2>1. /\ k \in 0 .. n - 1 /\ k - 1 \in 0 .. n - 1 /\ (k - 1) + 1 = k /\ k + 1 \in 1 .. n
          /\ (k + 1) - 1 = k
        OBVIOUS
    <2>2. g[k] = h[k + 1] /\ g[k - 1] = h[k]
        BY <1>5, <2>1
    <2>3. Handled(h[k], s[k + 1], h[k + 1])
        BY <1>6, <2>1
    <2> QED
        BY <1>3, <1>4, <2>2, <2>3
<1>11. ASSUME toServer' = Tail(toServer), editor' = editor, ServerHas(h[1])' PROVE Follows(g)'
    <2>1. toServer' = t /\ Len(toServer') = n - 1
        BY <1>1, <1>2, <1>3, <1>4, <1>11
    <2>2. EditorHas' = EditorHas
        BY <1>11 DEF EditorHas
    <2>3. ServerHas(g[0])'
        BY <1>9, <1>11 DEF ServerHas
    <2> QED
        BY <1>6, <1>9, <1>10, <2>1, <2>2, <2>3 DEF Follows
<1> QED
    BY <1>6, <1>8, <1>9, <1>11

-----------------------------------------------------------------------------
(* Messages for the editor.                                                *)

\* Diagnostics that the editor has or is sent after a step, and had or was sent before it.
OldDiagnosed(i) ==
    \E p \in Sent : /\ Diagnosed(p) /\ (Latest(i)' => Latest(p))
                    /\ VersionShown(i)' = VersionShown(p) /\ Screen(i)' = Screen(p)
OldDiagnostics == \A i \in Sent' : Diagnosed(i)' => OldDiagnosed(i)
OldAnswer(k) == \E j \in DOMAIN toClient : toClient'[k] = toClient[j]
OldAnswers == \A k \in DOMAIN toClient' : toClient'[k].kind = "edits" => OldAnswer(k)

LEMMA ClientSame ==
    ASSUME UNCHANGED <<shown, toClient>>
    PROVE  OldDiagnostics /\ OldAnswers
<1>1. Sent' = Sent
    BY DEF Sent
<1>2. ASSUME NEW i \in Sent', Diagnosed(i)'
      PROVE  OldDiagnosed(i)
    <2>1. /\ Diagnosed(i) /\ (Latest(i)' => Latest(i))
          /\ VersionShown(i)' = VersionShown(i) /\ Screen(i)' = Screen(i)
        BY <1>2 DEF Diagnosed, Latest, DiagnosedIn, VersionShown, Screen
    <2> QED
        BY <1>1, <2>1 DEF OldDiagnosed
<1> QED
    BY <1>2 DEF OldDiagnostics, OldAnswers, OldAnswer

LEMMA ClientAnswers ==
    ASSUME Numbers, NEW e, e.kind = "edits", toClient' = Append(toClient, e), shown' = shown
    PROVE  /\ OldDiagnostics
           /\ \A k \in DOMAIN toClient' : toClient'[k].kind = "edits" => toClient'[k] = e \/ OldAnswer(k)
<1>1. PICK n : n = Len(toClient) + 1
    OBVIOUS
<1>2. OfClient(e)
    BY DEF OfClient
<1>3. /\ n \in Nat /\ Len(toClient') = n /\ DOMAIN toClient' = 1 .. n
      /\ DOMAIN toClient = 1 .. Len(toClient) /\ Len(toClient) \in Nat
      /\ \A k \in DOMAIN toClient : toClient'[k] = toClient[k]
      /\ toClient'[n] = e
    BY <1>1, <1>2, ClientGrows
<1>4. ASSUME NEW i \in Sent', Diagnosed(i)'
      PROVE  OldDiagnosed(i)
    <2>1. i \in Sent
        <3>1. i # n
            BY <1>1, <1>3, <1>4 DEF Diagnosed
        <3> QED
            BY <1>1, <1>3, <3>1 DEF Sent
    <2>2. i \in Nat /\ (i = 0 \/ i \in DOMAIN toClient)
        BY <1>3, <2>1 DEF Sent
    <2>3. Diagnosed(i) /\ VersionShown(i)' = VersionShown(i) /\ Screen(i)' = Screen(i)
        BY <1>3, <1>4, <2>2 DEF Diagnosed, VersionShown, Screen
    <2>4. Latest(i)' => Latest(i)
        BY <1>2, LatestMore
    <2> QED
        BY <2>1, <2>3, <2>4 DEF OldDiagnosed
<1>5. ASSUME NEW k \in DOMAIN toClient', toClient'[k] # e
      PROVE  OldAnswer(k)
    <2>1. k \in DOMAIN toClient
        BY <1>1, <1>3, <1>5
    <2> QED
        BY <1>3, <2>1 DEF OldAnswer
<1> QED
    BY <1>4, <1>5 DEF OldDiagnostics

LEMMA ClientDiagnoses ==
    ASSUME Numbers, NEW d, d.kind = "diagnostics", d.version \in Nat,
           toClient' = Append(toClient, d), shown' = shown
    PROVE  /\ OldAnswers
           /\ \A i \in Sent' : Latest(i)' => VersionShown(i)' = d.version /\ Screen(i)'.ranges = d.ranges
           /\ \A i \in Sent' : Diagnosed(i)' =>
                 \/ VersionShown(i)' = d.version /\ Screen(i)'.ranges = d.ranges
                 \/ \E p \in Sent : /\ Diagnosed(p) /\ VersionShown(i)' = VersionShown(p)
                                   /\ Screen(i)' = Screen(p)
<1>1. PICK n : n = Len(toClient) + 1
    OBVIOUS
<1>2. OfClient(d)
    BY DEF OfClient
<1>3. /\ n \in Nat /\ Len(toClient') = n /\ DOMAIN toClient' = 1 .. n
      /\ DOMAIN toClient = 1 .. Len(toClient) /\ Len(toClient) \in Nat
      /\ \A k \in DOMAIN toClient : toClient'[k] = toClient[k]
      /\ toClient'[n] = d
    BY <1>1, <1>2, ClientGrows
<1>4. ASSUME NEW k \in DOMAIN toClient', toClient'[k].kind = "edits"
      PROVE  OldAnswer(k)
    <2>1. k # n
        BY <1>3, <1>4
    <2>2. k \in DOMAIN toClient
        BY <1>1, <1>3, <2>1
    <2> QED
        BY <1>3, <2>2 DEF OldAnswer
<1>5. ASSUME NEW i \in Sent', Latest(i)'
      PROVE  VersionShown(i)' = d.version /\ Screen(i)'.ranges = d.ranges
    <2>1. Screen(i)' = [version |-> d.version, ranges |-> d.ranges] /\ VersionShown(i)' = d.version
        BY <1>2, <1>5, LatestMore
    <2> QED
        BY <2>1
<1>6. ASSUME NEW i \in Sent', Diagnosed(i)'
      PROVE  \/ VersionShown(i)' = d.version /\ Screen(i)'.ranges = d.ranges
             \/ \E p \in Sent : /\ Diagnosed(p) /\ VersionShown(i)' = VersionShown(p)
                               /\ Screen(i)' = Screen(p)
    <2>1. CASE i = n
        <3>1. n # 0
            BY <1>1, <1>3
        <3>2. VersionShown(i)' = d.version /\ Screen(i)' = [version |-> d.version, ranges |-> d.ranges]
            BY <1>3, <2>1, <3>1 DEF VersionShown, Screen
        <3> QED
            BY <3>2
    <2>2. CASE i # n
        <3>1. i \in Sent
            BY <1>1, <1>3, <2>2 DEF Sent
        <3>2. i \in Nat /\ (i = 0 \/ i \in DOMAIN toClient)
            BY <1>3, <3>1 DEF Sent
        <3>3. Diagnosed(i) /\ VersionShown(i)' = VersionShown(i) /\ Screen(i)' = Screen(i)
            BY <1>3, <1>6, <3>2 DEF Diagnosed, VersionShown, Screen
        <3> QED
            BY <3>1, <3>3
    <2> QED
        BY <2>1, <2>2
<1> QED
    BY <1>4, <1>5, <1>6 DEF OldAnswers

LEMMA ClientReads ==
    ASSUME Numbers, toClient # <<>>, toClient' = Tail(toClient),
           \/ /\ Head(toClient).kind = "diagnostics"
              /\ shown' = [version |-> Head(toClient).version, ranges |-> Head(toClient).ranges]
           \/ Head(toClient).kind = "edits" /\ shown' = shown
    PROVE  OldDiagnostics /\ OldAnswers
<1>1. /\ Len(toClient) \in Nat \ {0} /\ Len(toClient') = Len(toClient) - 1
      /\ \A k \in DOMAIN toClient' : k \in Nat \ {0} /\ k + 1 \in DOMAIN toClient
                                   /\ toClient'[k] = toClient[k + 1]
      /\ Sent = 0 .. Len(toClient) /\ Sent' = 0 .. (Len(toClient) - 1)
    BY ShownLess
<1>2. \A k \in Nat \ {0}, i \in Sent' : i < k /\ Diagnosed(i)' /\ ~DiagnosedIn(i, k)' =>
          \E p \in Sent : /\ p < k + 1 /\ Diagnosed(p) /\ ~DiagnosedIn(p, k + 1)
                         /\ VersionShown(i)' = VersionShown(p) /\ Screen(i)' = Screen(p)
    BY ShownLess
<1>3. ASSUME NEW i \in Sent', Diagnosed(i)'
      PROVE  OldDiagnosed(i)
    <2>1. i \in Nat /\ i <= Len(toClient) - 1
        BY <1>1
    <2>2. CASE Latest(i)'
        <3>1. PICK k : k = Len(toClient)
            OBVIOUS
        <3>2. k \in Nat \ {0} /\ i < k /\ Len(toClient') + 1 = k
            BY <1>1, <2>1, <3>1
        <3>3. ~DiagnosedIn(i, k)'
            BY <2>2, <3>2 DEF Latest
        <3>4. PICK p \in Sent : /\ Diagnosed(p) /\ ~DiagnosedIn(p, k + 1)
                                /\ VersionShown(i)' = VersionShown(p) /\ Screen(i)' = Screen(p)
            BY <1>2, <1>3, <3>2, <3>3
        <3>5. Latest(p)
            BY <3>1, <3>4 DEF Latest
        <3> QED
            BY <3>4, <3>5 DEF OldDiagnosed
    <2>3. CASE ~Latest(i)'
        <3>1. PICK k : k = i + 1
            OBVIOUS
        <3>2. k \in Nat \ {0} /\ i < k
            BY <2>1, <3>1
        <3>3. ~DiagnosedIn(i, k)'
            <4>1. ~(\E d \in DOMAIN toClient' : i < d /\ d < k)
                BY <1>1, <2>1, <3>1
            <4> QED
                BY <4>1 DEF DiagnosedIn
        <3>4. PICK p \in Sent : /\ Diagnosed(p)
                                /\ VersionShown(i)' = VersionShown(p) /\ Screen(i)' = Screen(p)
            BY <1>2, <1>3, <3>2, <3>3
        <3> QED
            BY <2>3, <3>4 DEF OldDiagnosed
    <2> QED
        BY <2>2, <2>3
<1>4. OldAnswers
    BY <1>1 DEF OldAnswers, OldAnswer
<1> QED
    BY <1>3, <1>4 DEF OldDiagnostics

-----------------------------------------------------------------------------
(* What is known of a document stays true of a later one.                  *)

LEMMA TypedStays == ScreenTyped /\ OldDiagnostics => ScreenTyped'
BY DEF ScreenTyped, OldDiagnostics, OldDiagnosed

LEMMA TimersStay ==
    ASSUME NEW a \in States, NEW b \in States, Earlier(a, b), TimersOf(a), NEW t \in timers
    PROVE  t \in Timers /\ Earlier(t, b)
<1>1. t \in Timers /\ Earlier(t, a)
    BY DEF TimersOf
<1>2. t.id \in Nat /\ t.version \in Nat
    BY <1>1, Bounds DEF Timers
<1> QED
    BY <1>1, <1>2, EarlierTwice

LEMMA AnswerStays ==
    ASSUME NEW b \in States, NEW c \in States, Earlier(b, c), NEW e, Answers(e, b)
    PROVE  Answers(e, c)
<1>1. PICK a \in States : /\ Earlier(a, b) /\ a.version > 0 /\ e.to = a.id /\ e.version = a.version
                          /\ e.ranges = OldRanges(a.text)
                          /\ \E i \in DOMAIN a.text : a.text[i] = "old"
    BY DEF Answers
<1>2. Earlier(a, c)
    BY <1>1, StateFacts, EarlierTwice
<1> QED
    BY <1>1, <1>2 DEF Answers

LEMMA AnswersStay ==
    ASSUME NEW b \in States, NEW c \in States, Earlier(b, c), AnswersOf(b), OldAnswers
    PROVE  AnswersOf(c)'
<1>1. ASSUME NEW k \in DOMAIN toClient', toClient'[k].kind = "edits"
      PROVE  Answers(toClient'[k], c)
    <2>1. PICK j \in DOMAIN toClient : toClient'[k] = toClient[j]
        BY <1>1 DEF OldAnswers, OldAnswer
    <2>2. Answers(toClient[j], b)
        BY <1>1, <2>1 DEF AnswersOf
    <2> QED
        BY <2>1, <2>2, AnswerStays
<1> QED
    BY <1>1 DEF AnswersOf

LEMMA MarksStay ==
    ASSUME NEW b \in States, NEW c \in States, Earlier(b, c), b.id = c.id,
           NEW version, NEW ranges, MarksOf(version, ranges, b)
    PROVE  MarksOf(version, ranges, c)
<1>1. PICK a \in States : /\ Earlier(a, b) /\ a.id = b.id /\ version = a.version
                          /\ ranges \in Marks(a.text)
    BY DEF MarksOf
<1>2. Earlier(a, c)
    BY <1>1, StateFacts, EarlierTwice
<1> QED
    BY <1>1, <1>2 DEF MarksOf

LEMMA ScreenStays ==
    ASSUME NEW b \in States, NEW c \in States, Earlier(b, c), ScreenOf(b), OldDiagnostics,
           b.version > 0 => b.id = c.id /\ c.version > 0
    PROVE  ScreenOf(c)'
<1>1. ASSUME NEW i \in Sent', Latest(i)', VersionShown(i)' # 0
      PROVE  c.version > 0 /\ MarksOf(VersionShown(i)', Screen(i)'.ranges, c)
    <2>1. PICK p \in Sent : /\ Diagnosed(p) /\ (Latest(i)' => Latest(p))
                            /\ VersionShown(i)' = VersionShown(p) /\ Screen(i)' = Screen(p)
        BY <1>1 DEF OldDiagnostics, OldDiagnosed, Latest
    <2>2. b.version > 0 /\ MarksOf(VersionShown(p), Screen(p).ranges, b)
        BY <1>1, <2>1 DEF ScreenOf
    <2>3. MarksOf(VersionShown(p), Screen(p).ranges, c)
        BY <2>2, MarksStay
    <2> QED
        BY <2>1, <2>2, <2>3
<1> QED
    BY <1>1 DEF ScreenOf

-----------------------------------------------------------------------------
(* The server serves a message.                                            *)

LEMMA DocumentServed ==
    ASSUME NEW d \in States, ServerHas(d), doc # NoDoc
    PROVE  /\ doc = [id |-> d.id, version |-> d.version, text |-> d.text, file |-> d.text]
           /\ d.version > 0 /\ d.version \in 1 .. MaxEdits + 1 /\ d.id \in 0 .. MaxOpens
           /\ d.text \in Seq(Chars)
           /\ doc.id = d.id /\ doc.version = d.version /\ doc.text = d.text /\ doc.file = d.text
<1>1. /\ doc = [id |-> d.id, version |-> d.version, text |-> d.text, file |-> d.text]
      /\ d.version > 0
    BY DEF ServerHas
<1>2. d.version \in 1 .. MaxEdits + 1 /\ d.id \in 0 .. MaxOpens /\ d.text \in Seq(Chars)
    BY <1>1, StateFacts, Bounds DEF States
<1> QED
    BY <1>1, <1>2

\* The document that was parsed again, with its timer.
LEMMA ReparsedHas ==
    ASSUME NEW a \in States, NEW b \in States, Earlier(a, b), TimersOf(a), b.version > 0, b.id > 0,
           NEW new, new = [id |-> b.id, version |-> b.version, text |-> b.text, file |-> new.file],
           Reparse(new)
    PROVE  ServerHas(b)' /\ TimersOf(b)'
<1>1. PICK r : r = [id |-> new.id, version |-> new.version, text |-> new.text, stage |-> "armed"]
    OBVIOUS
<1>2. /\ doc' = [new EXCEPT !.file = new.text]
      /\ timers' = {t \in timers : t.id # new.id \/ t.stage # "armed"} \cup {r}
    BY <1>1 DEF Reparse
<1>3. r = [id |-> b.id, version |-> b.version, text |-> b.text, stage |-> "armed"]
    BY <1>1
<1>4. doc' = [id |-> b.id, version |-> b.version, text |-> b.text, file |-> b.text]
    BY <1>2
<1>5. doc' # NoDoc
    <2>1. doc'.version = b.version /\ "id" \in DOMAIN doc'
        BY <1>4
    <2> QED
        BY <2>1 DEF NoDoc
<1>6. ServerHas(b)'
    BY <1>4, <1>5 DEF ServerHas, NoDoc
<1>7. r \in Timers /\ Earlier(r, b)
    <2>1. b.id \in 1 .. MaxOpens /\ b.version \in 1 .. MaxEdits + 1 /\ b.text \in Seq(Chars)
        BY StateFacts, Bounds
    <2>2. r \in Timers
        BY <1>3, <2>1 DEF Timers
    <2>3. r.id = b.id /\ r.version = b.version /\ r.text = b.text
        BY <1>3
    <2> QED
        BY <2>1, <2>2, <2>3 DEF Earlier
<1>8. ASSUME NEW t \in timers'
      PROVE  t \in Timers /\ Earlier(t, b)
    <2>1. CASE t = r
        BY <1>7, <2>1
    <2>2. CASE t # r
        <3>1. t \in timers
            BY <1>2, <2>2
        <3> QED
            BY <3>1, TimersStay
    <2> QED
        BY <2>1, <2>2
<1>9. TimersOf(b)'
    BY <1>8 DEF TimersOf
<1> QED
    BY <1>6, <1>9

\* The edits the server answers a rename with are those of the name in the document it has.
LEMMA RenameAnswers ==
    ASSUME NEW a \in States, NEW m, Handled(a, m, a), m.kind = "rename", ServerHas(a), doc # NoDoc
    PROVE  Answers(RenameEdits(m), a)
<1>1. a.version > 0 /\ m.from = a.id
    BY DEF Handled
<1>2. PICK i \in DOMAIN a.text : a.text[i] = "old" /\ m.position = Seen(a.text, i - 1)
    BY DEF Handled
<1>3. PICK text \in Seq(Chars) : text = a.text
    BY StateFacts
<1>4. i \in 1 .. Len(text) /\ i - 1 \in 0 .. Len(text) /\ Len(text) \in Nat /\ DOMAIN text = 1 .. Len(text)
    BY <1>2, <1>3
<1>5. OffsetOf(text, m.position) + 1 = i
    <2>1. OffsetOf(text, m.position) = i - 1
        BY <1>2, <1>3, <1>4, OffsetOfSeen
    <2> QED
        BY <1>4, <2>1
<1>6. doc.file = text /\ doc.version = a.version
    BY <1>3, DocumentServed
<1>7. RenameEdits(m).ranges = {RangeOf(text, k - 1, k) : k \in {k \in DOMAIN text : text[k] = "old"}}
    <2>1. OffsetOf(text, m.position) + 1 \in DOMAIN text /\ text[OffsetOf(text, m.position) + 1] = "old"
        BY <1>2, <1>3, <1>5
    <2> QED
        BY <1>6, <2>1, Zenon DEF RenameEdits
<1>8. RenameEdits(m).to = m.from /\ RenameEdits(m).version = a.version
    BY <1>6 DEF RenameEdits
<1>9. {RangeOf(text, k - 1, k) : k \in {k \in DOMAIN text : text[k] = "old"}} = OldRanges(text)
    <2>1. ASSUME NEW k \in DOMAIN text
          PROVE  RangeOf(text, k - 1, k) = SeenRange(text, k - 1, k)
        <3>1. k - 1 \in 0 .. Len(text) /\ k \in 0 .. Len(text)
            BY <1>4
        <3> QED
            BY <3>1, SeenRanges
    <2> QED
        BY <2>1, Zenon DEF OldRanges
<1>10. Earlier(a, a)
    BY EarlierSame
<1> QED
    BY <1>1, <1>2, <1>3, <1>7, <1>8, <1>9, <1>10 DEF Answers

\* The other half of what is to be shown of a served message.
LEMMA Serves ==
    ASSUME VInv, EditorTyped, ScreenTyped', NEW h, Follows(h), toServer # <<>>,
           toServer' = Tail(toServer), editor' = editor, asked' = asked,
           ServerHas(h[1])', TimersOf(h[1])', AnswersOf(h[1])', ScreenOf(h[1])'
    PROVE  DInv'
<1>1. PICK g : Follows(g)' /\ g[0] = h[1]
    BY FollowsLess DEF VInv, Numbers
<1>2. EditorTyped'
    BY DEF EditorTyped, IsOpen
<1>3. TimersOf(g[0])' /\ AnswersOf(g[0])' /\ ScreenOf(g[0])'
    BY <1>1
<1> QED
    BY <1>1, <1>2, <1>3 DEF DInv

LEMMA ServeD == VInv /\ DInv /\ Serve => DInv'
<1> SUFFICES ASSUME VInv, DInv, Serve
             PROVE  DInv'
    OBVIOUS
<1>1. /\ toServer # <<>> /\ toServer' = Tail(toServer)
      /\ editor' = editor /\ shown' = shown /\ asked' = asked
    BY DEF Serve, editorVars
<1>2. PICK m : m = Head(toServer)
    OBVIOUS
<1>3. PICK h : Follows(h) /\ TimersOf(h[0]) /\ AnswersOf(h[0]) /\ ScreenOf(h[0])
    BY DEF DInv
<1>4. PICK a, b : a = h[0] /\ b = h[1]
    OBVIOUS
<1>5. a \in States /\ b \in States /\ ServerHas(a) /\ Handled(a, m, b)
    BY <1>1, <1>2, <1>3, <1>4, FollowsLess DEF VInv, Numbers
<1>6. Earlier(a, b)
    BY <1>5, HandledEarlier
<1>7. SUFFICES ScreenTyped' /\ ServerHas(b)' /\ TimersOf(b)' /\ AnswersOf(b)' /\ ScreenOf(b)'
    BY <1>1, <1>3, <1>4, Serves DEF DInv
<1>8. EditorTyped /\ ScreenTyped /\ TimersOf(a) /\ AnswersOf(a) /\ ScreenOf(a) /\ Numbers
    BY <1>3, <1>4 DEF DInv, VInv
<1>9. CASE DidOpen(m)
    <2>1. m.kind = "open" /\ toClient' = toClient
        BY <1>9 DEF DidOpen
    <2>2. /\ a.version = 0 /\ a.id < m.id /\ b.version > 0
          /\ b = [id |-> m.id, version |-> m.version, text |-> m.text]
        BY <1>5, <2>1 DEF Handled
    <2>3. PICK new : new = [id |-> m.id, version |-> m.version, text |-> m.text, file |-> <<>>]
        OBVIOUS
    <2>4. Reparse(new)
        BY <1>9, <2>3 DEF DidOpen
    <2>5. b.id > 0 /\ new = [id |-> b.id, version |-> b.version, text |-> b.text, file |-> new.file]
        <3>1. b.id = m.id
            BY <2>2
        <3>2. b.id > 0
            BY <1>5, <2>2, <3>1, StateFacts
        <3> QED
            BY <2>2, <2>3, <3>2
    <2>6. ServerHas(b)' /\ TimersOf(b)'
        BY <1>5, <1>6, <1>8, <2>2, <2>4, <2>5, ReparsedHas
    <2>7. OldDiagnostics /\ OldAnswers
        BY <1>1, <2>1, ClientSame
    <2> QED
        BY <1>5, <1>6, <1>8, <2>2, <2>6, <2>7, TypedStays, AnswersStay, ScreenStays
<1>10. CASE UnknownDocument(m)
    <2>1. m.kind \in {"change", "close", "rename"} /\ doc = NoDoc
        BY <1>10 DEF UnknownDocument
    <2>2. a.version > 0
        BY <1>5, <2>1 DEF Handled
    <2>3. a.version = 0
        BY <1>5, <2>1 DEF ServerHas
    <2> QED
        BY <2>2, <2>3
<1>11. CASE doc # NoDoc /\ DidChange(m)
    <2>1. m.kind = "change" /\ toClient' = toClient
        BY <1>11 DEF DidChange
    <2>2. /\ a.version > 0 /\ a.version < m.version
          /\ b = [id |-> a.id, version |-> m.version, text |-> Applied(a.text, m.changes)]
        BY <1>5, <2>1 DEF Handled
    <2>3. /\ doc = [id |-> a.id, version |-> a.version, text |-> a.text, file |-> a.text]
          /\ doc.text = a.text
        BY <1>5, <1>11, DocumentServed
    <2>4. PICK new : new = [doc EXCEPT !.version = m.version, !.text = Applied(doc.text, m.changes)]
        OBVIOUS
    <2>5. Reparse(new)
        BY <1>11, <2>4, Zenon DEF DidChange, Applied
    <2>6. b.version > 0 /\ b.id > 0
        <3>1. b.id = a.id /\ b.version = m.version
            BY <2>2
        <3> QED
            BY <1>5, <2>2, <2>3, <3>1, StateFacts
    <2>7. new = [id |-> b.id, version |-> b.version, text |-> b.text, file |-> new.file]
        BY <2>2, <2>3, <2>4
    <2>8. ServerHas(b)' /\ TimersOf(b)'
        BY <1>5, <1>6, <1>8, <2>5, <2>6, <2>7, ReparsedHas
    <2>9. OldDiagnostics /\ OldAnswers
        BY <1>1, <2>1, ClientSame
    <2>10. b.id = a.id
        BY <2>2
    <2> QED
        BY <1>5, <1>6, <1>8, <2>6, <2>8, <2>9, <2>10, TypedStays, AnswersStay, ScreenStays
<1>12. CASE doc # NoDoc /\ DidClose(m)
    <2>1. m.kind = "close" /\ doc' = NoDoc /\ timers' \subseteq timers
        BY <1>12 DEF DidClose
    <2>2. b.version = 0
        <3>1. b = [id |-> a.id, version |-> 0, text |-> <<>>]
            BY <1>5, <2>1 DEF Handled
        <3> QED
            BY <3>1
    <2>3. ServerHas(b)'
        BY <2>1, <2>2 DEF ServerHas, NoDoc
    <2>4. TimersOf(b)'
        <3>1. ASSUME NEW t \in timers'
              PROVE  t \in Timers /\ Earlier(t, b)
            <4>1. t \in timers
                BY <2>1
            <4> QED
                BY <1>5, <1>6, <1>8, <4>1, TimersStay
        <3> QED
            BY <3>1 DEF TimersOf
    <2>5. PICK d : d = Diagnostics(0, {})
        OBVIOUS
    <2>6. d.kind = "diagnostics" /\ d.version = 0 /\ d.ranges = {} /\ toClient' = Append(toClient, d)
        BY <1>12, <2>5 DEF DidClose, Diagnostics
    <2>7. /\ OldAnswers
          /\ \A i \in Sent' : Latest(i)' => VersionShown(i)' = 0
          /\ \A i \in Sent' : Diagnosed(i)' =>
                \/ VersionShown(i)' = 0 /\ Screen(i)'.ranges = {}
                \/ \E p \in Sent : /\ Diagnosed(p) /\ VersionShown(i)' = VersionShown(p)
                                  /\ Screen(i)' = Screen(p)
        BY <1>1, <1>8, <2>6, ClientDiagnoses
    <2>8. ScreenTyped'
        <3>1. 0 \in 0 .. MaxEdits + 1 /\ {} \subseteq Ranges
            BY Bounds
        <3> QED
            BY <1>8, <2>7, <3>1 DEF ScreenTyped
    <2>9. ScreenOf(b)'
        BY <2>7 DEF ScreenOf
    <2> QED
        BY <1>5, <1>6, <1>8, <2>3, <2>4, <2>7, <2>8, <2>9, AnswersStay
<1>13. CASE doc # NoDoc /\ Rename(m)
    <2>1. m.kind = "rename" /\ UNCHANGED <<doc, timers>> /\ toClient' = Append(toClient, RenameEdits(m))
        BY <1>13 DEF Rename
    <2>2. b = a /\ a.version > 0
        BY <1>5, <2>1 DEF Handled
    <2>3. ServerHas(b)' /\ TimersOf(b)'
        BY <1>5, <1>8, <2>1, <2>2 DEF ServerHas, TimersOf
    <2>4. PICK e : e = RenameEdits(m)
        OBVIOUS
    <2>5. e.kind = "edits" /\ toClient' = Append(toClient, e)
        BY <2>1, <2>4 DEF RenameEdits
    <2>6. /\ OldDiagnostics
          /\ \A k \in DOMAIN toClient' : toClient'[k].kind = "edits" => toClient'[k] = e \/ OldAnswer(k)
        BY <1>1, <1>8, <2>5, ClientAnswers
    <2>7. Answers(e, a)
        BY <1>5, <1>13, <2>1, <2>2, <2>4, RenameAnswers
    <2>8. AnswersOf(b)'
        <3>1. ASSUME NEW k \in DOMAIN toClient', toClient'[k].kind = "edits"
              PROVE  Answers(toClient'[k], b)
            <4>1. CASE toClient'[k] = e
                BY <2>2, <2>7, <4>1
            <4>2. CASE OldAnswer(k)
                <5>1. PICK j \in DOMAIN toClient : toClient'[k] = toClient[j]
                    BY <4>2 DEF OldAnswer
                <5> QED
                    BY <1>8, <2>2, <3>1, <5>1 DEF AnswersOf
            <4> QED
                BY <2>6, <3>1, <4>1, <4>2
        <3> QED
            BY <3>1 DEF AnswersOf
    <2>9. ScreenOf(b)'
        BY <1>5, <1>6, <1>8, <2>2, <2>6, ScreenStays
    <2> QED
        BY <1>8, <2>3, <2>6, <2>8, <2>9, TypedStays
<1> QED
    <2>1. \/ DidOpen(m) \/ UnknownDocument(m)
          \/ doc # NoDoc /\ (DidChange(m) \/ DidClose(m) \/ Rename(m))
        BY <1>2 DEF Serve
    <2> QED
        BY <1>9, <1>10, <1>11, <1>12, <1>13, <2>1

-----------------------------------------------------------------------------
(* The timers.                                                             *)

LEMMA TimersD ==
    ASSUME VInv, DInv, UNCHANGED <<editor, asked, toServer, doc>>, ScreenTyped',
           \A a \in States : ServerHas(a) /\ TimersOf(a) /\ AnswersOf(a) /\ ScreenOf(a) =>
                                TimersOf(a)' /\ AnswersOf(a)' /\ ScreenOf(a)'
    PROVE  DInv'
<1>1. PICK h : Follows(h) /\ TimersOf(h[0]) /\ AnswersOf(h[0]) /\ ScreenOf(h[0])
    BY DEF DInv
<1>2. ServerHas(h[0]) /\ h[0] \in States
    <2>1. Len(toServer) \in Nat
        BY ServerFacts DEF VInv
    <2> QED
        BY <1>1, <2>1 DEF Follows
<1>3. TimersOf(h[0])' /\ AnswersOf(h[0])' /\ ScreenOf(h[0])'
    BY <1>1, <1>2
<1>4. Follows(h)'
    BY <1>1, FollowsSame
<1>5. EditorTyped'
    BY DEF DInv, EditorTyped, IsOpen
<1> QED
    BY <1>3, <1>4, <1>5 DEF DInv

LEMMA TimerFiresD == ASSUME NEW t \in timers
                     PROVE  VInv /\ DInv /\ TimerFires(t) => DInv'
<1> SUFFICES ASSUME VInv, DInv, TimerFires(t)
             PROVE  DInv'
    OBVIOUS
<1>1. PICK c : c = [t EXCEPT !.stage = "checking"]
    OBVIOUS
<1>2. UNCHANGED <<editor, shown, asked, toServer, toClient, doc>> /\ timers' = (timers \ {t}) \cup {c}
    BY <1>1 DEF TimerFires, Fired, editorVars
<1>3. OldDiagnostics /\ OldAnswers
    BY <1>2, ClientSame
<1>4. ASSUME NEW a \in States, TimersOf(a), AnswersOf(a), ScreenOf(a)
      PROVE  TimersOf(a)' /\ AnswersOf(a)' /\ ScreenOf(a)'
    <2>1. t \in Timers /\ Earlier(t, a)
        BY <1>4 DEF TimersOf
    <2>2. c \in Timers /\ c.id = t.id /\ c.version = t.version /\ c.text = t.text
        BY <1>1, <2>1 DEF Timers
    <2>3. Earlier(c, a)
        BY <2>1, <2>2 DEF Earlier
    <2>4. TimersOf(a)'
        BY <1>2, <1>4, <2>2, <2>3 DEF TimersOf
    <2>5. Earlier(a, a)
        BY EarlierSame
    <2> QED
        BY <1>3, <1>4, <2>4, <2>5, AnswersStay, ScreenStays
<1>5. ScreenTyped'
    BY <1>3, TypedStays DEF DInv
<1> QED
    BY <1>2, <1>4, <1>5, TimersD

\* What a timer publishes is of the text the server has: the document is still the one of the
\* timer, and so is its version, each of which has one text.
LEMMA PublishD == ASSUME NEW t \in timers
                  PROVE  VInv /\ DInv /\ Publish(t) => DInv'
<1> SUFFICES ASSUME VInv, DInv, Publish(t)
             PROVE  DInv'
    OBVIOUS
<1>1. UNCHANGED <<editor, shown, asked, toServer, doc>> /\ timers' = timers \ {t}
    BY DEF Publish, editorVars
<1>2. ASSUME NEW a, TimersOf(a)
      PROVE  TimersOf(a)'
    BY <1>1, <1>2 DEF TimersOf
<1>3. CASE ~StillCurrent(t)
    <2>1. toClient' = toClient
        BY <1>3 DEF Publish
    <2>2. OldDiagnostics /\ OldAnswers
        BY <1>1, <2>1, ClientSame
    <2>3. ASSUME NEW a \in States, TimersOf(a), AnswersOf(a), ScreenOf(a)
          PROVE  TimersOf(a)' /\ AnswersOf(a)' /\ ScreenOf(a)'
        <3>1. Earlier(a, a)
            BY EarlierSame
        <3> QED
            BY <1>2, <2>2, <2>3, <3>1, AnswersStay, ScreenStays
    <2>4. ScreenTyped'
        BY <2>2, TypedStays DEF DInv
    <2> QED
        BY <1>1, <2>3, <2>4, TimersD
<1>4. CASE StillCurrent(t)
    <2>1. PICK ranges \in {ParserRanges(t.text)} \cup (IF UseInterpreter THEN {InterpreterRanges(t.text)} ELSE {}) :
              toClient' = Append(toClient, Diagnostics(t.version, ranges))
        BY <1>4 DEF Publish
    <2>2. PICK d : d = Diagnostics(t.version, ranges)
        OBVIOUS
    <2>3. t \in Timers
        <3>1. PICK h : Follows(h) /\ TimersOf(h[0])
            BY DEF DInv
        <3> QED
            BY <3>1 DEF TimersOf
    <2>4. t.version \in 1 .. MaxEdits + 1 /\ t.version \in Nat /\ t.text \in Seq(Chars)
        BY <2>3, Bounds DEF Timers
    <2>5. /\ d.kind = "diagnostics" /\ d.version = t.version /\ d.ranges = ranges
          /\ toClient' = Append(toClient, d)
        BY <2>1, <2>2 DEF Diagnostics
    <2>6. ranges \in Marks(t.text)
        BY <2>1, <2>4, ParserMarks, InterpreterMarks
    <2>7. /\ OldAnswers
          /\ \A i \in Sent' : Latest(i)' => VersionShown(i)' = t.version /\ Screen(i)'.ranges = ranges
          /\ \A i \in Sent' : Diagnosed(i)' =>
                \/ VersionShown(i)' = t.version /\ Screen(i)'.ranges = ranges
                \/ \E p \in Sent : /\ Diagnosed(p) /\ VersionShown(i)' = VersionShown(p)
                                  /\ Screen(i)' = Screen(p)
        BY <1>1, <2>4, <2>5, ClientDiagnoses DEF VInv
    <2>8. ScreenTyped'
        <3>1. t.version \in 0 .. MaxEdits + 1 /\ ranges \subseteq Ranges
            BY <2>4, <2>6, Bounds, MarkedRanges
        <3> QED
            BY <2>7, <3>1 DEF DInv, ScreenTyped
    <2>9. ASSUME NEW a \in States, ServerHas(a), TimersOf(a), AnswersOf(a), ScreenOf(a)
          PROVE  TimersOf(a)' /\ AnswersOf(a)' /\ ScreenOf(a)'
        <3>1. doc # NoDoc /\ doc.id = t.id /\ doc.version = t.version
            BY <1>4 DEF StillCurrent
        <3>2. a.version > 0 /\ doc.id = a.id /\ doc.version = a.version
            BY <2>9, <3>1, DocumentServed
        <3>3. Earlier(t, a)
            BY <2>9 DEF TimersOf
        <3>4. t.text = a.text
            BY <3>1, <3>2, <3>3 DEF Earlier
        <3>5. Earlier(a, a)
            BY EarlierSame
        <3>6. MarksOf(t.version, ranges, a)
            BY <2>6, <3>1, <3>2, <3>4, <3>5 DEF MarksOf
        <3>7. ScreenOf(a)'
            BY <2>7, <3>2, <3>6 DEF ScreenOf
        <3> QED
            BY <1>2, <2>7, <2>9, <3>5, <3>7, AnswersStay
    <2> QED
        BY <1>1, <2>8, <2>9, TimersD
<1> QED
    BY <1>3, <1>4

-----------------------------------------------------------------------------
(* The editor.                                                             *)

\* The editor tells the server what it did.
LEMMA EditorSends ==
    ASSUME VInv, DInv, NEW m, toServer' = Append(toServer, m), UNCHANGED <<doc, timers>>,
           OldDiagnostics, OldAnswers, EditorTyped', Handled(EditorHas, m, EditorHas')
    PROVE  DInv'
<1>1. PICK h : Follows(h) /\ TimersOf(h[0]) /\ AnswersOf(h[0]) /\ ScreenOf(h[0])
    BY DEF DInv
<1>2. EditorHas' \in States
    BY DEF EditorTyped, EditorHas, IsOpen, States
<1>3. PICK g : Follows(g)' /\ g[0] = h[0]
    BY <1>1, <1>2, FollowsMore DEF VInv, Numbers
<1>4. PICK a : a = h[0]
    OBVIOUS
<1>5. a \in States
    <2>1. Len(toServer) \in Nat
        BY ServerFacts DEF VInv
    <2> QED
        BY <1>1, <1>4, <2>1 DEF Follows
<1>6. Earlier(a, a)
    BY <1>5, EarlierSame
<1>7. TimersOf(a)'
    BY <1>1, <1>4 DEF TimersOf
<1>8. AnswersOf(a)' /\ ScreenOf(a)'
    BY <1>1, <1>4, <1>5, <1>6, AnswersStay, ScreenStays
<1>9. ScreenTyped'
    BY TypedStays DEF DInv
<1>10. TimersOf(g[0])' /\ AnswersOf(g[0])' /\ ScreenOf(g[0])'
    BY <1>3, <1>4, <1>7, <1>8
<1> QED
    BY <1>3, <1>9, <1>10 DEF DInv

\* The editor takes what it is sent and has nothing to say.
LEMMA EditorReads ==
    ASSUME VInv, DInv, UNCHANGED <<editor, toServer, doc, timers>>, asked' \in BOOLEAN,
           OldDiagnostics, OldAnswers
    PROVE  DInv'
<1>1. PICK h : Follows(h) /\ TimersOf(h[0]) /\ AnswersOf(h[0]) /\ ScreenOf(h[0])
    BY DEF DInv
<1>2. h[0] \in States
    <2>1. Len(toServer) \in Nat
        BY ServerFacts DEF VInv
    <2> QED
        BY <1>1, <2>1 DEF Follows
<1>3. Earlier(h[0], h[0])
    BY <1>2, EarlierSame
<1>4. TimersOf(h[0])'
    BY <1>1 DEF TimersOf
<1>5. AnswersOf(h[0])' /\ ScreenOf(h[0])'
    BY <1>1, <1>2, <1>3, AnswersStay, ScreenStays
<1>6. ScreenTyped' /\ EditorTyped' /\ Follows(h)'
    BY <1>1, TypedStays, FollowsSame DEF DInv, EditorTyped, IsOpen
<1> QED
    BY <1>4, <1>5, <1>6 DEF DInv

LEMMA EditorFacts ==
    ASSUME EditorTyped
    PROVE  /\ editor.opens \in Nat /\ editor.edits \in Nat /\ editor.version \in Nat
           /\ editor.opens <= MaxOpens /\ editor.edits <= MaxEdits /\ editor.version <= editor.edits + 1
           /\ editor.text \in Seq(Chars)
           /\ (IsOpen => editor.opens > 0) /\ (IsOpen <=> editor.version > 0)
BY Bounds DEF EditorTyped, IsOpen

LEMMA OpenD == ASSUME NEW text \in Texts
               PROVE  VInv /\ DInv /\ Open(text) => DInv'
<1> SUFFICES ASSUME VInv, DInv, Open(text)
             PROVE  DInv'
    OBVIOUS
<1>1. /\ ~IsOpen /\ editor.opens < MaxOpens
      /\ editor' = [editor EXCEPT !.opens = @ + 1, !.version = 1, !.text = text]
      /\ toServer' = Append(toServer, OpenMessage(editor'))
      /\ UNCHANGED <<shown, asked, toClient, doc, timers>>
    BY DEF Open
<1>2. EditorTyped /\ text \in Seq(Chars)
    BY DocumentsAssumption DEF DInv
<1>3. /\ editor'.opens = editor.opens + 1 /\ editor'.version = 1 /\ editor'.text = text
      /\ editor'.edits = editor.edits
    BY <1>1, <1>2 DEF EditorTyped
<1>4. EditorTyped'
    <2>1. editor.opens + 1 \in 0 .. MaxOpens /\ 1 \in 0 .. MaxEdits + 1
        BY <1>1, <1>2, EditorFacts, Bounds
    <2>2. editor' \in [opens : 0 .. MaxOpens, edits : 0 .. MaxEdits, version : 0 .. MaxEdits + 1,
                       text : Seq(Chars)]
        BY <1>1, <1>2, <2>1 DEF EditorTyped
    <2>3. editor'.version <= editor'.edits + 1 /\ (editor'.version > 0 => editor'.opens > 0)
        BY <1>1, <1>2, <1>3, <2>1, EditorFacts
    <2> QED
        BY <1>1, <1>2, <2>2, <2>3 DEF EditorTyped, IsOpen
<1>5. PICK m : m = OpenMessage(editor')
    OBVIOUS
<1>6. Handled(EditorHas, m, EditorHas')
    <2>1. /\ m.kind = "open" /\ m.id = editor.opens + 1 /\ m.version = 1 /\ m.text = text
        BY <1>3, <1>5 DEF OpenMessage
    <2>2. EditorHas' = [id |-> editor.opens + 1, version |-> 1, text |-> text]
        BY <1>3 DEF EditorHas
    <2>3. EditorHas.version = 0 /\ EditorHas.id = editor.opens
        BY <1>1, <1>2, EditorFacts DEF EditorHas
    <2>4. EditorHas.id < m.id
        BY <1>2, <2>1, <2>3, EditorFacts
    <2>5. EditorHas'.version > 0 /\ EditorHas' = [id |-> m.id, version |-> m.version, text |-> m.text]
        BY <2>1, <2>2
    <2> QED
        BY <2>1, <2>3, <2>4, <2>5 DEF Handled
<1> QED
    BY <1>1, <1>4, <1>5, <1>6, ClientSame, EditorSends

\* The editor's changes make its next text of the one before.
LEMMA SendD ==
    ASSUME VInv, DInv, IsOpen, editor.edits < MaxEdits, NEW text \in Seq(Chars), NEW changes,
           Send(text, changes), Applied(editor.text, changes) = text, asked' \in BOOLEAN,
           UNCHANGED <<doc, timers>>, OldDiagnostics, OldAnswers
    PROVE  DInv'
<1>1. /\ editor' = [editor EXCEPT !.edits = @ + 1, !.version = @ + 1, !.text = text]
      /\ toServer' = Append(toServer, [kind |-> "change", version |-> editor'.version, changes |-> changes])
    BY DEF Send
<1>2. EditorTyped
    BY DEF DInv
<1>3. /\ editor'.opens = editor.opens /\ editor'.version = editor.version + 1 /\ editor'.text = text
      /\ editor'.edits = editor.edits + 1
    BY <1>1, <1>2 DEF EditorTyped
<1>4. editor.edits + 1 \in 0 .. MaxEdits /\ editor.version + 1 \in 0 .. MaxEdits + 1
    BY <1>2, EditorFacts, Bounds
<1>5. editor' \in [opens : 0 .. MaxOpens, edits : 0 .. MaxEdits, version : 0 .. MaxEdits + 1,
                   text : Seq(Chars)]
    BY <1>1, <1>2, <1>4 DEF EditorTyped
<1>6. EditorTyped'
    BY <1>2, <1>3, <1>5, EditorFacts DEF EditorTyped, IsOpen
<1>7. PICK m : m = [kind |-> "change", version |-> editor'.version, changes |-> changes]
    OBVIOUS
<1>8. Handled(EditorHas, m, EditorHas')
    <2>1. m.kind = "change" /\ m.version = editor.version + 1 /\ m.changes = changes
        BY <1>3, <1>7
    <2>2. EditorHas' = [id |-> editor.opens, version |-> editor.version + 1, text |-> text]
        BY <1>3 DEF EditorHas
    <2>3. /\ EditorHas.version = editor.version /\ EditorHas.id = editor.opens
          /\ EditorHas.text = editor.text
        BY DEF EditorHas
    <2>4. EditorHas.version > 0 /\ EditorHas.version < m.version
        BY <1>2, <2>1, <2>3, EditorFacts
    <2>5. EditorHas' = [id |-> EditorHas.id, version |-> m.version,
                        text |-> Applied(EditorHas.text, m.changes)]
        BY <2>1, <2>2, <2>3
    <2> QED
        BY <2>1, <2>4, <2>5 DEF Handled
<1> QED
    BY <1>1, <1>6, <1>7, <1>8, EditorSends

LEMMA OneChange ==
    ASSUME NEW text, NEW first
    PROVE  Applied(text, <<first>>) = Changed(text, first)
<1>1. PICK h : h = [p \in 0 .. 1 |-> IF p = 0 THEN text ELSE Changed(text, first)]
    OBVIOUS
<1>2. h[0] = text /\ h[1] = Changed(text, first)
    BY <1>1
<1>3. PICK changes : changes = <<first>>
    OBVIOUS
<1>4. DOMAIN changes = 1 .. 1 /\ changes[1] = first
    BY <1>3
<1>5. Between(h, text, changes, 1)
    <2>1. ASSUME NEW p \in 1 .. 1 PROVE h[p] = Changed(h[p - 1], changes[p])
        <3>1. p = 1 /\ p - 1 = 0
            OBVIOUS
        <3> QED
            BY <1>2, <1>4, <3>1
    <2> QED
        BY <1>2, <1>4, <2>1 DEF Between
<1> QED
    BY <1>2, <1>3, <1>5, FoldOfChanges

LEMMA TwoChanges ==
    ASSUME NEW text, NEW first, NEW second
    PROVE  Applied(text, <<first, second>>) = Changed(Changed(text, first), second)
<1>1. PICK h : h = [p \in 0 .. 2 |-> IF p = 0 THEN text ELSE IF p = 1 THEN Changed(text, first)
                                     ELSE Changed(Changed(text, first), second)]
    OBVIOUS
<1>2. h[0] = text /\ h[1] = Changed(text, first) /\ h[2] = Changed(Changed(text, first), second)
    BY <1>1
<1>3. PICK changes : changes = <<first, second>>
    OBVIOUS
<1>4. DOMAIN changes = 1 .. 2 /\ changes[1] = first /\ changes[2] = second
    BY <1>3
<1>5. Between(h, text, changes, 2)
    <2>1. ASSUME NEW p \in 1 .. 2 PROVE h[p] = Changed(h[p - 1], changes[p])
        <3>1. (p = 1 /\ p - 1 = 0) \/ (p = 2 /\ p - 1 = 1)
            OBVIOUS
        <3> QED
            BY <1>2, <1>4, <3>1
    <2> QED
        BY <1>2, <1>4, <2>1 DEF Between
<1> QED
    BY <1>2, <1>3, <1>5, FoldOfChanges

LEMMA EditD == VInv /\ DInv /\ Edit => DInv'
<1> SUFFICES ASSUME VInv, DInv, Edit
             PROVE  DInv'
    OBVIOUS
<1>1. IsOpen /\ editor.edits < MaxEdits /\ UNCHANGED <<shown, asked, toClient, doc, timers>>
    BY DEF Edit, CanEdit
<1>2. PICK old \in Seq(Chars) : old = editor.text
    BY EditorFacts DEF DInv
<1>3. PICK i \in 0 .. Len(old), span \in 0 .. MaxSpan, new \in Inserts :
          /\ i + span <= Len(old)
          /\ \/ Send(Splice(old, i, i + span, new), <<Replacing(old, i, i + span, new)>>)
             \/ /\ Splice(old, i, i + span, new) # <<>>
                /\ Send(Splice(Splice(old, i, i + span, new), 0, 1, <<"wide">>),
                        <<Replacing(old, i, i + span, new),
                          Replacing(Splice(old, i, i + span, new), 0, 1, <<"wide">>)>>)
             \/ Send(new, <<[text |-> new]>>)
    BY <1>2, Zenon DEF Edit
<1>4. PICK text : text = Splice(old, i, i + span, new)
    OBVIOUS
<1>5. PICK first : first = Replacing(old, i, i + span, new)
    OBVIOUS
<1>6. new \in Seq(Chars) /\ i \in Nat /\ i + span \in Nat /\ i <= i + span
    BY DocumentsAssumption
<1>7. text \in Seq(Chars) /\ Changed(old, first) = text
    BY <1>3, <1>4, <1>5, <1>6, Splices
<1>8. OldDiagnostics /\ OldAnswers /\ asked' \in BOOLEAN
    BY <1>1, ClientSame DEF DInv, EditorTyped
<1>9. CASE Send(text, <<first>>)
    <2>1. Applied(editor.text, <<first>>) = text
        BY <1>2, <1>7, OneChange
    <2> QED
        BY <1>1, <1>7, <1>8, <1>9, <2>1, SendD
<1>10. CASE /\ text # <<>>
            /\ Send(Splice(text, 0, 1, <<"wide">>), <<first, Replacing(text, 0, 1, <<"wide">>)>>)
    <2>1. PICK wide : wide = <<"wide">>
        OBVIOUS
    <2>2. wide \in Seq(Chars) /\ 1 <= Len(text)
        BY <1>7, <1>10, <2>1 DEF Chars
    <2>3. PICK next, second : next = Splice(text, 0, 1, wide) /\ second = Replacing(text, 0, 1, wide)
        OBVIOUS
    <2>4. next \in Seq(Chars) /\ Changed(text, second) = next
        BY <1>7, <2>2, <2>3, Splices
    <2>5. Applied(editor.text, <<first, second>>) = next
        BY <1>2, <1>7, <2>4, TwoChanges
    <2>6. Send(next, <<first, second>>)
        BY <1>10, <2>1, <2>3
    <2> QED
        BY <1>1, <1>8, <2>4, <2>5, <2>6, SendD
<1>11. CASE Send(new, <<[text |-> new]>>)
    <2>1. Applied(editor.text, <<[text |-> new]>>) = new
        BY OneChange, WholeText
    <2> QED
        BY <1>1, <1>6, <1>8, <1>11, <2>1, SendD
<1> QED
    BY <1>3, <1>4, <1>5, <1>9, <1>10, <1>11

LEMMA CloseD == VInv /\ DInv /\ Close => DInv'
<1> SUFFICES ASSUME VInv, DInv, Close
             PROVE  DInv'
    OBVIOUS
<1>1. /\ IsOpen /\ editor' = [editor EXCEPT !.version = 0, !.text = <<>>] /\ asked' = FALSE
      /\ toServer' = Append(toServer, [kind |-> "close"])
      /\ UNCHANGED <<shown, toClient, doc, timers>>
    BY DEF Close
<1>2. EditorTyped
    BY DEF DInv
<1>3. /\ editor'.opens = editor.opens /\ editor'.version = 0 /\ editor'.text = <<>>
      /\ editor'.edits = editor.edits
    BY <1>1, <1>2 DEF EditorTyped
<1>4. EditorTyped'
    <2>1. 0 \in 0 .. MaxEdits + 1 /\ <<>> \in Seq(Chars)
        BY <1>1, <1>2, EditorFacts, Bounds
    <2>2. editor' \in [opens : 0 .. MaxOpens, edits : 0 .. MaxEdits, version : 0 .. MaxEdits + 1,
                       text : Seq(Chars)]
        BY <1>1, <1>2, <2>1 DEF EditorTyped
    <2>3. editor'.version <= editor'.edits + 1 /\ (editor'.version > 0 => editor'.opens > 0)
        BY <1>1, <1>2, <1>3, <2>1, EditorFacts
    <2> QED
        BY <1>1, <1>2, <2>2, <2>3 DEF EditorTyped, IsOpen
<1>5. PICK m : m = [kind |-> "close"]
    OBVIOUS
<1>6. Handled(EditorHas, m, EditorHas')
    <2>1. EditorHas' = [id |-> editor.opens, version |-> 0, text |-> <<>>]
        BY <1>3 DEF EditorHas
    <2>2. EditorHas.version > 0 /\ EditorHas.id = editor.opens
        BY <1>1, <1>2, EditorFacts DEF EditorHas
    <2> QED
        BY <1>5, <2>1, <2>2 DEF Handled
<1> QED
    BY <1>1, <1>4, <1>5, <1>6, ClientSame, EditorSends

LEMMA AskRenameD == ASSUME NEW i
                    PROVE  VInv /\ DInv /\ AskRename(i) => DInv'
<1> SUFFICES ASSUME VInv, DInv, AskRename(i)
             PROVE  DInv'
    OBVIOUS
<1>1. /\ IsOpen /\ i \in DOMAIN editor.text /\ editor.text[i] = "old" /\ asked' = TRUE
      /\ toServer' = Append(toServer, [kind |-> "rename", from |-> editor.opens,
                                       position |-> Seen(editor.text, i - 1)])
      /\ UNCHANGED <<editor, shown, toClient, doc, timers>>
    BY DEF AskRename
<1>2. EditorTyped
    BY DEF DInv
<1>3. EditorTyped'
    BY <1>1, <1>2 DEF EditorTyped, IsOpen
<1>4. PICK m : m = [kind |-> "rename", from |-> editor.opens, position |-> Seen(editor.text, i - 1)]
    OBVIOUS
<1>5. Handled(EditorHas, m, EditorHas')
    <2>1. /\ EditorHas' = EditorHas /\ EditorHas.version > 0 /\ EditorHas.id = editor.opens
          /\ EditorHas.text = editor.text
        BY <1>1, <1>2, EditorFacts DEF EditorHas
    <2>2. m.kind = "rename" /\ m.from = editor.opens /\ m.position = Seen(editor.text, i - 1)
        BY <1>4
    <2> QED
        BY <1>1, <2>1, <2>2 DEF Handled
<1> QED
    BY <1>1, <1>3, <1>4, <1>5, ClientSame, EditorSends

LEMMA ShowDiagnosticsD == VInv /\ DInv /\ ShowDiagnostics => DInv'
<1> SUFFICES ASSUME VInv, DInv, ShowDiagnostics
             PROVE  DInv'
    OBVIOUS
<1>1. /\ toClient # <<>> /\ Head(toClient).kind = "diagnostics" /\ toClient' = Tail(toClient)
      /\ shown' = [version |-> Head(toClient).version, ranges |-> Head(toClient).ranges]
      /\ UNCHANGED <<editor, asked, toServer, doc, timers>>
    BY DEF ShowDiagnostics
<1>2. OldDiagnostics /\ OldAnswers
    BY <1>1, ClientReads DEF VInv
<1> QED
    BY <1>1, <1>2, EditorReads DEF DInv, EditorTyped

\* The edits of a rename are reported from the end of the document to its beginning, so that none
\* moves the place of another.
LEMMA ReceiveEditsD == VInv /\ DInv /\ ReceiveEdits => DInv'
<1> SUFFICES ASSUME VInv, DInv, ReceiveEdits
             PROVE  DInv'
    OBVIOUS
<1>1. /\ toClient # <<>> /\ Head(toClient).kind = "edits" /\ toClient' = Tail(toClient)
      /\ UNCHANGED <<shown, doc, timers>>
      /\ asked' = (asked /\ ~Awaited(Head(toClient)))
    BY Zenon DEF ReceiveEdits
<1>2. OldDiagnostics /\ OldAnswers
    BY <1>1, ClientReads DEF VInv
<1>3. EditorTyped /\ asked' \in BOOLEAN
    BY <1>1 DEF DInv, EditorTyped
<1>4. CASE ~(Applicable(Head(toClient)) /\ editor.edits < MaxEdits)
    <2>1. UNCHANGED <<editor, toServer>>
        BY <1>4, Zenon DEF ReceiveEdits
    <2> QED
        BY <1>1, <1>2, <1>3, <2>1, EditorReads
<1>5. CASE Applicable(Head(toClient)) /\ editor.edits < MaxEdits
    <2>1. PICK old \in Seq(Chars) : old = editor.text
        BY <1>3, EditorFacts
    <2>2. PICK H : H = Hit(Head(toClient))
        OBVIOUS
    <2>3. H \in SUBSET DOMAIN old
        BY <2>1, <2>2 DEF Hit
    <2>4. PICK text, changes : text = Renamed(old, H) /\ changes = Renamings(old, H)
        OBVIOUS
    <2>5. text \in Seq(Chars) /\ Applied(old, changes) = text
        BY <2>3, <2>4, RenamesAll, Zenon
    <2>6. Send(Renamed(editor.text, Hit(Head(toClient))), Renamings(editor.text, Hit(Head(toClient))))
        BY <1>5, Zenon DEF ReceiveEdits, Renamed, Renamings
    <2>7. Send(text, changes)
        BY <2>1, <2>2, <2>4, <2>6, Zenon
    <2>8. Applied(editor.text, changes) = text
        BY <2>1, <2>5, Zenon
    <2>9. IsOpen
        BY <1>5 DEF Applicable, Awaited, VInv, Numbers, EditorOK
    <2> QED
        BY <1>1, <1>2, <1>3, <1>5, <2>5, <2>7, <2>8, <2>9, SendD
<1> QED
    BY <1>4, <1>5

LEMMA ReopenedD == VInv /\ DInv /\ Restart /\ IsOpen => DInv'
<1> SUFFICES ASSUME VInv, DInv, Restart, IsOpen
             PROVE  DInv'
    OBVIOUS
<1>1. /\ IsOpen /\ editor.opens < MaxOpens /\ editor' = [editor EXCEPT !.opens = @ + 1]
      /\ shown' = NothingShown /\ asked' = FALSE /\ doc' = NoDoc /\ timers' = {} /\ toClient' = <<>>
      /\ toServer' = <<OpenMessage(editor')>>
    BY DEF Restart
<1>2. EditorTyped
    BY DEF DInv
<1>3. /\ editor'.opens = editor.opens + 1 /\ editor'.version = editor.version
      /\ editor'.edits = editor.edits /\ editor'.text = editor.text
    BY <1>1, <1>2 DEF EditorTyped
<1>4. EditorTyped'
    <2>1. editor.opens + 1 \in 0 .. MaxOpens
        BY <1>1, <1>2, EditorFacts, Bounds
    <2>2. editor' \in [opens : 0 .. MaxOpens, edits : 0 .. MaxEdits, version : 0 .. MaxEdits + 1,
                       text : Seq(Chars)]
        BY <1>1, <1>2, <2>1 DEF EditorTyped
    <2>3. editor'.version <= editor'.edits + 1 /\ (editor'.version > 0 => editor'.opens > 0)
        BY <1>1, <1>2, <1>3, <2>1, EditorFacts
    <2> QED
        BY <1>1, <1>2, <2>2, <2>3 DEF EditorTyped, IsOpen
<1>5. PICK none, now : /\ none = [id |-> 0, version |-> 0, text |-> <<>>]
                       /\ now = [id |-> editor.opens + 1, version |-> editor.version, text |-> editor.text]
    OBVIOUS
<1>6. PICK m : m = OpenMessage(editor')
    OBVIOUS
<1>7. PICK h : h = [k \in 0 .. 1 |-> IF k = 0 THEN none ELSE now]
    OBVIOUS
<1>8. h[0] = none /\ h[1] = now
    BY <1>7
<1>9. EditorHas' = now /\ now \in States /\ none \in States
    <2>1. EditorHas' = now
        BY <1>3, <1>5 DEF EditorHas
    <2>2. now \in States
        BY <1>4, <2>1 DEF EditorTyped, EditorHas, IsOpen, States
    <2>3. none \in States
        BY <1>5, Bounds DEF States
    <2> QED
        BY <2>1, <2>2, <2>3
<1>10. Handled(none, m, now)
    <2>1. /\ m.kind = "open" /\ m.id = editor.opens + 1 /\ m.version = editor.version
          /\ m.text = editor.text
        BY <1>3, <1>6 DEF OpenMessage
    <2>2. none.version = 0 /\ none.id < m.id
        BY <1>2, <1>5, <2>1, EditorFacts
    <2>3. now.version > 0 /\ now = [id |-> m.id, version |-> m.version, text |-> m.text]
        BY <1>1, <1>2, <1>5, <2>1, EditorFacts
    <2> QED
        BY <2>1, <2>2, <2>3 DEF Handled
<1>11. Len(toServer') = 1 /\ toServer'[1] = m
    BY <1>1, <1>6
<1>12. Follows(h)'
    <2>1. h \in [0 .. 1 -> States]
        BY <1>7, <1>9
    <2>2. ServerHas(h[0])'
        BY <1>1, <1>5, <1>8 DEF ServerHas
    <2>3. ASSUME NEW k \in 1 .. 1 PROVE Handled(h[k - 1], toServer'[k], h[k])
        <3>1. k = 1 /\ k - 1 = 0
            OBVIOUS
        <3> QED
            BY <1>8, <1>10, <1>11, <3>1
    <2> QED
        BY <1>8, <1>9, <1>11, <2>1, <2>2, <2>3 DEF Follows
<1>13. TimersOf(h[0])' /\ AnswersOf(h[0])'
    BY <1>1 DEF TimersOf, AnswersOf
<1>14. Sent' = {0} /\ Screen(0)' = NothingShown /\ VersionShown(0)' = 0
    BY <1>1 DEF Sent, Screen, VersionShown, NothingShown
<1>15. ScreenOf(h[0])' /\ ScreenTyped'
    <2>1. NothingShown.ranges = {} /\ 0 \in 0 .. MaxEdits + 1
        BY Bounds DEF NothingShown
    <2> QED
        BY <1>14, <2>1 DEF ScreenOf, ScreenTyped
<1> QED
    BY <1>4, <1>12, <1>13, <1>15 DEF DInv

-----------------------------------------------------------------------------
(* The texts' invariant.                                                   *)

LEMMA BlankD == Blank /\ EditorTyped => DInv
<1> SUFFICES ASSUME Blank, EditorTyped
             PROVE  DInv
    OBVIOUS
<1>1. /\ editor.version = 0 /\ shown = NothingShown
      /\ toServer = <<>> /\ toClient = <<>> /\ doc = NoDoc /\ timers = {}
    BY DEF Blank
<1>2. PICK now : now = EditorHas
    OBVIOUS
<1>3. now \in States /\ now.version = 0
    BY <1>1, <1>2 DEF EditorTyped, EditorHas, States
<1>4. PICK h : h = [k \in 0 .. 0 |-> now]
    OBVIOUS
<1>5. Follows(h)
    <2>1. Len(toServer) = 0 /\ h[0] = now /\ h \in [0 .. 0 -> States]
        BY <1>1, <1>3, <1>4
    <2>2. ServerHas(now)
        BY <1>1, <1>3 DEF ServerHas
    <2>3. 1 .. 0 = {}
        OBVIOUS
    <2> QED
        BY <1>2, <2>1, <2>2, <2>3 DEF Follows
<1>6. TimersOf(h[0]) /\ AnswersOf(h[0])
    BY <1>1 DEF TimersOf, AnswersOf
<1>7. Sent = {0} /\ Screen(0) = NothingShown /\ VersionShown(0) = 0
    BY <1>1 DEF Sent, Screen, VersionShown, NothingShown
<1>8. ScreenOf(h[0]) /\ ScreenTyped
    <2>1. NothingShown.ranges = {} /\ 0 \in 0 .. MaxEdits + 1
        BY Bounds DEF NothingShown
    <2> QED
        BY <1>7, <2>1 DEF ScreenOf, ScreenTyped
<1> QED
    BY <1>5, <1>6, <1>8 DEF DInv

LEMMA InitD == Init => DInv
<1> SUFFICES ASSUME Init
             PROVE  DInv
    OBVIOUS
<1>1. 0 \in 0 .. MaxOpens /\ 0 \in 0 .. MaxEdits /\ 0 \in 0 .. MaxEdits + 1 /\ <<>> \in Seq(Chars)
    BY Bounds
<1>2. editor = Closed /\ editor.edits = 0 /\ editor.version = 0 /\ asked = FALSE
    BY DEF Init, Closed
<1>3. editor \in [opens : 0 .. MaxOpens, edits : 0 .. MaxEdits, version : 0 .. MaxEdits + 1,
                  text : Seq(Chars)]
    BY <1>1, <1>2 DEF Closed
<1>4. EditorTyped
    <2>1. editor.version <= editor.edits + 1 /\ ~IsOpen
        BY <1>2 DEF IsOpen
    <2>2. asked \in BOOLEAN
        BY <1>2
    <2> QED
        BY <1>3, <2>1, <2>2 DEF EditorTyped
<1>5. Blank
    BY <1>2 DEF Init, Blank, Closed
<1> QED
    BY <1>4, <1>5, BlankD

LEMMA RestartD == VInv /\ DInv /\ Restart => DInv'
<1> SUFFICES ASSUME VInv, DInv, Restart, ~IsOpen
             PROVE  DInv'
    BY ReopenedD
<1>1. /\ editor' = editor /\ shown' = NothingShown /\ asked' = FALSE
      /\ toServer' = <<>> /\ toClient' = <<>> /\ doc' = NoDoc /\ timers' = {}
    BY DEF Restart
<1>2. EditorTyped /\ editor.version = 0 /\ "version" \in DOMAIN editor
    BY DEF DInv, EditorTyped, IsOpen
<1>3. EditorTyped'
    BY <1>1, <1>2 DEF EditorTyped, IsOpen
<1>4. Blank'
    BY <1>1, <1>2 DEF Blank
<1>5. (Blank /\ EditorTyped => DInv)'
    BY BlankD, PTL
<1> QED
    BY <1>3, <1>4, <1>5

LEMMA StutterD == VInv /\ DInv /\ UNCHANGED vars => DInv'
<1> SUFFICES ASSUME VInv, DInv, UNCHANGED vars
             PROVE  DInv'
    OBVIOUS
<1>1. UNCHANGED <<editor, shown, asked, toServer, toClient, doc, timers>>
    BY DEF vars
<1>2. OldDiagnostics /\ OldAnswers
    BY <1>1, ClientSame
<1> QED
    BY <1>1, <1>2, EditorReads DEF DInv, EditorTyped

LEMMA NextD == VInv /\ DInv /\ [Next]_vars => DInv'
<1> SUFFICES ASSUME VInv, DInv, [Next]_vars
             PROVE  DInv'
    OBVIOUS
<1>1. CASE Serve
    BY <1>1, ServeD
<1>2. ASSUME NEW t \in timers, TimerFires(t) \/ Publish(t)
      PROVE  DInv'
    BY <1>2, TimerFiresD, PublishD
<1>3. CASE \E text \in Texts : Open(text)
    BY <1>3, OpenD
<1>4. CASE Edit
    BY <1>4, EditD
<1>5. CASE Close
    BY <1>5, CloseD
<1>6. CASE ShowDiagnostics
    BY <1>6, ShowDiagnosticsD
<1>7. CASE ReceiveEdits
    BY <1>7, ReceiveEditsD
<1>8. CASE Restart
    BY <1>8, RestartD
<1>9. CASE \E i \in 1 .. MaxLen : AskRename(i)
    BY <1>9, AskRenameD
<1>10. CASE UNCHANGED vars
    BY <1>10, StutterD
<1> QED
    BY <1>1, <1>2, <1>3, <1>4, <1>5, <1>6, <1>7, <1>8, <1>9, <1>10, Zenon DEF Next

LEMMA Worded == Spec => [](VInv /\ DInv)
<1>1. Init => VInv /\ DInv
    BY InitV, InitD
<1>2. VInv /\ DInv /\ [Next]_vars => VInv' /\ DInv'
    BY NextV, NextD
<1> QED
    BY <1>1, <1>2, PTL DEF Spec

-----------------------------------------------------------------------------
(* What the texts' invariant says.                                         *)

\* What is queued for the server is of documents that the editor's is later than.
LEMMA Beginning ==
    ASSUME VInv, NEW h, Follows(h)
    PROVE  h[0] \in States /\ EditorHas \in States /\ ServerHas(h[0]) /\ Earlier(h[0], EditorHas)
<1>1. Len(toServer) \in Nat
    BY ServerFacts DEF VInv
<1>2. 0 \in 0 .. Len(toServer) /\ Len(toServer) \in 0 .. Len(toServer)
    BY <1>1
<1>3. Earlier(h[0], h[Len(toServer)])
    BY <1>1, <1>2, FollowsEarlier
<1> QED
    BY <1>2, <1>3 DEF Follows

LEMMA DocumentsTyped == VInv /\ DInv => TypeOK
<1> SUFFICES ASSUME VInv, DInv
             PROVE  TypeOK
    OBVIOUS
<1>1. PICK h : Follows(h) /\ TimersOf(h[0])
    BY DEF DInv
<1>2. h[0] \in States /\ ServerHas(h[0])
    BY <1>1, Beginning
<1>3. shown.version \in 0 .. MaxEdits + 1 /\ shown.ranges \subseteq Ranges
    <2>1. 0 \in Sent /\ Diagnosed(0)
        BY DEF VInv, Numbers, ToClientOK, IsSeq, Sent, Diagnosed
    <2> QED
        BY <2>1 DEF DInv, ScreenTyped, VersionShown, Screen
<1>4. doc = NoDoc \/ doc \in [id : 1 .. MaxOpens, version : 1 .. MaxEdits + 1,
                              text : Seq(Chars), file : Seq(Chars)]
    <2> SUFFICES ASSUME doc # NoDoc
                 PROVE  doc \in [id : 1 .. MaxOpens, version : 1 .. MaxEdits + 1,
                                 text : Seq(Chars), file : Seq(Chars)]
        OBVIOUS
    <2>1. PICK a \in States : a = h[0]
        BY <1>2
    <2>2. /\ doc = [id |-> a.id, version |-> a.version, text |-> a.text, file |-> a.text]
          /\ a.version > 0
        BY <1>2, <2>1, DocumentServed
    <2>3. a.id \in 1 .. MaxOpens /\ a.version \in 1 .. MaxEdits + 1 /\ a.text \in Seq(Chars)
        BY <2>2, StateFacts
    <2> QED
        BY <2>2, <2>3
<1>5. timers \subseteq [id : 1 .. MaxOpens, version : 1 .. MaxEdits + 1, text : Seq(Chars),
                        stage : {"armed", "checking"}]
    BY <1>1 DEF TimersOf, Timers
<1> QED
    BY <1>3, <1>4, <1>5 DEF DInv, EditorTyped, TypeOK

LEMMA QuietHistory ==
    ASSUME VInv, DInv, Quiet
    PROVE  /\ EditorHas \in States /\ ServerHas(EditorHas) /\ ScreenOf(EditorHas)
<1>1. PICK h : Follows(h) /\ ScreenOf(h[0])
    BY DEF DInv
<1>2. Len(toServer) = 0
    BY DEF Quiet
<1>3. h[0] = EditorHas
    BY <1>1, <1>2 DEF Follows
<1> QED
    BY <1>1, <1>3, Beginning

LEMMA Synced == VInv /\ DInv => InSync
<1> SUFFICES ASSUME VInv, DInv, Quiet
             PROVE  IF IsOpen THEN doc # NoDoc /\ doc.text = editor.text /\ doc.version = editor.version
                    ELSE doc = NoDoc
    BY DEF InSync
<1>1. EditorHas \in States /\ ServerHas(EditorHas)
    BY QuietHistory
<1>2. /\ EditorHas.version = editor.version /\ EditorHas.text = editor.text
      /\ (IsOpen <=> editor.version > 0) /\ editor.version \in Nat
    BY EditorFacts DEF DInv, EditorHas
<1>3. CASE doc = NoDoc
    BY <1>1, <1>2, <1>3 DEF ServerHas
<1>4. CASE doc # NoDoc
    <2>1. EditorHas.version > 0 /\ doc.version = EditorHas.version /\ doc.text = EditorHas.text
        BY <1>1, <1>4, DocumentServed
    <2> QED
        BY <1>2, <1>4, <2>1
<1> QED
    BY <1>3, <1>4

LEMMA Settled == VInv /\ DInv => SettledDiagnostics
<1> SUFFICES ASSUME VInv, DInv, Quiet, IsOpen, shown.version = editor.version
             PROVE  shown.ranges \in Marks(editor.text)
    BY DEF SettledDiagnostics
<1>1. EditorHas \in States /\ ScreenOf(EditorHas)
    BY QuietHistory
<1>2. /\ EditorHas.version = editor.version /\ EditorHas.text = editor.text
      /\ editor.version > 0 /\ editor.version \in Nat
    BY EditorFacts DEF DInv, EditorHas
<1>3. 0 \in Sent /\ Latest(0) /\ VersionShown(0) = shown.version /\ Screen(0) = shown
    BY DEF Quiet, Sent, Latest, Diagnosed, DiagnosedIn, VersionShown, Screen
<1>4. MarksOf(shown.version, shown.ranges, EditorHas)
    BY <1>1, <1>2, <1>3 DEF ScreenOf
<1>5. PICK a \in States : /\ Earlier(a, EditorHas) /\ a.id = EditorHas.id
                          /\ shown.version = a.version /\ shown.ranges \in Marks(a.text)
    BY <1>4 DEF MarksOf
<1>6. a.text = EditorHas.text
    BY <1>2, <1>5 DEF Earlier
<1> QED
    BY <1>2, <1>5, <1>6

\* No two places are seen as the same.
LEMMA HitsOld ==
    ASSUME NEW text \in Seq(Chars)
    PROVE  {i \in DOMAIN text : SeenRange(text, i - 1, i) \in OldRanges(text)}
              = {i \in DOMAIN text : text[i] = "old"}
<1>1. ASSUME NEW i \in DOMAIN text, NEW j \in DOMAIN text, SeenRange(text, i - 1, i) = SeenRange(text, j - 1, j)
      PROVE  i = j
    <2>1. i \in 0 .. Len(text) /\ j \in 0 .. Len(text)
        BY TextFacts
    <2>2. Seen(text, i) = Seen(text, j)
        BY <1>1 DEF SeenRange
    <2>3. OffsetOf(text, Seen(text, i)) = i /\ OffsetOf(text, Seen(text, j)) = j
        BY <2>1, OffsetOfSeen
    <2> QED
        BY <2>2, <2>3
<1>2. ASSUME NEW i \in DOMAIN text, SeenRange(text, i - 1, i) \in OldRanges(text)
      PROVE  text[i] = "old"
    <2>1. PICK j \in {k \in DOMAIN text : text[k] = "old"} : SeenRange(text, i - 1, i) = SeenRange(text, j - 1, j)
        BY <1>2, Zenon DEF OldRanges
    <2>2. i = j
        BY <1>1, <2>1
    <2> QED
        BY <2>1, <2>2
<1>3. ASSUME NEW i \in DOMAIN text, text[i] = "old"
      PROVE  SeenRange(text, i - 1, i) \in OldRanges(text)
    BY <1>3 DEF OldRanges
<1> QED
    BY <1>2, <1>3

LEMMA RenameHits ==
    ASSUME VInv, DInv, ReceiveEdits, Awaited(Head(toClient)), Head(toClient).version = editor.version
    PROVE  /\ Head(toClient).ranges # {}
           /\ editor.edits < MaxEdits =>
                editor'.text = [i \in DOMAIN editor.text |->
                                  IF editor.text[i] = "old" THEN "new" ELSE editor.text[i]]
<1>1. PICK e : e = Head(toClient)
    OBVIOUS
<1>2. toClient # <<>> /\ e.kind = "edits" /\ asked /\ e.to = editor.opens /\ e.version = editor.version
    BY <1>1 DEF ReceiveEdits, Awaited
<1>3. 1 \in DOMAIN toClient /\ toClient[1] = e
    BY <1>1, <1>2, Dropped DEF VInv, Numbers, ToClientOK
<1>4. PICK h : Follows(h) /\ AnswersOf(h[0])
    BY DEF DInv
<1>5. h[0] \in States /\ EditorHas \in States /\ Earlier(h[0], EditorHas)
    BY <1>4, Beginning
<1>6. PICK a \in States : /\ Earlier(a, h[0]) /\ a.version > 0 /\ e.to = a.id /\ e.version = a.version
                          /\ e.ranges = OldRanges(a.text)
                          /\ \E i \in DOMAIN a.text : a.text[i] = "old"
    <2>1. Answers(e, h[0])
        BY <1>2, <1>3, <1>4 DEF AnswersOf
    <2> QED
        BY <2>1 DEF Answers
<1>7. Earlier(a, EditorHas)
    BY <1>5, <1>6, StateFacts, EarlierTwice
<1>8. PICK text \in Seq(Chars) : text = editor.text
    BY EditorFacts DEF DInv
<1>9. a.text = text
    <2>1. EditorHas.id = editor.opens /\ EditorHas.version = editor.version /\ EditorHas.text = text
        BY <1>8 DEF EditorHas
    <2>2. editor.version > 0
        BY <1>2, <1>6
    <2> QED
        BY <1>2, <1>6, <1>7, <2>1, <2>2 DEF Earlier
<1>10. e.ranges = OldRanges(text) /\ e.ranges # {}
    <2>1. PICK i \in DOMAIN text : text[i] = "old"
        BY <1>6, <1>9
    <2>2. SeenRange(text, i - 1, i) \in OldRanges(text)
        BY <2>1 DEF OldRanges
    <2> QED
        BY <1>6, <1>9, <2>2
<1>11. Hit(e) = {i \in DOMAIN text : text[i] = "old"}
    <2>1. Hit(e) = {i \in DOMAIN text : SeenRange(text, i - 1, i) \in OldRanges(text)}
        BY <1>8, <1>10, Zenon DEF Hit
    <2> QED
        BY <2>1, HitsOld
<1>12. ASSUME editor.edits < MaxEdits
       PROVE  editor'.text = [i \in DOMAIN text |-> IF text[i] = "old" THEN "new" ELSE text[i]]
    <2>1. Applicable(e)
        BY <1>1, <1>2, <1>10 DEF Applicable, Awaited
    <2>2. Send(Renamed(editor.text, Hit(Head(toClient))), Renamings(editor.text, Hit(Head(toClient))))
        BY <1>1, <1>12, <2>1, Zenon DEF ReceiveEdits, Renamed, Renamings
    <2>3. PICK new : new = Renamed(text, Hit(e))
        OBVIOUS
    <2>4. editor' = [editor EXCEPT !.edits = @ + 1, !.version = @ + 1, !.text = new]
        BY <1>1, <1>8, <2>2, <2>3, Zenon DEF Send
    <2>5. editor'.text = new
        BY <2>4 DEF DInv, EditorTyped
    <2>6. new = [i \in DOMAIN text |-> IF text[i] = "old" THEN "new" ELSE text[i]]
        BY <1>11, <2>3 DEF Renamed
    <2> QED
        BY <2>5, <2>6
<1> QED
    BY <1>1, <1>8, <1>10, <1>12, Zenon

-----------------------------------------------------------------------------
(* The theorems about the texts.                                           *)

\* The editor, its screen, the document the server has and the timers have their types.
THEOREM DocumentsTypeCorrect == Spec => []TypeOK
BY Worded, DocumentsTyped, PTL

\* When nothing is in flight the server has the editor's text, character by character, for any
\* texts and any edits: positions are counted in UTF-16 code units on one side and looked up by
\* offsetAt on the other, and the changes of a notification apply one after the other.
THEOREM TextsAgree == Spec => []InSync
BY Worded, Synced, PTL

\* When nothing is in flight, diagnostics on screen that claim the version of the document mark its
\* text: those of the parser every error, those of the interpreter the whole line of the first one,
\* however many documents, versions and timers there were before.
THEOREM DiagnosticsMark == Spec => []SettledDiagnostics
BY Worded, Settled, PTL

\* A rename that is applied changes the occurrences of the name and nothing else, wherever the
\* answer was under way: the version and the opening it carries identify one text.
THEOREM RenamesHit == Spec => RenameHitsTheName
<1>1. VInv /\ DInv /\ [Next]_vars =>
        [ReceiveEdits /\ Awaited(Head(toClient)) /\ Head(toClient).version = editor.version =>
            /\ Head(toClient).ranges # {}
            /\ editor.edits < MaxEdits =>
                 editor'.text = [i \in DOMAIN editor.text |->
                                   IF editor.text[i] = "old" THEN "new" ELSE editor.text[i]]]_vars
    BY RenameHits, Zenon
<1> QED
    BY <1>1, Worded, PTL DEF Spec, RenameHitsTheName
=============================================================================
