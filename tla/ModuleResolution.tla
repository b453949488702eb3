------------------------- MODULE ModuleResolution -------------------------
(* What `require` gives a file of the editor: the resolver of              *)
(* internal/lsp/modules.go, which reads the required files and theirs in   *)
(* turn without running them, and the probes of native libraries           *)
(* (internal/lsp/native.go), the only thing it runs.                       *)
(*                                                                         *)
(* A request (completion, definition, references, ...) makes one resolver; *)
(* its cache, its depth and its budget are shared by all nested requires.  *)
(* The recursion is a stack of frames. Everything a file requires flows    *)
(* into what it returns, as in                                             *)
(*     local M = require "a"; M.own = 1                                    *)
(*     return setmetatable(M, {__index = require "b"})                     *)
(* and each file adds one member, named after the module.                  *)
(* Lua files do not change while a request runs: open documents cannot,    *)
(* the request holds s.mu, and of the disk it is assumed.                  *)
EXTENDS Integers, Sequences, FiniteSets, FiniteSetsExt

CONSTANTS Modules,      \* module names
          Places,       \* 1..n: where a module may lie, in the order searched
          Natives,      \* modules with a shared library, if probing is enabled
          Disks, Docs,  \* [Places -> [Modules -> text or None]]: on disk, and in the editor
          Asks,         \* the requires of the requesting document
          MaxDepth,     \* 8
          Budget,       \* 8 MiB of text for a request
          FileLimit,    \* 1 MiB of text for a file
          MaxVersion,   \* bound on reinstallations of a library
          MaxRequests,  \* bound on requests
          None

VARIABLES
    disk, docs,
    library,      \* the installed shared libraries: version (file identity), and whether they load
    nativeCache,  \* Server.nativeCache: results by the identity they were probed under
    asks,
    cache,        \* of the request: members by module; present but empty while it is being read
    remaining,    \* of the request's budget
    frames,       \* the files being read; the first is the requesting document
    probe,        \* the native probe that runs: its module and the identity read before
    requests

files == <<disk, docs>>
request == <<asks, cache, remaining, frames, probe>>
vars == <<disk, docs, library, nativeCache, asks, cache, remaining, frames, probe, requests>>

Texts == [requires : Seq(Modules), size : Nat \ {0}]
\* The file being read has no URI of its own yet.
Here == 0
\* A member, and where go-to-definition finds it.
Members == [name : Modules, uri : Places \cup {None, Here}]

ASSUME ModulesAssumption ==
    /\ Places \subseteq Nat \ {Here}
    /\ \A S \in (SUBSET Places) \ {{}} : \E p \in S : \A q \in S : p <= q
    /\ Natives \subseteq Modules
    /\ None \notin Nat /\ None \notin Texts
    /\ Disks \cup Docs \subseteq [Places -> [Modules -> Texts \cup {None}]]
    /\ Asks \subseteq Seq(Modules)
    /\ {MaxDepth, Budget, FileLimit, MaxRequests} \subseteq Nat /\ MaxVersion \in Nat \ {0}

-----------------------------------------------------------------------------
(* The search of one module.                                               *)

\* An open document is taken whatever its size; a file on disk that is too large is passed over.
Found(m) ==
    {p \in Places : docs[p][m] # None \/ (disk[p][m] # None /\ disk[p][m].size <= FileLimit)}

Candidate(m) == CHOOSE p \in Found(m) : \A q \in Found(m) : p <= q

\* Unsaved text overrides the disk.
TextOf(m) ==
    LET p == Candidate(m) IN IF docs[p][m] # None THEN docs[p][m] ELSE disk[p][m]

Frame(m, requires) == [module |-> m, requires |-> requires, next |-> 1, members |-> {}]

Top == frames[Len(frames)]
Wanted == Top.requires[Top.next]
Reading == Top.next <= Len(Top.requires) /\ probe = None

\* resolve returns to the file that asked.
Answer(members, callers) ==
    LET n == Len(callers)
    IN frames' = [callers EXCEPT ![n].members = @ \cup members, ![n].next = @ + 1]

-----------------------------------------------------------------------------
(* resolve                                                                 *)

\* A slip: depth is never counted down again.
DepthOfAll == Cardinality(DOMAIN cache)
Depth == Len(frames) - 1
LimitMet == Depth >= MaxDepth \/ remaining <= 0

Cached ==
    /\ Reading /\ Wanted \in DOMAIN cache
    /\ Answer(cache[Wanted], frames)
    /\ UNCHANGED <<files, library, nativeCache, asks, cache, remaining, probe, requests>>

\* Nothing is remembered of a limit.
Limited ==
    /\ Reading /\ Wanted \notin DOMAIN cache /\ LimitMet
    /\ Answer({}, frames)
    /\ UNCHANGED <<files, library, nativeCache, asks, cache, remaining, probe, requests>>

\* A slip: the result is remembered only when it is there.
NoMark(m) == cache
\* The mark set before anything is read, so that a cycle finds it.
Mark(m) == [n \in DOMAIN cache \cup {m} |-> IF n = m THEN {} ELSE cache[n]]

Searching == Reading /\ Wanted \notin DOMAIN cache /\ ~LimitMet
\* A slip: only the size of the one file is limited.
TooLongAlone(m) == TextOf(m).size > FileLimit
TooLong(m) == TextOf(m).size > FileLimit \/ TextOf(m).size > remaining

\* The text is parsed, and walked with the same resolver.
Enter ==
    /\ Searching /\ Found(Wanted) # {} /\ ~TooLong(Wanted)
    /\ cache' = Mark(Wanted)
    /\ remaining' = remaining - TextOf(Wanted).size
    /\ frames' = Append(frames, Frame(Wanted, TextOf(Wanted).requires))
    /\ UNCHANGED <<files, library, nativeCache, asks, probe, requests>>

\* Too long, or nowhere: the mark stays.
Fail ==
    /\ Searching
    /\ IF Found(Wanted) # {} THEN TooLong(Wanted) ELSE Wanted \notin Natives
    /\ cache' = Mark(Wanted)
    /\ Answer({}, frames)
    /\ UNCHANGED <<files, library, nativeCache, asks, remaining, probe, requests>>

\* A slip: what passes through a file is attributed to it.
ExportedHere(m, members) ==
    {[e EXCEPT !.uri = Candidate(m)] : e \in members \cup {[name |-> m, uri |-> Here]}}
\* What a file exports: its own member, and those of the files it requires. A member that has
\* no place yet is declared here.
Exported(m, members) ==
    {IF e.uri = Here THEN [e EXCEPT !.uri = Candidate(m)] ELSE e :
        e \in members \cup {[name |-> m, uri |-> Here]}}

Return ==
    /\ Len(frames) > 1 /\ Top.next > Len(Top.requires) /\ probe = None
    /\ LET members == Exported(Top.module, Top.members)
       IN /\ cache' = [cache EXCEPT ![Top.module] = members]
          /\ Answer(members, SubSeq(frames, 1, Len(frames) - 1))
    /\ UNCHANGED <<files, library, nativeCache, asks, remaining, probe, requests>>

-----------------------------------------------------------------------------
(* Native libraries. Their members have no definition.                     *)

NativeMembers(m) == {[name |-> m, uri |-> None]}

Probed(loaded, m) == IF loaded = 0 THEN {} ELSE NativeMembers(m)

\* nativeModuleMembers: a result is used as long as the file is the one it was probed under.
NativeHit ==
    /\ Searching /\ Found(Wanted) = {} /\ Wanted \in Natives
    /\ nativeCache[Wanted].identity = library[Wanted].version
    /\ LET members == Probed(nativeCache[Wanted].loaded, Wanted)
       IN cache' = [Mark(Wanted) EXCEPT ![Wanted] = members] /\ Answer(members, frames)
    /\ UNCHANGED <<files, library, nativeCache, asks, remaining, probe, requests>>

\* Its identity is read, then the interpreter is started,
StartProbe ==
    /\ Searching /\ Found(Wanted) = {} /\ Wanted \in Natives
    /\ nativeCache[Wanted].identity # library[Wanted].version
    /\ cache' = Mark(Wanted)
    /\ probe' = [module |-> Wanted, identity |-> library[Wanted].version, loaded |-> None]
    /\ UNCHANGED <<files, library, nativeCache, asks, remaining, frames, requests>>

\* which loads what is installed then: that version, or 0 if it does not load, or not in time.
LoadLibrary(inTime) ==
    /\ probe # None /\ probe.loaded = None
    /\ LET installed == library[probe.module]
       IN probe' = [probe EXCEPT !.loaded = IF inTime /\ installed.loads THEN installed.version ELSE 0]
    /\ UNCHANGED <<files, library, nativeCache, asks, cache, remaining, frames, requests>>

\* A slip: the identity is read after the probe.
KeptUnderNow == [identity |-> library[probe.module].version, loaded |-> probe.loaded]
Kept == [identity |-> probe.identity, loaded |-> probe.loaded]

\* The result is kept, a failure too: a module that cannot load is not tried at every keystroke.
FinishProbe ==
    /\ probe # None /\ probe.loaded # None
    /\ LET members == Probed(probe.loaded, probe.module)
       IN /\ nativeCache' = [nativeCache EXCEPT ![probe.module] = Kept]
          /\ cache' = [cache EXCEPT ![probe.module] = members]
          /\ Answer(members, frames)
    /\ probe' = None
    /\ UNCHANGED <<files, library, asks, remaining, requests>>

-----------------------------------------------------------------------------
(* Around a request.                                                       *)

\* A package is installed again, at any time; it has another time stamp or size then.
Reinstall(m, loads) ==
    /\ library[m].version < MaxVersion
    /\ library' = [library EXCEPT ![m] = [version |-> @.version + 1, loads |-> loads]]
    /\ UNCHANGED <<files, nativeCache, request, requests>>

Done == Len(frames) = 1 /\ Top.next > Len(Top.requires) /\ probe = None

\* moduleResolver: every request has a resolver of its own.
Request(requires) ==
    /\ Done /\ requests < MaxRequests
    /\ asks' = requires
    /\ cache' = [m \in {} |-> {}]
    /\ remaining' = Budget
    /\ frames' = <<Frame(None, requires)>>
    /\ requests' = requests + 1
    /\ UNCHANGED <<files, library, nativeCache, probe>>

Init ==
    /\ disk \in Disks /\ docs \in Docs
    /\ library = [m \in Natives |-> [version |-> 1, loads |-> TRUE]]
    /\ nativeCache = [m \in Natives |-> [identity |-> 0, loaded |-> 0]]
    /\ asks = <<>>
    /\ cache = [m \in {} |-> {}]
    /\ remaining = Budget
    /\ frames = <<Frame(None, <<>>)>>
    /\ probe = None
    /\ requests = 0

Next ==
    \/ Cached \/ Limited \/ Enter \/ Fail \/ Return
    \/ NativeHit \/ StartProbe \/ (\E inTime \in BOOLEAN : LoadLibrary(inTime)) \/ FinishProbe
    \/ \E m \in Natives, loads \in BOOLEAN : Reinstall(m, loads)
    \/ \E requires \in Asks : Request(requires)

Spec == Init /\ [][Next]_vars

-----------------------------------------------------------------------------
(* What the files say, without any limit.                                  *)

HasText(m) == Found(m) # {} /\ TextOf(m).size <= FileLimit
Requires(m) == IF HasText(m) THEN {TextOf(m).requires[i] : i \in DOMAIN TextOf(m).requires} ELSE {}

\* The pairs of a module and one it requires, directly or not, or itself.
Reach ==
    LET edges == UNION {{m} \X Requires(m) : m \in Modules}
        closed == {S \in SUBSET Modules : \A e \in edges : e[1] \in S => e[2] \in S}
    IN {p \in Modules \X Modules : \A S \in closed : p[1] \in S => p[2] \in S}

\* A Lua file, wherever one is found, hides a library.
Own(m) ==
    IF HasText(m) THEN {[name |-> m, uri |-> Candidate(m)]}
    ELSE IF Found(m) = {} /\ m \in Natives THEN NativeMembers(m) ELSE {}

\* e is a member that m has, by itself or by what it requires.
Gives(reach, m, e) == <<m, e.name>> \in reach /\ e \in Own(e.name)

Asked == {asks[i] : i \in DOMAIN asks}

\* What is k requires away from the document.
Away[k \in 0 .. MaxDepth] == IF k = 0 THEN Asked ELSE UNION {Requires(m) : m \in Away[k - 1]}

\* No cycle, no chain that is too long, no more text than a request may read.
WithinLimits ==
    LET reach == Reach
        all == {n \in Modules : HasText(n) /\ \E m \in Asked : <<m, n>> \in reach}
    IN Away[MaxDepth] = {} /\ MapThenSumSet(LAMBDA m : TextOf(m).size, all) <= Budget

-----------------------------------------------------------------------------
Frames ==
    [module : Modules \cup {None}, requires : Seq(Modules), next : Nat \ {0}, members : SUBSET Members]
Probes == [module : Natives, identity : 1 .. MaxVersion, loaded : {None} \cup (0 .. MaxVersion)]

\* Type correctness.
TypeOK ==
    /\ {disk, docs} \subseteq [Places -> [Modules -> Texts \cup {None}]]
    /\ asks \in Seq(Modules)
    /\ library \in [Natives -> [version : 1 .. MaxVersion, loads : BOOLEAN]]
    /\ nativeCache \in [Natives -> [identity : 0 .. MaxVersion, loaded : 0 .. MaxVersion]]
    /\ DOMAIN cache \subseteq Modules /\ cache \in [DOMAIN cache -> SUBSET Members]
    /\ remaining \in 0 .. Budget
    /\ frames \in Seq(Frames)
    /\ Len(frames) \in 1 .. MaxDepth + 1
    /\ probe \in {None} \cup Probes
    /\ requests \in 0 .. MaxRequests

\* Whatever limit or cycle cuts a resolution short, and whichever order the requires come in, a
\* module never gets a member that its files do not give it, nor one that is attributed to
\* another file than the one that declares it (modules.go:193-199): unsaved text counts, a file
\* hidden by an earlier one in the search order does not.
OnlyRealMembers ==
    LET reach == Reach
    IN /\ \A m \in DOMAIN cache : \A e \in cache[m] : Gives(reach, m, e)
       /\ \A e \in frames[1].members : \E m \in Asked : Gives(reach, m, e)

\* Without a cycle and within the limits nothing is missing, natives apart: what nested requires
\* share (the cache with its marks, the depth, the budget) never costs one of them a member.
CompleteWithinLimits ==
    Done /\ WithinLimits =>
        \A m \in Asked, n \in Modules :
            <<m, n>> \in Reach /\ HasText(n) => Own(n) \subseteq frames[1].members

\* A module is never read while it is being read, cycles or not (modules.go:120).
NoReentry ==
    \A i, j \in 2 .. Len(frames) : frames[i].module = frames[j].module => i = j

\* A library installed while the interpreter loads the old one, or the new one before its
\* identity was read, is never taken for another: a result kept under the identity of the
\* installed file is that file's (native.go:15-17, "so a reinstalled library is probed again").
NativeResultCurrent ==
    \A m \in Natives :
        nativeCache[m].identity = library[m].version =>
            nativeCache[m].loaded \in {0, library[m].version}
=============================================================================
