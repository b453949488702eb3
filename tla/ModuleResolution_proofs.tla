---------------------- MODULE ModuleResolution_proofs ----------------------
(* What a request finds out about a module is true, for all files, limits  *)
(* and orders of requires. The invariant says what the stack of frames     *)
(* stands for: each frame reads the text of a module that its caller       *)
(* requires next and whose mark is in the cache. So a member that is       *)
(* handed up one frame is a member of a module that the caller requires,   *)
(* and Reach is closed under that. The last part shows the converse:       *)
(* within the limits nothing is missing.                                   *)
EXTENDS ModuleResolution, TLAPS, FiniteSetTheorems

\* Frame i reads the text of its module.
Reads(i) ==
    /\ frames[i].module \in DOMAIN cache
    /\ HasText(frames[i].module)
    /\ frames[i].requires = TextOf(frames[i].module).requires

\* Frame i waits for the one after it.
Calls(i) ==
    /\ frames[i].next <= Len(frames[i].requires)
    /\ frames[i].requires[frames[i].next] = frames[i + 1].module

ProbesWanted ==
    probe # None =>
      /\ Top.next <= Len(Top.requires) /\ Wanted = probe.module
      /\ probe.module \in DOMAIN cache /\ Found(probe.module) = {}

Stack ==
    /\ frames[1].requires = asks
    /\ \A i \in 2 .. Len(frames) : Reads(i)
    /\ \A i \in 1 .. Len(frames) - 1 : Calls(i)
    /\ ProbesWanted

\* What the members of a frame come from.
Comes(i, e) ==
    IF i = 1 THEN \E m \in Asked : Gives(Reach, m, e) ELSE Gives(Reach, frames[i].module, e)

Real ==
    /\ \A m \in DOMAIN cache : \A e \in cache[m] : Gives(Reach, m, e)
    /\ \A i \in 1 .. Len(frames) : \A e \in frames[i].members : Comes(i, e)

\* Identities only grow, and what a probe loaded is not older than the identity it is kept under.
Probing ==
    /\ \A m \in Natives :
          /\ nativeCache[m].identity <= library[m].version
          /\ nativeCache[m].loaded # 0 =>
                nativeCache[m].loaded \in nativeCache[m].identity .. library[m].version
    /\ probe # None =>
          /\ probe.identity <= library[probe.module].version
          /\ probe.loaded \notin {None, 0} =>
                probe.loaded \in probe.identity .. library[probe.module].version

-----------------------------------------------------------------------------
(* The files do not change.                                                *)

LEMMA FilesKept ==
    ASSUME UNCHANGED files
    PROVE  /\ \A m : Found(m)' = Found(m) /\ Candidate(m)' = Candidate(m) /\ TextOf(m)' = TextOf(m)
           /\ \A m : HasText(m)' = HasText(m) /\ Own(m)' = Own(m)
           /\ Reach' = Reach
<1>1. disk' = disk /\ docs' = docs
    BY DEF files
<1>2. \A m : Found(m)' = Found(m)
    BY <1>1 DEF Found
<1>3. \A m : Candidate(m)' = Candidate(m)
    BY <1>1 DEF Candidate, Found
<1>4. \A m : TextOf(m)' = TextOf(m)
    BY <1>1, <1>3 DEF TextOf, Candidate, Found
<1>5. \A m : HasText(m)' = HasText(m) /\ Own(m)' = Own(m)
    BY <1>1 DEF HasText, Own, Found, TextOf, Candidate, NativeMembers
<1>6. Reach' = Reach
    BY <1>1 DEF Reach, Requires, HasText, Found, TextOf, Candidate
<1> QED
    BY <1>2, <1>3, <1>4, <1>5, <1>6

LEMMA CandidateFound ==
    ASSUME NEW m, Found(m) # {}
    PROVE  Candidate(m) \in Found(m) /\ Candidate(m) \in Places
<1>1. Found(m) \in (SUBSET Places) \ {{}}
    BY DEF Found
<1>2. \E p \in Found(m) : \A q \in Found(m) : p <= q
    BY <1>1, ModulesAssumption
<1>3. Candidate(m) \in Found(m)
    BY <1>2 DEF Candidate
<1> QED
    BY <1>1, <1>3

LEMMA TextFound ==
    ASSUME TypeOK, NEW m \in Modules, Found(m) # {}
    PROVE  TextOf(m) \in Texts
<1> DEFINE p == Candidate(m)
<1>1. p \in Found(m) /\ p \in Places
    BY CandidateFound
<1>2. docs[p][m] \in Texts \cup {None} /\ disk[p][m] \in Texts \cup {None}
    BY <1>1 DEF TypeOK
<1>3. docs[p][m] # None \/ disk[p][m] # None
    BY <1>1 DEF Found
<1> QED
    BY <1>2, <1>3 DEF TextOf

-----------------------------------------------------------------------------
(* Reach is reflexive and closed under the requires of a text.             *)

LEMMA ReachSelf ==
    ASSUME NEW m \in Modules
    PROVE  <<m, m>> \in Reach
BY DEF Reach

LEMMA ReachStep ==
    ASSUME NEW m \in Modules, NEW n \in Modules, n \in Requires(m),
           NEW e, Gives(Reach, n, e)
    PROVE  Gives(Reach, m, e)
<1> DEFINE edges == UNION {{k} \X Requires(k) : k \in Modules}
           closed == {S \in SUBSET Modules : \A d \in edges : d[1] \in S => d[2] \in S}
<1>1. <<m, n>> \in edges
    OBVIOUS
<1>2. e.name \in Modules /\ \A S \in closed : n \in S => e.name \in S
    BY DEF Gives, Reach
<1>3. ASSUME NEW S \in closed, m \in S
      PROVE  e.name \in S
    <2>1. n \in S
        BY <1>1, <1>3
    <2> QED
        BY <2>1, <1>2
<1>4. <<m, e.name>> \in Reach
    BY <1>2, <1>3 DEF Reach
<1> QED
    BY <1>4 DEF Gives

-----------------------------------------------------------------------------
(* An answer changes the last of the frames it is given to.                *)

LEMMA AnswerFacts ==
    ASSUME NEW callers \in Seq(Frames), Len(callers) > 0,
           NEW members \in SUBSET Members, Answer(members, callers)
    PROVE  LET n == Len(callers) IN
           /\ frames' \in Seq(Frames) /\ Len(frames') = n
           /\ \A i \in 1 .. n :
                 /\ frames'[i].module = callers[i].module
                 /\ frames'[i].requires = callers[i].requires
                 /\ i # n => frames'[i] = callers[i]
           /\ frames'[n].members = callers[n].members \cup members
           /\ frames'[n].next = callers[n].next + 1
<1> DEFINE n == Len(callers)
<1>1. n \in 1 .. n /\ callers[n] \in Frames
    OBVIOUS
<1>2. frames' = [callers EXCEPT ![n] = [callers[n] EXCEPT !.members = @ \cup members, !.next = @ + 1]]
    BY <1>1 DEF Answer, Frames
<1>3. ASSUME NEW f \in Frames
      PROVE  /\ [f EXCEPT !.members = @ \cup members, !.next = @ + 1] \in Frames
             /\ [f EXCEPT !.members = @ \cup members, !.next = @ + 1].module = f.module
             /\ [f EXCEPT !.members = @ \cup members, !.next = @ + 1].requires = f.requires
             /\ [f EXCEPT !.members = @ \cup members, !.next = @ + 1].next = f.next + 1
             /\ [f EXCEPT !.members = @ \cup members, !.next = @ + 1].members = f.members \cup members
    <2>1. f.next + 1 \in Nat \ {0} /\ f.members \cup members \in SUBSET Members
        BY DEF Frames
    <2> QED
        BY <2>1 DEF Frames
<1> DEFINE new == [callers[n] EXCEPT !.members = @ \cup members, !.next = @ + 1]
<1>4. /\ new \in Frames /\ new.module = callers[n].module /\ new.requires = callers[n].requires
      /\ new.next = callers[n].next + 1 /\ new.members = callers[n].members \cup members
    BY <1>1, <1>3
<1>5. frames' = [callers EXCEPT ![n] = new]
    BY <1>2
<1> HIDE DEF new
<1>6. frames' \in Seq(Frames) /\ Len(frames') = n
    BY <1>1, <1>4, <1>5
<1>7. frames'[n] = new /\ \A i \in 1 .. n : i # n => frames'[i] = callers[i]
    BY <1>1, <1>5
<1> QED
    BY <1>4, <1>6, <1>7

LEMMA TopFrame ==
    ASSUME TypeOK
    PROVE  /\ Len(frames) \in Nat \ {0} /\ Top \in Frames
           /\ \A i \in 1 .. Len(frames) : frames[i] \in Frames
           /\ Top.next <= Len(Top.requires) => Wanted \in Modules
<1>1. Len(frames) \in Nat \ {0} /\ \A i \in 1 .. Len(frames) : frames[i] \in Frames
    BY ModulesAssumption DEF TypeOK
<1>2. Top \in Frames
    BY <1>1 DEF Top
<1> QED
    BY <1>1, <1>2 DEF Frames, Wanted

LEMMA CallerFrames ==
    ASSUME TypeOK, Len(frames) > 1
    PROVE  LET callers == SubSeq(frames, 1, Len(frames) - 1) IN
           /\ callers \in Seq(Frames) /\ Len(callers) = Len(frames) - 1
           /\ \A i \in 1 .. Len(frames) - 1 : callers[i] = frames[i]
BY ModulesAssumption DEF TypeOK

LEMMA MarkFacts ==
    ASSUME TypeOK, NEW m \in Modules, cache' = Mark(m)
    PROVE  /\ DOMAIN cache' = DOMAIN cache \cup {m} /\ cache' \in [DOMAIN cache' -> SUBSET Members]
           /\ DOMAIN cache' \subseteq Modules
           /\ cache'[m] = {} /\ \A k \in DOMAIN cache \ {m} : cache'[k] = cache[k]
BY DEF TypeOK, Mark

\* What a file exports, if what its frame collected is real.
LEMMA ExportedReal ==
    ASSUME NEW m \in Modules, HasText(m), NEW members \in SUBSET Members,
           \A e \in members : Gives(Reach, m, e)
    PROVE  /\ Exported(m, members) \subseteq Members
           /\ \A e \in Exported(m, members) : Gives(Reach, m, e)
<1>1. Candidate(m) \in Places
    BY CandidateFound DEF HasText
<1> DEFINE own == [name |-> m, uri |-> Candidate(m)]
<1>2. own \in Members /\ Gives(Reach, m, own)
    BY <1>1, ReachSelf DEF Members, Gives, Own, Here
<1>3. ASSUME NEW e \in members
      PROVE  e.uri # Here
    <2>1. e \in Own(e.name) /\ e \in Members
        BY <1>3 DEF Gives
    <2>2. CASE HasText(e.name)
        <3>1. e.uri = Candidate(e.name)
            BY <2>1, <2>2 DEF Own
        <3>2. Candidate(e.name) \in Places
            BY <2>2, CandidateFound DEF HasText
        <3> QED
            BY <3>1, <3>2, ModulesAssumption
    <2>3. CASE ~HasText(e.name)
        <3>1. e.uri = None
            BY <2>1, <2>3 DEF Own, NativeMembers
        <3> QED
            BY <3>1, ModulesAssumption DEF Here
    <2> QED
        BY <2>2, <2>3
<1>4. Exported(m, members) \subseteq members \cup {own}
    <2> SUFFICES ASSUME NEW e \in members \cup {[name |-> m, uri |-> Here]}
                 PROVE  (IF e.uri = Here THEN [e EXCEPT !.uri = Candidate(m)] ELSE e)
                            \in members \cup {own}
        BY DEF Exported
    <2>1. CASE e \in members
        BY <2>1, <1>3
    <2>2. CASE e = [name |-> m, uri |-> Here]
        BY <2>2
    <2> QED
        BY <2>1, <2>2
<1> QED
    BY <1>2, <1>4

LEMMA ProbedReal ==
    ASSUME NEW m \in Natives, Found(m) = {}, NEW loaded
    PROVE  /\ Probed(loaded, m) \subseteq Members
           /\ \A e \in Probed(loaded, m) : Gives(Reach, m, e)
<1>1. m \in Modules
    BY ModulesAssumption
<1>2. [name |-> m, uri |-> None] \in Members
    BY <1>1 DEF Members
<1>3. Own(m) = NativeMembers(m)
    BY DEF Own, HasText
<1> QED
    BY <1>1, <1>2, <1>3, ReachSelf DEF Probed, NativeMembers, Gives

-----------------------------------------------------------------------------
IInv == TypeOK /\ Stack /\ NoReentry /\ Real /\ Probing

\* resolve returns, from the module being read or at once: what it returns is real, so what the
\* caller collected stays real.
LEMMA AnswerKeeps ==
    ASSUME IInv, UNCHANGED <<files, asks>>, probe' = None, DOMAIN cache \subseteq DOMAIN cache',
           NEW callers \in Seq(Frames), NEW k \in 1 .. Len(frames), Len(callers) = k,
           \A i \in 1 .. k : callers[i] = frames[i],
           NEW m \in Modules, callers[k].next <= Len(callers[k].requires),
           m = callers[k].requires[callers[k].next],
           NEW members \in SUBSET Members, \A e \in members : Gives(Reach, m, e),
           Answer(members, callers)
    PROVE  /\ frames' \in Seq(Frames) /\ Len(frames') = k
           /\ Stack' /\ NoReentry'
           /\ \A i \in 1 .. Len(frames') : \A e \in frames'[i].members : Comes(i, e)'
<1> USE DEF IInv
<1>1. /\ frames' \in Seq(Frames) /\ Len(frames') = k
      /\ \A i \in 1 .. k :
            /\ frames'[i].module = frames[i].module
            /\ frames'[i].requires = frames[i].requires
            /\ i # k => frames'[i] = frames[i]
      /\ frames'[k].members = frames[k].members \cup members
      /\ k \in 1 .. k /\ k \in Nat /\ Len(frames) \in Nat /\ k <= Len(frames)
    BY AnswerFacts, TopFrame
<1>2. /\ \A n : HasText(n)' = HasText(n) /\ TextOf(n)' = TextOf(n) /\ Own(n)' = Own(n)
      /\ Reach' = Reach /\ Asked' = Asked
    BY FilesKept DEF Asked
<1>3. Stack'
    <2>1. frames'[1].requires = asks'
        BY <1>1 DEF Stack
    <2>2. ASSUME NEW i \in 2 .. Len(frames')
          PROVE  Reads(i)'
        <3>1. Reads(i) /\ i \in 1 .. k
            BY <1>1 DEF Stack
        <3> QED
            BY <3>1, <1>1, <1>2 DEF Reads
    <2>3. ASSUME NEW i \in 1 .. Len(frames') - 1
          PROVE  Calls(i)'
        <3>1. Calls(i) /\ i \in 1 .. k /\ i + 1 \in 1 .. k /\ i # k
            BY <1>1 DEF Stack
        <3>2. frames'[i] = frames[i] /\ frames'[i + 1].module = frames[i + 1].module
            BY <3>1, <1>1
        <3> QED
            BY <3>1, <3>2 DEF Calls
    <2> QED
        BY <2>1, <2>2, <2>3 DEF Stack, ProbesWanted
<1>4. NoReentry'
    BY <1>1 DEF NoReentry
<1>5. ASSUME NEW e \in members
      PROVE  Comes(k, e)
    <2>1. Gives(Reach, m, e)
        OBVIOUS
    <2>2. CASE k = 1
        <3>1. m \in Asked
            BY <2>2, TopFrame DEF Asked, Stack, Frames
        <3> QED
            BY <2>1, <2>2, <3>1 DEF Comes
    <2>3. CASE k # 1
        <3>1. HasText(frames[k].module) /\ frames[k].requires = TextOf(frames[k].module).requires
            BY <2>3, <1>1 DEF Stack, Reads
        <3>2. frames[k].module \in Modules
            BY <2>3, <1>1 DEF Stack, Reads, TypeOK
        <3>3. m \in Requires(frames[k].module)
            BY <3>1, TopFrame DEF Requires, Frames
        <3> QED
            BY <2>1, <2>3, <3>2, <3>3, ReachStep DEF Comes
    <2> QED
        BY <2>2, <2>3
<1>6. ASSUME NEW i \in 1 .. Len(frames'), NEW e \in frames'[i].members
      PROVE  Comes(i, e)'
    <2>1. Comes(i, e)
        BY <1>1, <1>5 DEF Real
    <2> QED
        BY <2>1, <1>1, <1>2 DEF Comes, Gives
<1> QED
    BY <1>1, <1>3, <1>4, <1>6

\* The same, from no frame: a cached result, none, or a native one.
LEMMA AnswerAtTop ==
    ASSUME IInv, UNCHANGED <<files, asks>>, probe' = None, DOMAIN cache \subseteq DOMAIN cache',
           Top.next <= Len(Top.requires),
           NEW members \in SUBSET Members, \A e \in members : Gives(Reach, Wanted, e),
           Answer(members, frames)
    PROVE  /\ frames' \in Seq(Frames) /\ Len(frames') = Len(frames)
           /\ Stack' /\ NoReentry'
           /\ \A i \in 1 .. Len(frames') : \A e \in frames'[i].members : Comes(i, e)'
<1> DEFINE k == Len(frames)
<1>1. frames \in Seq(Frames) /\ k \in 1 .. Len(frames) /\ Wanted \in Modules
    BY TopFrame DEF TypeOK, IInv
<1>2. frames[k].next <= Len(frames[k].requires) /\ Wanted = frames[k].requires[frames[k].next]
    BY DEF Top, Wanted
<1> HIDE DEF k
<1>3. Len(frames) = k /\ \A i \in 1 .. k : frames[i] = frames[i]
    BY DEF k
<1> QED
    BY <1>1, <1>2, <1>3, AnswerKeeps

\* The cache with one more module, or another answer for one.
LEMMA CacheKeeps ==
    ASSUME IInv, UNCHANGED files, NEW m \in Modules, NEW members \in SUBSET Members,
           \A e \in members : Gives(Reach, m, e),
           DOMAIN cache' = DOMAIN cache \cup {m}, cache' \in [DOMAIN cache' -> SUBSET Members],
           cache'[m] = members, \A k \in DOMAIN cache \ {m} : cache'[k] = cache[k]
    PROVE  \A k \in DOMAIN cache' : \A e \in cache'[k] : Gives(Reach, k, e)'
<1>1. Reach' = Reach /\ \A n : Own(n)' = Own(n)
    BY FilesKept
<1> SUFFICES ASSUME NEW k \in DOMAIN cache', NEW e \in cache'[k]
             PROVE  Gives(Reach, k, e)
    BY <1>1 DEF Gives
<1> QED
    BY DEF IInv, Real

LEMMA CachedStep == IInv /\ Cached => IInv'
<1> SUFFICES ASSUME IInv, Cached PROVE IInv'
    OBVIOUS
<1> USE DEF IInv
<1>1. /\ UNCHANGED <<files, library, nativeCache, asks, cache, remaining, probe, requests>>
      /\ Top.next <= Len(Top.requires) /\ probe = None /\ Wanted \in DOMAIN cache
      /\ Answer(cache[Wanted], frames)
    BY DEF Cached, Reading
<1>2. /\ cache[Wanted] \in SUBSET Members /\ \A e \in cache[Wanted] : Gives(Reach, Wanted, e)
      /\ Wanted \in Modules
    BY <1>1 DEF TypeOK, Real
<1>3. /\ frames' \in Seq(Frames) /\ Len(frames') = Len(frames) /\ Stack' /\ NoReentry'
      /\ \A i \in 1 .. Len(frames') : \A e \in frames'[i].members : Comes(i, e)'
    BY <1>1, <1>2, AnswerAtTop
<1>4. TypeOK'
    BY <1>1, <1>3 DEF TypeOK, files
<1>5. Real'
    BY <1>1, <1>3, FilesKept DEF Real, Gives
<1>6. Probing'
    BY <1>1 DEF Probing
<1> QED
    BY <1>3, <1>4, <1>5, <1>6

LEMMA LimitedStep == IInv /\ Limited => IInv'
<1> SUFFICES ASSUME IInv, Limited PROVE IInv'
    OBVIOUS
<1> USE DEF IInv
<1>1. /\ UNCHANGED <<files, library, nativeCache, asks, cache, remaining, probe, requests>>
      /\ Top.next <= Len(Top.requires) /\ probe = None /\ Answer({}, frames)
    BY DEF Limited, Reading
<1>2. /\ frames' \in Seq(Frames) /\ Len(frames') = Len(frames) /\ Stack' /\ NoReentry'
      /\ \A i \in 1 .. Len(frames') : \A e \in frames'[i].members : Comes(i, e)'
    BY <1>1, AnswerAtTop
<1>3. TypeOK'
    BY <1>1, <1>2 DEF TypeOK, files
<1>4. Real'
    BY <1>1, <1>2, FilesKept DEF Real, Gives
<1>5. Probing'
    BY <1>1 DEF Probing
<1> QED
    BY <1>2, <1>3, <1>4, <1>5

LEMMA FailStep == IInv /\ Fail => IInv'
<1> SUFFICES ASSUME IInv, Fail PROVE IInv'
    OBVIOUS
<1> USE DEF IInv
<1>1. /\ UNCHANGED <<files, library, nativeCache, asks, remaining, probe, requests>>
      /\ Top.next <= Len(Top.requires) /\ probe = None
      /\ cache' = Mark(Wanted) /\ Wanted \in Modules /\ Answer({}, frames)
    BY TopFrame DEF Fail, Searching, Reading
<1>2. /\ DOMAIN cache' = DOMAIN cache \cup {Wanted} /\ cache' \in [DOMAIN cache' -> SUBSET Members]
      /\ DOMAIN cache' \subseteq Modules
      /\ cache'[Wanted] = {} /\ \A k \in DOMAIN cache \ {Wanted} : cache'[k] = cache[k]
    BY <1>1, MarkFacts
<1>3. /\ frames' \in Seq(Frames) /\ Len(frames') = Len(frames) /\ Stack' /\ NoReentry'
      /\ \A i \in 1 .. Len(frames') : \A e \in frames'[i].members : Comes(i, e)'
    BY <1>1, <1>2, AnswerAtTop
<1>4. TypeOK'
    BY <1>1, <1>2, <1>3 DEF TypeOK, files
<1>5. \A k \in DOMAIN cache' : \A e \in cache'[k] : Gives(Reach, k, e)'
    BY <1>1, <1>2, CacheKeeps
<1>6. Real' /\ Probing'
    BY <1>1, <1>3, <1>5 DEF Real, Probing
<1> QED
    BY <1>3, <1>4, <1>6

\* A module begins to be read: its mark is new, so no frame reads it yet.
LEMMA EnterStep == IInv /\ Enter => IInv'
<1> SUFFICES ASSUME IInv, Enter PROVE IInv'
    OBVIOUS
<1> USE DEF IInv
<1> DEFINE m == Wanted
           n == Len(frames)
           new == Frame(m, TextOf(m).requires)
<1>1. /\ UNCHANGED <<files, library, nativeCache, asks, probe, requests>>
      /\ Top.next <= Len(Top.requires) /\ probe = None
      /\ m \in Modules /\ m \notin DOMAIN cache /\ cache' = Mark(m)
      /\ Found(m) # {} /\ ~TooLong(m) /\ n - 1 < MaxDepth
      /\ frames' = Append(frames, new) /\ remaining' = remaining - TextOf(m).size
    BY TopFrame, ModulesAssumption DEF Enter, Searching, Reading, LimitMet, Depth
<1>2. TextOf(m) \in Texts /\ TextOf(m).size <= FileLimit /\ TextOf(m).size <= remaining
    BY SMTT(20), <1>1, TextFound, ModulesAssumption DEF TooLong, Texts, TypeOK
<1>3. /\ DOMAIN cache' = DOMAIN cache \cup {m} /\ cache' \in [DOMAIN cache' -> SUBSET Members]
      /\ DOMAIN cache' \subseteq Modules
      /\ cache'[m] = {} /\ \A k \in DOMAIN cache \ {m} : cache'[k] = cache[k]
    BY <1>1, MarkFacts
<1>4. /\ new \in Frames /\ new.module = m /\ new.requires = TextOf(m).requires
      /\ new.next = 1 /\ new.members = {}
    BY <1>1, <1>2 DEF Frame, Frames, Texts
<1>5. n \in Nat \ {0} /\ frames \in Seq(Frames) /\ Top = frames[n] /\ m = frames[n].requires[frames[n].next]
    BY TopFrame DEF TypeOK, Top, Wanted
<1> HIDE DEF new, n, m
<1>6. /\ frames' \in Seq(Frames) /\ Len(frames') = n + 1
      /\ \A i \in 1 .. n : frames'[i] = frames[i]
      /\ frames'[n + 1] = new
    BY <1>1, <1>4, <1>5 DEF n
<1>7. /\ \A x : HasText(x)' = HasText(x) /\ TextOf(x)' = TextOf(x) /\ Own(x)' = Own(x)
      /\ Reach' = Reach /\ Asked' = Asked
    BY <1>1, FilesKept DEF Asked
<1>8. TypeOK'
    <2>1. remaining' \in 0 .. Budget
        BY <1>1, <1>2, ModulesAssumption DEF TypeOK, Texts
    <2>2. Len(frames') \in 1 .. MaxDepth + 1
        BY <1>1, <1>5, <1>6, ModulesAssumption
    <2> QED
        BY <2>1, <2>2, <1>1, <1>3, <1>6 DEF TypeOK, files
<1>9. Stack'
    <2>1. frames'[1].requires = asks'
        BY <1>1, <1>5, <1>6 DEF Stack
    <2>2. ASSUME NEW i \in 2 .. Len(frames')
          PROVE  Reads(i)'
        <3>1. CASE i = n + 1
            BY <3>1, <1>1, <1>2, <1>3, <1>4, <1>6, <1>7 DEF Reads, HasText
        <3>2. CASE i # n + 1
            <4>1. Reads(i) /\ i \in 1 .. n
                BY <3>2, <1>5, <1>6 DEF Stack, n
            <4> QED
                BY <4>1, <1>3, <1>6, <1>7 DEF Reads
        <3> QED
            BY <3>1, <3>2
    <2>3. ASSUME NEW i \in 1 .. Len(frames') - 1
          PROVE  Calls(i)'
        <3>1. CASE i = n
            BY <3>1, <1>1, <1>4, <1>5, <1>6 DEF Calls
        <3>2. CASE i # n
            <4>1. Calls(i) /\ i \in 1 .. n /\ i + 1 \in 1 .. n
                BY <3>2, <1>5, <1>6 DEF Stack, n
            <4> QED
                BY <4>1, <1>6 DEF Calls
        <3> QED
            BY <3>1, <3>2
    <2> QED
        BY <2>1, <2>2, <2>3, <1>1 DEF Stack, ProbesWanted
<1>10. NoReentry'
    <2>1. \A i \in 2 .. n : frames[i].module # m
        BY <1>1, <1>5 DEF Stack, Reads, n
    <2> QED
        BY <2>1, <1>4, <1>5, <1>6 DEF NoReentry, n
<1>11. Real'
    <2>1. \A k \in DOMAIN cache' : \A e \in cache'[k] : Gives(Reach, k, e)'
        BY <1>1, <1>3, CacheKeeps
    <2>2. ASSUME NEW i \in 1 .. Len(frames'), NEW e \in frames'[i].members
          PROVE  Comes(i, e)'
        <3>1. i \in 1 .. n /\ frames'[i] = frames[i]
            BY <2>2, <1>4, <1>5, <1>6
        <3>2. Comes(i, e)
            BY <3>1, <2>2 DEF Real, n
        <3> QED
            BY <3>1, <3>2, <1>7 DEF Comes, Gives
    <2> QED
        BY <2>1, <2>2 DEF Real
<1>12. Probing'
    BY <1>1 DEF Probing
<1> QED
    BY <1>8, <1>9, <1>10, <1>11, <1>12

LEMMA ReturnStep == IInv /\ Return => IInv'
<1> SUFFICES ASSUME IInv, Return PROVE IInv'
    OBVIOUS
<1> USE DEF IInv
<1> DEFINE n == Len(frames)
           m == Top.module
           members == Exported(m, Top.members)
           callers == SubSeq(frames, 1, n - 1)
<1>1. /\ UNCHANGED <<files, library, nativeCache, asks, remaining, probe, requests>>
      /\ n > 1 /\ probe = None
      /\ cache' = [cache EXCEPT ![m] = members] /\ Answer(members, callers)
    BY DEF Return
<1>2. n \in Nat /\ n \in 2 .. n /\ Top = frames[n] /\ n - 1 \in 1 .. n /\ n - 1 \in 1 .. n - 1
    BY <1>1, TopFrame DEF Top
<1>3. Reads(n) /\ Calls(n - 1)
    BY <1>2 DEF Stack
<1>4. m \in DOMAIN cache /\ m \in Modules /\ HasText(m)
    BY <1>2, <1>3 DEF Reads, TypeOK
<1>5. Top.members \in SUBSET Members /\ \A e \in Top.members : Gives(Reach, m, e)
    BY <1>2, TopFrame DEF Real, Comes, Frames
<1>6. members \in SUBSET Members /\ \A e \in members : Gives(Reach, m, e)
    BY <1>4, <1>5, ExportedReal
<1>7. /\ callers \in Seq(Frames) /\ Len(callers) = n - 1
      /\ \A i \in 1 .. n - 1 : callers[i] = frames[i]
    BY <1>1, CallerFrames
<1>8. /\ callers[n - 1].next <= Len(callers[n - 1].requires)
      /\ m = callers[n - 1].requires[callers[n - 1].next]
    BY <1>2, <1>3, <1>7 DEF Calls
<1> HIDE DEF members, callers, m
<1>9. /\ DOMAIN cache' = DOMAIN cache \cup {m} /\ cache' \in [DOMAIN cache' -> SUBSET Members]
      /\ cache'[m] = members /\ \A k \in DOMAIN cache \ {m} : cache'[k] = cache[k]
    BY <1>1, <1>4, <1>6 DEF TypeOK
<1>10. /\ frames' \in Seq(Frames) /\ Len(frames') = n - 1 /\ Stack' /\ NoReentry'
       /\ \A i \in 1 .. Len(frames') : \A e \in frames'[i].members : Comes(i, e)'
    BY SMTT(20), <1>1, <1>2, <1>4, <1>6, <1>7, <1>8, <1>9, AnswerKeeps
<1>11. TypeOK'
    <2>1. Len(frames') \in 1 .. MaxDepth + 1
        BY <1>1, <1>2, <1>10, ModulesAssumption DEF TypeOK
    <2>2. DOMAIN cache' \subseteq Modules
        BY <1>4, <1>9 DEF TypeOK
    <2> QED
        BY <2>1, <2>2, <1>1, <1>9, <1>10 DEF TypeOK, files
<1>12. \A k \in DOMAIN cache' : \A e \in cache'[k] : Gives(Reach, k, e)'
    BY <1>1, <1>4, <1>6, <1>9, CacheKeeps
<1>13. Real' /\ Probing'
    BY <1>1, <1>10, <1>12 DEF Real, Probing
<1> QED
    BY <1>10, <1>11, <1>13

-----------------------------------------------------------------------------
(* Native libraries.                                                       *)

LEMMA NativeHitStep == IInv /\ NativeHit => IInv'
<1> SUFFICES ASSUME IInv, NativeHit PROVE IInv'
    OBVIOUS
<1> USE DEF IInv
<1> DEFINE m == Wanted
           members == Probed(nativeCache[m].loaded, m)
<1>1. /\ UNCHANGED <<files, library, nativeCache, asks, remaining, probe, requests>>
      /\ Top.next <= Len(Top.requires) /\ probe = None /\ m \in Natives /\ m \in Modules
      /\ Found(m) = {} /\ Answer(members, frames)
      /\ cache' = [Mark(m) EXCEPT ![m] = members]
    BY ModulesAssumption DEF NativeHit, Searching, Reading
<1>2. members \in SUBSET Members /\ \A e \in members : Gives(Reach, m, e)
    BY <1>1, ProbedReal
<1> HIDE DEF members
<1>3. /\ DOMAIN cache' = DOMAIN cache \cup {m} /\ cache' \in [DOMAIN cache' -> SUBSET Members]
      /\ DOMAIN cache' \subseteq Modules
      /\ cache'[m] = members /\ \A k \in DOMAIN cache \ {m} : cache'[k] = cache[k]
    BY <1>1, <1>2 DEF TypeOK, Mark
<1>4. /\ frames' \in Seq(Frames) /\ Len(frames') = Len(frames) /\ Stack' /\ NoReentry'
      /\ \A i \in 1 .. Len(frames') : \A e \in frames'[i].members : Comes(i, e)'
    BY <1>1, <1>2, <1>3, AnswerAtTop
<1>5. TypeOK'
    BY <1>1, <1>3, <1>4 DEF TypeOK, files
<1>6. \A k \in DOMAIN cache' : \A e \in cache'[k] : Gives(Reach, k, e)'
    BY <1>1, <1>2, <1>3, CacheKeeps
<1>7. Real' /\ Probing'
    BY <1>1, <1>4, <1>6 DEF Real, Probing
<1> QED
    BY <1>4, <1>5, <1>7

LEMMA StartProbeStep == IInv /\ StartProbe => IInv'
<1> SUFFICES ASSUME IInv, StartProbe PROVE IInv'
    OBVIOUS
<1> USE DEF IInv
<1> DEFINE m == Wanted
<1>1. /\ UNCHANGED <<files, library, nativeCache, asks, remaining, frames, requests>>
      /\ Top.next <= Len(Top.requires) /\ m \in Natives /\ m \in Modules
      /\ Found(m) = {} /\ cache' = Mark(m)
      /\ probe' = [module |-> m, identity |-> library[m].version, loaded |-> None]
    BY ModulesAssumption DEF StartProbe, Searching, Reading
<1>2. /\ DOMAIN cache' = DOMAIN cache \cup {m} /\ cache' \in [DOMAIN cache' -> SUBSET Members]
      /\ DOMAIN cache' \subseteq Modules
      /\ cache'[m] = {} /\ \A k \in DOMAIN cache \ {m} : cache'[k] = cache[k]
    BY <1>1, MarkFacts
<1>3. library[m] \in [version : 1 .. MaxVersion, loads : BOOLEAN]
    BY <1>1 DEF TypeOK
<1>4. probe' \in Probes
    BY <1>1, <1>3 DEF Probes
<1>5. TypeOK'
    BY <1>1, <1>2, <1>4 DEF TypeOK, files
<1>6. Stack'
    <2>1. \A x : HasText(x)' = HasText(x) /\ TextOf(x)' = TextOf(x) /\ Found(x)' = Found(x)
        BY <1>1, FilesKept
    <2>2. \A i \in 2 .. Len(frames) : Reads(i)'
        BY <2>1, <1>1, <1>2 DEF Stack, Reads
    <2>3. \A i \in 1 .. Len(frames) - 1 : Calls(i)'
        BY <1>1 DEF Stack, Calls
    <2>4. ProbesWanted'
        BY <2>1, <1>1, <1>2 DEF ProbesWanted, Wanted, Top
    <2> QED
        BY <2>2, <2>3, <2>4, <1>1 DEF Stack
<1>7. \A k \in DOMAIN cache' : \A e \in cache'[k] : Gives(Reach, k, e)'
    BY <1>1, <1>2, CacheKeeps
<1>8. \A i \in 1 .. Len(frames) : \A e \in frames[i].members : Comes(i, e)'
    BY <1>1, FilesKept DEF Real, Comes, Gives, Asked
<1>9. Real' /\ NoReentry'
    BY <1>1, <1>7, <1>8 DEF Real, NoReentry
<1>10. Probing'
    BY <1>1, <1>3, ModulesAssumption DEF Probing
<1> QED
    BY <1>5, <1>6, <1>9, <1>10

\* Steps that leave the request's frames and cache alone.
LEMMA StackKept ==
    ASSUME IInv, UNCHANGED <<files, asks, cache, frames>>, probe = None => probe' = None,
           probe' # None => probe'.module = probe.module
    PROVE  Stack' /\ NoReentry' /\ Real'
<1> USE DEF IInv
<1>1. /\ \A x : HasText(x)' = HasText(x) /\ TextOf(x)' = TextOf(x) /\ Found(x)' = Found(x)
      /\ \A x : Own(x)' = Own(x)
      /\ Reach' = Reach /\ Asked' = Asked
    BY FilesKept DEF Asked
<1>2. \A i \in 2 .. Len(frames) : Reads(i)'
    BY <1>1 DEF Stack, Reads
<1>3. \A i \in 1 .. Len(frames) - 1 : Calls(i)'
    BY DEF Stack, Calls
<1>4. ProbesWanted'
    BY <1>1 DEF Stack, ProbesWanted, Wanted, Top
<1>5. Stack'
    BY <1>2, <1>3, <1>4 DEF Stack
<1>6. \A i \in 1 .. Len(frames) : \A e \in frames[i].members : Comes(i, e)'
    BY <1>1 DEF Real, Comes, Gives
<1>7. Real' /\ NoReentry'
    BY <1>1, <1>6 DEF Real, NoReentry, Gives
<1> QED
    BY <1>5, <1>7

LEMMA LoadLibraryStep == IInv /\ (\E inTime \in BOOLEAN : LoadLibrary(inTime)) => IInv'
<1> SUFFICES ASSUME IInv, NEW inTime \in BOOLEAN, LoadLibrary(inTime) PROVE IInv'
    OBVIOUS
<1> USE DEF IInv
<1> DEFINE m == probe.module
<1>1. /\ UNCHANGED <<files, library, nativeCache, asks, cache, remaining, frames, requests>>
      /\ probe \in Probes /\ m \in Natives
      /\ library[m] \in [version : 1 .. MaxVersion, loads : BOOLEAN]
      /\ probe.identity <= library[m].version /\ probe.identity \in 1 .. MaxVersion
    BY DEF LoadLibrary, TypeOK, Probes, Probing
<1> DEFINE l == IF inTime /\ library[m].loads THEN library[m].version ELSE 0
<1>2. /\ probe' = [probe EXCEPT !.loaded = l] /\ l \in 0 .. MaxVersion
      /\ l # 0 => l = library[m].version
    BY <1>1, ModulesAssumption DEF LoadLibrary
<1> HIDE DEF l
<1>3. /\ probe' \in Probes /\ probe'.module = m /\ probe'.identity = probe.identity
      /\ probe'.loaded = l
    BY <1>1, <1>2 DEF Probes
<1>4. TypeOK'
    BY <1>1, <1>3 DEF TypeOK, files
<1>5. Stack' /\ NoReentry' /\ Real'
    BY <1>1, <1>3, StackKept DEF LoadLibrary
<1>6. Probing'
    BY <1>1, <1>2, <1>3, ModulesAssumption DEF Probing
<1> QED
    BY <1>4, <1>5, <1>6

LEMMA FinishProbeStep == IInv /\ FinishProbe => IInv'
<1> SUFFICES ASSUME IInv, FinishProbe PROVE IInv'
    OBVIOUS
<1> USE DEF IInv
<1> DEFINE m == probe.module
           members == Probed(probe.loaded, m)
<1>1. /\ UNCHANGED <<files, library, asks, remaining, requests>> /\ probe' = None
      /\ nativeCache' = [nativeCache EXCEPT ![m] = Kept]
      /\ cache' = [cache EXCEPT ![m] = members] /\ Answer(members, frames)
      /\ probe \in Probes /\ probe # None /\ probe.loaded # None
    BY DEF FinishProbe, TypeOK
<1>2. /\ m \in Natives /\ m \in Modules /\ m \in DOMAIN cache /\ Found(m) = {}
      /\ Wanted = m /\ Top.next <= Len(Top.requires)
      /\ probe.identity \in 1 .. MaxVersion /\ probe.loaded \in 0 .. MaxVersion
    BY <1>1, ModulesAssumption DEF Stack, ProbesWanted, Probes
<1>3. members \in SUBSET Members /\ \A e \in members : Gives(Reach, m, e)
    BY <1>2, ProbedReal
<1> HIDE DEF members
<1>4. /\ DOMAIN cache' = DOMAIN cache \cup {m} /\ cache' \in [DOMAIN cache' -> SUBSET Members]
      /\ DOMAIN cache' \subseteq Modules
      /\ cache'[m] = members /\ \A k \in DOMAIN cache \ {m} : cache'[k] = cache[k]
    BY <1>1, <1>2, <1>3 DEF TypeOK
<1>5. /\ frames' \in Seq(Frames) /\ Len(frames') = Len(frames) /\ Stack' /\ NoReentry'
      /\ \A i \in 1 .. Len(frames') : \A e \in frames'[i].members : Comes(i, e)'
    BY <1>1, <1>2, <1>3, <1>4, AnswerAtTop
<1>6. Kept \in [identity : 0 .. MaxVersion, loaded : 0 .. MaxVersion]
    BY <1>2, ModulesAssumption DEF Kept
<1>7. TypeOK'
    BY <1>1, <1>4, <1>5, <1>6 DEF TypeOK, files
<1>8. \A k \in DOMAIN cache' : \A e \in cache'[k] : Gives(Reach, k, e)'
    BY <1>1, <1>2, <1>3, <1>4, CacheKeeps
<1>9. Real'
    BY <1>5, <1>8 DEF Real
<1>10. Probing'
    <2> SUFFICES ASSUME NEW x \in Natives
                 PROVE  /\ nativeCache'[x].identity <= library[x].version
                        /\ nativeCache'[x].loaded # 0 =>
                              nativeCache'[x].loaded \in nativeCache'[x].identity .. library[x].version
        BY <1>1 DEF Probing
    <2>1. CASE x = m
        <3>1. nativeCache'[x].identity = probe.identity /\ nativeCache'[x].loaded = probe.loaded
            BY <2>1, <1>1, <1>2 DEF Kept, TypeOK
        <3> QED
            BY <3>1, <2>1, <1>1 DEF Probing
    <2>2. CASE x # m
        <3>1. nativeCache'[x] = nativeCache[x]
            BY <2>2, <1>1 DEF TypeOK
        <3> QED
            BY <3>1 DEF Probing
    <2> QED
        BY <2>1, <2>2
<1> QED
    BY <1>5, <1>7, <1>9, <1>10

LEMMA ReinstallStep ==
    IInv /\ (\E m \in Natives, loads \in BOOLEAN : Reinstall(m, loads)) => IInv'
<1> SUFFICES ASSUME IInv, NEW m \in Natives, NEW loads \in BOOLEAN, Reinstall(m, loads)
             PROVE  IInv'
    OBVIOUS
<1> USE DEF IInv
<1>1. /\ UNCHANGED <<files, nativeCache, asks, cache, remaining, frames, probe, requests>>
      /\ library[m] \in [version : 1 .. MaxVersion, loads : BOOLEAN] /\ library[m].version < MaxVersion
      /\ library' = [library EXCEPT ![m] = [version |-> library[m].version + 1, loads |-> loads]]
    BY DEF Reinstall, TypeOK, request
<1>2. [version |-> library[m].version + 1, loads |-> loads] \in [version : 1 .. MaxVersion, loads : BOOLEAN]
    BY <1>1, ModulesAssumption
<1>3. TypeOK'
    BY <1>1, <1>2 DEF TypeOK, files
<1>4. Stack' /\ NoReentry' /\ Real'
    BY <1>1, StackKept
<1>5. \A x \in Natives : /\ library[x].version \in Nat /\ library'[x].version \in Nat
                          /\ library[x].version <= library'[x].version
    BY SMTT(20), <1>1, ModulesAssumption DEF TypeOK
<1>6. \A x \in Natives : /\ nativeCache[x].identity \in Nat /\ nativeCache[x].loaded \in Nat
    BY ModulesAssumption DEF TypeOK
<1>7. probe # None => /\ probe.module \in Natives /\ probe.identity \in Nat
                      /\ probe.loaded # None => probe.loaded \in Nat
    BY SMTT(20), ModulesAssumption DEF TypeOK, Probes
<1>8. Probing'
    BY <1>1, <1>5, <1>6, <1>7 DEF Probing
<1> QED
    BY <1>3, <1>4, <1>8

LEMMA RequestStep == IInv /\ (\E requires \in Asks : Request(requires)) => IInv'
<1> SUFFICES ASSUME IInv, NEW requires \in Asks, Request(requires) PROVE IInv'
    OBVIOUS
<1> USE DEF IInv
<1> DEFINE new == Frame(None, requires)
<1>1. /\ UNCHANGED <<files, library, nativeCache, probe>> /\ probe = None
      /\ asks' = requires /\ cache' = [m \in {} |-> {}] /\ remaining' = Budget
      /\ frames' = <<new>> /\ requests' = requests + 1 /\ requests < MaxRequests
    BY DEF Request, Done
<1>2. requires \in Seq(Modules)
    BY ModulesAssumption
<1>3. new \in Frames /\ new.requires = requires /\ new.members = {}
    BY <1>2 DEF Frame, Frames
<1> HIDE DEF new
<1>4. frames' \in Seq(Frames) /\ Len(frames') = 1 /\ frames'[1] = new
    BY <1>1, <1>3
<1>5. TypeOK'
    BY SMTT(20), <1>1, <1>2, <1>4, ModulesAssumption DEF TypeOK, files
<1>6. Stack' /\ NoReentry'
    BY <1>1, <1>3, <1>4 DEF Stack, ProbesWanted, NoReentry
<1>7. Real' /\ Probing'
    BY <1>1, <1>3, <1>4 DEF Real, Probing
<1> QED
    BY <1>5, <1>6, <1>7

-----------------------------------------------------------------------------
LEMMA InitInv == Init => IInv
<1> SUFFICES ASSUME Init PROVE IInv
    OBVIOUS
<1> DEFINE new == Frame(None, <<>>)
<1>1. new \in Frames /\ new.requires = <<>> /\ new.members = {}
    BY DEF Frame, Frames
<1> HIDE DEF new
<1>2. frames = <<new>> /\ frames \in Seq(Frames) /\ Len(frames) = 1 /\ frames[1] = new
    BY <1>1 DEF Init, new
<1>3. TypeOK
    BY <1>2, ModulesAssumption DEF Init, TypeOK
<1>4. Stack /\ NoReentry
    BY <1>1, <1>2 DEF Init, Stack, ProbesWanted, NoReentry
<1>5. Real /\ Probing
    BY <1>1, <1>2 DEF Init, Real, Probing
<1> QED
    BY <1>3, <1>4, <1>5 DEF IInv

LEMMA NextInv == IInv /\ [Next]_vars => IInv'
<1>1. ASSUME IInv, UNCHANGED vars
      PROVE  IInv'
    <2>1. TypeOK'
        BY <1>1 DEF IInv, TypeOK, vars
    <2>2. Stack' /\ NoReentry' /\ Real'
        BY <1>1, StackKept DEF vars, files
    <2>3. Probing'
        BY <1>1 DEF IInv, Probing, vars
    <2> QED
        BY <2>1, <2>2, <2>3 DEF IInv
<1> QED
    BY <1>1, CachedStep, LimitedStep, EnterStep, FailStep, ReturnStep, NativeHitStep, StartProbeStep,
       LoadLibraryStep, FinishProbeStep, ReinstallStep, RequestStep DEF Next

LEMMA Invariance == Spec => []IInv
BY InitInv, NextInv, PTL DEF Spec

\* The types of all variables; the stack stays within the depth limit and the budget is never
\* overdrawn, whatever the files and limits.
THEOREM TypeCorrect == Spec => []TypeOK
<1>1. IInv => TypeOK
    BY DEF IInv
<1> QED
    BY <1>1, Invariance, PTL

\* No request attributes to a module what its files do not give it, for all files, limits and
\* orders of requires, cycles included.
THEOREM MembersReal == Spec => []OnlyRealMembers
<1>1. IInv => OnlyRealMembers
    <2> SUFFICES ASSUME IInv PROVE OnlyRealMembers
        OBVIOUS
    <2>1. 1 \in 1 .. Len(frames)
        BY TopFrame DEF IInv
    <2> QED
        BY <2>1 DEF IInv, Real, Comes, OnlyRealMembers
<1> QED
    BY <1>1, Invariance, PTL

\* No module is read while it is being read.
THEOREM ModulesNotReentered == Spec => []NoReentry
<1>1. IInv => NoReentry
    BY DEF IInv
<1> QED
    BY <1>1, Invariance, PTL

\* A kept result of a native library belongs to the file it is kept under, however
\* installations and probes overlap.
THEOREM NativeResultsCurrent == Spec => []NativeResultCurrent
<1>1. IInv => NativeResultCurrent
    <2> SUFFICES ASSUME IInv, NEW m \in Natives, nativeCache[m].identity = library[m].version
                 PROVE  nativeCache[m].loaded \in {0, library[m].version}
        BY DEF NativeResultCurrent
    <2>1. library[m].version \in Nat /\ nativeCache[m].loaded \in Nat
        BY ModulesAssumption DEF IInv, TypeOK
    <2> QED
        BY <2>1 DEF IInv, Probing
<1> QED
    BY <1>1, Invariance, PTL

-----------------------------------------------------------------------------
(***************************************************************************)
(* The search misses nothing.  Within the limits a request is a walk of a  *)
(* graph without a cycle: what is in the cache and no longer open has all  *)
(* that it leads to, and so has every frame for the requires it is done    *)
(* with; the budget pays for each text once.                               *)
(***************************************************************************)

\* The texts that the asked modules need.
Needed == {n \in Modules : HasText(n) /\ \E m \in Asked : <<m, n>> \in Reach}

\* The length of the texts of some of them.
Total[S \in SUBSET Needed] ==
    IF S = {} THEN 0
    ELSE LET x == CHOOSE x \in S : TRUE IN TextOf(x).size + Total[S \ {x}]

Visited == {m \in DOMAIN cache : HasText(m)}

\* Whatever m leads to is among the members.
Gathered(m, members) ==
    \A n \in Modules : <<m, n>> \in Reach /\ HasText(n) => Own(n) \subseteq members

Opened(m) == \E i \in 2 .. Len(frames) : frames[i].module = m

Deep == \A i \in 2 .. Len(frames) : frames[i].module \in Away[i - 2]
Spent == Visited \subseteq Needed /\ remaining = Budget - Total[Visited]
Remembered == \A m \in DOMAIN cache : Opened(m) \/ Gathered(m, cache[m])
Collected ==
    \A i \in 1 .. Len(frames) : \A j \in DOMAIN frames[i].requires :
        j < frames[i].next => Gathered(frames[i].requires[j], frames[i].members)

Search == WithinLimits => Deep /\ Spent /\ Remembered /\ Collected

CInv == IInv /\ Search

-----------------------------------------------------------------------------
(* Recursions over numbers and sets.                                       *)

LEMMA Least ==
    ASSUME NEW S, S \subseteq Nat, S # {}
    PROVE  \E n \in S : \A k \in S : n <= k
<1> DEFINE R == OpToRel(<, Nat)
<1>1. IsWellFoundedOn(R, Nat)
    BY NatLessThanWellFounded
<1>2. \A x, y \in Nat : <<y, x>> \in R <=> y < x
    BY DEF OpToRel
<1> HIDE DEF R
<1>3. PICK x \in S : \A y \in S : ~(<<y, x>> \in R)
    BY <1>1, WFMin
<1>4. ASSUME NEW k \in S PROVE x <= k
    <2>1. ~(k < x) /\ k \in Nat /\ x \in Nat
        BY <1>2, <1>3, Zenon
    <2> QED
        BY <2>1
<1> QED
    BY <1>4

LEMMA LimitsMean ==
    WithinLimits <=> Away[MaxDepth] = {} /\ Total[Needed] <= Budget
BY DEF WithinLimits, Total, Needed, MapThenSumSet, MapThenFoldSet

\* Away is what its definition says.
LEMMA AwaySteps ==
    /\ Away[0] = Asked
    /\ \A k \in 1 .. MaxDepth : Away[k] = UNION {Requires(m) : m \in Away[k - 1]}
<1> DEFINE Good(g, n) ==
             g = [k \in 0 .. n |-> IF k = 0 THEN Asked ELSE UNION {Requires(m) : m \in g[k - 1]}]
           Bad == {n \in Nat : ~ \E g : Good(g, n)}
<1>1. Bad = {}
    <2> SUFFICES ASSUME Bad # {} PROVE FALSE
        OBVIOUS
    <2>1. PICK n \in Bad : \A k \in Bad : n <= k
        BY Least
    <2>2. n # 0
        <3>1. Good([k \in 0 .. 0 |-> Asked], 0)
            OBVIOUS
        <3> QED
            BY <3>1
    <2>3. n - 1 \in Nat /\ n - 1 \notin Bad /\ n \in Nat
        <3>1. n \in Nat /\ n - 1 \in Nat
            BY <2>2
        <3> HIDE DEF Bad
        <3> QED
            BY <2>1, <3>1
    <2>4. PICK g : Good(g, n - 1)
        BY <2>3
    <2> DEFINE h == [k \in 0 .. n |->
                        IF k = 0 THEN Asked ELSE UNION {Requires(m) : m \in g[k - 1]}]
    <2>5. \A k \in 0 .. n - 1 : h[k] = g[k]
        BY <2>3, <2>4
    <2>6. \A k \in 0 .. n : k # 0 => k - 1 \in 0 .. n - 1
        BY <2>3
    <2>7. \A k \in 0 .. n : k # 0 => h[k - 1] = g[k - 1]
        BY <2>5, <2>6
    <2>8. Good(h, n)
        BY <2>7
    <2> QED
        BY <2>1, <2>8
<1>2. PICK g : Good(g, MaxDepth)
    BY <1>1, ModulesAssumption
<1>3. Good(Away, MaxDepth)
    BY <1>2 DEF Away
<1>4. MaxDepth \in Nat
    BY ModulesAssumption
<1>5. PICK a : a = Away
    OBVIOUS
<1>6. a = [k \in 0 .. MaxDepth |-> IF k = 0 THEN Asked ELSE UNION {Requires(m) : m \in a[k - 1]}]
    BY <1>3, <1>5
<1>7. ASSUME NEW k \in 1 .. MaxDepth
      PROVE  a[k] = UNION {Requires(m) : m \in a[k - 1]}
    <2>1. k \in 0 .. MaxDepth /\ k # 0
        BY <1>4
    <2> QED
        BY <1>6, <2>1, Zenon
<1>8. a[0] = Asked
    <2>1. 0 \in 0 .. MaxDepth
        BY <1>4
    <2> QED
        BY <1>6, <2>1
<1> QED
    BY <1>5, <1>7, <1>8

\* A fold over the subsets of a finite set is what its definition says.
LEMMA TotalSteps ==
    ASSUME IsFiniteSet(Needed)
    PROVE  Total = [S \in SUBSET Needed |->
                       IF S = {} THEN 0
                       ELSE LET x == CHOOSE x \in S : TRUE IN TextOf(x).size + Total[S \ {x}]]
<1> DEFINE Small(n) == {S \in SUBSET Needed : Cardinality(S) <= n}
           Step(g, S) == IF S = {} THEN 0
                         ELSE LET x == CHOOSE x \in S : TRUE IN TextOf(x).size + g[S \ {x}]
           Good(g, n) == g = [S \in Small(n) |-> Step(g, S)]
           Bad == {n \in Nat : ~ \E g : Good(g, n)}
<1>0. \A S \in SUBSET Needed : IsFiniteSet(S) /\ Cardinality(S) \in Nat
    BY FS_Subset, FS_CardinalityType
<1>1. Bad = {}
    <2> SUFFICES ASSUME Bad # {} PROVE FALSE
        OBVIOUS
    <2>1. PICK n \in Bad : \A k \in Bad : n <= k
        <3>1. Bad \subseteq Nat
            OBVIOUS
        <3> HIDE DEF Bad
        <3> QED
            BY <3>1, Least
    <2>2. n # 0
        <3>1. ASSUME NEW S \in Small(0) PROVE S = {}
            <4>1. IsFiniteSet(S) /\ Cardinality(S) \in Nat /\ Cardinality(S) <= 0
                BY <1>0
            <4>2. Cardinality(S) = 0
                BY <4>1
            <4> QED
                BY <4>1, <4>2, FS_EmptySet
        <3> DEFINE g == [S \in Small(0) |-> 0]
        <3>2. Good(g, 0)
            BY <3>1
        <3> HIDE DEF Good, g
        <3> QED
            BY <3>2
    <2>3. n \in Nat /\ n - 1 \in Nat
        BY <2>2
    <2>4. PICK g : Good(g, n - 1)
        <3> HIDE DEF Good
        <3>1. n - 1 \notin Bad
            <4> HIDE DEF Bad
            <4> QED
                BY <2>1, <2>3
        <3> QED
            BY <3>1, <2>3
    <2> DEFINE h == [S \in Small(n) |-> Step(g, S)]
    <2>5. \A S \in Small(n - 1) : S \in Small(n) /\ h[S] = g[S]
        <3>1. \A S \in Small(n - 1) : S \in Small(n)
            BY <1>0, <2>3
        <3> HIDE DEF Small, Step
        <3> QED
            BY <2>4, <3>1, Zenon
    <2>6. ASSUME NEW S \in Small(n), S # {}, NEW x \in S PROVE S \ {x} \in Small(n - 1)
        <3>1. IsFiniteSet(S) /\ Cardinality(S) \in Nat /\ Cardinality(S) <= n
            BY <1>0
        <3>2. Cardinality(S \ {x}) = Cardinality(S) - 1
            BY <3>1, FS_RemoveElement
        <3>3. Cardinality(S \ {x}) <= n - 1
            BY <3>1, <3>2, <2>3
        <3> QED
            BY <3>3
    <2>7. ASSUME NEW S \in Small(n) PROVE Step(h, S) = Step(g, S)
        <3>1. CASE S = {}
            BY <3>1
        <3>2. CASE S # {}
            <4> DEFINE x == CHOOSE x \in S : TRUE
            <4>1. x \in S
                BY <3>2
            <4>2. S \ {x} \in Small(n - 1)
                BY <3>2, <4>1, <2>6
            <4> HIDE DEF Small, h
            <4>3. h[S \ {x}] = g[S \ {x}]
                BY <2>5, <4>2
            <4> QED
                BY <3>2, <4>3
        <3> QED
            BY <3>1, <3>2
    <2>8. Good(h, n)
        <3> HIDE DEF Step, Small
        <3> QED
            BY <2>7
    <2> HIDE DEF h, Good
    <2> QED
        BY <2>1, <2>8
<1>2. Cardinality(Needed) \in Nat /\ Small(Cardinality(Needed)) = SUBSET Needed
    BY FS_Subset, FS_CardinalityType
<1>3. PICK g : Good(g, Cardinality(Needed))
    <2> HIDE DEF Good
    <2> QED
        BY <1>1, <1>2
<1>4. g = [S \in SUBSET Needed |-> Step(g, S)]
    <2> HIDE DEF Small, Step
    <2> QED
        BY <1>2, <1>3
<1> QED
    BY <1>4 DEF Total

\* What a recursion over the subsets of D computes is a sum: in whichever order the elements
\* are taken.
Adds(g, D, f) ==
    /\ g[{}] = 0
    /\ \A S \in (SUBSET D) \ {{}} : \E x \in S : g[S] = f[x] + g[S \ {x}]

LEMMA AnyOrder ==
    ASSUME NEW D, IsFiniteSet(D), NEW f \in [D -> Nat], NEW g, Adds(g, D, f)
    PROVE  \A S \in SUBSET D : g[S] \in Nat /\ \A x \in S : g[S] = f[x] + g[S \ {x}]
<1> DEFINE Good(S) == g[S] \in Nat /\ \A x \in S : g[S] = f[x] + g[S \ {x}]
           Bad == {n \in Nat : \E S \in SUBSET D : Cardinality(S) = n /\ ~Good(S)}
<1>0. \A S \in SUBSET D : IsFiniteSet(S) /\ Cardinality(S) \in Nat
    BY FS_Subset, FS_CardinalityType
<1>1. Bad = {}
    <2> SUFFICES ASSUME Bad # {} PROVE FALSE
        OBVIOUS
    <2>1. PICK n \in Bad : \A k \in Bad : n <= k
        <3>1. Bad \subseteq Nat
            OBVIOUS
        <3> HIDE DEF Bad
        <3> QED
            BY <3>1, Least
    <2>2. PICK S \in SUBSET D : Cardinality(S) = n /\ ~Good(S)
        OBVIOUS
    <2>3. ASSUME NEW T \in SUBSET D, Cardinality(T) < n PROVE Good(T)
        <3>1. n \in Nat /\ Cardinality(T) \in Nat
            BY <1>0
        <3>2. Cardinality(T) \notin Bad
            <4> HIDE DEF Bad
            <4> QED
                BY <2>1, <2>3, <3>1
        <3> HIDE DEF Good
        <3> QED
            BY <3>1, <3>2
    <2>4. S # {}
        <3> SUFFICES ASSUME S = {} PROVE FALSE
            OBVIOUS
        <3> QED
            BY <2>2 DEF Adds
    <2>5. PICK p \in S : g[S] = f[p] + g[S \ {p}]
        BY <2>4 DEF Adds
    <2>6. ASSUME NEW x \in S PROVE Good(S \ {x}) /\ f[x] \in Nat
        <3>1. IsFiniteSet(S) /\ Cardinality(S) \in Nat /\ n \in Nat
            BY <1>0
        <3>2. Cardinality(S \ {x}) = Cardinality(S) - 1
            BY <3>1, FS_RemoveElement
        <3>3. Cardinality(S \ {x}) < n /\ S \ {x} \in SUBSET D
            BY <2>2, <3>1, <3>2
        <3> HIDE DEF Good
        <3> QED
            BY <2>3, <3>3
    <2>7. g[S] \in Nat
        BY <2>5, <2>6
    <2>8. ASSUME NEW x \in S, x # p PROVE g[S] = f[x] + g[S \ {x}]
        <3>1. PICK a, b, c : a = g[S \ {p}] /\ b = g[S \ {x}] /\ c = g[(S \ {p}) \ {x}]
            OBVIOUS
        <3>2. x \in S \ {p} /\ p \in S \ {x} /\ (S \ {x}) \ {p} = (S \ {p}) \ {x}
            BY <2>8
        <3>3. a = f[x] + c /\ a \in Nat
            BY <2>6, <3>1, <3>2
        <3>4. b = f[p] + c /\ b \in Nat
            BY <2>6, <3>1, <3>2
        <3>5. f[x] \in Nat /\ f[p] \in Nat
            BY <2>6
        <3>6. c \in Nat
            <4>1. S \ {p} \in SUBSET D /\ (S \ {p}) \ {x} \in SUBSET D
                OBVIOUS
            <4>2. Cardinality((S \ {p}) \ {x}) < n
                <5>1. /\ IsFiniteSet(S) /\ Cardinality(S) \in Nat
                      /\ IsFiniteSet(S \ {p}) /\ Cardinality(S \ {p}) \in Nat
                    BY <1>0
                <5>2. Cardinality(S \ {p}) = Cardinality(S) - 1
                    BY <5>1, FS_RemoveElement
                <5>3. Cardinality((S \ {p}) \ {x}) = Cardinality(S \ {p}) - 1
                    BY <5>1, <3>2, FS_RemoveElement
                <5> QED
                    BY <2>2, <5>1, <5>2, <5>3
            <4>3. Good((S \ {p}) \ {x})
                <5> HIDE DEF Good
                <5> QED
                    BY <2>3, <4>1, <4>2
            <4> QED
                BY <3>1, <4>3
        <3>7. g[S] = f[p] + a
            BY <2>5, <3>1
        <3> QED
            BY <3>1, <3>3, <3>4, <3>5, <3>6, <3>7
    <2> QED
        BY <2>2, <2>5, <2>7, <2>8
<1> SUFFICES ASSUME NEW S \in SUBSET D PROVE Good(S)
    OBVIOUS
<1> HIDE DEF Good
<1> QED
    BY <1>0, <1>1

LEMMA MoreIsMore ==
    ASSUME NEW D, IsFiniteSet(D), NEW f \in [D -> Nat], NEW g, Adds(g, D, f),
           NEW S \in SUBSET D, NEW T \in SUBSET S
    PROVE  g[T] <= g[S]
<1> DEFINE Bad == {n \in Nat : \E U \in SUBSET S :
                                  T \subseteq U /\ Cardinality(U) = n /\ ~(g[T] <= g[U])}
<1>0. \A U \in SUBSET S : IsFiniteSet(U) /\ Cardinality(U) \in Nat
    BY FS_Subset, FS_CardinalityType
<1>1. \A U \in SUBSET S : g[U] \in Nat /\ \A x \in U : g[U] = f[x] + g[U \ {x}]
    BY AnyOrder, SUBSET S \subseteq SUBSET D
<1>2. Bad = {}
    <2> SUFFICES ASSUME Bad # {} PROVE FALSE
        OBVIOUS
    <2>1. PICK n \in Bad : \A k \in Bad : n <= k
        <3>1. Bad \subseteq Nat
            OBVIOUS
        <3> HIDE DEF Bad
        <3> QED
            BY <3>1, Least
    <2>2. PICK U \in SUBSET S : T \subseteq U /\ Cardinality(U) = n /\ ~(g[T] <= g[U])
        OBVIOUS
    <2>3. U # T /\ g[T] \in Nat /\ g[U] \in Nat
        BY <1>1, <2>2
    <2>4. PICK x \in U : x \notin T
        BY <2>2, <2>3
    <2> DEFINE V == U \ {x}
    <2>5. V \in SUBSET S /\ T \subseteq V /\ Cardinality(V) = n - 1 /\ n - 1 \in Nat
        <3>1. IsFiniteSet(U) /\ Cardinality(U) \in Nat
            BY <1>0
        <3>2. Cardinality(V) = Cardinality(U) - 1
            BY <3>1, FS_RemoveElement
        <3>3. Cardinality(V) \in Nat
            BY <1>0
        <3> QED
            BY <2>2, <2>4, <3>1, <3>2, <3>3
    <2>6. g[T] <= g[V]
        <3>1. n - 1 \notin Bad
            <4>1. n \in Nat /\ ~(n <= n - 1)
                BY <2>5, Bad \subseteq Nat
            <4> HIDE DEF Bad
            <4> QED
                BY <2>1, <4>1
        <3> QED
            BY <2>5, <3>1
    <2>7. g[U] = f[x] + g[V] /\ g[V] \in Nat /\ f[x] \in Nat
        BY <1>1, <2>5
    <2> QED
        BY <2>2, <2>3, <2>6, <2>7
<1>3. Cardinality(S) \in Nat /\ S \in SUBSET S
    BY <1>0
<1> QED
    BY <1>2, <1>3

-----------------------------------------------------------------------------
(* What requires lead to.                                                  *)

LEMMA RequiresModules ==
    ASSUME TypeOK, NEW m \in Modules
    PROVE  Requires(m) \subseteq Modules /\ IsFiniteSet(Requires(m))
<1>1. CASE HasText(m)
    <2>1. TextOf(m).requires \in Seq(Modules)
        BY <1>1, TextFound DEF HasText, Texts
    <2> DEFINE s == TextOf(m).requires
    <2>2. Requires(m) = {s[i] : i \in DOMAIN s}
        BY <1>1 DEF Requires
    <2> HIDE DEF s
    <2>3. DOMAIN s = 1 .. Len(s) /\ Len(s) \in Nat /\ \A i \in DOMAIN s : s[i] \in Modules
        BY <2>1 DEF s
    <2>4. s \in Surjection(1 .. Len(s), Requires(m))
        <3>1. s \in [1 .. Len(s) -> Requires(m)]
            BY <2>1, <2>2, <2>3 DEF s
        <3> QED
            BY <2>2, <2>3, <3>1 DEF Surjection
    <2>5. IsFiniteSet(1 .. Len(s))
        BY <2>3, FS_Interval
    <2> QED
        BY <2>2, <2>3, <2>4, <2>5, FS_Surjection
<1>2. CASE ~HasText(m)
    BY <1>2, FS_EmptySet DEF Requires
<1> QED
    BY <1>1, <1>2

LEMMA AskedModules ==
    ASSUME TypeOK PROVE Asked \subseteq Modules /\ IsFiniteSet(Asked)
<1>1. asks \in Seq(Modules)
    BY DEF TypeOK
<1>2. PICK s : s = asks
    OBVIOUS
<1>3. DOMAIN s = 1 .. Len(s) /\ Len(s) \in Nat /\ \A i \in DOMAIN s : s[i] \in Modules
    BY <1>1, <1>2
<1>4. Asked = {s[i] : i \in DOMAIN s}
    BY <1>2 DEF Asked
<1>5. s \in Surjection(1 .. Len(s), Asked)
    <2>1. s \in [1 .. Len(s) -> Asked]
        BY <1>1, <1>2, <1>3, <1>4
    <2> QED
        BY <1>3, <1>4, <2>1 DEF Surjection
<1> QED
    BY <1>3, <1>4, <1>5, FS_Interval, FS_Surjection

\* The requires of finitely many modules are finitely many.
LEMMA RequiresOfAll ==
    ASSUME TypeOK, NEW S, S \subseteq Modules, IsFiniteSet(S)
    PROVE  LET R == UNION {Requires(m) : m \in S} IN R \subseteq Modules /\ IsFiniteSet(R)
<1> DEFINE T == {Requires(m) : m \in S}
           f == [m \in S |-> Requires(m)]
<1>1. f \in Surjection(S, T)
    BY DEF Surjection
<1>2. IsFiniteSet(T)
    <2> HIDE DEF T, f
    <2> QED
        BY <1>1, FS_Surjection
<1>3. \A R \in T : IsFiniteSet(R) /\ R \subseteq Modules
    BY RequiresModules
<1> HIDE DEF T
<1>4. IsFiniteSet(UNION T) /\ UNION T \subseteq Modules
    BY <1>2, <1>3, FS_UNION
<1> QED
    BY <1>4 DEF T

LEMMA AwayModules ==
    ASSUME TypeOK PROVE \A k \in 0 .. MaxDepth : Away[k] \subseteq Modules /\ IsFiniteSet(Away[k])
<1> DEFINE Good(k) == Away[k] \subseteq Modules /\ IsFiniteSet(Away[k])
           Bad == {k \in 0 .. MaxDepth : ~Good(k)}
<1>1. MaxDepth \in Nat
    BY ModulesAssumption
<1> SUFFICES ASSUME Bad # {} PROVE FALSE
    OBVIOUS
<1>2. PICK n \in Bad : \A k \in Bad : n <= k
    <2>1. Bad \subseteq Nat
        BY <1>1
    <2> HIDE DEF Bad
    <2> QED
        BY <2>1, Least
<1>3. n # 0
    BY AwaySteps, AskedModules
<1>4. n \in 1 .. MaxDepth /\ n - 1 \in 0 .. MaxDepth /\ ~(n <= n - 1)
    BY <1>1, <1>3
<1>5. Good(n - 1)
    <2>1. n - 1 \notin Bad
        <3> HIDE DEF Bad
        <3> QED
            BY <1>2, <1>4
    <2> HIDE DEF Good
    <2> QED
        BY <1>4, <2>1
<1>6. Away[n] = UNION {Requires(m) : m \in Away[n - 1]}
    BY <1>4, AwaySteps
<1>7. Good(n)
    BY <1>5, <1>6, RequiresOfAll
<1> QED
    BY <1>7

\* Within the depth, everything is at most so many requires away.
LEMMA NeededFinite ==
    ASSUME TypeOK, Away[MaxDepth] = {}
    PROVE  IsFiniteSet(Needed)
<1> DEFINE U == UNION {Away[k] : k \in 0 .. MaxDepth}
           edges == UNION {{m} \X Requires(m) : m \in Modules}
<1>0. MaxDepth \in Nat
    BY ModulesAssumption
<1>1. U \subseteq Modules /\ IsFiniteSet(U)
    <2> DEFINE T == {Away[k] : k \in 0 .. MaxDepth}
               f == [k \in 0 .. MaxDepth |-> Away[k]]
    <2>1. f \in Surjection(0 .. MaxDepth, T)
        BY DEF Surjection
    <2>2. IsFiniteSet(0 .. MaxDepth)
        BY <1>0, FS_Interval
    <2>3. \A A \in T : A \subseteq Modules /\ IsFiniteSet(A)
        BY AwayModules
    <2> HIDE DEF T, f
    <2>4. IsFiniteSet(T)
        BY <2>1, <2>2, FS_Surjection
    <2>5. IsFiniteSet(UNION T) /\ UNION T \subseteq Modules
        BY <2>3, <2>4, FS_UNION
    <2> QED
        BY <2>5 DEF T
<1>2. ASSUME NEW m \in U, NEW n \in Requires(m) PROVE n \in U
    <2>1. PICK k \in 0 .. MaxDepth : m \in Away[k]
        OBVIOUS
    <2>2. k # MaxDepth
        BY <2>1
    <2>3. k + 1 \in 1 .. MaxDepth /\ k + 1 \in 0 .. MaxDepth /\ (k + 1) - 1 = k
        BY <1>0, <2>2
    <2>4. Away[k + 1] = UNION {Requires(x) : x \in Away[k]}
        BY <2>3, AwaySteps
    <2> QED
        BY <2>1, <2>3, <2>4
<1>3. Asked \subseteq U
    <2>1. 0 \in 0 .. MaxDepth
        BY <1>0
    <2> QED
        BY <2>1, AwaySteps
<1>4. \A e \in edges : e[1] \in U => e[2] \in U
    BY <1>2
<1>5. \A p \in Reach : p[1] \in U => p[2] \in U
    <2> HIDE DEF U
    <2> QED
        BY <1>1, <1>4 DEF Reach
<1>6. Needed \subseteq U
    <2> HIDE DEF U
    <2> QED
        BY <1>3, <1>5 DEF Needed
<1> HIDE DEF U
<1> QED
    BY <1>1, <1>6, FS_Subset

\* A path begins with a require.
LEMMA ReachSplits ==
    ASSUME TypeOK, NEW m \in Modules, NEW n \in Modules, <<m, n>> \in Reach
    PROVE  n = m \/ \E r \in Requires(m) : r \in Modules /\ <<r, n>> \in Reach
<1> DEFINE edges == UNION {{k} \X Requires(k) : k \in Modules}
           S == {x \in Modules : x = m \/ \E r \in Requires(m) : r \in Modules /\ <<r, x>> \in Reach}
<1>1. ASSUME NEW e \in edges, e[1] \in S PROVE e[2] \in S
    <2>0. PICK x \in Modules : \E y \in Requires(x) : e = <<x, y>>
        OBVIOUS
    <2>1. PICK y \in Requires(x) : e = <<x, y>>
        BY <2>0
    <2>2. y \in Modules /\ x \in S
        BY <1>1, <2>1, RequiresModules
    <2>3. CASE x = m
        BY <2>1, <2>2, <2>3, ReachSelf
    <2>4. CASE x # m
        <3>1. PICK r \in Requires(m) : r \in Modules /\ <<r, x>> \in Reach
            BY <2>2, <2>4
        <3>2. ASSUME NEW C \in SUBSET Modules, r \in C,
                     \A d \in edges : d[1] \in C => d[2] \in C
              PROVE  y \in C
            <4>1. x \in C
                BY <3>1, <3>2 DEF Reach
            <4> QED
                BY <2>1, <3>2, <4>1
        <3>3. <<r, y>> \in Reach
            BY <2>2, <3>1, <3>2 DEF Reach
        <3> QED
            BY <2>1, <2>2, <3>1, <3>3
    <2> QED
        BY <2>3, <2>4
<1>2. m \in S /\ S \in SUBSET Modules
    OBVIOUS
<1>3. n \in S
    <2> HIDE DEF S
    <2> QED
        BY <1>1, <1>2 DEF Reach
<1> QED
    BY <1>3

LEMMA ReachOn ==
    ASSUME TypeOK, NEW m \in Modules, NEW n \in Modules, <<m, n>> \in Reach, NEW r \in Requires(n)
    PROVE  r \in Modules /\ <<m, r>> \in Reach
<1> DEFINE edges == UNION {{k} \X Requires(k) : k \in Modules}
<1>1. r \in Modules /\ <<n, r>> \in edges
    BY RequiresModules
<1>2. ASSUME NEW C \in SUBSET Modules, m \in C, \A d \in edges : d[1] \in C => d[2] \in C
      PROVE  r \in C
    <2>1. n \in C
        BY <1>2 DEF Reach
    <2> QED
        BY <1>1, <1>2, <2>1
<1> QED
    BY <1>1, <1>2 DEF Reach

\* A cycle has no end.
LEMMA CycleGoesOn ==
    ASSUME NEW C, \A c \in C : Requires(c) \cap C # {},
           NEW k \in 0 .. MaxDepth, Away[k] \cap C # {}
    PROVE  Away[MaxDepth] # {}
<1> DEFINE Bad == {n \in Nat : k + n <= MaxDepth /\ Away[k + n] \cap C = {}}
<1>0. MaxDepth \in Nat /\ k \in Nat
    BY ModulesAssumption
<1>1. Bad = {}
    <2> SUFFICES ASSUME Bad # {} PROVE FALSE
        OBVIOUS
    <2>1. PICK n \in Bad : \A b \in Bad : n <= b
        <3>1. Bad \subseteq Nat
            OBVIOUS
        <3> HIDE DEF Bad
        <3> QED
            BY <3>1, Least
    <2>2. n # 0
        BY <1>0
    <2>3. n \in Nat /\ n - 1 \in Nat /\ ~(n <= n - 1) /\ k + n <= MaxDepth
        BY <2>2
    <2>4. n - 1 \notin Bad
        <3> HIDE DEF Bad
        <3> QED
            BY <2>1, <2>3
    <2>5. k + n \in 1 .. MaxDepth /\ (k + n) - 1 = k + (n - 1) /\ k + (n - 1) <= MaxDepth
        BY <1>0, <2>2, <2>3
    <2>6. PICK c \in C : c \in Away[k + (n - 1)]
        BY <2>3, <2>4, <2>5
    <2>7. PICK d \in C : d \in Requires(c)
        OBVIOUS
    <2>8. Away[k + n] = UNION {Requires(m) : m \in Away[k + (n - 1)]}
        BY <2>5, AwaySteps
    <2>9. d \in Away[k + n]
        BY <2>6, <2>7, <2>8
    <2> QED
        BY <2>7, <2>9
<1>2. MaxDepth - k \in Nat /\ k + (MaxDepth - k) = MaxDepth
    BY <1>0
<1> QED
    BY <1>1, <1>2

-----------------------------------------------------------------------------
(* What the limits mean for a request.                                     *)

LEMMA LimitsKept ==
    ASSUME UNCHANGED <<files, asks>>
    PROVE  /\ Needed' = Needed /\ Total' = Total /\ Away' = Away
           /\ WithinLimits' = WithinLimits
           /\ \A m, members : Gathered(m, members)' = Gathered(m, members)
<1>1. disk' = disk /\ docs' = docs /\ asks' = asks
    BY DEF files
<1>2. /\ \A m : HasText(m)' = HasText(m) /\ Own(m)' = Own(m) /\ TextOf(m)' = TextOf(m)
      /\ Reach' = Reach /\ Asked' = Asked
    BY FilesKept DEF Asked
<1>3. \A m : Requires(m)' = Requires(m)
    BY <1>1 DEF Requires, HasText, Found, TextOf, Candidate
<1>4. Needed' = Needed
    BY <1>2 DEF Needed
<1>5. Total' = Total
    BY <1>1 DEF Total, Needed, Reach, Requires, HasText, Found, TextOf, Candidate, Asked
<1>6. Away' = Away
    BY <1>1 DEF Away, Asked, Requires, HasText, Found, TextOf, Candidate
<1>7. WithinLimits' = WithinLimits
    BY <1>1 DEF WithinLimits, Reach, Away, Asked, Requires, HasText, Found, TextOf, Candidate,
                MapThenSumSet, MapThenFoldSet
<1>8. \A m, members : Gathered(m, members)' = Gathered(m, members)
    BY <1>2 DEF Gathered
<1> QED
    BY <1>4, <1>5, <1>6, <1>7, <1>8

\* What was read so far is a sum within the budget.
LEMMA TotalFacts ==
    ASSUME TypeOK, WithinLimits
    PROVE  /\ Total[{}] = 0 /\ Total[Needed] <= Budget
           /\ \A S \in SUBSET Needed : Total[S] \in Nat /\ Total[S] <= Total[Needed]
           /\ \A S \in SUBSET Needed : \A x \in Needed \ S :
                 Total[S \cup {x}] = TextOf(x).size + Total[S]
           /\ \A x \in Needed : TextOf(x).size \in Nat \ {0}
<1>1. Away[MaxDepth] = {} /\ Total[Needed] <= Budget
    BY LimitsMean
<1>2. IsFiniteSet(Needed)
    BY <1>1, NeededFinite
<1>3. \A x \in Needed : TextOf(x).size \in Nat \ {0}
    BY TextFound DEF Needed, HasText, Texts
<1>4. PICK D : D = Needed
    OBVIOUS
<1>5. PICK f : f = [x \in D |-> TextOf(x).size]
    OBVIOUS
<1>6. PICK g : g = Total
    OBVIOUS
<1>7. f \in [D -> Nat] /\ IsFiniteSet(D)
    BY <1>2, <1>3, <1>4, <1>5
<1>8. Adds(g, D, f)
    <2>1. g = [S \in SUBSET Needed |->
                  IF S = {} THEN 0
                  ELSE LET x == CHOOSE x \in S : TRUE IN TextOf(x).size + g[S \ {x}]]
        BY <1>2, <1>6, TotalSteps
    <2>2. g[{}] = 0
        BY <2>1
    <2>3. ASSUME NEW S \in (SUBSET D) \ {{}}
          PROVE  \E x \in S : g[S] = f[x] + g[S \ {x}]
        <3> DEFINE x == CHOOSE x \in S : TRUE
        <3>1. x \in S
            OBVIOUS
        <3>2. S \in SUBSET Needed /\ S # {}
            BY <1>4
        <3>3. g[S] = TextOf(x).size + g[S \ {x}]
            BY <2>1, <3>2
        <3>4. f[x] = TextOf(x).size
            BY <1>5, <3>1
        <3> QED
            BY <3>1, <3>3, <3>4
    <2> QED
        BY <2>2, <2>3 DEF Adds
<1>9. \A S \in SUBSET D : g[S] \in Nat /\ \A x \in S : g[S] = f[x] + g[S \ {x}]
    BY <1>7, <1>8, AnyOrder
<1>10. \A S \in SUBSET D : g[S] <= g[D]
    BY <1>7, <1>8, MoreIsMore
<1>11. ASSUME NEW S \in SUBSET D, NEW x \in D \ S
       PROVE  g[S \cup {x}] = f[x] + g[S]
    <2>1. S \cup {x} \in SUBSET D /\ x \in S \cup {x} /\ (S \cup {x}) \ {x} = S
        OBVIOUS
    <2> QED
        BY <1>9, <2>1
<1>12. g[{}] = 0
    BY <1>8 DEF Adds
<1>13. \A x \in D : f[x] = TextOf(x).size
    BY <1>5
<1> QED
    BY <1>1, <1>3, <1>4, <1>6, <1>9, <1>10, <1>11, <1>12, <1>13

\* What the caller requires next is one require further away, and a text on the way from an
\* asked module.
LEMMA NextAway ==
    ASSUME CInv, WithinLimits, NEW k \in 1 .. Len(frames),
           frames[k].next <= Len(frames[k].requires),
           NEW m, m = frames[k].requires[frames[k].next]
    PROVE  /\ m \in Modules /\ k - 1 \in 0 .. MaxDepth /\ m \in Away[k - 1]
           /\ \E a \in Asked : <<a, m>> \in Reach
           /\ k # 1 => m \in Requires(frames[k].module)
<1>0. /\ TypeOK /\ Stack /\ MaxDepth \in Nat /\ Len(frames) \in 1 .. MaxDepth + 1
      /\ Deep
    BY ModulesAssumption DEF CInv, IInv, TypeOK, Search
<1>1. /\ frames[k] \in Frames /\ frames[k].next \in DOMAIN frames[k].requires
      /\ m \in Modules /\ k - 1 \in 0 .. MaxDepth
    BY <1>0, TopFrame DEF Frames
<1>2. CASE k = 1
    <2>1. m \in Asked
        BY <1>0, <1>1, <1>2 DEF Stack, Asked
    <2>2. <<m, m>> \in Reach
        BY <1>1, ReachSelf
    <2> QED
        BY <1>1, <1>2, <2>1, <2>2, AwaySteps
<1>3. CASE k # 1
    <2> DEFINE c == frames[k].module
    <2>1. k \in 2 .. Len(frames) /\ k - 1 \in 1 .. MaxDepth /\ (k - 1) - 1 = k - 2
        BY <1>0, <1>3
    <2>2. Reads(k) /\ c \in Away[k - 2]
        BY <1>0, <2>1 DEF Stack, Deep
    <2>3. m \in Requires(c) /\ c \in Modules /\ HasText(c) /\ c \in DOMAIN cache
        BY <1>0, <1>1, <2>2 DEF Reads, Requires, TypeOK
    <2>4. Away[k - 1] = UNION {Requires(x) : x \in Away[k - 2]}
        BY <2>1, AwaySteps
    <2>5. m \in Away[k - 1]
        BY <2>2, <2>3, <2>4
    <2>6. c \in Needed
        BY <2>3 DEF CInv, Search, Spent, Visited
    <2>7. PICK a \in Asked : <<a, c>> \in Reach
        BY <2>6 DEF Needed
    <2>8. a \in Modules
        BY <1>0, AskedModules
    <2>9. <<a, m>> \in Reach
        BY <1>0, <2>3, <2>7, <2>8, ReachOn
    <2> QED
        BY <1>1, <2>3, <2>5, <2>9
<1> QED
    BY <1>2, <1>3

\* The module wanted next is not one that is being read.
LEMMA NoCycle ==
    ASSUME CInv, WithinLimits, Top.next <= Len(Top.requires)
    PROVE  ~Opened(Wanted)
<1> SUFFICES ASSUME NEW i \in 2 .. Len(frames), frames[i].module = Wanted PROVE FALSE
    BY DEF Opened
<1> DEFINE n == Len(frames)
           C == {frames[j].module : j \in i .. n}
<1>0. /\ TypeOK /\ Stack /\ MaxDepth \in Nat /\ n \in 1 .. MaxDepth + 1 /\ n \in Nat /\ i \in Nat
      /\ Deep
    BY ModulesAssumption DEF CInv, IInv, TypeOK, Search
<1>1. ASSUME NEW j \in i .. n PROVE Requires(frames[j].module) \cap C # {}
    <2>1. j \in 2 .. n /\ j \in 1 .. n /\ j # 1
        BY <1>0
    <2>2. CASE j = n
        <3>1. Wanted \in Requires(frames[j].module)
            BY <2>1, <2>2, NextAway DEF Top, Wanted
        <3>2. i \in i .. n
            BY <1>0
        <3> QED
            BY <3>1, <3>2
    <2>3. CASE j # n
        <3>1. j \in 1 .. n - 1 /\ j + 1 \in i .. n
            BY <1>0, <2>1, <2>3
        <3>2. Calls(j)
            BY <1>0, <3>1 DEF Stack
        <3>3. frames[j + 1].module \in Requires(frames[j].module)
            BY <2>1, <3>2, NextAway DEF Calls
        <3> QED
            BY <3>1, <3>3
    <2> QED
        BY <2>2, <2>3
<1>2. \A c \in C : Requires(c) \cap C # {}
    BY <1>1
<1>3. i - 2 \in 0 .. MaxDepth /\ Wanted \in Away[i - 2] /\ Wanted \in C
    <2>1. i \in i .. n /\ i - 2 \in 0 .. MaxDepth
        BY <1>0
    <2> QED
        BY <1>0, <2>1 DEF Deep
<1>4. Away[MaxDepth] # {}
    <2> HIDE DEF C
    <2> QED
        BY <1>2, <1>3, CycleGoesOn
<1> QED
    BY <1>4, LimitsMean

\* A text that was not read yet fits.
LEMMA Affordable ==
    ASSUME CInv, WithinLimits, NEW m \in Modules \ DOMAIN cache, HasText(m),
           NEW a \in Asked, <<a, m>> \in Reach
    PROVE  /\ m \in Needed \ Visited
           /\ TextOf(m).size \in Nat \ {0} /\ TextOf(m).size <= remaining
           /\ remaining \in Nat
           /\ remaining - TextOf(m).size = Budget - Total[Visited \cup {m}]
<1>0. TypeOK /\ Budget \in Nat /\ Visited \in SUBSET Needed /\ remaining = Budget - Total[Visited]
    BY ModulesAssumption DEF CInv, IInv, Search, Spent
<1>1. m \in Needed \ Visited /\ Visited \cup {m} \in SUBSET Needed
    BY <1>0 DEF Needed, Visited
<1>2. PICK s, t, u, v : /\ s = TextOf(m).size /\ t = Total[Visited]
                        /\ u = Total[Visited \cup {m}] /\ v = Total[Needed]
    OBVIOUS
<1>3. s \in Nat \ {0} /\ t \in Nat /\ u \in Nat /\ u <= v /\ v <= Budget /\ u = s + t
    BY <1>0, <1>1, <1>2, TotalFacts, Zenon
<1>4. v \in Nat
    BY <1>0, <1>2, TotalFacts
<1>5. remaining = Budget - t
    BY <1>0, <1>2
<1>6. s <= remaining /\ remaining - s = Budget - u /\ remaining \in Nat
    BY <1>0, <1>3, <1>4, <1>5
<1> QED
    BY <1>1, <1>2, <1>3, <1>6

\* Within the limits none is met, save for a module without a text.
LEMMA NothingLimited ==
    ASSUME CInv, WithinLimits, Top.next <= Len(Top.requires), Wanted \notin DOMAIN cache,
           LimitMet
    PROVE  ~HasText(Wanted)
<1> DEFINE k == Len(frames)
<1>0. TypeOK /\ MaxDepth \in Nat /\ k \in 1 .. k /\ k \in Nat
    BY TopFrame, ModulesAssumption DEF CInv, IInv
<1>1. /\ Wanted \in Modules /\ k - 1 \in 0 .. MaxDepth /\ Wanted \in Away[k - 1]
      /\ \E a \in Asked : <<a, Wanted>> \in Reach
    BY <1>0, NextAway DEF Top, Wanted
<1>2. k - 1 # MaxDepth
    BY <1>1, LimitsMean
<1>3. remaining <= 0
    BY <1>0, <1>1, <1>2 DEF LimitMet, Depth
<1> SUFFICES ASSUME HasText(Wanted) PROVE FALSE
    OBVIOUS
<1>4. PICK s : s = TextOf(Wanted).size
    OBVIOUS
<1>5. s \in Nat \ {0} /\ s <= remaining /\ remaining \in Nat
    BY <1>1, <1>4, Affordable
<1> QED
    BY <1>3, <1>5

-----------------------------------------------------------------------------
(* What is gathered.                                                       *)

\* A module without a text leads nowhere.
LEMMA NothingToGather ==
    ASSUME TypeOK, NEW m \in Modules, ~HasText(m), NEW members
    PROVE  Gathered(m, members)
<1>1. Requires(m) = {}
    BY DEF Requires
<1>2. \A n \in Modules : <<m, n>> \in Reach => n = m
    BY <1>1, ReachSplits
<1> QED
    BY <1>2 DEF Gathered

LEMMA GatheredMore ==
    ASSUME NEW m, NEW S, NEW T, S \subseteq T, Gathered(m, S)
    PROVE  Gathered(m, T)
BY DEF Gathered

\* A file whose requires were all gathered exports all that it leads to.
LEMMA ExportsAll ==
    ASSUME TypeOK, NEW m \in Modules, HasText(m), NEW members,
           \A r \in Requires(m) : Gathered(r, members)
    PROVE  Gathered(m, Exported(m, members))
<1> SUFFICES ASSUME NEW n \in Modules, <<m, n>> \in Reach, HasText(n)
             PROVE  Own(n) \subseteq Exported(m, members)
    BY DEF Gathered
<1> DEFINE own(x) == [name |-> x, uri |-> Candidate(x)]
<1>1. Own(n) = {own(n)}
    BY DEF Own
<1>2. own(n).uri # Here
    <2>1. Candidate(n) \in Places
        BY CandidateFound DEF HasText
    <2> QED
        BY <2>1, ModulesAssumption
<1>3. CASE n = m
    <2> DEFINE here == [name |-> m, uri |-> Here]
    <2>1. [here EXCEPT !.uri = Candidate(m)] = own(m)
        OBVIOUS
    <2>2. own(m) \in Exported(m, members)
        BY <2>1 DEF Exported
    <2> QED
        BY <1>1, <1>3, <2>2
<1>4. CASE n # m
    <2>1. PICK r \in Requires(m) : <<r, n>> \in Reach
        BY <1>4, ReachSplits
    <2>2. own(n) \in members
        BY <1>1, <2>1 DEF Gathered
    <2>3. own(n) \in Exported(m, members)
        BY <1>2, <2>2 DEF Exported
    <2> QED
        BY <1>1, <2>3
<1> QED
    BY <1>3, <1>4

-----------------------------------------------------------------------------
(* The steps.                                                              *)

\* An answer that holds all that the module wanted leads to.
LEMMA CollectedKept ==
    ASSUME IInv, Collected, Deep, UNCHANGED <<files, asks>>,
           NEW callers \in Seq(Frames), NEW k \in 1 .. Len(frames), Len(callers) = k,
           \A i \in 1 .. k : callers[i] = frames[i],
           NEW m, m = callers[k].requires[callers[k].next],
           NEW members \in SUBSET Members, Gathered(m, members), Answer(members, callers)
    PROVE  Collected' /\ Deep' /\ Len(frames') = k
<1>0. Len(frames) \in Nat /\ k \in Nat /\ k \in 1 .. k /\ frames[k] \in Frames
    BY TopFrame DEF IInv
<1>1. /\ Len(frames') = k
      /\ \A i \in 1 .. k :
            /\ frames'[i].module = frames[i].module
            /\ frames'[i].requires = frames[i].requires
            /\ i # k => frames'[i] = frames[i]
      /\ frames'[k].members = frames[k].members \cup members
      /\ frames'[k].next = frames[k].next + 1
    BY <1>0, AnswerFacts
<1>2. \A x, S : Gathered(x, S)' = Gathered(x, S)
    BY LimitsKept
<1>3. ASSUME NEW i \in 1 .. k, NEW j \in DOMAIN frames[i].requires, j < frames'[i].next
      PROVE  Gathered(frames[i].requires[j], frames'[i].members)
    <2>1. CASE i # k
        <3>1. i \in 1 .. Len(frames) /\ frames'[i] = frames[i]
            BY <1>0, <1>1, <2>1
        <3> QED
            BY <1>3, <3>1 DEF Collected
    <2>2. CASE i = k
        <3>1. frames[k].next \in Nat /\ j \in Nat
            BY <1>0, <2>2 DEF Frames
        <3>2. CASE j = frames[k].next
            BY <1>0, <1>1, <2>2, <3>2, GatheredMore
        <3>3. CASE j # frames[k].next
            <4>1. j < frames[k].next
                BY <1>1, <1>3, <2>2, <3>1, <3>3
            <4>2. Gathered(frames[i].requires[j], frames[i].members)
                BY <2>2, <4>1 DEF Collected
            <4> QED
                BY <1>1, <2>2, <4>2, GatheredMore
        <3> QED
            BY <3>2, <3>3
    <2> QED
        BY <2>1, <2>2
<1>4. Collected'
    BY <1>1, <1>2, <1>3 DEF Collected
<1>5. Deep'
    <2>1. Away' = Away
        BY LimitsKept
    <2>2. ASSUME NEW i \in 2 .. Len(frames') PROVE frames'[i].module \in Away[i - 2]
        <3>1. i \in 1 .. k /\ i \in 2 .. Len(frames)
            BY <1>0, <1>1
        <3> QED
            BY <1>1, <3>1 DEF Deep
    <2> QED
        BY <2>1, <2>2 DEF Deep
<1> QED
    BY <1>1, <1>4, <1>5

\* The cache with another module, or another answer for one.
LEMMA RememberedKept ==
    ASSUME Remembered, UNCHANGED <<files, asks>>, NEW m,
           DOMAIN cache' = DOMAIN cache \cup {m}, \A x \in DOMAIN cache \ {m} : cache'[x] = cache[x],
           \A x : x # m /\ Opened(x) => Opened(x)',
           Opened(m)' \/ Gathered(m, cache'[m])
    PROVE  Remembered'
<1>1. \A x, S : Gathered(x, S)' = Gathered(x, S)
    BY LimitsKept
<1>2. ASSUME NEW x \in DOMAIN cache' PROVE Opened(x)' \/ Gathered(x, cache'[x])
    BY DEF Remembered
<1> QED
    BY <1>1, <1>2 DEF Remembered

\* The same frames are open.
LEMMA OpenedKept ==
    ASSUME IInv, NEW members \in SUBSET Members, Answer(members, frames)
    PROVE  \A x : Opened(x) => Opened(x)'
<1>1. Len(frames) > 0 /\ frames \in Seq(Frames)
    BY TopFrame DEF IInv, TypeOK
<1>2. Len(frames') = Len(frames) /\ \A i \in 1 .. Len(frames) : frames'[i].module = frames[i].module
    BY <1>1, AnswerFacts
<1> QED
    BY <1>2 DEF Opened

\* A module that needs no text: what is read so far stays.
LEMMA SpentKept ==
    ASSUME Spent, UNCHANGED <<files, asks, remaining>>, NEW m, ~HasText(m),
           DOMAIN cache' \in {DOMAIN cache, DOMAIN cache \cup {m}}
    PROVE  Spent'
<1>1. Needed' = Needed /\ Total' = Total /\ \A x : HasText(x)' = HasText(x)
    BY LimitsKept, FilesKept
<1>2. Visited' = Visited
    BY <1>1 DEF Visited
<1> QED
    BY <1>1, <1>2 DEF Spent

\* The answer to a module, in the frame that wants it.
LEMMA AnsweredSearch ==
    ASSUME CInv, WithinLimits, UNCHANGED <<files, asks, remaining>>,
           Top.next <= Len(Top.requires), NEW members \in SUBSET Members,
           Gathered(Wanted, members), Answer(members, frames),
           \/ cache' = cache
           \/ /\ ~HasText(Wanted) /\ DOMAIN cache' = DOMAIN cache \cup {Wanted}
              /\ \A x \in DOMAIN cache \ {Wanted} : cache'[x] = cache[x]
    PROVE  Search'
<1>0. IInv /\ Deep /\ Spent /\ Remembered /\ Collected /\ TypeOK
    BY DEF CInv, Search, IInv
<1>1. /\ Len(frames) \in 1 .. Len(frames) /\ frames \in Seq(Frames) /\ Wanted \in Modules
      /\ Wanted = frames[Len(frames)].requires[frames[Len(frames)].next]
    BY <1>0, TopFrame DEF TypeOK, Wanted, Top
<1>2. Collected' /\ Deep'
    <2>1. PICK k : k = Len(frames)
        OBVIOUS
    <2>2. \A i \in 1 .. k : frames[i] = frames[i]
        OBVIOUS
    <2> QED
        BY <1>0, <1>1, <2>1, <2>2, CollectedKept
<1>3. \A x : Opened(x) => Opened(x)'
    BY <1>0, OpenedKept
<1>4. CASE cache' = cache
    <2>1. Spent'
        <3>1. Needed' = Needed /\ Total' = Total /\ \A x : HasText(x)' = HasText(x)
            BY LimitsKept, FilesKept
        <3> QED
            BY <1>0, <1>4, <3>1 DEF Spent, Visited
    <2>2. Remembered'
        <3>1. \A x, S : Gathered(x, S)' = Gathered(x, S)
            BY LimitsKept
        <3> QED
            BY <1>0, <1>3, <1>4, <3>1 DEF Remembered
    <2> QED
        BY <1>2, <2>1, <2>2 DEF Search
<1>5. CASE /\ ~HasText(Wanted) /\ DOMAIN cache' = DOMAIN cache \cup {Wanted}
           /\ \A x \in DOMAIN cache \ {Wanted} : cache'[x] = cache[x]
    <2>1. Spent'
        BY <1>0, <1>5, SpentKept
    <2>2. Gathered(Wanted, cache'[Wanted])
        BY <1>0, <1>1, <1>5, NothingToGather
    <2>3. Remembered'
        BY <1>0, <1>3, <1>5, <2>2, RememberedKept
    <2> QED
        BY <1>2, <2>1, <2>3 DEF Search
<1> QED
    BY <1>4, <1>5

LEMMA CachedSearch == CInv /\ Cached => Search'
<1> SUFFICES ASSUME CInv, Cached, WithinLimits PROVE Search'
    BY LimitsKept DEF Cached, Search
<1>1. /\ UNCHANGED <<files, asks, remaining>> /\ cache' = cache /\ Top.next <= Len(Top.requires)
      /\ Wanted \in DOMAIN cache /\ Answer(cache[Wanted], frames)
    BY DEF Cached, Reading
<1>2. cache[Wanted] \in SUBSET Members
    BY <1>1 DEF CInv, IInv, TypeOK
<1>3. Gathered(Wanted, cache[Wanted])
    BY <1>1, NoCycle DEF CInv, Search, Remembered
<1> QED
    BY <1>1, <1>2, <1>3, AnsweredSearch

LEMMA LimitedSearch == CInv /\ Limited => Search'
<1> SUFFICES ASSUME CInv, Limited, WithinLimits PROVE Search'
    BY LimitsKept DEF Limited, Search
<1>1. /\ UNCHANGED <<files, asks, remaining>> /\ cache' = cache /\ Top.next <= Len(Top.requires)
      /\ Wanted \notin DOMAIN cache /\ Answer({}, frames) /\ LimitMet
    BY DEF Limited, Reading
<1>2. ~HasText(Wanted)
    BY <1>1, NothingLimited
<1>3. Gathered(Wanted, {})
    BY <1>1, <1>2, TopFrame, NothingToGather DEF CInv, IInv
<1> QED
    BY <1>1, <1>3, AnsweredSearch

LEMMA FailSearch == CInv /\ Fail => Search'
<1> SUFFICES ASSUME CInv, Fail, WithinLimits PROVE Search'
    BY LimitsKept DEF Fail, Search
<1>1. /\ UNCHANGED <<files, asks, remaining>> /\ Top.next <= Len(Top.requires)
      /\ Wanted \notin DOMAIN cache /\ Answer({}, frames) /\ cache' = Mark(Wanted)
      /\ Found(Wanted) # {} => TooLong(Wanted)
    BY DEF Fail, Searching, Reading
<1>2. TypeOK /\ Wanted \in Modules
    BY <1>1, TopFrame DEF CInv, IInv
<1>3. ~HasText(Wanted)
    <2> SUFFICES ASSUME HasText(Wanted) PROVE FALSE
        OBVIOUS
    <2>1. TextOf(Wanted).size > remaining /\ FileLimit \in Nat
        <3>1. TextOf(Wanted).size <= FileLimit /\ TooLong(Wanted)
            BY <1>1 DEF HasText
        <3>2. FileLimit \in Nat /\ TextOf(Wanted).size \in Nat
            BY <1>2, TextFound, ModulesAssumption DEF HasText, Texts
        <3> QED
            BY <3>1, <3>2 DEF TooLong
    <2>2. \E a \in Asked : <<a, Wanted>> \in Reach
        <3>1. Len(frames) \in 1 .. Len(frames)
            BY <1>2, TopFrame
        <3> QED
            BY <1>1, <3>1, NextAway DEF Top, Wanted
    <2>3. TextOf(Wanted).size \in Nat /\ TextOf(Wanted).size <= remaining /\ remaining \in Nat
        BY <1>1, <1>2, <2>2, Affordable
    <2> QED
        BY <2>1, <2>3
<1>4. /\ DOMAIN cache' = DOMAIN cache \cup {Wanted}
      /\ \A x \in DOMAIN cache \ {Wanted} : cache'[x] = cache[x]
    BY <1>1, <1>2, MarkFacts
<1>5. Gathered(Wanted, {})
    BY <1>2, <1>3, NothingToGather
<1> QED
    BY <1>1, <1>3, <1>4, <1>5, AnsweredSearch

LEMMA NativeHitSearch == CInv /\ NativeHit => Search'
<1> SUFFICES ASSUME CInv, NativeHit, WithinLimits PROVE Search'
    BY LimitsKept DEF NativeHit, Search
<1> DEFINE members == Probed(nativeCache[Wanted].loaded, Wanted)
<1>1. /\ UNCHANGED <<files, asks, remaining>> /\ Top.next <= Len(Top.requires)
      /\ Wanted \in Natives /\ Found(Wanted) = {} /\ Answer(members, frames)
      /\ cache' = [Mark(Wanted) EXCEPT ![Wanted] = members]
    BY DEF NativeHit, Searching, Reading
<1>2. TypeOK /\ Wanted \in Modules
    BY <1>1, TopFrame DEF CInv, IInv
<1>3. ~HasText(Wanted) /\ members \in SUBSET Members
    BY <1>1, ProbedReal DEF HasText
<1> HIDE DEF members
<1>4. /\ DOMAIN cache' = DOMAIN cache \cup {Wanted}
      /\ \A x \in DOMAIN cache \ {Wanted} : cache'[x] = cache[x]
    BY <1>1 DEF Mark
<1>5. Gathered(Wanted, members)
    BY <1>2, <1>3, NothingToGather
<1> QED
    BY <1>1, <1>3, <1>4, <1>5, AnsweredSearch

LEMMA FinishProbeSearch == CInv /\ FinishProbe => Search'
<1> SUFFICES ASSUME CInv, FinishProbe, WithinLimits PROVE Search'
    BY LimitsKept DEF FinishProbe, Search
<1> DEFINE members == Probed(probe.loaded, Wanted)
<1>1. /\ UNCHANGED <<files, asks, remaining>> /\ probe # None
      /\ Answer(Probed(probe.loaded, probe.module), frames)
      /\ cache' = [cache EXCEPT ![probe.module] = Probed(probe.loaded, probe.module)]
    BY DEF FinishProbe
<1>2. /\ TypeOK /\ Top.next <= Len(Top.requires) /\ Wanted = probe.module
      /\ Wanted \in DOMAIN cache /\ Found(Wanted) = {} /\ probe \in Probes
    BY <1>1 DEF CInv, IInv, Stack, ProbesWanted, TypeOK
<1>3. Wanted \in Modules /\ Wanted \in Natives
    BY <1>2, TopFrame DEF Probes
<1>4. ~HasText(Wanted) /\ members \in SUBSET Members
    BY <1>2, <1>3, ProbedReal DEF HasText
<1>5. Answer(members, frames) /\ cache' = [cache EXCEPT ![Wanted] = members]
    BY <1>1, <1>2
<1> HIDE DEF members
<1>6. /\ DOMAIN cache' = DOMAIN cache \cup {Wanted}
      /\ \A x \in DOMAIN cache \ {Wanted} : cache'[x] = cache[x]
    BY <1>2, <1>5
<1>7. Gathered(Wanted, members)
    BY <1>2, <1>3, <1>4, NothingToGather
<1> QED
    BY <1>1, <1>2, <1>4, <1>5, <1>6, <1>7, AnsweredSearch

LEMMA EnterSearch == CInv /\ Enter => Search'
<1> SUFFICES ASSUME CInv, Enter, WithinLimits PROVE Search'
    BY LimitsKept DEF Enter, Search
<1>a. PICK m, n : m = Wanted /\ n = Len(frames)
    OBVIOUS
<1> DEFINE new == Frame(m, TextOf(m).requires)
<1>1. /\ UNCHANGED <<files, asks>> /\ Top.next <= Len(Top.requires)
      /\ m \notin DOMAIN cache /\ Found(m) # {} /\ ~TooLong(m) /\ cache' = Mark(m)
      /\ remaining' = remaining - TextOf(m).size
      /\ frames' = Append(frames, new)
    BY <1>a DEF Enter, Searching, Reading
<1>0. IInv /\ Deep /\ Spent /\ Remembered /\ Collected /\ TypeOK
    BY DEF CInv, Search, IInv
<1>2. /\ m \in Modules /\ n \in 1 .. n /\ n \in Nat /\ frames \in Seq(Frames)
      /\ m = frames[n].requires[frames[n].next]
    BY <1>a, <1>0, <1>1, TopFrame DEF TypeOK, Wanted, Top
<1>3. TextOf(m) \in Texts /\ HasText(m)
    <2>1. TextOf(m) \in Texts
        BY <1>0, <1>1, <1>2, TextFound
    <2>2. FileLimit \in Nat /\ TextOf(m).size \in Nat
        BY <2>1, ModulesAssumption DEF Texts
    <2> QED
        BY <1>1, <2>1, <2>2 DEF HasText, TooLong
<1>4. m \in Away[n - 1] /\ \E a \in Asked : <<a, m>> \in Reach
    BY <1>a, <1>1, <1>2, NextAway DEF Top
<1>5. new \in Frames /\ new.module = m /\ new.next = 1
    BY <1>2, <1>3 DEF Frame, Frames, Texts
<1> HIDE DEF new
<1>6. /\ DOMAIN cache' = DOMAIN cache \cup {m}
      /\ \A x \in DOMAIN cache \ {m} : cache'[x] = cache[x]
    BY <1>0, <1>1, <1>2, MarkFacts
<1>7. /\ Len(frames') = n + 1 /\ frames'[n + 1] = new
      /\ \A i \in 1 .. n : frames'[i] = frames[i]
    BY <1>a, <1>1, <1>2, <1>5
<1>8. /\ Needed' = Needed /\ Total' = Total /\ Away' = Away
      /\ \A x, S : Gathered(x, S)' = Gathered(x, S)
      /\ \A x : HasText(x)' = HasText(x)
    BY <1>1, LimitsKept, FilesKept
<1>9. Deep'
    <2>1. ASSUME NEW i \in 2 .. n + 1 PROVE frames'[i].module \in Away[i - 2]
        <3>1. CASE i = n + 1
            <4>1. i - 2 = n - 1
                BY <1>2, <3>1
            <4> QED
                BY <1>4, <1>5, <1>7, <3>1, <4>1
        <3>2. CASE i # n + 1
            <4>1. i \in 1 .. n /\ i \in 2 .. Len(frames)
                BY <1>a, <1>2, <3>2
            <4> QED
                BY <1>0, <1>7, <4>1 DEF Deep
        <3> QED
            BY <3>1, <3>2
    <2> QED
        BY <1>7, <1>8, <2>1 DEF Deep
<1>10. Spent'
    <2>1. Visited' = Visited \cup {m}
        BY <1>3, <1>6, <1>8 DEF Visited
    <2>2. m \in Needed \ Visited /\ remaining - TextOf(m).size = Budget - Total[Visited \cup {m}]
        BY <1>1, <1>2, <1>3, <1>4, Affordable
    <2> QED
        BY <1>0, <1>1, <1>8, <2>1, <2>2 DEF Spent
<1>11. Remembered'
    <2>1. Opened(m)'
        <3>1. n + 1 \in 2 .. Len(frames')
            BY <1>2, <1>7
        <3> QED
            BY <1>5, <1>7, <3>1 DEF Opened
    <2>2. \A x : Opened(x) => Opened(x)'
        <3>1. \A i \in 2 .. Len(frames) : i \in 2 .. Len(frames') /\ i \in 1 .. n
            BY <1>a, <1>2, <1>7
        <3> QED
            BY <1>7, <3>1 DEF Opened
    <2> QED
        BY <1>0, <1>1, <1>6, <2>1, <2>2, RememberedKept
<1>12. Collected'
    <2>1. ASSUME NEW i \in 1 .. n + 1, NEW j \in DOMAIN frames'[i].requires, j < frames'[i].next
          PROVE  Gathered(frames'[i].requires[j], frames'[i].members)
        <3>1. CASE i = n + 1
            <4>1. new.requires \in Seq(Modules)
                BY <1>5 DEF Frames
            <4>2. DOMAIN new.requires = 1 .. Len(new.requires) /\ Len(new.requires) \in Nat
                BY <4>1
            <4>3. j \in Nat \ {0} /\ j < 1
                BY <1>5, <1>7, <2>1, <3>1, <4>2
            <4> QED
                BY <4>3
        <3>2. CASE i # n + 1
            <4>1. i \in 1 .. n /\ i \in 1 .. Len(frames)
                BY <1>a, <1>2, <3>2
            <4> QED
                BY <1>0, <1>7, <2>1, <4>1 DEF Collected
        <3> QED
            BY <3>1, <3>2
    <2> QED
        BY <1>7, <1>8, <2>1 DEF Collected
<1> QED
    BY <1>9, <1>10, <1>11, <1>12 DEF Search

LEMMA ReturnSearch == CInv /\ Return => Search'
<1> SUFFICES ASSUME CInv, Return, WithinLimits PROVE Search'
    BY LimitsKept DEF Return, Search
<1>a. PICK m, n : m = Top.module /\ n = Len(frames)
    OBVIOUS
<1> DEFINE members == Exported(m, Top.members)
           callers == SubSeq(frames, 1, n - 1)
<1>1. /\ UNCHANGED <<files, asks, remaining>> /\ n > 1 /\ Top.next > Len(Top.requires)
      /\ cache' = [cache EXCEPT ![m] = members] /\ Answer(members, callers)
    BY <1>a DEF Return
<1>0. IInv /\ Deep /\ Spent /\ Remembered /\ Collected /\ TypeOK /\ Stack /\ Real
    BY DEF CInv, Search, IInv
<1>2. /\ n \in Nat /\ n \in 1 .. n /\ n \in 2 .. n /\ Top = frames[n] /\ Top \in Frames
      /\ n - 1 \in 1 .. n /\ n - 1 \in 1 .. n - 1 /\ (n - 1) + 1 = n
    BY <1>a, <1>0, <1>1, TopFrame DEF Top
<1>3. Reads(n) /\ Calls(n - 1)
    BY <1>a, <1>0, <1>2 DEF Stack
<1>4. /\ m \in Modules /\ HasText(m) /\ m \in DOMAIN cache
      /\ Top.requires = TextOf(m).requires /\ Top.requires \in Seq(Modules) /\ Top.next \in Nat
    BY <1>a, <1>0, <1>2, <1>3 DEF Reads, TypeOK, Frames
<1>5. Gathered(m, members)
    <2>1. ASSUME NEW r \in Requires(m) PROVE Gathered(r, Top.members)
        <3>1. PICK j \in DOMAIN Top.requires : r = Top.requires[j]
            BY <1>4 DEF Requires
        <3>2. j < Top.next
            BY <1>1, <1>4
        <3> QED
            BY <1>a, <1>0, <1>2, <3>1, <3>2 DEF Collected
    <2> QED
        BY <1>0, <1>4, <2>1, ExportsAll
<1>6. members \in SUBSET Members
    <2>1. Top.members \in SUBSET Members /\ \A e \in Top.members : Gives(Reach, m, e)
        BY <1>a, <1>0, <1>2 DEF Real, Comes, Frames
    <2> QED
        BY <1>4, <2>1, ExportedReal
<1>7. /\ callers \in Seq(Frames) /\ Len(callers) = n - 1
      /\ \A i \in 1 .. n - 1 : callers[i] = frames[i]
    BY <1>a, <1>0, <1>1, CallerFrames
<1>8. m = callers[n - 1].requires[callers[n - 1].next]
    BY <1>a, <1>2, <1>3, <1>7 DEF Calls
<1> HIDE DEF members, callers
<1>9. Collected' /\ Deep' /\ Len(frames') = n - 1
    <2>1. PICK k : k = n - 1
        OBVIOUS
    <2>2. k \in 1 .. Len(frames) /\ Len(callers) = k /\ \A i \in 1 .. k : callers[i] = frames[i]
        BY <1>a, <1>2, <1>7, <2>1
    <2>3. m = callers[k].requires[callers[k].next]
        BY <1>8, <2>1
    <2> QED
        BY <1>0, <1>1, <1>5, <1>6, <1>7, <2>1, <2>2, <2>3, CollectedKept
<1>10. /\ DOMAIN cache' = DOMAIN cache \cup {m} /\ cache'[m] = members
       /\ \A x \in DOMAIN cache \ {m} : cache'[x] = cache[x]
    BY <1>1, <1>4
<1>11. Spent'
    <2>1. Needed' = Needed /\ Total' = Total /\ \A x : HasText(x)' = HasText(x)
        BY <1>1, LimitsKept, FilesKept
    <2>2. Visited' = Visited
        BY <1>4, <1>10, <2>1 DEF Visited
    <2> QED
        BY <1>0, <1>1, <2>1, <2>2 DEF Spent
<1>12. Remembered'
    <2>1. \A i \in 1 .. n - 1 : frames'[i].module = frames[i].module
        <3>1. Len(callers) > 0
            BY <1>2, <1>7
        <3> QED
            BY <1>1, <1>6, <1>7, <3>1, AnswerFacts
    <2>2. ASSUME NEW x, x # m, Opened(x) PROVE Opened(x)'
        <3>1. PICK i \in 2 .. n : frames[i].module = x
            BY <1>a, <2>2 DEF Opened
        <3>2. i # n
            BY <1>a, <1>2, <2>2, <3>1
        <3>3. i \in 1 .. n - 1 /\ i \in 2 .. n - 1
            BY <1>2, <3>2
        <3> QED
            BY <1>9, <2>1, <3>1, <3>3 DEF Opened
    <2>3. Gathered(m, cache'[m])
        BY <1>5, <1>10
    <2> QED
        BY <1>0, <1>1, <1>10, <2>2, <2>3, RememberedKept
<1> QED
    BY <1>9, <1>11, <1>12 DEF Search

\* A probe begins: its module has no text.
LEMMA StartProbeSearch == CInv /\ StartProbe => Search'
<1> SUFFICES ASSUME CInv, StartProbe, WithinLimits PROVE Search'
    BY LimitsKept DEF StartProbe, Search
<1>1. /\ UNCHANGED <<files, asks, remaining>> /\ frames' = frames /\ Top.next <= Len(Top.requires)
      /\ Found(Wanted) = {} /\ cache' = Mark(Wanted)
    BY DEF StartProbe, Searching, Reading
<1>0. IInv /\ Deep /\ Spent /\ Remembered /\ Collected /\ TypeOK
    BY DEF CInv, Search, IInv
<1>2. Wanted \in Modules /\ ~HasText(Wanted)
    BY <1>0, <1>1, TopFrame DEF HasText
<1>3. /\ DOMAIN cache' = DOMAIN cache \cup {Wanted}
      /\ \A x \in DOMAIN cache \ {Wanted} : cache'[x] = cache[x]
    BY <1>0, <1>1, <1>2, MarkFacts
<1>4. Spent'
    BY <1>0, <1>1, <1>2, <1>3, SpentKept
<1>5. Remembered'
    <2>1. \A x : Opened(x) => Opened(x)'
        BY <1>1 DEF Opened
    <2>2. Gathered(Wanted, cache'[Wanted])
        BY <1>0, <1>2, NothingToGather
    <2> QED
        BY <1>0, <1>1, <1>3, <2>1, <2>2, RememberedKept
<1>6. Deep' /\ Collected'
    <2>1. Away' = Away /\ \A x, S : Gathered(x, S)' = Gathered(x, S)
        BY <1>1, LimitsKept
    <2> QED
        BY <1>0, <1>1, <2>1 DEF Deep, Collected
<1> QED
    BY <1>4, <1>5, <1>6 DEF Search

\* Steps that leave the search alone.
LEMMA SearchKept ==
    ASSUME CInv, UNCHANGED <<files, asks, cache, remaining, frames>> PROVE Search'
<1> SUFFICES ASSUME WithinLimits PROVE Search'
    BY LimitsKept DEF Search
<1>1. /\ Needed' = Needed /\ Total' = Total /\ Away' = Away
      /\ \A x, S : Gathered(x, S)' = Gathered(x, S)
      /\ \A x : HasText(x)' = HasText(x)
    BY LimitsKept, FilesKept
<1>2. Deep /\ Spent /\ Remembered /\ Collected
    BY DEF CInv, Search
<1> QED
    BY <1>1, <1>2 DEF Search, Deep, Spent, Visited, Remembered, Opened, Collected

\* A request begins with nothing read.
LEMMA BeginsSearch ==
    TypeOK /\ cache = [m \in {} |-> {}] /\ remaining = Budget /\ Len(frames) = 1
      /\ frames[1] \in Frames /\ frames[1].next = 1 => Search
<1> SUFFICES ASSUME TypeOK, cache = [m \in {} |-> {}], remaining = Budget, Len(frames) = 1,
                    frames[1] \in Frames, frames[1].next = 1, WithinLimits
             PROVE  Deep /\ Spent /\ Remembered /\ Collected
    BY DEF Search
<1>1. Deep /\ Remembered
    BY DEF Deep, Remembered
<1>2. Spent
    <2>1. Visited = {} /\ Budget \in Nat
        BY ModulesAssumption DEF Visited
    <2> QED
        BY <2>1, TotalFacts DEF Spent
<1>3. Collected
    <2>1. frames[1].requires \in Seq(Modules)
        BY DEF Frames
    <2>2. \A j \in DOMAIN frames[1].requires : ~(j < frames[1].next)
        BY <2>1
    <2> QED
        BY <2>2 DEF Collected
<1> QED
    BY <1>1, <1>2, <1>3

LEMMA InitSearch == Init => Search
<1> SUFFICES ASSUME Init PROVE Search
    OBVIOUS
<1>1. TypeOK
    BY InitInv DEF IInv
<1>2. Len(frames) = 1 /\ frames[1] = Frame(None, <<>>)
    BY DEF Init
<1>3. frames[1] \in Frames /\ frames[1].next = 1
    <2>1. Frame(None, <<>>) \in Frames /\ Frame(None, <<>>).next = 1
        BY DEF Frame, Frames
    <2> QED
        BY <1>2, <2>1
<1> QED
    BY <1>1, <1>2, <1>3, BeginsSearch DEF Init

LEMMA RequestSearch == IInv /\ (\E requires \in Asks : Request(requires)) => Search'
<1> SUFFICES ASSUME IInv, NEW requires \in Asks, Request(requires) PROVE Search'
    OBVIOUS
<1> DEFINE new == Frame(None, requires)
<1>1. TypeOK'
    BY RequestStep DEF IInv
<1>2. new \in Frames /\ new.next = 1
    BY ModulesAssumption DEF Frame, Frames
<1> HIDE DEF new
<1>3. cache' = [m \in {} |-> {}] /\ remaining' = Budget /\ frames' = <<new>>
    BY DEF Request, new
<1>4. Len(frames') = 1 /\ frames'[1] \in Frames /\ frames'[1].next = 1
    BY <1>2, <1>3
<1>5. (TypeOK /\ cache = [m \in {} |-> {}] /\ remaining = Budget /\ Len(frames) = 1
         /\ frames[1] \in Frames /\ frames[1].next = 1 => Search)'
    BY BeginsSearch, PTL
<1> QED
    BY <1>1, <1>3, <1>4, <1>5

LEMMA NextSearch == CInv /\ [Next]_vars => CInv'
<1> SUFFICES ASSUME CInv, [Next]_vars PROVE Search'
    BY NextInv DEF CInv
<1>1. CASE UNCHANGED vars
    BY <1>1, SearchKept DEF vars, files
<1>2. CASE \/ \E inTime \in BOOLEAN : LoadLibrary(inTime)
           \/ \E m \in Natives, loads \in BOOLEAN : Reinstall(m, loads)
    BY <1>2, SearchKept DEF LoadLibrary, Reinstall, request
<1>3. CASE Cached \/ Limited \/ Enter \/ Fail \/ Return
    BY <1>3, CachedSearch, LimitedSearch, EnterSearch, FailSearch, ReturnSearch
<1>4. CASE NativeHit \/ StartProbe \/ FinishProbe
    BY <1>4, NativeHitSearch, StartProbeSearch, FinishProbeSearch
<1>5. CASE \E requires \in Asks : Request(requires)
    BY <1>5, RequestSearch DEF CInv
<1> QED
    BY <1>1, <1>2, <1>3, <1>4, <1>5 DEF Next

\* Without a cycle and within the limits, no file that a require leads to is missed, whatever
\* the requires of one request share: the cache with its marks, the depth and the budget
\* (modules.go:101-120).
THEOREM NothingMissed == Spec => []CompleteWithinLimits
<1>1. Init => CInv
    BY InitInv, InitSearch DEF CInv
<1>2. CInv => CompleteWithinLimits
    <2> SUFFICES ASSUME CInv, Done, WithinLimits, NEW m \in Asked, NEW n \in Modules,
                        <<m, n>> \in Reach, HasText(n)
                 PROVE  Own(n) \subseteq frames[1].members
        BY DEF CompleteWithinLimits
    <2>1. TypeOK /\ Stack /\ Collected
        BY DEF CInv, IInv, Search
    <2>2. /\ 1 \in 1 .. Len(frames) /\ frames[1] \in Frames /\ frames[1].requires = asks
          /\ frames[1].next > Len(asks) /\ asks \in Seq(Modules)
        BY <2>1, TopFrame DEF Done, Top, Stack, TypeOK
    <2>3. PICK j \in DOMAIN asks : m = asks[j]
        BY DEF Asked
    <2>4. j < frames[1].next
        BY <2>2 DEF Frames
    <2>5. Gathered(m, frames[1].members)
        BY <2>1, <2>2, <2>3, <2>4 DEF Collected
    <2> QED
        BY <2>5 DEF Gathered
<1> QED
    BY <1>1, <1>2, NextSearch, PTL DEF Spec
=============================================================================
