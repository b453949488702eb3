--------------------------- MODULE Stepping_proofs ---------------------------
(***************************************************************************)
(* Theorems about stepping, for any number of coroutines, any depth of     *)
(* their stacks and of the nesting of command loops, and either treatment  *)
(* of tail calls.                                                          *)
(***************************************************************************)
EXTENDS Stepping, FiniteSetTheorems, SequenceTheorems, TLAPS

-----------------------------------------------------------------------------
(***************************************************************************)
(* Sequences, and the number of Lua frames among the first k.              *)
(***************************************************************************)

LEMMA PrefixType ==
  ASSUME NEW S, NEW s \in Seq(S), NEW n \in 0 .. Len(s)
  PROVE  /\ SubSeq(s, 1, n) \in Seq(S) /\ Len(SubSeq(s, 1, n)) = n
         /\ \A i \in 1 .. n : SubSeq(s, 1, n)[i] = s[i]
<1> DEFINE p == [i \in 1 .. n |-> s[i]]
<1>1. SubSeq(s, 1, n) = p
  BY SubSeqRestrict DEF Restrict
<1>2. n \in Nat /\ \A i \in 1 .. n : s[i] \in S
  OBVIOUS
<1>3. p \in Seq(S) /\ Len(p) = n
  BY <1>2
<1> QED
  BY <1>1, <1>3

LEMMA FrontType ==
  ASSUME NEW S, NEW s \in Seq(S), s # <<>>
  PROVE  /\ Front(s) \in Seq(S) /\ Len(Front(s)) = Len(s) - 1
         /\ \A i \in 1 .. Len(s) - 1 : Front(s)[i] = s[i]
         /\ Last(s) \in S /\ Len(s) \in Nat \ {0}
<1>1. Len(s) \in Nat \ {0} /\ Len(s) - 1 \in 0 .. Len(s)
  OBVIOUS
<1>2. Last(s) \in S
  BY <1>1 DEF Last
<1> QED
  BY <1>1, <1>2, PrefixType DEF Front

LEMMA AppendType ==
  ASSUME NEW S, NEW s \in Seq(S), NEW e \in S
  PROVE  /\ Append(s, e) \in Seq(S) /\ Len(Append(s, e)) = Len(s) + 1
         /\ \A i \in 1 .. Len(s) : Append(s, e)[i] = s[i]
         /\ Append(s, e)[Len(s) + 1] = e
         /\ Append(s, e) # <<>>
OBVIOUS

DepthUpTo(s, k) == Cardinality({i \in 1 .. k : s[i] # "c"})

LEMMA DepthGrows ==
  ASSUME NEW s, NEW j \in Nat, NEW k \in Nat, j <= k
  PROVE  /\ DepthUpTo(s, j) \in Nat /\ DepthUpTo(s, k) \in Nat
         /\ DepthUpTo(s, j) <= DepthUpTo(s, k)
<1> DEFINE F(n) == {i \in 1 .. n : s[i] # "c"}
<1>1. \A n \in Nat : IsFiniteSet(F(n))
  <2> SUFFICES ASSUME NEW n \in Nat PROVE IsFiniteSet(F(n))
    OBVIOUS
  <2>1. IsFiniteSet(1 .. n)
    BY FS_Interval
  <2> QED
    BY <2>1, FS_Subset
<1>2. F(j) \in SUBSET F(k)
  OBVIOUS
<1>3. Cardinality(F(j)) <= Cardinality(F(k))
  BY <1>1, <1>2, FS_Subset
<1>4. Cardinality(F(j)) \in Nat /\ Cardinality(F(k)) \in Nat
  BY <1>1, FS_CardinalityType
<1> QED
  BY <1>3, <1>4 DEF DepthUpTo

\* A Lua frame counts.
LEMMA DepthOfCall ==
  ASSUME NEW s, NEW j \in Nat, NEW k \in Nat, j < k, s[k] # "c"
  PROVE  DepthUpTo(s, j) < DepthUpTo(s, k)
<1> DEFINE F(n) == {i \in 1 .. n : s[i] # "c"}
<1>1. IsFiniteSet(F(k)) /\ IsFiniteSet(F(j))
  <2>1. IsFiniteSet(1 .. k) /\ IsFiniteSet(1 .. j)
    BY FS_Interval
  <2> QED
    BY <2>1, FS_Subset
<1>2. F(j) \in SUBSET F(k) /\ k \in F(k) /\ k \notin F(j)
  OBVIOUS
<1>3. Cardinality(F(j)) <= Cardinality(F(k)) /\ Cardinality(F(j)) # Cardinality(F(k))
  BY <1>1, <1>2, FS_Subset
<1>4. Cardinality(F(j)) \in Nat /\ Cardinality(F(k)) \in Nat
  BY <1>1, FS_CardinalityType
<1> QED
  BY <1>3, <1>4 DEF DepthUpTo

LEMMA DepthOfSame ==
  ASSUME NEW s, NEW t, NEW k \in Nat, \A i \in 1 .. k : s[i] = t[i]
  PROVE  DepthUpTo(s, k) = DepthUpTo(t, k)
<1>1. {i \in 1 .. k : s[i] # "c"} = {i \in 1 .. k : t[i] # "c"}
  OBVIOUS
<1> QED
  BY <1>1 DEF DepthUpTo
-----------------------------------------------------------------------------
(***************************************************************************)
(* The inductive invariant.                                                *)
(***************************************************************************)

\* The frames of the coroutine a step was given in, and what is left of them:
\* as long as the frame itself is left, the depth of the step is its depth.
AskedFrames == stack[asked.thread]

FramesOfStep ==
  /\ step.mode = asked.mode /\ step.thread = asked.thread
  /\ asked.thread \in Threads /\ Contains(chain, asked.thread)
  /\ asked.kept <= asked.height /\ asked.kept <= Len(AskedFrames)
  /\ asked.kept = asked.height =>
       /\ step.depth = DepthUpTo(AskedFrames, asked.height)
       /\ asked.height > 0 /\ AskedFrames[asked.height] = "lua"
  /\ asked.kept < asked.height =>
       DepthUpTo(AskedFrames, asked.kept) < step.depth

\* What was asked is what the debugger does.
AskedInv ==
  /\ waiting => asked = NotAsked /\ step = NoStep
  /\ asked.mode = "none" => asked.thread = NoThread
  /\ asked.exact /\ asked.mode \in {"none", "in"} => step.mode = asked.mode
  /\ asked.exact /\ asked.mode \in {"over", "out"} => FramesOfStep

\* Only the innermost loop can know the depth, and only while it waits.
LoopInv ==
  \A i \in 1 .. Len(loops) : loops[i].exact =>
    /\ i = Len(loops) /\ waiting
    /\ Last(Stack) = "lua" /\ depth = DepthUpTo(Stack, Len(Stack))

ThreadInv ==
  step.thread # NoThread => step.mode # "none" /\ Contains(chain, step.thread)

IInv == TypeOK /\ AskedInv /\ LoopInv /\ ThreadInv

LEMMA CurrentType ==
  ASSUME TypeOK
  PROVE  /\ Current \in Threads /\ Contains(chain, Current)
         /\ Stack \in Seq(Frames) /\ Stack # <<>> /\ Len(Stack) \in Nat \ {0}
         /\ Len(chain) \in Nat \ {0} /\ chain[Len(chain)] = Current
BY DEF TypeOK, Current, Stack, Last, Contains

LEMMA RecordTypes ==
  /\ NoStep \in Steps /\ NotAsked \in Requests
  /\ \A t \in Threads \union {NoThread} : StepIn(t) \in Steps
  /\ \A m \in Modes, t \in Threads \union {NoThread}, h \in Nat, e \in BOOLEAN :
       Ask(m, t, h, e) \in Requests
BY DEF NoStep, NotAsked, StepIn, Ask, Steps, Requests, Modes

LEMMA InitIInv == Init => IInv
<1> SUFFICES ASSUME Init PROVE IInv
  OBVIOUS
<1> USE DEF Init
<1>1. Main \in Threads /\ NoThread \notin Threads
  BY SteppingAssumption DEF Threads
<1>2. <<"lua">> \in Seq(Frames) /\ <<>> \in Seq(Frames)
  BY DEF Frames
<1>3. TypeOK
  <2>1. /\ chain \in Seq(Threads) /\ chain # <<>> /\ Len(chain) = 1
        /\ chain[1] = Main
    BY <1>1
  <2>2. stack \in [Threads -> Seq(Frames)] /\ stack[Main] # <<>>
    BY <1>1, <1>2
  <2>3. step \in Steps /\ asked \in Requests
    <3>1. Main \in Threads \union {NoThread} /\ "in" \in Modes /\ 1 \in Nat /\ TRUE \in BOOLEAN
      BY <1>1 DEF Modes
    <3> QED
      BY <3>1, RecordTypes, Zenon
  <2>4. loops \in Seq([running : Nat, exact : BOOLEAN])
    OBVIOUS
  <2>5. \A i \in 1 .. Len(chain) : i = 1 /\ chain[i] = Main
    BY <2>1
  <2>6. depth \in Nat /\ waiting = FALSE
    OBVIOUS
  <2> HIDE DEF Init
  <2> QED
    BY <2>1, <2>2, <2>3, <2>4, <2>5, <2>6 DEF TypeOK
<1>4. AskedInv
  <2>1. CASE step = NoStep /\ asked = NotAsked
    BY <2>1 DEF AskedInv, NoStep, NotAsked, Ask
  <2>2. CASE step = StepIn(Main) /\ asked = Ask("in", Main, 1, TRUE)
    BY <2>2 DEF AskedInv, StepIn, Ask
  <2> QED
    BY <2>1, <2>2
<1>5. LoopInv
  BY DEF LoopInv
<1>6. ThreadInv
  <2>1. Len(chain) = 1 /\ chain[1] = Main
    OBVIOUS
  <2>2. CASE step = NoStep
    BY <2>2 DEF ThreadInv, NoStep
  <2>3. CASE step = StepIn(Main)
    BY <2>1, <2>3 DEF ThreadInv, StepIn, Contains
  <2> QED
    BY <2>2, <2>3
<1> QED
  BY <1>3, <1>4, <1>5, <1>6 DEF IInv
-----------------------------------------------------------------------------
(***************************************************************************)
(* The steps of the program.                                               *)
(***************************************************************************)

\* A call, a return or an error of the current thread, of whose frames the
\* first k stay.
LEMMA ReplaceIInv ==
  ASSUME IInv, NEW s \in Seq(Frames), s # <<>>,
         NEW k \in 0 .. Len(Stack), k <= Len(s),
         \A i \in 1 .. k : s[i] = Stack[i],
         Replace(s, k)
  PROVE  IInv'
<1> USE DEF Replace
<1>1. TypeOK /\ AskedInv /\ LoopInv /\ ThreadInv
  BY DEF IInv
<1>2. /\ Current \in Threads /\ Stack \in Seq(Frames) /\ Len(Stack) \in Nat
      /\ Current' = Current /\ stack'[Current] = s
      /\ \A t \in Threads \ {Current} : stack'[t] = stack[t]
  BY <1>1, CurrentType DEF TypeOK, Current
<1>3. /\ asked' \in Requests /\ asked'.mode = asked.mode
      /\ asked'.thread = asked.thread /\ asked'.height = asked.height
      /\ asked'.exact = asked.exact
      /\ asked'.kept = IF asked.thread = Current /\ k < asked.kept
                       THEN k ELSE asked.kept
  <2>1. asked \in Requests /\ k \in Nat
    BY <1>1, <1>2 DEF TypeOK
  <2>2. CASE asked.thread = Current /\ k < asked.kept
    <3>1. asked' = [asked EXCEPT !.kept = k]
      BY <2>2
    <3> HIDE DEF Replace
    <3> QED
      BY <2>1, <2>2, <3>1 DEF Requests
  <2>3. CASE ~(asked.thread = Current /\ k < asked.kept)
    BY <2>1, <2>3
  <2> QED
    BY <2>2, <2>3
<1>4. TypeOK'
  <2>1. stack' \in [Threads -> Seq(Frames)]
    BY <1>1, <1>2 DEF TypeOK
  <2>2. \A i \in 1 .. Len(chain) : stack'[chain[i]] # <<>>
    BY <1>1, <1>2 DEF TypeOK
  <2> QED
    BY <1>1, <1>3, <2>1, <2>2 DEF TypeOK
<1>5. LoopInv'
  BY <1>1 DEF LoopInv
<1>6. ThreadInv'
  BY <1>1 DEF ThreadInv, Contains
<1>7. AskedInv'
  <2>1. /\ waiting' = FALSE
        /\ asked'.mode = "none" => asked'.thread = NoThread
        /\ asked'.exact /\ asked'.mode \in {"none", "in"} => step'.mode = asked'.mode
    BY <1>1, <1>3 DEF AskedInv, TypeOK
  <2>2. ASSUME asked.exact, asked.mode \in {"over", "out"}
        PROVE  FramesOfStep'
    <3>1. FramesOfStep
      BY <1>1, <2>2 DEF AskedInv
    <3>2. CASE asked.thread # Current \/ ~(k < asked.kept)
      <4>1. asked'.kept = asked.kept /\ asked.kept \in Nat /\ asked.height \in Nat
        BY <1>1, <1>3, <3>2 DEF TypeOK, Requests
      <4>2. /\ asked.kept <= Len(AskedFrames')
            /\ \A i \in 1 .. asked.kept : AskedFrames'[i] = AskedFrames[i]
        <5>1. CASE asked.thread # Current
          BY <1>2, <1>3, <3>1, <5>1 DEF AskedFrames, FramesOfStep
        <5>2. CASE asked.thread = Current
          BY <1>2, <1>3, <3>1, <3>2, <4>1, <5>2 DEF AskedFrames, FramesOfStep, Stack
        <5> QED
          BY <5>1, <5>2
      <4>3. DepthUpTo(AskedFrames', asked.kept) = DepthUpTo(AskedFrames, asked.kept)
        BY <4>1, <4>2, DepthOfSame
      <4>4. asked.kept = asked.height /\ asked.height > 0
              => AskedFrames'[asked.height] = AskedFrames[asked.height]
        BY <4>1, <4>2
      <4> QED
        BY <1>3, <3>1, <4>1, <4>2, <4>3, <4>4 DEF FramesOfStep
    <3>3. CASE asked.thread = Current /\ k < asked.kept
      <4>1. /\ asked'.kept = k /\ k \in Nat /\ asked.kept \in Nat
            /\ asked.height \in Nat /\ step.depth \in Nat
        BY <1>1, <1>3, <3>3 DEF TypeOK, Requests, Steps
      <4>2. AskedFrames' = s /\ AskedFrames = Stack
        BY <1>2, <1>3, <3>3 DEF AskedFrames, Stack
      <4>3. DepthUpTo(s, k) = DepthUpTo(Stack, k)
        BY <4>1, DepthOfSame
      <4>4. DepthUpTo(Stack, k) < step.depth
        <5>1. /\ DepthUpTo(Stack, k) <= DepthUpTo(Stack, asked.kept)
              /\ DepthUpTo(Stack, k) \in Nat /\ DepthUpTo(Stack, asked.kept) \in Nat
          BY <3>3, <4>1, DepthGrows
        <5>2. CASE asked.kept < asked.height
          BY <3>1, <4>1, <4>2, <5>1, <5>2 DEF FramesOfStep
        <5>3. CASE asked.kept = asked.height
          <6>1. Stack[asked.kept] = "lua"
            BY <3>1, <4>2, <5>3 DEF FramesOfStep
          <6>2. DepthUpTo(Stack, k) < DepthUpTo(Stack, asked.kept)
            BY <3>3, <4>1, <6>1, DepthOfCall
          <6> QED
            BY <3>1, <4>2, <5>3, <6>2 DEF FramesOfStep
        <5> QED
          BY <3>1, <4>1, <5>2, <5>3 DEF FramesOfStep
      <4>5. k < asked.height /\ k <= Len(s)
        BY <3>1, <3>3, <4>1 DEF FramesOfStep
      <4> QED
        BY <1>3, <3>1, <4>1, <4>2, <4>3, <4>4, <4>5 DEF FramesOfStep
    <3> QED
      BY <3>2, <3>3
  <2> QED
    BY <1>3, <2>1, <2>2 DEF AskedInv
<1> QED
  BY <1>4, <1>5, <1>6, <1>7 DEF IInv

LEMMA ProgramStep ==
  ASSUME IInv, Call \/ TailCall \/ Return \/ Unwind
  PROVE  IInv'
<1>1. Stack \in Seq(Frames) /\ Stack # <<>> /\ Len(Stack) \in Nat \ {0}
  BY CurrentType DEF IInv
<1>2. {"lua", "unnamed", "c", "tail"} = Frames
  BY DEF Frames
<1>3. CASE Call
  <2>1. PICK f \in Frames : Replace(Append(Stack, f), Len(Stack))
    BY <1>2, <1>3 DEF Call
  <2> DEFINE s == Append(Stack, f)
  <2>2. /\ s \in Seq(Frames) /\ s # <<>> /\ Len(s) = Len(Stack) + 1
        /\ \A i \in 1 .. Len(Stack) : s[i] = Stack[i]
    BY <1>1, AppendType
  <2>3. Len(Stack) \in 0 .. Len(Stack) /\ Len(Stack) <= Len(s)
    BY <1>1, <2>2
  <2> HIDE DEF s
  <2>4. Replace(s, Len(Stack))
    BY <2>1 DEF s
  <2> QED
    BY <2>2, <2>3, <2>4, ReplaceIInv
<1>4. CASE TailCall
  <2>1. PICK f \in {"lua", "unnamed"}, left \in TailFrames :
          Replace(Front(Stack) \o (IF left THEN <<"tail", f>> ELSE <<f>>),
                  Len(Stack) - 1)
    BY <1>4 DEF TailCall
  <2> DEFINE s == Front(Stack) \o (IF left THEN <<"tail", f>> ELSE <<f>>)
  <2>2. /\ Front(Stack) \in Seq(Frames) /\ Len(Front(Stack)) = Len(Stack) - 1
        /\ \A i \in 1 .. Len(Stack) - 1 : Front(Stack)[i] = Stack[i]
    BY <1>1, FrontType
  <2> DEFINE e == IF left THEN <<"tail", f>> ELSE <<f>>
  <2>3. e \in Seq(Frames) /\ e # <<>>
    <3>1. f \in Frames /\ "tail" \in Frames
      BY <1>2
    <3>2. <<"tail", f>> \in Seq(Frames) /\ <<"tail", f>> # <<>>
      BY <3>1
    <3>3. <<f>> \in Seq(Frames) /\ <<f>> # <<>>
      BY <3>1
    <3> QED
      BY <3>2, <3>3
  <2>4. s = Front(Stack) \o e
    OBVIOUS
  <2> HIDE DEF s, e
  <2>5. /\ s \in Seq(Frames) /\ s # <<>> /\ Len(Stack) - 1 <= Len(s)
        /\ \A i \in 1 .. Len(Stack) - 1 : s[i] = Stack[i]
    <3>1. s \in Seq(Frames) /\ Len(s) = Len(Front(Stack)) + Len(e)
      BY <2>2, <2>3, <2>4, ConcatProperties
    <3>2. \A i \in 1 .. Len(Front(Stack)) : s[i] = Front(Stack)[i]
      BY <2>2, <2>3, <2>4, ConcatProperties
    <3>3. Len(e) \in Nat \ {0}
      BY <2>3
    <3> QED
      BY <1>1, <2>2, <3>1, <3>2, <3>3
  <2>6. Len(Stack) - 1 \in 0 .. Len(Stack)
    BY <1>1
  <2> HIDE DEF s
  <2>7. Replace(s, Len(Stack) - 1)
    BY <2>1 DEF s
  <2> QED
    BY <2>5, <2>6, <2>7, ReplaceIInv
<1>5. CASE Return \/ Unwind
  <2>1. PICK k \in 1 .. Len(Stack) - 1 : Replace(SubSeq(Stack, 1, k), k)
    BY <1>5 DEF Return, Unwind
  <2>2. k \in 0 .. Len(Stack) /\ k \in Nat \ {0}
    BY <1>1
  <2>3. /\ SubSeq(Stack, 1, k) \in Seq(Frames) /\ Len(SubSeq(Stack, 1, k)) = k
        /\ \A i \in 1 .. k : SubSeq(Stack, 1, k)[i] = Stack[i]
    BY <1>1, <2>2, PrefixType
  <2>4. SubSeq(Stack, 1, k) # <<>> /\ k <= Len(SubSeq(Stack, 1, k))
    BY <2>2, <2>3
  <2> QED
    BY <2>1, <2>2, <2>3, <2>4, ReplaceIInv
<1> QED
  BY <1>3, <1>4, <1>5

\* A coroutine joins the chain.
LEMMA StartType ==
  ASSUME TypeOK, NEW co, Start(co)
  PROVE  /\ chain' \in Seq(Threads) /\ chain' # <<>>
         /\ Len(chain') = Len(chain) + 1 /\ Current' = co
         /\ \A i, j \in 1 .. Len(chain') : chain'[i] = chain'[j] => i = j
         /\ stack' \in [Threads -> Seq(Frames)]
         /\ \A i \in 1 .. Len(chain') : stack'[chain'[i]] # <<>>
         /\ \A t : Contains(chain, t) => Contains(chain', t) /\ stack'[t] = stack[t]
<1> USE DEF Start
<1>1. co \in Threads /\ \A i \in 1 .. Len(chain) : chain[i] # co
  BY DEF Threads, Contains
<1>2. /\ chain' \in Seq(Threads) /\ chain' # <<>> /\ Len(chain') = Len(chain) + 1
      /\ \A i \in 1 .. Len(chain) : chain'[i] = chain[i]
      /\ chain'[Len(chain) + 1] = co /\ Len(chain) \in Nat
  <2>1. chain' = Append(chain, co) /\ chain \in Seq(Threads)
    BY DEF TypeOK
  <2> QED
    BY <1>1, <2>1, AppendType
<1>3. Current' = co
  BY <1>2 DEF Current, Last
<1>4. \A i, j \in 1 .. Len(chain') : chain'[i] = chain'[j] => i = j
  BY <1>1, <1>2 DEF TypeOK
<1>5. <<"lua">> \in Seq(Frames) /\ <<"lua">> # <<>>
  BY DEF Frames
<1>6. /\ stack' \in [Threads -> Seq(Frames)] /\ stack'[co] # <<>>
      /\ \A t \in Threads \ {co} : stack'[t] = stack[t]
  BY <1>1, <1>5 DEF TypeOK
<1>7. \A i \in 1 .. Len(chain) : chain[i] \in Threads \ {co}
  <2>1. chain \in Seq(Threads)
    BY DEF TypeOK
  <2>2. \A i \in 1 .. Len(chain) : chain[i] \in Threads
    BY <2>1
  <2> QED
    BY <1>1, <2>2
<1>8. \A i \in 1 .. Len(chain') : stack'[chain'[i]] # <<>>
  <2>1. \A i \in 1 .. Len(chain) : stack[chain[i]] # <<>>
    BY DEF TypeOK
  <2>2. \A i \in 1 .. Len(chain) : stack'[chain'[i]] # <<>>
    BY <1>2, <1>6, <1>7, <2>1
  <2>3. stack'[chain'[Len(chain) + 1]] # <<>>
    BY <1>2, <1>6
  <2>4. \A i \in 1 .. Len(chain') : i \in 1 .. Len(chain) \/ i = Len(chain) + 1
    BY <1>2
  <2> QED
    BY <2>2, <2>3, <2>4
<1>9. \A t : Contains(chain, t) => Contains(chain', t) /\ stack'[t] = stack[t]
  BY <1>2, <1>6, <1>7 DEF Contains
<1> QED
  BY <1>2, <1>3, <1>4, <1>6, <1>8, <1>9

\* The running coroutine leaves the chain.
LEMMA FrontChain ==
  ASSUME TypeOK, Len(chain) > 1, chain' = Front(chain)
  PROVE  /\ chain' \in Seq(Threads) /\ chain' # <<>> /\ Len(chain') = Len(chain) - 1
         /\ \A i, j \in 1 .. Len(chain') : chain'[i] = chain'[j] => i = j
         /\ \A i \in 1 .. Len(chain') : chain'[i] = chain[i] /\ chain[i] # Current
         /\ \A t : Contains(chain, t) /\ t # Current => Contains(chain', t)
<1>1. /\ chain' \in Seq(Threads) /\ Len(chain') = Len(chain) - 1
      /\ Len(chain) \in Nat /\ \A i \in 1 .. Len(chain) - 1 : chain'[i] = chain[i]
  <2>1. chain \in Seq(Threads) /\ chain # <<>>
    BY DEF TypeOK
  <2> QED
    BY <2>1, FrontType
<1>2. \A i \in 1 .. Len(chain) - 1 : chain[i] # chain[Len(chain)]
  <2>1. \A i, j \in 1 .. Len(chain) : chain[i] = chain[j] => i = j
    BY DEF TypeOK
  <2>2. \A i \in 1 .. Len(chain) - 1 :
          i \in 1 .. Len(chain) /\ Len(chain) \in 1 .. Len(chain) /\ i # Len(chain)
    BY <1>1
  <2> QED
    BY <2>1, <2>2
<1>3. Current = chain[Len(chain)]
  BY DEF Current, Last
<1>4. \A i, j \in 1 .. Len(chain') : chain'[i] = chain'[j] => i = j
  BY <1>1 DEF TypeOK
<1>5. \A t : Contains(chain, t) /\ t # Current => Contains(chain', t)
  BY <1>1, <1>3 DEF Contains
<1> QED
  BY <1>1, <1>2, <1>3, <1>4, <1>5

\* Its stack may be lost, those of the others are not touched.
LEMMA LeftStacks ==
  ASSUME TypeOK, Len(chain) > 1, chain' = Front(chain), UNCHANGED stack \/ Dies
  PROVE  /\ stack' \in [Threads -> Seq(Frames)]
         /\ \A t \in Threads \ {Current} : stack'[t] = stack[t]
         /\ \A i \in 1 .. Len(chain') : stack'[chain'[i]] # <<>>
<1>1. /\ stack' \in [Threads -> Seq(Frames)]
      /\ \A t \in Threads \ {Current} : stack'[t] = stack[t]
  <2>1. <<>> \in Seq(Frames) /\ Current \in Threads
    BY CurrentType
  <2> QED
    BY <2>1 DEF TypeOK, Dies
<1>2. \A i \in 1 .. Len(chain') :
        i \in 1 .. Len(chain) /\ chain'[i] = chain[i] /\ chain[i] \in Threads \ {Current}
  BY FrontChain DEF TypeOK
<1> QED
  BY <1>1, <1>2 DEF TypeOK

\* A step that goes on, in a thread that did not run.
LEMMA FramesElsewhere ==
  ASSUME FramesOfStep, UNCHANGED <<step, asked>>,
         Contains(chain', asked.thread), stack'[asked.thread] = stack[asked.thread]
  PROVE  FramesOfStep'
BY DEF FramesOfStep, AskedFrames

LEMMA LeaveIInv ==
  ASSUME IInv, LeaveCoroutine, UNCHANGED stack \/ Dies
  PROVE  IInv'
<1> USE DEF LeaveCoroutine
<1>1. TypeOK /\ AskedInv /\ LoopInv /\ ThreadInv
  BY DEF IInv
<1>2. NoThread \notin Threads
  BY SteppingAssumption DEF Threads
<1>3. /\ NoStep \in Steps /\ StepIn(NoThread) \in Steps /\ NotAsked \in Requests
      /\ Ask("in", NoThread, 0, asked.exact) \in Requests
  <2>1. asked.exact \in BOOLEAN /\ "in" \in Modes /\ 0 \in Nat
    BY <1>1 DEF TypeOK, Requests, Modes
  <2> QED
    BY <2>1, RecordTypes
<1>4. LoopInv'
  <2>1. \A i \in 1 .. Len(loops) : ~loops[i].exact
    BY <1>1 DEF LoopInv
  <2> QED
    BY <2>1 DEF LoopInv
<1>5. CASE ResumedByUser
  <2>1. /\ waiting' = TRUE /\ step' = NoStep /\ asked' = NotAsked
        /\ loops' = loops /\ loops # <<>> /\ depth' = depth
    BY <1>5 DEF ResumedByUser
  <2>2. TypeOK'
    BY <1>1, <1>3, <2>1, FrontChain, LeftStacks DEF TypeOK
  <2>3. AskedInv'
    BY <2>1 DEF AskedInv, NoStep, NotAsked, Ask
  <2>4. ThreadInv'
    BY <2>1 DEF ThreadInv, NoStep
  <2> QED
    BY <1>4, <2>2, <2>3, <2>4 DEF IInv
<1>6. CASE ~ResumedByUser
  <2>1. /\ waiting' = FALSE /\ loops' = loops /\ depth' = depth
        /\ step' = IF step.mode # "none" /\ step.thread = Current
                   THEN StepIn(NoThread) ELSE step
        /\ asked' = IF asked.thread = Current
                    THEN Ask("in", NoThread, 0, asked.exact) ELSE asked
    BY <1>6 DEF StepLeavesCoroutine
  <2>2. step' \in Steps /\ asked' \in Requests
    BY <1>1, <1>3, <2>1 DEF TypeOK
  <2>3. TypeOK'
    BY <1>1, <2>1, <2>2, FrontChain, LeftStacks DEF TypeOK
  <2>4. ThreadInv'
    <3>1. CASE step.mode # "none" /\ step.thread = Current
      BY <2>1, <3>1 DEF ThreadInv, StepIn
    <3>2. CASE ~(step.mode # "none" /\ step.thread = Current)
      BY <1>1, <2>1, <3>2, FrontChain DEF ThreadInv
    <3> QED
      BY <3>1, <3>2
  <2>5. AskedInv'
    <3>1. CASE asked.thread = Current
      <4>1. /\ asked'.mode = "in" /\ asked'.exact = asked.exact
        BY <2>1, <3>1 DEF Ask
      <4>2. asked.mode # "none" /\ asked.mode \in Modes
        BY <1>1, <1>2, <3>1, CurrentType DEF AskedInv, TypeOK, Requests
      <4>3. ASSUME asked.exact PROVE step'.mode = "in"
        <5>1. CASE asked.mode = "in"
          BY <1>1, <2>1, <4>3, <5>1 DEF AskedInv, StepIn
        <5>2. CASE asked.mode \in {"over", "out"}
          BY <1>1, <2>1, <3>1, <4>3, <5>2 DEF AskedInv, FramesOfStep, StepIn
        <5> QED
          BY <4>2, <5>1, <5>2 DEF Modes
      <4> QED
        BY <2>1, <4>1, <4>3 DEF AskedInv
    <3>2. CASE asked.thread # Current
      <4>1. asked' = asked
        BY <2>1, <3>2
      <4>2. ASSUME asked.exact, asked.mode \in {"none", "in"} PROVE step'.mode = asked.mode
        BY <1>1, <2>1, <4>2 DEF AskedInv, StepIn
      <4>3. ASSUME asked.exact, asked.mode \in {"over", "out"} PROVE FramesOfStep'
        <5>1. FramesOfStep
          BY <1>1, <4>3 DEF AskedInv
        <5>2. /\ step' = step /\ asked.thread \in Threads \ {Current}
              /\ Contains(chain, asked.thread)
          BY <2>1, <3>2, <5>1 DEF FramesOfStep
        <5> QED
          BY <1>1, <3>2, <4>1, <5>1, <5>2, FrontChain, LeftStacks, FramesElsewhere
      <4> QED
        BY <1>1, <2>1, <4>1, <4>2, <4>3 DEF AskedInv
    <3> QED
      BY <3>1, <3>2
  <2> QED
    BY <1>4, <2>3, <2>4, <2>5 DEF IInv
<1> QED
  BY <1>5, <1>6

LEMMA ResumeCoroutineIInv ==
  ASSUME IInv, NEW co, ResumeCoroutine(co)
  PROVE  IInv'
<1> USE DEF ResumeCoroutine
<1>1. TypeOK /\ AskedInv /\ LoopInv /\ ThreadInv
  BY DEF IInv
<1>2. TypeOK'
  BY <1>1, StartType DEF TypeOK
<1>3. LoopInv'
  BY <1>1 DEF LoopInv
<1>4. ThreadInv'
  BY <1>1, StartType DEF ThreadInv
<1>5. ASSUME FramesOfStep PROVE FramesOfStep'
  <2>1. Contains(chain, asked.thread)
    BY <1>5 DEF FramesOfStep
  <2> QED
    BY <1>1, <1>5, <2>1, StartType, FramesElsewhere
<1>6. AskedInv'
  BY <1>1, <1>5 DEF AskedInv
<1> QED
  BY <1>2, <1>3, <1>4, <1>6 DEF IInv
-----------------------------------------------------------------------------
(***************************************************************************)
(* The steps of the debugger.                                              *)
(***************************************************************************)

\* A pause adds a loop that knows the depth only if `exact`.
LEMMA PauseType ==
  ASSUME TypeOK, LoopInv, ~waiting, NEW running \in Nat, NEW exact \in BOOLEAN,
         Pause(running, exact)
  PROVE  /\ loops' \in Seq([running : Nat, exact : BOOLEAN]) /\ loops' # <<>>
         /\ waiting' = TRUE /\ step' \in Steps /\ asked' \in Requests
         /\ \A i \in 1 .. Len(loops') : loops'[i].exact => i = Len(loops') /\ exact
         /\ AskedInv' /\ ThreadInv'
<1>1. waiting' = TRUE /\ step' = NoStep /\ asked' = NotAsked
  BY DEF Pause
<1>2. /\ loops' \in Seq([running : Nat, exact : BOOLEAN]) /\ loops' # <<>>
      /\ Len(loops') = Len(loops) + 1
      /\ \A i \in 1 .. Len(loops) : loops'[i] = loops[i]
      /\ loops'[Len(loops) + 1] = [running |-> running, exact |-> exact]
  <2>1. loops \in Seq([running : Nat, exact : BOOLEAN])
    BY DEF TypeOK
  <2>2. [running |-> running, exact |-> exact] \in [running : Nat, exact : BOOLEAN]
    OBVIOUS
  <2>3. loops' = Append(loops, [running |-> running, exact |-> exact])
    BY DEF Pause
  <2> QED
    BY <2>1, <2>2, <2>3, AppendType
<1>3. \A i \in 1 .. Len(loops) : ~loops[i].exact
  BY DEF LoopInv
<1>4. \A i \in 1 .. Len(loops') : loops'[i].exact => i = Len(loops') /\ exact
  <2>1. Len(loops) \in Nat
    BY DEF TypeOK
  <2>2. \A i \in 1 .. Len(loops') : i \in 1 .. Len(loops) \/ i = Len(loops) + 1
    BY <1>2, <2>1
  <2>3. loops'[Len(loops) + 1].exact = exact
    BY <1>2
  <2>4. \A i \in 1 .. Len(loops) : ~loops'[i].exact
    BY <1>2, <1>3
  <2> QED
    BY <1>2, <2>2, <2>3, <2>4
<1>5. step' \in Steps /\ asked' \in Requests
  BY <1>1, RecordTypes
<1>6. AskedInv'
  BY <1>1 DEF AskedInv, NoStep, NotAsked, Ask
<1>7. ThreadInv'
  BY <1>1 DEF ThreadInv, NoStep
<1> QED
  BY <1>1, <1>2, <1>4, <1>5, <1>6, <1>7

LEMMA FailIInv ==
  ASSUME IInv, Fail
  PROVE  IInv'
<1>1. TypeOK /\ AskedInv /\ LoopInv /\ ThreadInv /\ ~waiting
  BY DEF IInv, Fail
<1>2. Len(chain) > 1 /\ chain' = Front(chain) /\ Dies /\ depth' = depth
  BY DEF Fail
<1>3. Len(chain) - 1 \in Nat
  <2>1. Len(chain) \in Nat \ {0}
    BY <1>1, CurrentType
  <2> QED
    BY <2>1
<1>4. Pause(Len(chain) - 1, FALSE)
  BY DEF Fail
<1>5. /\ loops' \in Seq([running : Nat, exact : BOOLEAN]) /\ loops' # <<>>
      /\ waiting' = TRUE /\ step' \in Steps /\ asked' \in Requests
      /\ \A i \in 1 .. Len(loops') : ~loops'[i].exact
      /\ AskedInv' /\ ThreadInv'
  BY <1>1, <1>3, <1>4, PauseType
<1>6. TypeOK'
  BY <1>1, <1>2, <1>5, FrontChain, LeftStacks DEF TypeOK
<1>7. LoopInv'
  BY <1>5 DEF LoopInv
<1> QED
  BY <1>5, <1>6, <1>7 DEF IInv

LEMMA LineIInv ==
  ASSUME IInv, Line
  PROVE  IInv'
<1>1. TypeOK /\ AskedInv /\ LoopInv /\ ThreadInv
  BY DEF IInv
<1>2. ~waiting /\ Last(Stack) = "lua"
  BY DEF Line, AtLine
<1>3. StackDepth(Stack) = DepthUpTo(Stack, Len(Stack)) /\ StackDepth(Stack) \in Nat
  <2>1. StackDepth(Stack) = DepthUpTo(Stack, Len(Stack))
    BY DEF StackDepth, DepthUpTo
  <2> QED
    BY <1>1, <2>1, CurrentType, DepthGrows
<1>4. CASE /\ depth' = StackDepth(Stack) /\ Pause(Len(chain), TRUE)
           /\ UNCHANGED <<chain, stack>>
  <2>1. /\ loops' \in Seq([running : Nat, exact : BOOLEAN]) /\ loops' # <<>>
        /\ waiting' = TRUE /\ step' \in Steps /\ asked' \in Requests
        /\ \A i \in 1 .. Len(loops') : loops'[i].exact => i = Len(loops')
        /\ AskedInv' /\ ThreadInv'
    BY <1>1, <1>2, <1>4, CurrentType, PauseType
  <2>2. TypeOK'
    BY <1>1, <1>3, <1>4, <2>1 DEF TypeOK
  <2>3. Stack' = Stack
    BY <1>4 DEF Stack, Current
  <2>4. LoopInv'
    BY <1>2, <1>3, <1>4, <2>1, <2>3 DEF LoopInv
  <2> QED
    BY <2>1, <2>2, <2>4 DEF IInv
<1>5. CASE depth' = DepthHere /\ UNCHANGED <<chain, stack, step, loops, waiting, asked>>
  <2>1. depth' \in Nat
    BY <1>1, <1>3, <1>5 DEF DepthHere, TypeOK
  <2>2. TypeOK'
    BY <1>1, <1>5, <2>1 DEF TypeOK
  <2>3. AskedInv' /\ ThreadInv'
    BY <1>1, <1>5 DEF AskedInv, ThreadInv, FramesOfStep, AskedFrames
  <2>4. LoopInv'
    BY <1>1, <1>2, <1>5 DEF LoopInv
  <2> QED
    BY <2>2, <2>3, <2>4 DEF IInv
<1> QED
  BY <1>4, <1>5 DEF Line

LEMMA ResumeIInv ==
  ASSUME IInv, NEW mode \in Modes, Resume(mode)
  PROVE  IInv'
<1>1. TypeOK /\ AskedInv /\ LoopInv /\ ThreadInv /\ waiting /\ loops # <<>>
  BY DEF IInv, Resume, TypeOK
<1>2. UNCHANGED <<chain, stack, depth>> /\ Stack' = Stack
  BY DEF Resume, Stack, Current
<1>3. /\ loops \in Seq([running : Nat, exact : BOOLEAN]) /\ loops' = Front(loops)
      /\ loops' \in Seq([running : Nat, exact : BOOLEAN])
      /\ Len(loops') = Len(loops) - 1 /\ Len(loops) \in Nat \ {0}
      /\ \A i \in 1 .. Len(loops') : loops'[i] = loops[i]
      /\ Last(loops) \in [running : Nat, exact : BOOLEAN]
  BY <1>1, FrontType DEF Resume, TypeOK
<1>4. LoopInv'
  <2>1. \A i \in 1 .. Len(loops') : i \in 1 .. Len(loops) /\ i # Len(loops)
    BY <1>3
  <2>2. \A i \in 1 .. Len(loops') : ~loops'[i].exact
    BY <1>1, <1>3, <2>1 DEF LoopInv
  <2> QED
    BY <2>2 DEF LoopInv
<1>5. CASE InOuterLoop
  <2>1. waiting' = TRUE /\ step' = NoStep /\ asked' = asked /\ asked = NotAsked
    BY <1>1, <1>5 DEF Resume, AskedInv
  <2>2. loops' # <<>>
    BY <1>3, <1>5 DEF InOuterLoop
  <2>3. TypeOK'
    BY <1>1, <1>2, <1>3, <2>1, <2>2, RecordTypes DEF TypeOK
  <2>4. AskedInv' /\ ThreadInv'
    BY <2>1 DEF AskedInv, ThreadInv, NoStep, NotAsked, Ask
  <2> QED
    BY <1>4, <2>3, <2>4 DEF IInv
<1>6. CASE ~InOuterLoop /\ mode = "none"
  <2>1. waiting' = FALSE /\ step' = NoStep /\ asked' = NotAsked
    BY <1>6 DEF Resume
  <2>2. TypeOK'
    BY <1>1, <1>2, <1>3, <2>1, RecordTypes DEF TypeOK
  <2>3. AskedInv' /\ ThreadInv'
    BY <2>1 DEF AskedInv, ThreadInv, NoStep, NotAsked, Ask
  <2> QED
    BY <1>4, <2>2, <2>3 DEF IInv
<1>7. CASE ~InOuterLoop /\ mode # "none"
  <2>1. /\ waiting' = FALSE
        /\ step' = [mode |-> mode, depth |-> depth, thread |-> Current]
        /\ asked' = Ask(mode, Current, Len(Stack), Last(loops).exact)
    BY <1>7 DEF Resume
  <2>2. /\ Current \in Threads /\ Contains(chain, Current)
        /\ Stack \in Seq(Frames) /\ Len(Stack) \in Nat \ {0}
        /\ Last(loops).exact \in BOOLEAN /\ depth \in Nat
    BY <1>1, <1>3, CurrentType DEF TypeOK
  <2>3. step' \in Steps /\ asked' \in Requests
    <3>1. asked' \in Requests
      BY <2>1, <2>2, RecordTypes
    <3>2. step' \in Steps
      BY <2>1, <2>2 DEF Steps
    <3> QED
      BY <3>1, <3>2
  <2>4. TypeOK'
    BY <1>1, <1>2, <1>3, <2>1, <2>3 DEF TypeOK
  <2>5. ThreadInv'
    BY <1>2, <1>7, <2>1, <2>2 DEF ThreadInv
  <2>6. /\ step'.mode = mode /\ step'.depth = depth /\ step'.thread = Current
        /\ asked'.mode = mode /\ asked'.thread = Current
        /\ asked'.height = Len(Stack) /\ asked'.kept = Len(Stack)
        /\ asked'.exact = Last(loops).exact
    BY <2>1 DEF Ask
  <2>7. ASSUME Last(loops).exact PROVE FramesOfStep'
    <3>1. Stack[Len(Stack)] = "lua" /\ depth = DepthUpTo(Stack, Len(Stack))
      BY <1>1, <1>3, <2>7 DEF LoopInv, Last
    <3>2. AskedFrames' = Stack
      BY <1>2, <2>6 DEF AskedFrames, Stack
    <3> QED
      BY <1>2, <2>2, <2>6, <3>1, <3>2 DEF FramesOfStep
  <2>8. AskedInv'
    BY <1>7, <2>1, <2>6, <2>7 DEF AskedInv
  <2> QED
    BY <1>4, <2>4, <2>5, <2>8 DEF IInv
<1> QED
  BY <1>5, <1>6, <1>7

LEMMA ResumeThreadIInv ==
  ASSUME IInv, NEW co, ResumeThread(co)
  PROVE  IInv'
<1>1. TypeOK /\ AskedInv /\ LoopInv /\ ThreadInv /\ waiting /\ loops # <<>>
  BY DEF IInv, ResumeThread, TypeOK
<1>2. Start(co) /\ waiting' = FALSE /\ depth' = depth
  BY DEF ResumeThread
<1>3. /\ loops' \in Seq([running : Nat, exact : BOOLEAN])
      /\ \A i \in 1 .. Len(loops') : ~loops'[i].exact
  <2> DEFINE n == Len(loops)  last == loops[n]
             unsure == [last EXCEPT !.exact = FALSE]
  <2>1. /\ loops \in Seq([running : Nat, exact : BOOLEAN]) /\ n \in Nat \ {0}
        /\ n \in 1 .. n /\ last \in [running : Nat, exact : BOOLEAN]
    <3>1. loops \in Seq([running : Nat, exact : BOOLEAN]) /\ loops # <<>>
      BY <1>1 DEF TypeOK
    <3>2. n \in Nat \ {0} /\ n \in 1 .. n
      BY <3>1
    <3> QED
      BY <3>1, <3>2, ElementOfSeq
  <2>2. loops' = [loops EXCEPT ![n] = unsure]
    BY DEF ResumeThread
  <2> HIDE DEF last
  <2>3. unsure \in [running : Nat, exact : BOOLEAN] /\ unsure.exact = FALSE
    BY <2>1
  <2> HIDE DEF unsure
  <2>4. /\ loops' \in Seq([running : Nat, exact : BOOLEAN]) /\ Len(loops') = n
        /\ loops'[n] = unsure /\ \A i \in 1 .. n : i # n => loops'[i] = loops[i]
    BY <2>1, <2>2, <2>3
  <2>5. \A i \in 1 .. n : i # n => ~loops[i].exact
    BY <1>1 DEF LoopInv
  <2>6. \A i \in 1 .. n : ~loops'[i].exact
    BY <2>3, <2>4, <2>5
  <2> QED
    BY <2>4, <2>6
<1>4. \/ step' = NoStep /\ asked' = NotAsked
      \/ step' = StepIn(NoThread) /\ asked' = Ask("in", NoThread, 0, TRUE)
  BY DEF ResumeThread
<1>5. step' \in Steps /\ asked' \in Requests
  <2>1. NoThread \in Threads \union {NoThread} /\ "in" \in Modes /\ 0 \in Nat /\ TRUE \in BOOLEAN
    BY DEF Modes
  <2> QED
    BY <1>4, <2>1, RecordTypes
<1>6. TypeOK'
  BY <1>1, <1>2, <1>3, <1>5, StartType DEF TypeOK
<1>7. LoopInv'
  BY <1>3 DEF LoopInv
<1>8. AskedInv' /\ ThreadInv'
  BY <1>2, <1>4 DEF AskedInv, ThreadInv, NoStep, NotAsked, StepIn, Ask
<1> QED
  BY <1>6, <1>7, <1>8 DEF IInv
-----------------------------------------------------------------------------
(***************************************************************************)
(* The theorems.                                                           *)
(***************************************************************************)

LEMMA NextIInv == IInv /\ [Next]_vars => IInv'
<1> SUFFICES ASSUME IInv, [Next]_vars PROVE IInv'
  OBVIOUS
<1>1. CASE Call \/ TailCall \/ Return \/ Unwind
  BY <1>1, ProgramStep
<1>2. ASSUME NEW co \in Coroutines, ResumeCoroutine(co) PROVE IInv'
  BY <1>2, ResumeCoroutineIInv
<1>3. CASE Yield \/ End
  BY <1>3, LeaveIInv DEF Yield, End
<1>4. CASE Fail
  BY <1>4, FailIInv
<1>5. CASE Line
  BY <1>5, LineIInv
<1>6. ASSUME NEW mode \in Modes, Resume(mode) PROVE IInv'
  BY <1>6, ResumeIInv
<1>7. ASSUME NEW co \in Coroutines, ResumeThread(co) PROVE IInv'
  BY <1>7, ResumeThreadIInv
<1>8. CASE UNCHANGED vars
  BY <1>8 DEF vars, IInv, TypeOK, AskedInv, LoopInv, ThreadInv, FramesOfStep,
              AskedFrames, Stack, Current
<1> QED
  BY <1>1, <1>2, <1>3, <1>4, <1>5, <1>6, <1>7, <1>8 DEF Next

LEMMA Invariance == Spec => []IInv
BY InitIInv, NextIInv, PTL DEF Spec

\* What a step of mode over or out compares.
LEMMA DepthsCompared ==
  ASSUME IInv, AtLine, asked.exact, asked.mode \in {"over", "out"}
  PROVE  /\ step.mode = asked.mode /\ step.thread = asked.thread
         /\ DepthHere = DepthUpTo(Stack, Len(Stack)) /\ DepthHere \in Nat
         /\ step.depth \in Nat /\ Len(Stack) \in Nat
         /\ asked.kept \in Nat /\ asked.height \in Nat /\ asked.kept <= asked.height
         /\ Stack[Len(Stack)] = "lua"
         /\ asked.thread = Current => AskedFrames = Stack
         /\ FramesOfStep
<1>1. TypeOK /\ FramesOfStep
  BY DEF IInv, AskedInv
<1>2. /\ step.mode = asked.mode /\ step.thread = asked.thread
      /\ step.depth \in Nat /\ asked.kept \in Nat /\ asked.height \in Nat
      /\ asked.kept <= asked.height
  BY <1>1 DEF FramesOfStep, TypeOK, Steps, Requests
<1>3. Len(Stack) \in Nat /\ Stack[Len(Stack)] = "lua"
  BY <1>1, CurrentType DEF AtLine, Last
<1>4. DepthHere = DepthUpTo(Stack, Len(Stack))
  BY <1>2 DEF DepthHere, StackDepth, DepthUpTo
<1>5. DepthHere \in Nat
  BY <1>3, <1>4, DepthGrows
<1> QED
  BY <1>1, <1>2, <1>3, <1>4, <1>5 DEF AskedFrames, Stack

\* A step given at a stop of the hook never ends inside a call of the frame it
\* was given in, nor in another coroutine (debugger.lua:754-763).
THEOREM StepsSkipCalls == Spec => []StepSkipsCalls
<1>1. IInv => StepSkipsCalls
  <2> SUFFICES ASSUME IInv, AtLine, asked.exact, StopsHere PROVE MayStop
    BY DEF StepSkipsCalls
  <2>1. asked.mode \in Modes
    BY DEF IInv, TypeOK, Requests
  <2>2. CASE asked.mode = "none"
    BY <2>2 DEF IInv, AskedInv, StopsHere, StepStops
  <2>3. CASE asked.mode = "in"
    BY <2>3 DEF MayStop
  <2>4. CASE asked.mode = "over"
    <3>1. step.thread = Current /\ DepthHere <= step.depth /\ asked.thread = Current
      BY <2>4, DepthsCompared DEF StopsHere, StepStops
    <3>2. ASSUME InCall PROVE FALSE
      <4>1. /\ asked.kept = asked.height /\ asked.height < Len(Stack)
            /\ step.depth = DepthUpTo(Stack, asked.height)
        BY <2>4, <3>1, <3>2, DepthsCompared DEF InCall, FramesOfStep
      <4>2. DepthUpTo(Stack, asked.height) < DepthUpTo(Stack, Len(Stack))
        BY <2>4, <4>1, DepthsCompared, DepthOfCall
      <4> QED
        BY <2>4, <3>1, <4>1, <4>2, DepthsCompared
    <3> QED
      BY <2>4, <3>1, <3>2 DEF MayStop
  <2>5. CASE asked.mode = "out"
    <3>1. step.thread = Current /\ DepthHere < step.depth /\ asked.thread = Current
      BY <2>5, DepthsCompared DEF StopsHere, StepStops
    <3>2. ASSUME asked.kept = asked.height PROVE FALSE
      <4>1. step.depth = DepthUpTo(Stack, asked.height) /\ asked.height <= Len(Stack)
        BY <2>5, <3>1, <3>2, DepthsCompared DEF FramesOfStep
      <4>2. DepthUpTo(Stack, asked.height) <= DepthUpTo(Stack, Len(Stack))
        BY <2>5, <4>1, DepthsCompared, DepthGrows
      <4> QED
        BY <2>5, <3>1, <4>1, <4>2, DepthsCompared
    <3>3. asked.kept < asked.height
      BY <2>5, <3>2, DepthsCompared
    <3> QED
      BY <2>5, <3>1, <3>3 DEF MayStop
  <2> QED
    BY <2>1, <2>2, <2>3, <2>4, <2>5 DEF Modes
<1> QED
  BY <1>1, Invariance, PTL

\* Such a step ends at the next line of the frame it was given in, of one of its
\* callers, or of anything once the coroutine was left (debugger.lua:902-905).
THEOREM StepsEndInTime == Spec => []NoStepMissed
<1>1. IInv => NoStepMissed
  <2> SUFFICES ASSUME IInv, AtLine, asked.exact, MustStop PROVE StopsHere
    BY DEF NoStepMissed
  <2>1. CASE asked.mode = "in"
    BY <2>1 DEF IInv, AskedInv, StopsHere, StepStops
  <2>2. CASE asked.mode \in {"over", "out"}
    <3>1. asked.thread = Current /\ Len(Stack) <= asked.kept
      BY <2>2 DEF MustStop
    <3>2. Len(Stack) = asked.kept
      BY <2>2, <3>1, DepthsCompared DEF FramesOfStep
    <3>3. CASE asked.kept < asked.height
      <4>1. DepthHere < step.depth
        BY <2>2, <3>1, <3>2, <3>3, DepthsCompared DEF FramesOfStep
      <4> QED
        BY <2>2, <3>1, <4>1, DepthsCompared DEF StopsHere, StepStops
    <3>4. CASE asked.kept = asked.height
      <4>1. asked.mode = "over" /\ DepthHere = step.depth
        BY <2>2, <3>1, <3>2, <3>4, DepthsCompared DEF FramesOfStep, MustStop
      <4> QED
        BY <2>2, <3>1, <4>1, DepthsCompared DEF StopsHere, StepStops
    <3> QED
      BY <2>2, <3>3, <3>4, DepthsCompared
  <2> QED
    BY <2>1, <2>2 DEF MustStop
<1> QED
  BY <1>1, Invariance, PTL

\* A step is never bound to a coroutine that neither runs nor waits for one that
\* does (debugger.lua:902-905).
THEOREM StepThreadsRun == Spec => []StepThreadRuns
<1>1. IInv => StepThreadRuns
  BY DEF IInv, ThreadInv, StepThreadRuns
<1> QED
  BY <1>1, Invariance, PTL

\* The coroutine chain, the stacks and the pending step keep their shape: a coroutine is in the
\* chain once, a running one has frames, and a pause has a command loop (debugger.lua:668-714).
THEOREM SteppingTypeCorrect == Spec => []TypeOK
<1>1. IInv => TypeOK
  BY DEF IInv
<1> QED
  BY <1>1, Invariance, PTL
=============================================================================
