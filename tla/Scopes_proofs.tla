--------------------------- MODULE Scopes_proofs ---------------------------
(* The walker resolves names as Lua does, and a rename it does not refuse  *)
(* leaves every reference with its variable, for programs of any size and  *)
(* any set of names without "self".                                        *)
(*                                                                         *)
(* Lua looks for the latest active variable, the walker for the innermost  *)
(* scope and the last symbol in it. The two agree because the variables    *)
(* that are active anywhere are those of the scopes around it (Sees), and  *)
(* an inner scope's variables are always younger than an outer one's       *)
(* (Ordered). Whatever is declared later is visible from a later place     *)
(* only, so what holds for a reference when it is walked holds for good.   *)
(* Completion and the rename of a global ask the finished tree instead of  *)
(* the walk: the second half (Places) shows that both give the same scope. *)
EXTENDS Scopes, WellFoundedInduction, TLAPS

SymbolRecords == [name : Names \cup {Self}, kind : Kinds, scope : Nat, start : Nat, from : Nat,
                  env : SUBSET Nat]
RefRecords == [name : Names, at : Nat, scope : Nat, env : SUBSET Nat, symbol : Nat]
ScopeRecords == [kind : {"chunk", "block", "function"}, up : SUBSET Nat, start : Nat, end : Nat,
                 owner : Nat]
Entries == [scope : Nat, active : SUBSET Nat, declares : BOOLEAN, name : Names \cup {Self},
            start : Nat]

Types ==
    /\ at \in Nat /\ cur \in Nat
    /\ scopes \in Seq(ScopeRecords) /\ symbols \in Seq(SymbolRecords) /\ refs \in Seq(RefRecords)
    /\ globals \in [Names -> Nat] /\ active \in SUBSET Nat /\ stack \in Seq(Entries)

\* Scopes are numbered in the order they open, so those around one come before it.
Tree ==
    /\ cur \in DOMAIN scopes
    /\ \A s \in DOMAIN scopes :
          s \in scopes[s].up /\ scopes[s].up \subseteq 1 .. s /\ scopes[s].owner \in Ids \cup {0}

SymbolsSound ==
    \A i \in Ids :
        /\ symbols[i].from <= at /\ symbols[i].scope \in DOMAIN scopes
        /\ symbols[i].env \subseteq Ids
        /\ symbols[i].kind \in {"self", "star"} => symbols[i].name = Self

\* A holds the variables of scope s and of those around it, the outer ones first.
Sees(A, s) ==
    /\ A \subseteq Ids
    /\ \A i \in Ids : i \in A <=> symbols[i].kind # "global" /\ symbols[i].scope \in scopes[s].up
Ordered(A) ==
    \A i, j \in A : symbols[i].scope < symbols[j].scope => i < j

\* What is active where the walk is, and where an open construct began.
Actives ==
    /\ Sees(active, cur) /\ Ordered(active)
    /\ \A l \in DOMAIN stack :
          /\ stack[l].scope \in DOMAIN scopes /\ stack[l].scope < cur
          /\ Sees(stack[l].active, stack[l].scope) /\ Ordered(stack[l].active)
    /\ \A l, m \in DOMAIN stack : l < m => stack[l].scope < stack[m].scope

Declarations ==
    decls = {[scope |-> symbols[i].scope, at |-> symbols[i].from, wildcard |-> symbols[i].kind = "star"] :
                i \in {i \in Ids : symbols[i].kind \in {"star", "explicit"}}}

\* A global is registered under its name, as soon as one is defined.
GlobalsSound ==
    \A n \in Names :
        /\ \/ globals[n] = 0
           \/ /\ globals[n] \in Ids /\ symbols[globals[n]].kind = "global"
              /\ symbols[globals[n]].name = n
        /\ globals[n] = 0 => \A i \in Ids : symbols[i].kind = "global" => symbols[i].name # n

\* A reference knows the variables visible at its place, and is bound to Lua's one, or to none.
RefSees(r) ==
    r.env = {i \in Ids : /\ symbols[i].kind # "global" /\ symbols[i].scope \in scopes[r.scope].up
                         /\ symbols[i].from <= r.at}
RefBound(r) ==
    \/ LuaBinds(symbols, r.env, r.name, r.symbol)
    \/ /\ \A i \in Ids : ~LuaBinds(symbols, r.env, r.name, i)
       /\ r.symbol = 0 \/ (r.symbol \in Ids /\ symbols[r.symbol].kind = "global")
RefSound(r) ==
    /\ r.name \in Names /\ r.at <= at /\ r.scope \in DOMAIN scopes
    /\ RefSees(r) /\ Ordered(r.env) /\ RefBound(r)

IInv ==
    /\ Types /\ Tree /\ SymbolsSound /\ Actives /\ Declarations /\ GlobalsSound
    /\ \A k \in DOMAIN refs : RefSound(refs[k])

-----------------------------------------------------------------------------
(* Sequences.                                                              *)

LEMMA OneMore ==
    ASSUME NEW S, NEW s \in Seq(S), NEW a \in S, NEW t, t = Append(s, a)
    PROVE  /\ t \in Seq(S) /\ Len(t) = Len(s) + 1 /\ DOMAIN t = 1 .. (Len(s) + 1)
           /\ \A i \in 1 .. Len(s) : t[i] = s[i]
           /\ t[Len(s) + 1] = a
OBVIOUS

LEMMA TwoMore ==
    ASSUME NEW S, NEW s \in Seq(S), NEW a \in S, NEW b \in S, NEW t, t = s \o <<a, b>>
    PROVE  /\ t \in Seq(S) /\ Len(t) = Len(s) + 2 /\ DOMAIN t = 1 .. (Len(s) + 2)
           /\ \A i \in 1 .. Len(s) : t[i] = s[i]
           /\ t[Len(s) + 1] = a /\ t[Len(s) + 2] = b
<1>1. <<a, b>> \in Seq(S) /\ Len(<<a, b>>) = 2 /\ <<a, b>>[1] = a /\ <<a, b>>[2] = b
    OBVIOUS
<1>2. t \in Seq(S) /\ Len(t) = Len(s) + 2
    BY <1>1
<1> QED
    BY <1>1, <1>2

LEMMA SeqOf ==
    ASSUME NEW S, NEW T, NEW s \in Seq(S), \A i \in 1 .. Len(s) : s[i] \in T
    PROVE  s \in Seq(T)
OBVIOUS

LEMMA TypeFacts ==
    ASSUME Types
    PROVE  /\ Len(symbols) \in Nat /\ Ids = 1 .. Len(symbols)
           /\ \A i \in Ids :
                 /\ i \in Nat /\ i # 0
                 /\ symbols[i].kind \in Kinds /\ symbols[i].scope \in Nat /\ symbols[i].from \in Nat
           /\ Len(scopes) \in Nat /\ DOMAIN scopes = 1 .. Len(scopes)
           /\ Len(refs) \in Nat /\ DOMAIN refs = 1 .. Len(refs)
           /\ \A k \in DOMAIN refs : refs[k].at \in Nat /\ refs[k].symbol \in Nat
           /\ Len(stack) \in Nat /\ DOMAIN stack = 1 .. Len(stack)
           /\ \A l \in DOMAIN stack : stack[l].scope \in Nat
<1>1. /\ Len(symbols) \in Nat /\ Ids = 1 .. Len(symbols) /\ \A i \in Ids : symbols[i] \in SymbolRecords
    BY DEF Types, Ids
<1>2. Len(scopes) \in Nat /\ DOMAIN scopes = 1 .. Len(scopes)
    BY DEF Types
<1>3. /\ Len(refs) \in Nat /\ DOMAIN refs = 1 .. Len(refs)
      /\ \A k \in DOMAIN refs : refs[k] \in RefRecords
    BY DEF Types
<1>4. /\ Len(stack) \in Nat /\ DOMAIN stack = 1 .. Len(stack)
      /\ \A l \in DOMAIN stack : stack[l] \in Entries
    BY DEF Types
<1>5. \A i \in Ids : symbols[i].kind \in Kinds /\ symbols[i].scope \in Nat /\ symbols[i].from \in Nat
    BY <1>1 DEF SymbolRecords
<1>6. \A k \in DOMAIN refs : refs[k].at \in Nat /\ refs[k].symbol \in Nat
    BY <1>3 DEF RefRecords
<1>7. \A l \in DOMAIN stack : stack[l].scope \in Nat
    BY <1>4 DEF Entries
<1> QED
    BY <1>1, <1>2, <1>3, <1>4, <1>5, <1>6, <1>7

-----------------------------------------------------------------------------
(* Resolving in scopes and resolving as Lua does are the same.             *)

AgreesWithLua(syms, scope, name, place, A) ==
    /\ \A i : Resolves(syms, scope, name, place, i) <=> LuaBinds(syms, A, name, i)
    /\ \A i : Resolve(syms, scope, name, place) = i /\ i # 0 => LuaBinds(syms, A, name, i)
    /\ \A i : LuaBinds(syms, A, name, i) => Resolve(syms, scope, name, place) = i
    /\ Resolve(syms, scope, name, place) \in Ids \cup {0}

LEMMA ResolvesLua ==
    ASSUME Self \notin Names, Types, SymbolsSound,
           NEW syms, DOMAIN syms = Ids,
           \A i \in Ids : /\ syms[i].kind = symbols[i].kind /\ syms[i].scope = symbols[i].scope
                          /\ syms[i].from = symbols[i].from
                          /\ syms[i].kind \in {"self", "star"} => syms[i].name = Self,
           NEW scope, NEW place, NEW A,
           A \subseteq Ids,
           \A i \in Ids : i \in A <=> /\ symbols[i].kind # "global" /\ symbols[i].from <= place
                                     /\ symbols[i].scope \in scopes[scope].up,
           Ordered(A), NEW name \in Names
    PROVE  AgreesWithLua(syms, scope, name, place, A)
<1> DEFINE C == Candidates(syms, scope, name, place)
<1>1. \A i \in Ids : /\ i \in Nat /\ i # 0 /\ symbols[i].kind \in Kinds /\ symbols[i].scope \in Nat
    BY TypeFacts
<1>2. ASSUME NEW i
      PROVE  i \in C <=> i \in A /\ syms[i].name = name /\ syms[i].kind # "star"
    <2>1. i \in C <=> /\ i \in Ids /\ syms[i].name = name /\ syms[i].kind \in LexicalKinds
                      /\ symbols[i].scope \in scopes[scope].up /\ symbols[i].from <= place
        BY DEF Candidates, Ids
    <2>2. i \in Ids /\ syms[i].name = name =>
              (syms[i].kind \in LexicalKinds <=> symbols[i].kind # "global" /\ syms[i].kind # "star")
        BY <1>1 DEF Kinds, LexicalKinds
    <2> QED
        BY <2>1, <2>2
<1>3. \A i : LuaBinds(syms, A, name, i) <=> i \in C /\ \A j \in C : j <= i
    BY <1>2 DEF LuaBinds
<1>4. C \subseteq Ids /\ C \subseteq A
    BY <1>2
<1>10. \A i : Resolves(syms, scope, name, place, i) <=>
            i \in C /\ \A j \in C : (symbols[j].scope < symbols[i].scope
                                     \/ (symbols[j].scope = symbols[i].scope /\ j <= i))
    BY <1>4 DEF Resolves
<1> HIDE DEF C
<1>5. \A i : Resolves(syms, scope, name, place, i) <=> LuaBinds(syms, A, name, i)
    <2>1. ASSUME NEW i, Resolves(syms, scope, name, place, i)
          PROVE  LuaBinds(syms, A, name, i)
        BY <2>1, <1>1, <1>3, <1>4, <1>10 DEF Ordered
    <2>2. ASSUME NEW i, LuaBinds(syms, A, name, i)
          PROVE  Resolves(syms, scope, name, place, i)
        <3>1. i \in C /\ \A j \in C : j <= i
            BY <2>2, <1>3
        <3>2. ASSUME NEW j \in C
              PROVE  symbols[j].scope < symbols[i].scope \/ (symbols[j].scope = symbols[i].scope /\ j <= i)
            BY <3>1, <3>2, <1>1, <1>4 DEF Ordered
        <3> QED
            BY <3>1, <3>2, <1>10
    <2> QED
        BY <2>1, <2>2
<1>6. \A i, j : LuaBinds(syms, A, name, i) /\ LuaBinds(syms, A, name, j) => i = j
    BY <1>1, <1>3, <1>4
<1>7. \A i : LuaBinds(syms, A, name, i) => i \in Ids /\ i # 0
    BY <1>1, <1>3, <1>4
<1> DEFINE R(i) == Resolves(syms, scope, name, place, i)
<1>8. CASE \E i \in DOMAIN syms : R(i)
    <2>1. R(Resolve(syms, scope, name, place))
        <3> DEFINE c == CHOOSE i \in DOMAIN syms : R(i)
        <3>1. R(c)
            BY <1>8
        <3> QED
            BY <3>1, <1>8 DEF Resolve
    <2> QED
        BY <2>1, <1>5, <1>6, <1>7 DEF AgreesWithLua
<1>9. CASE ~\E i \in DOMAIN syms : R(i)
    <2>1. Resolve(syms, scope, name, place) = 0
        BY <1>9 DEF Resolve
    <2> QED
        BY <2>1, <1>5, <1>7, <1>9 DEF AgreesWithLua
<1> QED
    BY <1>8, <1>9

-----------------------------------------------------------------------------
(* What every step of the walk does: it adds symbols and scopes, and what  *)
(* it adds is visible from a later place only, or is a global.             *)

Fresh == Ids' \ Ids

Grows ==
    /\ Types' /\ Tree' /\ at < at'
    /\ Ids \subseteq Ids' /\ DOMAIN scopes \subseteq DOMAIN scopes'
    /\ \A i \in Ids : symbols'[i] = symbols[i]
    /\ \A s \in DOMAIN scopes : scopes'[s].up = scopes[s].up
    /\ \A i \in Fresh :
          /\ symbols'[i].from <= at' /\ symbols'[i].scope \in DOMAIN scopes'
          /\ symbols'[i].env \subseteq Ids'
          /\ symbols'[i].kind \in {"self", "star"} => symbols'[i].name = Self
          /\ symbols'[i].kind # "global" => at < symbols'[i].from
    /\ decls' = decls \cup
          {[scope |-> symbols'[i].scope, at |-> symbols'[i].from, wildcard |-> symbols'[i].kind = "star"] :
              i \in {i \in Fresh : symbols'[i].kind \in {"star", "explicit"}}}

LEMMA FreshTypes ==
    ASSUME Types'
    PROVE  \A i \in Ids' :
              i \in Nat /\ symbols'[i].kind \in Kinds /\ symbols'[i].scope \in Nat /\ symbols'[i].from \in Nat
<1>1. Ids' = 1 .. Len(symbols') /\ \A i \in Ids' : symbols'[i] \in SymbolRecords
    BY DEF Types, Ids
<1> QED
    BY <1>1 DEF SymbolRecords

\* A reference that was sound stays sound: nothing new is visible at its place.
LEMMA RefKept ==
    ASSUME IInv, Grows, NEW r, RefSound(r), r.at \in Nat
    PROVE  RefSound(r)'
<1>1. at \in Nat /\ at' \in Nat /\ r.at <= at /\ r.at <= at'
    BY SMTT(20) DEF IInv, Types, Grows, RefSound
<1>2. r.env \subseteq Ids
    BY DEF RefSound, RefSees
<1>3. RefSees(r)'
    <2>1. ASSUME NEW i \in Ids
          PROVE  symbols'[i] = symbols[i] /\ scopes'[r.scope].up = scopes[r.scope].up /\ i \in Ids'
        BY DEF Grows, RefSound
    <2>2. ASSUME NEW i \in Ids', i \notin Ids, symbols'[i].kind # "global"
          PROVE  ~(symbols'[i].from <= r.at)
        <3>1. at < symbols'[i].from
            BY <2>2 DEF Grows, Fresh
        <3>2. symbols'[i].from \in Nat
            BY FreshTypes DEF Grows
        <3> QED
            BY <1>1, <3>1, <3>2
    <2> QED
        BY <2>1, <2>2 DEF RefSound, RefSees
<1>4. Ordered(r.env)'
    BY <1>2 DEF RefSound, Ordered, Grows
<1>5. RefBound(r)'
    <2>1. \A i : LuaBinds(symbols, r.env, r.name, i) <=> LuaBinds(symbols', r.env, r.name, i)
        BY <1>2 DEF LuaBinds, Grows
    <2>2. \A i : LuaBinds(symbols, r.env, r.name, i) => i \in Ids
        BY <1>2 DEF LuaBinds
    <2>3. r.symbol \in Ids => r.symbol \in Ids' /\ symbols'[r.symbol] = symbols[r.symbol]
        BY DEF Grows
    <2> QED
        BY <2>1, <2>2, <2>3 DEF RefSound, RefBound
<1>6. r.name \in Names /\ r.scope \in DOMAIN scopes'
    BY DEF Grows, RefSound
<1> QED
    BY <1>1, <1>3, <1>4, <1>5, <1>6 DEF RefSound

LEMMA SymbolsKept ==
    ASSUME IInv, Grows
    PROVE  SymbolsSound' /\ Declarations'
<1>1. at \in Nat /\ at' \in Nat /\ at < at'
    BY DEF IInv, Types, Grows
<1>2. ASSUME NEW i \in Ids'
      PROVE  /\ symbols'[i].from <= at' /\ symbols'[i].scope \in DOMAIN scopes'
             /\ symbols'[i].env \subseteq Ids'
             /\ symbols'[i].kind \in {"self", "star"} => symbols'[i].name = Self
    <2>1. CASE i \in Ids
        <3>1. /\ symbols[i].from <= at /\ symbols[i].scope \in DOMAIN scopes /\ symbols[i].env \subseteq Ids
              /\ symbols[i].kind \in {"self", "star"} => symbols[i].name = Self
            BY <2>1 DEF IInv, SymbolsSound
        <3>2. symbols[i].from \in Nat
            BY <2>1, TypeFacts DEF IInv
        <3> QED
            BY <1>1, <2>1, <3>1, <3>2 DEF Grows
    <2>2. CASE i \notin Ids
        BY <2>2 DEF Grows, Fresh
    <2> QED
        BY <2>1, <2>2
<1>3. SymbolsSound'
    BY <1>2 DEF SymbolsSound
<1>4. Declarations'
    <2> DEFINE D(i) == [scope |-> symbols[i].scope, at |-> symbols[i].from,
                        wildcard |-> symbols[i].kind = "star"]
               E(i) == [scope |-> symbols'[i].scope, at |-> symbols'[i].from,
                        wildcard |-> symbols'[i].kind = "star"]
    <2>1. decls = {D(i) : i \in {i \in Ids : symbols[i].kind \in {"star", "explicit"}}}
        BY DEF IInv, Declarations
    <2>2. decls' = decls \cup {E(i) : i \in {i \in Fresh : symbols'[i].kind \in {"star", "explicit"}}}
        BY DEF Grows
    <2>3. \A i \in Ids : D(i) = E(i) /\ symbols'[i].kind = symbols[i].kind /\ i \in Ids'
        BY DEF Grows
    <2> HIDE DEF D, E
    <2>4. decls' = {E(i) : i \in {i \in Ids' : symbols'[i].kind \in {"star", "explicit"}}}
        BY <2>1, <2>2, <2>3 DEF Fresh
    <2> QED
        BY <2>4 DEF Declarations, E
<1> QED
    BY <1>3, <1>4

\* A new reference is bound to the variable that is the latest active one.
LEMMA RefAdded ==
    ASSUME Self \notin Names, IInv, Grows,
           NEW name \in Names, NEW place \in Nat, at <= place, place <= at',
           NEW scope \in DOMAIN scopes',
           scopes'[scope].up \cap DOMAIN scopes = scopes[cur].up,
           \A i \in Fresh : \/ symbols'[i].kind = "global" \/ place < symbols'[i].from
                            \/ symbols'[i].scope \notin scopes'[scope].up,
           NEW r, r.name = name, r.at = place, r.scope = scope, r.env = active,
           r.symbol = Reference(name, cur, place).symbol
    PROVE  RefSound(r)'
<1>1. at \in Nat /\ \A i \in Ids : /\ symbols[i].from <= place /\ symbols[i].from \in Nat
                                   /\ symbols[i].scope \in DOMAIN scopes
    BY SMTT(20), TypeFacts DEF IInv, SymbolsSound, Types
<1>2. active = {i \in Ids : /\ symbols[i].kind # "global" /\ symbols[i].scope \in scopes[cur].up
                            /\ symbols[i].from <= place}
    BY <1>1 DEF IInv, Actives, Sees
<1>3. RefSees(r)'
    <2>1. \A i \in Ids : symbols'[i] = symbols[i] /\ i \in Ids'
                         /\ (symbols[i].scope \in scopes'[scope].up <=> symbols[i].scope \in scopes[cur].up)
        BY <1>1 DEF Grows
    <2>2. \A i \in Ids' : i \notin Ids => \/ symbols'[i].kind = "global" \/ ~(symbols'[i].from <= place)
                                          \/ symbols'[i].scope \notin scopes'[scope].up
        <3>1. \A i \in Ids' : symbols'[i].from \in Nat
            BY FreshTypes DEF Grows
        <3> QED
            BY <3>1 DEF Fresh
    <2> QED
        BY <1>2, <2>1, <2>2 DEF RefSees
<1>4. Ordered(active) /\ active \subseteq Ids
    BY <1>2 DEF IInv, Actives
<1>5. Ordered(r.env)'
    BY <1>4 DEF Ordered, Grows
<1>6. RefBound(r)'
    <2> DEFINE s == Resolve(symbols, cur, name, place)
    <2>1. /\ s # 0 => LuaBinds(symbols, active, name, s)
          /\ \A i : LuaBinds(symbols, active, name, i) => s = i
          /\ s \in Ids \cup {0}
        <3>1. /\ Types /\ SymbolsSound /\ DOMAIN symbols = Ids
              /\ \A i \in Ids : symbols[i].kind \in {"self", "star"} => symbols[i].name = Self
            BY DEF IInv, SymbolsSound, Ids
        <3>2. \A i \in Ids : i \in active <=> /\ symbols[i].kind # "global" /\ symbols[i].from <= place
                                              /\ symbols[i].scope \in scopes[cur].up
            BY <1>2
        <3>3. AgreesWithLua(symbols, cur, name, place, active)
            BY <1>4, <3>1, <3>2, ResolvesLua
        <3> QED
            BY <3>3 DEF AgreesWithLua
    <2>2. r.symbol = IF s # 0 THEN s ELSE IF AllowsImplicit(cur, place) THEN globals[name] ELSE 0
        BY DEF Reference
    <2> HIDE DEF s
    <2>3. \A i : LuaBinds(symbols, active, name, i) <=> LuaBinds(symbols', active, name, i)
        BY <1>4 DEF LuaBinds, Grows
    <2>4. CASE s # 0
        BY <2>1, <2>2, <2>3, <2>4 DEF RefBound
    <2>5. CASE s = 0
        <3>1. \A i \in Ids' : ~LuaBinds(symbols', active, name, i)
            <4>1. \A i \in Ids : i # 0
                BY TypeFacts DEF IInv
            <4> QED
                BY <1>4, <2>1, <2>3, <2>5, <4>1 DEF LuaBinds
        <3>2. r.symbol = 0 \/ (r.symbol \in Ids' /\ symbols'[r.symbol].kind = "global")
            BY <2>2, <2>5 DEF IInv, GlobalsSound, Grows
        <3> QED
            BY <3>1, <3>2 DEF RefBound
    <2> QED
        BY <2>4, <2>5
<1> QED
    BY <1>3, <1>5, <1>6 DEF RefSound

-----------------------------------------------------------------------------
(* The active variables are those of the scopes around the walk.           *)

LEMMA TreeFacts ==
    ASSUME IInv, Grows
    PROVE  /\ DOMAIN scopes \subseteq Nat /\ DOMAIN scopes' \subseteq Nat
           /\ cur \in DOMAIN scopes /\ cur' \in DOMAIN scopes' /\ cur \in Nat /\ cur' \in Nat
           /\ \A s \in DOMAIN scopes : /\ s \in DOMAIN scopes' /\ scopes'[s].up = scopes[s].up
                                       /\ s \in scopes[s].up /\ scopes[s].up \subseteq DOMAIN scopes
                                       /\ \A t \in scopes[s].up : t <= s
           /\ \A s \in DOMAIN scopes' : s \in scopes'[s].up /\ \A t \in scopes'[s].up : t \in Nat /\ t <= s
<1>1. /\ Len(scopes) \in Nat /\ DOMAIN scopes = 1 .. Len(scopes)
      /\ Len(scopes') \in Nat /\ DOMAIN scopes' = 1 .. Len(scopes')
    <2>1. scopes \in Seq(ScopeRecords) /\ scopes' \in Seq(ScopeRecords)
        BY DEF IInv, Types, Grows
    <2> QED
        BY <2>1
<1>2. /\ cur \in DOMAIN scopes /\ cur' \in DOMAIN scopes'
      /\ \A s \in DOMAIN scopes : s \in scopes[s].up /\ scopes[s].up \subseteq 1 .. s
      /\ \A s \in DOMAIN scopes' : s \in scopes'[s].up /\ scopes'[s].up \subseteq 1 .. s
    BY DEF IInv, Tree, Grows
<1>3. DOMAIN scopes \subseteq DOMAIN scopes' /\ \A s \in DOMAIN scopes : scopes'[s].up = scopes[s].up
    BY DEF Grows
<1> QED
    BY <1>1, <1>2, <1>3

\* From what a place with scope b sees, what one with scope c sees after the step.
LEMMA SeesMore ==
    ASSUME IInv, Grows, NEW b \in DOMAIN scopes, NEW A, Sees(A, b), Ordered(A),
           NEW c \in DOMAIN scopes', scopes'[c].up \cap DOMAIN scopes = scopes[b].up,
           NEW F \in SUBSET Fresh,
           \A i \in Fresh : i \in F <=> symbols'[i].kind # "global" /\ symbols'[i].scope \in scopes'[c].up,
           \A i \in F : b <= symbols'[i].scope,
           \A i, j \in F : symbols'[i].scope < symbols'[j].scope => i < j
    PROVE  Sees(A \cup F, c)' /\ Ordered(A \cup F)'
<1>1. \A i \in Ids : symbols'[i] = symbols[i] /\ i \in Ids' /\ i \in Nat
                     /\ symbols[i].scope \in DOMAIN scopes /\ symbols[i].scope \in Nat
    BY TypeFacts DEF IInv, Grows, SymbolsSound
<1>2. \A i \in Ids : i \in A <=> symbols'[i].kind # "global" /\ symbols'[i].scope \in scopes'[c].up
    BY <1>1 DEF Sees
<1>3. A \subseteq Ids /\ \A i \in A : symbols'[i].scope \in scopes[b].up
    BY <1>1 DEF Sees
<1>4. Sees(A \cup F, c)'
    BY <1>1, <1>2, <1>3 DEF Sees, Fresh
<1>5. ASSUME NEW i \in A \cup F, NEW j \in A \cup F, symbols'[i].scope < symbols'[j].scope
      PROVE  i < j
    <2>1. CASE i \in A /\ j \in A
        BY <1>1, <1>3, <1>5, <2>1 DEF Ordered
    <2>2. CASE i \in A /\ j \in F
        <3>1. i \in 1 .. Len(symbols) /\ j \in 1 .. Len(symbols') /\ j \notin 1 .. Len(symbols)
              /\ Len(symbols) \in Nat /\ Len(symbols') \in Nat
            BY SMTT(20), <1>3, <2>2 DEF Fresh, Ids, IInv, Types, Grows
        <3> QED
            BY <3>1
    <2>3. CASE i \in F /\ j \in A
        <3>1. symbols'[j].scope <= b /\ symbols'[j].scope \in Nat /\ b \in Nat
            BY <1>1, <1>3, <2>3, TreeFacts
        <3>2. b <= symbols'[i].scope /\ symbols'[i].scope \in Nat
            BY <2>3, FreshTypes DEF Grows, Fresh
        <3> QED
            BY <1>5, <3>1, <3>2
    <2>4. CASE i \in F /\ j \in F
        BY <1>5, <2>4
    <2> QED
        BY <2>1, <2>2, <2>3, <2>4
<1>6. Ordered(A \cup F)'
    BY <1>5 DEF Ordered
<1> QED
    BY <1>4, <1>6

\* What was active where an open construct began.
LEMMA EntryKept ==
    ASSUME IInv, Grows, NEW b \in DOMAIN scopes, NEW l \in DOMAIN stack, stack[l].scope < b,
           \A i \in Fresh : symbols'[i].kind # "global" => b <= symbols'[i].scope
    PROVE  \A A, s : A = stack[l].active /\ s = stack[l].scope =>
                        s \in DOMAIN scopes' /\ Sees(A, s)' /\ Ordered(A)'
<1> SUFFICES ASSUME NEW A, NEW s, A = stack[l].active, s = stack[l].scope
             PROVE  s \in DOMAIN scopes' /\ Sees(A, s)' /\ Ordered(A)'
    OBVIOUS
<1>1. s \in DOMAIN scopes /\ Sees(A, s) /\ Ordered(A)
    BY DEF IInv, Actives
<1>2. s \in DOMAIN scopes' /\ scopes'[s].up \cap DOMAIN scopes = scopes[s].up /\ s \in Nat /\ b \in Nat
    BY <1>1, TreeFacts
<1>3. \A i \in Fresh : ~(symbols'[i].kind # "global" /\ symbols'[i].scope \in scopes'[s].up)
    <2>1. \A t \in scopes'[s].up : t \in Nat /\ t <= s
        BY <1>2, TreeFacts
    <2> QED
        BY <1>2, <2>1
<1>4. Sees(A \cup {}, s)' /\ Ordered(A \cup {})'
    BY <1>1, <1>2, <1>3, SeesMore
<1>5. A \cup {} = A
    OBVIOUS
<1> QED
    BY <1>2, <1>4, <1>5 DEF Sees, Ordered

\* A step that stays in its scope, or opens one and remembers where it was.
LEMMA ActivesNext ==
    ASSUME IInv, Grows,
           \A i \in Fresh : symbols'[i].kind # "global" =>
                             symbols'[i].scope \in scopes'[cur'].up /\ cur <= symbols'[i].scope,
           \A i, j \in Fresh : symbols'[i].scope < symbols'[j].scope => i < j,
           scopes'[cur'].up \cap DOMAIN scopes = scopes[cur].up,
           active' = active \cup {i \in Fresh : symbols'[i].kind # "global"},
           \/ cur' = cur /\ stack' = stack
           \/ \E e \in Entries :
                 /\ cur < cur' /\ stack' = Append(stack, e) /\ e.scope = cur
                 /\ e.active = active \cup {i \in Fresh : symbols'[i].kind # "global" /\ symbols'[i].scope = cur}
    PROVE  Actives'
<1> DEFINE F == {i \in Fresh : symbols'[i].kind # "global"}
           G == {i \in Fresh : symbols'[i].kind # "global" /\ symbols'[i].scope = cur}
<1>1. /\ cur \in DOMAIN scopes /\ cur \in DOMAIN scopes' /\ cur' \in DOMAIN scopes' /\ cur \in Nat /\ cur' \in Nat
      /\ scopes'[cur].up \cap DOMAIN scopes = scopes[cur].up /\ cur \in scopes'[cur].up
      /\ \A s \in scopes'[cur].up : s \in Nat /\ s <= cur
    BY TreeFacts
<1>2. Sees(active, cur) /\ Ordered(active)
    BY DEF IInv, Actives
<1>3. Sees(active, cur)' /\ Ordered(active)'
    <2>1. ASSUME NEW A, NEW H, NEW c, NEW B, A = active, H = F, c = cur', B = A \cup H
          PROVE  Sees(B, c)' /\ Ordered(B)'
        <3>1. /\ H \subseteq Fresh
              /\ \A i \in Fresh : i \in H <=> symbols'[i].kind # "global" /\ symbols'[i].scope \in scopes'[c].up
              /\ \A i \in H : cur <= symbols'[i].scope
              /\ \A i, j \in H : symbols'[i].scope < symbols'[j].scope => i < j
            BY <2>1
        <3>2. Sees(A \cup H, c)' /\ Ordered(A \cup H)'
            BY <1>1, <1>2, <2>1, <3>1, SeesMore
        <3> QED
            BY <2>1, <3>2 DEF Sees, Ordered
    <2> QED
        BY ZenonT(40), <2>1 DEF Sees, Ordered
<1>4. ASSUME NEW l \in DOMAIN stack
      PROVE  /\ stack[l].scope < cur /\ stack[l].scope \in Nat
             /\ \A A, s : A = stack[l].active /\ s = stack[l].scope =>
                           s \in DOMAIN scopes' /\ Sees(A, s)' /\ Ordered(A)'
    <2>1. stack[l].scope < cur /\ stack[l].scope \in Nat
        BY TypeFacts DEF IInv, Actives
    <2> QED
        BY <1>1, <2>1, EntryKept
<1>5. \A l, m \in DOMAIN stack : l < m => stack[l].scope < stack[m].scope
    BY DEF IInv, Actives
<1>6. CASE cur' = cur /\ stack' = stack
    BY <1>3, <1>4, <1>5, <1>6 DEF Actives, Sees, Ordered
<1>7. ASSUME NEW e \in Entries, cur < cur', stack' = Append(stack, e), e.scope = cur, e.active = active \cup G
      PROVE  Actives'
    <2>1. \A A, s : A = e.active /\ s = e.scope => s \in DOMAIN scopes' /\ Sees(A, s)' /\ Ordered(A)'
        <3>1. ASSUME NEW A, NEW H, NEW c, NEW B, A = active, H = G, c = cur, B = A \cup H
              PROVE  Sees(B, c)' /\ Ordered(B)'
            <4>1. \A i \in Fresh : symbols'[i].kind # "global" /\ symbols'[i].scope \in scopes'[cur].up =>
                                        symbols'[i].scope = cur
                BY <1>1
            <4>2. /\ H \subseteq Fresh
                  /\ \A i \in Fresh : i \in H <=> symbols'[i].kind # "global" /\ symbols'[i].scope \in scopes'[c].up
                  /\ \A i \in H : cur <= symbols'[i].scope
                  /\ \A i, j \in H : symbols'[i].scope < symbols'[j].scope => i < j
                BY <1>1, <3>1, <4>1
            <4>3. Sees(A \cup H, c)' /\ Ordered(A \cup H)'
                BY <1>1, <1>2, <3>1, <4>2, SeesMore
            <4> QED
                BY <3>1, <4>3 DEF Sees, Ordered
        <3>2. ASSUME NEW B, NEW c, B = e.active, c = e.scope
              PROVE  c \in DOMAIN scopes' /\ Sees(B, c)' /\ Ordered(B)'
            <4>1. B = active \cup G /\ c = cur
                BY <1>7, <3>2
            <4> HIDE DEF G
            <4> QED
                BY <1>1, <3>1, <4>1
        <3> QED
            BY <3>2
    <2>2. Len(stack) \in Nat /\ DOMAIN stack = 1 .. Len(stack) /\ stack \in Seq(Entries)
        BY TypeFacts DEF IInv, Types
    <2>3. /\ DOMAIN stack' = 1 .. (Len(stack) + 1) /\ stack'[Len(stack) + 1] = e
          /\ \A l \in DOMAIN stack : stack'[l] = stack[l]
        <3>1. stack \in Seq(Entries) /\ e \in Entries /\ stack' = Append(stack, e)
            BY ZenonT(40), <1>7, <2>2
        <3>2. /\ DOMAIN stack' = 1 .. (Len(stack) + 1) /\ stack'[Len(stack) + 1] = e
              /\ \A l \in 1 .. Len(stack) : stack'[l] = stack[l]
            BY <3>1, OneMore
        <3> QED
            BY <2>2, <3>2
    <2>4. ASSUME NEW l \in DOMAIN stack'
          PROVE  /\ stack'[l].scope < cur'
                 /\ \A A, s : A = stack'[l].active /\ s = stack'[l].scope =>
                               s \in DOMAIN scopes' /\ Sees(A, s)' /\ Ordered(A)'
        <3>1. CASE l \in DOMAIN stack
            BY SMTT(20), <1>1, <1>4, <1>7, <2>3, <3>1
        <3>2. CASE l = Len(stack) + 1
            BY <1>1, <1>7, <2>1, <2>3, <3>2
        <3> QED
            BY <2>2, <2>3, <3>1, <3>2
    <2>5. ASSUME NEW l \in DOMAIN stack', NEW m \in DOMAIN stack', l < m
          PROVE  stack'[l].scope < stack'[m].scope
        <3>1. l \in DOMAIN stack /\ stack'[l] = stack[l]
            BY <2>2, <2>3, <2>5
        <3>2. CASE m \in DOMAIN stack
            BY <1>5, <2>3, <2>5, <3>1, <3>2
        <3>3. CASE m = Len(stack) + 1
            BY <1>4, <1>7, <2>3, <3>1, <3>3
        <3> QED
            BY <2>2, <2>3, <3>2, <3>3
    <2> QED
        BY <1>3, <2>4, <2>5 DEF Actives, Sees, Ordered
<1> QED
    BY <1>6, <1>7

-----------------------------------------------------------------------------
(* What the steps are made of: new symbols, references and scopes.         *)

LEMMA SymbolFacts ==
    ASSUME Types, NEW name \in Names \cup {Self}, NEW kind \in Kinds, NEW scope \in Nat,
           NEW start \in Nat, NEW from \in Nat
    PROVE  /\ Symbol(name, kind, scope, start, from) \in SymbolRecords
           /\ Symbol(name, kind, scope, start, from).name = name
           /\ Symbol(name, kind, scope, start, from).kind = kind
           /\ Symbol(name, kind, scope, start, from).scope = scope
           /\ Symbol(name, kind, scope, start, from).start = start
           /\ Symbol(name, kind, scope, start, from).from = from
           /\ Symbol(name, kind, scope, start, from).env = active
BY DEF Types, Symbol, SymbolRecords

\* A reference resolved from one scope and recorded in scope s.
ReferenceIn(name, scope, place, s) == [Reference(name, scope, place) EXCEPT !.scope = s]

LEMMA ReferenceFacts ==
    ASSUME Types, NEW name \in Names, NEW scope, NEW s \in Nat, NEW place \in Nat,
           NEW r, r = ReferenceIn(name, scope, place, s)
    PROVE  /\ r \in RefRecords /\ r.name = name /\ r.at = place /\ r.scope = s /\ r.env = active
           /\ r.symbol = Reference(name, scope, place).symbol
<1> DEFINE found == Resolve(symbols, scope, name, place)
<1>1. found \in Nat
    <2>1. Ids \subseteq Nat
        BY TypeFacts
    <2>2. CASE \E i \in DOMAIN symbols : Resolves(symbols, scope, name, place, i)
        BY <2>1, <2>2 DEF Resolve, Ids
    <2>3. CASE ~\E i \in DOMAIN symbols : Resolves(symbols, scope, name, place, i)
        BY <2>3 DEF Resolve
    <2> QED
        BY <2>2, <2>3
<1> HIDE DEF found
<1>2. globals[name] \in Nat /\ active \in SUBSET Nat
    BY DEF Types
<1>3. Reference(name, scope, place) =
        [name |-> name, at |-> place, scope |-> scope, env |-> active,
         symbol |-> IF found # 0 THEN found
                    ELSE IF AllowsImplicit(scope, place) THEN globals[name] ELSE 0]
    BY DEF Reference, found
<1> QED
    BY <1>1, <1>2, <1>3 DEF RefRecords, ReferenceIn

LEMMA SymbolsSame ==
    ASSUME Types, symbols' = symbols
    PROVE  symbols' \in Seq(SymbolRecords) /\ Ids' = Ids /\ Fresh = {}
BY DEF Types, Ids, Fresh

LEMMA OneSymbol ==
    ASSUME Types, NEW a \in SymbolRecords, symbols' = Append(symbols, a)
    PROVE  /\ symbols' \in Seq(SymbolRecords) /\ Ids \subseteq Ids' /\ Fresh = {Len(symbols) + 1}
           /\ \A i \in Ids : symbols'[i] = symbols[i]
           /\ symbols'[Len(symbols) + 1] = a
<1>1. symbols \in Seq(SymbolRecords) /\ Len(symbols) \in Nat /\ Ids = 1 .. Len(symbols)
    BY TypeFacts DEF Types
<1>2. /\ symbols' \in Seq(SymbolRecords) /\ DOMAIN symbols' = 1 .. (Len(symbols) + 1)
      /\ \A i \in 1 .. Len(symbols) : symbols'[i] = symbols[i]
      /\ symbols'[Len(symbols) + 1] = a
    BY <1>1, OneMore
<1> QED
    BY <1>1, <1>2 DEF Ids, Fresh

LEMMA TwoSymbols ==
    ASSUME Types, NEW a \in SymbolRecords, NEW b \in SymbolRecords, symbols' = symbols \o <<a, b>>
    PROVE  /\ symbols' \in Seq(SymbolRecords) /\ Ids \subseteq Ids'
           /\ Fresh = {Len(symbols) + 1, Len(symbols) + 2}
           /\ \A i \in Ids : symbols'[i] = symbols[i]
           /\ symbols'[Len(symbols) + 1] = a /\ symbols'[Len(symbols) + 2] = b
<1>1. symbols \in Seq(SymbolRecords) /\ Len(symbols) \in Nat /\ Ids = 1 .. Len(symbols)
    BY TypeFacts DEF Types
<1>2. /\ symbols' \in Seq(SymbolRecords) /\ DOMAIN symbols' = 1 .. (Len(symbols) + 2)
      /\ \A i \in 1 .. Len(symbols) : symbols'[i] = symbols[i]
      /\ symbols'[Len(symbols) + 1] = a /\ symbols'[Len(symbols) + 2] = b
    BY <1>1, TwoMore
<1> QED
    BY <1>1, <1>2 DEF Ids, Fresh

LEMMA RefsSame ==
    ASSUME IInv, Grows, refs' = refs
    PROVE  \A k \in DOMAIN refs' : RefSound(refs[k])'
<1>1. ASSUME NEW k \in DOMAIN refs, NEW r, r = refs[k]
      PROVE  RefSound(r)'
    BY <1>1, RefKept, TypeFacts DEF IInv
<1> QED
    BY <1>1 DEF RefSound, RefSees, RefBound, Ordered

LEMMA OneRef ==
    ASSUME IInv, Grows, NEW r \in RefRecords, refs' = Append(refs, r), RefSound(r)'
    PROVE  \A k \in DOMAIN refs' : RefSound(refs[k])'
<1>1. ASSUME NEW k \in DOMAIN refs, NEW q, q = refs[k]
      PROVE  RefSound(q)'
    BY <1>1, RefKept, TypeFacts DEF IInv
<1>2. refs \in Seq(RefRecords) /\ Len(refs) \in Nat /\ DOMAIN refs = 1 .. Len(refs)
    BY TypeFacts DEF IInv, Types
<1>3. /\ DOMAIN refs' = 1 .. (Len(refs) + 1) /\ refs'[Len(refs) + 1] = r
      /\ \A k \in 1 .. Len(refs) : refs'[k] = refs[k]
    BY <1>2, OneMore
<1>4. ASSUME NEW k \in DOMAIN refs', NEW q, q = refs'[k]
      PROVE  RefSound(q)'
    <2>1. CASE k \in DOMAIN refs
        BY <1>1, <1>2, <1>3, <1>4, <2>1
    <2>2. CASE k = Len(refs) + 1
        BY <1>3, <1>4, <2>2
    <2> QED
        BY <1>2, <1>3, <2>1, <2>2
<1> QED
    BY <1>4 DEF RefSound, RefSees, RefBound, Ordered

LEMMA ScopesSame ==
    ASSUME IInv, scopes' = scopes, cur' = cur, Ids \subseteq Ids'
    PROVE  /\ scopes' \in Seq(ScopeRecords) /\ cur' \in Nat /\ Tree'
           /\ DOMAIN scopes \subseteq DOMAIN scopes' /\ cur \in DOMAIN scopes /\ cur \in Nat
           /\ \A s \in DOMAIN scopes : scopes'[s].up = scopes[s].up
           /\ scopes'[cur'].up \cap DOMAIN scopes = scopes[cur].up
           /\ cur' \in scopes'[cur'].up
<1>1. scopes \in Seq(ScopeRecords) /\ cur \in Nat /\ Tree /\ cur \in DOMAIN scopes
      /\ Len(scopes) \in Nat /\ DOMAIN scopes = 1 .. Len(scopes)
    BY TypeFacts DEF IInv, Types, Tree
<1>2. Tree'
    BY <1>1 DEF Tree
<1>3. scopes[cur].up \subseteq DOMAIN scopes /\ cur \in scopes[cur].up
    BY <1>1 DEF Tree
<1> QED
    BY <1>1, <1>2, <1>3

\* Where the walk goes on when a construct has opened its scopes.
Opened ==
    /\ scopes' \in Seq(ScopeRecords) /\ cur' \in Nat /\ Tree'
    /\ DOMAIN scopes \subseteq DOMAIN scopes' /\ cur \in DOMAIN scopes /\ cur \in Nat
    /\ \A s \in DOMAIN scopes : scopes'[s].up = scopes[s].up
    /\ scopes'[cur'].up \cap DOMAIN scopes = scopes[cur].up
    /\ cur < cur' /\ cur \in scopes'[cur'].up /\ cur' \in scopes'[cur'].up

LEMMA EnclosingFacts ==
    ASSUME IInv, NEW now \in SUBSET Nat, NEW declares \in BOOLEAN, NEW name \in Names \cup {Self},
           NEW start \in Nat, NEW e, e = Enclosing(now, declares, name, start),
           stack' = Append(stack, e)
    PROVE  e \in Entries /\ e.scope = cur /\ e.active = now /\ stack' \in Seq(Entries)
<1>1. e \in Entries /\ e.scope = cur /\ e.active = now
    BY DEF IInv, Types, Enclosing, Entries
<1>2. stack \in Seq(Entries)
    BY DEF IInv, Types
<1> QED
    BY <1>1, <1>2, OneMore

LEMMA OneScope ==
    ASSUME IInv, Ids \subseteq Ids', cur' = Len(scopes) + 1,
           scopes' = Append(scopes, NewScope("block", cur, Len(scopes) + 1, at + 1))
    PROVE  Opened
<1> DEFINE n == Len(scopes) + 1
           a == NewScope("block", cur, n, at + 1)
<1>1. /\ scopes \in Seq(ScopeRecords) /\ Len(scopes) \in Nat /\ DOMAIN scopes = 1 .. Len(scopes)
      /\ cur \in DOMAIN scopes /\ cur \in Nat /\ at \in Nat /\ Len(symbols) \in Nat
      /\ \A s \in DOMAIN scopes :
            s \in scopes[s].up /\ scopes[s].up \subseteq 1 .. s /\ scopes[s].owner \in Ids \cup {0}
    BY TypeFacts DEF IInv, Types, Tree
<1>2. a = [kind |-> "block", up |-> scopes[cur].up \cup {n}, start |-> at + 1, end |-> 0, owner |-> 0]
    BY DEF NewScope
<1>3. a \in ScopeRecords /\ a.up = scopes[cur].up \cup {n} /\ a.owner = 0
    BY SMTT(20), <1>1, <1>2 DEF ScopeRecords
<1> HIDE DEF a
<1>4. /\ scopes' \in Seq(ScopeRecords) /\ DOMAIN scopes' = 1 .. (Len(scopes) + 1)
      /\ \A s \in 1 .. Len(scopes) : scopes'[s] = scopes[s]
      /\ scopes'[n] = a
    BY <1>1, <1>3, OneMore DEF a
<1>5. \A s \in DOMAIN scopes' :
          s \in scopes'[s].up /\ scopes'[s].up \subseteq 1 .. s /\ scopes'[s].owner \in Ids' \cup {0}
    <2>1. ASSUME NEW s \in DOMAIN scopes
          PROVE  s \in scopes'[s].up /\ scopes'[s].up \subseteq 1 .. s /\ scopes'[s].owner \in Ids' \cup {0}
        BY <1>1, <1>4
    <2>2. n \in scopes'[n].up /\ scopes'[n].up \subseteq 1 .. n /\ scopes'[n].owner \in Ids' \cup {0}
        BY <1>1, <1>3, <1>4
    <2> QED
        BY <1>1, <1>4, <2>1, <2>2
<1>6. Tree'
    BY <1>1, <1>4, <1>5 DEF Tree
<1>7. scopes[cur].up \subseteq 1 .. cur /\ cur \in scopes[cur].up
    BY <1>1
<1> QED
    BY <1>1, <1>3, <1>4, <1>6, <1>7 DEF Opened

LEMMA TwoScopes ==
    ASSUME IInv, Ids \subseteq Ids', NEW kind \in {"block", "function"}, NEW now \in SUBSET Nat,
           NEW declares \in BOOLEAN, NEW name \in Names \cup {Self}, NEW owner \in Nat,
           owner \in Ids' \cup {0}, OpenTwo(kind, now, declares, name, owner)
    PROVE  /\ Opened /\ Len(scopes) \in Nat /\ cur' = Len(scopes) + 2 /\ at' = at + 4
           /\ stack' \in Seq(Entries)
           /\ \E e \in Entries : stack' = Append(stack, e) /\ e.scope = cur /\ e.active = now
           /\ scopes'[Len(scopes) + 1].up \cap DOMAIN scopes = scopes[cur].up
           /\ Len(scopes) + 1 \in scopes'[cur'].up /\ Len(scopes) + 1 \in DOMAIN scopes'
           /\ Len(scopes) + 1 \notin scopes[cur].up /\ cur < Len(scopes) + 1
<1> DEFINE n == Len(scopes) + 1
           a == [NewScope(kind, cur, n, at + 1) EXCEPT !.owner = owner]
           b == [kind |-> "block", up |-> a.up \cup {n + 1}, start |-> at + 4, end |-> 0, owner |-> 0]
<1>1. /\ scopes \in Seq(ScopeRecords) /\ Len(scopes) \in Nat /\ DOMAIN scopes = 1 .. Len(scopes)
      /\ cur \in DOMAIN scopes /\ cur \in Nat /\ at \in Nat /\ Len(symbols) \in Nat
      /\ \A s \in DOMAIN scopes :
            s \in scopes[s].up /\ scopes[s].up \subseteq 1 .. s /\ scopes[s].owner \in Ids \cup {0}
    BY TypeFacts DEF IInv, Types, Tree
<1>2. /\ scopes' = scopes \o <<a, b>> /\ cur' = n + 1 /\ at' = at + 4
      /\ stack' = Append(stack, Enclosing(now, declares, name, at + 1))
    BY DEF OpenTwo
<1>3. NewScope(kind, cur, n, at + 1) =
        [kind |-> kind, up |-> scopes[cur].up \cup {n}, start |-> at + 1, end |-> 0, owner |-> 0]
    BY DEF NewScope
<1>4. a \in ScopeRecords /\ a.up = scopes[cur].up \cup {n} /\ a.owner = owner
    <2>1. scopes[cur].up \cup {n} \in SUBSET Nat /\ at + 1 \in Nat /\ kind \in {"chunk", "block", "function"}
        BY <1>1
    <2> QED
        BY <1>3, <2>1 DEF ScopeRecords
<1> HIDE DEF a
<1>5. b \in ScopeRecords /\ b.up = scopes[cur].up \cup {n, n + 1} /\ b.owner = 0
    BY SMTT(20), <1>1, <1>4 DEF ScopeRecords
<1> HIDE DEF b
<1>6. /\ scopes' \in Seq(ScopeRecords) /\ DOMAIN scopes' = 1 .. (Len(scopes) + 2)
      /\ \A s \in 1 .. Len(scopes) : scopes'[s] = scopes[s]
      /\ scopes'[n] = a /\ scopes'[Len(scopes) + 2] = b
    BY <1>1, <1>2, <1>4, <1>5, TwoMore
<1>7. \A s \in DOMAIN scopes' :
          s \in scopes'[s].up /\ scopes'[s].up \subseteq 1 .. s /\ scopes'[s].owner \in Ids' \cup {0}
    <2>1. ASSUME NEW s \in DOMAIN scopes
          PROVE  s \in scopes'[s].up /\ scopes'[s].up \subseteq 1 .. s /\ scopes'[s].owner \in Ids' \cup {0}
        BY <1>1, <1>6
    <2>2. n \in scopes'[n].up /\ scopes'[n].up \subseteq 1 .. n /\ scopes'[n].owner \in Ids' \cup {0}
        BY <1>1, <1>4, <1>6
    <2>3. /\ n + 1 \in scopes'[n + 1].up /\ scopes'[n + 1].up \subseteq 1 .. (n + 1)
          /\ scopes'[n + 1].owner \in Ids' \cup {0}
        BY SMTT(20), <1>1, <1>5, <1>6
    <2> QED
        BY <1>1, <1>6, <2>1, <2>2, <2>3
<1>8. Tree' /\ cur' \in Nat
    BY SMTT(20), <1>1, <1>2, <1>6, <1>7 DEF Tree
<1>9. scopes[cur].up \subseteq 1 .. cur /\ cur \in scopes[cur].up
    BY <1>1
<1>10. Opened
    BY SMTT(20), <1>1, <1>2, <1>5, <1>6, <1>8, <1>9 DEF Opened
<1>11. stack' \in Seq(Entries) /\ \E e \in Entries : stack' = Append(stack, e) /\ e.scope = cur /\ e.active = now
    BY <1>1, <1>2, EnclosingFacts
<1>12. scopes'[n].up \cap DOMAIN scopes = scopes[cur].up
    BY <1>1, <1>4, <1>6, <1>9
<1>13. n \in scopes'[cur'].up /\ n \in DOMAIN scopes' /\ n \notin scopes[cur].up /\ cur < n
    BY SMTT(20), <1>1, <1>2, <1>5, <1>6, <1>9
<1> QED
    BY <1>1, <1>2, <1>10, <1>11, <1>12, <1>13

LEMMA PlainReference ==
    ASSUME NEW name, NEW scope, NEW place
    PROVE  Reference(name, scope, place) = ReferenceIn(name, scope, place, scope)
BY DEF Reference, ReferenceIn

LEMMA RefersType ==
    ASSUME Types, NEW name \in Names, NEW scope, NEW s \in Nat, NEW place \in Nat,
           refs' = Append(refs, ReferenceIn(name, scope, place, s))
    PROVE  refs' \in Seq(RefRecords)
<1>1. refs \in Seq(RefRecords)
    BY DEF Types
<1> QED
    BY <1>1, ReferenceFacts, OneMore

LEMMA Refers ==
    ASSUME Self \notin Names, IInv, Grows,
           NEW name \in Names, NEW place \in Nat, at <= place, place <= at',
           NEW scope \in DOMAIN scopes', scopes'[scope].up \cap DOMAIN scopes = scopes[cur].up,
           \A i \in Fresh : \/ symbols'[i].kind = "global" \/ place < symbols'[i].from
                            \/ symbols'[i].scope \notin scopes'[scope].up,
           refs' = Append(refs, ReferenceIn(name, cur, place, scope))
    PROVE  \A k \in DOMAIN refs' : RefSound(refs[k])'
<1>1. scope \in Nat /\ Types
    BY TreeFacts DEF IInv
<1>2. ASSUME NEW r, r = ReferenceIn(name, cur, place, scope)
      PROVE  r \in RefRecords /\ RefSound(r)'
    <2>1. /\ r \in RefRecords /\ r.name = name /\ r.at = place /\ r.scope = scope /\ r.env = active
          /\ r.symbol = Reference(name, cur, place).symbol
        BY <1>1, <1>2, ReferenceFacts
    <2> QED
        BY <2>1, RefAdded
<1> QED
    BY <1>2, OneRef

LEMMA GlobalsSame ==
    ASSUME IInv, Grows, globals' = globals, \A i \in Fresh : symbols'[i].kind # "global"
    PROVE  GlobalsSound'
BY DEF IInv, GlobalsSound, Grows, Fresh

LEMMA OneGlobal ==
    ASSUME IInv, Grows, NEW name \in Names, NEW n \in Ids', symbols'[n].kind = "global",
           symbols'[n].name = name, \A i \in Fresh \ {n} : symbols'[i].kind # "global",
           globals' = [globals EXCEPT ![name] = n]
    PROVE  GlobalsSound'
<1>1. globals \in [Names -> Nat] /\ GlobalsSound /\ 0 \notin Ids'
    BY TypeFacts DEF IInv, Types, Grows, Ids
<1>2. \A m \in Names : globals'[m] = IF m = name THEN n ELSE globals[m]
    BY <1>1
<1>3. \A i \in Ids : i \in Ids' /\ symbols'[i] = symbols[i]
    BY DEF Grows
<1>4. ASSUME NEW m \in Names, m # name, globals[m] = 0, NEW i \in Ids', symbols'[i].kind = "global"
      PROVE  symbols'[i].name # m
    BY <1>1, <1>3, <1>4 DEF GlobalsSound, Fresh
<1> QED
    BY <1>1, <1>2, <1>3, <1>4 DEF GlobalsSound

LEMMA StepSound ==
    ASSUME IInv, Grows, Actives', GlobalsSound', \A k \in DOMAIN refs' : RefSound(refs[k])'
    PROVE  IInv'
BY SymbolsKept DEF IInv, Grows

\* What a step adds to the symbols.
Added ==
    /\ symbols' \in Seq(SymbolRecords) /\ Ids \subseteq Ids'
    /\ \A i \in Ids : symbols'[i] = symbols[i]
    /\ \A i \in Fresh :
          /\ symbols'[i].from <= at' /\ symbols'[i].env = active
          /\ symbols'[i].kind \in {"self", "star"} => symbols'[i].name = Self
          /\ symbols'[i].kind # "global" => at < symbols'[i].from
    /\ active' = active \cup {i \in Fresh : symbols'[i].kind # "global"}
    /\ at' \in Nat /\ at < at'
    /\ refs' \in Seq(RefRecords) /\ globals' \in [Names -> Nat]
    /\ decls' = decls \cup
          {[scope |-> symbols'[i].scope, at |-> symbols'[i].from, wildcard |-> symbols'[i].kind = "star"] :
              i \in {i \in Fresh : symbols'[i].kind \in {"star", "explicit"}}}

LEMMA NoDeclarations ==
    ASSUME decls' = decls, \A i \in Fresh : symbols'[i].kind \notin {"star", "explicit"}
    PROVE  decls' = decls \cup
             {[scope |-> symbols'[i].scope, at |-> symbols'[i].from, wildcard |-> symbols'[i].kind = "star"] :
                i \in {i \in Fresh : symbols'[i].kind \in {"star", "explicit"}}}
OBVIOUS

LEMMA AddedFacts ==
    ASSUME IInv, Added
    PROVE  active \subseteq Ids' /\ active' \in SUBSET Nat
<1>1. active \subseteq Ids
    BY DEF IInv, Actives, Sees
<1>2. Ids' \subseteq Nat
    BY DEF Added, Ids
<1> QED
    BY <1>1, <1>2 DEF Added, Fresh

\* A step inside a scope.
LEMMA Stays ==
    ASSUME IInv, Added, scopes' = scopes, cur' = cur, stack' = stack,
           \A i \in Fresh : symbols'[i].scope = cur
    PROVE  Grows /\ Actives'
<1>1. /\ scopes' \in Seq(ScopeRecords) /\ cur' \in Nat /\ Tree'
      /\ DOMAIN scopes \subseteq DOMAIN scopes' /\ cur \in DOMAIN scopes /\ cur \in Nat
      /\ \A s \in DOMAIN scopes : scopes'[s].up = scopes[s].up
      /\ scopes'[cur'].up \cap DOMAIN scopes = scopes[cur].up
      /\ cur' \in scopes'[cur'].up
    BY ScopesSame DEF Added
<1>2. Types'
    BY <1>1, AddedFacts DEF Added, Types, IInv
<1>3. Grows
    BY <1>1, <1>2, AddedFacts DEF Added, Grows
<1>4. Actives'
    BY <1>1, <1>3, ActivesNext DEF Added
<1> QED
    BY <1>3, <1>4

\* A step that opens scopes.
LEMMA Opens ==
    ASSUME IInv, Added, Opened, stack' \in Seq(Entries),
           NEW G \in SUBSET Fresh,
           \E e \in Entries : stack' = Append(stack, e) /\ e.scope = cur /\ e.active = active \cup G,
           \A i \in G : symbols'[i].kind # "global" /\ symbols'[i].scope = cur,
           \A i \in Fresh \ G : symbols'[i].kind # "global" => cur < symbols'[i].scope,
           \A i \in Fresh : symbols'[i].scope \in scopes'[cur'].up /\ cur <= symbols'[i].scope,
           \A i, j \in Fresh : symbols'[i].scope < symbols'[j].scope => i < j
    PROVE  Grows /\ Actives'
<1>1. Types'
    BY AddedFacts DEF Added, Types, IInv, Opened
<1>2. \A i \in Fresh : symbols'[i].scope \in DOMAIN scopes'
    BY DEF Opened, Tree
<1>3. Grows
    BY <1>1, <1>2, AddedFacts DEF Added, Grows, Opened
<1>4. \E e \in Entries :
          /\ cur < cur' /\ stack' = Append(stack, e) /\ e.scope = cur
          /\ e.active = active \cup {i \in Fresh : symbols'[i].kind # "global" /\ symbols'[i].scope = cur}
    <2>1. G = {i \in Fresh : symbols'[i].kind # "global" /\ symbols'[i].scope = cur}
        <3>1. cur \in Nat
            BY DEF Opened
        <3> QED
            BY <3>1
    <2> QED
        BY <2>1 DEF Opened
<1>5. Actives'
    BY <1>3, <1>4, ActivesNext DEF Added, Opened
<1> QED
    BY <1>3, <1>5

-----------------------------------------------------------------------------
(* The actions.                                                            *)

LEMMA Here ==
    ASSUME IInv
    PROVE  /\ Types /\ at \in Nat /\ cur \in Nat /\ Len(symbols) \in Nat /\ Ids = 1 .. Len(symbols)
           /\ cur \in DOMAIN scopes /\ symbols \in Seq(SymbolRecords) /\ refs \in Seq(RefRecords)
           /\ globals \in [Names -> Nat] /\ active \subseteq Ids /\ stack \in Seq(Entries)
           /\ scopes[cur].up \cap DOMAIN scopes = scopes[cur].up
<1>1. Types /\ at \in Nat /\ cur \in Nat /\ symbols \in Seq(SymbolRecords) /\ refs \in Seq(RefRecords)
      /\ globals \in [Names -> Nat] /\ stack \in Seq(Entries)
    BY DEF IInv, Types
<1>2. /\ Len(symbols) \in Nat /\ Ids = 1 .. Len(symbols) /\ cur \in DOMAIN scopes
      /\ scopes[cur].up \subseteq DOMAIN scopes
    BY <1>1, TypeFacts DEF IInv, Tree
<1>3. active \subseteq Ids
    BY DEF IInv, Actives, Sees
<1> QED
    BY <1>1, <1>2, <1>3

LEMMA SymbolArgs ==
    ASSUME IInv
    PROVE  /\ Types /\ cur \in Nat
           /\ 0 \in Nat /\ at + 1 \in Nat /\ at + 2 \in Nat /\ at + 3 \in Nat /\ at + 4 \in Nat
           /\ "local" \in Kinds /\ "parameter" \in Kinds /\ "function" \in Kinds /\ "explicit" \in Kinds
           /\ "global" \in Kinds /\ "self" \in Kinds /\ "star" \in Kinds
           /\ Self \in Names \cup {Self} /\ \A n \in Names : n \in Names \cup {Self}
BY SMTT(20), Here DEF Kinds, LexicalKinds

\* Refers for a reference recorded in the scope the walk is in.
LEMMA RefersHere ==
    ASSUME Self \notin Names, IInv, Grows, NEW name \in Names, NEW place \in Nat, at <= place, place <= at',
           \A i \in Fresh : symbols'[i].kind = "global" \/ place < symbols'[i].from
                            \/ symbols'[i].scope \notin scopes[cur].up,
           refs' = Append(refs, Reference(name, cur, place))
    PROVE  \A k \in DOMAIN refs' : RefSound(refs[k])'
<1>1. cur \in DOMAIN scopes /\ cur \in DOMAIN scopes' /\ scopes'[cur].up = scopes[cur].up
      /\ scopes[cur].up \cap DOMAIN scopes = scopes[cur].up
    BY Here, TreeFacts
<1>2. refs' = Append(refs, ReferenceIn(name, cur, place, cur))
    BY PlainReference
<1> QED
    BY <1>1, <1>2, Refers

LEMMA RefersHereType ==
    ASSUME IInv, NEW name \in Names, NEW place \in Nat, refs' = Append(refs, Reference(name, cur, place))
    PROVE  refs' \in Seq(RefRecords)
<1>1. Types /\ cur \in Nat /\ refs' = Append(refs, ReferenceIn(name, cur, place, cur))
    BY PlainReference DEF IInv, Types
<1> QED
    BY <1>1, RefersType

LEMMA IdentifierSound ==
    ASSUME Self \notin Names, IInv, NEW name \in Names, Identifier(name)
    PROVE  IInv' /\ Grows
<1>1. /\ refs' = Append(refs, Reference(name, cur, at + 1)) /\ at' = at + 1
      /\ cur' = cur /\ scopes' = scopes /\ symbols' = symbols /\ globals' = globals
      /\ decls' = decls /\ active' = active /\ stack' = stack
    BY DEF Identifier
<1>2. symbols' \in Seq(SymbolRecords) /\ Ids' = Ids /\ Fresh = {}
    BY <1>1, Here, SymbolsSame
<1>3. refs' \in Seq(RefRecords)
    BY <1>1, Here, RefersHereType
<1>4. Added
    BY <1>1, <1>2, <1>3, Here, NoDeclarations DEF Added
<1>5. Grows /\ Actives'
    BY <1>1, <1>2, <1>4, Stays
<1>6. \A k \in DOMAIN refs' : RefSound(refs[k])'
    <2>1. at + 1 \in Nat /\ at <= at + 1 /\ at + 1 <= at' /\ Fresh = {}
        BY <1>1, <1>2, Here
    <2> QED
        BY <1>1, <1>5, <2>1, RefersHere
<1>7. GlobalsSound'
    BY <1>1, <1>2, <1>5, GlobalsSame
<1> QED
    BY <1>5, <1>6, <1>7, StepSound

LEMMA AssignmentSound ==
    ASSUME Self \notin Names, IInv, NEW name \in Names, Assignment(name)
    PROVE  IInv' /\ Grows
<1>1. CASE Defines(name, at + 1) /\ globals[name] = 0
    <2> DEFINE a == Symbol(name, "global", cur, at + 1, 0)
    <2>1. /\ symbols' = Append(symbols, a) /\ globals' = [globals EXCEPT ![name] = Len(symbols) + 1]
          /\ at' = at + 1 /\ cur' = cur /\ scopes' = scopes /\ refs' = refs
          /\ decls' = decls /\ active' = active /\ stack' = stack
        BY <1>1 DEF Assignment
    <2>2. a \in SymbolRecords /\ a.kind = "global" /\ a.scope = cur /\ a.from = 0 /\ a.env = active /\ a.name = name
        <3>1. name \in Names \cup {Self} /\ "global" \in Kinds /\ Types /\ cur \in Nat /\ at + 1 \in Nat /\ 0 \in Nat
            BY SymbolArgs
        <3> QED
            BY <3>1, SymbolFacts
    <2> HIDE DEF a
    <2>3. /\ symbols' \in Seq(SymbolRecords) /\ Ids \subseteq Ids' /\ Fresh = {Len(symbols) + 1}
          /\ \A i \in Ids : symbols'[i] = symbols[i]
          /\ symbols'[Len(symbols) + 1] = a
        BY <2>1, <2>2, Here, OneSymbol
    <2>4. Added
        BY SMTT(20), <2>1, <2>2, <2>3, Here, NoDeclarations DEF Added
    <2>5. Grows /\ Actives'
        BY <2>1, <2>2, <2>3, <2>4, Stays
    <2>6. GlobalsSound'
        BY <2>1, <2>2, <2>3, <2>5, OneGlobal DEF Fresh
    <2> QED
        BY <2>1, <2>5, <2>6, RefsSame, StepSound
<1>2. CASE ~(Defines(name, at + 1) /\ globals[name] = 0)
    <2>1. /\ refs' = Append(refs, Reference(name, cur, at + 1)) /\ at' = at + 1
          /\ cur' = cur /\ scopes' = scopes /\ symbols' = symbols /\ globals' = globals
          /\ decls' = decls /\ active' = active /\ stack' = stack
        BY <1>2 DEF Assignment
    <2>2. symbols' \in Seq(SymbolRecords) /\ Ids' = Ids /\ Fresh = {}
        BY <2>1, Here, SymbolsSame
    <2>3. refs' \in Seq(RefRecords)
        BY <2>1, Here, RefersHereType
    <2>4. Added
        BY <2>1, <2>2, <2>3, Here, NoDeclarations DEF Added
    <2>5. Grows /\ Actives'
        BY <2>1, <2>2, <2>4, Stays
    <2>6. \A k \in DOMAIN refs' : RefSound(refs[k])'
        <3>1. at + 1 \in Nat /\ at <= at + 1 /\ at + 1 <= at' /\ Fresh = {}
            BY <2>1, <2>2, Here
        <3> QED
            BY <2>1, <2>5, <3>1, RefersHere
    <2>7. GlobalsSound'
        BY <2>1, <2>2, <2>5, GlobalsSame
    <2> QED
        BY <2>5, <2>6, <2>7, StepSound
<1> QED
    BY <1>1, <1>2

LEMMA VariableDeclarationSound ==
    ASSUME Self \notin Names, IInv, NEW kind \in {"local", "explicit"}, NEW name \in Names,
           NEW init \in Names, VariableDeclaration(kind, name, init)
    PROVE  IInv' /\ Grows
<1> DEFINE a == Symbol(name, kind, cur, at + 1, at + 3)
           n == Len(symbols) + 1
<1>1. /\ symbols' = Append(symbols, a) /\ refs' = Append(refs, Reference(init, cur, at + 2))
      /\ decls' = IF kind = "explicit"
                  THEN decls \cup {[scope |-> cur, at |-> at + 3, wildcard |-> FALSE]} ELSE decls
      /\ active' = active \cup {n} /\ at' = at + 3
      /\ cur' = cur /\ scopes' = scopes /\ globals' = globals /\ stack' = stack
    BY DEF VariableDeclaration
<1>2. a \in SymbolRecords /\ a.kind = kind /\ a.scope = cur /\ a.from = at + 3 /\ a.env = active
    <2>1. /\ name \in Names \cup {Self} /\ kind \in Kinds /\ Types
          /\ cur \in Nat /\ at + 1 \in Nat /\ at + 3 \in Nat
        BY SymbolArgs
    <2> QED
        BY <2>1 DEF Symbol, SymbolRecords, Types
<1> HIDE DEF a
<1>3. /\ symbols' \in Seq(SymbolRecords) /\ Ids \subseteq Ids' /\ Fresh = {n}
      /\ \A i \in Ids : symbols'[i] = symbols[i]
      /\ symbols'[n] = a
    BY <1>1, <1>2, Here, OneSymbol
<1>4. refs' \in Seq(RefRecords)
    BY SMTT(20), <1>1, Here, RefersHereType
<1>5. decls' = decls \cup
          {[scope |-> symbols'[i].scope, at |-> symbols'[i].from, wildcard |-> symbols'[i].kind = "star"] :
              i \in {i \in Fresh : symbols'[i].kind \in {"star", "explicit"}}}
    <2>1. CASE kind = "local"
        BY <1>1, <1>2, <1>3, <2>1, NoDeclarations
    <2>2. CASE kind = "explicit"
        <3>1. {[scope |-> symbols'[i].scope, at |-> symbols'[i].from, wildcard |-> symbols'[i].kind = "star"] :
                  i \in {i \in Fresh : symbols'[i].kind \in {"star", "explicit"}}}
              = {[scope |-> cur, at |-> at + 3, wildcard |-> FALSE]}
            BY <1>2, <1>3, <2>2
        <3> QED
            BY <1>1, <2>2, <3>1
    <2> QED
        BY <2>1, <2>2
<1>6. Added
    BY SMTT(20), <1>1, <1>2, <1>3, <1>4, <1>5, Here DEF Added
<1>7. Grows /\ Actives'
    BY <1>1, <1>2, <1>3, <1>6, Stays
<1>8. \A k \in DOMAIN refs' : RefSound(refs[k])'
    <2>1. at + 2 \in Nat /\ at <= at + 2 /\ at + 2 <= at' /\ \A i \in Fresh : at + 2 < symbols'[i].from
        BY SMTT(20), <1>1, <1>2, <1>3, Here
    <2> QED
        BY <1>1, <1>7, <2>1, RefersHere
<1>10. \A i \in Fresh : symbols'[i].kind # "global"
    BY <1>2, <1>3
<1>9. GlobalsSound'
    BY <1>1, <1>7, <1>10, GlobalsSame
<1> QED
    BY <1>7, <1>8, <1>9, StepSound

LEMMA GlobalStarSound ==
    ASSUME IInv, GlobalStar
    PROVE  IInv' /\ Grows
<1> DEFINE a == Symbol(Self, "star", cur, at + 1, at + 1)
           n == Len(symbols) + 1
<1>1. /\ symbols' = Append(symbols, a)
      /\ decls' = decls \cup {[scope |-> cur, at |-> at + 1, wildcard |-> TRUE]}
      /\ active' = active \cup {n} /\ at' = at + 1
      /\ cur' = cur /\ scopes' = scopes /\ refs' = refs /\ globals' = globals /\ stack' = stack
    BY DEF GlobalStar
<1>2. /\ a \in SymbolRecords /\ a.kind = "star" /\ a.scope = cur /\ a.from = at + 1 /\ a.env = active
      /\ a.name = Self
    <2>1. Self \in Names \cup {Self} /\ "star" \in Kinds /\ Types /\ cur \in Nat /\ at + 1 \in Nat
        BY SymbolArgs
    <2> QED
        BY SMTT(20), <2>1, SymbolFacts
<1> HIDE DEF a
<1>3. /\ symbols' \in Seq(SymbolRecords) /\ Ids \subseteq Ids' /\ Fresh = {n}
      /\ \A i \in Ids : symbols'[i] = symbols[i]
      /\ symbols'[n] = a
    BY <1>1, <1>2, Here, OneSymbol
<1>4. decls' = decls \cup
          {[scope |-> symbols'[i].scope, at |-> symbols'[i].from, wildcard |-> symbols'[i].kind = "star"] :
              i \in {i \in Fresh : symbols'[i].kind \in {"star", "explicit"}}}
    <2> DEFINE D(i) == [scope |-> symbols'[i].scope, at |-> symbols'[i].from,
                        wildcard |-> symbols'[i].kind = "star"]
    <2>1. D(n) = [scope |-> cur, at |-> at + 1, wildcard |-> TRUE] /\ symbols'[n].kind = "star"
        BY <1>2, <1>3
    <2> HIDE DEF D
    <2>2. {D(i) : i \in {i \in Fresh : symbols'[i].kind \in {"star", "explicit"}}} = {D(n)}
        BY <1>3, <2>1
    <2> QED
        BY <1>1, <2>1, <2>2 DEF D
<1>5. Added
    BY <1>1, <1>2, <1>3, <1>4, Here DEF Added
<1>6. Grows /\ Actives'
    BY <1>1, <1>2, <1>3, <1>5, Stays
<1>7. \A i \in Fresh : symbols'[i].kind # "global"
    BY <1>2, <1>3
<1> QED
    BY <1>1, <1>6, RefsSame, <1>7, GlobalsSame, StepSound

LEMMA OpenBlockSound ==
    ASSUME IInv, OpenBlock
    PROVE  IInv' /\ Grows
<1>1. /\ scopes' = Append(scopes, NewScope("block", cur, Len(scopes) + 1, at + 1))
      /\ cur' = Len(scopes) + 1 /\ stack' = Append(stack, Enclosing(active, FALSE, Self, 0))
      /\ at' = at + 1 /\ symbols' = symbols /\ refs' = refs /\ globals' = globals
      /\ decls' = decls /\ active' = active
    BY DEF OpenBlock
<1>2. symbols' \in Seq(SymbolRecords) /\ Ids' = Ids /\ Fresh = {}
    BY <1>1, Here, SymbolsSame
<1>3. Opened
    BY <1>1, <1>2, OneScope
<1>4. active \in SUBSET Nat
    BY Here
<1>5. stack' \in Seq(Entries) /\ \E e \in Entries : stack' = Append(stack, e) /\ e.scope = cur /\ e.active = active
    <2> DEFINE e == Enclosing(active, FALSE, Self, 0)
    <2>1. e \in Entries /\ e.scope = cur /\ e.active = active
        BY <1>4, Here DEF Enclosing, Entries
    <2>2. stack \in Seq(Entries) /\ stack' = Append(stack, e)
        BY <1>1, Here
    <2> HIDE DEF e
    <2> QED
        BY <2>1, <2>2, OneMore
<1>6. Added
    BY SMTT(20), <1>1, <1>2, Here, NoDeclarations DEF Added
<1>7. Grows /\ Actives'
    <2>1. {} \in SUBSET Fresh /\ active \cup {} = active
        OBVIOUS
    <2> QED
        BY <1>2, <1>3, <1>5, <1>6, <2>1, Opens
<1> QED
    BY <1>1, <1>7, RefsSame, <1>2, GlobalsSame, StepSound

LEMMA ParameterFacts ==
    ASSUME IInv, NEW name \in Names, NEW p, p = Parameter(name)
    PROVE  /\ p \in SymbolRecords /\ p.kind = "parameter" /\ p.scope = Len(scopes) + 1
           /\ p.from = at + 3 /\ p.env = active
<1>1. Types /\ Len(scopes) + 1 \in Nat /\ at + 3 \in Nat /\ "parameter" \in Kinds
    BY SymbolArgs, TypeFacts DEF IInv
<1> QED
    BY <1>1 DEF Parameter, Symbol, SymbolRecords, Types

LEMMA ResolveInIds ==
    ASSUME NEW name, NEW place, NEW s, s = Resolve(symbols, cur, name, place)
    PROVE  s \in Ids \cup {0}
BY DEF Resolve, Ids

LEMMA OpenForSound ==
    ASSUME Self \notin Names, IInv, NEW name \in Names, NEW init \in Names, OpenFor(name, init)
    PROVE  IInv' /\ Grows
<1> DEFINE a == Symbol(name, "local", Len(scopes) + 1, at + 2, at + 4)
           n == Len(symbols) + 1
           c == Len(scopes) + 1
<1>1. /\ symbols' = Append(symbols, a) /\ refs' = Append(refs, ReferenceIn(init, cur, at + 3, c))
      /\ active' = active \cup {n} /\ globals' = globals /\ decls' = decls
      /\ OpenTwo("block", active, FALSE, Self, 0)
    BY DEF OpenFor, ReferenceIn
<1>2. a \in SymbolRecords /\ a.kind = "local" /\ a.scope = c /\ a.from = at + 4 /\ a.env = active
    <2>1. /\ Types /\ "local" \in Kinds /\ at + 2 \in Nat /\ at + 4 \in Nat /\ c \in Nat
          /\ name \in Names \cup {Self}
        BY SymbolArgs, TypeFacts DEF IInv
    <2> QED
        BY <2>1 DEF Symbol, SymbolRecords, Types
<1> HIDE DEF a
<1>3. /\ symbols' \in Seq(SymbolRecords) /\ Ids \subseteq Ids' /\ Fresh = {n}
      /\ \A i \in Ids : symbols'[i] = symbols[i]
      /\ symbols'[n] = a
    BY <1>1, <1>2, Here, OneSymbol
<1>4. /\ Opened /\ Len(scopes) \in Nat /\ cur' = Len(scopes) + 2 /\ at' = at + 4
      /\ stack' \in Seq(Entries)
      /\ \E e \in Entries : stack' = Append(stack, e) /\ e.scope = cur /\ e.active = active
      /\ scopes'[c].up \cap DOMAIN scopes = scopes[cur].up
      /\ c \in scopes'[cur'].up /\ c \in DOMAIN scopes'
      /\ c \notin scopes[cur].up /\ cur < c
    <2>1. active \in SUBSET Nat /\ 0 \in Nat /\ FALSE \in BOOLEAN /\ Self \in Names \cup {Self}
        BY Here
    <2> QED
        BY <1>1, <1>3, <2>1, TwoScopes
<1>5. refs' \in Seq(RefRecords)
    <2>1. Types /\ at + 3 \in Nat /\ c \in Nat
        BY <1>4, SymbolArgs
    <2> QED
        BY <1>1, <2>1, RefersType
<1>6. Added
    <2>1. at' \in Nat /\ at < at' /\ globals' \in [Names -> Nat]
        BY SMTT(20), <1>1, <1>4, Here
    <2>2. /\ \A i \in Fresh : symbols'[i] = a
          /\ a.from <= at' /\ at < a.from
        BY SMTT(20), <1>2, <1>3, <1>4, Here
    <2>3. active' = active \cup {i \in Fresh : symbols'[i].kind # "global"}
        BY <1>1, <1>2, <1>3
    <2>4. \A i \in Fresh : symbols'[i].kind \notin {"star", "explicit"}
        BY <1>2, <2>2
    <2> QED
        BY <1>1, <1>2, <1>3, <1>5, <2>1, <2>2, <2>3, <2>4, NoDeclarations DEF Added
<1>7. Grows /\ Actives'
    <2>1. \A i \in Fresh : i = n /\ symbols'[i].scope = c
        BY <1>2, <1>3
    <2>2. c \in Nat /\ cur \in Nat /\ cur <= c /\ ~(c < c)
        BY SMTT(20), <1>4, Here
    <2>3. /\ {} \in SUBSET Fresh
          /\ \E e \in Entries : stack' = Append(stack, e) /\ e.scope = cur /\ e.active = active \cup {}
        BY <1>4
    <2>4. \A i, j \in Fresh : symbols'[i].scope < symbols'[j].scope => i < j
        BY <2>1, <2>2
    <2>5. \A i \in Fresh : symbols'[i].scope \in scopes'[cur'].up /\ cur < symbols'[i].scope
                            /\ cur <= symbols'[i].scope
        BY <1>4, <2>1, <2>2
    <2> QED
        BY <1>4, <1>6, <2>3, <2>4, <2>5, Opens
<1>8. \A k \in DOMAIN refs' : RefSound(refs[k])'
    <2>1. at + 3 \in Nat /\ at <= at + 3 /\ at + 3 <= at' /\ \A i \in Fresh : at + 3 < symbols'[i].from
        <3>1. \A i \in Fresh : symbols'[i].from = at + 4
            BY <1>2, <1>3
        <3> QED
            BY SMTT(20), <1>4, <3>1, Here
    <2> QED
        BY <1>1, <1>4, <1>7, <2>1, Refers
<1>9. \A i \in Fresh : symbols'[i].kind # "global"
    BY <1>2, <1>3
<1> QED
    BY <1>1, <1>7, <1>8, <1>9, GlobalsSame, StepSound

LEMMA DeclaredFunctionSound ==
    ASSUME IInv, NEW kind \in {"function", "explicit"}, NEW name \in Names, NEW param \in Names,
           DeclaredFunction(kind, name, param),
           decls' = IF kind = "explicit"
                    THEN decls \cup {[scope |-> cur, at |-> at + 1, wildcard |-> FALSE]} ELSE decls
    PROVE  IInv' /\ Grows
<1> DEFINE a == Symbol(name, kind, cur, at + 2, at + 1)
           p == Parameter(param)
           n == Len(symbols) + 1
           c == Len(scopes) + 1
<1>1. /\ symbols' = symbols \o <<a, p>> /\ active' = active \cup {n, n + 1}
      /\ refs' = refs /\ globals' = globals
      /\ OpenTwo("function", active \cup {n}, FALSE, Self, n)
    BY DEF DeclaredFunction
<1>2. a \in SymbolRecords /\ a.kind = kind /\ a.scope = cur /\ a.from = at + 1 /\ a.env = active
    <2>1. /\ Types /\ kind \in Kinds /\ at + 1 \in Nat /\ at + 2 \in Nat /\ cur \in Nat
          /\ name \in Names \cup {Self}
        BY SymbolArgs
    <2> QED
        BY <2>1 DEF Symbol, SymbolRecords, Types
<1>3. p \in SymbolRecords /\ p.kind = "parameter" /\ p.scope = c /\ p.from = at + 3 /\ p.env = active
    BY ParameterFacts
<1> HIDE DEF a, p
<1>4. /\ symbols' \in Seq(SymbolRecords) /\ Ids \subseteq Ids' /\ Fresh = {n, n + 1}
      /\ \A i \in Ids : symbols'[i] = symbols[i]
      /\ symbols'[n] = a /\ symbols'[n + 1] = p /\ n \in Nat
    <2>1. n + 1 = Len(symbols) + 2 /\ n \in Nat /\ Types
        BY Here
    <2> QED
        BY <1>1, <1>2, <1>3, <2>1, TwoSymbols
<1>5. /\ Opened /\ Len(scopes) \in Nat /\ cur' = Len(scopes) + 2 /\ at' = at + 4
      /\ stack' \in Seq(Entries)
      /\ \E e \in Entries : stack' = Append(stack, e) /\ e.scope = cur /\ e.active = active \cup {n}
      /\ c \in scopes'[cur'].up /\ cur < c
    <2>1. active \cup {n} \in SUBSET Nat /\ n \in Nat /\ n \in Ids' \cup {0}
          /\ FALSE \in BOOLEAN /\ Self \in Names \cup {Self}
        BY SMTT(20), <1>4, Here DEF Fresh
    <2> QED
        BY <1>1, <1>4, <2>1, TwoScopes
<1>6. decls' = decls \cup
          {[scope |-> symbols'[i].scope, at |-> symbols'[i].from, wildcard |-> symbols'[i].kind = "star"] :
              i \in {i \in Fresh : symbols'[i].kind \in {"star", "explicit"}}}
    <2>1. CASE kind = "function"
        BY <1>2, <1>3, <1>4, <2>1, NoDeclarations
    <2>2. CASE kind = "explicit"
        <3> DEFINE D(i) == [scope |-> symbols'[i].scope, at |-> symbols'[i].from,
                            wildcard |-> symbols'[i].kind = "star"]
        <3>1. D(n) = [scope |-> cur, at |-> at + 1, wildcard |-> FALSE] /\ symbols'[n].kind = "explicit"
              /\ symbols'[n + 1].kind = "parameter"
            BY <1>2, <1>3, <1>4, <2>2
        <3> HIDE DEF D
        <3>2. {D(i) : i \in {i \in Fresh : symbols'[i].kind \in {"star", "explicit"}}} = {D(n)}
            BY <1>4, <3>1
        <3> QED
            BY <2>2, <3>1, <3>2 DEF D
    <2> QED
        BY <2>1, <2>2
<1>7. Added
    <2>1. \A i \in Fresh : i = n \/ i = n + 1
        BY <1>4
    <2>2. refs' \in Seq(RefRecords) /\ globals' \in [Names -> Nat] /\ at \in Nat
        BY <1>1, Here
    <2>3. active' = active \cup {i \in Fresh : symbols'[i].kind # "global"}
        BY <1>1, <1>2, <1>3, <1>4
    <2>4. at' \in Nat /\ at < at' /\ at + 1 <= at' /\ at + 3 <= at' /\ at < at + 1 /\ at < at + 3
        BY SMTT(20), <1>5, <2>2
    <2>5. ASSUME NEW i \in Fresh
          PROVE  /\ symbols'[i].from <= at' /\ symbols'[i].env = active /\ at < symbols'[i].from
                 /\ symbols'[i].kind \notin {"self", "star"}
        <3>1. CASE i = n
            BY <1>2, <1>4, <2>4, <3>1
        <3>2. CASE i = n + 1
            BY <1>3, <1>4, <2>4, <3>2
        <3> QED
            BY <2>1, <3>1, <3>2
    <2> QED
        BY <1>4, <1>6, <2>2, <2>3, <2>4, <2>5 DEF Added
<1>8. Grows /\ Actives'
    <2>1. {n} \in SUBSET Fresh /\ \A i \in Fresh : i = n \/ i = n + 1
        BY <1>4
    <2>2. /\ symbols'[n].scope = cur /\ symbols'[n].kind # "global" /\ symbols'[n + 1].scope = c
          /\ n < n + 1
        BY <1>2, <1>3, <1>4
    <2>3. c \in Nat /\ cur \in Nat /\ cur <= c /\ cur <= cur /\ cur \in scopes'[cur'].up /\ ~(c < cur) /\ ~(cur < cur) /\ ~(c < c)
        BY SMTT(20), <1>5, Here DEF Opened
    <2>4. \A i, j \in Fresh : symbols'[i].scope < symbols'[j].scope => i < j
        BY <2>1, <2>2, <2>3
    <2> QED
        BY <1>5, <1>7, <2>1, <2>2, <2>3, <2>4, Opens
<1>9. \A i \in Fresh : symbols'[i].kind # "global"
    BY <1>2, <1>3, <1>4
<1> QED
    BY <1>1, <1>8, RefsSame, <1>9, GlobalsSame, StepSound

LEMMA NamedFunctionSound ==
    ASSUME IInv, NEW name \in Names, NEW param \in Names,
           LocalFunction(name, param) \/ GlobalFunction(name, param)
    PROVE  IInv' /\ Grows
<1>1. CASE LocalFunction(name, param)
    <2>1. DeclaredFunction("function", name, param) /\ decls' = decls
        BY <1>1, Zenon DEF LocalFunction
    <2> QED
        BY <2>1, DeclaredFunctionSound
<1>2. CASE GlobalFunction(name, param)
    <2>1. /\ DeclaredFunction("explicit", name, param)
          /\ decls' = decls \cup {[scope |-> cur, at |-> at + 1, wildcard |-> FALSE]}
        BY <1>2, Zenon DEF GlobalFunction
    <2> QED
        BY <2>1, DeclaredFunctionSound
<1> QED
    BY <1>1, <1>2

LEMMA OpenInitializerSound ==
    ASSUME IInv, NEW name \in Names, NEW param \in Names, OpenInitializer(name, param)
    PROVE  IInv' /\ Grows
<1> DEFINE p == Parameter(param)
           n == Len(symbols) + 1
           c == Len(scopes) + 1
<1>1. /\ symbols' = Append(symbols, p) /\ active' = active \cup {n}
      /\ refs' = refs /\ globals' = globals /\ decls' = decls
      /\ OpenTwo("function", active, TRUE, name, 0)
    BY DEF OpenInitializer
<1>2. p \in SymbolRecords /\ p.kind = "parameter" /\ p.scope = c /\ p.from = at + 3 /\ p.env = active
    BY ParameterFacts
<1> HIDE DEF p
<1>3. /\ symbols' \in Seq(SymbolRecords) /\ Ids \subseteq Ids' /\ Fresh = {n}
      /\ \A i \in Ids : symbols'[i] = symbols[i]
      /\ symbols'[n] = p
    BY <1>1, <1>2, Here, OneSymbol
<1>4. /\ Opened /\ Len(scopes) \in Nat /\ at' = at + 4 /\ stack' \in Seq(Entries)
      /\ \E e \in Entries : stack' = Append(stack, e) /\ e.scope = cur /\ e.active = active
      /\ c \in scopes'[cur'].up /\ cur < c
    <2>1. active \in SUBSET Nat /\ 0 \in Nat /\ TRUE \in BOOLEAN /\ name \in Names \cup {Self}
        BY Here
    <2> QED
        BY <1>1, <1>3, <2>1, TwoScopes
<1>5. Added
    <2>1. at' \in Nat /\ at < at' /\ globals' \in [Names -> Nat] /\ refs' \in Seq(RefRecords)
        BY SMTT(20), <1>1, <1>4, Here
    <2>2. /\ \A i \in Fresh : symbols'[i] = p
          /\ p.from <= at' /\ at < p.from
        BY SMTT(20), <1>2, <1>3, <1>4, Here
    <2>3. active' = active \cup {i \in Fresh : symbols'[i].kind # "global"}
        BY <1>1, <1>2, <1>3
    <2>4. \A i \in Fresh : symbols'[i].kind \notin {"star", "explicit"}
        BY <1>2, <2>2
    <2> QED
        BY <1>1, <1>2, <1>3, <2>1, <2>2, <2>3, <2>4, NoDeclarations DEF Added
<1>6. Grows /\ Actives'
    <2>1. \A i \in Fresh : i = n /\ symbols'[i].scope = c
        BY <1>2, <1>3
    <2>2. c \in Nat /\ cur \in Nat /\ cur <= c /\ ~(c < c)
        BY SMTT(20), <1>4, Here
    <2>3. /\ {} \in SUBSET Fresh
          /\ \E e \in Entries : stack' = Append(stack, e) /\ e.scope = cur /\ e.active = active \cup {}
        BY <1>4
    <2>4. \A i, j \in Fresh : symbols'[i].scope < symbols'[j].scope => i < j
        BY <2>1, <2>2
    <2>5. \A i \in Fresh : symbols'[i].scope \in scopes'[cur'].up /\ cur < symbols'[i].scope
                            /\ cur <= symbols'[i].scope
        BY <1>4, <2>1, <2>2
    <2> QED
        BY <1>4, <1>5, <2>3, <2>4, <2>5, Opens
<1>7. \A i \in Fresh : symbols'[i].kind # "global"
    BY <1>2, <1>3
<1> QED
    BY <1>1, <1>6, RefsSame, <1>7, GlobalsSame, StepSound

LEMMA FunctionStatementSound ==
    ASSUME Self \notin Names, IInv, NEW name \in Names, NEW param \in Names,
           FunctionStatement(name, param)
    PROVE  IInv' /\ Grows
<1> DEFINE a == Symbol(name, "global", cur, at + 2, 0)
           p == Parameter(param)
           n == Len(symbols) + 1
           c == Len(scopes) + 1
           s == Resolve(symbols, cur, name, at + 2)
           d == Defines(name, at + 2)
<1>1. p \in SymbolRecords /\ p.kind = "parameter" /\ p.scope = c /\ p.from = at + 3 /\ p.env = active
    BY ParameterFacts
<1>2. a \in SymbolRecords /\ a.kind = "global" /\ a.scope = cur /\ a.from = 0 /\ a.env = active /\ a.name = name
    <2>1. /\ Types /\ "global" \in Kinds /\ 0 \in Nat /\ at + 2 \in Nat /\ cur \in Nat
          /\ name \in Names \cup {Self}
        BY SymbolArgs
    <2> QED
        BY <2>1 DEF Symbol, SymbolRecords, Types
<1>3. active \in SUBSET Nat /\ FALSE \in BOOLEAN /\ Self \in Names \cup {Self} /\ n \in Nat /\ Types
    BY Here
<1> HIDE DEF a, p
<1>4. CASE d
    <2>1. /\ symbols' = symbols \o <<a, p>> /\ globals' = [globals EXCEPT ![name] = n]
          /\ active' = active \cup {n + 1} /\ refs' = refs /\ decls' = decls
          /\ OpenTwo("function", active, FALSE, Self, n)
        BY <1>4 DEF FunctionStatement, a, p
    <2>2. /\ symbols' \in Seq(SymbolRecords) /\ Ids \subseteq Ids' /\ Fresh = {n, n + 1}
          /\ \A i \in Ids : symbols'[i] = symbols[i]
          /\ symbols'[n] = a /\ symbols'[n + 1] = p
        <3>1. n + 1 = Len(symbols) + 2
            BY Here
        <3> QED
            BY <1>1, <1>2, <1>3, <2>1, <3>1, TwoSymbols
    <2>3. /\ Opened /\ Len(scopes) \in Nat /\ at' = at + 4 /\ stack' \in Seq(Entries)
          /\ \E e \in Entries : stack' = Append(stack, e) /\ e.scope = cur /\ e.active = active
          /\ c \in scopes'[cur'].up /\ cur < c
        <3>1. n \in Ids' \cup {0}
            BY <2>2 DEF Fresh
        <3> QED
            BY <1>3, <2>1, <2>2, <3>1, TwoScopes
    <2>4. Added
        <3>1. /\ at' \in Nat /\ at < at' /\ 0 <= at' /\ at + 3 <= at' /\ at < at + 3
              /\ globals' \in [Names -> Nat] /\ refs' \in Seq(RefRecords)
            BY SMTT(20), <1>3, <2>1, <2>3, Here
        <3>2. \A i \in Fresh : symbols'[i] = a \/ symbols'[i] = p
            BY <2>2
        <3>3. active' = active \cup {i \in Fresh : symbols'[i].kind # "global"}
            BY <1>1, <1>2, <2>1, <2>2
        <3>4. \A i \in Fresh : symbols'[i].kind \notin {"star", "explicit"}
            BY <1>1, <1>2, <3>2
        <3> QED
            BY <1>1, <1>2, <2>1, <2>2, <3>1, <3>2, <3>3, <3>4, NoDeclarations DEF Added
    <2>5. Grows /\ Actives'
        <3>1. /\ \A i \in Fresh : i = n \/ i = n + 1
              /\ symbols'[n].scope = cur /\ symbols'[n].kind = "global" /\ symbols'[n + 1].scope = c
              /\ n < n + 1
            BY <1>1, <1>2, <1>3, <2>2
        <3>2. /\ c \in Nat /\ cur \in Nat /\ cur <= c /\ cur <= cur /\ cur \in scopes'[cur'].up
              /\ ~(c < cur) /\ ~(cur < cur) /\ ~(c < c)
            BY SMTT(20), <2>3, Here DEF Opened
        <3>3. /\ {} \in SUBSET Fresh
              /\ \E e \in Entries : stack' = Append(stack, e) /\ e.scope = cur /\ e.active = active \cup {}
            BY <2>3
        <3>4. \A i, j \in Fresh : symbols'[i].scope < symbols'[j].scope => i < j
            BY <3>1, <3>2
        <3>5. \A i \in Fresh : /\ symbols'[i].scope \in scopes'[cur'].up /\ cur <= symbols'[i].scope
                               /\ symbols'[i].kind # "global" => cur < symbols'[i].scope
            BY <2>3, <3>1, <3>2
        <3> QED
            BY <2>3, <2>4, <3>3, <3>4, <3>5, Opens
    <2>6. GlobalsSound'
        <3>1. n \in Ids' /\ symbols'[n].kind = "global" /\ symbols'[n].name = name
              /\ \A i \in Fresh \ {n} : symbols'[i].kind # "global"
            BY <1>1, <1>2, <2>2 DEF Fresh
        <3> QED
            BY <2>1, <2>5, <3>1, OneGlobal
    <2> QED
        BY <2>1, <2>5, <2>6, RefsSame, StepSound
<1>5. CASE ~d
    <2>1. /\ symbols' = Append(symbols, p) /\ globals' = globals
          /\ active' = active \cup {n} /\ decls' = decls
          /\ refs' = IF s = 0 THEN refs ELSE Append(refs, Reference(name, cur, at + 2))
          /\ OpenTwo("function", active, FALSE, Self, s)
        BY <1>5 DEF FunctionStatement, p
    <2>2. /\ symbols' \in Seq(SymbolRecords) /\ Ids \subseteq Ids' /\ Fresh = {n}
          /\ \A i \in Ids : symbols'[i] = symbols[i]
          /\ symbols'[n] = p
        BY <1>1, <1>3, <2>1, OneSymbol
    <2>3. s \in Ids \cup {0}
        BY ResolveInIds
    <2> HIDE DEF s
    <2>4. /\ Opened /\ Len(scopes) \in Nat /\ at' = at + 4 /\ stack' \in Seq(Entries)
          /\ \E e \in Entries : stack' = Append(stack, e) /\ e.scope = cur /\ e.active = active
          /\ c \in scopes'[cur'].up /\ c \notin scopes[cur].up /\ cur < c
        <3>1. s \in Ids' \cup {0} /\ s \in Nat
            BY <2>2, <2>3, Here
        <3> QED
            BY <1>3, <2>1, <2>2, <3>1, TwoScopes
    <2>5. refs' \in Seq(RefRecords)
        <3>1. at + 2 \in Nat /\ refs \in Seq(RefRecords)
            BY Here
        <3> QED
            BY <2>1, <3>1, RefersHereType
    <2>6. Added
        <3>1. /\ at' \in Nat /\ at < at' /\ at + 3 <= at' /\ at < at + 3 /\ globals' \in [Names -> Nat]
            BY SMTT(20), <1>3, <2>1, <2>4, Here
        <3>2. \A i \in Fresh : symbols'[i] = p
            BY <2>2
        <3>3. active' = active \cup {i \in Fresh : symbols'[i].kind # "global"}
            BY <1>1, <2>1, <2>2
        <3>4. \A i \in Fresh : symbols'[i].kind \notin {"star", "explicit"}
            BY <1>1, <3>2
        <3> QED
            BY <1>1, <2>1, <2>2, <2>5, <3>1, <3>2, <3>3, <3>4, NoDeclarations DEF Added
    <2>7. Grows /\ Actives'
        <3>1. \A i \in Fresh : i = n /\ symbols'[i].scope = c
            BY <1>1, <2>2
        <3>2. c \in Nat /\ cur \in Nat /\ cur <= c /\ ~(c < c)
            BY SMTT(20), <2>4, Here
        <3>3. /\ {} \in SUBSET Fresh
              /\ \E e \in Entries : stack' = Append(stack, e) /\ e.scope = cur /\ e.active = active \cup {}
            BY <2>4
        <3>4. \A i, j \in Fresh : symbols'[i].scope < symbols'[j].scope => i < j
            BY <3>1, <3>2
        <3>5. \A i \in Fresh : symbols'[i].scope \in scopes'[cur'].up /\ cur < symbols'[i].scope
                                /\ cur <= symbols'[i].scope
            BY <2>4, <3>1, <3>2
        <3> QED
            BY <2>4, <2>6, <3>3, <3>4, <3>5, Opens
    <2>8. \A k \in DOMAIN refs' : RefSound(refs[k])'
        <3>1. CASE s = 0
            BY <2>1, <2>7, <3>1, RefsSame
        <3>2. CASE s # 0
            <4>1. at + 2 \in Nat /\ at <= at + 2 /\ at + 2 <= at'
                BY SMTT(20), <2>4, Here
            <4>2. \A i \in Fresh : symbols'[i].scope \notin scopes[cur].up
                BY <1>1, <2>2, <2>4
            <4> QED
                BY <2>1, <2>7, <3>2, <4>1, <4>2, RefersHere
        <3> QED
            BY <3>1, <3>2
    <2>9. \A i \in Fresh : symbols'[i].kind # "global"
        BY <1>1, <2>2
    <2> QED
        BY <2>1, <2>7, <2>8, <2>9, GlobalsSame, StepSound
<1> QED
    BY <1>4, <1>5

LEMMA MethodSound ==
    ASSUME Self \notin Names, IInv, NEW name \in Names, NEW param \in Names, Method(name, param)
    PROVE  IInv' /\ Grows
<1> DEFINE n == Len(symbols) + 1
           c == Len(scopes) + 1
           a == Symbol(Self, "self", c, at + 2, at + 2)
           p == Parameter(param)
<1>1. /\ symbols' = symbols \o <<a, p>> /\ active' = active \cup {n, n + 1}
      /\ refs' = Append(refs, Reference(name, cur, at + 2)) /\ globals' = globals /\ decls' = decls
      /\ OpenTwo("function", active, FALSE, Self, 0)
    BY DEF Method
<1>2. p \in SymbolRecords /\ p.kind = "parameter" /\ p.scope = c /\ p.from = at + 3 /\ p.env = active
    BY ParameterFacts
<1>3. /\ a \in SymbolRecords /\ a.kind = "self" /\ a.scope = c /\ a.from = at + 2 /\ a.env = active
      /\ a.name = Self
    <2>1. Types /\ "self" \in Kinds /\ c \in Nat /\ at + 2 \in Nat /\ Self \in Names \cup {Self}
        BY SymbolArgs, TypeFacts
    <2> QED
        BY <2>1 DEF Symbol, SymbolRecords, Types
<1> HIDE DEF a, p
<1>4. /\ symbols' \in Seq(SymbolRecords) /\ Ids \subseteq Ids' /\ Fresh = {n, n + 1}
      /\ \A i \in Ids : symbols'[i] = symbols[i]
      /\ symbols'[n] = a /\ symbols'[n + 1] = p
    <2>1. n + 1 = Len(symbols) + 2 /\ Types
        BY Here
    <2> QED
        BY <1>1, <1>2, <1>3, <2>1, TwoSymbols
<1>5. /\ Opened /\ Len(scopes) \in Nat /\ at' = at + 4 /\ stack' \in Seq(Entries)
      /\ \E e \in Entries : stack' = Append(stack, e) /\ e.scope = cur /\ e.active = active
      /\ c \in scopes'[cur'].up /\ c \notin scopes[cur].up /\ cur < c
    <2>1. active \in SUBSET Nat /\ 0 \in Nat /\ FALSE \in BOOLEAN /\ Self \in Names \cup {Self}
        BY Here
    <2> QED
        BY <1>1, <1>4, <2>1, TwoScopes
<1>6. refs' \in Seq(RefRecords)
    <2>1. at + 2 \in Nat
        BY Here
    <2> QED
        BY <1>1, <2>1, RefersHereType
<1>7. Added
    <2>1. /\ at' \in Nat /\ at < at' /\ at + 2 <= at' /\ at + 3 <= at' /\ at < at + 2 /\ at < at + 3
          /\ globals' \in [Names -> Nat]
        <3>1. at \in Nat /\ at' = at + 4 /\ globals' \in [Names -> Nat]
            BY <1>1, <1>5, Here
        <3> QED
            BY <3>1
    <2>2. \A i \in Fresh : symbols'[i] = a \/ symbols'[i] = p
        BY <1>4
    <2>3. active' = active \cup {i \in Fresh : symbols'[i].kind # "global"}
        BY <1>1, <1>2, <1>3, <1>4
    <2>4. \A i \in Fresh : symbols'[i].kind \notin {"star", "explicit"}
        BY <1>2, <1>3, <2>2
    <2> QED
        BY <1>1, <1>2, <1>3, <1>4, <1>6, <2>1, <2>2, <2>3, <2>4, NoDeclarations DEF Added
<1>8. \A i \in Fresh : symbols'[i].scope = c
    BY <1>2, <1>3, <1>4
<1>9. Grows /\ Actives'
    <2>1. c \in Nat /\ cur \in Nat /\ cur <= c /\ ~(c < c)
        BY <1>5, Here
    <2>2. /\ {} \in SUBSET Fresh
          /\ \E e \in Entries : stack' = Append(stack, e) /\ e.scope = cur /\ e.active = active \cup {}
        BY <1>5
    <2>3. \A i, j \in Fresh : symbols'[i].scope < symbols'[j].scope => i < j
        BY <1>8, <2>1
    <2>4. \A i \in Fresh : symbols'[i].scope \in scopes'[cur'].up /\ cur < symbols'[i].scope
                            /\ cur <= symbols'[i].scope
        BY <1>5, <1>8, <2>1
    <2> QED
        BY <1>5, <1>7, <2>2, <2>3, <2>4, Opens
<1>10. \A k \in DOMAIN refs' : RefSound(refs[k])'
    <2>1. at + 2 \in Nat /\ at <= at + 2 /\ at + 2 <= at'
        BY <1>5, Here
    <2>2. \A i \in Fresh : symbols'[i].scope \notin scopes[cur].up
        BY <1>5, <1>8
    <2> QED
        BY <1>1, <1>9, <2>1, <2>2, RefersHere
<1>11. \A i \in Fresh : symbols'[i].kind # "global"
    BY <1>2, <1>3, <1>4
<1> QED
    BY <1>1, <1>9, <1>10, <1>11, GlobalsSame, StepSound

\* What Close records that a scope has ended does not change the tree.
LEMMA EndedScopes ==
    ASSUME IInv, Ids \subseteq Ids', NEW t \in DOMAIN scopes, cur' = t, NEW Ended \in SUBSET Nat,
           scopes' = [s \in DOMAIN scopes |->
                        IF s \in Ended THEN [scopes[s] EXCEPT !.end = at + 1] ELSE scopes[s]]
    PROVE  /\ scopes' \in Seq(ScopeRecords) /\ cur' \in Nat /\ Tree' /\ DOMAIN scopes' = DOMAIN scopes
           /\ \A s \in DOMAIN scopes : scopes'[s].up = scopes[s].up
<1>1. /\ scopes \in Seq(ScopeRecords) /\ Len(scopes) \in Nat /\ DOMAIN scopes = 1 .. Len(scopes)
      /\ at \in Nat /\ at + 1 \in Nat
    BY TypeFacts DEF IInv, Types
<1>2. \A s \in DOMAIN scopes :
          s \in scopes[s].up /\ scopes[s].up \subseteq 1 .. s /\ scopes[s].owner \in Ids \cup {0}
    BY DEF IInv, Tree
<1>3. DOMAIN scopes' = DOMAIN scopes
    OBVIOUS
<1>4. ASSUME NEW s \in DOMAIN scopes
      PROVE  /\ scopes'[s] \in ScopeRecords /\ scopes'[s].up = scopes[s].up
             /\ scopes'[s].owner = scopes[s].owner
    <2>1. scopes[s] \in ScopeRecords
        BY <1>1
    <2>2. scopes'[s] = IF s \in Ended THEN [scopes[s] EXCEPT !.end = at + 1] ELSE scopes[s]
        OBVIOUS
    <2> QED
        BY <1>1, <2>1, <2>2 DEF ScopeRecords
<1>5. scopes' \in Seq(ScopeRecords)
    <2>1. scopes' \in [1 .. Len(scopes) -> ScopeRecords]
        BY <1>1, <1>4
    <2> QED
        BY <1>1, <2>1
<1>6. Tree'
    BY <1>2, <1>3, <1>4 DEF Tree
<1> QED
    BY <1>1, <1>3, <1>4, <1>5, <1>6

LEMMA CloseSound ==
    ASSUME IInv, Close
    PROVE  IInv' /\ Grows
<1> DEFINE top == stack[Len(stack)]
           n == Len(symbols) + 1
           a == [Symbol(top.name, "local", top.scope, top.start, at + 1) EXCEPT !.env = top.active]
           Ended == scopes[cur].up \ scopes[top.scope].up
<1>1. /\ stack # <<>> /\ cur' = top.scope /\ at' = at + 1
      /\ scopes' = [s \in DOMAIN scopes |->
                      IF s \in Ended THEN [scopes[s] EXCEPT !.end = at + 1] ELSE scopes[s]]
      /\ symbols' = IF top.declares THEN Append(symbols, a) ELSE symbols
      /\ active' = IF top.declares THEN top.active \cup {n} ELSE top.active
      /\ stack' = SubSeq(stack, 1, Len(stack) - 1)
      /\ refs' = refs /\ globals' = globals /\ decls' = decls
    BY DEF Close
<1>2. /\ stack \in Seq(Entries) /\ Len(stack) \in Nat \ {0} /\ Len(stack) \in DOMAIN stack
      /\ DOMAIN stack = 1 .. Len(stack) /\ top \in Entries
    BY <1>1, Here
<1>3. /\ top.scope \in DOMAIN scopes /\ top.scope \in Nat /\ top.active \in SUBSET Nat
      /\ Sees(top.active, top.scope) /\ Ordered(top.active)
    BY <1>2 DEF IInv, Actives, Entries
<1>4. /\ a \in SymbolRecords /\ a.kind = "local" /\ a.scope = top.scope /\ a.from = at + 1
      /\ a.env = top.active
    <2>1. /\ top.name \in Names \cup {Self} /\ top.start \in Nat /\ at + 1 \in Nat /\ "local" \in Kinds
          /\ Types
        BY <1>2, SymbolArgs DEF Entries
    <2>2. Symbol(top.name, "local", top.scope, top.start, at + 1) =
            [name |-> top.name, kind |-> "local", scope |-> top.scope, start |-> top.start,
             from |-> at + 1, env |-> active]
        BY DEF Symbol
    <2> QED
        BY SMTT(20), <1>3, <2>1, <2>2 DEF SymbolRecords
<1> HIDE DEF a
<1>5. /\ symbols' \in Seq(SymbolRecords) /\ Ids \subseteq Ids' /\ Fresh \subseteq {n}
      /\ \A i \in Ids : symbols'[i] = symbols[i]
      /\ \A i \in Fresh : symbols'[i] = a
      /\ active' = top.active \cup Fresh
    <2>1. CASE top.declares
        <3>1. /\ symbols' \in Seq(SymbolRecords) /\ Ids \subseteq Ids' /\ Fresh = {n}
              /\ \A i \in Ids : symbols'[i] = symbols[i]
              /\ symbols'[n] = a
            BY <1>1, <1>4, <2>1, Here, OneSymbol
        <3> QED
            BY <1>1, <2>1, <3>1
    <2>2. CASE ~top.declares
        <3>1. symbols' = symbols /\ active' = top.active
            BY <1>1, <2>2
        <3>2. symbols' \in Seq(SymbolRecords) /\ Ids' = Ids /\ Fresh = {}
            BY <3>1, Here, SymbolsSame
        <3> QED
            BY <3>1, <3>2
    <2> QED
        BY <2>1, <2>2
<1>6. /\ scopes' \in Seq(ScopeRecords) /\ cur' \in Nat /\ Tree' /\ DOMAIN scopes' = DOMAIN scopes
      /\ \A s \in DOMAIN scopes : scopes'[s].up = scopes[s].up
    <2>1. Ended \in SUBSET Nat
        <3>1. DOMAIN scopes \subseteq Nat /\ scopes[cur].up \subseteq 1 .. cur
            BY Here, TypeFacts DEF IInv, Tree
        <3> QED
            BY <3>1
    <2> HIDE DEF Ended
    <2> QED
        BY <1>1, <1>3, <1>5, <2>1, EndedScopes
<1>7. /\ stack' \in Seq(Entries) /\ DOMAIN stack' = 1 .. (Len(stack) - 1)
      /\ \A l \in DOMAIN stack' : l \in DOMAIN stack /\ l < Len(stack) /\ stack'[l] = stack[l]
    BY <1>1, <1>2
<1>8. Types'
    <2>1. /\ at' \in Nat /\ refs' \in Seq(RefRecords) /\ globals' \in [Names -> Nat]
        BY SMTT(20), <1>1, Here
    <2>2. active' \in SUBSET Nat
        <3>1. n \in Nat
            BY Here
        <3> HIDE DEF top, n
        <3> QED
            BY <1>3, <1>5, <3>1
    <2> QED
        BY <1>5, <1>6, <1>7, <2>1, <2>2 DEF Types
<1>9. Grows
    <2>1. at < at' /\ at + 1 <= at' /\ at < at + 1
        BY <1>1, Here
    <2>2. top.active \subseteq Ids'
        BY <1>3, <1>5 DEF Sees
    <2>3. decls' = decls \cup
            {[scope |-> symbols'[i].scope, at |-> symbols'[i].from, wildcard |-> symbols'[i].kind = "star"] :
                i \in {i \in Fresh : symbols'[i].kind \in {"star", "explicit"}}}
        BY <1>1, <1>4, <1>5, NoDeclarations
    <2> QED
        BY <1>3, <1>4, <1>5, <1>6, <1>8, <2>1, <2>2, <2>3 DEF Grows
<1>10. Sees(active, cur)' /\ Ordered(active)'
    <2>1. ASSUME NEW A, NEW t, NEW F, NEW B, A = top.active, t = top.scope, F = Fresh, B = A \cup F
          PROVE  Sees(B, t)' /\ Ordered(B)'
        <3>1. t \in DOMAIN scopes /\ t \in DOMAIN scopes' /\ Sees(A, t) /\ Ordered(A) /\ t <= t
              /\ scopes'[t].up \cap DOMAIN scopes = scopes[t].up /\ t \in scopes'[t].up /\ ~(t < t)
            BY <1>3, <1>9, <2>1, TreeFacts
        <3>2. \A i \in Fresh : symbols'[i].kind = "local" /\ symbols'[i].scope = t
            BY <1>4, <1>5, <2>1
        <3>3. Sees(A \cup F, t)' /\ Ordered(A \cup F)'
            BY <1>9, <2>1, <3>1, <3>2, SeesMore
        <3> QED
            BY <2>1, <3>3 DEF Sees, Ordered
    <2> HIDE DEF top
    <2>2. ASSUME NEW B, NEW t, B = active', t = cur'
          PROVE  Sees(B, t)' /\ Ordered(B)'
        BY <1>1, <1>5, <2>1, <2>2
    <2> QED
        BY <2>2 DEF Sees, Ordered
<1>11. ASSUME NEW l \in DOMAIN stack'
       PROVE  /\ stack'[l].scope < cur'
              /\ \A A, s : A = stack'[l].active /\ s = stack'[l].scope =>
                            s \in DOMAIN scopes' /\ Sees(A, s)' /\ Ordered(A)'
    <2>1. l \in DOMAIN stack /\ l < Len(stack) /\ stack'[l] = stack[l]
        BY <1>7
    <2>2. stack[l].scope < top.scope
        BY <1>2, <2>1 DEF IInv, Actives
    <2>3. \A i \in Fresh : symbols'[i].kind # "global" => top.scope <= symbols'[i].scope
        BY <1>3, <1>4, <1>5
    <2>4. \A A, s : A = stack[l].active /\ s = stack[l].scope =>
                    s \in DOMAIN scopes' /\ Sees(A, s)' /\ Ordered(A)'
        BY <1>3, <1>9, <2>1, <2>2, <2>3, EntryKept
    <2> QED
        BY <1>1, <2>1, <2>2, <2>4
<1>12. \A l, m \in DOMAIN stack' : l < m => stack'[l].scope < stack'[m].scope
    BY <1>7 DEF IInv, Actives
<1>13. Actives'
    BY <1>10, <1>11, <1>12 DEF Actives, Sees, Ordered
<1> QED
    BY <1>1, <1>9, <1>13, RefsSame, <1>4, <1>5, GlobalsSame, StepSound

-----------------------------------------------------------------------------
(* The invariant.                                                          *)

LEMMA InitInv == Init => IInv
<1> SUFFICES ASSUME Init
             PROVE  IInv
    OBVIOUS
<1> DEFINE chunk == [kind |-> "chunk", up |-> {1}, start |-> 0, end |-> 0, owner |-> 0]
<1>1. /\ at = 0 /\ cur = 1 /\ scopes = <<chunk>> /\ symbols = <<>> /\ refs = <<>>
      /\ globals = [n \in Names |-> 0] /\ decls = {} /\ active = {} /\ stack = <<>>
    BY DEF Init
<1>2. chunk \in ScopeRecords /\ chunk.up = {1} /\ chunk.owner = 0
    BY DEF ScopeRecords
<1> HIDE DEF chunk
<1>3. scopes \in Seq(ScopeRecords) /\ DOMAIN scopes = {1} /\ scopes[1] = chunk
    BY <1>1, <1>2
<1>4. Ids = {} /\ DOMAIN refs = {} /\ DOMAIN stack = {}
    BY <1>1 DEF Ids
<1>5. Types
    BY <1>1, <1>3 DEF Types
<1>6. Tree
    BY <1>1, <1>2, <1>3 DEF Tree
<1>7. SymbolsSound /\ Declarations /\ GlobalsSound
    BY <1>1, <1>4 DEF SymbolsSound, Declarations, GlobalsSound
<1>8. Actives
    BY <1>1, <1>4 DEF Actives, Sees, Ordered
<1> QED
    BY <1>4, <1>5, <1>6, <1>7, <1>8 DEF IInv

LEMMA NextInv ==
    ASSUME Self \notin Names, IInv, [Next]_vars
    PROVE  IInv'
<1>1. ASSUME NEW x \in Names, Identifier(x) \/ Assignment(x)
      PROVE  IInv'
    BY <1>1, IdentifierSound, AssignmentSound
<1>2. ASSUME NEW x \in Names, NEW y \in Names, Local(x, y)
      PROVE  IInv'
    BY <1>2, VariableDeclarationSound DEF Local
<1>3. ASSUME NEW x \in Names, NEW y \in Names, GlobalStatement(x, y)
      PROVE  IInv'
    BY <1>3, VariableDeclarationSound DEF GlobalStatement
<1>4. ASSUME GlobalStar \/ OpenBlock \/ Close
      PROVE  IInv'
    BY <1>4, GlobalStarSound, OpenBlockSound, CloseSound
<1>5. ASSUME NEW x \in Names, NEW y \in Names, OpenFor(x, y) \/ OpenInitializer(x, y)
      PROVE  IInv'
    BY <1>5, OpenForSound, OpenInitializerSound
<1>6. ASSUME NEW x \in Names, NEW y \in Names, LocalFunction(x, y) \/ GlobalFunction(x, y)
      PROVE  IInv'
    BY <1>6, NamedFunctionSound
<1>7. ASSUME NEW x \in Names, NEW y \in Names, FunctionStatement(x, y) \/ Method(x, y)
      PROVE  IInv'
    BY <1>7, FunctionStatementSound, MethodSound
<1>8. CASE UNCHANGED vars
    <2>1. /\ at' = at /\ cur' = cur /\ scopes' = scopes /\ symbols' = symbols /\ refs' = refs
          /\ globals' = globals /\ decls' = decls /\ active' = active /\ stack' = stack /\ Ids' = Ids
        BY <1>8 DEF vars, Ids
    <2>2. Types' /\ Tree' /\ SymbolsSound'
        BY <2>1 DEF IInv, Types, Tree, SymbolsSound
    <2>3. Actives'
        BY <2>1 DEF IInv, Actives, Sees, Ordered
    <2>4. Declarations' /\ GlobalsSound'
        BY <2>1 DEF IInv, Declarations, GlobalsSound
    <2>5. \A k \in DOMAIN refs' : RefSound(refs[k])'
        BY <2>1 DEF IInv, RefSound, RefSees, RefBound, Ordered
    <2> QED
        BY <2>2, <2>3, <2>4, <2>5 DEF IInv
<1> QED
    BY <1>1, <1>2, <1>3, <1>4, <1>5, <1>6, <1>7, <1>8 DEF Next

LEMMA Invariance ==
    ASSUME Self \notin Names
    PROVE  Spec => []IInv
<1>1. IInv /\ [Next]_vars => IInv'
    BY NextInv
<1> QED
    BY <1>1, InitInv, PTL DEF Spec

-----------------------------------------------------------------------------
(* The properties.                                                         *)

LEMMA TypesHold ==
    ASSUME IInv
    PROVE  TypeOK
<1>1. /\ at \in Nat /\ cur \in DOMAIN scopes
      /\ scopes \in Seq(ScopeRecords) /\ symbols \in Seq(SymbolRecords) /\ refs \in Seq(RefRecords)
      /\ DOMAIN scopes = 1 .. Len(scopes) /\ Ids = 1 .. Len(symbols) /\ DOMAIN refs = 1 .. Len(refs)
      /\ stack \in Seq(Entries) /\ DOMAIN stack = 1 .. Len(stack) /\ Len(scopes) \in Nat
    <2>1. /\ Types /\ at \in Nat /\ cur \in DOMAIN scopes
          /\ symbols \in Seq(SymbolRecords) /\ refs \in Seq(RefRecords) /\ stack \in Seq(Entries)
        BY Here
    <2>2. scopes \in Seq(ScopeRecords)
        BY DEF IInv, Types
    <2> QED
        BY <2>1, <2>2, TypeFacts
<1>2. active \subseteq Ids
    BY Here
<1>3. scopes \in Seq([kind : {"chunk", "block", "function"}, up : SUBSET DOMAIN scopes,
                      start : Nat, end : Nat, owner : Ids \cup {0}])
    <2>1. ASSUME NEW s \in 1 .. Len(scopes)
          PROVE  scopes[s] \in [kind : {"chunk", "block", "function"}, up : SUBSET DOMAIN scopes,
                                start : Nat, end : Nat, owner : Ids \cup {0}]
        <3>1. scopes[s] \in ScopeRecords
            BY <1>1
        <3>2. scopes[s].up \subseteq DOMAIN scopes /\ scopes[s].owner \in Ids \cup {0}
            BY SMTT(20), <1>1 DEF IInv, Tree
        <3> QED
            BY <3>1, <3>2 DEF ScopeRecords
    <2> QED
        BY <1>1, <2>1, SeqOf
<1>4. symbols \in Seq([name : Names \cup {Self}, kind : Kinds, scope : DOMAIN scopes,
                       start : Nat, from : Nat, env : SUBSET Ids])
    <2>1. ASSUME NEW i \in 1 .. Len(symbols)
          PROVE  symbols[i] \in [name : Names \cup {Self}, kind : Kinds, scope : DOMAIN scopes,
                                 start : Nat, from : Nat, env : SUBSET Ids]
        <3>1. symbols[i] \in SymbolRecords
            BY <1>1
        <3>2. symbols[i].scope \in DOMAIN scopes /\ symbols[i].env \subseteq Ids
            BY <1>1 DEF IInv, SymbolsSound
        <3> QED
            BY <3>1, <3>2 DEF SymbolRecords
    <2> QED
        BY <1>1, <2>1, SeqOf
<1>5. refs \in Seq([name : Names, at : Nat, scope : DOMAIN scopes, env : SUBSET Ids,
                    symbol : Ids \cup {0}])
    <2>1. ASSUME NEW k \in 1 .. Len(refs)
          PROVE  refs[k] \in [name : Names, at : Nat, scope : DOMAIN scopes, env : SUBSET Ids,
                              symbol : Ids \cup {0}]
        <3>1. refs[k] \in RefRecords
            BY <1>1
        <3>2. /\ refs[k].name \in Names /\ refs[k].scope \in DOMAIN scopes
              /\ RefSees(refs[k]) /\ RefBound(refs[k])
            BY <1>1 DEF IInv, RefSound
        <3>3. refs[k].env \subseteq Ids
            BY <3>2 DEF RefSees
        <3>4. refs[k].symbol \in Ids \cup {0}
            BY <3>2, <3>3 DEF RefBound, LuaBinds
        <3> QED
            BY <3>1, <3>2, <3>3, <3>4 DEF RefRecords
    <2> QED
        BY <1>1, <2>1, SeqOf
<1>6. globals \in [Names -> Ids \cup {0}]
    BY Here DEF IInv, GlobalsSound
<1>7. decls \subseteq [scope : DOMAIN scopes, at : Nat, wildcard : BOOLEAN]
    <2>1. \A i \in Ids : symbols[i].scope \in DOMAIN scopes /\ symbols[i].from \in Nat
        BY TypeFacts DEF IInv, SymbolsSound
    <2>2. ASSUME NEW d \in decls
          PROVE  d \in [scope : DOMAIN scopes, at : Nat, wildcard : BOOLEAN]
        <3>1. PICK i \in Ids : d = [scope |-> symbols[i].scope, at |-> symbols[i].from,
                                    wildcard |-> symbols[i].kind = "star"]
            BY DEF IInv, Declarations
        <3> QED
            BY <2>1, <3>1
    <2> QED
        BY <2>2
<1>8. stack \in Seq([scope : DOMAIN scopes, active : SUBSET Ids, declares : BOOLEAN,
                     name : Names \cup {Self}, start : Nat])
    <2>1. ASSUME NEW l \in 1 .. Len(stack)
          PROVE  stack[l] \in [scope : DOMAIN scopes, active : SUBSET Ids, declares : BOOLEAN,
                               name : Names \cup {Self}, start : Nat]
        <3>1. stack[l] \in Entries
            BY <1>1
        <3>2. stack[l].scope \in DOMAIN scopes /\ stack[l].active \subseteq Ids
            BY <1>1 DEF IInv, Actives, Sees
        <3> QED
            BY <3>1, <3>2 DEF Entries
    <2> QED
        BY <1>1, <2>1, SeqOf
<1> QED
    BY SMTT(20), <1>1, <1>2, <1>3, <1>4, <1>5, <1>6, <1>7, <1>8 DEF TypeOK

\* Everything the walker records is what the source says it is: scopes nest, a symbol belongs
\* to a scope there is, a reference to a symbol there is or to none.
THEOREM TypeCorrect ==
    ASSUME Self \notin Names
    PROVE  Spec => []TypeOK
<1>1. IInv => TypeOK
    BY TypesHold
<1> QED
    BY <1>1, Invariance, PTL

LEMMA OneLatest ==
    ASSUME Types, NEW syms, NEW A \in SUBSET Ids, NEW name, NEW i, NEW j,
           LuaBinds(syms, A, name, i), LuaBinds(syms, A, name, j)
    PROVE  i = j
<1>1. Ids \subseteq Nat
    BY TypeFacts
<1>2. i \in A /\ j \in A
    BY DEF LuaBinds
<1>3. i \in Nat /\ j \in Nat
    BY <1>1, <1>2
<1>4. i <= j
    BY <1>2 DEF LuaBinds
<1>5. j <= i
    BY <1>2 DEF LuaBinds
<1> QED
    BY <1>3, <1>4, <1>5

LEMMA BoundAsLua ==
    ASSUME IInv, NEW r, RefSound(r), NEW i \in Ids, symbols[i].kind # "global"
    PROVE  SymbolOf(r) = i <=> LuaBinds(symbols, r.env, r.name, i)
<1>1. Types /\ r.env \in SUBSET Ids /\ r.name \in Names /\ i # 0
    BY TypeFacts DEF IInv, RefSound, RefSees
<1>2. CASE LuaBinds(symbols, r.env, r.name, r.symbol)
    <2>1. r.symbol \in Ids /\ r.symbol # 0
        BY <1>1, <1>2, TypeFacts DEF LuaBinds
    <2>2. SymbolOf(r) = r.symbol
        BY <2>1 DEF SymbolOf
    <2> QED
        BY <1>1, <1>2, <2>2, OneLatest
<1>3. CASE /\ \A j \in Ids : ~LuaBinds(symbols, r.env, r.name, j)
           /\ r.symbol = 0 \/ (r.symbol \in Ids /\ symbols[r.symbol].kind = "global")
    <2>1. globals[r.name] = 0 \/ (globals[r.name] \in Ids /\ symbols[globals[r.name]].kind = "global")
        BY <1>1 DEF IInv, GlobalsSound
    <2>2. SymbolOf(r) = r.symbol \/ SymbolOf(r) = globals[r.name]
        BY DEF SymbolOf
    <2> QED
        BY <1>1, <1>3, <2>1, <2>2
<1> QED
    BY <1>2, <1>3 DEF RefSound, RefBound

LEMMA AllowedAsLua ==
    ASSUME IInv, NEW s, NEW place, NEW env,
           env = {i \in Ids : /\ symbols[i].kind # "global" /\ symbols[i].scope \in scopes[s].up
                              /\ symbols[i].from <= place}
    PROVE  AllowsImplicit(s, place) <=> LuaAllows(env)
<1> DEFINE D(i) == [scope |-> symbols[i].scope, at |-> symbols[i].from,
                    wildcard |-> symbols[i].kind = "star"]
           here == {d \in decls : d.scope \in scopes[s].up /\ d.at <= place}
<1>1. /\ env \subseteq Ids
      /\ \A i \in Ids : i \in env <=> /\ symbols[i].kind # "global" /\ symbols[i].from <= place
                                        /\ symbols[i].scope \in scopes[s].up
    OBVIOUS
<1>2. decls = {D(i) : i \in {i \in Ids : symbols[i].kind \in {"star", "explicit"}}}
    BY DEF IInv, Declarations
<1>3. ASSUME NEW i \in env, symbols[i].kind \in {"star", "explicit"}
      PROVE  D(i) \in here /\ (D(i).wildcard <=> symbols[i].kind = "star")
    BY <1>1, <1>2, <1>3
<1>4. ASSUME NEW d \in here
      PROVE  \E i \in env : symbols[i].kind \in {"star", "explicit"} /\ d = D(i)
    <2>1. PICK i \in Ids : symbols[i].kind \in {"star", "explicit"} /\ d = D(i)
        BY <1>2
    <2>2. symbols[i].scope \in scopes[s].up /\ symbols[i].from <= place
        BY <2>1
    <2> QED
        BY <1>1, <2>1, <2>2
<1>5. AllowsImplicit(s, place) <=> here = {} \/ \E d \in here : d.wildcard
    BY DEF AllowsImplicit
<1>6. ASSUME NEW d \in here, d.wildcard
      PROVE  \E i \in env : symbols[i].kind = "star"
    BY <1>3, <1>4, <1>6
<1> HIDE DEF D, here
<1>7. AllowsImplicit(s, place) => LuaAllows(env)
    BY <1>3, <1>5, <1>6 DEF LuaAllows
<1>8. LuaAllows(env) => AllowsImplicit(s, place)
    <2>1. ASSUME NEW i \in env, symbols[i].kind = "star"
          PROVE  AllowsImplicit(s, place)
        BY <1>3, <1>5, <2>1
    <2>2. ASSUME \A i \in env : symbols[i].kind # "explicit", \A i \in env : symbols[i].kind # "star"
          PROVE  AllowsImplicit(s, place)
        BY <1>4, <1>5, <2>2
    <2> QED
        BY <2>1, <2>2 DEF LuaAllows
<1> QED
    BY <1>7, <1>8

\* Every reference the walker records, however the file goes on, is resolved to the variable
\* Lua means by it, to no variable where Lua means a global, and an unbound name is admitted
\* as a global where Lua 5.5 admits it, for programs of any size.
THEOREM Resolution ==
    ASSUME Self \notin Names
    PROVE  Spec => []ResolvesAsLua
<1>1. IInv => ResolvesAsLua
    <2> SUFFICES ASSUME IInv, NEW k \in DOMAIN refs, NEW r, r = refs[k]
                 PROVE  /\ \A i \in Ids : symbols[i].kind # "global" =>
                              (SymbolOf(r) = i <=> LuaBinds(symbols, r.env, r.name, i))
                        /\ AllowsImplicit(r.scope, r.at) <=> LuaAllows(r.env)
        BY DEF ResolvesAsLua
    <2>1. RefSound(r) /\ RefSees(r)
        BY DEF IInv, RefSound
    <2>2. AllowsImplicit(r.scope, r.at) <=> LuaAllows(r.env)
        BY <2>1, AllowedAsLua DEF RefSees
    <2> QED
        BY <2>1, <2>2, BoundAsLua
<1> QED
    BY <1>1, Invariance, PTL

-----------------------------------------------------------------------------
(* Rename.                                                                 *)

LEMMA RenamedFacts ==
    ASSUME Types, SymbolsSound, NEW s \in Ids, NEW new \in Names, CanRename(s), NEW syms, syms = Renamed(s, new)
    PROVE  /\ DOMAIN syms = Ids /\ syms[s].name = new
           /\ \A i \in Ids : i # s => syms[i].name = symbols[i].name
           /\ \A i \in Ids : /\ syms[i].kind = symbols[i].kind /\ syms[i].scope = symbols[i].scope
                             /\ syms[i].from = symbols[i].from
                             /\ syms[i].kind \in {"self", "star"} => syms[i].name = Self
<1>1. symbols[s] \in SymbolRecords /\ symbols[s].kind \notin {"self", "star", "global"}
    BY DEF Types, Ids, CanRename
<1>2. syms = [symbols EXCEPT ![s].name = new] /\ DOMAIN syms = Ids
    BY DEF Renamed, Ids
<1>3. \A i \in Ids : i # s => syms[i] = symbols[i]
    BY <1>2 DEF Ids
<1>4. /\ syms[s].name = new /\ syms[s].kind = symbols[s].kind /\ syms[s].scope = symbols[s].scope
      /\ syms[s].from = symbols[s].from
    BY <1>1, <1>2 DEF SymbolRecords, Ids
<1> QED
    BY <1>1, <1>2, <1>3, <1>4 DEF SymbolsSound

LEMMA RenameSound ==
    ASSUME Self \notin Names, IInv, NEW s \in Ids, NEW new \in Names, new # symbols[s].name,
           ~RenameRefused(s, new), NEW k \in DOMAIN refs, NEW r, r = refs[k], NEW i \in Ids
    PROVE  LuaBinds(symbols, r.env, r.name, i)
             <=> LuaBinds(Renamed(s, new), r.env, NameAfter(s, new, r), i)
<1> DEFINE syms == Renamed(s, new)
           old == symbols[s].name
           C == {j \in r.env : symbols[j].name = r.name /\ symbols[j].kind # "star"}
<1>1. CanRename(s) /\ symbols[s].kind # "global" /\ symbols[s].kind # "star" /\ s # 0
    BY TypeFacts DEF RenameRefused, CanRename, IInv
<1>2. /\ RefSound(r) /\ r.env \in SUBSET Ids /\ r.name \in Names /\ Ordered(r.env)
      /\ \A j \in Ids : j \in r.env <=> /\ symbols[j].kind # "global" /\ symbols[j].from <= r.at
                                        /\ symbols[j].scope \in scopes[r.scope].up
    BY DEF IInv, RefSound, RefSees
<1>3. /\ DOMAIN syms = Ids /\ syms[s].name = new
      /\ \A j \in Ids : j # s => syms[j].name = symbols[j].name
      /\ \A j \in Ids : /\ syms[j].kind = symbols[j].kind /\ syms[j].scope = symbols[j].scope
                        /\ syms[j].from = symbols[j].from
                        /\ syms[j].kind \in {"self", "star"} => syms[j].name = Self
    BY <1>1, RenamedFacts DEF IInv
<1>4. SymbolOf(r) = s <=> LuaBinds(symbols, r.env, r.name, s)
    BY <1>1, <1>2, BoundAsLua
<1> DEFINE resolved == Resolve(syms, r.scope, new, r.at)
<1>5. /\ SymbolOf(r) = s => resolved = s
      /\ SymbolOf(r) # s /\ r.name = new => resolved # s
    BY DEF RenameRefused
<1> HIDE DEF syms
<1>6. AgreesWithLua(syms, r.scope, new, r.at, r.env)
    BY <1>2, <1>3, ResolvesLua DEF IInv
<1>7. resolved = s <=> LuaBinds(syms, r.env, new, s)
    BY <1>1, <1>6 DEF AgreesWithLua
<1> HIDE DEF resolved
<1>8. Ids \subseteq Nat /\ Types
    BY TypeFacts DEF IInv
<1>9. CASE SymbolOf(r) = s
    <2>1. LuaBinds(symbols, r.env, r.name, s) /\ LuaBinds(syms, r.env, new, s)
        BY <1>4, <1>5, <1>7, <1>9
    <2>2. NameAfter(s, new, r) = new
        BY <1>9 DEF NameAfter
    <2>3. \A j : LuaBinds(symbols, r.env, r.name, j) => j = s
        BY <1>2, <1>8, <2>1, OneLatest
    <2>4. \A j : LuaBinds(syms, r.env, new, j) => j = s
        BY <1>2, <1>8, <2>1, OneLatest
    <2> QED
        BY <2>1, <2>2, <2>3, <2>4 DEF syms
<1>10. CASE SymbolOf(r) # s
    <2>1. NameAfter(s, new, r) = r.name /\ ~LuaBinds(symbols, r.env, r.name, s)
        BY <1>4, <1>10 DEF NameAfter
    <2>2. \A j : LuaBinds(symbols, r.env, r.name, j) <=> j \in C /\ \A l \in C : l <= j
        BY DEF LuaBinds
    <2> DEFINE After == {j \in r.env : syms[j].name = r.name /\ syms[j].kind # "star"}
    <2>3. \A j : LuaBinds(syms, r.env, r.name, j) <=> j \in After /\ \A l \in After : l <= j
        BY DEF LuaBinds
    <2>4. C \subseteq Nat /\ After \subseteq Nat
        BY <1>2, <1>8
    <2>5. CASE r.name = new
        <3>1. After = C \cup (IF s \in r.env THEN {s} ELSE {}) /\ s \notin C
            BY <1>1, <1>2, <1>3, <2>5
        <3>2. ~(s \in After /\ \A l \in After : l <= s)
            BY <1>5, <1>7, <1>10, <2>3, <2>5
        <3> HIDE DEF C, After
        <3>3. (i \in C /\ \A l \in C : l <= i) <=> (i \in After /\ \A l \in After : l <= i)
            BY <2>4, <3>1, <3>2
        <3> QED
            BY <2>1, <2>2, <2>3, <3>3 DEF syms
    <2>6. CASE r.name = old
        <3>1. After = C \ {s} /\ (s \in r.env => s \in C)
            BY <1>1, <1>2, <1>3, <2>6
        <3>2. ~(s \in C /\ \A l \in C : l <= s)
            BY <2>1, <2>2
        <3> HIDE DEF C, After
        <3>3. (i \in C /\ \A l \in C : l <= i) <=> (i \in After /\ \A l \in After : l <= i)
            <4>1. CASE s \notin C
                <5>1. After = C
                    BY <3>1, <4>1
                <5> QED
                    BY <5>1
            <4>2. CASE s \in C
                <5>1. PICK l \in C : ~(l <= s)
                    BY <3>2, <4>2
                <5>2. /\ l \in Nat /\ s \in Nat /\ l \in After /\ s < l
                      /\ \A j \in C : j = s \/ j \in After
                    BY <2>4, <3>1, <4>2, <5>1
                <5> QED
                    BY <2>4, <3>1, <4>2, <5>1, <5>2
            <4> QED
                BY <4>1, <4>2
        <3> QED
            BY <2>1, <2>2, <2>3, <3>3 DEF syms
    <2>7. CASE r.name # new /\ r.name # old
        <3>1. After = C
            BY <1>2, <1>3, <2>7
        <3> HIDE DEF C, After
        <3> QED
            BY <2>1, <2>2, <2>3, <3>1 DEF syms
    <2> QED
        BY <2>5, <2>6, <2>7
<1> QED
    BY <1>9, <1>10

\* A rename that is not refused leaves every reference with the variable Lua meant by it before,
\* for programs of any size and every choice of the symbol and the new name.
THEOREM RenameIsSafe ==
    ASSUME Self \notin Names
    PROVE  Spec => []RenameKeepsReferences
<1>1. IInv => RenameKeepsReferences
    BY RenameSound DEF RenameKeepsReferences, SameBindings
<1> QED
    BY <1>1, Invariance, PTL

-----------------------------------------------------------------------------
(* Places. The queries of the editor (completion, the conflict check of a  *)
(* rename) start from an offset and find the scope again in the finished   *)
(* tree; the walk had the scope at hand. PInv says that the two agree: the *)
(* innermost scope at the offset of a reference sees what the reference    *)
(* saw, and a global stands alone at its offset, in its scope or at the    *)
(* head of its own function.                                               *)

\* Scopes nest: of two around a third one is around the other.
Nested ==
    \A s \in DOMAIN scopes : \A t \in scopes[s].up : scopes[t].up = {u \in scopes[s].up : u <= t}

\* A scope is open where the walk is, or it has ended before.
Spans ==
    \A s \in DOMAIN scopes :
        /\ scopes[s].start <= at
        /\ s \in scopes[cur].up => scopes[s].end = 0
        /\ s \notin scopes[cur].up => 0 < scopes[s].end /\ scopes[s].end <= at

\* An open construct began in a scope around the walk; the variable it declares has its place.
Begun ==
    \A l \in DOMAIN stack :
        /\ stack[l].scope \in scopes[cur].up /\ stack[l].start <= at
        /\ stack[l].declares => stack[l].name \in Names

\* From the innermost scope at a place the same variables are seen as from scope s.
Innermost(place, s) == s \in ScopesAt(place) /\ \A t \in ScopesAt(place) : t <= s
Sighted(i) == symbols[i].kind \notin {"global", "self"}
SeenFrom(place, s) ==
    \E t \in DOMAIN scopes :
        /\ Innermost(place, t)
        /\ \A i \in Ids : Sighted(i) /\ symbols[i].from <= place =>
              (symbols[i].scope \in scopes[t].up <=> symbols[i].scope \in scopes[s].up)

\* Where a global is declared or defined: its scope, or its function's own one.
GlobalPlace(i) ==
    \E t \in DOMAIN scopes :
        /\ Innermost(symbols[i].start, t)
        /\ \/ t = symbols[i].scope /\ scopes[t].owner # i
           \/ /\ scopes[t].owner = i /\ symbols[i].scope < t
              /\ scopes[t].up = scopes[symbols[i].scope].up \cup {t}

\* A definition of a global knows the variables visible there, and none has its name.
Unbound(i) ==
    /\ symbols[i].env = {j \in Ids : /\ symbols[j].kind # "global" /\ symbols[j].from <= symbols[i].start
                                     /\ symbols[j].scope \in scopes[symbols[i].scope].up}
    /\ Ordered(symbols[i].env)
    /\ \A j \in symbols[i].env : symbols[j].name # symbols[i].name

\* Nothing in the scope of a function is visible yet where the function's name stands.
OwnLater(i) ==
    \A j \in Ids : symbols[j].kind # "global" /\ scopes[symbols[j].scope].owner = i =>
                     symbols[i].start < symbols[j].from

\* Nothing else stands where a global does.
Alone(i) ==
    /\ \A j \in Ids \ {i} : symbols[j].start # symbols[i].start
    /\ \A k \in DOMAIN refs : refs[k].at # symbols[i].start
    /\ \A l \in DOMAIN stack : stack[l].declares => stack[l].start # symbols[i].start

GlobalPlaced(i) ==
    /\ GlobalPlace(i) /\ Alone(i)
    /\ \A j \in Ids : j < i => symbols[j].from <= symbols[i].start
    /\ symbols[i].kind = "global" => Unbound(i) /\ OwnLater(i)

PInv ==
    /\ Nested /\ Spans /\ Begun
    /\ \A i \in Ids : /\ symbols[i].start <= at
                      /\ symbols[i].kind \in LexicalKinds \cup {"global"} => symbols[i].name \in Names
                      /\ Global(symbols[i]) => GlobalPlaced(i)
    /\ \A k \in DOMAIN refs :
          /\ SeenFrom(refs[k].at, refs[k].scope)
          /\ \A i \in refs[k].env : symbols[i].start <= refs[k].at
    /\ \A k, m \in DOMAIN refs : refs[k].at = refs[m].at => k = m
-----------------------------------------------------------------------------
(* Completion.                                                             *)

LEMMA Largest ==
    ASSUME NEW n \in Nat, NEW S \in SUBSET (1 .. n), S # {}
    PROVE  \E i \in S : \A j \in S : j <= i
<1> DEFINE Bounds == {b \in Nat : \A j \in S : j <= b}
<1>1. n \in Bounds
    OBVIOUS
<1>2. \E b \in Bounds : \A c \in Bounds : ~(<<c, b>> \in OpToRel(<, Nat))
    <2>1. Bounds \subseteq Nat /\ Bounds # {}
        BY <1>1
    <2> HIDE DEF Bounds
    <2> QED
        BY Zenon, <2>1, WFMin, NatLessThanWellFounded
<1>3. PICK b \in Bounds : \A c \in Bounds : ~(<<c, b>> \in OpToRel(<, Nat))
    BY Zenon, <1>2
<1>4. \A c \in Bounds : ~(c < b)
    BY <1>3 DEF OpToRel
<1>5. b \in S
    <2> SUFFICES ASSUME b \notin S
                 PROVE  FALSE
        OBVIOUS
    <2>1. b \in Nat /\ \A j \in S : j \in Nat /\ j <= b /\ j # b /\ 1 <= j
        OBVIOUS
    <2>2. PICK j \in S : TRUE
        OBVIOUS
    <2>3. b # 0
        BY <2>1, <2>2
    <2>4. b - 1 \in Bounds
        BY <2>1, <2>3
    <2> QED
        BY <1>4, <2>1, <2>3, <2>4
<1> QED
    BY <1>5

\* Where a name is active, one of its variables is the latest.
LEMMA OneIsLatest ==
    ASSUME Types, NEW syms, NEW A \in SUBSET Ids, NEW name, NEW j \in A,
           syms[j].name = name, syms[j].kind # "star"
    PROVE  \E i \in A : LuaBinds(syms, A, name, i)
<1> DEFINE S == {i \in A : syms[i].name = name /\ syms[i].kind # "star"}
<1>1. Len(symbols) \in Nat /\ S \in SUBSET (1 .. Len(symbols)) /\ S # {}
    BY TypeFacts
<1>2. \A i : LuaBinds(syms, A, name, i) <=> i \in S /\ \A k \in S : k <= i
    BY DEF LuaBinds
<1> HIDE DEF S
<1>3. PICK i \in S : \A k \in S : k <= i
    BY <1>1, Largest
<1>4. i \in A
    BY DEF S
<1> QED
    BY <1>2, <1>3, <1>4

LEMMA ScopeAtIs ==
    ASSUME Types, NEW place, NEW t, Innermost(place, t)
    PROVE  ScopeAt(place) = t /\ t \in DOMAIN scopes
<1>1. ScopesAt(place) \subseteq Nat /\ ScopesAt(place) \subseteq DOMAIN scopes
    BY TypeFacts DEF ScopesAt
<1>2. t \in ScopesAt(place) /\ \A s \in ScopesAt(place) : s <= t
    BY DEF Innermost
<1>3. \A s \in ScopesAt(place) : (\A u \in ScopesAt(place) : u <= s) => s = t
    BY <1>1, <1>2
<1> HIDE DEF ScopesAt
<1>4. (CHOOSE s \in ScopesAt(place) : \A u \in ScopesAt(place) : u <= s) = t
    BY <1>2, <1>3
<1> QED
    BY <1>1, <1>2, <1>4 DEF ScopeAt

\* What the scope tree says of a place is what the scope says the walk was in.
LEMMA SeenAlike ==
    ASSUME Types, NEW place, NEW s, SeenFrom(place, s), NEW syms, DOMAIN syms = Ids,
           \A i \in Ids : /\ syms[i].kind = symbols[i].kind /\ syms[i].scope = symbols[i].scope
                          /\ syms[i].from = symbols[i].from,
           NEW name
    PROVE  /\ \A i : Resolves(syms, ScopeAt(place), name, place, i) <=> Resolves(syms, s, name, place, i)
           /\ Resolve(syms, ScopeAt(place), name, place) = Resolve(syms, s, name, place)
<1>1. PICK t \in DOMAIN scopes :
        /\ Innermost(place, t)
        /\ \A i \in Ids : Sighted(i) /\ symbols[i].from <= place =>
              (symbols[i].scope \in scopes[t].up <=> symbols[i].scope \in scopes[s].up)
    BY DEF SeenFrom
<1>2. ScopeAt(place) = t
    BY <1>1, ScopeAtIs
<1>3. Candidates(syms, t, name, place) = Candidates(syms, s, name, place)
    BY <1>1 DEF Candidates, Sighted, LexicalKinds
<1>4. \A i : Resolves(syms, t, name, place, i) <=> Resolves(syms, s, name, place, i)
    BY <1>3 DEF Resolves
<1>5. Resolve(syms, t, name, place) = Resolve(syms, s, name, place)
    BY <1>4 DEF Resolve
<1> QED
    BY <1>2, <1>4, <1>5

LEMMA LexicalNames ==
    ASSUME PInv, NEW i \in Ids, symbols[i].kind \in LexicalKinds \cup {"global"}
    PROVE  symbols[i].name \in Names
BY DEF PInv

LEMMA SymbolNumbers ==
    ASSUME Types
    PROVE  \A i \in Ids : i \in Nat /\ symbols[i].start \in Nat /\ symbols[i].from \in Nat
<1>1. Ids \subseteq Nat /\ \A i \in Ids : symbols[i] \in SymbolRecords
    BY TypeFacts DEF Types, Ids
<1> QED
    BY <1>1 DEF SymbolRecords

LEMMA GlobalFacts ==
    ASSUME PInv, NEW i \in Ids, Global(symbols[i])
    PROVE  /\ GlobalPlace(i) /\ Alone(i) /\ symbols[i].name \in Names
           /\ \A j \in Ids : j < i => symbols[j].from <= symbols[i].start
           /\ symbols[i].kind = "global" => Unbound(i) /\ OwnLater(i)
<1>1. symbols[i].kind \in LexicalKinds \cup {"global"}
    BY DEF Global, LexicalKinds
<1> QED
    BY <1>1, LexicalNames DEF PInv, GlobalPlaced

\* What is visible at a place from scope s, as Lua would have it.
EnvAt(place, s) ==
    {i \in Ids : symbols[i].kind # "global" /\ symbols[i].scope \in scopes[s].up /\ symbols[i].from <= place}

\* The declarations that apply at a place are found from the finished tree as well.
LEMMA AllowedAlike ==
    ASSUME IInv, NEW place, NEW s, SeenFrom(place, s)
    PROVE  AllowsImplicit(ScopeAt(place), place) <=> AllowsImplicit(s, place)
<1>1. PICK t \in DOMAIN scopes :
        /\ Innermost(place, t)
        /\ \A i \in Ids : Sighted(i) /\ symbols[i].from <= place =>
              (symbols[i].scope \in scopes[t].up <=> symbols[i].scope \in scopes[s].up)
    BY DEF SeenFrom
<1>2. ScopeAt(place) = t
    BY <1>1, ScopeAtIs DEF IInv
<1>3. ASSUME NEW d \in decls, d.at <= place
      PROVE  d.scope \in scopes[t].up <=> d.scope \in scopes[s].up
    <2>1. PICK i \in Ids :
            /\ symbols[i].kind \in {"star", "explicit"}
            /\ d = [scope |-> symbols[i].scope, at |-> symbols[i].from, wildcard |-> symbols[i].kind = "star"]
        BY DEF IInv, Declarations
    <2>2. d.scope = symbols[i].scope /\ symbols[i].from <= place /\ Sighted(i)
        BY <1>3, <2>1 DEF Sighted
    <2> QED
        BY <1>1, <2>2
<1>4. {d \in decls : d.scope \in scopes[t].up /\ d.at <= place} = {d \in decls : d.scope \in scopes[s].up /\ d.at <= place}
    BY <1>3
<1> QED
    BY <1>2, <1>4 DEF AllowsImplicit

\* What a place offers, if the finished tree shows there what the walk saw in scope s.
LEMMA OffersSound ==
    ASSUME Self \notin Names, IInv, PInv, NEW place, NEW s, SeenFrom(place, s),
           NEW env, env = EnvAt(place, s), Ordered(env)
    PROVE  OffersAsLua(place, env)
<1> DEFINE scope == ScopeAt(place)
           lexical == {i \in DOMAIN symbols : Resolves(symbols, scope, symbols[i].name, place, i)}
           seen == {symbols[i].name : i \in lexical}
           implicit == IF AllowsImplicit(scope, place) THEN {globals[n] : n \in Names \ seen} \ {0} ELSE {}
           visible == VisibleSymbols(place)
           Bound(n) == \E i \in Ids : LuaBinds(symbols, env, n, i)
<1>1. /\ Types /\ DOMAIN symbols = Ids /\ GlobalsSound /\ env \subseteq Ids /\ SymbolsSound
      /\ \A j \in Ids : j \in env <=> /\ symbols[j].kind # "global" /\ symbols[j].from <= place
                                      /\ symbols[j].scope \in scopes[s].up
      /\ \A j \in Ids : symbols[j].kind \in {"self", "star"} => symbols[j].name = Self
    BY DEF IInv, Ids, EnvAt, SymbolsSound
<1>2. visible = lexical \cup implicit
    BY DEF VisibleSymbols
<1>3. ASSUME NEW n \in Names, NEW i
      PROVE  Resolves(symbols, scope, n, place, i) <=> LuaBinds(symbols, env, n, i)
    <2>1. AgreesWithLua(symbols, s, n, place, env)
        BY <1>1, ResolvesLua
    <2>2. Resolves(symbols, scope, n, place, i) <=> Resolves(symbols, s, n, place, i)
        BY <1>1, SeenAlike
    <2> QED
        BY <2>1, <2>2 DEF AgreesWithLua
<1>4. AllowsImplicit(scope, place) <=> LuaAllows(env)
    BY AllowedAlike, AllowedAsLua DEF EnvAt
<1>5. ASSUME NEW i \in lexical
      PROVE  /\ i \in Ids /\ symbols[i].kind \in LexicalKinds /\ symbols[i].name \in Names
             /\ LuaBinds(symbols, env, symbols[i].name, i)
    <2>1. i \in Ids /\ Resolves(symbols, scope, symbols[i].name, place, i)
        BY <1>1
    <2>2. symbols[i].kind \in LexicalKinds
        BY <2>1 DEF Resolves, Candidates
    <2>3. symbols[i].name \in Names
        BY <2>1, <2>2, LexicalNames
    <2> QED
        BY <1>3, <2>1, <2>2, <2>3
<1>6. ASSUME NEW n \in Names, NEW i \in Ids, LuaBinds(symbols, env, n, i)
      PROVE  i \in lexical /\ symbols[i].name = n
    <2>1. symbols[i].name = n
        BY <1>6 DEF LuaBinds
    <2> QED
        BY <1>1, <1>3, <1>6, <2>1
<1>7. \A n \in Names : n \in seen <=> Bound(n)
    BY <1>5, <1>6
<1>8. ASSUME NEW i \in implicit
      PROVE  /\ i \in Ids /\ symbols[i].kind = "global" /\ symbols[i].name \in Names \ seen
             /\ globals[symbols[i].name] = i /\ AllowsImplicit(scope, place)
    <2>1. PICK n \in Names \ seen : i = globals[n] /\ i # 0 /\ AllowsImplicit(scope, place)
        BY <1>8
    <2>2. i \in Ids /\ symbols[i].kind = "global" /\ symbols[i].name = n
        BY <1>1, <2>1 DEF GlobalsSound
    <2> QED
        BY <2>1, <2>2
<1>9. ASSUME NEW n \in Names \ seen, globals[n] # 0, AllowsImplicit(scope, place)
      PROVE  globals[n] \in implicit /\ symbols[globals[n]].kind = "global" /\ symbols[globals[n]].name = n
    BY <1>1, <1>9 DEF GlobalsSound
<1>10. \A n \in Names : globals[n] # 0 <=> \E i \in Ids : symbols[i].kind = "global" /\ symbols[i].name = n
    BY <1>1 DEF GlobalsSound
<1> HIDE DEF lexical, seen, implicit, visible
<1>11. ASSUME NEW i \in Ids, symbols[i].kind \in LexicalKinds
       PROVE  i \in visible <=> LuaBinds(symbols, env, symbols[i].name, i)
    <2>1. symbols[i].name \in Names /\ symbols[i].kind # "global"
        BY <1>11, LexicalNames DEF LexicalKinds
    <2>2. i \in visible <=> i \in lexical
        BY <1>2, <1>8, <2>1
    <2> QED
        BY <1>5, <1>6, <2>1, <2>2
<1>12. ASSUME NEW n \in Names
       PROVE  (\E i \in visible : symbols[i].kind = "global" /\ symbols[i].name = n)
                 <=> /\ \E i \in Ids : symbols[i].kind = "global" /\ symbols[i].name = n
                     /\ LuaAllows(env) /\ \A i \in Ids : ~LuaBinds(symbols, env, n, i)
    <2>1. \A i \in lexical : symbols[i].kind # "global"
        BY <1>5 DEF LexicalKinds
    <2>2. (\E i \in visible : symbols[i].kind = "global" /\ symbols[i].name = n)
             <=> \E i \in implicit : symbols[i].name = n
        BY <1>2, <1>8, <2>1
    <2>3. (\E i \in implicit : symbols[i].name = n)
             <=> n \notin seen /\ globals[n] # 0 /\ AllowsImplicit(scope, place)
        <3>1. ASSUME NEW i \in implicit, symbols[i].name = n
              PROVE  n \notin seen /\ globals[n] # 0 /\ AllowsImplicit(scope, place)
            <4>1. 0 \notin Ids
                BY <1>1, TypeFacts
            <4> QED
                BY <1>8, <3>1, <4>1
        <3> QED
            BY <1>9, <3>1
    <2>4. n \notin seen <=> \A i \in Ids : ~LuaBinds(symbols, env, n, i)
        BY <1>7
    <2>5. globals[n] # 0 <=> \E i \in Ids : symbols[i].kind = "global" /\ symbols[i].name = n
        BY <1>10
    <2> QED
        BY <1>4, <2>2, <2>3, <2>4, <2>5
<1>13. ASSUME NEW i \in visible, NEW j \in visible, symbols[i].name = symbols[j].name
       PROVE  i = j
    <2>1. ASSUME NEW k \in lexical
          PROVE  symbols[k].name \in seen
        BY DEF seen
    <2>2. CASE i \in lexical /\ j \in lexical
        BY <1>1, <1>5, <1>13, <2>2, OneLatest
    <2>3. CASE i \in implicit /\ j \in implicit
        BY <1>8, <1>13, <2>3
    <2>4. CASE (i \in lexical /\ j \in implicit) \/ (i \in implicit /\ j \in lexical)
        BY <1>8, <1>13, <2>1, <2>4
    <2> QED
        BY <1>2, <2>2, <2>3, <2>4
<1> QED
    BY <1>11, <1>12, <1>13 DEF OffersAsLua, visible

\* Where a global is defined the finished tree shows what is visible there: in the scope of the
\* definition, or at the head of its function, where nothing else is visible yet.
LEMMA SeenAtGlobal ==
    ASSUME IInv, PInv, NEW i \in Ids, symbols[i].kind = "global", NEW place, place = symbols[i].start,
           NEW s, s = symbols[i].scope
    PROVE  SeenFrom(place, s) /\ symbols[i].env = EnvAt(place, s) /\ Ordered(symbols[i].env)
<1>1. GlobalPlace(i) /\ Unbound(i) /\ OwnLater(i)
    BY GlobalFacts DEF Global
<1>2. PICK t \in DOMAIN scopes :
        /\ Innermost(place, t)
        /\ \/ t = s /\ scopes[t].owner # i
           \/ scopes[t].owner = i /\ s < t /\ scopes[t].up = scopes[s].up \cup {t}
    BY <1>1 DEF GlobalPlace
<1>3. ASSUME NEW j \in Ids, Sighted(j), symbols[j].from <= place
      PROVE  symbols[j].scope \in scopes[t].up <=> symbols[j].scope \in scopes[s].up
    <2>1. CASE t = s
        BY <2>1
    <2>2. CASE scopes[t].owner = i /\ scopes[t].up = scopes[s].up \cup {t}
        <3>1. symbols[j].kind # "global" /\ place \in Nat /\ symbols[j].from \in Nat
            BY <1>3, SymbolNumbers DEF Sighted, IInv
        <3>2. scopes[symbols[j].scope].owner = i => place < symbols[j].from
            BY <1>1, <3>1 DEF OwnLater
        <3>3. symbols[j].scope # t
            BY <1>3, <2>2, <3>1, <3>2
        <3> QED
            BY <2>2, <3>3
    <2> QED
        BY <1>2, <2>1, <2>2
<1>4. SeenFrom(place, s)
    BY <1>2, <1>3 DEF SeenFrom
<1> QED
    BY <1>1, <1>4 DEF Unbound, EnvAt

LEMMA CompletionSound ==
    ASSUME Self \notin Names, IInv, PInv
    PROVE  CompletionSeesAsLua
<1>1. ASSUME NEW k \in DOMAIN refs, NEW r, r = refs[k]
      PROVE  OffersAsLua(r.at, r.env)
    <2>1. RefSees(r) /\ Ordered(r.env) /\ SeenFrom(r.at, r.scope)
        BY <1>1 DEF IInv, PInv, RefSound
    <2>2. r.env = EnvAt(r.at, r.scope)
        BY <2>1 DEF RefSees, EnvAt
    <2> QED
        BY <2>1, <2>2, OffersSound
<1>2. ASSUME NEW i \in Ids, symbols[i].kind = "global", NEW sym, sym = symbols[i]
      PROVE  OffersAsLua(sym.start, sym.env)
    BY <1>2, SeenAtGlobal, OffersSound
<1> QED
    BY <1>1, <1>2 DEF CompletionSeesAsLua

-----------------------------------------------------------------------------
(* Renaming a global.                                                      *)

\* A use of a global is looked up where it stands.
LEMMA SiteOfReference ==
    ASSUME Types, PInv, NEW k \in DOMAIN refs, NEW r, r = refs[k], GlobalReference(r),
           SymbolOf(r) \in Ids \cup {0}
    PROVE  SiteScope(r.at) = ScopeAt(r.at)
<1>1. \A m \in DOMAIN refs : refs[m].at = r.at => m = k
    BY DEF PInv
<1>2. (CHOOSE m \in DOMAIN refs : refs[m].at = r.at) = k
    BY <1>1
<1>3. SymbolAt(r.at) = SymbolOf(r)
    BY <1>2 DEF SymbolAt
<1>4. SymbolOf(r) # 0 => symbols[SymbolOf(r)].start # r.at
    BY GlobalFacts DEF GlobalReference, Alone
<1> QED
    BY <1>3, <1>4 DEF SiteScope

\* A global's declaration is looked up in the scope that lists it.
LEMMA SiteOfGlobal ==
    ASSUME IInv, PInv, NEW i \in Ids, Global(symbols[i])
    PROVE  SiteScope(symbols[i].start) = symbols[i].scope
<1> DEFINE place == symbols[i].start
           s == symbols[i].scope
<1>1. Alone(i) /\ GlobalPlace(i) /\ i # 0 /\ s \in DOMAIN scopes
    BY GlobalFacts, TypeFacts DEF IInv, SymbolsSound
<1>2. SymbolAt(place) = i
    <2>1. ~\E k \in DOMAIN refs : refs[k].at = place
        BY <1>1 DEF Alone
    <2>2. \A j \in DOMAIN symbols : symbols[j].start = place <=> j = i
        BY <1>1 DEF Alone, Ids
    <2>3. (CHOOSE j \in DOMAIN symbols : symbols[j].start = place) = i
        BY <2>2 DEF Ids
    <2> QED
        BY <2>1, <2>3 DEF SymbolAt
<1>3. PICK t \in DOMAIN scopes :
        /\ Innermost(place, t)
        /\ \/ t = s /\ scopes[t].owner # i
           \/ scopes[t].owner = i /\ s < t /\ scopes[t].up = scopes[s].up \cup {t}
    BY <1>1 DEF GlobalPlace
<1>4. ScopeAt(place) = t
    BY <1>3, ScopeAtIs DEF IInv
<1>5. CASE scopes[t].owner # i
    BY <1>2, <1>3, <1>4, <1>5 DEF SiteScope
<1>6. CASE scopes[t].owner = i
    <2>1. SiteScope(place) = CHOOSE u \in scopes[t].up \ {t} : \A v \in scopes[t].up \ {t} : v <= u
        BY <1>1, <1>2, <1>4, <1>6 DEF SiteScope
    <2>2. /\ s \in scopes[s].up /\ \A v \in scopes[s].up : v \in Nat /\ v <= s
          /\ s \in Nat /\ t \in Nat /\ s < t
        <3>1. DOMAIN scopes \subseteq Nat
            BY TypeFacts DEF IInv
        <3> QED
            BY <1>1, <1>3, <1>6, <3>1 DEF IInv, Tree
    <2>3. scopes[t].up \ {t} = scopes[s].up
        BY <1>3, <1>6, <2>2
    <2>4. \A u \in scopes[s].up : (\A v \in scopes[s].up : v <= u) => u = s
        BY <2>2
    <2>5. (CHOOSE u \in scopes[s].up : \A v \in scopes[s].up : v <= u) = s
        BY <2>2, <2>4
    <2> QED
        BY <2>1, <2>3, <2>5
<1> QED
    BY <1>5, <1>6

\* The symbols after a global was renamed.
GlobalRenamed(old, new) ==
    [i \in Ids |-> IF Global(symbols[i]) /\ symbols[i].name = old
                   THEN [symbols[i] EXCEPT !.name = new] ELSE symbols[i]]

LEMMA GlobalRenamedFacts ==
    ASSUME Types, NEW old \in Names, NEW new \in Names, NEW syms, syms = GlobalRenamed(old, new), NEW i \in Ids
    PROVE  /\ syms[i].kind = symbols[i].kind
           /\ syms[i].name = IF Global(symbols[i]) /\ symbols[i].name = old THEN new ELSE symbols[i].name
<1>1. symbols[i] \in SymbolRecords
    BY DEF Types, Ids
<1>2. syms[i] = IF Global(symbols[i]) /\ symbols[i].name = old
                THEN [symbols[i] EXCEPT !.name = new] ELSE symbols[i]
    BY DEF GlobalRenamed
<1> QED
    BY <1>1, <1>2 DEF SymbolRecords

\* What the check finds at a site that sees the variables of env.
LEMMA NoneCaptures ==
    ASSUME Self \notin Names, IInv, NEW new \in Names, NEW env \in SUBSET Ids, NEW s, NEW place,
           Ordered(env),
           \A i \in Ids : i \in env <=> /\ symbols[i].kind # "global" /\ symbols[i].from <= place
                                        /\ symbols[i].scope \in scopes[s].up,
           Resolve(symbols, s, new, place) = 0
    PROVE  \A j \in env : symbols[j].name # new
<1>1. /\ Types /\ SymbolsSound /\ DOMAIN symbols = Ids
      /\ \A j \in Ids : symbols[j].kind \in {"self", "star"} => symbols[j].name = Self
    BY DEF IInv, SymbolsSound, Ids
<1>2. AgreesWithLua(symbols, s, new, place, env)
    BY <1>1, ResolvesLua
<1>3. \A i : ~LuaBinds(symbols, env, new, i)
    <2>1. \A i : LuaBinds(symbols, env, new, i) => i # 0
        BY <1>1, TypeFacts DEF LuaBinds
    <2> QED
        BY <1>2, <2>1 DEF AgreesWithLua
<1>4. \A j \in env : symbols[j].kind = "star" => symbols[j].name # new
    BY <1>1
<1> QED
    BY <1>1, <1>3, <1>4, OneIsLatest

LEMMA GlobalNotRefused ==
    ASSUME Self \notin Names, IInv, PInv, NEW old \in Names, NEW new \in Names,
           ~GlobalRenameRefused(old, new)
    PROVE  /\ \A i \in Ids : Global(symbols[i]) => symbols[i].name # new
           /\ \A k \in DOMAIN refs : GlobalReference(refs[k]) => refs[k].name # new
           /\ \A i \in Ids : Global(symbols[i]) =>
                 (symbols[i].start \in GlobalSites(old) <=> symbols[i].name = old)
           /\ \A k \in DOMAIN refs :
                 refs[k].at \in GlobalSites(old) <=> refs[k].name = old /\ GlobalReference(refs[k])
           /\ \A place \in GlobalSites(old) : Resolve(symbols, SiteScope(place), new, place) = 0
<1>1. GlobalSites(new) = {} /\ \A place \in GlobalSites(old) : Resolve(symbols, SiteScope(place), new, place) = 0
    BY DEF GlobalRenameRefused
<1>2. \A name, place : place \in GlobalSites(name) <=>
          \/ \E i \in Ids : Global(symbols[i]) /\ symbols[i].name = name /\ place = symbols[i].start
          \/ \E k \in DOMAIN refs : refs[k].name = name /\ GlobalReference(refs[k]) /\ place = refs[k].at
    BY DEF GlobalSites, Ids
<1>3. \A i \in Ids : Global(symbols[i]) =>
          /\ \A j \in Ids : symbols[j].start = symbols[i].start => j = i
          /\ \A k \in DOMAIN refs : refs[k].at # symbols[i].start
    BY GlobalFacts DEF Alone
<1>4. \A k, m \in DOMAIN refs : refs[k].at = refs[m].at => k = m
    BY DEF PInv
<1>5. \A i \in Ids : Global(symbols[i]) => symbols[i].name # new
    BY <1>1, <1>2
<1>6. \A k \in DOMAIN refs : GlobalReference(refs[k]) => refs[k].name # new
    BY <1>1, <1>2
<1>7. \A i \in Ids : Global(symbols[i]) => (symbols[i].start \in GlobalSites(old) <=> symbols[i].name = old)
    BY <1>2, <1>3
<1>8. \A k \in DOMAIN refs : refs[k].at \in GlobalSites(old) <=> refs[k].name = old /\ GlobalReference(refs[k])
    BY <1>2, <1>3, <1>4
<1> QED
    BY <1>1, <1>5, <1>6, <1>7, <1>8

\* A variable of the new name that a global declared later would capture is one the check finds.
LEMMA NotCapturedLater ==
    ASSUME Self \notin Names, IInv, PInv, NEW old \in Names, NEW new \in Names,
           ~GlobalRenameRefused(old, new), NEW k \in DOMAIN refs, NEW r, r = refs[k],
           NEW s \in r.env, symbols[s].name = new,
           NEW j \in r.env, Global(symbols[j]), symbols[j].name = old
    PROVE  j <= s
<1> SUFFICES ASSUME ~(j <= s)
             PROVE  FALSE
    OBVIOUS
<1> DEFINE place == symbols[j].start
           here == symbols[j].scope
           env == {m \in Ids : /\ symbols[m].kind # "global" /\ symbols[m].from <= place
                               /\ symbols[m].scope \in scopes[here].up}
<1>1. /\ RefSound(r) /\ r.env \subseteq Ids /\ Ordered(r.env) /\ r.scope \in DOMAIN scopes
      /\ \A m \in Ids : m \in r.env <=> /\ symbols[m].kind # "global" /\ symbols[m].from <= r.at
                                        /\ symbols[m].scope \in scopes[r.scope].up
    BY DEF IInv, RefSound, RefSees
<1>2. /\ s \in Nat /\ j \in Nat /\ s < j /\ s \in Ids /\ j \in Ids
      /\ \A m \in Ids : symbols[m].scope \in Nat /\ symbols[m].from \in Nat
    BY SMTT(20), <1>1, TypeFacts DEF IInv
<1>3. symbols[s].from <= place
    BY <1>2, GlobalFacts
<1>4. scopes[here].up = {u \in scopes[r.scope].up : u <= here}
    BY <1>1, <1>2 DEF PInv, Nested
<1>5. symbols[s].scope \in scopes[here].up
    <2>1. ~(here < symbols[s].scope)
        BY <1>1, <1>2 DEF Ordered
    <2> QED
        BY <1>1, <1>2, <1>4, <2>1
<1>6. env \subseteq r.env
    <2>1. place \in Nat /\ r.at \in Nat /\ place <= r.at
        <3>1. symbols[j] \in SymbolRecords /\ r.at \in Nat
            BY SMTT(20), <1>2, TypeFacts DEF IInv, Types, Ids
        <3> QED
            BY <3>1 DEF PInv, SymbolRecords
    <2>2. ASSUME NEW m \in Ids, symbols[m].from <= place
          PROVE  symbols[m].from <= r.at
        <3>1. \A a, b, c \in Nat : a <= b /\ b <= c => a <= c
            OBVIOUS
        <3>2. symbols[m].from \in Nat
            BY <1>2
        <3> HIDE DEF place
        <3> QED
            BY <2>1, <2>2, <3>1, <3>2
    <2>3. scopes[here].up \subseteq scopes[r.scope].up
        BY <1>4
    <2> QED
        BY <1>1, <2>2, <2>3
<1>7. Ordered(env) /\ env \in SUBSET Ids
    BY <1>1, <1>6 DEF Ordered
<1>8. Resolve(symbols, here, new, place) = 0
    BY <1>2, GlobalNotRefused, SiteOfGlobal
<1>9. s \in env
    BY <1>1, <1>2, <1>3, <1>5
<1>10. \A m \in env : symbols[m].name # new
    BY <1>7, <1>8, NoneCaptures
<1> QED
    BY <1>9, <1>10

LEMMA ReferenceSymbol ==
    ASSUME IInv, NEW r, RefSound(r)
    PROVE  SymbolOf(r) \in Ids \cup {0}
<1>1. r.symbol \in Ids \cup {0}
    BY DEF RefSound, RefBound, RefSees, LuaBinds
<1>2. globals[r.name] \in Ids \cup {0}
    BY DEF RefSound, IInv, GlobalsSound
<1> QED
    BY <1>1, <1>2 DEF SymbolOf

LEMMA GlobalRenameReference ==
    ASSUME Self \notin Names, IInv, PInv, NEW old \in Names, NEW new \in Names, old # new,
           ~GlobalRenameRefused(old, new), NEW k \in DOMAIN refs, NEW r, r = refs[k],
           NEW syms, syms = GlobalRenamed(old, new), NEW i \in Ids
    PROVE  LuaBinds(symbols, r.env, r.name, i)
             <=> LuaBinds(syms, r.env, IF r.at \in GlobalSites(old) THEN new ELSE r.name, i)
<1>1. /\ RefSound(r) /\ r.env \in SUBSET Ids /\ Ordered(r.env) /\ r.name \in Names /\ Types
      /\ \A m \in Ids : m \in r.env <=> /\ symbols[m].kind # "global" /\ symbols[m].from <= r.at
                                        /\ symbols[m].scope \in scopes[r.scope].up
    BY DEF IInv, RefSound, RefSees
<1>2. \A m \in Ids :
          /\ syms[m].kind = symbols[m].kind
          /\ syms[m].name = IF Global(symbols[m]) /\ symbols[m].name = old THEN new ELSE symbols[m].name
    BY <1>1, GlobalRenamedFacts
<1>3. /\ \A m \in Ids : Global(symbols[m]) => symbols[m].name # new
      /\ GlobalReference(r) => r.name # new
      /\ r.at \in GlobalSites(old) <=> r.name = old /\ GlobalReference(r)
      /\ \A place \in GlobalSites(old) : Resolve(symbols, SiteScope(place), new, place) = 0
    BY GlobalNotRefused
<1>4. \A m \in Ids : LuaBinds(symbols, r.env, r.name, m) => SymbolOf(r) = m /\ symbols[m].kind # "global"
    <2>1. \A m \in Ids : LuaBinds(symbols, r.env, r.name, m) => symbols[m].kind # "global"
        BY <1>1 DEF LuaBinds
    <2> QED
        BY <1>1, <2>1, BoundAsLua
<1>5. ~GlobalReference(r) => SymbolOf(r) \in Ids /\ ~Global(symbols[SymbolOf(r)])
                             /\ LuaBinds(symbols, r.env, r.name, SymbolOf(r))
    <2>1. SymbolOf(r) \in Ids \cup {0}
        BY <1>1, ReferenceSymbol
    <2> QED
        BY <1>1, <2>1, BoundAsLua DEF GlobalReference, Global
<1>6. \A A, m : /\ LuaBinds(symbols, r.env, A, m) /\ LuaBinds(symbols, r.env, A, i) => m = i
                /\ LuaBinds(syms, r.env, A, m) /\ LuaBinds(syms, r.env, A, i) => m = i
    BY <1>1, OneLatest
<1>7. CASE r.name = old /\ GlobalReference(r)
    <2>1. \A m \in r.env : symbols[m].name # new
        <3>1. SymbolOf(r) \in Ids \cup {0}
            BY <1>1, ReferenceSymbol
        <3>2. Resolve(symbols, ScopeAt(r.at), new, r.at) = 0
            BY <1>1, <1>3, <1>7, <3>1, SiteOfReference
        <3>3. Resolve(symbols, r.scope, new, r.at) = 0
            <4>1. SeenFrom(r.at, r.scope) /\ DOMAIN symbols = Ids
                BY DEF PInv, Ids
            <4> QED
                BY <1>1, <3>2, <4>1, SeenAlike
        <3> QED
            BY <1>1, <3>3, NoneCaptures
    <2>2. ASSUME NEW m \in Ids, LuaBinds(symbols, r.env, old, m)
          PROVE  LuaBinds(syms, r.env, new, m)
        <3>1. Global(symbols[m])
            <4>1. SymbolOf(r) = m /\ m # 0
                BY <1>1, <1>4, <1>7, <2>2, TypeFacts
            <4> QED
                BY <1>7, <4>1 DEF GlobalReference
        <3> QED
            BY <1>1, <1>2, <2>1, <2>2, <3>1 DEF LuaBinds
    <2>3. ASSUME LuaBinds(syms, r.env, new, i)
          PROVE  LuaBinds(symbols, r.env, old, i)
        <3>1. i \in r.env /\ symbols[i].name = old /\ symbols[i].kind # "star"
            BY <1>1, <1>2, <2>1, <2>3 DEF LuaBinds
        <3>2. PICK m \in r.env : LuaBinds(symbols, r.env, old, m)
            BY <1>1, <3>1, OneIsLatest
        <3> QED
            BY <1>1, <1>6, <2>2, <2>3, <3>2
    <2> QED
        BY <1>3, <1>7, <2>2, <2>3
<1>8. CASE ~GlobalReference(r)
    <2> DEFINE s == SymbolOf(r)
    <2>1. s \in Ids /\ ~Global(symbols[s]) /\ LuaBinds(symbols, r.env, r.name, s)
        BY <1>5, <1>8
    <2> HIDE DEF s
    <2>2. s \in r.env /\ symbols[s].name = r.name /\ syms[s].name = r.name /\ syms[s].kind # "star"
        BY <1>2, <2>1 DEF LuaBinds
    <2>3. ASSUME NEW m \in r.env, syms[m].name = r.name, syms[m].kind # "star"
          PROVE  m <= s
        <3>1. CASE symbols[m].name = r.name
            BY <1>1, <1>2, <2>1, <2>3, <3>1 DEF LuaBinds
        <3>2. CASE symbols[m].name # r.name
            <4>1. Global(symbols[m]) /\ symbols[m].name = old /\ r.name = new
                BY <1>1, <1>2, <2>3, <3>2
            <4> QED
                BY <2>2, <4>1, NotCapturedLater
        <3> QED
            BY <3>1, <3>2
    <2>4. LuaBinds(syms, r.env, r.name, s)
        BY <2>2, <2>3 DEF LuaBinds
    <2> QED
        BY <1>3, <1>6, <1>8, <2>1, <2>4
<1>9. CASE r.name # old /\ GlobalReference(r)
    BY <1>1, <1>2, <1>3, <1>9 DEF LuaBinds
<1> QED
    BY <1>7, <1>8, <1>9

LEMMA GlobalRenameDefinition ==
    ASSUME Self \notin Names, IInv, PInv, NEW old \in Names, NEW new \in Names, old # new,
           ~GlobalRenameRefused(old, new), NEW n \in Ids, symbols[n].kind = "global",
           NEW env, env = symbols[n].env,
           NEW syms, syms = GlobalRenamed(old, new), NEW i \in Ids
    PROVE  LuaBinds(symbols, env, symbols[n].name, i)
             <=> LuaBinds(syms, env, IF symbols[n].start \in GlobalSites(old) THEN new ELSE symbols[n].name, i)
<1> DEFINE name == symbols[n].name
           place == symbols[n].start
<1>1. /\ Types /\ Global(symbols[n]) /\ Unbound(n)
      /\ \A m \in Ids :
          /\ syms[m].kind = symbols[m].kind
          /\ syms[m].name = IF Global(symbols[m]) /\ symbols[m].name = old THEN new ELSE symbols[m].name
    BY GlobalRenamedFacts, GlobalFacts DEF IInv, Global
<1>2. /\ env \in SUBSET Ids /\ Ordered(env)
      /\ \A m \in Ids : m \in env <=> /\ symbols[m].kind # "global" /\ symbols[m].from <= place
                                      /\ symbols[m].scope \in scopes[symbols[n].scope].up
      /\ \A m \in env : symbols[m].name # name
    BY <1>1 DEF Unbound
<1>3. /\ name # new
      /\ place \in GlobalSites(old) <=> name = old
      /\ \A p \in GlobalSites(old) : Resolve(symbols, SiteScope(p), new, p) = 0
    BY <1>1, GlobalNotRefused
<1>4. ~LuaBinds(symbols, env, name, i)
    BY <1>2 DEF LuaBinds
<1>5. CASE name = old
    <2>1. Resolve(symbols, symbols[n].scope, new, place) = 0
        BY <1>1, <1>3, <1>5, SiteOfGlobal
    <2>2. \A m \in env : symbols[m].name # new
        BY <1>2, <2>1, NoneCaptures
    <2> QED
        BY <1>1, <1>2, <1>3, <1>4, <1>5, <2>2 DEF LuaBinds
<1>6. CASE name # old
    <2>1. ASSUME NEW m \in env
          PROVE  syms[m].name # name
        <3>1. m \in Ids /\ symbols[m].name # name /\ new # name
            BY <1>2, <1>3
        <3>2. syms[m].name = new \/ syms[m].name = symbols[m].name
            BY <1>1, <3>1
        <3> QED
            BY <3>1, <3>2
    <2>2. ~LuaBinds(syms, env, name, i)
        BY <2>1 DEF LuaBinds
    <2> QED
        BY <1>3, <1>4, <1>6, <2>2
<1> QED
    BY <1>5, <1>6

LEMMA GlobalRenameSound ==
    ASSUME Self \notin Names, IInv, PInv
    PROVE  GlobalRenameKeepsBindings
<1> SUFFICES ASSUME NEW old \in Names, NEW new \in Names, old # new, ~GlobalRenameRefused(old, new)
             PROVE  /\ \A k \in DOMAIN refs :
                          SameBindings(GlobalRenamed(old, new), refs[k].env, refs[k].name,
                              IF refs[k].at \in GlobalSites(old) THEN new ELSE refs[k].name)
                    /\ \A n \in Ids : symbols[n].kind = "global" =>
                          SameBindings(GlobalRenamed(old, new), symbols[n].env, symbols[n].name,
                              IF symbols[n].start \in GlobalSites(old) THEN new ELSE symbols[n].name)
    BY DEF GlobalRenameKeepsBindings, GlobalRenamed
<1>1. ASSUME NEW k \in DOMAIN refs
      PROVE  SameBindings(GlobalRenamed(old, new), refs[k].env, refs[k].name,
                 IF refs[k].at \in GlobalSites(old) THEN new ELSE refs[k].name)
    BY GlobalRenameReference DEF SameBindings
<1>2. ASSUME NEW n \in Ids, symbols[n].kind = "global"
      PROVE  SameBindings(GlobalRenamed(old, new), symbols[n].env, symbols[n].name,
                 IF symbols[n].start \in GlobalSites(old) THEN new ELSE symbols[n].name)
    BY <1>2, GlobalRenameDefinition DEF SameBindings
<1> QED
    BY <1>1, <1>2

-----------------------------------------------------------------------------
(* What the finished scope tree says of a place stays what it was.         *)

ScopesKept ==
    /\ \A s \in DOMAIN scopes :
          /\ scopes'[s].start = scopes[s].start /\ scopes'[s].owner = scopes[s].owner
          /\ scopes'[s].end = scopes[s].end \/ (scopes[s].end = 0 /\ scopes'[s].end = at')
    /\ \A s \in DOMAIN scopes' \ DOMAIN scopes : at < scopes'[s].start

\* A step records at most one reference, and past what was walked before.
RefsGrow ==
    /\ DOMAIN refs \subseteq DOMAIN refs' /\ \A k \in DOMAIN refs : refs'[k] = refs[k]
    /\ \A k, m \in DOMAIN refs' \ DOMAIN refs : k = m
    /\ \A k \in DOMAIN refs' \ DOMAIN refs :
          /\ at < refs'[k].at /\ refs'[k].env \subseteq Ids
          /\ \A p, s : p = refs'[k].at /\ s = refs'[k].scope => SeenFrom(p, s)'

\* A symbol stands past what was walked before, or where an open construct began.
SymbolsGrow ==
    /\ \A i \in Fresh :
          /\ symbols'[i].start <= at'
          /\ symbols'[i].kind \in LexicalKinds \cup {"global"} => symbols'[i].name \in Names
          /\ \/ at < symbols'[i].start
             \/ \E l \in DOMAIN stack : stack[l].declares /\ symbols'[i].start = stack[l].start
    /\ \A l \in DOMAIN stack' : stack'[l].declares =>
          \/ at < stack'[l].start
          \/ \E m \in DOMAIN stack : stack[m].declares /\ stack'[l].start = stack[m].start

LEMMA ScopeNumbers ==
    ASSUME Types
    PROVE  \A s \in DOMAIN scopes : s \in Nat /\ scopes[s].start \in Nat /\ scopes[s].end \in Nat
<1>1. DOMAIN scopes \subseteq Nat /\ \A s \in DOMAIN scopes : scopes[s] \in ScopeRecords
    BY TypeFacts DEF Types
<1> QED
    BY <1>1 DEF ScopeRecords

LEMMA ScopesAtKept ==
    ASSUME IInv, Grows, ScopesKept, NEW place \in Nat, place <= at
    PROVE  ScopesAt(place)' = ScopesAt(place)
<1>1. at \in Nat /\ at' \in Nat /\ at < at' /\ DOMAIN scopes \subseteq DOMAIN scopes'
    BY DEF IInv, Types, Grows
<1>2. /\ \A s \in DOMAIN scopes : scopes[s].start \in Nat /\ scopes[s].end \in Nat
      /\ \A s \in DOMAIN scopes' : scopes'[s].start \in Nat
    <2>1. Types /\ Types'
        BY DEF IInv, Grows
    <2>2. \A s \in DOMAIN scopes' : scopes'[s] \in ScopeRecords
        BY <2>1 DEF Types
    <2> QED
        BY <2>1, <2>2, ScopeNumbers DEF ScopeRecords
<1>3. ASSUME NEW s \in DOMAIN scopes
      PROVE  s \in ScopesAt(place)' <=> s \in ScopesAt(place)
    <2>1. scopes'[s].start = scopes[s].start
        BY DEF ScopesKept
    <2>2. (scopes'[s].end = 0 \/ place <= scopes'[s].end) <=> (scopes[s].end = 0 \/ place <= scopes[s].end)
        BY <1>1, <1>2 DEF ScopesKept
    <2> QED
        BY <1>1, <2>1, <2>2 DEF ScopesAt
<1>4. ASSUME NEW s \in DOMAIN scopes', s \notin DOMAIN scopes
      PROVE  s \notin ScopesAt(place)'
    <2>1. at < scopes'[s].start /\ scopes'[s].start \in Nat
        BY <1>2, <1>4 DEF ScopesKept
    <2>2. ~(scopes'[s].start <= place)
        BY <1>1, <2>1
    <2> QED
        BY <2>2 DEF ScopesAt
<1>5. ScopesAt(place)' \subseteq DOMAIN scopes' /\ ScopesAt(place) \subseteq DOMAIN scopes
    BY DEF ScopesAt
<1> QED
    BY <1>3, <1>4, <1>5

LEMMA InnermostKept ==
    ASSUME IInv, Grows, ScopesKept, NEW place \in Nat, place <= at, NEW t, Innermost(place, t)
    PROVE  Innermost(place, t)'
<1>1. ScopesAt(place)' = ScopesAt(place)
    BY ScopesAtKept
<1> QED
    BY <1>1 DEF Innermost

LEMMA SeenKept ==
    ASSUME IInv, Grows, ScopesKept, NEW place \in Nat, place <= at, NEW s \in DOMAIN scopes, SeenFrom(place, s)
    PROVE  SeenFrom(place, s)'
<1>1. PICK t \in DOMAIN scopes :
        /\ Innermost(place, t)
        /\ \A i \in Ids : Sighted(i) /\ symbols[i].from <= place =>
              (symbols[i].scope \in scopes[t].up <=> symbols[i].scope \in scopes[s].up)
    BY DEF SeenFrom
<1>2. Innermost(place, t)'
    BY <1>1, InnermostKept
<1>3. /\ t \in DOMAIN scopes' /\ scopes'[t].up = scopes[t].up /\ scopes'[s].up = scopes[s].up
      /\ \A i \in Ids : symbols'[i] = symbols[i]
    BY DEF Grows
<1>4. ASSUME NEW i \in Ids', i \notin Ids, symbols'[i].kind # "global"
      PROVE  ~(symbols'[i].from <= place)
    <2>1. at < symbols'[i].from /\ symbols'[i].from \in Nat /\ at \in Nat
        BY <1>4, FreshTypes DEF Grows, Fresh, IInv, Types
    <2> QED
        BY <2>1
<1> QED
    BY <1>1, <1>2, <1>3, <1>4 DEF SeenFrom, Sighted

LEMMA GlobalKept ==
    ASSUME IInv, PInv, Grows, ScopesKept, RefsGrow, SymbolsGrow, NEW i \in Ids, Global(symbols[i])
    PROVE  GlobalPlaced(i)'
<1> DEFINE place == symbols[i].start
<1>1. /\ GlobalPlace(i) /\ Alone(i) /\ i \in Nat /\ place \in Nat /\ place <= at /\ at \in Nat
      /\ symbols[i].scope \in DOMAIN scopes
      /\ \A j \in Ids : j < i => symbols[j].from <= place
      /\ symbols[i].kind = "global" => Unbound(i) /\ OwnLater(i)
    BY GlobalFacts, SymbolNumbers DEF IInv, PInv, Types, SymbolsSound
<1>2. /\ symbols'[i] = symbols[i] /\ \A j \in Ids : symbols'[j] = symbols[j]
      /\ \A s \in DOMAIN scopes : scopes'[s].up = scopes[s].up /\ s \in DOMAIN scopes'
      /\ Ids \subseteq Ids'
    BY DEF Grows
<1> HIDE DEF place
<1>3. \A p : at < p => p # place
    BY <1>1
<1>4. GlobalPlace(i)'
    <2>1. PICK t \in DOMAIN scopes :
            /\ Innermost(place, t)
            /\ \/ t = symbols[i].scope /\ scopes[t].owner # i
               \/ /\ scopes[t].owner = i /\ symbols[i].scope < t
                  /\ scopes[t].up = scopes[symbols[i].scope].up \cup {t}
        BY <1>1 DEF GlobalPlace, place
    <2>2. Innermost(place, t)'
        <3>1. ASSUME NEW p, p = place
              PROVE  Innermost(p, t)'
            BY <1>1, <2>1, <3>1, InnermostKept
        <3>2. PICK p : p = place
            OBVIOUS
        <3>3. symbols'[i].start = p /\ Innermost(p, t)'
            BY <1>2, <3>1, <3>2 DEF place
        <3> QED
            BY <3>3 DEF place, Innermost, ScopesAt
    <2>3. scopes'[t].owner = scopes[t].owner /\ scopes'[t].up = scopes[t].up /\ t \in DOMAIN scopes'
        BY <1>2 DEF ScopesKept
    <2> QED
        BY <1>1, <1>2, <2>1, <2>2, <2>3 DEF GlobalPlace, place
<1>5. Alone(i)'
    <2>1. /\ \A j \in Ids \ {i} : symbols[j].start # place
          /\ \A k \in DOMAIN refs : refs[k].at # place
          /\ \A l \in DOMAIN stack : stack[l].declares => stack[l].start # place
        BY <1>1 DEF Alone, place
    <2>2. \A j \in Ids' \ {i} : symbols'[j].start # place
        BY <1>2, <1>3, <2>1 DEF SymbolsGrow, Fresh
    <2>3. \A k \in DOMAIN refs' : refs'[k].at # place
        BY <1>3, <2>1 DEF RefsGrow
    <2>4. \A l \in DOMAIN stack' : stack'[l].declares => stack'[l].start # place
        BY <1>3, <2>1 DEF SymbolsGrow
    <2> QED
        BY <1>2, <2>2, <2>3, <2>4 DEF Alone, place
<1>6. \A j \in Ids' : j < i => symbols'[j].from <= symbols'[i].start
    <2>1. \A j \in Ids' : j < i => j \in Ids
        BY SMTT(20), <1>1 DEF Ids, IInv, Types, Grows
    <2> QED
        BY <1>1, <1>2, <2>1 DEF place
<1>7. ASSUME symbols'[i].kind = "global"
      PROVE  Unbound(i)'
    <2>1. Unbound(i)
        BY <1>1, <1>2, <1>7
    <2>2. symbols[i].env \subseteq Ids /\ Ordered(symbols[i].env) /\ \A j \in symbols[i].env : symbols[j].name # symbols[i].name
        BY <2>1 DEF Unbound
    <2>3. \A j \in Ids' : j \notin Ids => symbols'[j].kind = "global" \/ ~(symbols'[j].from <= place)
        <3>1. ASSUME NEW j \in Ids', j \notin Ids, symbols'[j].kind # "global"
              PROVE  ~(symbols'[j].from <= place)
            <4>1. at < symbols'[j].from /\ symbols'[j].from \in Nat
                BY <3>1, FreshTypes DEF Grows, Fresh
            <4> QED
                BY <1>1, <4>1
        <3> QED
            BY <3>1
    <2>4. symbols[i].env = {j \in Ids' : /\ symbols'[j].kind # "global" /\ symbols'[j].from <= place
                                         /\ symbols'[j].scope \in scopes'[symbols[i].scope].up}
        BY <1>1, <1>2, <2>1, <2>3 DEF Unbound, place
    <2>5. Ordered(symbols[i].env)'
        BY <1>2, <2>2 DEF Ordered
    <2> QED
        BY <1>2, <2>2, <2>4, <2>5 DEF Unbound, place
<1>8. ASSUME symbols'[i].kind = "global"
      PROVE  OwnLater(i)'
    <2>1. OwnLater(i) /\ \A j \in Ids : symbols[j].scope \in DOMAIN scopes
        BY <1>1, <1>2, <1>8 DEF IInv, SymbolsSound
    <2>2. ASSUME NEW j \in Ids, symbols'[j].kind # "global", scopes'[symbols'[j].scope].owner = i
          PROVE  place < symbols'[j].from
        BY <1>2, <2>1, <2>2 DEF OwnLater, ScopesKept, place
    <2>3. ASSUME NEW j \in Ids', j \notin Ids, symbols'[j].kind # "global"
          PROVE  place < symbols'[j].from
        <3>1. at < symbols'[j].from /\ symbols'[j].from \in Nat
            BY <2>3, FreshTypes DEF Grows, Fresh
        <3> QED
            BY <1>1, <3>1
    <2> QED
        BY <1>2, <2>2, <2>3 DEF OwnLater, place
<1> QED
    BY <1>4, <1>5, <1>6, <1>7, <1>8 DEF GlobalPlaced

\* What a step has to show.
LEMMA Step ==
    ASSUME IInv, PInv, Grows, ScopesKept, RefsGrow, SymbolsGrow, Nested', Spans', Begun',
           \A i \in Fresh : Global(symbols'[i]) => GlobalPlaced(i)'
    PROVE  PInv'
<1>1. at \in Nat /\ at' \in Nat /\ at < at' /\ Ids \subseteq Ids' /\ \A i \in Ids : symbols'[i] = symbols[i]
    BY DEF IInv, Types, Grows
<1>2. ASSUME NEW i \in Ids'
      PROVE  /\ symbols'[i].start <= at'
             /\ symbols'[i].kind \in LexicalKinds \cup {"global"} => symbols'[i].name \in Names
             /\ Global(symbols[i])' => GlobalPlaced(i)'
    <2>1. CASE i \in Ids
        <3>1. /\ symbols[i].start <= at /\ symbols[i].start \in Nat
              /\ symbols[i].kind \in LexicalKinds \cup {"global"} => symbols[i].name \in Names
            BY <2>1, SymbolNumbers DEF PInv, IInv
        <3>2. Global(symbols[i]) => GlobalPlaced(i)'
            BY <2>1, GlobalKept
        <3> QED
            BY <1>1, <2>1, <3>1, <3>2 DEF Global
    <2>2. CASE i \notin Ids
        BY <2>2 DEF Fresh, SymbolsGrow, Global
    <2> QED
        BY <2>1, <2>2
<1>3. ASSUME NEW k \in DOMAIN refs', NEW p, NEW s, NEW e, p = refs'[k].at, s = refs'[k].scope, e = refs'[k].env
      PROVE  SeenFrom(p, s)' /\ \A i \in e : symbols'[i].start <= p
    <2>1. CASE k \in DOMAIN refs
        <3>1. /\ p = refs[k].at /\ s = refs[k].scope /\ e = refs[k].env /\ p \in Nat
              /\ p <= at /\ s \in DOMAIN scopes /\ e \subseteq Ids
            BY <1>3, <2>1, TypeFacts DEF RefsGrow, IInv, RefSound, RefSees
        <3>2. SeenFrom(p, s) /\ \A i \in e : symbols[i].start <= p
            BY <2>1, <3>1 DEF PInv
        <3> QED
            BY <1>1, <3>1, <3>2, SeenKept
    <2>2. CASE k \notin DOMAIN refs
        <3>1. at < p /\ e \subseteq Ids /\ SeenFrom(p, s)'
            BY <1>3, <2>2 DEF RefsGrow
        <3>2. p \in Nat
            <4>1. refs'[k] \in RefRecords
                BY DEF Grows, Types
            <4> QED
                BY <1>3, <4>1 DEF RefRecords
        <3>3. \A i \in Ids : symbols[i].start <= at /\ symbols[i].start \in Nat
            BY SymbolNumbers DEF PInv, IInv
        <3> QED
            BY <1>1, <3>1, <3>2, <3>3
    <2> QED
        BY <2>1, <2>2
<1>4. \A k, m \in DOMAIN refs' : refs'[k].at = refs'[m].at => k = m
    <2>1. \A k \in DOMAIN refs : refs[k].at <= at /\ refs[k].at \in Nat /\ refs'[k] = refs[k]
        BY TypeFacts DEF IInv, RefSound, RefsGrow
    <2>2. \A k \in DOMAIN refs' \ DOMAIN refs : at < refs'[k].at
        BY DEF RefsGrow
    <2>3. \A k \in DOMAIN refs, m \in DOMAIN refs' \ DOMAIN refs : refs'[k].at # refs'[m].at
        BY <1>1, <2>1, <2>2
    <2>4. \A k, m \in DOMAIN refs' \ DOMAIN refs : k = m
        BY DEF RefsGrow
    <2>5. \A k, m \in DOMAIN refs : refs[k].at = refs[m].at => k = m
        BY DEF PInv
    <2> QED
        BY <2>1, <2>3, <2>4, <2>5
<1>5. ASSUME NEW k \in DOMAIN refs'
      PROVE  SeenFrom(refs[k].at, refs[k].scope)' /\ \A i \in refs'[k].env : symbols'[i].start <= refs'[k].at
    BY <1>3 DEF SeenFrom, Sighted, Innermost, ScopesAt
<1> QED
    BY <1>2, <1>4, <1>5 DEF PInv

-----------------------------------------------------------------------------
(* Scopes open and end where the walk is.                                  *)

\* Past what was walked, the scopes around a place are those around the walk.
LEMMA OpenAt ==
    ASSUME IInv, PInv, NEW place \in Nat, at < place, NEW s \in DOMAIN scopes, scopes'[s] = scopes[s],
           s \in DOMAIN scopes'
    PROVE  s \in ScopesAt(place)' <=> s \in scopes[cur].up
<1>1. /\ at \in Nat /\ scopes[s].start \in Nat /\ scopes[s].end \in Nat /\ scopes[s].start <= at
      /\ s \in scopes[cur].up => scopes[s].end = 0
      /\ s \notin scopes[cur].up => 0 < scopes[s].end /\ scopes[s].end <= at
    BY ScopeNumbers DEF IInv, PInv, Spans, Types
<1>2. scopes[s].start <= place
    BY <1>1
<1>3. s \notin scopes[cur].up => ~(scopes[s].end = 0 \/ place <= scopes[s].end)
    BY <1>1
<1> QED
    BY <1>1, <1>2, <1>3 DEF ScopesAt

LEMMA StaysPlaced ==
    ASSUME IInv, PInv, Grows, scopes' = scopes, cur' = cur, stack' = stack
    PROVE  /\ ScopesKept /\ Nested' /\ Spans' /\ Begun'
           /\ \A place \in Nat : at < place => Innermost(place, cur)'
<1>1. at \in Nat /\ at' \in Nat /\ at < at'
    BY DEF IInv, Types, Grows
<1>2. Nested /\ Spans /\ Begun
    BY DEF PInv
<1>3. Nested' /\ ScopesKept
    BY <1>2 DEF Nested, ScopesKept
<1>4. Spans'
    <2>1. \A s \in DOMAIN scopes : scopes[s].start \in Nat /\ scopes[s].end \in Nat
        BY ScopeNumbers DEF IInv
    <2>2. ASSUME NEW s \in DOMAIN scopes
          PROVE  scopes[s].start <= at' /\ (scopes[s].end <= at => scopes[s].end <= at')
        BY <1>1, <1>2, <2>1 DEF Spans
    <2> QED
        BY <1>2, <2>2 DEF Spans
<1>5. Begun'
    <2>1. \A l \in DOMAIN stack : stack[l].start \in Nat
        <3>1. \A l \in DOMAIN stack : stack[l] \in Entries
            BY DEF IInv, Types
        <3> QED
            BY <3>1 DEF Entries
    <2>2. \A l \in DOMAIN stack : stack[l].start <= at'
        BY <1>1, <1>2, <2>1 DEF Begun
    <2> QED
        BY <1>2, <2>2 DEF Begun
<1>6. ASSUME NEW place \in Nat, at < place
      PROVE  Innermost(place, cur)'
    <2>1. \A s \in DOMAIN scopes : s \in ScopesAt(place)' <=> s \in scopes[cur].up
        BY <1>6, OpenAt
    <2>2. ScopesAt(place)' \subseteq DOMAIN scopes
        BY DEF ScopesAt
    <2>3. cur \in DOMAIN scopes /\ cur \in scopes[cur].up /\ \A t \in scopes[cur].up : t <= cur
        BY TreeFacts
    <2> QED
        BY <2>1, <2>2, <2>3 DEF Innermost
<1> QED
    BY <1>3, <1>4, <1>5, <1>6

LEMMA OpensPlaced ==
    ASSUME IInv, PInv, Grows, cur' = Len(scopes'), cur' \notin DOMAIN scopes,
           \A s \in DOMAIN scopes : scopes'[s] = scopes[s],
           \A s \in DOMAIN scopes' \ DOMAIN scopes :
              /\ scopes'[s].up = scopes[cur].up \cup ((Len(scopes) + 1) .. s)
              /\ scopes'[s].end = 0 /\ at < scopes'[s].start /\ scopes'[s].start <= at',
           \A l \in DOMAIN stack' :
              \/ l \in DOMAIN stack /\ stack'[l] = stack[l]
              \/ /\ stack'[l].scope = cur /\ stack'[l].start <= at'
                 /\ stack'[l].declares => stack'[l].name \in Names
    PROVE  ScopesKept /\ Nested' /\ Spans' /\ Begun'
<1>1. /\ at \in Nat /\ at' \in Nat /\ at < at' /\ Len(scopes) \in Nat /\ Len(scopes') \in Nat
      /\ DOMAIN scopes = 1 .. Len(scopes) /\ DOMAIN scopes' = 1 .. Len(scopes')
      /\ DOMAIN scopes \subseteq DOMAIN scopes'
    BY DEF IInv, Types, Grows
<1>2. Nested /\ Spans /\ Begun
    BY DEF PInv
<1>3. /\ cur \in DOMAIN scopes /\ cur \in scopes[cur].up
      /\ \A s \in DOMAIN scopes : scopes[s].up \subseteq DOMAIN scopes /\ \A t \in scopes[s].up : t <= s
    BY TreeFacts
<1>4. ScopesKept
    BY DEF ScopesKept
<1>5. Nested'
    <2>1. ASSUME NEW s \in DOMAIN scopes', NEW t \in scopes'[s].up
          PROVE  scopes'[t].up = {u \in scopes'[s].up : u <= t}
        <3>1. CASE s \in DOMAIN scopes
            BY <1>2, <1>3, <2>1, <3>1 DEF Nested
        <3>2. CASE s \notin DOMAIN scopes
            <4>1. scopes'[s].up = scopes[cur].up \cup ((Len(scopes) + 1) .. s)
                BY <3>2
            <4>2. CASE t \in scopes[cur].up
                <5>1. t \in DOMAIN scopes /\ scopes'[t].up = {u \in scopes[cur].up : u <= t}
                    BY <1>2, <1>3, <4>2 DEF Nested
                <5>2. \A u \in (Len(scopes) + 1) .. s : ~(u <= t)
                    BY <1>1, <5>1
                <5> QED
                    BY <4>1, <5>1, <5>2
            <4>3. CASE t \notin scopes[cur].up
                <5>1. /\ t \in (Len(scopes) + 1) .. s /\ t \in Nat /\ s \in Nat /\ t <= s
                      /\ t \in DOMAIN scopes' /\ t \notin DOMAIN scopes
                    BY SMTT(20), <1>1, <2>1, <4>1, <4>3
                <5>2. scopes'[t].up = scopes[cur].up \cup ((Len(scopes) + 1) .. t)
                    BY <5>1
                <5>3. \A u \in scopes[cur].up : u <= t
                    <6>1. \A u \in scopes[cur].up : u \in 1 .. Len(scopes)
                        BY <1>1, <1>3
                    <6> QED
                        BY <1>1, <5>1, <6>1
                <5>4. \A u : u \in (Len(scopes) + 1) .. t <=> u \in (Len(scopes) + 1) .. s /\ u <= t
                    BY <1>1, <5>1
                <5> QED
                    BY <4>1, <5>2, <5>3, <5>4
            <4> QED
                BY <4>2, <4>3
        <3> QED
            BY <3>1, <3>2
    <2> QED
        BY <2>1 DEF Nested
<1>6. /\ scopes'[cur'].up = scopes[cur].up \cup ((Len(scopes) + 1) .. cur')
      /\ \A s \in DOMAIN scopes : s \in scopes'[cur'].up <=> s \in scopes[cur].up
      /\ \A s \in DOMAIN scopes' : s \notin DOMAIN scopes => s \in scopes'[cur'].up
    <2>1. cur' \in DOMAIN scopes' \ DOMAIN scopes
        BY <1>1 DEF Grows, Tree
    <2>2. scopes'[cur'].up = scopes[cur].up \cup ((Len(scopes) + 1) .. cur')
        BY <2>1
    <2>3. \A s \in DOMAIN scopes : s \notin (Len(scopes) + 1) .. cur'
        BY <1>1
    <2>4. \A s \in DOMAIN scopes' : s \notin DOMAIN scopes => s \in (Len(scopes) + 1) .. cur'
        BY <1>1
    <2> QED
        BY <2>2, <2>3, <2>4
<1>7. Spans'
    <2>1. \A s \in DOMAIN scopes : scopes[s].start \in Nat /\ scopes[s].end \in Nat
        BY ScopeNumbers DEF IInv
    <2>2. ASSUME NEW s \in DOMAIN scopes
          PROVE  /\ scopes'[s].start <= at'
                 /\ s \in scopes'[cur'].up => scopes'[s].end = 0
                 /\ s \notin scopes'[cur'].up => 0 < scopes'[s].end /\ scopes'[s].end <= at'
        <3>1. /\ scopes[s].start <= at
              /\ s \in scopes[cur].up => scopes[s].end = 0
              /\ s \notin scopes[cur].up => 0 < scopes[s].end /\ scopes[s].end <= at
            BY <1>2 DEF Spans
        <3> QED
            BY SMTT(20), <1>1, <1>6, <2>1, <3>1
    <2>3. ASSUME NEW s \in DOMAIN scopes', s \notin DOMAIN scopes
          PROVE  /\ scopes'[s].start <= at' /\ scopes'[s].end = 0 /\ s \in scopes'[cur'].up
        BY <1>6, <2>3
    <2> QED
        BY <2>2, <2>3 DEF Spans
<1>8. Begun'
    <2>1. \A l \in DOMAIN stack : stack[l].start \in Nat
        <3>1. \A l \in DOMAIN stack : stack[l] \in Entries
            BY DEF IInv, Types
        <3> QED
            BY <3>1 DEF Entries
    <2>2. \A l \in DOMAIN stack :
            /\ stack[l].start <= at' /\ stack[l].scope \in scopes[cur].up
            /\ stack[l].declares => stack[l].name \in Names
        BY <1>1, <1>2, <2>1 DEF Begun
    <2> QED
        BY <1>3, <1>6, <2>2 DEF Begun
<1> QED
    BY <1>4, <1>5, <1>7, <1>8

\* The construct has a scope of its own from its first place, and a second one from its last.
TwoOpen(n, declares, owner) ==
    /\ ScopesKept /\ Nested' /\ Spans' /\ Begun' /\ at' = at + 4
    /\ n \in DOMAIN scopes' /\ n \notin DOMAIN scopes /\ cur < n
    /\ scopes'[n].up = scopes[cur].up \cup {n} /\ scopes'[n].owner = owner
    /\ \A place \in Nat : at < place /\ place <= at + 3 => Innermost(place, n)'
    /\ \A l \in DOMAIN stack' :
          \/ l \in DOMAIN stack /\ stack'[l] = stack[l]
          \/ stack'[l].declares = declares /\ at < stack'[l].start

LEMMA TwoPlaced ==
    ASSUME IInv, PInv, Grows, NEW kind \in {"block", "function"}, NEW now \in SUBSET Nat,
           NEW declares \in BOOLEAN, NEW name \in Names \cup {Self}, declares = FALSE \/ name \in Names,
           NEW owner \in Nat, OpenTwo(kind, now, declares, name, owner), NEW n, n = Len(scopes) + 1
    PROVE  TwoOpen(n, declares, owner)
<1> DEFINE a == [NewScope(kind, cur, n, at + 1) EXCEPT !.owner = owner]
           b == [kind |-> "block", up |-> a.up \cup {n + 1}, start |-> at + 4, end |-> 0, owner |-> 0]
           e == Enclosing(now, declares, name, at + 1)
<1>1. /\ scopes \in Seq(ScopeRecords) /\ Len(scopes) \in Nat /\ DOMAIN scopes = 1 .. Len(scopes)
      /\ cur \in DOMAIN scopes /\ cur \in Nat /\ at \in Nat /\ n \in Nat
      /\ stack \in Seq(Entries) /\ Len(stack) \in Nat /\ DOMAIN stack = 1 .. Len(stack)
    BY TypeFacts DEF IInv, Types, Tree
<1>2. /\ scopes' = scopes \o <<a, b>> /\ cur' = n + 1 /\ at' = at + 4
      /\ stack' = Append(stack, e)
    BY DEF OpenTwo
<1>3. NewScope(kind, cur, n, at + 1) =
        [kind |-> kind, up |-> scopes[cur].up \cup {n}, start |-> at + 1, end |-> 0, owner |-> 0]
    BY DEF NewScope
<1>4. /\ a \in ScopeRecords /\ a.up = scopes[cur].up \cup {n} /\ a.owner = owner /\ a.start = at + 1
      /\ a.end = 0
    <2>1. scopes[cur].up \cup {n} \in SUBSET Nat /\ at + 1 \in Nat /\ kind \in {"chunk", "block", "function"}
        <3>1. scopes[cur] \in ScopeRecords
            BY <1>1
        <3>2. scopes[cur].up \in SUBSET Nat
            BY <3>1 DEF ScopeRecords
        <3> QED
            BY <1>1, <3>2
    <2> QED
        BY <1>3, <2>1 DEF ScopeRecords
<1> HIDE DEF a
<1>5. b \in ScopeRecords /\ b.up = scopes[cur].up \cup {n, n + 1} /\ b.start = at + 4 /\ b.end = 0
    <2>1. a.up \in SUBSET Nat /\ n + 1 \in Nat /\ at + 4 \in Nat
        <3>1. a.up \in SUBSET Nat
            BY <1>4 DEF ScopeRecords
        <3>2. n + 1 \in Nat /\ at + 4 \in Nat
            BY <1>1
        <3> QED
            BY <3>1, <3>2
    <2>2. b.up = a.up \cup {n + 1} /\ b.start = at + 4 /\ b.end = 0 /\ b \in ScopeRecords
        BY <2>1 DEF ScopeRecords
    <2> QED
        BY <1>4, <2>2
<1> HIDE DEF b
<1>6. /\ scopes' \in Seq(ScopeRecords) /\ DOMAIN scopes' = 1 .. (Len(scopes) + 2)
      /\ Len(scopes') = Len(scopes) + 2
      /\ \A s \in 1 .. Len(scopes) : scopes'[s] = scopes[s]
      /\ scopes'[n] = a /\ scopes'[n + 1] = b
    <2>1. n + 1 = Len(scopes) + 2
        BY <1>1
    <2> QED
        BY SMTT(20), <1>1, <1>2, <1>4, <1>5, <2>1, TwoMore
<1>7. e \in Entries /\ e.scope = cur /\ e.declares = declares /\ e.name = name /\ e.start = at + 1
    BY <1>1 DEF Enclosing, Entries
<1> HIDE DEF e
<1>8. ASSUME NEW l \in DOMAIN stack'
      PROVE  (l \in DOMAIN stack /\ stack'[l] = stack[l]) \/ stack'[l] = e
    BY <1>1, <1>2, <1>7, OneMore
<1>9. \A s \in DOMAIN scopes' : s \notin DOMAIN scopes => s = n \/ s = n + 1
    BY SMTT(20), <1>1, <1>6
<1>10. ASSUME NEW s \in DOMAIN scopes', s \notin DOMAIN scopes
       PROVE  /\ scopes'[s].up = scopes[cur].up \cup ((Len(scopes) + 1) .. s)
              /\ scopes'[s].end = 0 /\ at < scopes'[s].start /\ scopes'[s].start <= at'
    <2>1. n .. n = {n} /\ n .. (n + 1) = {n, n + 1}
        BY <1>1
    <2>2. at < at + 1 /\ at + 1 <= at' /\ at < at + 4 /\ at + 4 <= at'
        BY <1>1, <1>2
    <2> QED
        BY <1>4, <1>5, <1>6, <1>9, <1>10, <2>1, <2>2
<1>11. cur' = Len(scopes') /\ cur' \notin DOMAIN scopes
    BY <1>1, <1>2, <1>6
<1>12. ASSUME NEW l \in DOMAIN stack'
       PROVE  \/ l \in DOMAIN stack /\ stack'[l] = stack[l]
              \/ /\ stack'[l].scope = cur /\ stack'[l].start <= at'
                 /\ stack'[l].declares => stack'[l].name \in Names
    <2>1. at + 1 <= at'
        BY <1>1, <1>2
    <2> QED
        BY <1>7, <1>8, <2>1
<1>13. ScopesKept /\ Nested' /\ Spans' /\ Begun'
    BY <1>1, <1>6, <1>10, <1>11, <1>12, OpensPlaced
<1>14. n \in DOMAIN scopes' /\ n \notin DOMAIN scopes /\ cur < n
    BY <1>1, <1>6
<1>15. ASSUME NEW place \in Nat, at < place, place <= at + 3
       PROVE  Innermost(place, n)'
    <2>1. ASSUME NEW s \in DOMAIN scopes
          PROVE  /\ s \in ScopesAt(place)' <=> s \in scopes[cur].up
                 /\ s <= n
        <3>1. s \in DOMAIN scopes' /\ scopes'[s] = scopes[s] /\ s <= n
            BY <1>1, <1>6
        <3> QED
            BY <1>15, <3>1, OpenAt
    <2>2. n \in ScopesAt(place)' /\ n <= n
        <3>1. scopes'[n].start <= place /\ scopes'[n].end = 0
            BY <1>1, <1>4, <1>6, <1>15
        <3> QED
            BY <1>1, <1>14, <3>1 DEF ScopesAt
    <2>3. n + 1 \notin ScopesAt(place)'
        <3>1. scopes'[n + 1].start = at + 4 /\ at \in Nat /\ place \in Nat /\ place <= at + 3
            BY <1>1, <1>5, <1>6, <1>15
        <3>2. ~(scopes'[n + 1].start <= place)
            BY <3>1
        <3> QED
            BY <3>2 DEF ScopesAt
    <2>4. ScopesAt(place)' \subseteq DOMAIN scopes'
        BY DEF ScopesAt
    <2> QED
        BY <1>9, <2>1, <2>2, <2>3, <2>4 DEF Innermost
<1>16. \A l \in DOMAIN stack' :
          \/ l \in DOMAIN stack /\ stack'[l] = stack[l]
          \/ stack'[l].declares = declares /\ at < stack'[l].start
    <2>1. at < at + 1
        BY <1>1
    <2> QED
        BY <1>7, <1>8, <2>1
<1> QED
    BY <1>2, <1>4, <1>6, <1>13, <1>14, <1>15, <1>16 DEF TwoOpen

-----------------------------------------------------------------------------
(* What a step records.                                                    *)

LEMMA NoNewRef ==
    ASSUME refs' = refs
    PROVE  RefsGrow
BY DEF RefsGrow

LEMMA NewRef ==
    ASSUME IInv, NEW name \in Names, NEW place \in Nat, at < place, NEW scope, NEW s \in Nat,
           refs' = Append(refs, ReferenceIn(name, scope, place, s)), SeenFrom(place, s)'
    PROVE  /\ RefsGrow
           /\ \A k \in DOMAIN refs' : (k \in DOMAIN refs /\ refs'[k] = refs[k]) \/ refs'[k].at = place
<1>1. /\ Types /\ refs \in Seq(RefRecords) /\ Len(refs) \in Nat /\ DOMAIN refs = 1 .. Len(refs)
      /\ active \subseteq Ids
    BY TypeFacts, Here DEF IInv, Types
<1>2. PICK r : r = ReferenceIn(name, scope, place, s)
    OBVIOUS
<1>3. r \in RefRecords /\ r.at = place /\ r.scope = s /\ r.env = active
    BY <1>1, <1>2, ReferenceFacts
<1>4. /\ DOMAIN refs' = 1 .. (Len(refs) + 1) /\ refs'[Len(refs) + 1] = r
      /\ \A k \in 1 .. Len(refs) : refs'[k] = refs[k]
    BY <1>1, <1>2, <1>3, OneMore
<1>5. /\ DOMAIN refs \subseteq DOMAIN refs' /\ DOMAIN refs' \ DOMAIN refs = {Len(refs) + 1}
    BY <1>1, <1>4
<1> QED
    BY <1>1, <1>3, <1>4, <1>5 DEF RefsGrow

LEMMA SeenHere ==
    ASSUME NEW place, NEW t \in DOMAIN scopes', Innermost(place, t)'
    PROVE  SeenFrom(place, t)'
BY DEF SeenFrom

\* The head of a function lies in the function's scope, where nothing is visible yet.
LEMMA SeenAtHead ==
    ASSUME NEW place, NEW t \in DOMAIN scopes', NEW s, Innermost(place, t)',
           scopes'[t].up = scopes'[s].up \cup {t},
           \A i \in Ids' : symbols'[i].kind \notin {"global", "self"} /\ symbols'[i].scope = t =>
                              ~(symbols'[i].from <= place)
    PROVE  SeenFrom(place, s)'
BY DEF SeenFrom, Sighted

LEMMA FreshGlobal ==
    ASSUME Self \notin Names, IInv, PInv, Grows, ScopesKept, NEW i \in Fresh,
           NEW place \in Nat, place = symbols'[i].start, at < place, GlobalPlace(i)',
           \A j \in Fresh : j # i => i < j /\ symbols'[j].start # place,
           \A k \in DOMAIN refs' : (k \in DOMAIN refs /\ refs'[k] = refs[k]) \/ refs'[k].at # place,
           \A l \in DOMAIN stack' : (l \in DOMAIN stack /\ stack'[l] = stack[l]) \/ ~stack'[l].declares,
           symbols'[i].kind = "global" =>
              /\ symbols'[i].env = active /\ symbols'[i].scope = cur /\ symbols'[i].name \in Names
              /\ Resolve(symbols, cur, symbols'[i].name, place) = 0
              /\ \A j \in Fresh : symbols'[j].kind = "global" \/ place < symbols'[j].from
    PROVE  GlobalPlaced(i)'
<1>1. /\ at \in Nat /\ Ids \subseteq Ids' /\ \A j \in Ids : symbols'[j] = symbols[j]
      /\ \A j \in Ids : /\ symbols[j].start \in Nat /\ symbols[j].start <= at
                        /\ symbols[j].from \in Nat /\ symbols[j].from <= at
      /\ Ids' \subseteq Nat /\ i \in Nat
    <2>1. Ids' \subseteq Nat
        BY FreshTypes DEF Grows
    <2> QED
        BY <2>1, SymbolNumbers DEF IInv, PInv, Types, SymbolsSound, Grows, Fresh
<1>2. Alone(i)'
    <2>1. \A j \in Ids' \ {i} : symbols'[j].start # place
        BY <1>1 DEF Fresh
    <2>2. \A k \in DOMAIN refs' : refs'[k].at # place
        <3>1. \A k \in DOMAIN refs : refs[k].at \in Nat /\ refs[k].at <= at
            BY TypeFacts DEF IInv, RefSound
        <3>2. \A k \in DOMAIN refs : refs[k].at # place
            BY <1>1, <3>1
        <3> QED
            BY <3>2
    <2>3. \A l \in DOMAIN stack' : stack'[l].declares => stack'[l].start # place
        <3>1. \A l \in DOMAIN stack : stack[l].start \in Nat /\ stack[l].start <= at
            <4>1. \A l \in DOMAIN stack : stack[l] \in Entries
                BY DEF IInv, Types
            <4> QED
                BY <4>1 DEF PInv, Begun, Entries
        <3>2. \A l \in DOMAIN stack : stack[l].start # place
            BY <1>1, <3>1
        <3> QED
            BY <3>2
    <2> QED
        BY <2>1, <2>2, <2>3 DEF Alone
<1>3. \A j \in Ids' : j < i => symbols'[j].from <= symbols'[i].start
    <2>1. ASSUME NEW j \in Ids', j < i
          PROVE  j \in Ids
        BY <1>1, <2>1 DEF Fresh
    <2>2. \A j \in Ids : symbols[j].from <= place
        BY <1>1
    <2> QED
        BY <1>1, <2>1, <2>2
<1>4. ASSUME symbols'[i].kind = "global"
      PROVE  Unbound(i)'
    <2>1. PICK name : name = symbols'[i].name
        OBVIOUS
    <2>2. /\ active \in SUBSET Ids /\ Ordered(active) /\ cur \in DOMAIN scopes
          /\ \A j \in Ids : j \in active <=> symbols[j].kind # "global" /\ symbols[j].scope \in scopes[cur].up
        BY Here DEF IInv, Actives, Sees
    <2>3. \A j \in Ids : symbols[j].from <= place
        BY <1>1
    <2>4. \A j \in active : symbols[j].name # name
        <3>1. PICK s : s = cur
            OBVIOUS
        <3>2. \A j \in Ids : j \in active <=> /\ symbols[j].kind # "global" /\ symbols[j].from <= place
                                              /\ symbols[j].scope \in scopes[s].up
            BY <2>2, <2>3, <3>1
        <3>3. name \in Names /\ Resolve(symbols, s, name, place) = 0
            BY <1>4, <2>1, <3>1
        <3> QED
            BY <2>2, <3>2, <3>3, NoneCaptures
    <2>5. scopes'[cur].up = scopes[cur].up
        BY <2>2 DEF Grows
    <2>6. \A j \in Ids' : j \notin Ids => \/ symbols'[j].kind = "global" \/ ~(symbols'[j].from <= place)
                                          \/ symbols'[j].scope \notin scopes[cur].up
        <3>1. \A j \in Ids' : symbols'[j].from \in Nat
            BY FreshTypes DEF Grows
        <3> QED
            BY <1>4, <3>1 DEF Fresh
    <2>7. active = {j \in Ids' : /\ symbols'[j].kind # "global" /\ symbols'[j].from <= place
                                 /\ symbols'[j].scope \in scopes'[cur].up}
        <3>1. ASSUME NEW j \in Ids
              PROVE  j \in active <=> /\ symbols'[j].kind # "global" /\ symbols'[j].from <= place
                                      /\ symbols'[j].scope \in scopes'[cur].up
            BY <1>1, <2>2, <2>3, <2>5
        <3>2. ASSUME NEW j \in Ids', j \notin Ids
              PROVE  j \notin active /\ ~(/\ symbols'[j].kind # "global" /\ symbols'[j].from <= place
                                         /\ symbols'[j].scope \in scopes'[cur].up)
            BY <2>2, <2>5, <2>6, <3>2
        <3> QED
            BY <1>1, <2>2, <3>1, <3>2
    <2>8. \A j, m \in active : symbols'[j].scope < symbols'[m].scope => j < m
        BY <1>1, <2>2 DEF Ordered
    <2> QED
        BY <1>1, <1>4, <2>1, <2>2, <2>4, <2>7, <2>8 DEF Unbound, Ordered
<1>5. ASSUME symbols'[i].kind = "global"
      PROVE  OwnLater(i)'
    <2>1. \A j \in Ids : symbols[j].scope \in DOMAIN scopes
        BY DEF IInv, SymbolsSound
    <2>2. \A s \in DOMAIN scopes : scopes'[s].owner \in Ids \cup {0}
        BY DEF IInv, Tree, ScopesKept
    <2>3. i \notin Ids /\ i # 0
        <3>1. 0 \notin Ids'
            BY TypeFacts DEF Grows, Types, Ids
        <3> QED
            BY <3>1 DEF Fresh
    <2>4. \A j \in Ids : scopes'[symbols'[j].scope].owner # i
        BY <1>1, <2>1, <2>2, <2>3
    <2> QED
        BY <1>5, <2>4 DEF OwnLater, Fresh
<1> QED
    BY <1>2, <1>3, <1>4, <1>5 DEF GlobalPlaced

\* A global in the scope of the walk, with no function of its own around it.
LEMMA GlobalPlaceHere ==
    ASSUME IInv, PInv, Grows, scopes' = scopes, cur' = cur, stack' = stack, NEW i \in Fresh,
           symbols'[i].scope = cur, symbols'[i].start \in Nat, at < symbols'[i].start
    PROVE  GlobalPlace(i)'
<1>1. PICK p : p = symbols'[i].start
    OBVIOUS
<1>2. PICK t : t = cur
    OBVIOUS
<1>3. Innermost(p, t)'
    <2>1. \A place \in Nat : at < place => Innermost(place, cur)'
        BY StaysPlaced
    <2> QED
        BY <1>1, <1>2, <2>1 DEF Innermost
<1>4. t \in DOMAIN scopes' /\ scopes'[t].owner # i
    <2>1. cur \in DOMAIN scopes /\ scopes[cur].owner \in Ids \cup {0} /\ i # 0
        <3>1. 0 \notin Ids'
            <4>1. symbols' \in Seq(SymbolRecords)
                BY DEF Grows, Types
            <4> QED
                BY <4>1 DEF Ids
        <3> QED
            BY <3>1 DEF IInv, Tree, Fresh
    <2> QED
        BY <1>2, <2>1 DEF Fresh
<1>5. Innermost(symbols[i].start, t)'
    BY <1>1, <1>3 DEF Innermost, ScopesAt
<1> QED
    BY <1>2, <1>4, <1>5 DEF GlobalPlace

\* A global that is the name of a function.
LEMMA GlobalPlaceHead ==
    ASSUME Grows, NEW i, NEW t \in DOMAIN scopes', cur < t, symbols'[i].scope = cur, cur \in DOMAIN scopes,
           scopes'[t].owner = i, scopes'[t].up = scopes[cur].up \cup {t},
           NEW p, p = symbols'[i].start, Innermost(p, t)'
    PROVE  GlobalPlace(i)'
<1>1. scopes'[symbols'[i].scope].up = scopes[cur].up
    BY DEF Grows
<1>2. Innermost(symbols[i].start, t)'
    BY DEF Innermost, ScopesAt
<1> QED
    BY <1>1, <1>2 DEF GlobalPlace

-----------------------------------------------------------------------------
(* The actions, again.                                                     *)

LEMMA NoNewSymbol ==
    ASSUME Types, symbols' = symbols,
           \A l \in DOMAIN stack' : stack'[l].declares =>
              at < stack'[l].start \/ (l \in DOMAIN stack /\ stack'[l] = stack[l])
    PROVE  Fresh = {} /\ SymbolsGrow
<1>1. Fresh = {}
    BY DEF Fresh, Ids
<1> QED
    BY <1>1 DEF SymbolsGrow

\* A reference in the scope of the walk.
LEMMA RefersPlaced ==
    ASSUME IInv, PInv, Grows, scopes' = scopes, cur' = cur, stack' = stack, NEW name \in Names,
           NEW place \in Nat, at < place, refs' = Append(refs, Reference(name, cur, place))
    PROVE  /\ RefsGrow
           /\ \A k \in DOMAIN refs' : (k \in DOMAIN refs /\ refs'[k] = refs[k]) \/ refs'[k].at = place
<1>1. PICK s : s = cur
    OBVIOUS
<1>2. s \in Nat /\ s \in DOMAIN scopes'
    BY <1>1, Here
<1>3. Innermost(place, s)'
    BY <1>1, StaysPlaced DEF Innermost
<1>4. SeenFrom(place, s)'
    BY <1>2, <1>3, SeenHere
<1>5. refs' = Append(refs, ReferenceIn(name, s, place, s))
    BY <1>1, PlainReference
<1> QED
    BY <1>2, <1>4, <1>5, NewRef

LEMMA ReferencePlaced ==
    ASSUME IInv, PInv, Grows, scopes' = scopes, cur' = cur, stack' = stack, symbols' = symbols,
           at' = at + 1, NEW name \in Names, refs' = Append(refs, Reference(name, cur, at + 1))
    PROVE  PInv'
<1>1. Fresh = {} /\ SymbolsGrow
    BY NoNewSymbol DEF IInv
<1>2. RefsGrow
    <2>1. at + 1 \in Nat /\ at < at + 1
        BY Here
    <2> QED
        BY <2>1, RefersPlaced
<1> QED
    BY <1>1, <1>2, StaysPlaced, Step

LEMMA IdentifierPlaced ==
    ASSUME IInv, PInv, Grows, NEW name \in Names, Identifier(name)
    PROVE  PInv'
BY ReferencePlaced DEF Identifier

LEMMA AssignmentPlaced ==
    ASSUME Self \notin Names, IInv, PInv, Grows, NEW name \in Names, Assignment(name)
    PROVE  PInv'
<1>1. CASE Defines(name, at + 1) /\ globals[name] = 0
    <2> DEFINE a == Symbol(name, "global", cur, at + 1, 0)
               n == Len(symbols) + 1
    <2>1. /\ symbols' = Append(symbols, a) /\ at' = at + 1
          /\ cur' = cur /\ scopes' = scopes /\ refs' = refs /\ stack' = stack
        BY <1>1 DEF Assignment
    <2>2. /\ a \in SymbolRecords /\ a.name = name /\ a.kind = "global" /\ a.scope = cur
          /\ a.start = at + 1 /\ a.env = active
        <3>1. name \in Names \cup {Self} /\ "global" \in Kinds /\ Types /\ cur \in Nat /\ at + 1 \in Nat /\ 0 \in Nat
            BY SymbolArgs
        <3> QED
            BY <3>1, SymbolFacts
    <2> HIDE DEF a
    <2>3. Fresh = {n} /\ symbols'[n] = a
        BY <2>1, <2>2, Here, OneSymbol
    <2>4. at + 1 \in Nat /\ at < at + 1 /\ at + 1 <= at'
        BY <2>1, Here
    <2>5. RefsGrow
        BY <2>1, NoNewRef
    <2>6. SymbolsGrow
        BY <2>1, <2>2, <2>3, <2>4 DEF SymbolsGrow
    <2>7. ASSUME NEW i \in Fresh
          PROVE  GlobalPlaced(i)'
        <3>1. i = n /\ symbols'[i] = a
            BY <2>3
        <3>2. GlobalPlace(i)'
            BY <2>1, <2>2, <2>4, <3>1, GlobalPlaceHere
        <3>3. PICK place \in Nat : place = at + 1
            BY <2>4
        <3>4. Resolve(symbols, cur, symbols'[i].name, place) = 0
            BY <1>1, <2>2, <3>1, <3>3 DEF Defines
        <3> QED
            BY <2>1, <2>2, <2>3, <2>4, <3>1, <3>2, <3>3, <3>4, StaysPlaced, FreshGlobal
    <2> QED
        BY <2>1, <2>5, <2>6, <2>7, StaysPlaced, Step
<1>2. CASE ~(Defines(name, at + 1) /\ globals[name] = 0)
    BY <1>2, ReferencePlaced DEF Assignment
<1> QED
    BY <1>1, <1>2

LEMMA VariableDeclarationPlaced ==
    ASSUME Self \notin Names, IInv, PInv, Grows, NEW kind \in {"local", "explicit"}, NEW name \in Names,
           NEW init \in Names, VariableDeclaration(kind, name, init)
    PROVE  PInv'
<1> DEFINE a == Symbol(name, kind, cur, at + 1, at + 3)
           n == Len(symbols) + 1
<1>1. /\ symbols' = Append(symbols, a) /\ refs' = Append(refs, Reference(init, cur, at + 2))
      /\ at' = at + 3 /\ cur' = cur /\ scopes' = scopes /\ stack' = stack
    BY DEF VariableDeclaration
<1>2. a \in SymbolRecords /\ a.name = name /\ a.kind = kind /\ a.scope = cur /\ a.start = at + 1
    <2>1. /\ name \in Names \cup {Self} /\ kind \in Kinds /\ Types
          /\ cur \in Nat /\ at + 1 \in Nat /\ at + 3 \in Nat
        BY SymbolArgs
    <2> QED
        BY <2>1 DEF Symbol, SymbolRecords, Types
<1> HIDE DEF a
<1>3. Fresh = {n} /\ symbols'[n] = a
    BY <1>1, <1>2, Here, OneSymbol
<1>4. /\ at + 1 \in Nat /\ at < at + 1 /\ at + 1 <= at'
      /\ at + 2 \in Nat /\ at < at + 2 /\ at + 1 # at + 2
    BY SMTT(20), <1>1, Here
<1>5. /\ RefsGrow
      /\ \A k \in DOMAIN refs' : (k \in DOMAIN refs /\ refs'[k] = refs[k]) \/ refs'[k].at = at + 2
    BY <1>1, <1>4, RefersPlaced
<1>6. SymbolsGrow
    BY <1>1, <1>2, <1>3, <1>4 DEF SymbolsGrow
<1>7. ASSUME NEW i \in Fresh
      PROVE  GlobalPlaced(i)'
    <2>1. i = n /\ symbols'[i] = a /\ symbols'[i].kind # "global"
        BY <1>2, <1>3
    <2>2. GlobalPlace(i)'
        BY <1>1, <1>2, <1>4, <2>1, GlobalPlaceHere
    <2>3. PICK place \in Nat : place = at + 1
        BY <1>4
    <2> QED
        BY SMTT(20), <1>1, <1>2, <1>3, <1>4, <1>5, <2>1, <2>2, <2>3, StaysPlaced, FreshGlobal
<1> QED
    BY <1>1, <1>5, <1>6, <1>7, StaysPlaced, Step

LEMMA GlobalStarPlaced ==
    ASSUME IInv, PInv, Grows, GlobalStar
    PROVE  PInv'
<1> DEFINE a == Symbol(Self, "star", cur, at + 1, at + 1)
           n == Len(symbols) + 1
<1>1. /\ symbols' = Append(symbols, a) /\ refs' = refs /\ at' = at + 1
      /\ cur' = cur /\ scopes' = scopes /\ stack' = stack
    BY DEF GlobalStar
<1>2. a \in SymbolRecords /\ a.kind = "star" /\ a.start = at + 1
    <2>1. Types /\ "star" \in Kinds /\ cur \in Nat /\ at + 1 \in Nat
        BY SymbolArgs
    <2> QED
        BY <2>1 DEF Symbol, SymbolRecords, Types
<1> HIDE DEF a
<1>3. Fresh = {n} /\ symbols'[n] = a
    BY <1>1, <1>2, Here, OneSymbol
<1>4. at < at + 1 /\ at + 1 <= at'
    BY <1>1, Here
<1>5. RefsGrow
    BY <1>1, NoNewRef
<1>6. SymbolsGrow
    BY <1>1, <1>2, <1>3, <1>4 DEF SymbolsGrow, LexicalKinds
<1>7. \A i \in Fresh : ~Global(symbols'[i])
    BY <1>2, <1>3 DEF Global
<1> QED
    BY <1>1, <1>5, <1>6, <1>7, StaysPlaced, Step

LEMMA OpenBlockPlaced ==
    ASSUME IInv, PInv, Grows, OpenBlock
    PROVE  PInv'
<1> DEFINE n == Len(scopes) + 1
           a == NewScope("block", cur, n, at + 1)
           e == Enclosing(active, FALSE, Self, 0)
<1>1. /\ scopes' = Append(scopes, a) /\ cur' = n /\ stack' = Append(stack, e)
      /\ at' = at + 1 /\ symbols' = symbols /\ refs' = refs
    BY DEF OpenBlock
<1>2. /\ scopes \in Seq(ScopeRecords) /\ Len(scopes) \in Nat /\ DOMAIN scopes = 1 .. Len(scopes)
      /\ cur \in DOMAIN scopes /\ at \in Nat /\ n \in Nat
      /\ stack \in Seq(Entries) /\ Len(stack) \in Nat /\ DOMAIN stack = 1 .. Len(stack)
    BY TypeFacts DEF IInv, Types, Tree
<1>3. a \in ScopeRecords /\ a.up = scopes[cur].up \cup {n} /\ a.start = at + 1 /\ a.end = 0
    <2>1. scopes[cur].up \in SUBSET Nat
        <3>1. scopes[cur] \in ScopeRecords
            BY <1>2
        <3> QED
            BY <3>1 DEF ScopeRecords
    <2>2. at + 1 \in Nat /\ scopes[cur].up \cup {n} \in SUBSET Nat
        BY <1>2, <2>1
    <2> QED
        BY <2>2 DEF NewScope, ScopeRecords
<1>4. e \in Entries /\ e.scope = cur /\ e.declares = FALSE /\ e.start = 0
    <2>1. active \in SUBSET Nat /\ cur \in Nat
        BY Here
    <2> QED
        BY <2>1 DEF Enclosing, Entries
<1> HIDE DEF a, e
<1>5. /\ DOMAIN scopes' = 1 .. n /\ Len(scopes') = n /\ scopes'[n] = a
      /\ \A s \in 1 .. Len(scopes) : scopes'[s] = scopes[s]
    BY <1>1, <1>2, <1>3, OneMore
<1>6. ASSUME NEW l \in DOMAIN stack'
      PROVE  (l \in DOMAIN stack /\ stack'[l] = stack[l]) \/ stack'[l] = e
    BY <1>1, <1>2, <1>4, OneMore
<1>7. Fresh = {} /\ SymbolsGrow
    BY <1>1, <1>4, <1>6, NoNewSymbol DEF IInv
<1>8. RefsGrow
    BY <1>1, NoNewRef
<1>9. ScopesKept /\ Nested' /\ Spans' /\ Begun'
    <2>1. \A s \in DOMAIN scopes' : s \notin DOMAIN scopes => s = n
        BY <1>2, <1>5
    <2>2. n .. n = {n} /\ at < at + 1 /\ at + 1 <= at' /\ 0 <= at'
        BY <1>1, <1>2
    <2>3. cur' = Len(scopes') /\ cur' \notin DOMAIN scopes
        BY <1>1, <1>2, <1>5
    <2> QED
        BY <1>2, <1>3, <1>4, <1>5, <1>6, <2>1, <2>2, <2>3, OpensPlaced
<1> QED
    BY <1>7, <1>8, <1>9, Step

LEMMA OpenForPlaced ==
    ASSUME IInv, PInv, Grows, NEW name \in Names, NEW init \in Names, OpenFor(name, init)
    PROVE  PInv'
<1>0. PICK c \in Nat, place \in Nat : c = Len(scopes) + 1 /\ place = at + 3
    BY SMTT(20), TypeFacts, SymbolArgs DEF IInv
<1> DEFINE a == Symbol(name, "local", c, at + 2, at + 4)
           n == Len(symbols) + 1
<1>1. /\ symbols' = Append(symbols, a) /\ refs' = Append(refs, ReferenceIn(init, cur, place, c))
      /\ OpenTwo("block", active, FALSE, Self, 0)
    BY <1>0 DEF OpenFor, ReferenceIn
<1>2. a \in SymbolRecords /\ a.name = name /\ a.kind = "local" /\ a.start = at + 2
    <2>1. /\ Types /\ "local" \in Kinds /\ at + 2 \in Nat /\ at + 4 \in Nat /\ c \in Nat
          /\ name \in Names \cup {Self}
        BY SymbolArgs, <1>0
    <2> QED
        BY <2>1 DEF Symbol, SymbolRecords, Types
<1> HIDE DEF a
<1>3. Fresh = {n} /\ symbols'[n] = a
    BY <1>1, <1>2, Here, OneSymbol
<1>4. TwoOpen(c, FALSE, 0)
    <2>1. active \in SUBSET Nat /\ 0 \in Nat /\ FALSE \in BOOLEAN /\ Self \in Names \cup {Self}
        BY Here
    <2>2. "block" \in {"block", "function"}
        OBVIOUS
    <2> QED
        BY ONLY IInv, PInv, Grows, <1>0, <1>1, <2>1, <2>2, TwoPlaced, Zenon
<1>5. /\ at < place /\ place <= at + 3 /\ at < at + 2 /\ at + 2 <= at'
    <2>1. at \in Nat /\ at' = at + 4
        BY <1>4, Here DEF TwoOpen
    <2> QED
        BY ONLY <1>0, <2>1
<1>6. SymbolsGrow
    BY <1>2, <1>3, <1>4, <1>5 DEF SymbolsGrow, TwoOpen
<1>7. RefsGrow
    <2>1. Innermost(place, c)' /\ c \in DOMAIN scopes'
        BY <1>4, <1>5 DEF TwoOpen
    <2>2. SeenFrom(place, c)'
        BY <2>1, SeenHere
    <2> QED
        BY <1>1, <1>5, <2>2, NewRef
<1>8. \A i \in Fresh : ~Global(symbols'[i])
    BY <1>2, <1>3 DEF Global
<1> QED
    BY <1>4, <1>6, <1>7, <1>8, Step DEF TwoOpen

LEMMA ParameterPlace ==
    ASSUME IInv, NEW name \in Names, NEW p, p = Parameter(name)
    PROVE  /\ p \in SymbolRecords /\ p.name = name /\ p.kind = "parameter" /\ p.scope = Len(scopes) + 1
           /\ p.start = at + 3 /\ p.from = at + 3
<1>1. Types /\ Len(scopes) + 1 \in Nat /\ at + 3 \in Nat /\ "parameter" \in Kinds
    BY SymbolArgs, TypeFacts DEF IInv
<1> QED
    BY <1>1 DEF Parameter, Symbol, SymbolRecords, Types

\* The name of a function that is a global.
LEMMA NamePlaced ==
    ASSUME IInv, Grows, NEW n \in Fresh, symbols'[n].scope = cur, symbols'[n].start = at + 2,
           NEW c, NEW declares, TwoOpen(c, declares, n)
    PROVE  GlobalPlace(n)'
<1>1. at + 2 \in Nat /\ at < at + 2 /\ at + 2 <= at + 3 /\ cur \in DOMAIN scopes
    <2>1. at \in Nat /\ cur \in DOMAIN scopes
        BY Here
    <2> QED
        BY <2>1
<1>2. PICK p \in Nat : p = at + 2
    BY <1>1
<1>3. /\ Innermost(p, c)' /\ c \in DOMAIN scopes' /\ cur < c
      /\ scopes'[c].owner = n /\ scopes'[c].up = scopes[cur].up \cup {c}
    BY <1>1, <1>2 DEF TwoOpen
<1> QED
    BY <1>1, <1>2, <1>3, GlobalPlaceHead

LEMMA DeclaredFunctionPlaced ==
    ASSUME Self \notin Names, IInv, PInv, Grows, NEW kind \in {"function", "explicit"}, NEW name \in Names,
           NEW param \in Names, DeclaredFunction(kind, name, param)
    PROVE  PInv'
<1>0. PICK c \in Nat, n \in Nat : c = Len(scopes) + 1 /\ n = Len(symbols) + 1
    BY TypeFacts, Here DEF IInv
<1> DEFINE a == Symbol(name, kind, cur, at + 2, at + 1)
           p == Parameter(param)
<1>1. /\ symbols' = symbols \o <<a, p>> /\ refs' = refs
      /\ OpenTwo("function", active \cup {n}, FALSE, Self, n)
    BY <1>0 DEF DeclaredFunction
<1>2. a \in SymbolRecords /\ a.name = name /\ a.kind = kind /\ a.scope = cur /\ a.start = at + 2
    <2>1. /\ Types /\ kind \in Kinds /\ at + 1 \in Nat /\ at + 2 \in Nat /\ cur \in Nat
          /\ name \in Names \cup {Self}
        BY SymbolArgs
    <2> QED
        BY <2>1 DEF Symbol, SymbolRecords, Types
<1>3. p \in SymbolRecords /\ p.name = param /\ p.kind = "parameter" /\ p.start = at + 3
    BY ParameterPlace
<1> HIDE DEF a, p
<1>4. Fresh = {n, n + 1} /\ symbols'[n] = a /\ symbols'[n + 1] = p
    <2>1. n + 1 = Len(symbols) + 2 /\ n \in Nat /\ Types
        BY <1>0, Here
    <2> QED
        BY <1>0, <1>1, <1>2, <1>3, <2>1, TwoSymbols
<1>5. TwoOpen(c, FALSE, n)
    <2>1. /\ active \cup {n} \in SUBSET Nat /\ FALSE \in BOOLEAN /\ Self \in Names \cup {Self}
          /\ "function" \in {"block", "function"}
        BY <1>0, Here
    <2> QED
        BY ONLY IInv, PInv, Grows, <1>0, <1>1, <2>1, TwoPlaced, Zenon
<1>6. /\ at + 2 \in Nat /\ at < at + 2 /\ at < at + 3 /\ at + 2 <= at' /\ at + 3 <= at' /\ at + 3 # at + 2
      /\ n < n + 1
    <2>1. at \in Nat /\ n \in Nat /\ at' = at + 4
        BY <1>0, <1>5, Here DEF TwoOpen
    <2> QED
        BY <2>1
<1>7. SymbolsGrow
    BY <1>2, <1>3, <1>4, <1>5, <1>6 DEF SymbolsGrow, TwoOpen
<1>8. RefsGrow
    BY <1>1, NoNewRef
<1>9. ASSUME NEW i \in Fresh, Global(symbols'[i])
      PROVE  GlobalPlaced(i)'
    <2>1. i = n /\ symbols'[i] = a /\ symbols'[i].kind # "global"
        BY <1>2, <1>3, <1>4, <1>9 DEF Global
    <2>2. GlobalPlace(i)'
        BY <1>2, <1>5, <2>1, NamePlaced
    <2>3. PICK place \in Nat : place = at + 2
        BY <1>6
    <2>4. \A j \in Fresh : j # i => i < j /\ symbols'[j].start # place
        BY <1>3, <1>4, <1>6, <2>1, <2>3
    <2>5. \A l \in DOMAIN stack' : (l \in DOMAIN stack /\ stack'[l] = stack[l]) \/ ~stack'[l].declares
        BY <1>5 DEF TwoOpen
    <2>6. \A k \in DOMAIN refs' : (k \in DOMAIN refs /\ refs'[k] = refs[k]) \/ refs'[k].at # place
        BY <1>1
    <2>7. place = symbols'[i].start /\ at < place
        BY <1>2, <1>6, <2>1, <2>3
    <2>8. ScopesKept
        BY <1>5 DEF TwoOpen
    <2> QED
        BY <2>1, <2>2, <2>4, <2>5, <2>6, <2>7, <2>8, FreshGlobal, Zenon
<1> QED
    BY <1>5, <1>7, <1>8, <1>9, Step DEF TwoOpen

LEMMA OpenInitializerPlaced ==
    ASSUME IInv, PInv, Grows, NEW name \in Names, NEW param \in Names, OpenInitializer(name, param)
    PROVE  PInv'
<1>0. PICK c \in Nat : c = Len(scopes) + 1
    BY TypeFacts DEF IInv
<1> DEFINE p == Parameter(param)
           n == Len(symbols) + 1
<1>1. /\ symbols' = Append(symbols, p) /\ refs' = refs
      /\ OpenTwo("function", active, TRUE, name, 0)
    BY DEF OpenInitializer
<1>2. p \in SymbolRecords /\ p.name = param /\ p.kind = "parameter" /\ p.start = at + 3
    BY ParameterPlace
<1> HIDE DEF p
<1>3. Fresh = {n} /\ symbols'[n] = p
    BY <1>1, <1>2, Here, OneSymbol
<1>4. TwoOpen(c, TRUE, 0)
    <2>1. /\ active \in SUBSET Nat /\ TRUE \in BOOLEAN /\ name \in Names \cup {Self} /\ 0 \in Nat
          /\ "function" \in {"block", "function"} /\ name \in Names
        BY Here
    <2> QED
        BY ONLY IInv, PInv, Grows, <1>0, <1>1, <2>1, TwoPlaced, Zenon
<1>5. at < at + 3 /\ at + 3 <= at'
    <2>1. at \in Nat /\ at' = at + 4
        BY <1>4, Here DEF TwoOpen
    <2> QED
        BY <2>1
<1>6. SymbolsGrow
    BY <1>2, <1>3, <1>4, <1>5 DEF SymbolsGrow, TwoOpen
<1>7. RefsGrow
    BY <1>1, NoNewRef
<1>8. \A i \in Fresh : ~Global(symbols'[i])
    BY <1>2, <1>3 DEF Global
<1> QED
    BY <1>4, <1>6, <1>7, <1>8, Step DEF TwoOpen

\* A reference in the head of a function.
LEMMA HeadRefers ==
    ASSUME IInv, Grows, NEW name \in Names, NEW c, NEW declares, NEW owner, TwoOpen(c, declares, owner),
           \A i \in Fresh : symbols'[i].kind \notin {"global", "self"} => symbols'[i].from = at + 3,
           refs' = Append(refs, Reference(name, cur, at + 2))
    PROVE  RefsGrow
<1>1. PICK place \in Nat, s \in Nat :
         place = at + 2 /\ at < place /\ place <= at + 3 /\ ~(at + 3 <= place) /\ s = cur
    <2>1. at \in Nat /\ cur \in Nat
        BY Here
    <2> QED
        BY SMTT(20), <2>1
<1>2. Innermost(place, c)' /\ c \in DOMAIN scopes' /\ c \notin DOMAIN scopes
    BY <1>1 DEF TwoOpen
<1>3. scopes'[c].up = scopes'[s].up \cup {c}
    <2>1. s \in DOMAIN scopes /\ scopes'[s].up = scopes[s].up
        BY <1>1, Here DEF Grows
    <2> QED
        BY <1>1, <2>1 DEF TwoOpen
<1>4. ASSUME NEW i \in Ids', symbols'[i].kind \notin {"global", "self"}, symbols'[i].scope = c
      PROVE  ~(symbols'[i].from <= place)
    <2>1. i \notin Ids
        BY <1>2, <1>4 DEF IInv, SymbolsSound, Grows
    <2> QED
        BY <1>1, <1>4, <2>1 DEF Fresh
<1>5. SeenFrom(place, s)'
    BY <1>2, <1>3, <1>4, SeenAtHead
<1>6. refs' = Append(refs, ReferenceIn(name, s, place, s))
    BY <1>1, PlainReference
<1> QED
    BY <1>1, <1>5, <1>6, NewRef

LEMMA FunctionStatementPlaced ==
    ASSUME Self \notin Names, IInv, PInv, Grows, NEW name \in Names, NEW param \in Names,
           FunctionStatement(name, param)
    PROVE  PInv'
<1>0. PICK c \in Nat, n \in Nat, place \in Nat :
         c = Len(scopes) + 1 /\ n = Len(symbols) + 1 /\ place = at + 2
    <2>1. Len(scopes) + 1 \in Nat /\ Len(symbols) + 1 \in Nat /\ at + 2 \in Nat
        BY TypeFacts, Here DEF IInv
    <2> QED
        BY <2>1
<1> DEFINE a == Symbol(name, "global", cur, at + 2, 0)
           p == Parameter(param)
           s == Resolve(symbols, cur, name, at + 2)
<1>1. /\ a \in SymbolRecords /\ a.name = name /\ a.kind = "global" /\ a.scope = cur
      /\ a.start = at + 2 /\ a.env = active
    <2>1. /\ Types /\ "global" \in Kinds /\ 0 \in Nat /\ at + 2 \in Nat /\ cur \in Nat
          /\ name \in Names \cup {Self}
        BY SymbolArgs
    <2> QED
        BY <2>1 DEF Symbol, SymbolRecords, Types
<1>2. /\ p \in SymbolRecords /\ p.name = param /\ p.kind = "parameter" /\ p.start = at + 3
      /\ p.from = at + 3
    BY ParameterPlace
<1>3. /\ active \in SUBSET Nat /\ FALSE \in BOOLEAN /\ Self \in Names \cup {Self} /\ Types
      /\ "function" \in {"block", "function"}
    BY Here
<1> HIDE DEF a, p
<1>4. ASSUME TwoOpen(c, FALSE, n) \/ TwoOpen(c, FALSE, s)
      PROVE  /\ at < at + 2 /\ at < at + 3 /\ at + 2 <= at' /\ at + 3 <= at' /\ at + 3 # at + 2
             /\ ScopesKept /\ Nested' /\ Spans' /\ Begun' /\ at + 2 < at + 3
             /\ \A l \in DOMAIN stack' : (l \in DOMAIN stack /\ stack'[l] = stack[l]) \/ ~stack'[l].declares
    <2>1. at \in Nat /\ at' = at + 4
        BY <1>4, Here DEF TwoOpen
    <2> QED
        BY <1>4, <2>1 DEF TwoOpen
<1>5. CASE Defines(name, at + 2)
    <2>1. /\ symbols' = symbols \o <<a, p>> /\ refs' = refs
          /\ OpenTwo("function", active, FALSE, Self, n)
        BY <1>0, <1>5 DEF FunctionStatement, a, p
    <2>2. Fresh = {n, n + 1} /\ symbols'[n] = a /\ symbols'[n + 1] = p /\ n < n + 1
        <3>1. n + 1 = Len(symbols) + 2 /\ n < n + 1
            BY <1>0, Here
        <3>2. Fresh = {n, n + 1} /\ symbols'[n] = a /\ symbols'[n + 1] = p
            BY <1>0, <1>1, <1>2, <1>3, <2>1, <3>1, TwoSymbols
        <3> QED
            BY <3>1, <3>2
    <2>3. TwoOpen(c, FALSE, n)
        BY ONLY IInv, PInv, Grows, <1>0, <1>3, <2>1, TwoPlaced, Zenon
    <2>4. SymbolsGrow
        BY <1>1, <1>2, <1>4, <2>2, <2>3 DEF SymbolsGrow
    <2>5. RefsGrow
        BY <2>1, NoNewRef
    <2>6. ASSUME NEW i \in Fresh, Global(symbols'[i])
          PROVE  GlobalPlaced(i)'
        <3>1. i = n /\ symbols'[i] = a
            BY <1>2, <2>2, <2>6 DEF Global
        <3>2. GlobalPlace(i)'
            BY <1>1, <2>3, <3>1, NamePlaced
        <3>3. \A j \in Fresh : j # i => i < j /\ symbols'[j].start # place
            BY <1>0, <1>2, <1>4, <2>2, <2>3, <3>1
        <3>4. \A l \in DOMAIN stack' : (l \in DOMAIN stack /\ stack'[l] = stack[l]) \/ ~stack'[l].declares
            BY <1>4, <2>3
        <3>5. \A k \in DOMAIN refs' : (k \in DOMAIN refs /\ refs'[k] = refs[k]) \/ refs'[k].at # place
            BY <2>1
        <3>6. place = symbols'[i].start /\ at < place
            BY <1>0, <1>1, <1>4, <2>3, <3>1
        <3>7. /\ symbols'[i].env = active /\ symbols'[i].scope = cur /\ symbols'[i].name \in Names
              /\ Resolve(symbols, cur, symbols'[i].name, place) = 0
            BY <1>0, <1>1, <1>5, <3>1 DEF Defines
        <3>8. \A j \in Fresh : symbols'[j].kind = "global" \/ place < symbols'[j].from
            BY <1>0, <1>1, <1>2, <1>4, <2>2, <2>3
        <3>9. ScopesKept
            BY <1>4, <2>3
        <3> QED
            BY <3>2, <3>3, <3>4, <3>5, <3>6, <3>7, <3>8, <3>9, FreshGlobal, Zenon
    <2> QED
        BY <1>4, <2>3, <2>4, <2>5, <2>6, Step
<1>6. CASE ~Defines(name, at + 2)
    <2>1. /\ symbols' = Append(symbols, p)
          /\ refs' = IF s = 0 THEN refs ELSE Append(refs, Reference(name, cur, at + 2))
          /\ OpenTwo("function", active, FALSE, Self, s)
        BY <1>6 DEF FunctionStatement, p
    <2>2. Fresh = {n} /\ symbols'[n] = p
        BY <1>0, <1>2, <1>3, <2>1, OneSymbol
    <2>3. s \in Nat
        <3>1. s \in Ids \cup {0}
            BY ResolveInIds
        <3> HIDE DEF s
        <3> QED
            BY <3>1, Here
    <2> HIDE DEF s
    <2>4. TwoOpen(c, FALSE, s)
        <3>1. PICK o \in Nat : o = s
            BY <2>3
        <3>2. TwoOpen(c, FALSE, o)
            BY ONLY IInv, PInv, Grows, <1>0, <1>3, <2>1, <3>1, TwoPlaced, Zenon
        <3> QED
            BY <3>1, <3>2
    <2>5. SymbolsGrow
        BY <1>2, <1>4, <2>2, <2>4 DEF SymbolsGrow
    <2>6. RefsGrow
        <3>1. CASE s = 0
            BY <2>1, <3>1, NoNewRef
        <3>2. CASE s # 0
            <4>1. \A i \in Fresh : symbols'[i].kind \notin {"global", "self"} => symbols'[i].from = at + 3
                BY <1>2, <2>2
            <4> QED
                BY <2>1, <2>4, <3>2, <4>1, HeadRefers
        <3> QED
            BY <3>1, <3>2
    <2>7. \A i \in Fresh : ~Global(symbols'[i])
        BY <1>2, <2>2 DEF Global
    <2> QED
        BY <1>4, <2>4, <2>5, <2>6, <2>7, Step
<1> QED
    BY <1>5, <1>6

LEMMA MethodPlaced ==
    ASSUME IInv, PInv, Grows, NEW name \in Names, NEW param \in Names, Method(name, param)
    PROVE  PInv'
<1>0. PICK c \in Nat, n \in Nat : c = Len(scopes) + 1 /\ n = Len(symbols) + 1
    BY TypeFacts, Here DEF IInv
<1> DEFINE a == Symbol(Self, "self", c, at + 2, at + 2)
           p == Parameter(param)
<1>1. /\ symbols' = symbols \o <<a, p>> /\ refs' = Append(refs, Reference(name, cur, at + 2))
      /\ OpenTwo("function", active, FALSE, Self, 0)
    BY <1>0 DEF Method
<1>2. a \in SymbolRecords /\ a.kind = "self" /\ a.start = at + 2
    <2>1. Types /\ "self" \in Kinds /\ c \in Nat /\ at + 2 \in Nat /\ Self \in Names \cup {Self}
        BY <1>0, SymbolArgs
    <2> QED
        BY <2>1 DEF Symbol, SymbolRecords, Types
<1>3. /\ p \in SymbolRecords /\ p.name = param /\ p.kind = "parameter" /\ p.start = at + 3
      /\ p.from = at + 3
    BY ParameterPlace
<1> HIDE DEF a, p
<1>4. Fresh = {n, n + 1} /\ symbols'[n] = a /\ symbols'[n + 1] = p
    <2>1. n + 1 = Len(symbols) + 2 /\ Types
        BY <1>0, Here
    <2> QED
        BY <1>0, <1>1, <1>2, <1>3, <2>1, TwoSymbols
<1>5. TwoOpen(c, FALSE, 0)
    <2>1. /\ active \in SUBSET Nat /\ FALSE \in BOOLEAN /\ Self \in Names \cup {Self} /\ 0 \in Nat
          /\ "function" \in {"block", "function"}
        BY Here
    <2> QED
        BY ONLY IInv, PInv, Grows, <1>0, <1>1, <2>1, TwoPlaced, Zenon
<1>6. at < at + 2 /\ at < at + 3 /\ at + 2 <= at' /\ at + 3 <= at'
    <2>1. at \in Nat /\ at' = at + 4
        BY <1>5, Here DEF TwoOpen
    <2> QED
        BY <2>1
<1>7. SymbolsGrow
    BY <1>2, <1>3, <1>4, <1>5, <1>6 DEF SymbolsGrow, TwoOpen, LexicalKinds
<1>8. RefsGrow
    <2>1. \A i \in Fresh : symbols'[i].kind \notin {"global", "self"} => symbols'[i].from = at + 3
        BY <1>2, <1>3, <1>4
    <2> QED
        BY <1>1, <1>5, <2>1, HeadRefers
<1>9. \A i \in Fresh : ~Global(symbols'[i])
    BY <1>2, <1>3, <1>4 DEF Global
<1> QED
    BY <1>5, <1>7, <1>8, <1>9, Step DEF TwoOpen

LEMMA ClosePlaced ==
    ASSUME IInv, PInv, Grows, Close
    PROVE  PInv'
<1> DEFINE top == stack[Len(stack)]
           n == Len(symbols) + 1
           a == [Symbol(top.name, "local", top.scope, top.start, at + 1) EXCEPT !.env = top.active]
<1>1. PICK t : t = top.scope
    OBVIOUS
<1>2. /\ stack # <<>> /\ cur' = t /\ at' = at + 1
      /\ scopes' = [s \in DOMAIN scopes |->
                      IF s \in scopes[cur].up \ scopes[t].up
                      THEN [scopes[s] EXCEPT !.end = at + 1] ELSE scopes[s]]
      /\ symbols' = IF top.declares THEN Append(symbols, a) ELSE symbols
      /\ stack' = SubSeq(stack, 1, Len(stack) - 1) /\ refs' = refs
    BY <1>1 DEF Close
<1>3. /\ stack \in Seq(Entries) /\ Len(stack) \in Nat \ {0} /\ Len(stack) \in DOMAIN stack
      /\ DOMAIN stack = 1 .. Len(stack) /\ top \in Entries
    BY <1>2, Here
<1>4. /\ Nested /\ Spans /\ Begun /\ t \in scopes[cur].up /\ cur \in DOMAIN scopes /\ t \in DOMAIN scopes
      /\ scopes[t].up = {u \in scopes[cur].up : u <= t}
      /\ top.start <= at /\ top.start \in Nat /\ (top.declares => top.name \in Names)
    <2>1. Nested /\ Spans /\ Begun /\ cur \in DOMAIN scopes /\ scopes[cur].up \subseteq DOMAIN scopes
        BY Here, TreeFacts DEF PInv
    <2>2. /\ t \in scopes[cur].up /\ top.start <= at /\ (top.declares => top.name \in Names)
        BY <1>1, <1>3, <2>1 DEF Begun
    <2>3. top.start \in Nat
        BY <1>3 DEF Entries
    <2>4. scopes[t].up = {u \in scopes[cur].up : u <= t}
        BY <2>1, <2>2 DEF Nested
    <2> QED
        BY <2>1, <2>2, <2>3, <2>4
<1>5. at \in Nat /\ at + 1 \in Nat /\ at < at + 1 /\ at <= at' /\ at + 1 <= at' /\ 0 < at + 1 /\ at' \in Nat
    BY <1>2, Here
<1>6. /\ a \in SymbolRecords /\ a.kind = "local" /\ a.name = top.name /\ a.start = top.start
    <2>1. /\ top.name \in Names \cup {Self} /\ top.start \in Nat /\ "local" \in Kinds
          /\ top.scope \in Nat /\ top.active \in SUBSET Nat /\ Types
        BY <1>3, SymbolArgs DEF Entries
    <2>2. Symbol(top.name, "local", top.scope, top.start, at + 1) =
            [name |-> top.name, kind |-> "local", scope |-> top.scope, start |-> top.start,
             from |-> at + 1, env |-> active]
        BY DEF Symbol
    <2> QED
        BY SMTT(20), <1>5, <2>1, <2>2 DEF SymbolRecords
<1>7. \A l \in DOMAIN stack' : l \in DOMAIN stack /\ l < Len(stack) /\ stack'[l] = stack[l]
    BY <1>2, <1>3
<1> HIDE DEF a
<1>8. \A i \in Fresh : top.declares /\ symbols'[i] = a
    <2>1. CASE top.declares
        <3>1. Fresh = {n} /\ symbols'[n] = a
            BY <1>2, <1>6, <2>1, Here, OneSymbol
        <3> QED
            BY <2>1, <3>1
    <2>2. CASE ~top.declares
        BY <1>2, <2>2, Here, SymbolsSame
    <2> QED
        BY <2>1, <2>2
<1>9. /\ DOMAIN scopes' = DOMAIN scopes
      /\ \A s \in DOMAIN scopes :
            /\ scopes'[s].up = scopes[s].up /\ scopes'[s].start = scopes[s].start
            /\ scopes'[s].owner = scopes[s].owner
            /\ scopes'[s].end = IF s \in scopes[cur].up \ scopes[t].up THEN at + 1 ELSE scopes[s].end
    <2>1. DOMAIN scopes' = DOMAIN scopes
        BY <1>2
    <2>2. ASSUME NEW s \in DOMAIN scopes
          PROVE  /\ scopes'[s].up = scopes[s].up /\ scopes'[s].start = scopes[s].start
                 /\ scopes'[s].owner = scopes[s].owner
                 /\ scopes'[s].end = IF s \in scopes[cur].up \ scopes[t].up THEN at + 1 ELSE scopes[s].end
        <3>1. scopes[s] \in ScopeRecords
            BY Here DEF Types
        <3>2. scopes'[s] = IF s \in scopes[cur].up \ scopes[t].up
                           THEN [scopes[s] EXCEPT !.end = at + 1] ELSE scopes[s]
            BY <1>2
        <3> QED
            BY <3>1, <3>2 DEF ScopeRecords
    <2> QED
        BY <2>1, <2>2
<1>10. /\ \A s \in DOMAIN scopes : scopes[s].start <= at /\ scopes[s].start \in Nat /\ scopes[s].end \in Nat
       /\ \A s \in DOMAIN scopes : s \in scopes[cur].up => scopes[s].end = 0
       /\ \A s \in DOMAIN scopes : s \notin scopes[cur].up => 0 < scopes[s].end /\ scopes[s].end <= at
    BY <1>4, ScopeNumbers, Here DEF Spans
<1>11. ScopesKept
    BY <1>2, <1>9, <1>10 DEF ScopesKept
<1>12. Nested'
    <2>1. \A s \in DOMAIN scopes : scopes[s].up \subseteq DOMAIN scopes
        BY TreeFacts
    <2> QED
        BY <1>4, <1>9, <2>1 DEF Nested
<1>13. Spans'
    <2>1. ASSUME NEW s \in DOMAIN scopes'
          PROVE  /\ scopes'[s].start <= at'
                 /\ s \in scopes'[cur'].up => scopes'[s].end = 0
                 /\ s \notin scopes'[cur'].up => 0 < scopes'[s].end /\ scopes'[s].end <= at'
        <3>1. s \in DOMAIN scopes /\ scopes'[cur'].up = scopes[t].up /\ scopes[t].up \subseteq scopes[cur].up
            BY <1>2, <1>4, <1>9
        <3>2. scopes'[s].start <= at'
            BY <1>5, <1>9, <1>10, <3>1
        <3>3. CASE s \in scopes[t].up
            BY <1>9, <1>10, <3>1, <3>2, <3>3
        <3>4. CASE s \in scopes[cur].up \ scopes[t].up
            <4>1. scopes'[s].end = at + 1
                BY <1>9, <3>1, <3>4
            <4> QED
                BY <1>5, <3>1, <3>2, <3>4, <4>1
        <3>5. CASE s \notin scopes[cur].up
            <4>1. scopes'[s].end = scopes[s].end
                BY <1>9, <3>1, <3>5
            <4> QED
                BY <1>5, <1>10, <3>1, <3>2, <3>5, <4>1
        <3> QED
            BY <3>3, <3>4, <3>5
    <2> QED
        BY <2>1 DEF Spans
<1>14. Begun'
    <2>1. ASSUME NEW l \in DOMAIN stack'
          PROVE  /\ stack'[l].scope \in scopes'[cur'].up /\ stack'[l].start <= at'
                 /\ stack'[l].declares => stack'[l].name \in Names
        <3>1. l \in DOMAIN stack /\ stack'[l] = stack[l] /\ stack[l].start \in Nat /\ stack[l].scope \in Nat
            <4>1. l \in DOMAIN stack /\ stack'[l] = stack[l]
                BY <1>7
            <4>2. stack[l] \in Entries
                BY <1>3, <4>1
            <4> QED
                BY <4>1, <4>2 DEF Entries
        <3>2. stack[l].scope < t
            BY <1>1, <1>3, <1>7 DEF IInv, Actives
        <3>3. /\ stack[l].scope \in scopes[cur].up /\ stack[l].start <= at
              /\ stack[l].declares => stack[l].name \in Names
            BY <1>4, <3>1 DEF Begun
        <3>4. t \in Nat
            BY <1>1, <1>3 DEF Entries
        <3>5. stack[l].scope \in scopes[t].up
            BY <1>4, <3>1, <3>2, <3>3, <3>4
        <3>6. scopes'[cur'].up = scopes[t].up
            BY <1>2, <1>4, <1>9
        <3> QED
            BY <1>5, <3>1, <3>3, <3>5, <3>6
    <2> QED
        BY <2>1 DEF Begun
<1>15. SymbolsGrow
    <2>1. ASSUME NEW i \in Fresh
          PROVE  /\ symbols'[i].start <= at' /\ symbols'[i].name \in Names
                 /\ \E l \in DOMAIN stack : stack[l].declares /\ symbols'[i].start = stack[l].start
        <3>1. /\ top.declares /\ symbols'[i].start = top.start /\ symbols'[i].name = top.name
              /\ top.start \in Nat /\ top.start <= at /\ top.name \in Names
            BY <1>4, <1>6, <1>8
        <3>2. top.start <= at'
            BY <1>5, <3>1
        <3>3. \E l \in DOMAIN stack : stack[l].declares /\ symbols'[i].start = stack[l].start
            BY <1>3, <3>1
        <3> QED
            BY <3>1, <3>2, <3>3
    <2> QED
        BY <1>7, <2>1 DEF SymbolsGrow
<1>16. RefsGrow
    BY <1>2, NoNewRef
<1>17. \A i \in Fresh : ~Global(symbols'[i])
    BY <1>6, <1>8 DEF Global
<1> QED
    BY <1>11, <1>12, <1>13, <1>14, <1>15, <1>16, <1>17, Step

-----------------------------------------------------------------------------
(* Every place is kept.                                                    *)

LEMMA InitPlaced == Init => PInv
<1> SUFFICES ASSUME Init
             PROVE  PInv
    OBVIOUS
<1> DEFINE chunk == [kind |-> "chunk", up |-> {1}, start |-> 0, end |-> 0, owner |-> 0]
<1>1. /\ at = 0 /\ cur = 1 /\ scopes = <<chunk>> /\ symbols = <<>> /\ refs = <<>> /\ stack = <<>>
    BY DEF Init
<1>2. chunk.up = {1} /\ chunk.start = 0 /\ chunk.end = 0
    OBVIOUS
<1> HIDE DEF chunk
<1>3. DOMAIN scopes = {1} /\ scopes[1] = chunk
    BY <1>1
<1>4. Ids = {} /\ DOMAIN refs = {} /\ DOMAIN stack = {}
    BY <1>1 DEF Ids
<1>5. Nested /\ Spans /\ Begun
    <2>1. {u \in {1} : u <= 1} = {1} /\ 0 <= 0
        OBVIOUS
    <2> QED
        BY <1>1, <1>2, <1>3, <1>4, <2>1 DEF Nested, Spans, Begun
<1> QED
    BY <1>4, <1>5 DEF PInv

LEMMA NextPlaced ==
    ASSUME Self \notin Names, IInv, PInv, [Next]_vars
    PROVE  PInv'
<1>1. ASSUME NEW x \in Names, Identifier(x) \/ Assignment(x)
      PROVE  PInv'
    BY <1>1, IdentifierSound, AssignmentSound, IdentifierPlaced, AssignmentPlaced
<1>2. ASSUME NEW x \in Names, NEW y \in Names, NEW kind \in {"local", "explicit"},
             VariableDeclaration(kind, x, y)
      PROVE  PInv'
    BY <1>2, VariableDeclarationSound, VariableDeclarationPlaced
<1>3. ASSUME GlobalStar \/ OpenBlock \/ Close
      PROVE  PInv'
    BY <1>3, GlobalStarSound, OpenBlockSound, CloseSound, GlobalStarPlaced, OpenBlockPlaced, ClosePlaced
<1>4. ASSUME NEW x \in Names, NEW y \in Names, OpenFor(x, y) \/ OpenInitializer(x, y)
      PROVE  PInv'
    BY <1>4, OpenForSound, OpenInitializerSound, OpenForPlaced, OpenInitializerPlaced
<1>5. ASSUME NEW x \in Names, NEW y \in Names, LocalFunction(x, y) \/ GlobalFunction(x, y)
      PROVE  PInv'
    <2>1. IInv' /\ Grows
        BY <1>5, NamedFunctionSound
    <2>2. DeclaredFunction("function", x, y) \/ DeclaredFunction("explicit", x, y)
        BY <1>5, Zenon DEF LocalFunction, GlobalFunction
    <2> QED
        BY <2>1, <2>2, DeclaredFunctionPlaced
<1>6. ASSUME NEW x \in Names, NEW y \in Names, FunctionStatement(x, y) \/ Method(x, y)
      PROVE  PInv'
    BY <1>6, FunctionStatementSound, MethodSound, FunctionStatementPlaced, MethodPlaced
<1>7. CASE UNCHANGED vars
    <2>1. /\ at' = at /\ cur' = cur /\ scopes' = scopes /\ symbols' = symbols /\ refs' = refs
          /\ stack' = stack /\ Ids' = Ids
        BY <1>7 DEF vars, Ids
    <2>2. Nested' /\ Spans' /\ Begun'
        BY <2>1 DEF PInv, Nested, Spans, Begun
    <2>3. ASSUME NEW i \in Ids', GlobalPlaced(i)
          PROVE  GlobalPlaced(i)'
        BY <2>1, <2>3 DEF GlobalPlaced, GlobalPlace, Alone, Unbound, OwnLater, Ordered, Innermost, ScopesAt
    <2>4. \A k \in DOMAIN refs' : SeenFrom(refs[k].at, refs[k].scope)'
        BY <2>1 DEF PInv, SeenFrom, Sighted, Innermost, ScopesAt
    <2> QED
        BY <2>1, <2>2, <2>3, <2>4 DEF PInv, Global
<1>8. ASSUME NEW x \in Names, NEW y \in Names, Local(x, y) \/ GlobalStatement(x, y)
      PROVE  PInv'
    BY <1>2, <1>8 DEF Local, GlobalStatement
<1> QED
    BY <1>1, <1>3, <1>4, <1>5, <1>6, <1>7, <1>8 DEF Next

LEMMA PlacesKept ==
    ASSUME Self \notin Names
    PROVE  Spec => [](IInv /\ PInv)
<1>1. IInv /\ PInv /\ [Next]_vars => IInv' /\ PInv'
    BY NextInv, NextPlaced
<1> QED
    BY <1>1, InitInv, InitPlaced, PTL DEF Spec

\* What completion offers at every reference, and at every definition of a global, is what Lua
\* would find there and nothing else: a variable exactly where it is the one active under its
\* name, a global of the file exactly where Lua 5.5 admits it and no variable hides it, and each
\* name once, whatever was walked since (VisibleSymbols, AllowsImplicit).
THEOREM CompletionIsSound ==
    ASSUME Self \notin Names
    PROVE  Spec => []CompletionSeesAsLua
<1>1. IInv /\ PInv => CompletionSeesAsLua
    BY CompletionSound
<1> QED
    BY <1>1, PlacesKept, PTL

\* A rename of a global that is not refused captures nothing and is captured by nothing: every
\* use and every definition of a name means after it what it meant before (GlobalRenameConflict).
THEOREM GlobalRenameIsSafe ==
    ASSUME Self \notin Names
    PROVE  Spec => []GlobalRenameKeepsBindings
<1>1. IInv /\ PInv => GlobalRenameKeepsBindings
    BY GlobalRenameSound
<1> QED
    BY <1>1, PlacesKept, PTL
=============================================================================
