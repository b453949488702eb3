------------------------------ MODULE Scopes ------------------------------
(* Names in a Lua file: the walker of internal/analysis/analysis.go, which   *)
(* builds scopes, symbols and references in one pass over the syntax tree,   *)
(* the queries on them, and rename (refactoring.go, references.go).          *)
(*                                                                           *)
(* The program is written as it is walked: each action is a construct of Lua *)
(* with the handler that walks it. Beside the walker runs Lua's own rule, as *)
(* its compiler applies it: a stack of active variables, in which the latest *)
(* one with the name is meant. Every occurrence of a name keeps the          *)
(* variables that were active there (env), so that the program after a       *)
(* rename can be read as Lua would read it.                                  *)
EXTENDS Integers, Sequences, FiniteSets

CONSTANTS Names,          \* identifiers in the program
          Self,           \* "self", the parameter a method has without declaring it
          Constructs,     \* what the program is made of, see Next
          MaxSymbols, MaxRefs, MaxScopes, MaxAt  \* size and length of the program

ASSUME ScopesAssumption ==
    /\ MaxSymbols \in Nat /\ MaxRefs \in Nat /\ MaxScopes \in Nat /\ MaxAt \in Nat
    /\ Constructs \subseteq {"assign", "block", "for", "local", "global", "star", "local function",
                             "initializer", "function", "method", "global function"}

VARIABLES
    at,         \* how far the walk has come: an offset
    cur,        \* the scope parameter of the walker
    scopes,     \* the scope tree: up holds a scope and its ancestors
    symbols,    \* in the order of declaration; scope is the one that lists the symbol
    refs,       \* File.References
    globals,    \* File.Globals
    decls,      \* globalDeclarations of all scopes
    active,     \* Lua: the active variables
    stack       \* the open constructs, and what is current again when they end

vars == <<at, cur, scopes, symbols, refs, globals, decls, active, stack>>

\* The kinds of SymbolKind; "explicit" is ExplicitGlobal, "global" an implicit one. "self" and "star"
\* are no symbols of the code: they are what Lua has on its stack and the code does not.
LexicalKinds == {"local", "parameter", "function", "explicit"}
Kinds == LexicalKinds \cup {"global", "self", "star"}
Global(sym) == sym.kind \in {"global", "explicit"}

-----------------------------------------------------------------------------
(* Resolution.                                                               *)

\* The symbols resolve considers: in this scope or one around it, visible from before the place.
Candidates(syms, scope, name, place) ==
    {i \in DOMAIN syms :
        /\ syms[i].name = name /\ syms[i].kind \in LexicalKinds
        /\ syms[i].scope \in scopes[scope].up
        /\ syms[i].from <= place}

\* A slip: in a scope the first symbol with the name wins.
ResolvesFirst(syms, scope, name, place, i) ==
    /\ i \in Candidates(syms, scope, name, place)
    /\ \A j \in Candidates(syms, scope, name, place) :
          \/ syms[j].scope < syms[i].scope
          \/ syms[j].scope = syms[i].scope /\ j >= i
\* The innermost scope wins (a child's number is larger than its parent's), and in it the last symbol.
Resolves(syms, scope, name, place, i) ==
    /\ i \in Candidates(syms, scope, name, place)
    /\ \A j \in Candidates(syms, scope, name, place) :
          \/ syms[j].scope < syms[i].scope
          \/ syms[j].scope = syms[i].scope /\ j <= i

Resolve(syms, scope, name, place) ==
    IF \E i \in DOMAIN syms : Resolves(syms, scope, name, place, i)
    THEN CHOOSE i \in DOMAIN syms : Resolves(syms, scope, name, place, i)
    ELSE 0

\* allowsImplicitGlobals: no global declaration applies, or one of them is "global *".
AllowsImplicit(scope, place) ==
    LET here == {d \in decls : d.scope \in scopes[scope].up /\ d.at <= place}
    IN here = {} \/ \E d \in here : d.wildcard

\* Lua: the latest active variable with the name.
LuaBinds(syms, env, name, i) ==
    /\ i \in env /\ syms[i].name = name /\ syms[i].kind # "star"
    /\ \A j \in env : syms[j].name = name /\ syms[j].kind # "star" => j <= i

\* Lua 5.5: any global declaration voids the implicit "global *" of the chunk.
LuaAllows(env) ==
    \/ \E i \in env : symbols[i].kind = "star"
    \/ \A i \in env : symbols[i].kind # "explicit"

-----------------------------------------------------------------------------
(* The walker. New symbols and references are added at the end.              *)

Symbol(name, kind, scope, start, from) ==
    [name |-> name, kind |-> kind, scope |-> scope, start |-> start, from |-> from, env |-> active]

\* identifier, and the assignment of a name that is bound or already known as a global: a reference.
Reference(name, scope, place) ==
    LET s == Resolve(symbols, scope, name, place)
    IN [name |-> name, at |-> place, scope |-> scope, env |-> active,
        symbol |-> IF s # 0 THEN s
                   ELSE IF AllowsImplicit(scope, place) THEN globals[name] ELSE 0]

\* identifierOrGlobalDefinition and the name of `function f()`: the first assignment of an
\* unbound name declares a global; nothing is recorded as a reference.
Defines(name, place) ==
    Resolve(symbols, cur, name, place) = 0 /\ AllowsImplicit(cur, place)

NewScope(kind, parent, n, start) ==
    [kind |-> kind, up |-> scopes[parent].up \cup {n}, start |-> start, end |-> 0, owner |-> 0]

\* Nothing but a name is walked.
Identifier(name) ==
    /\ refs' = Append(refs, Reference(name, cur, at + 1))
    /\ at' = at + 1
    /\ UNCHANGED <<cur, scopes, symbols, globals, decls, active, stack>>

\* A slip: the global is registered, its symbol is not listed.
AssignmentUnlisted(name) ==
    /\ "assign" \in Constructs
    /\ at' = at + 1
    /\ IF Defines(name, at + 1) /\ globals[name] = 0
       THEN /\ globals' = [globals EXCEPT ![name] = Len(symbols) + 1]
            /\ UNCHANGED <<symbols, refs>>
       ELSE /\ refs' = Append(refs, Reference(name, cur, at + 1))
            /\ UNCHANGED <<symbols, globals>>
    /\ UNCHANGED <<cur, scopes, decls, active, stack>>
\* An assignment target. The right-hand side, which the code walks first, is left out: uses in it
\* are other references, but a function in it that assigns the same name first is not covered.
Assignment(name) ==
    /\ "assign" \in Constructs
    /\ at' = at + 1
    /\ IF Defines(name, at + 1) /\ globals[name] = 0
       THEN /\ symbols' = Append(symbols, Symbol(name, "global", cur, at + 1, 0))
            /\ globals' = [globals EXCEPT ![name] = Len(symbols) + 1]
            /\ UNCHANGED refs
       ELSE /\ refs' = Append(refs, Reference(name, cur, at + 1))
            /\ UNCHANGED <<symbols, globals>>
    /\ UNCHANGED <<cur, scopes, decls, active, stack>>

\* variableDeclaration: `local x = y`, `global x = y`. The new variable is visible from the end
\* of the statement, so not in its own initializer.
VariableDeclaration(kind, name, init) ==
    /\ symbols' = Append(symbols, Symbol(name, kind, cur, at + 1, at + 3))
    /\ refs' = Append(refs, Reference(init, cur, at + 2))
    /\ decls' = IF kind = "explicit"
                THEN decls \cup {[scope |-> cur, at |-> at + 3, wildcard |-> FALSE]} ELSE decls
    /\ active' = active \cup {Len(symbols) + 1}
    /\ at' = at + 3
    /\ UNCHANGED <<cur, scopes, globals, stack>>

Local(name, init) == "local" \in Constructs /\ VariableDeclaration("local", name, init)
GlobalStatement(name, init) ==
    "global" \in Constructs /\ VariableDeclaration("explicit", name, init)

\* `global *`: implicit_variable_declaration.
GlobalStar ==
    /\ "star" \in Constructs
    /\ decls' = decls \cup {[scope |-> cur, at |-> at + 1, wildcard |-> TRUE]}
    /\ symbols' = Append(symbols, Symbol(Self, "star", cur, at + 1, at + 1))
    /\ active' = active \cup {Len(symbols) + 1}
    /\ at' = at + 1
    /\ UNCHANGED <<cur, scopes, refs, globals, stack>>

\* What Close returns to; a function in an initializer declares its variable then.
Enclosing(now, declares, name, start) ==
    [scope |-> cur, active |-> now, declares |-> declares, name |-> name, start |-> start]

\* A block; the scope of `repeat` ends after its condition and no sooner.
OpenBlock ==
    /\ "block" \in Constructs
    /\ scopes' = Append(scopes, NewScope("block", cur, Len(scopes) + 1, at + 1))
    /\ cur' = Len(scopes) + 1
    /\ stack' = Append(stack, Enclosing(active, FALSE, Self, 0))
    /\ at' = at + 1
    /\ UNCHANGED <<symbols, refs, globals, decls, active>>

\* Two scopes, one in the other, and the current one the inner.
OpenTwo(kind, now, declares, name, owner) ==
    LET n == Len(scopes) + 1
        outer == [NewScope(kind, cur, n, at + 1) EXCEPT !.owner = owner]
        inner == [kind |-> "block", up |-> outer.up \cup {n + 1}, start |-> at + 4, end |-> 0,
                  owner |-> 0]
    IN /\ scopes' = scopes \o <<outer, inner>>
       /\ cur' = n + 1
       /\ stack' = Append(stack, Enclosing(now, declares, name, at + 1))
       /\ at' = at + 4

\* `for x = y do`: the clause is walked in the scope of the loop before its variable is declared.
OpenFor(name, init) ==
    /\ "for" \in Constructs
    /\ OpenTwo("block", active, FALSE, Self, 0)
    /\ symbols' = Append(symbols, Symbol(name, "local", Len(scopes) + 1, at + 2, at + 4))
    /\ refs' = Append(refs, [Reference(init, cur, at + 3) EXCEPT !.scope = Len(scopes) + 1])
    /\ active' = active \cup {Len(symbols) + 1}
    /\ UNCHANGED <<globals, decls>>

Parameter(name) == Symbol(name, "parameter", Len(scopes) + 1, at + 3, at + 3)

\* functionDeclaration with a name that declares: visible in the body, and after it.
DeclaredFunction(kind, name, param) ==
    LET n == Len(symbols) + 1
    IN /\ symbols' = symbols \o <<Symbol(name, kind, cur, at + 2, at + 1), Parameter(param)>>
       /\ active' = active \cup {n, n + 1}
       /\ OpenTwo("function", active \cup {n}, FALSE, Self, n)
       /\ UNCHANGED <<refs, globals>>

LocalFunction(name, param) ==
    /\ "local function" \in Constructs
    /\ DeclaredFunction("function", name, param)
    /\ UNCHANGED decls

GlobalFunction(name, param) ==
    /\ "global function" \in Constructs
    /\ DeclaredFunction("explicit", name, param)
    /\ decls' = decls \cup {[scope |-> cur, at |-> at + 1, wildcard |-> FALSE]}

\* `local x = function(p) ... end`
OpenInitializer(name, param) ==
    /\ "initializer" \in Constructs
    /\ symbols' = Append(symbols, Parameter(param))
    /\ active' = active \cup {Len(symbols) + 1}
    /\ OpenTwo("function", active, TRUE, name, 0)
    /\ UNCHANGED <<refs, globals, decls>>

\* `function f(p)`: an assignment of f, or the definition of a global, again if there is one.
FunctionStatement(name, param) ==
    /\ "function" \in Constructs
    /\ LET n == Len(symbols) + 1
           s == Resolve(symbols, cur, name, at + 2)
       IN /\ IF Defines(name, at + 2)
             THEN /\ symbols' = symbols \o <<Symbol(name, "global", cur, at + 2, 0), Parameter(param)>>
                  /\ globals' = [globals EXCEPT ![name] = n]
                  /\ active' = active \cup {n + 1}
                  /\ UNCHANGED refs
             ELSE /\ symbols' = Append(symbols, Parameter(param))
                  /\ refs' = IF s = 0 THEN refs ELSE Append(refs, Reference(name, cur, at + 2))
                  /\ active' = active \cup {n}
                  /\ UNCHANGED globals
          /\ OpenTwo("function", active, FALSE, Self, IF Defines(name, at + 2) THEN n ELSE s)
    /\ UNCHANGED decls

\* `function M:f(p)`: M is a reference; the symbol of the field is for the outline only. Lua
\* gives the function a parameter self; the walker does not.
Method(name, param) ==
    /\ "method" \in Constructs
    /\ LET n == Len(symbols) + 1
       IN /\ symbols' = symbols \o <<Symbol(Self, "self", Len(scopes) + 1, at + 2, at + 2),
                                     Parameter(param)>>
          /\ active' = active \cup {n, n + 1}
    /\ OpenTwo("function", active, FALSE, Self, 0)
    /\ refs' = Append(refs, Reference(name, cur, at + 2))
    /\ UNCHANGED <<globals, decls>>

\* The construct ends; `local x = function ... end` declares x now.
Close ==
    /\ stack # <<>>
    /\ LET top == stack[Len(stack)]
           new == [Symbol(top.name, "local", top.scope, top.start, at + 1) EXCEPT !.env = top.active]
       IN /\ cur' = top.scope
          /\ scopes' = [s \in DOMAIN scopes |->
                          IF s \in scopes[cur].up \ scopes[top.scope].up
                          THEN [scopes[s] EXCEPT !.end = at + 1] ELSE scopes[s]]
          /\ symbols' = IF top.declares THEN Append(symbols, new) ELSE symbols
          /\ active' = IF top.declares THEN top.active \cup {Len(symbols) + 1} ELSE top.active
    /\ stack' = SubSeq(stack, 1, Len(stack) - 1)
    /\ at' = at + 1
    /\ UNCHANGED <<refs, globals, decls>>

Init ==
    /\ at = 0 /\ cur = 1
    /\ scopes = <<[kind |-> "chunk", up |-> {1}, start |-> 0, end |-> 0, owner |-> 0]>>
    /\ symbols = <<>> /\ refs = <<>>
    /\ globals = [n \in Names |-> 0]
    /\ decls = {} /\ active = {} /\ stack = <<>>

RoomFor(s, r, c) ==
    /\ Len(symbols) + s <= MaxSymbols
    /\ Len(refs) + r <= MaxRefs
    /\ Len(scopes) + c <= MaxScopes
    /\ at < MaxAt

Next ==
    \/ \E x \in Names : RoomFor(0, 1, 0) /\ Identifier(x)
    \/ \E x \in Names : RoomFor(1, 1, 0) /\ Assignment(x)
    \/ \E x, y \in Names : RoomFor(1, 1, 0) /\ (Local(x, y) \/ GlobalStatement(x, y))
    \/ RoomFor(1, 0, 0) /\ GlobalStar
    \/ RoomFor(0, 0, 1) /\ OpenBlock
    \/ \E x, y \in Names : RoomFor(1, 1, 2) /\ OpenFor(x, y)
    \/ \E x, y \in Names : RoomFor(2, 0, 2) /\ (LocalFunction(x, y) \/ GlobalFunction(x, y))
    \/ \E x, y \in Names : RoomFor(2, 0, 2) /\ OpenInitializer(x, y)
    \/ \E x, y \in Names : RoomFor(2, 1, 2) /\ FunctionStatement(x, y)
    \/ \E x, y \in Names : RoomFor(2, 1, 2) /\ Method(x, y)
    \/ Close

Spec == Init /\ [][Next]_vars

-----------------------------------------------------------------------------
(* Queries on the finished file. Any prefix of the walk is one: the          *)
(* constructs still open end there.                                          *)

\* Parse: a name assigned only later in the file is bound when the walk is over.
SymbolOf(r) ==
    IF r.symbol = 0 /\ AllowsImplicit(r.scope, r.at) THEN globals[r.name] ELSE r.symbol

\* A slip: a scope that has ended still counts.
ScopesBegunAt(place) == {s \in DOMAIN scopes : scopes[s].start <= place}
ScopesAt(place) ==
    {s \in DOMAIN scopes : scopes[s].start <= place /\ (scopes[s].end = 0 \/ place <= scopes[s].end)}

\* ScopeAt: the innermost scope around the place.
ScopeAt(place) == CHOOSE s \in ScopesAt(place) : \A t \in ScopesAt(place) : t <= s

\* A slip: implicit globals are offered below a global declaration too.
VisibleSymbolsAndGlobals(place) ==
    LET scope == ScopeAt(place)
        lexical == {i \in DOMAIN symbols : Resolves(symbols, scope, symbols[i].name, place, i)}
        seen == {symbols[i].name : i \in lexical}
    IN lexical \cup ({globals[n] : n \in Names \ seen} \ {0})
\* VisibleSymbols: lexical declarations, each name once, then the implicit globals.
VisibleSymbols(place) ==
    LET scope == ScopeAt(place)
        lexical == {i \in DOMAIN symbols : Resolves(symbols, scope, symbols[i].name, place, i)}
        seen == {symbols[i].name : i \in lexical}
    IN lexical \cup
       (IF AllowsImplicit(scope, place) THEN {globals[n] : n \in Names \ seen} \ {0} ELSE {})

\* RenameTarget
CanRename(s) == symbols[s].kind \in {"local", "parameter", "function"}

Renamed(s, new) == [symbols EXCEPT ![s].name = new]

\* A slip: only the references to the symbol itself are looked at.
RenameRefusedForOwn(s, new) ==
    \/ ~CanRename(s)
    \/ \E i \in DOMAIN symbols \ {s} :
          /\ symbols[i].scope = symbols[s].scope /\ symbols[i].name = new
          /\ symbols[i].kind \in LexicalKinds \cup {"global"}
    \/ \E k \in DOMAIN refs :
          SymbolOf(refs[k]) = s /\ Resolve(Renamed(s, new), refs[k].scope, new, refs[k].at) # s
\* Rename: no symbol of the same scope may have the new name. With the new name
\* each reference to the symbol must still resolve to it, and no other one may.
RenameRefused(s, new) ==
    \/ ~CanRename(s)
    \/ \E i \in DOMAIN symbols \ {s} :
          /\ symbols[i].scope = symbols[s].scope /\ symbols[i].name = new
          /\ symbols[i].kind \in LexicalKinds \cup {"global"}
    \/ \E k \in DOMAIN refs :
          LET r == refs[k]
              resolved == Resolve(Renamed(s, new), r.scope, new, r.at)
          IN \/ SymbolOf(r) = s /\ resolved # s
             \/ SymbolOf(r) # s /\ r.name = new /\ resolved = s

\* SymbolReferences: the declaration and the references are edited.
NameAfter(s, new, r) == IF SymbolOf(r) = s THEN new ELSE r.name

\* GlobalSites: every symbol of the name that is a global, and the references that are.
GlobalReference(r) == SymbolOf(r) = 0 \/ Global(symbols[SymbolOf(r)])
GlobalSites(name) ==
    {symbols[i].start : i \in {i \in DOMAIN symbols : Global(symbols[i]) /\ symbols[i].name = name}}
      \cup {refs[k].at : k \in {k \in DOMAIN refs : refs[k].name = name /\ GlobalReference(refs[k])}}

\* SymbolAt: references come first.
SymbolAt(place) ==
    IF \E k \in DOMAIN refs : refs[k].at = place
    THEN SymbolOf(refs[CHOOSE k \in DOMAIN refs : refs[k].at = place])
    ELSE CHOOSE i \in DOMAIN symbols : symbols[i].start = place

\* The name of a function is inside the function's range, but it is bound outside.
SiteScope(place) ==
    LET scope == ScopeAt(place)
        symbol == SymbolAt(place)
    IN IF symbol # 0 /\ symbols[symbol].start = place /\ scopes[scope].owner = symbol
       THEN CHOOSE s \in scopes[scope].up \ {scope} : \A t \in scopes[scope].up \ {scope} : t <= s
       ELSE scope

\* A slip: only other globals conflict.
GlobalRenameRefusedByGlobals(name, new) == GlobalSites(new) # {}
\* GlobalRenameConflict: the new name is a global already, or a lexical name where the global is used.
GlobalRenameRefused(name, new) ==
    \/ GlobalSites(new) # {}
    \/ \E place \in GlobalSites(name) : Resolve(symbols, SiteScope(place), new, place) # 0

-----------------------------------------------------------------------------
Ids == DOMAIN symbols

\* Type correctness.
TypeOK ==
    /\ at \in Nat /\ cur \in DOMAIN scopes
    /\ scopes \in Seq([kind : {"chunk", "block", "function"}, up : SUBSET DOMAIN scopes,
                       start : Nat, end : Nat, owner : Ids \cup {0}])
    /\ symbols \in Seq([name : Names \cup {Self}, kind : Kinds, scope : DOMAIN scopes,
                        start : Nat, from : Nat, env : SUBSET Ids])
    /\ refs \in Seq([name : Names, at : Nat, scope : DOMAIN scopes, env : SUBSET Ids,
                     symbol : Ids \cup {0}])
    /\ globals \in [Names -> Ids \cup {0}]
    /\ decls \subseteq [scope : DOMAIN scopes, at : Nat, wildcard : BOOLEAN]
    /\ active \subseteq Ids
    /\ stack \in Seq([scope : DOMAIN scopes, active : SUBSET Ids, declares : BOOLEAN,
                      name : Names \cup {Self}, start : Nat])

\* A reference resolves to the variable Lua means by it, however the file goes on: to the
\* same declaration if a variable is meant, and to no variable if a global is. Where the
\* name is no variable, the walker admits a global exactly if Lua 5.5 does.
ResolvesAsLua ==
    \A k \in DOMAIN refs :
        LET r == refs[k]
        IN /\ \A i \in Ids : symbols[i].kind # "global" =>
                (SymbolOf(r) = i <=> LuaBinds(symbols, r.env, r.name, i))
           /\ AllowsImplicit(r.scope, r.at) <=> LuaAllows(r.env)

\* What completion offers at a place where env is active: the variables Lua would find there and
\* no shadowed or later one; a global of the file, once, where Lua admits it and no variable hides it.
OffersAsLua(place, env) ==
    LET visible == VisibleSymbols(place)
        Known(name) == \E i \in Ids : symbols[i].kind = "global" /\ symbols[i].name = name
        Offered(name) == \E i \in visible : symbols[i].kind = "global" /\ symbols[i].name = name
    IN /\ \A i \in Ids : symbols[i].kind \in LexicalKinds =>
            (i \in visible <=> LuaBinds(symbols, env, symbols[i].name, i))
       /\ \A n \in Names :
            Offered(n) <=> /\ Known(n) /\ LuaAllows(env)
                           /\ \A i \in Ids : ~LuaBinds(symbols, env, n, i)
       /\ \A i, j \in visible : symbols[i].name = symbols[j].name => i = j

\* Completion offers what Lua would find, at every reference and wherever a global is defined by
\* an assignment or a function statement: what the walk knew, what the finished scope tree says
\* and where Lua 5.5 admits implicit globals agree.
CompletionSeesAsLua ==
    /\ \A k \in DOMAIN refs : OffersAsLua(refs[k].at, refs[k].env)
    /\ \A i \in Ids : symbols[i].kind = "global" => OffersAsLua(symbols[i].start, symbols[i].env)

SameBindings(syms, env, old, new) ==
    \A i \in Ids : LuaBinds(symbols, env, old, i) <=> LuaBinds(syms, env, new, i)

\* A rename that is not refused leaves every reference with its variable: what was renamed
\* still means it, and nothing else does (README.md:72, "Renames are rejected when they
\* would capture or merge bindings").
RenameKeepsReferences ==
    \A s \in Ids, new \in Names :
        new # symbols[s].name /\ ~RenameRefused(s, new) =>
            \A k \in DOMAIN refs :
                SameBindings(Renamed(s, new), refs[k].env, refs[k].name, NameAfter(s, new, refs[k]))

\* The same of every occurrence of a name, the assignments that define a global among them.
RenameKeepsBindings ==
    /\ RenameKeepsReferences
    /\ \A s \in Ids, new \in Names :
        new # symbols[s].name /\ ~RenameRefused(s, new) =>
            \A i \in Ids : symbols[i].kind = "global" =>
                SameBindings(Renamed(s, new), symbols[i].env, symbols[i].name, symbols[i].name)

\* Renaming a global where it is not refused captures nothing: each edited place is
\* a global for Lua before and after, and so is every one the edit leaves alone what it was.
GlobalRenameKeepsBindings ==
    \A old, new \in Names :
        old # new /\ ~GlobalRenameRefused(old, new) =>
            LET sites == GlobalSites(old)
                syms == [i \in Ids |-> IF Global(symbols[i]) /\ symbols[i].name = old
                                       THEN [symbols[i] EXCEPT !.name = new] ELSE symbols[i]]
                After(place, name) == IF place \in sites THEN new ELSE name
            IN /\ \A k \in DOMAIN refs :
                     SameBindings(syms, refs[k].env, refs[k].name, After(refs[k].at, refs[k].name))
               /\ \A i \in Ids : symbols[i].kind = "global" =>
                     SameBindings(syms, symbols[i].env, symbols[i].name,
                                  After(symbols[i].start, symbols[i].name))
=============================================================================
