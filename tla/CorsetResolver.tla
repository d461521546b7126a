--------------------------- MODULE CorsetResolver ---------------------------
(* Resolution of a Corset circuit (pkg/corset/compiler/resolver.go): every      *)
(* symbol is bound to its definition, and declarations are finalised once what  *)
(* they depend on is.  Declarations come in any order, so the resolver walks    *)
(* over them again and again, at most LIMIT times, while something changes.     *)
(*                                                                              *)
(* A circuit is a sequence of declarations, of the root module or of submodules.*)
EXTENDS Naturals, Sequences, SequencesExt, FiniteSetsExt, TLC

-----------------------------------------------------------------------------
(* The tree of module scopes the Corset resolver works on                      *)
(* (pkg/corset/compiler/scope.go).  A module is named by its path, a sequence  *)
(* of names (the root is <<>>; a perspective is a submodule of its module).    *)
(* A binding is identified by the definition it was made for, so                *)
(*   mods   is the set of module paths,                                         *)
(*   ids    maps <<module, name, arity>> to the binding it stands for, which    *)
(*          differs from the key exactly for aliases,                           *)
(*   open   is the set of bindings whose definition is in progress.             *)
(* A symbol is [abs, path, arity]: its path is relative unless abs, and arity   *)
(* is NonFunction for everything but functions.                                 *)

NonFunction == 99

EmptyScope == [mods |-> {<<>>}, ids |-> << >>, open |-> {}]

(* ModuleScope.Declare: a submodule is declared once. *)
Declare(s, p, name) ==
  IF Append(p, name) \in s.mods THEN s ELSE [s EXCEPT !.mods = @ \cup {Append(p, name)}]

(* ModuleScope.Define: the definition is placed in the module its path names;  *)
(* it fails when that module is unknown or already has the identifier.          *)
CanDefine(s, id) == id[1] \in s.mods /\ id \notin DOMAIN s.ids

Define(s, id) ==
  IF CanDefine(s, id) THEN [s EXCEPT !.ids = (id :> id) @@ @] ELSE s

(* ModuleScope.Alias: within one module, and of an identifier already there.   *)
CanAlias(s, p, alias, sym) ==
  /\ <<p, alias, sym.arity>> \notin DOMAIN s.ids
  /\ <<p, Head(sym.path), sym.arity>> \in DOMAIN s.ids

Alias(s, p, alias, sym) ==
  [s EXCEPT !.ids = (<<p, alias, sym.arity>> :> s.ids[<<p, Head(sym.path), sym.arity>>]) @@ @]

--------------------------------------------------------------------------------
(* The scopes a lookup that starts in module p visits, innermost first: an     *)
(* absolute path is handed straight to the root.                                *)
Searched(p, sym) ==
  IF sym.abs THEN << <<>> >> ELSE [i \in 1 .. Len(p) + 1 |-> SubSeq(p, 1, Len(p) + 1 - i)]

(* Where the symbol would be found below module q (innerBind walks through the *)
(* submodules the path names).                                                  *)
KeyIn(q, sym) == <<q \o Front(sym.path), Last(sym.path), sym.arity>>

(* The scopes in which the symbol is found, in the order they are visited.     *)
Found(s, p, sym) == SelectSeq(Searched(p, sym), LAMBDA q : KeyIn(q, sym) \in DOMAIN s.ids)

CanBind(s, p, sym) == Found(s, p, sym) # << >>

(* ModuleScope.Bind: the first scope that knows the symbol decides. *)
Bind(s, p, sym) == s.ids[KeyIn(Head(Found(s, p, sym)), sym)]

(* ModuleScope.IsVisible: a symbol nobody knows is not visible, one whose       *)
(* definition is open only when it may be recursive.                            *)
IsVisible(s, p, sym, recursive) ==
  CanBind(s, p, sym) /\ (Bind(s, p, sym) \notin s.open \/ Bind(s, p, sym) \in recursive)

(* ModuleScope.IsWithin. *)
IsWithin(p, sym) == ~sym.abs \/ (p # <<>> /\ IsPrefix(p, sym.path))

(* Definitions in progress, by the binding they stand for. *)
OpenDefinition(s, id) == [s EXCEPT !.open = @ \cup {s.ids[id]}]
CloseDefinition(s, id) == [s EXCEPT !.open = @ \ {s.ids[id]}]
-----------------------------------------------------------------------------
(* Declarations and expressions of the Corset language, as far as resolution    *)
(* can tell them apart (pkg/corset/ast/declaration.go, expression.go).          *)
(*                                                                              *)
(* An expression is the sequence of its accesses in the order they are visited, *)
(*   [op, sym, bound, const, fold, span]                                        *)
(* of a column, constant or local variable ("var"), a call, a reduction, an      *)
(* array element, or a literal ("lit").  bound holds the variables of the       *)
(* enclosing lets and fors, const says it is below an exponent or a shift, and  *)
(* fold what the operators around it make of it when asked for their constant    *)
(* value: they need that of the access ("value"), have none ("none"), or do not  *)
(* look at it ("ignored").  "let" marks a let, which cannot be asked.  span says *)
(* how many of the accesses that follow a call belong to its arguments.          *)

Access(op, sym) == [op |-> op, sym |-> sym, bound |-> {}, const |-> FALSE, fold |-> "value", span |-> 0]

NoSymbol == [abs |-> TRUE, path |-> <<"none">>, arity |-> NonFunction]

Constant == <<Access("lit", NoSymbol)>>
VariableAccess(sym) == <<Access("var", sym)>>

Each(e, op(_)) == [k \in DOMAIN e |-> op(e[k])]
Opaque(e) == Each(e, LAMBDA a : [a EXCEPT !.fold = "none"])
Ignored(e) == Each(e, LAMBDA a : [a EXCEPT !.fold = "ignored"])
Binding(vs, e) == Each(e, LAMBDA a : [a EXCEPT !.bound = @ \cup vs])
InConst(e) == Each(e, LAMBDA a : [a EXCEPT !.const = TRUE])

(* Sums, products, equations, conditionals and the like. *)
Compound(args) == FlattenSeq(args)
(* Exponents and shifts must be constant. *)
Exp(arg, pow) == arg \o InConst(pow)
Shift(arg, by) == arg \o Ignored(InConst(by))
(* What has no constant value, whatever it is made of. *)
Concat(args) == Opaque(FlattenSeq(args))
List(args) == Opaque(FlattenSeq(args))
For(v, body) == Binding({v}, body)
Let(vars, args, body) == <<Access("let", NoSymbol)>> \o FlattenSeq(args) \o Binding(vars, body)
ArrayAccess(sym, index) == Opaque(index \o <<Access("array", sym)>>)
Function(f, n) == [abs |-> FALSE, path |-> <<f>>, arity |-> n]
Invoke(f, args) ==
  <<[Access("call", Function(f, Len(args))) EXCEPT !.span = Len(FlattenSeq(args))]>> \o FlattenSeq(args)
Reduce(f, list) == Opaque(list \o <<Access("reduce", Function(f, 2))>>)

(* Lets and fors hide a symbol by its name, also when it names a function.       *)
Hidden(a) == ~a.sym.abs /\ Len(a.sym.path) = 1 /\ Head(a.sym.path) \in a.bound

DependenciesOf(e) == SelectSeq(e, LAMBDA a : a.op \notin {"lit", "let"} /\ ~Hidden(a))

--------------------------------------------------------------------------------
(* A declaration: defs are the identifiers it defines, own those it says it      *)
(* defines, deps the accesses it says it depends on, exprs and sel its           *)
(* expressions and its selector or guard; pure, extern, typed and so on are what *)
(* only some kinds know.                                                        *)
Declaration(kind, mod, defs, exprs, sel, deps) ==
  [kind |-> kind, mod |-> mod, defs |-> defs, own |-> ToSet(defs), exprs |-> exprs, sel |-> sel,
   deps |-> deps, persp |-> "none", aliases |-> << >>, params |-> {}, flag |-> FALSE,
   typed |-> TRUE]

Named(mod, xs) == [k \in DOMAIN xs |-> <<mod, xs[k], NonFunction>>]
AllDependencies(exprs) == DependenciesOf(FlattenSeq(exprs))

DefColumns(mod, xs) == Declaration("columns", mod, Named(mod, xs), << >>, << >>, << >>)

(* Pairs of a new name and the symbol it stands for. *)
DefAliases(mod, pairs) ==
  [Declaration("aliases", mod, << >>, << >>, << >>, << >>) EXCEPT !.aliases = pairs]

DefConst(mod, names, values, extern) ==
  [Declaration("const", mod, Named(mod, names), values, << >>, AllDependencies(values))
   EXCEPT !.flag = extern]

(* Parameters hide variables, but no functions. *)
DefFun(mod, f, params, pure, body) ==
  LET hides(a) == ~a.sym.abs /\ a.sym.arity = NonFunction /\ Len(a.sym.path) = 1
                  /\ Head(a.sym.path) \in ToSet(params)
  IN  [Declaration("fun", mod, <<<<mod, f, Len(params)>>>>, <<body>>, << >>,
                   SelectSeq(DependenciesOf(body), LAMBDA a : ~hides(a)))
       EXCEPT !.params = ToSet(params), !.flag = pure]

DefConstraint(mod, guard, body) ==
  Declaration("constraint", mod, << >>, <<body>>, guard, AllDependencies(<<guard, body>>))

(* A constraint on the columns of a perspective depends on that, too.           *)
DefPerspectiveConstraint(mod, persp, guard, body) ==
  [DefConstraint(mod, guard, body) EXCEPT !.persp = persp,
     !.deps = @ \o <<Access("perspective", [abs |-> FALSE, path |-> <<persp>>, arity |-> NonFunction])>>]

(* The columns of a perspective live in a submodule of its name; it does not     *)
(* count itself among what it defines.                                          *)
DefPerspective(mod, persp, selector, xs) ==
  LET cols == Named(Append(mod, persp), xs) IN
  [Declaration("perspective", mod, Append(cols, <<mod, persp, NonFunction>>), <<selector>>, << >>,
               DependenciesOf(selector))
   EXCEPT !.own = ToSet(cols), !.persp = persp]

DefInRange(mod, e) == Declaration("inrange", mod, << >>, <<e>>, << >>, DependenciesOf(e))

DefProperty(mod, e) == Declaration("property", mod, << >>, <<e>>, << >>, DependenciesOf(e))

DefCall(mod, returns, args, selector) ==
  Declaration("call", mod, << >>, returns \o args, selector,
              AllDependencies(args \o returns \o <<selector>>))

(* Sources and targets, vector by vector; selectors are dependencies, too.      *)
DefLookup(mod, vectors, selectors) ==
  Declaration("lookup", mod, << >>, vectors, selectors, AllDependencies(vectors \o <<selectors>>))

(* The selector is no dependency. *)
DefSorted(mod, sources, selector) ==
  Declaration("sorted", mod, << >>, sources, selector, AllDependencies(sources))

(* The targets of an assignment are typed or take the type of its sources.      *)
Assignment(kind, mod, targets, typed, sources) ==
  [Declaration(kind, mod, Named(mod, targets), <<sources>>, << >>, DependenciesOf(sources))
   EXCEPT !.typed = typed]

DefInterleaved(mod, target, typed, sources) ==
  Assignment("interleaved", mod, <<target>>, typed, sources)

DefPermutation(mod, targets, typed, sources) ==
  Assignment("permutation", mod, targets, typed, sources)

(* The native function comes before the columns it is applied to.               *)
DefComputed(mod, targets, typed, f, sources) ==
  Assignment("computed", mod, targets, typed,
             <<Access("call", Function(f, Len(sources)))>> \o sources)

(* A forward or backward computation may use its own column. *)
DefComputedColumn(mod, target, recursive, e) ==
  [Assignment("computedcolumn", mod, <<target>>, TRUE, e) EXCEPT !.flag = recursive]
-----------------------------------------------------------------------------
(* The resolver.                                                               *)

CONSTANTS
  Circuits,   \* the circuits to resolve
  LIMIT,      \* iterations before giving up (32 in the code)
  UINT        \* the counter of declarations left is computed modulo UINT

VARIABLES
  circ,       \* the circuit
  phase,      \* "init", "iterate", "declare", "accept", "reject" or "panic"
  at,         \* the declaration to visit next
  scope,      \* the tree of module scopes
  mult,       \* length multiplier of each column, 0 until it is known
  fin,        \* constants, functions and perspectives that are finalised
  done,       \* declarations whose own flag says finalised
  failed, completed, uncompleted, changed, count,   \* GlobalResolution
  errors      \* errors reported: <<declaration, reason>>

vars == <<circ, phase, at, scope, mult, fin, done, failed, completed, uncompleted,
          changed, count, errors>>

--------------------------------------------------------------------------------
(* Definitions and the kinds of binding they give rise to.                      *)

Assigns == {"interleaved", "permutation", "computed", "computedcolumn"}

(* An access to a parameter or a variable of an enclosing let or for. *)
IsLocal(a, params) ==
  /\ ~a.sym.abs /\ Len(a.sym.path) = 1 /\ a.sym.arity = NonFunction
  /\ Head(a.sym.path) \in params \cup a.bound

BindingKind(d, id) ==
  CASE d.kind = "fun" -> "fun"
    [] d.kind = "const" -> "const"
    [] d.kind = "perspective" /\ id[2] = d.persp -> "perspective"
    [] OTHER -> "column"

(* The native functions a defcomputed may apply, with the input whose geometry  *)
(* their only output takes.                                                     *)
Natives == [id |-> <<1, 1>>, filter |-> <<2, 1>>, fill |-> <<3, 3>>]
NativeIds == {<< <<>>, n, Natives[n][1]>> : n \in DOMAIN Natives}

(* The declaration an identifier belongs to. *)
Owner(c, id) == CHOOSE i \in DOMAIN c : id \in ToSet(c[i].defs)
KindOf(c, id) == IF id \in NativeIds THEN "native" ELSE BindingKind(c[Owner(c, id)], id)
Pure(c, id) == id \notin NativeIds /\ c[Owner(c, id)].flag

(* Columns that may refer to themselves: those of a forward or backward         *)
(* computed column.                                                             *)
Recursive(c) ==
  {id \in UNION {ToSet(c[i].defs) : i \in DOMAIN c} :
     c[Owner(c, id)].kind = "computedcolumn" /\ c[Owner(c, id)].flag}

(* The multiplier a column starts with: unknown for the target of an assignment *)
(* without a type, otherwise one per interleaved source.                        *)
InitialMultiplier(d) ==
  IF d.kind \in Assigns /\ ~d.typed THEN 0
  ELSE IF d.kind = "interleaved" THEN Len(d.exprs[1]) ELSE 1

--------------------------------------------------------------------------------
(* The scope a declaration is resolved in: constraints may enter a perspective. *)
ScopeOf(d) ==
  IF d.kind = "constraint" /\ d.persp # "none" THEN Append(d.mod, d.persp) ELSE d.mod

(* A perspective is looked up from its module, and its name binds nothing else. *)
Binds(c, s, d, a) ==
  IF a.op = "perspective"
  THEN CanBind(s, d.mod, a.sym) /\ KindOf(c, Bind(s, d.mod, a.sym)) = "perspective"
  ELSE CanBind(s, ScopeOf(d), a.sym)

BoundTo(s, d, a) == Bind(s, IF a.op = "perspective" THEN d.mod ELSE ScopeOf(d), a.sym)

IsFinalised(c, m, f, id) ==
  CASE KindOf(c, id) = "column" -> m[id] # 0
    [] KindOf(c, id) = "native" -> TRUE
    [] OTHER -> id \in f

Defines(d, id) == id \in d.own

DeclIsFinalised(c, m, f, dn, i) ==
  LET d == c[i] ids == ToSet(d.defs) IN
  CASE d.kind \in {"columns", "aliases"} -> TRUE
    [] d.kind \in {"const", "fun"} -> ids \subseteq f
    [] d.kind = "perspective" -> <<d.mod, d.persp, NonFunction>> \in f
    [] d.kind = "permutation" -> \A id \in ids : m[id] # 0
    [] d.kind = "computedcolumn" -> i \in dn /\ \A id \in ids : m[id] # 0
    [] OTHER -> i \in dn

--------------------------------------------------------------------------------
(* Resolution of expressions.  The context of an expression is the module and   *)
(* the length multiplier of its columns, joined over all of them.               *)

Void == <<>>
Conflicted == <<"conflict">>

Join(p, other) ==
  IF p = Void THEN other
  ELSE IF other = Void THEN p
  ELSE IF p # other THEN Conflicted ELSE p

ContextOf(c, m, id) == IF m[id] = 0 THEN Void ELSE <<c[Owner(c, id)].mod, m[id]>>

(* The errors of one access in the given scope, and the context after it.       *)
FinaliseVariable(c, s, m, env, st, a) ==
  LET visible == IsLocal(a, env.params) \/ IsVisible(s, env.p, a.sym, Recursive(c))
      id      == Bind(s, env.p, a.sym)
      ctx     == Join(st.ctx, ContextOf(c, m, id))
      failing(e) == [st EXCEPT !.errs = @ \cup {e}]
  IN  IF ~env.global /\ ~IsWithin(env.p, a.sym) THEN failing("qualified access")
      ELSE IF ~visible THEN failing("recursion")
      ELSE IF IsLocal(a, env.params) THEN st
      ELSE CASE KindOf(c, id) = "column" ->
                  [st EXCEPT !.ctx = ctx,
                             !.errs = @ \cup (IF ctx = Conflicted THEN {"conflicting context"}
                                              ELSE IF env.pure \/ a.const THEN {"pure context"} ELSE {})]
             [] KindOf(c, id) = "const" ->
                  IF c[Owner(c, id)].flag /\ (env.constant \/ a.const)
                  THEN failing("const context") ELSE st
             [] OTHER -> failing("unknown symbol kind")

(* The arguments of a function that is unknown or open are not visited.          *)
FinaliseInvoke(c, s, env, st, a) ==
  LET id == Bind(s, env.p, a.sym)
      abandoned(e) == [st EXCEPT !.errs = @ \cup {e}, !.skip = a.span]
  IN  IF ~CanBind(s, env.p, a.sym) THEN abandoned("unknown function")
      ELSE IF ~IsVisible(s, env.p, a.sym, Recursive(c)) THEN abandoned("recursion")
      ELSE [st EXCEPT !.errs = @ \cup (IF (env.pure \/ a.const) /\ ~Pure(c, id) THEN {"pure context"} ELSE {})
                                 \cup (IF id \in NativeIds THEN {"native invocation"} ELSE {})]

(* The function a list is reduced with may be one that is being defined.         *)
FinaliseReduce(c, s, env, st, a) ==
  [st EXCEPT !.errs = @ \cup
     (IF ~CanBind(s, env.p, a.sym) THEN {"unknown function"}
      ELSE IF (env.pure \/ a.const) /\ ~Pure(c, Bind(s, env.p, a.sym)) THEN {"pure context"}
      ELSE {})]

FinaliseArrayAccess(c, s, m, env, st, a) ==
  LET known == ~IsLocal(a, env.params) /\ CanBind(s, env.p, a.sym)
      id    == Bind(s, env.p, a.sym)
      ctx   == Join(st.ctx, ContextOf(c, m, id))
  IN  IF ~known \/ KindOf(c, id) # "column"
      THEN [st EXCEPT !.errs = @ \cup {"unknown array column"}]
      ELSE [st EXCEPT !.ctx = ctx, !.errs = IF ctx = Conflicted THEN @ \cup {"conflicting context"} ELSE @]

FinaliseExpression(c, s, m, env, expr, st0) ==
  FoldLeft(LAMBDA st, a :
             CASE st.skip > 0 -> [st EXCEPT !.skip = @ - 1]
               [] st.skip = 0 /\ a.op = "var" -> FinaliseVariable(c, s, m, env, st, a)
               [] st.skip = 0 /\ a.op = "call" -> FinaliseInvoke(c, s, env, st, a)
               [] st.skip = 0 /\ a.op = "reduce" -> FinaliseReduce(c, s, env, st, a)
               [] st.skip = 0 /\ a.op = "array" -> FinaliseArrayAccess(c, s, m, env, st, a)
               [] OTHER -> st,
           st0, expr)

Start == [ctx |-> Void, errs |-> {}, skip |-> 0]
Env(d, global, pure, constant) ==
  [p |-> ScopeOf(d), params |-> d.params, global |-> global, pure |-> pure, constant |-> constant]

(* The errors of all expressions of a declaration, resolved in one local scope. *)
InOneScope(c, s, m, d, exprs, env) ==
  FinaliseExpression(c, s, m, env, FlattenSeq(exprs), Start).errs

--------------------------------------------------------------------------------
(* AsConstant of a constant: a value, none, or no answer at all, for a call      *)
(* panics and a constant defined in terms of itself is unfolded for ever.       *)
RECURSIVE AsConstant(_, _, _, _)
AsConstant(c, s, id, unfolding) ==
  LET d    == c[Owner(c, id)]
      expr == d.exprs[CHOOSE k \in DOMAIN d.defs : d.defs[k] = id]
      of(a) == IF a.fold = "none" THEN "none"
               ELSE IF a.fold = "ignored" \/ a.op = "lit" THEN "value"
               ELSE IF a.op \in {"call", "let"} THEN "panic"
               ELSE IF a.op # "var" \/ IsLocal(a, {}) THEN "none"
               ELSE AsConstant(c, s, Bind(s, d.mod, a.sym), unfolding \cup {id})
  IN  IF id \in unfolding THEN "panic"
      ELSE FoldLeft(LAMBDA r, a : IF r # "value" THEN r ELSE of(a), "value", expr)

--------------------------------------------------------------------------------
(* Finalising one declaration: the errors found, and what becomes of the        *)
(* multipliers, the finalised bindings, the declaration's own flag, and the     *)
(* definitions left open.                                                       *)

Result(errs, m, f, ok, open) ==
  [errs |-> errs, m |-> m, f |-> f, ok |-> ok, open |-> open, panic |-> FALSE]

SetMultiplier(m, id, k) == [x \in DOMAIN m |-> IF x = id THEN k ELSE m[x]]

(* Constraints, ranges, computed columns: finalised unless there is an error.   *)
FinaliseChecked(s, m, f, errs) == Result(errs, m, f, errs = {}, s.open)

(* Calls, lookups, properties: resolved, and never marked as finalised.         *)
FinaliseUnmarked(s, m, f, errs) == Result(errs, m, f, FALSE, s.open)

(* Functions and perspectives are finalised through their binding.              *)
FinaliseBinding(s, m, f, errs, id) ==
  Result(errs, m, IF errs = {} THEN f \cup {id} ELSE f, FALSE, s.open)

(* Every vector of a lookup has a scope of its own; selectors are not resolved. *)
LookupErrors(c, s, m, d) ==
  UNION {FinaliseExpression(c, s, m, Env(d, TRUE, FALSE, FALSE), d.exprs[k], Start).errs
         : k \in DOMAIN d.exprs}

(* The selector of a sorting constraint is resolved, its errors are dropped.     *)
SortedErrors(c, s, m, d) ==
  LET env == Env(d, FALSE, FALSE, FALSE)
      ctx(e) == FinaliseExpression(c, s, m, [env EXCEPT !.global = TRUE], e, Start).ctx
  IN  InOneScope(c, s, m, d, d.exprs, env)
      \cup {"interleaved column access" : k \in {k \in DOMAIN d.exprs :
              Len(ctx(d.exprs[k])) # 2 \/ ctx(d.exprs[k])[2] # 1}}

(* A constant with a value is finalised; one without is passed over in silence. *)
FinaliseDefConst(c, s, m, f, d) ==
  LET errs(k) == FinaliseExpression(c, s, m, Env(d, FALSE, TRUE, TRUE), d.exprs[k], Start).errs
      ids     == d.defs
      value(k) == AsConstant(c, s, ids[k], {})
      clean   == {k \in DOMAIN ids : errs(k) = {}}
  IN  [Result(UNION {errs(k) : k \in DOMAIN ids}, m,
              f \cup {ids[k] : k \in {k \in clean : value(k) = "value"}}, FALSE, s.open)
       EXCEPT !.panic = \E k \in clean : value(k) = "panic"]

(* Sources are interleaved when they are visible columns of one multiplier.     *)
FinaliseDefInterleaved(c, s, m, f, d) ==
  LET target == Head(d.defs)
      opened == OpenDefinition(s, target)
      src(k) == Bind(s, d.mod, d.exprs[1][k].sym)
      isCol(k) == KindOf(c, src(k)) = "column"
      visible(k) == IsVisible(opened, d.mod, d.exprs[1][k].sym, Recursive(c))
      usable == {k \in DOMAIN d.exprs[1] : isCol(k) /\ visible(k)}
      first  == Min(usable)
      errs   == {"invalid source column" : k \in {k \in DOMAIN d.exprs[1] : ~isCol(k)}}
                \cup {"recursive definition" : k \in {k \in DOMAIN d.exprs[1] : isCol(k) /\ ~visible(k)}}
                \cup {"incompatible length multiplier" : k \in {k \in usable : m[src(k)] # m[src(first)]}}
      length == m[src(first)] * Len(d.exprs[1])
      m2     == IF m[target] = 0 THEN SetMultiplier(m, target, length) ELSE m
  IN  IF errs # {} THEN Result(errs, m, f, FALSE, s.open)
      ELSE Result(IF m2[target] # length THEN {"invalid length multiplier"} ELSE {},
                  m2, f, TRUE, s.open)

(* Targets are fixed one by one until a source is not a column, in which case    *)
(* they are all left open; a target may be fixed although another source fails. *)
FinaliseDefPermutation(c, s, m, f, d) ==
  LET targets == d.defs
      opened  == FoldLeft(OpenDefinition, s, targets)
      step(st, k) ==
        LET sym == d.exprs[1][k].sym
            src == Bind(s, d.mod, sym)
            fail(e) == [st EXCEPT !.errs = @ \cup {e}]
        IN  IF st.stopped THEN st
            ELSE IF KindOf(c, src) # "column"
                 THEN [fail("invalid source column") EXCEPT !.stopped = TRUE]
            ELSE IF st.mult # 0 /\ st.mult # st.m[src] THEN fail("incompatible length multiplier")
            ELSE IF ~IsVisible(opened, d.mod, sym, Recursive(c)) THEN fail("recursive definition")
            ELSE [st EXCEPT !.m = SetMultiplier(st.m, targets[k], st.m[src]), !.mult = st.m[src]]
      r == FoldLeftDomain(step, [m |-> m, mult |-> 0, errs |-> {}, stopped |-> FALSE], d.exprs[1])
  IN  Result(r.errs, r.m, f, FALSE, IF r.stopped THEN opened.open
                                 ELSE FoldLeft(CloseDefinition, opened, targets).open)

(* The first access names the native function, the others its source columns;    *)
(* anything but a native and columns is a failed type assertion.                *)
FinaliseDefComputed(c, s, m, f, d) ==
  LET ids    == [k \in DOMAIN d.exprs[1] |-> Bind(s, d.mod, d.exprs[1][k].sym)]
      native == ids[1]
      length == m[ids[1 + Natives[native[2]][2]]]
      target == Head(d.defs)
      m2     == IF m[target] = 0 THEN SetMultiplier(m, target, length) ELSE m
  IN  IF native \notin NativeIds \/ \E k \in 2 .. Len(ids) : KindOf(c, ids[k]) # "column"
      THEN [Result({}, m, f, FALSE, s.open) EXCEPT !.panic = TRUE]
      ELSE IF Len(d.defs) # 1 THEN Result({"number of target columns"}, m, f, FALSE, s.open)
      ELSE Result(IF m2[target] # length THEN {"invalid length multiplier"} ELSE {},
                  m2, f, TRUE, s.open)

Finalise(c, s, m, f, i) ==
  LET d == c[i]
      all(env) == InOneScope(c, s, m, d, <<d.sel>> \o d.exprs, env)
      plain    == Env(d, FALSE, FALSE, FALSE)
      opened   == OpenDefinition(s, Head(d.defs))
      within(env) == InOneScope(c, opened, m, d, d.exprs, env)
  IN  CASE d.kind \in {"constraint", "inrange"} -> FinaliseChecked(s, m, f, all(plain))
        [] d.kind \in {"call", "property"} -> FinaliseUnmarked(s, m, f, all(plain))
        [] d.kind = "lookup" -> FinaliseUnmarked(s, m, f, LookupErrors(c, s, m, d))
        [] d.kind = "sorted" -> FinaliseChecked(s, m, f, SortedErrors(c, s, m, d))
        [] d.kind = "perspective" ->
             FinaliseBinding(s, m, f, all(plain), <<d.mod, d.persp, NonFunction>>)
        [] d.kind = "fun" ->
             FinaliseBinding(s, m, f, within(Env(d, TRUE, d.flag, FALSE)), Head(d.defs))
        [] d.kind = "computedcolumn" -> FinaliseChecked(s, m, f, within(plain))
        [] d.kind = "const" -> FinaliseDefConst(c, s, m, f, d)
        [] d.kind = "interleaved" -> FinaliseDefInterleaved(c, s, m, f, d)
        [] d.kind = "permutation" -> FinaliseDefPermutation(c, s, m, f, d)
        [] d.kind = "computed" -> FinaliseDefComputed(c, s, m, f, d)

--------------------------------------------------------------------------------
(* The scope before anything is resolved. *)

InModule(c, p) == SelectSeq([i \in DOMAIN c |-> i], LAMBDA i : c[i].mod = p)
Submodules(c) == {c[i].mod : i \in DOMAIN c} \ {<<>>}
(* The order in which declarations are visited: those of the root come first.   *)
Order(c) == InModule(c, <<>>) \o FlattenSeq([k \in DOMAIN SetToSeq(Submodules(c)) |->
                                               InModule(c, SetToSeq(Submodules(c))[k])])

DeclareModules(c) ==
  LET natives == [EmptyScope EXCEPT !.ids = [id \in NativeIds |-> id]]
      submods == FoldSet(LAMBDA p, s : Declare(s, Front(p), Last(p)), natives, Submodules(c))
  IN  FoldLeft(LAMBDA s, d : IF d.kind = "perspective" THEN Declare(s, d.mod, d.persp) ELSE s,
               submods, c)

DefineAll(c, s0) ==
  FoldLeft(LAMBDA st, k :
             [s |-> Define(st.s, k[2]),
              errs |-> IF CanDefine(st.s, k[2]) THEN st.errs
                       ELSE st.errs \cup {<<k[1], "already declared">>}],
           [s |-> s0, errs |-> {}],
           FlattenSeq([j \in DOMAIN c |-> LET i == Order(c)[j] IN
                         [k \in DOMAIN c[i].defs |-> <<i, c[i].defs[k]>>]]))

(* Aliases of aliases: passes over all of them until nothing changes.  An alias  *)
(* made is remembered by its name.                                              *)
AliasesOf(c, p) ==
  FlattenSeq([j \in DOMAIN InModule(c, p) |-> LET i == InModule(c, p)[j] IN
                [k \in DOMAIN c[i].aliases |-> [decl |-> i, name |-> c[i].aliases[k][1],
                                                sym |-> c[i].aliases[k][2]]]])

AliasPass(c, p, st) ==
  FoldLeft(LAMBDA t, a :
             IF \A v \in t.visited : v[1] # a.name
             THEN IF CanAlias(t.s, p, a.name, a.sym)
                  THEN [s |-> Alias(t.s, p, a.name, a.sym), visited |-> t.visited \cup {<<a.name, a.decl>>}]
                  ELSE t
             ELSE t,
           st, AliasesOf(c, p))

InitialiseAliases(c, p, s) ==
  LET r == FoldLeft(LAMBDA st, a : AliasPass(c, p, st), [s |-> s, visited |-> {}], AliasesOf(c, p))
  IN  [s |-> r.s, errs |-> {<<a.decl, "alias">> : a \in
         {a \in ToSet(AliasesOf(c, p)) : <<a.name, a.decl>> \notin r.visited}}]

(* Errors over aliases replace those over definitions of the same module.       *)
InitialiseDeclarations(c) ==
  LET defined == DefineAll(c, DeclareModules(c))
  IN  FoldSet(LAMBDA p, st :
                LET r == InitialiseAliases(c, p, st.s)
                IN  [s |-> r.s, errs |-> IF r.errs = {} THEN st.errs
                                         ELSE r.errs \cup {e \in st.errs : c[e[1]].mod # p}],
              defined, {<<>>} \cup Submodules(c))

--------------------------------------------------------------------------------
(* The resolver. *)

ColumnIds(c) == {id \in UNION {ToSet(c[i].defs) : i \in DOMAIN c} : KindOf(c, id) = "column"}

Init ==
  /\ circ \in Circuits
  /\ phase = "init" /\ at = 1
  /\ scope = EmptyScope /\ mult = << >> /\ fin = {} /\ done = {}
  /\ failed = {} /\ completed = {} /\ uncompleted = 0 /\ changed = TRUE /\ count = LIMIT
  /\ errors = {}

(* initialiseDeclarations, then NewGlobalResolution. *)
Initialise ==
  /\ phase = "init"
  /\ LET r  == InitialiseDeclarations(circ)
         m0 == [id \in ColumnIds(circ) |-> InitialMultiplier(circ[Owner(circ, id)])]
         c0 == {i \in DOMAIN circ : DeclIsFinalised(circ, m0, {}, {}, i)}
     IN  /\ scope' = r.s /\ errors' = r.errs
         /\ mult' = m0 /\ completed' = c0
         /\ uncompleted' = Len(circ) - Cardinality(c0)
         /\ phase' = IF r.errs = {} THEN "iterate" ELSE "reject"
  /\ UNCHANGED <<circ, at, fin, done, failed, changed, count>>

(* GlobalResolution.giveUp: the first declaration that is not completed.        *)
GiveUpErrors ==
  IF errors # {} \/ DOMAIN circ = completed THEN {}
  ELSE {<<Head(SelectSeq(Order(circ), LAMBDA i : i \notin completed)), "unable to complete">>}

(* GlobalResolution.internalFailure: what the declarations left wait for.       *)
InternalFailureErrors ==
  IF errors # {} THEN {}
  ELSE {<<i, "unresolvable symbol">> : i \in
          {i \in DOMAIN circ \ completed :
             \E a \in ToSet(circ[i].deps) :
               /\ Binds(circ, scope, circ[i], a)
               /\ ~IsFinalised(circ, mult, fin, BoundTo(scope, circ[i], a))}}

(* Continue and BeginIteration. *)
Iterate ==
  /\ phase = "iterate"
  /\ errors' = errors \cup (IF changed /\ count = 0 THEN GiveUpErrors
                            ELSE IF ~changed /\ uncompleted > 0 THEN InternalFailureErrors ELSE {})
  /\ IF changed /\ count > 0
     THEN phase' = "declare" /\ changed' = FALSE /\ count' = count - 1 /\ at' = 1
     ELSE /\ phase' = IF errors' = {} THEN "accept" ELSE "reject"
          /\ UNCHANGED <<changed, count, at>>
  /\ UNCHANGED <<circ, scope, mult, fin, done, failed, completed, uncompleted>>

(* declarationDependenciesAreFinalised. *)
UnknownSymbols(c, s, i) == {a \in ToSet(c[i].deps) : ~Binds(c, s, c[i], a)}

(* A faulty one that takes the multiplier of every column for known. *)
ColumnsReady(c, s, m, f, i) ==
  /\ UnknownSymbols(c, s, i) = {}
  /\ \A a \in ToSet(c[i].deps) :
       LET id == BoundTo(s, c[i], a) IN
       Defines(c[i], id) \/ KindOf(c, id) = "column" \/ IsFinalised(c, m, f, id)

Ready(c, s, m, f, i) ==
  /\ UnknownSymbols(c, s, i) = {}
  /\ \A a \in ToSet(c[i].deps) :
       LET id == BoundTo(s, c[i], a) IN Defines(c[i], id) \/ IsFinalised(c, m, f, id)

CountDown(u) == (u - 1) % UINT

(* A faulty pass that starts over at the end of the declarations.                *)
AdvanceAgain == phase' = "declare" /\ at' = IF at < Len(circ) THEN at + 1 ELSE 1

(* The next declaration, or the end of the iteration.                            *)
Advance == IF at < Len(circ) THEN at' = at + 1 /\ phase' = "declare"
                             ELSE at' = 1 /\ phase' = "iterate"

(* A declaration that failed, or is finalised, is passed over; so is, for now,   *)
(* one that is not ready.                                                       *)
Skip ==
  /\ phase = "declare"
  /\ LET i == Order(circ)[at] IN
       \/ i \in failed
       \/ DeclIsFinalised(circ, mult, fin, done, i)
       \/ UnknownSymbols(circ, scope, i) = {} /\ ~Ready(circ, scope, mult, fin, i)
  /\ Advance
  /\ UNCHANGED <<circ, scope, mult, fin, done, failed, completed, uncompleted, changed, count, errors>>

Unknown ==
  /\ phase = "declare"
  /\ LET i == Order(circ)[at] IN
       /\ i \notin failed /\ ~DeclIsFinalised(circ, mult, fin, done, i)
       /\ UnknownSymbols(circ, scope, i) # {}
       /\ failed' = failed \cup {i}
       /\ errors' = errors \cup {<<i, "unknown symbol">>}
  /\ Advance
  /\ UNCHANGED <<circ, scope, mult, fin, done, completed, uncompleted, changed, count>>

Visit ==
  /\ phase = "declare"
  /\ LET i == Order(circ)[at]
         r == Finalise(circ, scope, mult, fin, i)
     IN  /\ i \notin failed /\ ~DeclIsFinalised(circ, mult, fin, done, i)
         /\ Ready(circ, scope, mult, fin, i)
         /\ mult' = r.m /\ fin' = r.f
         /\ done' = IF r.ok THEN done \cup {i} ELSE done
         /\ scope' = [scope EXCEPT !.open = r.open]
         /\ IF r.panic
            THEN phase' = "panic" /\ UNCHANGED <<at, completed, uncompleted, changed, failed, errors>>
            ELSE /\ Advance
                 /\ IF r.errs = {}
                    THEN /\ completed' = completed \cup {i} /\ changed' = TRUE
                         /\ uncompleted' = CountDown(uncompleted)
                         /\ UNCHANGED <<failed, errors>>
                    ELSE /\ failed' = failed \cup {i}
                         /\ errors' = errors \cup {<<i, e>> : e \in r.errs}
                         /\ UNCHANGED <<completed, changed, uncompleted>>
  /\ UNCHANGED <<circ, count>>

Next == Initialise \/ Iterate \/ Skip \/ Unknown \/ Visit

(* The resolver is sequential code: it takes its next step until it returns.    *)
(* This is weak fairness of Next, which is enabled until then.                  *)
Returned == phase \in {"accept", "reject", "panic"}
Fairness == []<>Returned \/ []<><<Next>>_vars

Spec == Init /\ [][Next]_vars /\ Fairness

--------------------------------------------------------------------------------
(* Properties. *)

TypeOK ==
  /\ phase \in {"init", "iterate", "declare", "accept", "reject", "panic"}
  /\ at \in 1 .. Len(circ) /\ count \in 0 .. LIMIT /\ uncompleted \in 0 .. UINT - 1
  /\ failed \subseteq DOMAIN circ /\ completed \subseteq DOMAIN circ /\ done \subseteq DOMAIN circ
  /\ scope.open \subseteq DOMAIN scope.ids /\ fin \subseteq DOMAIN scope.ids
  /\ \A id \in DOMAIN mult : mult[id] \in Nat

(* Everything a declaration really refers to, whatever it is hidden behind.      *)
Uses(c, i) ==
  {a \in ToSet(FlattenSeq(c[i].exprs) \o c[i].sel) : a.op \notin {"lit", "let"} /\ ~IsLocal(a, c[i].params)}
  \cup {a \in ToSet(c[i].deps) : a.op = "perspective"}

(* A circuit is accepted only when every symbol it mentions is bound, to a       *)
(* definition that is itself finalised, and every alias stands for something.   *)
AcceptedIsBound ==
  phase = "accept" =>
    \A i \in DOMAIN circ :
      /\ \A a \in Uses(circ, i) :
           /\ Binds(circ, scope, circ[i], a)
           /\ IsFinalised(circ, mult, fin, BoundTo(scope, circ[i], a))
      /\ \A k \in DOMAIN circ[i].aliases :
           <<circ[i].mod, circ[i].aliases[k][1], circ[i].aliases[k][2].arity>> \in DOMAIN scope.ids

(* An accepted circuit leaves nothing that it defines unfinalised: a column      *)
(* without a multiplier, or a constant without a value, has no meaning later.   *)
AcceptedIsFinalised ==
  phase = "accept" =>
    \A i \in DOMAIN circ : \A id \in ToSet(circ[i].defs) : IsFinalised(circ, mult, fin, id)

(* The declarations a declaration depends on, itself excepted. *)
UsedDecls(c, s, i) ==
  {Owner(c, BoundTo(s, c[i], a)) : a \in
     {a \in Uses(c, i) : /\ Binds(c, s, c[i], a) /\ BoundTo(s, c[i], a) \notin NativeIds
                         /\ BoundTo(s, c[i], a) \notin c[i].own}}

(* No function of an accepted circuit is defined by recursion: calls are         *)
(* expanded in place, and the expansion must come to an end.                     *)
AcceptedIsAcyclic ==
  phase = "accept" =>
    LET funs == {i \in DOMAIN circ : circ[i].kind = "fun"} IN
    /\ \A i \in funs : \A a \in Uses(circ, i) : ~Defines(circ[i], BoundTo(scope, circ[i], a))
    /\ \E rank \in [funs -> 1 .. Len(circ)] :
         \A i \in funs : \A j \in UsedDecls(circ, scope, i) \cap funs : rank[j] < rank[i]

(* The declarations can be finalised in LIMIT rounds, each after those it uses.  *)
Resolvable(c, s) ==
  \E round \in [DOMAIN c -> 1 .. LIMIT] :
    \A i \in DOMAIN c : \A j \in UsedDecls(c, s, i) :
      c[j].kind = "columns" \/ round[j] < round[i]

(* Resolution is abandoned, or gets stuck, only on a circuit whose definitions   *)
(* depend on one another in a cycle or in a chain longer than the limit: the     *)
(* order in which declarations are written is no reason.                        *)
StuckForCause ==
  (\E e \in errors : e[2] \in {"unable to complete", "unresolvable symbol"}) =>
    ~Resolvable(circ, scope)

(* What was found of a declaration when it was visited is still so at the end:   *)
(* nothing it was judged by changes afterwards.                                 *)
VerdictsStand ==
  phase \in {"accept", "reject"} =>
    \A i \in DOMAIN circ :
      LET known == UnknownSymbols(circ, scope, i) = {} /\ circ[i].kind \notin {"columns", "aliases"} IN
      /\ i \in completed /\ known =>
           Finalise(circ, scope, mult, fin, i).errs = {}
      /\ i \in failed /\ known =>
           {e[2] : e \in {e \in errors : e[1] = i}} = Finalise(circ, scope, mult, fin, i).errs

(* Resolution ends, whatever the circuit: also when declarations that are never  *)
(* marked finalised report a change in every iteration.                         *)
Terminates == <>Returned
=============================================================================
