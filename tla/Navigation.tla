----------------------------- MODULE Navigation -----------------------------
(***************************************************************************)
(* Find-references and the renaming of top-level declarations in the zkc     *)
(* language server.  Both walk the program the IncrementalCompiler keeps,     *)
(* which has been flattened already, and look up where each node they find     *)
(* came from.  A node that names a declaration carries its place in the text   *)
(* in its field i; flattening copies a node together with its place.          *)
(***************************************************************************)
EXTENDS Codegen

-----------------------------------------------------------------------------
(* What the server collects.                                                *)

(* Constants, local and array accesses and tuples are not entered.          *)
RECURSIVE CollectExprRefs(_, _)
CollectExprRefs(e, target) ==
    IF e.k \in {"const", "local", "array", "tuple"} THEN <<>>
    ELSE (IF e.k = "extern" /\ e.v = target THEN <<e.i>> ELSE <<>>)
         \o FlattenSeq([j \in DOMAIN e.a |-> CollectExprRefs(e.a[j], target)])

CollectExprListRefs(es, target) ==
    FlattenSeq([j \in DOMAIN es |-> CollectExprRefs(es[j], target)])

CollectLValRefs(lv, target) ==
    IF lv.l /= "memory" THEN <<>>
    ELSE (IF lv.ids[1] = target THEN <<lv.i>> ELSE <<>>) \o CollectExprListRefs(lv.a, target)

(* There are no switches left in flat code; fail, return and goto are not    *)
(* entered.                                                                  *)
RECURSIVE CollectStmtRefs(_, _)
CollectStmtRefs(s, target) ==
    IF s.s \notin {"assign", "for", "if", "ifgoto", "printf", "vardecl", "while"} THEN <<>>
    ELSE (IF s.s = "assign" THEN FlattenSeq([j \in DOMAIN s.t |-> CollectLValRefs(s.t[j], target)]) ELSE <<>>)
         \o CollectExprListRefs(s.e, target)
         \o FlattenSeq([j \in DOMAIN s.b |->
               FlattenSeq([n \in DOMAIN s.b[j] |-> CollectStmtRefs(s.b[j][n], target)])])

CollectFunctionRefs(f, target) ==
    [n \in DOMAIN SelectSeq(f.effects, LAMBDA e : e.name = target) |->
        SelectSeq(f.effects, LAMBDA e : e.name = target)[n].place]
    \o FlattenSeq([n \in DOMAIN f.code |-> CollectStmtRefs(f.code[n], target)])

(* A program here has one function, one constant and one memory with contents. *)
CollectProgramRefs(prog, target) ==
    CollectFunctionRefs(prog.function, target)
    \o CollectExprRefs(prog.constant, target)
    \o CollectExprListRefs(prog.contents, target)

(* The program as the compiler stores it after Apply.                       *)
Compiled(prog) ==
    [prog EXCEPT !.function.code = LowerStatements(1, prog.function.code, [next |-> -1, brk |-> 0, cont |-> 0]).code]

(* ReferencesFor without the declaration itself.                            *)
ReferencesFor(prog, target) == CollectProgramRefs(Compiled(prog), target)

-----------------------------------------------------------------------------
(* Where a declaration is used, by definition: every place of the text that *)
(* names it.  With deep = FALSE, tuples and the message of fail are left out. *)

RECURSIVE UsesInExpr(_, _, _)
UsesInExpr(e, target, deep) ==
    (IF e.k = "extern" /\ e.v = target THEN {e.i} ELSE {})
    \cup (IF e.k = "tuple" /\ ~deep THEN {} ELSE UNION {UsesInExpr(e.a[j], target, deep) : j \in DOMAIN e.a})

UsesInExprs(es, target, deep) == UNION {UsesInExpr(es[j], target, deep) : j \in DOMAIN es}

RECURSIVE UsesInStmts(_, _, _)
UsesInStmts(stmts, target, deep) ==
    UNION {LET s == stmts[n] IN
             (IF s.s = "fail" /\ ~deep THEN {} ELSE UsesInExprs(s.e, target, deep))
             \cup UNION {(IF s.t[j].l = "memory" /\ s.t[j].ids[1] = target THEN {s.t[j].i} ELSE {})
                          \cup UsesInExprs(s.t[j].a, target, deep) : j \in DOMAIN s.t}
             \cup UNION {UsesInStmts(s.b[j], target, deep) : j \in DOMAIN s.b}
             \cup UNION {UsesInExprs(s.c[j], target, deep) : j \in DOMAIN s.c}
             : n \in DOMAIN stmts}

UsesOf(prog, target, deep) ==
    {e.place : e \in {x \in Range(prog.function.effects) : x.name = target}}
    \cup UsesInStmts(prog.function.code, target, deep)
    \cup UsesInExpr(prog.constant, target, deep)
    \cup UsesInExprs(prog.contents, target, deep)
-----------------------------------------------------------------------------
(* Renaming an identifier in the zkc language server (PrepareRename, Rename). *)
(* The server decides from the tokens of the enclosing function and from the   *)
(* names its variables have which places to change; what the identifiers       *)
(* mean is decided by the parser, which knows the variables visible at each     *)
(* point.                                                                       *)
(*                                                                             *)
(* A function is the sequence of its interesting tokens: declarations and uses   *)
(* of variables, uses of types, and the braces of its blocks.  The program has   *)
(* one other declaration, of some kind, outside the function.                    *)

CONSTANTS Names,      \* identifiers, among them TopName
          TopName,    \* the name of the declaration outside the function
          NewName,    \* what identifiers are renamed to, not one of Names
          Kinds,      \* the kinds that declaration may have
          MaxTokens   \* tokens of a function

VARIABLES tokens,   \* the function
          context,  \* token -> where a use stands
          kind,     \* the kind of the other declaration
          cursor,   \* the token to be renamed, 0 before the request
          edits,    \* the tokens to change, in the order of the answer
          topEdit   \* the other declaration is renamed, too

\* What follows an identifier: a call, an index, or neither.
Identifiers == [is : {"declaration", "type"}, name : Names, next : {"other"}]
               \cup [is : {"use"}, name : Names, next : {"(", "[", "other"}]
Braces == [is : {"{", "}"}, name : {"none"}, next : {"other"}]

-----------------------------------------------------------------------------
(* What the parser and the linker make of the tokens. *)

Depth(toks, p) == Cardinality({q \in 1 .. p : toks[q].is = "{"})
                  - Cardinality({q \in 1 .. p - 1 : toks[q].is = "}"})

\* A variable is visible to the end of the block that declares it.
Visible(toks, d, p) ==
  /\ d < p /\ toks[d].is = "declaration" /\ toks[d].name = toks[p].name
  /\ \A q \in d .. p : Depth(toks, q) >= Depth(toks, d)

Variables(toks, p) == {d \in DOMAIN toks : Visible(toks, d, p)}

Top == -1
Unresolved == -2

\* What the other declaration can be used for.
Suits(token, k) ==
  CASE token.is = "type" -> k = "alias"
    [] token.next = "(" -> k = "function"
    [] token.next = "[" -> k = "memory"
    [] OTHER -> k = "constant"

\* The meaning of the identifier at p: a visible variable comes first, and may be
\* indexed but not called; types are never variables.
MeaningAt(toks, top, k, p) ==
  LET t == toks[p] IN
  IF t.is = "declaration" THEN p
  ELSE IF t.is = "use" /\ Variables(toks, p) # {}
       THEN IF t.next = "(" THEN Unresolved ELSE CHOOSE d \in Variables(toks, p) : TRUE
       ELSE IF t.name = top /\ Suits(t, k) THEN Top ELSE Unresolved

IsIdentifier(toks, p) == toks[p].is \notin {"{", "}"}

\* The function is accepted: braces match, no visible variable is declared again
\* and every identifier means something.
Accepted(toks, top, k) ==
  /\ \A p \in DOMAIN toks : Depth(toks, p) >= (IF toks[p].is = "}" THEN 1 ELSE 0)
  /\ Cardinality({q \in DOMAIN toks : toks[q].is = "{"}) = Cardinality({q \in DOMAIN toks : toks[q].is = "}"})
  /\ \A p \in DOMAIN toks : IsIdentifier(toks, p) =>
       /\ MeaningAt(toks, top, k, p) # Unresolved
       /\ toks[p].is = "declaration" => Variables(toks, p) = {}

-----------------------------------------------------------------------------
(* What the server does. *)

IsExternAccess(p) == tokens[p].next \in {"(", "["}

HasLocal(name) == \E d \in DOMAIN tokens : tokens[d].is = "declaration" /\ tokens[d].name = name

Named(name) == {p \in DOMAIN tokens : IsIdentifier(tokens, p) /\ tokens[p].name = name}

InOrder(places) == SetToSortSeq(places, <)

\* A faulty renaming of a variable that stops at its declaration's block.
RenameLocalBlock(name) ==
  InOrder({p \in Named(name) : ~ IsExternAccess(p) /\ Depth(tokens, p) = Depth(tokens, cursor')})

\* renameLocal: all the tokens of that name in the function but extern accesses.
RenameLocal(name) == InOrder({p \in Named(name) : ~ IsExternAccess(p)})

\* What the parser makes of a use: an access to the other declaration, or to a
\* variable, which is printed, an element of a tuple, in the message of a fail, or
\* what a switch with two cases is over.
TopId == 1
Access(p) == IF MeaningAt(tokens, TopName, kind, p) = Top
             THEN [ExternAccess(TopId, <<>>) EXCEPT !.i = p] ELSE LocalAccess(1)
Contexts == {"statement", "tuple", "fail", "switch"}
StatementOf(p) ==
  CASE context[p] = "statement" -> Printf(<<Access(p)>>)
    [] context[p] = "tuple" -> Assign(<<Variable(<<1>>)>>, TupleInitialiser(<<Access(p)>>))
    [] context[p] = "fail" -> Fail(<<Access(p)>>)
    [] context[p] = "switch" -> Switch(Access(p), <<<<Const(1)>>, <<Const(2)>>>>, <<<<Returns>>, <<Returns>>>>)

\* The program of these tokens.  A type is no node of it, only part of one.
Parsed ==
  LET uses == InOrder({p \in DOMAIN tokens : tokens[p].is = "use"})
  IN  [function |-> [effects |-> <<>>,
                     code |-> Append([n \in DOMAIN uses |-> StatementOf(uses[n])], Returns)],
       constant |-> Const(0), contents |-> <<>>]

\* renameTopLevel: one edit for each node collected in the flattened program.
RenameTopLevel == CollectProgramRefs(Compiled(Parsed), TopId)

RenameInit ==
  /\ \E n \in 0 .. MaxTokens : tokens \in [1 .. n -> Identifiers \cup Braces]
  /\ kind \in Kinds
  /\ Accepted(tokens, TopName, kind)
  /\ context \in [DOMAIN tokens -> {"statement"}]
       \cup {[p \in DOMAIN tokens |-> IF p = q THEN c ELSE "statement"] :
               c \in Contexts, q \in {p \in DOMAIN tokens : tokens[p].is = "use"}}
  /\ cursor = 0 /\ edits = <<>> /\ topEdit = FALSE

\* RenameFor: the variable of the function, unless the token is an extern access,
\* then the other declaration, else nothing.
RenameFor(p) ==
  /\ cursor = 0 /\ IsIdentifier(tokens, p) /\ cursor' = p
  /\ LET name == tokens[p].name
     IN  IF ~ IsExternAccess(p) /\ HasLocal(name)
         THEN edits' = RenameLocal(name) /\ topEdit' = FALSE
         ELSE IF name = TopName
              THEN edits' = RenameTopLevel /\ topEdit' = TRUE
              ELSE edits' = <<>> /\ topEdit' = FALSE
  /\ UNCHANGED <<tokens, context, kind>>

\* PrepareRenameFor: the editor may start a renaming here.
PrepareRenameFor(p) == tokens[p].name = TopName \/ HasLocal(tokens[p].name)

Rename == \E p \in DOMAIN tokens : RenameFor(p)

-----------------------------------------------------------------------------

\* The function and the other declaration once the edit is applied.
Edited == [p \in DOMAIN tokens |->
             IF p \in Range(edits) THEN [tokens[p] EXCEPT !.name = NewName] ELSE tokens[p]]
EditedTop == IF topEdit THEN NewName ELSE TopName

\* No token is edited twice, and no identifier means anything else.
EditedRight ==
  /\ IsInjective(edits)
  /\ \A p \in DOMAIN tokens : IsIdentifier(tokens, p) =>
       MeaningAt(Edited, EditedTop, kind, p) = MeaningAt(tokens, TopName, kind, p)

\* A variable is indexed, which isExternAccess takes for a memory (rename.go:86).
IndexesVariable(p) == tokens[p].next = "[" /\ Variables(tokens, p) # {}

IsTop(p) == MeaningAt(tokens, TopName, kind, p) = Top

\* A use of the other declaration that the walk over the program does not come to
\* (references.go): a type, an element of a tuple, or in the message of a fail.
Unvisited(p) == IsTop(p) /\ (tokens[p].is = "type" \/ context[p] \in {"tuple", "fail"})

RenamesTop == ~ (~ IsExternAccess(cursor) /\ HasLocal(tokens[cursor].name))

\* The requests that go wrong: a variable is renamed that is also indexed, or whose
\* name a constant or a type has, too; or another declaration, one of whose uses is
\* not visited, or is copied by flattening and visited twice.
GoesWrong ==
  LET same == Named(tokens[cursor].name)
  IN  IF RenamesTop
      THEN tokens[cursor].name = TopName /\ \E p \in same : Unvisited(p) \/ (IsTop(p) /\ context[p] = "switch")
      ELSE \E p \in same : IndexesVariable(p) \/ (IsTop(p) /\ ~ IsExternAccess(p))

\* A renaming to an unused name edits every place once and changes what no
\* identifier means, whatever the blocks the variables of that name live in: it
\* takes all of them along, and the other declaration with its uses when that was
\* meant (RenameFor, renameLocal, renameTopLevel).  The exceptions are exactly the
\* requests that GoesWrong names.
KeepsMeaning == cursor # 0 => (EditedRight <=> ~ GoesWrong)

\* Where PrepareRename offers a renaming Rename changes the token under the
\* cursor, except on an indexed variable, and on a use that is not visited and
\* shares its name with no variable; and nothing is changed where none is offered.
PreparedIsRenamed ==
  cursor # 0 =>
    (cursor \in Range(edits) <=> /\ PrepareRenameFor(cursor)
                                 /\ ~ IndexesVariable(cursor)
                                 /\ ~ (RenamesTop /\ Unvisited(cursor)))
=============================================================================
