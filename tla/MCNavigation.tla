---------------------------- MODULE MCNavigation ----------------------------
(***************************************************************************)
(* The navigation requests of the language server for TLC: a renaming, or  *)
(* a search for references.  The two share no state.                       *)
(*                                                                         *)
(* Renaming: functions of up to five tokens with two names, one of which   *)
(* is also that of a constant, memory, function or type.                   *)
(*                                                                         *)
(* References: declarations 1 and 2 are functions, 3 is a memory and 4 a    *)
(* constant.  A body has two statements, the second one possibly inside a   *)
(* loop, a conditional or a switch.                                        *)
(***************************************************************************)
EXTENDS Navigation

VARIABLES part,   \* which kind of request is made, "none" for neither
          program, target, refs
ofReferences == <<program, target, refs>>
ofRenaming == <<tokens, context, kind, cursor, edits, topEdit>>
vars == <<part, ofReferences, ofRenaming>>

-----------------------------------------------------------------------------
(* References: programs and requests.  No program is run.                  *)

Unused(name, args) == <<>>

Call(name, place, args) == [ExternAccess(name, args) EXCEPT !.i = place]
Cell(place, index) == [MemAccess(3, <<index>>) EXCEPT !.i = place]

(* Expressions whose uses are at the places b, b + 1, b + 2.  Exact code is *)
(* code in which nothing is lowered into several copies or left unvisited.  *)
Exprs(b, exact) ==
    {Call(1, b, <<LocalAccess(1)>>), Call(1, b, <<Call(1, b + 1, <<Call(4, b + 2, <<>>)>>)>>),
     Add(<<Call(2, b, <<>>), Cast(Call(1, b + 1, <<>>), 8)>>),
     Ternary(Cmp("lt", Call(1, b, <<>>), Const(1)), Call(1, b + 1, <<>>), Call(4, b + 2, <<>>))}
    \cup IF exact THEN {}
         ELSE {Ternary(LogicalAnd(<<Cmp("eq", Call(4, b, <<>>), Const(0)), Cmp("eq", LocalAccess(1), Const(0))>>),
                       Call(1, b + 1, <<>>), Call(2, b + 2, <<>>)),
               TupleInitialiser(<<Call(1, b, <<>>), Call(2, b + 1, <<>>)>>)}

Leaves(b, exact) ==
    {Assign(<<Variable(<<1>>)>>, e) : e \in Exprs(b, exact)}
    \cup {Assign(<<Cell(b + 3, e)>>, Const(0)) : e \in Exprs(b, exact)}
    \cup {Printf(<<e>>) : e \in Exprs(b, exact)} \cup {VarDecl(2, <<e>>) : e \in Exprs(b, exact)}
    \cup IF exact THEN {} ELSE {Fail(<<e>>) : e \in Exprs(b, exact)}

Conds(b) == {Cmp("eq", Call(1, b, <<>>), Call(4, b + 1, <<>>)),
             LogicalOr(<<Cmp("lt", Call(2, b, <<>>), Const(1)), LogicalNot(Cmp("neq", Call(1, b + 1, <<>>), Const(0)))>>)}

Nested(inner, exact) ==
    {IfElse(c, <<inner>>, <<Break>>) : c \in Conds(40)}
    \cup {IfElse(c, <<inner>>, <<Printf(<<Call(2, 50, <<>>)>>)>>) : c \in Conds(40)}
    \cup {While(c, <<inner, Continue>>) : c \in Conds(40)}
    \cup {For(Assign(<<Variable(<<1>>)>>, Call(4, 45, <<>>)), c, Assign(<<Variable(<<1>>)>>, Call(1, 46, <<>>)), <<inner>>)
             : c \in Conds(40)}
    \cup {Switch(LocalAccess(1), <<<<>>>>, <<<<IfElse(c, <<inner>>, <<>>)>>>>) : c \in Conds(40)}
    \cup {Switch(IF exact THEN LocalAccess(1) ELSE Call(1, 40, <<>>),
                 <<<<Const(1)>>, <<Call(4, 41, <<>>), Const(3)>>, <<>>>>, <<<<inner>>, <<Break>>, <<Returns>>>>)}

(* The second statement sits in a loop, so that break and continue do.      *)
Bodies(exact) ==
    {<<first, While(Cmp("eq", LocalAccess(1), Const(0)), <<second>>), Returns>> :
        first \in {Assign(<<Cell(3, Call(1, 1, <<>>))>>, Call(3, 2, <<Const(0)>>))},
        second \in UNION {Nested(leaf, exact) \cup {leaf} : leaf \in Leaves(20, exact)}}

Programs(exact) ==
    {[exact |-> exact, function |-> [effects |-> <<[name |-> 3, place |-> 60]>>, code |-> body],
      constant |-> Call(4, 61, <<>>), contents |-> <<Call(4, 62, <<>>), Const(2)>>] : body \in Bodies(exact)}

(* An answer of the server to a request for the references of t.           *)
Find(t) ==
    /\ target = 0
    /\ target' = t
    /\ refs' = ReferencesFor(program, t)
    /\ UNCHANGED program

NoProgram == [exact |-> FALSE]

NoRequest ==
    /\ part = "none" /\ program = NoProgram /\ target = 0 /\ refs = <<>>
    /\ tokens = <<>> /\ context = <<>> /\ kind = "none" /\ cursor = 0 /\ edits = <<>> /\ topEdit = FALSE

-----------------------------------------------------------------------------

Init ==
    \/ /\ part = "references"
       /\ \E exact \in BOOLEAN : program \in Programs(exact)
       /\ target = 0 /\ refs = <<>>
       /\ tokens = <<>> /\ context = <<>> /\ kind = "none" /\ cursor = 0 /\ edits = <<>> /\ topEdit = FALSE
    \/ /\ part = "renaming"
       /\ RenameInit
       /\ program = NoProgram /\ target = 0 /\ refs = <<>>

Next ==
    \/ /\ part = "references"
       /\ \E t \in 1 .. 4 : Find(t)
       /\ UNCHANGED <<part, ofRenaming>>
    \/ /\ part = "renaming"
       /\ Rename
       /\ UNCHANGED <<part, ofReferences>>

-----------------------------------------------------------------------------

(* The server gives exactly the uses of the declaration asked for that are   *)
(* outside tuples and the messages of fails: flattening, which drops,         *)
(* negates, reorders and copies statements before the walk, loses none and     *)
(* adds none (collectProgramRefs, lower.Flatten).  In code without tuples,      *)
(* fails with messages and what flattening copies, that is each use, and each   *)
(* once.                                                                       *)
FindsUses ==
    target /= 0 =>
        /\ Range(refs) = UsesOf(program, target, FALSE)
        /\ program.exact => /\ UsesOf(program, target, TRUE) \subseteq Range(refs)
                            /\ IsInjective(refs)

(* What the server finds under the cursor is what the parser means by it, and *)
(* where it is not the exceptions are named: references are the uses of a       *)
(* declaration, and a renaming changes what no identifier means and changes      *)
(* something where it is offered (ReferencesFor, RenameFor, PrepareRenameFor).    *)
NavigationRight ==
    /\ part = "references" => FindsUses
    /\ part = "renaming" => KeepsMeaning /\ PreparedIsRenamed
=============================================================================
