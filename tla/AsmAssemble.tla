----------------------------- MODULE AsmAssemble -----------------------------
(***************************************************************************)
(* Assembling source files (pkg/asm/assemble.go, pkg/asm/assembler): files *)
(* are parsed in turn, those they include after them; then functions are   *)
(* linked to the functions they call and to constants, and validated.      *)
(*                                                                         *)
(* A file is its includes and its declarations; the body of a function is  *)
(* a sequence of statements over names.  Parsing gives instructions over   *)
(* registers, counted from 1.                                              *)
(***************************************************************************)
EXTENDS AsmCode

CONSTANTS Programs,  \* functions from file names to files
          TopLevel   \* the files that are given to the assembler

VARIABLES files,       \* the files there are
          stage,
          queue,       \* files to be parsed
          seen,        \* file names met
          parsed,      \* files that have been taken up, in order
          decls,       \* what is left of the current file
          env,         \* the function that is being parsed, if any
          item,        \* the components of the current file
          components,  \* the components of all files
          linked,      \* the functions that have been linked
          failed       \* whether an error has been reported
vars == <<files, stage, queue, seen, parsed, decls, env, item, components, linked, failed>>
-----------------------------------------------------------------------------
(* The environment of a function: its registers, labels and buses so far.  *)

Unbound == 0
NoEnv == [name |-> "", regs |-> <<>>, labels |-> <<>>, buses |-> <<>>, code |-> <<>>, rest |-> <<>>]

Find(s, n) == SelectInSeq(s, LAMBDA x : x.name = n)
IsRegister(e, n) == Find(e.regs, n) # 0
LookupRegister(e, n) == Find(e.regs, n)
IsBoundLabel(e, l) == \E i \in DOMAIN e.labels : e.labels[i].name = l /\ e.labels[i].pc # Unbound

DeclareRegister(e, kind, n, width, padding) ==
    [e EXCEPT !.regs = Append(@, [name |-> n, kind |-> kind, width |-> width, padding |-> padding])]
BindBus(e, f) == IF \E i \in DOMAIN e.buses : e.buses[i] = f THEN e ELSE [e EXCEPT !.buses = Append(@, f)]
BindLabel(e, l) ==
    IF Find(e.labels, l) # 0 THEN e ELSE [e EXCEPT !.labels = Append(@, [name |-> l, pc |-> Unbound])]
(* The index of a label once it is bound.                                  *)
LabelIndex(e, l) == Find(BindLabel(e, l).labels, l)
DeclareLabel(e, l, pc) ==
    LET bound == BindLabel(e, l)
    IN  [bound EXCEPT !.labels[Find(bound.labels, l)].pc = pc]
-----------------------------------------------------------------------------
(* Statements: [err, panic, env], where an error abandons the file.        *)

Parsed(e) == [err |-> FALSE, panic |-> FALSE, env |-> e]
SyntaxError(e) == [err |-> TRUE, panic |-> FALSE, env |-> e]
Panics(e) == [err |-> FALSE, panic |-> TRUE, env |-> e]
Emit(e, insn) == Parsed([e EXCEPT !.code = Append(@, insn)])

(* A name that is no register so far is taken for a constant.              *)
ParseAtomicExpr(x, e) ==
    IF x.kind = "const" THEN x
    ELSE IF IsRegister(e, x.name) THEN Reg(LookupRegister(e, x.name))
    ELSE [kind |-> "label", name |-> x.name]
RECURSIVE ParseExpr(_, _)
ParseExpr(x, e) ==
    IF x.kind \in {"add", "mul", "sub"}
    THEN [x EXCEPT !.es = [i \in DOMAIN x.es |-> ParseExpr(x.es[i], e)]]
    ELSE ParseAtomicExpr(x, e)
ParseExprList(xs, e) == [i \in DOMAIN xs |-> ParseExpr(xs[i], e)]

Unknown(names, e) == \E i \in DOMAIN names : ~IsRegister(e, names[i])
ParseRegisterList(names, e) == [i \in DOMAIN names |-> LookupRegister(e, names[i])]
(* The most significant comes first in the text and last in a register list. *)
ParseAssignmentLhs(names, e) == Reverse(ParseRegisterList(names, e))

(* Names are checked before any of them is declared.                       *)
ParseVar(s, e) ==
    IF \E i \in DOMAIN s.names : IsRegister(e, s.names[i]) THEN SyntaxError(e)
    ELSE IF \E i, j \in DOMAIN s.names : i < j /\ s.names[i] = s.names[j] THEN Panics(e)
    ELSE Parsed(FoldLeft(LAMBDA acc, n : DeclareRegister(acc, "tmp", n, s.width, 0), e, s.names))

ParseLabel(s, e) ==
    IF IsBoundLabel(e, s.label) THEN SyntaxError(e) ELSE Parsed(DeclareLabel(e, s.label, Len(e.code) + 1))

(* The target of a branch is the index of its label until it is bound.     *)
ParseGoto(s, e) == Emit(BindLabel(e, s.label), MGoto(LabelIndex(e, s.label)))
ParseIfGoto(s, e) ==
    Emit(BindLabel(e, s.label),
         MIfGoto(s.cond, ParseAtomicExpr(s.left, e), ParseAtomicExpr(s.right, e), LabelIndex(e, s.label)))

ParseAssignment(s, e) ==
    IF Unknown(s.targets, e) THEN SyntaxError(e)
    ELSE Emit(e, MAssign(ParseAssignmentLhs(s.targets, e), ParseExpr(s.source, e)))

ParseCastRhs(s, e) ==
    IF Unknown(s.targets, e) \/ Unknown(<<s.source>>, e) THEN SyntaxError(e)
    ELSE Emit(e, MCast(s.width, ParseAssignmentLhs(s.targets, e), LookupRegister(e, s.source)))

ParseCallRhs(s, e) ==
    IF Unknown(s.targets, e) THEN SyntaxError(e)
    ELSE Emit(BindBus(e, s.fn), MCall([name |-> s.fn], ParseAssignmentLhs(s.targets, e), ParseExprList(s.args, e)))

(* Only == and != start a ternary, which tests a register.                 *)
ParseTernaryRhs(s, e) ==
    IF Unknown(s.targets, e) \/ (\A x \in {s.left, s.right} : ParseAtomicExpr(x, e).kind # "reg") THEN SyntaxError(e)
    ELSE Emit(e, MIte(ParseAssignmentLhs(s.targets, e), s.cond,
                      ParseAtomicExpr(s.left, e), ParseAtomicExpr(s.right, e),
                      ParseExpr(s.then, e), ParseExpr(s.else, e)))

ParseDivisionRhs(s, e) ==
    LET t == ParseRegisterList(s.targets, e)
    IN  IF Unknown(s.targets, e) \/ Len(s.targets) # 5 THEN SyntaxError(e)
        ELSE Emit(e, MDivision(t[1], t[2], t[3], t[4], t[5],
                               ParseAtomicExpr(s.left, e), ParseAtomicExpr(s.right, e)))

ParseMacroInstruction(s, e) ==
    CASE s.st = "fail" -> Emit(e, MFail)
      [] s.st = "goto" -> ParseGoto(s, e)
      [] s.st = "if" -> ParseIfGoto(s, e)
      [] s.st = "return" -> Emit(e, MReturn)
      [] s.st = "var" -> ParseVar(s, e)
      [] s.st = "label" -> ParseLabel(s, e)
      [] s.st = "assign" -> ParseAssignment(s, e)
      [] s.st = "cast" -> ParseCastRhs(s, e)
      [] s.st = "call" -> ParseCallRhs(s, e)
      [] s.st = "ternary" -> ParseTernaryRhs(s, e)
      [] s.st = "div" -> ParseDivisionRhs(s, e)

(* Arguments or results: each is declared after it has been checked.       *)
ParseArgsList(args, kind, p) ==
    FoldLeft(LAMBDA acc, a :
                IF acc.err THEN acc
                ELSE IF IsRegister(acc.env, a.name) THEN SyntaxError(acc.env)
                ELSE Parsed(DeclareRegister(acc.env, kind, a.name, a.width, a.padding)),
             p, args)

IsBranch(insn) == insn.op \in {"goto", "if_goto"}

CheckLabelsDeclared(e) ==
    \A pc \in DOMAIN e.code : IsBranch(e.code[pc]) => e.labels[e.code[pc].target].pc # Unbound

BindLabels(e) ==
    [pc \in DOMAIN e.code |->
        IF IsBranch(e.code[pc]) THEN [e.code[pc] EXCEPT !.target = e.labels[@].pc] ELSE e.code[pc]]
-----------------------------------------------------------------------------
(* Linking.                                                                *)

Names(cs) == [i \in DOMAIN cs |-> cs[i].name]
FunctionsOf(cs) == SelectSeq(cs, LAMBDA c : c.kind = "fn")

(* The functions are numbered in the order of their registration; one that *)
(* is unknown gives the first.                                             *)
BusMap(name, cs) == LET i == Find(FunctionsOf(cs), name) IN IF i = 0 THEN 1 ELSE i

RegsOfKind(f, kind) == SelectSeq(f.regs, LAMBDA r : r.kind = kind)
AllocateIoRegisters(f, lines) ==
    [f EXCEPT !.regs = @ \o [i \in DOMAIN lines |->
        [name |-> "", kind |-> "tmp", width |-> lines[i].width, padding |-> lines[i].padding]]]

WidthsOf(rs) == [i \in DOMAIN rs |-> rs[i].width]
AllocateBus(f, id, cs) ==
    LET callee == FunctionsOf(cs)[id]
        ins == RegsOfKind(callee, "in")
        outs == RegsOfKind(callee, "out")
        n == Len(f.regs)
        bus == [id |-> id, address |-> [i \in DOMAIN ins |-> n + i],
                data |-> [i \in DOMAIN outs |-> n + Len(ins) + i],
                ins |-> WidthsOf(ins), outs |-> WidthsOf(outs), split |-> FALSE]
    IN  [AllocateIoRegisters(AllocateIoRegisters(f, ins), outs) EXCEPT !.buses = Append(@, bus)]

RECURSIVE LinkExpr(_, _)
LinkExpr(x, cs) ==
    LET known == {c \in Range(cs) : c.kind = "const" /\ c.name = x.name}
    IN  CASE x.kind = "label" -> IF known = {} THEN x ELSE Num((CHOOSE c \in known : TRUE).value)
          [] x.kind \in {"add", "mul", "sub"} -> [x EXCEPT !.es = [i \in DOMAIN x.es |-> LinkExpr(x.es[i], cs)]]
          [] OTHER -> x
RECURSIVE Unlinked(_)
Unlinked(x) == \/ x.kind = "label"
               \/ x.kind \in {"add", "mul", "sub"} /\ \E i \in DOMAIN x.es : Unlinked(x.es[i])

ExprsOf(insn) ==
    CASE insn.op = "assign" -> <<insn.source>>
      [] insn.op = "div" -> <<insn.dividend, insn.divisor>>
      [] insn.op = "call" -> insn.sources
      [] insn.op = "if_goto" -> <<insn.left, insn.right>>
      [] insn.op = "ite" -> <<insn.left, insn.right, insn.then, insn.else>>
      [] OTHER -> <<>>

LinkExprs(insn, cs) ==
    CASE insn.op = "assign" -> [insn EXCEPT !.source = LinkExpr(@, cs)]
      [] insn.op = "div" -> [insn EXCEPT !.dividend = LinkExpr(@, cs), !.divisor = LinkExpr(@, cs)]
      [] insn.op = "call" -> [insn EXCEPT !.sources = [i \in DOMAIN @ |-> LinkExpr(@[i], cs)]]
      [] insn.op = "if_goto" -> [insn EXCEPT !.left = LinkExpr(@, cs), !.right = LinkExpr(@, cs)]
      [] insn.op = "ite" -> [insn EXCEPT !.left = LinkExpr(@, cs), !.right = LinkExpr(@, cs),
                                         !.then = LinkExpr(@, cs), !.else = LinkExpr(@, cs)]
      [] OTHER -> insn

(* A call of an unknown function keeps the bus it was parsed with; a bus   *)
(* that is allocated later hides an earlier one for the same function.     *)
LinkInstruction(insn, buses, cs) ==
    LET i == BusMap(insn.bus.name, cs)
    IN  IF insn.op = "call" /\ Find(FunctionsOf(cs), insn.bus.name) # 0
        THEN LinkExprs([insn EXCEPT !.bus = Last(SelectSeq(buses, LAMBDA b : b.id = i))], cs)
        ELSE LinkExprs(insn, cs)

LinkFunction(f, cs) ==
    LET allocated == FoldLeft(LAMBDA acc, b : AllocateBus(acc, BusMap(b, cs), cs),
                              [f EXCEPT !.buses = <<>>], f.buses)
    IN  [allocated EXCEPT !.code = [pc \in DOMAIN @ |-> LinkInstruction(@[pc], allocated.buses, cs)]]

LinkErrors(f) ==
    \E pc \in DOMAIN f.code :
        \/ f.code[pc].op = "call" /\ "name" \in DOMAIN f.code[pc].bus
        \/ \E x \in Range(ExprsOf(f.code[pc])) : Unlinked(x)
-----------------------------------------------------------------------------
Init ==
    /\ files \in Programs
    /\ stage = "files" /\ queue = TopLevel /\ seen = Range(TopLevel) /\ parsed = <<>>
    /\ decls = <<>> /\ env = NoEnv /\ item = <<>>
    /\ components = <<>> /\ linked = <<>> /\ failed = FALSE

(* Assemble takes the next file.                                           *)
TakeFile ==
    /\ stage = "files" /\ queue # <<>>
    /\ parsed' = Append(parsed, Head(queue)) /\ queue' = Tail(queue)
    /\ decls' = files[Head(queue)].decls /\ item' = <<>> /\ stage' = "decls"
    /\ UNCHANGED <<files, seen, env, components, linked, failed>>

(* A faulty recovery that goes on with the declarations of the file.       *)
AbandonFunction == stage' = "decls" /\ failed' = TRUE /\ item' = item /\ decls' = decls /\ env' = NoEnv
(* An error abandons the rest of a file, with what it includes.            *)
Abandon == stage' = "files" /\ failed' = TRUE /\ item' = <<>> /\ decls' = <<>> /\ env' = NoEnv

ParseConstant ==
    /\ stage = "decls" /\ decls # <<>> /\ Head(decls).kind = "const"
    /\ item' = Append(item, Head(decls)) /\ decls' = Tail(decls)
    /\ UNCHANGED <<files, stage, queue, seen, parsed, env, components, linked, failed>>

(* parseFunction, up to its body.                                          *)
ParseHeader ==
    /\ stage = "decls" /\ decls # <<>> /\ Head(decls).kind = "fn"
    /\ LET d == Head(decls)
           start == Parsed([NoEnv EXCEPT !.name = d.name, !.rest = d.body])
           p == ParseArgsList(d.rets, "out", ParseArgsList(d.args, "in", start))
       IN  IF p.err THEN Abandon
           ELSE env' = p.env /\ decls' = Tail(decls) /\ stage' = "body" /\ UNCHANGED <<failed, item>>
    /\ UNCHANGED <<files, queue, seen, parsed, components, linked>>

ParseStatement ==
    /\ stage = "body" /\ env.rest # <<>>
    /\ LET p == ParseMacroInstruction(Head(env.rest), [env EXCEPT !.rest = Tail(@)])
       IN  IF p.err THEN Abandon
           ELSE env' = p.env /\ stage' = (IF p.panic THEN "panic" ELSE stage) /\ UNCHANGED <<failed, item, decls>>
    /\ UNCHANGED <<files, queue, seen, parsed, components, linked>>

(* BindLabels panics when a label is not bound.                            *)
FinishFunction ==
    /\ stage = "body" /\ env.rest = <<>>
    /\ IF env.code = <<>> \/ ~CheckLabelsDeclared(env) THEN Abandon
       ELSE /\ item' = Append(item, [kind |-> "fn", name |-> env.name, regs |-> env.regs, buses |-> env.buses,
                                     code |-> BindLabels(env)])
            /\ stage' = IF \E i \in DOMAIN env.labels : env.labels[i].pc = Unbound THEN "panic" ELSE "decls"
            /\ env' = NoEnv /\ UNCHANGED <<failed, decls>>
    /\ UNCHANGED <<files, queue, seen, parsed, components, linked>>

(* Faulty includes, which are marked only when all have been read.         *)
UnmarkedIncludes(includes, met) == SelectSeq(includes, LAMBDA f : f \notin met)
(* The includes that have not been met, each once.                         *)
UnseenIncludes(includes, met) ==
    FoldLeft(LAMBDA acc, f : IF f \in met \cup Range(acc) THEN acc ELSE Append(acc, f), <<>>, includes)

(* readIncludedFiles: a file that cannot be read is an error.              *)
FinishFile ==
    /\ stage = "decls" /\ decls = <<>>
    /\ LET includes == files[Last(parsed)].includes
           unseen == UnseenIncludes(includes, seen)
       IN  /\ queue' = queue \o SelectSeq(unseen, LAMBDA f : f \in DOMAIN files)
           /\ seen' = seen \cup Range(includes)
           /\ failed' = (failed \/ \E i \in DOMAIN unseen : unseen[i] \notin DOMAIN files)
    /\ components' = components \o item /\ item' = <<>> /\ stage' = "files"
    /\ UNCHANGED <<files, parsed, decls, env, linked>>

(* Link: a name that exists is an error.                                   *)
Register ==
    /\ stage = "files" /\ queue = <<>>
    /\ stage' = IF failed \/ ~IsInjective(Names(components)) THEN "errors" ELSE "link"
    /\ failed' = (stage' = "errors")
    /\ UNCHANGED <<files, queue, seen, parsed, decls, env, item, components, linked>>

LinkNext ==
    /\ stage = "link" /\ Len(linked) < Len(FunctionsOf(components))
    /\ linked' = Append(linked, LinkFunction(FunctionsOf(components)[Len(linked) + 1], components))
    /\ failed' = (failed \/ LinkErrors(Last(linked')))
    /\ UNCHANGED <<files, stage, queue, seen, parsed, decls, env, item, components>>

FinishLinking ==
    /\ stage = "link" /\ Len(linked) = Len(FunctionsOf(components))
    /\ stage' = IF failed THEN "errors" ELSE "validate"
    /\ UNCHANGED <<files, queue, seen, parsed, decls, env, item, components, linked, failed>>

Validate ==
    /\ stage = "validate"
    /\ stage' = IF \E f \in Range(linked) : ValidateControlFlow(f).panic THEN "panic"
                ELSE IF \A f \in Range(linked) : Accepted(f) THEN "done" ELSE "errors"
    /\ UNCHANGED <<files, queue, seen, parsed, decls, env, item, components, linked, failed>>

Read == TakeFile \/ ParseConstant \/ ParseHeader \/ ParseStatement \/ FinishFunction \/ FinishFile
Next == Read \/ Register \/ LinkNext \/ FinishLinking \/ Validate
Spec == Init /\ [][Next]_vars /\ WF_vars(Read)
-----------------------------------------------------------------------------
Ended == stage \in {"done", "errors", "panic"}

TypeOK ==
    /\ stage \in {"files", "decls", "body", "link", "validate"} \/ Ended
    /\ Range(queue) \cup Range(parsed) \subseteq DOMAIN files
    /\ \A pc \in DOMAIN env.code : IsBranch(env.code[pc]) => env.code[pc].target \in DOMAIN env.labels
    /\ stage = "done" => ~failed

(* Assemble: files may include each other, yet each is queued and parsed   *)
(* once, and without errors every file that is included, directly or not,  *)
(* is parsed.                                                              *)
IncludedOnce ==
    /\ IsInjective(parsed \o queue)
    /\ stage \in {"link", "validate", "done"} =>
        /\ Range(TopLevel) \subseteq Range(parsed)
        /\ \A f \in Range(parsed) : Range(files[f].includes) \subseteq Range(parsed)

BodyOf(name) == LET d == CHOOSE d \in UNION {Range(files[f].decls) : f \in Range(parsed)} :
                            d.kind = "fn" /\ d.name = name
                IN  d.body
IsInsn(s) == s.st \notin {"var", "label"}
PositionOf(l, body) ==
    LET at == SelectInSeq(body, LAMBDA s : s.st = "label" /\ s.label = l)
    IN  Len(SelectSeq(SubSeq(body, 1, at), IsInsn)) + 1

(* BindLabels: a branch leads to the instruction that follows its label in *)
(* the text, whether the label comes before or after the branch.           *)
BranchesFollowLabels ==
    stage \in {"link", "validate", "done"} =>
        \A f \in Range(FunctionsOf(components)) :
            LET body == BodyOf(f.name)
                text == SelectSeq(body, IsInsn)
            IN  \A pc \in DOMAIN f.code : IsBranch(f.code[pc]) => f.code[pc].target = PositionOf(text[pc].label, body)

(* Link: a call leads to the function it names, over lines as wide as the  *)
(* registers of that function which no other bus and no variable uses.     *)
CallsAreLinked ==
    stage \in {"validate", "done"} =>
        \A k \in DOMAIN linked :
            LET f == linked[k]
                text == SelectSeq(BodyOf(f.name), IsInsn)
                lines(b) == Range(b.address) \cup Range(b.data)
            IN  /\ \A pc \in DOMAIN f.code :
                    f.code[pc].op = "call" =>
                        LET b == f.code[pc].bus
                            callee == linked[b.id]
                        IN  /\ callee.name = text[pc].fn
                            /\ [i \in DOMAIN b.address |-> f.regs[b.address[i]].width] = WidthsOf(RegsOfKind(callee, "in"))
                            /\ [i \in DOMAIN b.data |-> f.regs[b.data[i]].width] = WidthsOf(RegsOfKind(callee, "out"))
                /\ \A i, j \in DOMAIN f.buses : i # j => lines(f.buses[i]) \cap lines(f.buses[j]) = {}
                /\ \A i \in DOMAIN f.buses : \A r \in lines(f.buses[i]) : r > Len(FunctionsOf(components)[k].regs)

(* The instructions that paths reach, each with the registers that the     *)
(* path has defined.                                                       *)
SuccessorsOf(insn, pc) ==
    CASE insn.op = "goto" -> {insn.target}
      [] insn.op = "if_goto" -> {insn.target, pc + 1}
      [] insn.op \in {"return", "fail"} -> {}
      [] OTHER -> {pc + 1}
RECURSIVE Paths(_, _)
Paths(f, at) ==
    LET inside == {p \in at : p[1] \in DOMAIN f.code}
        more == UNION {{<<q, p[2] \cup MacroUses(f.code[p[1]]).writes>> : q \in SuccessorsOf(f.code[p[1]], p[1])} : p \in inside}
    IN  IF more \subseteq at THEN at ELSE Paths(f, at \cup more)

WellDefined(f) ==
    LET paths == Paths(f, {<<1, RegsOf(f, "in")>>})
    IN  /\ \A p \in paths :
            /\ p[1] \in DOMAIN f.code
            /\ MacroUses(f.code[p[1]]).reads \subseteq p[2]
            /\ f.code[p[1]].op = "return" => RegsOf(f, "out") \subseteq p[2]
        /\ DOMAIN f.code \subseteq {p[1] : p \in paths}

(* validateControlFlow accepts a function exactly when on no path of it a  *)
(* register is read, or an output returned, that the path has not assigned,*)
(* no path runs off the end and every instruction is on some path.         *)
ControlFlowIsExact ==
    stage = "validate" =>
        \A f \in Range(linked) :
            LET wl == ValidateControlFlow(f) IN ~wl.panic => ((wl.errors = {}) = WellDefined(f))

(* What is wrong with a file is reported: the assembler aborts only where  *)
(* one declaration repeats a name, which parseVar checks too early.        *)
RepeatsName(s) == s.st = "var" /\ ~IsInjective(s.names)
ReportsErrors ==
    stage = "panic" =>
        \E f \in Range(parsed) : \E d \in Range(files[f].decls) :
            d.kind = "fn" /\ \E s \in Range(d.body) : RepeatsName(s)

(* Assemble: parsing ends, also when files include each other.             *)
Terminates == <>(stage = "panic" \/ (stage = "files" /\ queue = <<>>))
=============================================================================
