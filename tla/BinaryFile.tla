------------------------------ MODULE BinaryFile ------------------------------
(***************************************************************************)
(* Saving a compiled schema and loading it again (pkg/binfile,             *)
(* pkg/ir/hir/encoding.go, pkg/asm/program.go, pkg/schema/module.go,       *)
(* pkg/schema/register): the header that says which version wrote the      *)
(* file, the attributes, and the functions and modules with their          *)
(* registers and constraints.  A file may be cut short on its way, or come *)
(* from another version.  An encoding is a sequence of items: a byte, a    *)
(* word of two bytes, the bytes of a number or a string, or a value        *)
(* written by the gob library, which is read back as it was written        *)
(* (external).                                                             *)
(***************************************************************************)
EXTENDS Constraints

CONSTANTS BYTE,            \* values of a byte
          WORD,            \* values of a word of two bytes
          Files,           \* files to save
          MAJOR_VERSION,   \* version this program writes
          MINOR_VERSION,
          Versions         \* versions of other programs, as pairs

ASSUME EncodingAssumption == BYTE \in Nat \ {0, 1} /\ WORD \in Nat \ {0, 1}

VARIABLES file,      \* what is saved
          items,     \* the file's contents
          stage,     \* "saving", "stored" or "loaded"
          whole,     \* whether all of the contents are there
          outcome    \* how loading ended

vars == <<file, items, stage, whole, outcome>>
-----------------------------------------------------------------------------
(* Items.                                                                  *)

Item(kind, v) == [k |-> kind, v |-> v]
Byte(n) == Item("byte", n % BYTE)
Uint16(n) == Item("word", n % WORD)
(* A faulty Int16 without a sign.                                          *)
Int16Unsigned(n) == Item("int", n % WORD)

Int16(n) == Item("int", ((n + WORD \div 2) % WORD) - WORD \div 2)
Gob(x) == Item("gob", x)
Gobs(xs) == [i \in DOMAIN xs |-> Gob(xs[i])]

(* The fewest bytes that hold a number.                                    *)
NumBytes(v) == CHOOSE n \in 0..v : v < BYTE^n /\ \A m \in 0..(n - 1) : v >= BYTE^m
BytesOf(v) == <<Byte(NumBytes(v)), Item("bytes", [v |-> v, n |-> NumBytes(v)])>>
StringOf(s, len) == <<len, Item("bytes", [v |-> s, n |-> len.v])>>
-----------------------------------------------------------------------------
(* Writing terms.                                                          *)

EncodeAccess(r) == <<Uint16(r.reg), Uint16(r.width), Uint16(r.mask), Int16(r.shift)>>

EncodeConstant(t) == BytesOf(t.val)
EncodeLabelled(t) == StringOf(t.label, Uint16(1)) \o BytesOf(t.val)

EncodeN(Encoder(_), ts) == FoldLeft(LAMBDA out, t : out \o Encoder(t), <<>>, ts)

(* The number of terms is written as one byte, however many there are.     *)
EncodeNary(Encoder(_), ts) == <<Byte(Len(ts))>> \o EncodeN(Encoder, ts)

EncodeIte(t, Encoder(_)) ==
    LET tag == CASE t.args[2] # Nil /\ t.args[3] # Nil -> "iteTF"
                 [] t.args[3] = Nil -> "iteT"
                 [] OTHER -> "iteF"
    IN  <<Item("tag", tag)>>
          \o EncodeN(Encoder, <<t.args[1]>> \o SelectSeq(Tail(t.args), LAMBDA b : b # Nil))

RECURSIVE EncodeTerm(_), EncodeLogical(_)
EncodeTerm(t) ==
    <<Item("tag", t.op)>> \o
    CASE t.op \in {"add", "sub", "mul"} -> EncodeNary(EncodeTerm, t.args)
      [] t.op = "norm" -> EncodeN(EncodeTerm, t.args)
      [] t.op = "cast" -> <<Uint16(t.n)>> \o EncodeTerm(t.args[1])
      [] t.op = "exp" -> <<Item("long", t.n)>> \o EncodeTerm(t.args[1])
      [] t.op = "const" -> EncodeConstant(t)
      [] t.op = "lconst" -> EncodeLabelled(t)
      [] t.op = "if" -> EncodeLogical(t.args[1]) \o EncodeN(EncodeTerm, Tail(t.args))
      [] t.op = "reg" -> EncodeAccess(t)
      [] t.op = "vec" -> EncodeNary(EncodeAccess, t.args)

EncodeLogical(t) ==
    CASE t.op \in {"and", "or"} -> <<Item("tag", t.op)>> \o EncodeNary(EncodeLogical, t.args)
      [] t.op \in {"eq", "ne"} -> <<Item("tag", t.op)>> \o EncodeN(EncodeTerm, t.args)
      [] t.op = "not" -> <<Item("tag", t.op)>> \o EncodeN(EncodeLogical, t.args)
      [] t.op = "ite" -> EncodeIte(t, EncodeLogical)
-----------------------------------------------------------------------------
(* Reading.  A reader is [st, v, rest]: whether all went well, the values  *)
(* read so far and the items that are left.                                *)

Reader(st, v, rest) == [st |-> st, v |-> v, rest |-> rest]
Open(contents) == Reader("ok", <<>>, contents)

Read(r, kind) ==
    IF r.st # "ok" THEN r
    ELSE IF r.rest = <<>> THEN Reader("error", r.v, <<>>)
    ELSE IF Head(r.rest).k # kind THEN Reader("error", r.v, r.rest)
    ELSE Reader("ok", Append(r.v, Head(r.rest).v), Tail(r.rest))

(* As many bytes as the length before them says.                           *)
ReadBytes(r, kind) ==
    LET n == Read(r, kind)
        b == Read(n, "bytes")
    IN  IF b.st # "ok" THEN b
        ELSE IF Last(b.v).n # Last(n.v) THEN Reader("error", b.v, b.rest)
        ELSE Reader("ok", Append(r.v, Last(b.v).v), b.rest)

(* A value made of those read after the first n.                           *)
Build(r, n, Make(_)) ==
    IF r.st = "ok" THEN Reader("ok", Append(SubSeq(r.v, 1, n), Make(SubSeq(r.v, n + 1, Len(r.v)))), r.rest)
    ELSE r

(* Of n terms, none is kept when one of them cannot be read.               *)
DecodeN(r, n, Decoder(_)) ==
    LET all == FoldLeft(LAMBDA q, i : IF q.st = "ok" THEN Decoder(q) ELSE q, r, [i \in 1..n |-> i])
    IN  Build(all, Len(r.v), LAMBDA vs : vs)

DecodeNary(r, Decoder(_)) ==
    LET n == Read(r, "byte")
    IN  IF n.st = "ok" THEN DecodeN(Reader("ok", r.v, n.rest), Last(n.v), Decoder) ELSE n

(* A constructor that indexes its operands is applied to none when they    *)
(* could not be read.                                                      *)
DecodeOperands(r, n, Make(_), Decoder(_)) ==
    LET ts == DecodeN(r, n, Decoder)
    IN  IF ts.st = "ok" THEN Build(ts, Len(r.v), LAMBDA vs : Make(vs[1]))
        ELSE Reader("panic", r.v, ts.rest)

DecodeList(r, Make(_), Decoder(_)) ==
    Build(DecodeNary(r, Decoder), Len(r.v), LAMBDA vs : Make(vs[1]))

NormWidth(w) == IF w = WORD - 1 THEN FieldWidth ELSE w

DecodeAccess(r) ==
    Build(Read(Read(Read(Read(r, "word"), "word"), "word"), "int"), Len(r.v),
          LAMBDA vs : Mask(RawRegisterAccess(vs[1], NormWidth(vs[2]), vs[4]), vs[3]))

DecodeConstant(r) == Build(ReadBytes(r, "byte"), Len(r.v), LAMBDA vs : Const(vs[1]))

DecodeLabelled(r) ==
    Build(ReadBytes(ReadBytes(r, "word"), "byte"), Len(r.v), LAMBDA vs : LabelledConstant(vs[1], vs[2]))

RECURSIVE DecodeTerm(_), DecodeLogical(_)

DecodeCast(r) == Build(DecodeTerm(Read(r, "word")), Len(r.v), LAMBDA vs : WithNumber("cast", vs[2], vs[1]))
DecodeExponent(r) == Build(DecodeTerm(Read(r, "long")), Len(r.v), LAMBDA vs : WithNumber("exp", vs[2], vs[1]))

DecodeIfZero(r) ==
    Build(DecodeTerm(DecodeTerm(DecodeLogical(r))), Len(r.v), LAMBDA vs : Term("if", vs))

(* What follows the tag just read.                                         *)
DecodeTermAs(op, r) ==
    CASE op = "add" -> DecodeList(r, Sum, DecodeTerm)
      [] op = "sub" -> DecodeList(r, Subtract, DecodeTerm)
      [] op = "mul" -> DecodeList(r, Product, DecodeTerm)
      [] op = "norm" -> DecodeOperands(r, 1, LAMBDA ts : Term("norm", ts), DecodeTerm)
      [] op = "cast" -> DecodeCast(r)
      [] op = "exp" -> DecodeExponent(r)
      [] op = "const" -> DecodeConstant(r)
      [] op = "lconst" -> DecodeLabelled(r)
      [] op = "if" -> DecodeIfZero(r)
      [] op = "reg" -> DecodeAccess(r)
      [] op = "vec" -> DecodeList(r, LAMBDA rs : Term("vec", rs), DecodeAccess)
      [] OTHER -> Reader("error", r.v, r.rest)

DecodeTerm(r) ==
    LET tag == Read(r, "tag")
    IN  IF tag.st = "ok" THEN DecodeTermAs(Last(tag.v), Reader("ok", r.v, tag.rest)) ELSE tag

DecodeIte(op, r) ==
    CASE op = "iteTF" -> DecodeOperands(r, 3, LAMBDA ts : Term("ite", ts), DecodeLogical)
      [] op = "iteT" -> DecodeOperands(r, 2, LAMBDA ts : Term("ite", ts \o <<Nil>>), DecodeLogical)
      [] op = "iteF" -> DecodeOperands(r, 2, LAMBDA ts : Term("ite", <<ts[1], Nil, ts[2]>>), DecodeLogical)

DecodeLogicalAs(op, r) ==
    CASE op \in {"and", "or"} -> DecodeList(r, LAMBDA ts : Group(op, ts), DecodeLogical)
      [] op \in {"eq", "ne"} -> DecodeOperands(r, 2, LAMBDA ts : Term(op, ts), DecodeTerm)
      [] op = "not" -> DecodeOperands(r, 1, LAMBDA ts : Term("not", ts), DecodeLogical)
      [] op \in {"iteTF", "iteT", "iteF"} -> DecodeIte(op, r)
      [] OTHER -> Reader("error", r.v, r.rest)

DecodeLogical(r) ==
    LET tag == Read(r, "tag")
    IN  IF tag.st = "ok" THEN DecodeLogicalAs(Last(tag.v), Reader("ok", r.v, tag.rest)) ELSE tag
-----------------------------------------------------------------------------
(* Constraints: their kind, their fields and their terms, in this order.   *)
(* An absent selector is Nil.                                              *)

EncodeAssertion(c) == Gobs(<<c.handle, c.module, c.domain>>) \o EncodeLogical(c.term)
EncodeVanishing(c) == Gobs(<<c.handle, c.module, c.domain>>) \o EncodeLogical(c.term)

EncodeFnCall(c) ==
    Gobs(<<c.handle, c.caller, c.callee>>)
      \o EncodeNary(EncodeTerm, c.returns) \o EncodeNary(EncodeTerm, c.arguments)
      \o IF c.selector = Nil THEN <<>> ELSE EncodeLogical(c.selector)

EncodeInterleaving(c) ==
    Gobs(<<c.handle, c.module>>) \o EncodeTerm(c.target)
      \o <<Gob(c.source)>> \o EncodeNary(EncodeTerm, c.sources)

EncodeLookupVector(v) ==
    <<Gob(v.module), Gob(v.selector # Nil)>>
      \o (IF v.selector = Nil THEN <<>> ELSE EncodeTerm(v.selector))
      \o EncodeNary(EncodeTerm, v.terms)

EncodeLookup(c) ==
    <<Gob(c.handle)>> \o EncodeNary(EncodeLookupVector, c.targets) \o EncodeNary(EncodeLookupVector, c.sources)

EncodePermutation(c) == Gobs(<<c.handle, c.module, c.targets, c.sources>>)

EncodeRange(c) == Gobs(<<c.handle, c.module, c.bitwidths>>) \o EncodeNary(EncodeTerm, c.sources)

EncodeSorted(c) ==
    Gobs(<<c.handle, c.module, c.bitwidth, c.signs, c.strict>>)
      \o (IF c.selector = Nil THEN <<>> ELSE EncodeTerm(c.selector))
      \o EncodeNary(EncodeTerm, c.sources)

EncodeConstraint(c) ==
    LET tag == CASE c.kind = "call" -> IF c.selector = Nil THEN "call" ELSE "call?"
                 [] c.kind = "sorted" -> IF c.selector = Nil THEN "sorted" ELSE "sorted?"
                 [] OTHER -> c.kind
    IN  <<Item("tag", tag)>> \o
        CASE c.kind = "assertion" -> EncodeAssertion(c)
          [] c.kind = "call" -> EncodeFnCall(c)
          [] c.kind = "interleaving" -> EncodeInterleaving(c)
          [] c.kind = "lookup" -> EncodeLookup(c)
          [] c.kind = "permutation" -> EncodePermutation(c)
          [] c.kind = "range" -> EncodeRange(c)
          [] c.kind = "sorted" -> EncodeSorted(c)
          [] c.kind = "vanishing" -> EncodeVanishing(c)

Fields(r, n) == FoldLeft(LAMBDA q, i : Read(q, "gob"), r, [i \in 1..n |-> i])

DecodeAssertion(r) ==
    Build(DecodeLogical(Fields(r, 3)), Len(r.v),
          LAMBDA vs : [kind |-> "assertion", handle |-> vs[1], module |-> vs[2], domain |-> vs[3],
                       term |-> NewComputation(vs[4])])

DecodeVanishing(r) ==
    Build(DecodeLogical(Fields(r, 3)), Len(r.v),
          LAMBDA vs : [kind |-> "vanishing", handle |-> vs[1], module |-> vs[2], domain |-> vs[3],
                       term |-> vs[4]])

DecodeFnCall(r, conditional) ==
    LET WithSelector(terms) == IF conditional THEN DecodeLogical(terms) ELSE terms
    IN  Build(WithSelector(DecodeNary(DecodeNary(Fields(r, 3), DecodeTerm), DecodeTerm)), Len(r.v),
              LAMBDA vs : [kind |-> "call", handle |-> vs[1], caller |-> vs[2], callee |-> vs[3],
                           returns |-> vs[4], arguments |-> vs[5],
                           selector |-> IF conditional THEN vs[6] ELSE Nil])

DecodeInterleaving(r) ==
    Build(DecodeNary(Read(DecodeTerm(Fields(r, 2)), "gob"), DecodeTerm), Len(r.v),
          LAMBDA vs : [kind |-> "interleaving", handle |-> vs[1], module |-> vs[2], target |-> vs[3],
                       source |-> vs[4], sources |-> vs[5]])

DecodeLookupVector(r) ==
    LET head == Fields(r, 2)
        selected == head.st = "ok" /\ Last(head.v)
    IN  Build(DecodeNary(IF selected THEN DecodeTerm(head) ELSE head, DecodeTerm), Len(r.v),
              LAMBDA vs : [module |-> vs[1], terms |-> vs[Len(vs)],
                                          selector |-> IF selected THEN vs[3] ELSE Nil])

DecodeLookup(r) ==
    Build(DecodeNary(DecodeNary(Fields(r, 1), DecodeLookupVector), DecodeLookupVector), Len(r.v),
          LAMBDA vs : [kind |-> "lookup", handle |-> vs[1], targets |-> vs[2], sources |-> vs[3]])

DecodePermutation(r) ==
    Build(Fields(r, 4), Len(r.v),
          LAMBDA vs : [kind |-> "permutation", handle |-> vs[1], module |-> vs[2], targets |-> vs[3],
                       sources |-> vs[4]])

DecodeRange(r) ==
    Build(DecodeNary(Fields(r, 3), DecodeTerm), Len(r.v),
          LAMBDA vs : [kind |-> "range", handle |-> vs[1], module |-> vs[2], bitwidths |-> vs[3],
                       sources |-> vs[4]])

DecodeSorted(r, selected) ==
    LET head == Fields(r, 5)
    IN  Build(DecodeNary(IF selected THEN DecodeTerm(head) ELSE head, DecodeTerm), Len(r.v),
              LAMBDA vs : [kind |-> "sorted", handle |-> vs[1], module |-> vs[2], bitwidth |-> vs[3],
                           signs |-> vs[4], strict |-> vs[5], sources |-> vs[Len(vs)],
                           selector |-> IF selected THEN vs[6] ELSE Nil])

DecodeConstraintAs(kind, r) ==
    CASE kind = "assertion" -> DecodeAssertion(r)
      [] kind = "call" -> DecodeFnCall(r, FALSE)
      [] kind = "call?" -> DecodeFnCall(r, TRUE)
      [] kind = "interleaving" -> DecodeInterleaving(r)
      [] kind = "lookup" -> DecodeLookup(r)
      [] kind = "permutation" -> DecodePermutation(r)
      [] kind = "range" -> DecodeRange(r)
      [] kind = "sorted" -> DecodeSorted(r, FALSE)
      [] kind = "sorted?" -> DecodeSorted(r, TRUE)
      [] kind = "vanishing" -> DecodeVanishing(r)
      [] OTHER -> Reader("error", r.v, r.rest)

DecodeConstraint(r) ==
    LET tag == Read(r, "tag")
    IN  IF tag.st = "ok" THEN DecodeConstraintAs(Last(tag.v), Reader("ok", r.v, tag.rest)) ELSE tag
-----------------------------------------------------------------------------
(* Registers.                                                              *)

NativeWidth == WORD - 1

(* A name longer than a byte can count is refused.                         *)
EncodeByteArray(s, n) == <<Byte(n), Item("bytes", [v |-> s, n |-> n])>>

EncodeRegister(r) ==
    <<Byte(r.kind), Uint16(IF r.width = FieldWidth THEN NativeWidth ELSE r.width)>>
      \o EncodeByteArray(r.name, r.len) \o BytesOf(r.pad)

Encodable(r) == r.len < BYTE

DecodeRegister(r) ==
    Build(ReadBytes(ReadBytes(Read(Read(r, "byte"), "word"), "byte"), "byte"), Len(r.v),
          LAMBDA vs : [kind |-> vs[1], width |-> NormWidth(vs[2]), name |-> vs[3], pad |-> vs[4]])
-----------------------------------------------------------------------------
(* Functions and modules.                                                  *)

GobList(Encoder(_), xs) == <<Gob(Len(xs))>> \o EncodeN(Encoder, xs)

DecodeGobList(r, Decoder(_)) ==
    LET n == Read(r, "gob")
    IN  IF n.st = "ok" THEN DecodeN(Reader("ok", r.v, n.rest), Last(n.v), Decoder) ELSE n

EncodeFunction(f) == <<Gob(f.name)>> \o GobList(EncodeRegister, f.registers) \o Gobs(<<f.buses, f.code>>)

INPUT == 0
OUTPUT == 1
CountMatching(regs, kind) == Len(SelectSeq(regs, LAMBDA r : r.kind = kind))

(* The numbers of inputs and outputs are counted again.                    *)
DecodeFunction(r) ==
    Build(Fields(DecodeGobList(Read(r, "gob"), DecodeRegister), 2), Len(r.v),
          LAMBDA vs : [name |-> vs[1], registers |-> vs[2], buses |-> vs[3], code |-> vs[4],
                       inputs |-> CountMatching(vs[2], INPUT), outputs |-> CountMatching(vs[2], OUTPUT),
                       public |-> FALSE])

EncodeModule(m) ==
    Gobs(<<m.name, m.multiplier, m.padding, m.native, m.static, m.contents>>)
      \o GobList(EncodeRegister, m.registers) \o GobList(EncodeConstraint, m.constraints)
      \o <<Gob(m.assignments)>>

DecodeModule(r) ==
    Build(Read(DecodeGobList(DecodeGobList(Fields(r, 6), DecodeRegister), DecodeConstraint), "gob"), Len(r.v),
          LAMBDA vs : [name |-> vs[1], multiplier |-> vs[2], padding |-> vs[3], native |-> vs[4],
                       static |-> vs[5], contents |-> vs[6], registers |-> vs[7],
                       constraints |-> vs[8], assignments |-> vs[9],
                       public |-> FALSE, synthetic |-> FALSE, keys |-> 0])

EncodeProgram(f) == GobList(EncodeFunction, f.functions) \o GobList(EncodeModule, f.modules)

DecodeProgram(r) == DecodeGobList(DecodeGobList(r, DecodeFunction), DecodeModule)
-----------------------------------------------------------------------------
(* The file.                                                               *)

ZKBINARY == "zkbinary"

EncodeHeader(f) ==
    <<Item("id", f.id), Uint16(f.major), Uint16(f.minor), Item("size", f.metalen),
      Item("bytes", [v |-> f.meta, n |-> f.metalen])>>

DecodeHeader(r) ==
    Build(ReadBytes(Read(Read(Read(r, "id"), "word"), "word"), "size"), Len(r.v),
          LAMBDA vs : [id |-> vs[1], major |-> vs[2], minor |-> vs[3], meta |-> vs[4]])

IsCompatible(h) == h.id = ZKBINARY /\ h.major = MAJOR_VERSION /\ h.minor <= MINOR_VERSION

MarshalFile(f) == EncodeHeader(f) \o <<Gob(f.attributes)>> \o EncodeProgram(f)

(* Of the header h and everything that was read.                           *)
LoadedFile(h, all) ==
    IF h.st # "ok" THEN [st |-> h.st]
    ELSE IF ~IsCompatible(h.v[1]) THEN [st |-> "incompatible"]
    ELSE IF all.st # "ok" THEN [st |-> all.st]
    ELSE [st |-> "ok", meta |-> h.v[1].meta, attributes |-> all.v[2], functions |-> all.v[3],
          modules |-> all.v[4]]

AfterHeader(h) == LoadedFile(h, DecodeProgram(Read(h, "gob")))

UnmarshalFile(contents) == AfterHeader(DecodeHeader(Open(contents)))

NotLoaded == [st |-> "none"]

Init ==
    /\ file \in Files
    /\ items = <<>>
    /\ stage = "saving"
    /\ whole = TRUE
    /\ outcome = NotLoaded

(* Nothing is stored when a register cannot be encoded.                    *)
Save ==
    /\ stage = "saving"
    /\ IF \A f \in Range(file.functions) \cup Range(file.modules) :
            \A k \in DOMAIN f.registers : Encodable(f.registers[k])
       THEN items' = MarshalFile(file) /\ stage' = "stored" /\ UNCHANGED outcome
       ELSE stage' = "loaded" /\ outcome' = [st |-> "refused"] /\ UNCHANGED items
    /\ UNCHANGED <<file, whole>>

(* The file comes from another version of the program.                     *)
Restamp(v) ==
    /\ stage = "stored"
    /\ whole
    /\ file.major = MAJOR_VERSION
    /\ file.minor = MINOR_VERSION
    /\ file' = [file EXCEPT !.major = v[1], !.minor = v[2]]
    /\ items' = MarshalFile(file')
    /\ UNCHANGED <<stage, whole, outcome>>

(* Only the first n items reach the disk.                                  *)
CutShort(n) ==
    /\ stage = "stored"
    /\ whole
    /\ items' = SubSeq(items, 1, n)
    /\ whole' = FALSE
    /\ UNCHANGED <<file, stage, outcome>>

Load ==
    /\ stage = "stored"
    /\ outcome' = UnmarshalFile(items)
    /\ stage' = "loaded"
    /\ UNCHANGED <<file, items, whole>>

Next ==
    \/ Save
    \/ \E v \in Versions : Restamp(v)
    \/ \E n \in 0..(Len(items) - 1) : CutShort(n)
    \/ Load

Spec == Init /\ [][Next]_vars
-----------------------------------------------------------------------------
(* What loading must give back of a register, a function and a module.     *)
SavedRegister(r) == [kind |-> r.kind, width |-> r.width, name |-> r.name, pad |-> r.pad]
SavedRegisters(x) == [k \in DOMAIN x.registers |-> SavedRegister(x.registers[k])]

(* A file that is whole and of a version this program reads loads back     *)
(* with the attributes, functions, registers and constraints that were     *)
(* saved: every kind of term and constraint is read as it was written      *)
(* (encoding.go:68-1155, module.go:307-393).                               *)
RoundTrip ==
    (stage = "loaded" /\ whole /\ outcome.st # "refused"
       /\ file.id = ZKBINARY /\ file.major = MAJOR_VERSION /\ file.minor <= MINOR_VERSION) =>
        /\ outcome.st = "ok"
        /\ outcome.meta = file.meta
        /\ outcome.attributes = file.attributes
        /\ Len(outcome.functions) = Len(file.functions)
        /\ \A i \in DOMAIN file.functions :
             /\ outcome.functions[i].registers = SavedRegisters(file.functions[i])
             /\ outcome.functions[i].code = file.functions[i].code
             /\ outcome.functions[i].inputs = file.functions[i].inputs
        /\ Len(outcome.modules) = Len(file.modules)
        /\ \A i \in DOMAIN file.modules :
             /\ outcome.modules[i].registers = SavedRegisters(file.modules[i])
             /\ outcome.modules[i].contents = file.modules[i].contents
             /\ outcome.modules[i].constraints = file.modules[i].constraints
             /\ outcome.modules[i].assignments = file.modules[i].assignments

(* A file that lost its end, wherever it was cut, is never taken for a     *)
(* schema with fewer constraints (encoding.go:1181-1211).                  *)
TruncationDetected == stage = "loaded" /\ ~whole => outcome.st \notin {"ok", "none"}

(* A file of a version this program cannot read is refused for its         *)
(* version, before anything that follows the header is decoded             *)
(* (binfile.go:275).                                                       *)
VersionsKeptApart ==
    (stage = "loaded" /\ Len(items) >= 5 /\ outcome.st # "refused") =>
        (outcome.st = "incompatible" <=>
           ~(file.id = ZKBINARY /\ file.major = MAJOR_VERSION /\ file.minor <= MINOR_VERSION))

=============================================================================
