---------------------------- MODULE TraceBuilder ----------------------------
(***************************************************************************)
(* TraceBuilder.Build: a trace file becomes a trace for a schema.          *)
(*                                                                         *)
(*   split or lower every column      (one goroutine per column)           *)
(*   align modules and columns with the schema                             *)
(*   add spillage and defensive padding, check the heights                 *)
(*   expand: compute the columns the file does not hold (module Expansion) *)
(*   validate every column            (one goroutine per column)           *)
(*   pad                                                                   *)
(*                                                                         *)
(* A column is [name, bits, data]: data is a sequence of values or NoData, *)
(* bits the width of the array that stores it.  A file is a sequence of    *)
(* modules [name, cols].                                                   *)
(***************************************************************************)
EXTENDS Limbs, TLC

CONSTANTS
    Schema,         \* sequence of [name, mult, pads, spill, defend, regs]
    Prime,          \* the field's modulus
    RegisterWidth,  \* registers wider than this are split
    WordSize,       \* SetBytes accumulates the bytes in a word of this size
    Files, Configs, \* the trace files and builder settings of the instance
    NoData

Configurations ==
    [expand : BOOLEAN, parallel : BOOLEAN, defensive : BOOLEAN, validate : BOOLEAN,
     padding : Nat]

ASSUME SchemaAssumption ==
    /\ Configs \subseteq Configurations
    /\ Prime \in Nat \ {0, 1} /\ RegisterWidth \in Nat \ {0}
    /\ 2^RegisterWidth <= Prime
    /\ \A m \in Range(Schema) :
        /\ m.mult \in Nat \ {0}
        /\ \A r \in Range(m.regs) : ~r.native => r.padding < 2^r.width

VARIABLES
    file, cfg,      \* the arguments: trace file and builder settings
    stage,          \* where the builder is
    todo,           \* columns whose goroutine has not sent its result
    channel,        \* results sent and not received
    results,        \* results received, per column of the file or the trace
    modules,        \* the columns, per module: of the file, then of the schema
    height,         \* rows of each module of the trace
    errors,         \* what was reported, as a set
    front           \* rows added in front of each module

vars == <<file, cfg, stage, todo, channel, results, modules, height, errors, front>>

Stages == {"split", "align", "spill", "expand", "validate", "pad", "ok", "failed", "panic"}
Done == {"ok", "failed", "panic"}

-----------------------------------------------------------------------------
(* Columns.                                                                *)

HasData(c) == c.data # NoData

(* Element.SetBytes: the bytes are shifted into a machine word, which is   *)
(* then reduced to the field.                                              *)
SetBytes(v) == (v % WordSize) % Prime

(* What an array of the given bit width holds after v is stored: a bit     *)
(* array keeps whether v is zero, narrow arrays keep a byte or two.        *)
Stored(bits, v) ==
    CASE bits = 1 -> IF v = 0 THEN 0 ELSE 1
      [] bits \in 2..8 -> v % 2^8
      [] bits \in 9..16 -> v % 2^16
      [] OTHER -> v

LowerRawColumn(c) ==
    [c EXCEPT !.data = IF HasData(c)
                       THEN [i \in DOMAIN c.data |-> Stored(c.bits, SetBytes(c.data[i]))]
                       ELSE NoData]

Registers(m) == {m.regs[i] : i \in DOMAIN m.regs}

(* The register mapping: the limbs of every register, and of every module  *)
(* in the order of its registers.                                          *)
LimbIds == [r \in UNION {Registers(m) : m \in Range(Schema)} |-> SplitIntoLimbs(RegisterWidth, r)]
ModuleLimbs ==
    [m \in Range(Schema) |-> FlattenSeq([i \in DOMAIN m.regs |-> LimbIds[m.regs[i]]])]
Limbs(m) == ModuleLimbs[m]

Named(m, n) == {r \in Registers(m) : r.name = n}
SchemaModule(n) == SelectSeq(Schema, LAMBDA m : m.name = n)

(* splitRawColumn for a column of a register of the schema: one column per *)
(* limb, or an error for a value the limbs cannot hold.                    *)
SplitRawColumn(c, r) ==
    LET limbs == LimbIds[r]
        widths == [i \in DOMAIN limbs |-> limbs[i].width]
        data(i) == [k \in DOMAIN c.data |-> SplitWord(c.data[k], widths)[i]]
        wide == HasData(c) /\ \E k \in DOMAIN c.data : ~Fits(c.data[k], widths)
    IN  IF Len(limbs) = 1 THEN [cols |-> <<LowerRawColumn(c)>>, errs |-> {}]
        ELSE IF wide THEN [cols |-> <<>>, errs |-> {<<"out-of-bounds", c.name>>}]
        ELSE [cols |-> [i \in DOMAIN limbs |->
                          [name |-> limbs[i].name, bits |-> limbs[i].width,
                           data |-> IF HasData(c) THEN data(i) ELSE NoData]],
              errs |-> {}]

(* The result a goroutine sends for column j of module i.  LimbIds panics  *)
(* for a register the mapping does not know, before the error is built.    *)
KnownColumn(i, j) ==
    \/ ~cfg.expand
    \/ /\ SchemaModule(file[i].name) # <<>>
       /\ Named(SchemaModule(file[i].name)[1], file[i].cols[j].name) # {}

ColumnResult(i, j) ==
    LET c == file[i].cols[j]
    IN  IF cfg.expand
        THEN SplitRawColumn(c, CHOOSE r \in Named(SchemaModule(file[i].name)[1], c.name) : TRUE)
        ELSE [cols |-> <<LowerRawColumn(c)>>, errs |-> {}]

-----------------------------------------------------------------------------
(* Splitting or lowering: the main goroutine starts one goroutine per      *)
(* column and places every result at its column's index.                   *)

Jobs(mods) == UNION {{i} \X DOMAIN mods[i].cols : i \in DOMAIN mods}

Init ==
    /\ file \in Files /\ cfg \in Configs
    /\ stage = "split" /\ todo = Jobs(file)
    /\ channel = {} /\ errors = {}
    /\ results = <<>> /\ modules = <<>> /\ height = <<>>
    /\ front = [i \in DOMAIN Schema |-> 0]

(* A panic in any goroutine ends the process.                              *)
Crash ==
    /\ stage' = "panic"
    /\ UNCHANGED <<file, cfg, todo, channel, results, modules, height, errors, front>>

(* Sequential splitting and validation take the columns in order and wait  *)
(* for each; in parallel the goroutines run in any order.                  *)
Before(a, b) == a[1] < b[1] \/ (a[1] = b[1] /\ a[2] < b[2])

Runnable(job) ==
    /\ job \in todo
    /\ cfg.parallel \/ (channel = {} /\ ~\E k \in todo : Before(k, job))

(* A faulty goroutine: it returns early on an error, without sending.      *)
SplitColumnSilent(job) ==
    /\ stage = "split" /\ Runnable(job)
    /\ KnownColumn(job[1], job[2])
    /\ todo' = todo \ {job}
    /\ channel' = IF ColumnResult(job[1], job[2]).errs # {} THEN channel
                  ELSE channel \cup {<<job, ColumnResult(job[1], job[2])>>}
    /\ UNCHANGED <<file, cfg, stage, results, modules, height, errors, front>>

SplitColumn(job) ==
    /\ stage = "split" /\ Runnable(job)
    /\ KnownColumn(job[1], job[2])
    /\ todo' = todo \ {job}
    /\ channel' = channel \cup {<<job, ColumnResult(job[1], job[2])>>}
    /\ UNCHANGED <<file, cfg, stage, results, modules, height, errors, front>>

(* mapping.ModuleOf panics in the main goroutine as well, while it starts  *)
(* the goroutines of a module the mapping does not know.                   *)
SplitPanics ==
    /\ stage = "split" /\ cfg.expand
    /\ \/ \E job \in todo : Runnable(job) /\ ~KnownColumn(job[1], job[2])
       \/ \E i \in DOMAIN file : SchemaModule(file[i].name) = <<>>
    /\ Crash

(* A faulty collection: results are appended in the order they arrive.     *)
ReceiveInOrder(msg) ==
    /\ msg \in channel
    /\ channel' = channel \ {msg}
    /\ LET free == (IF stage = "split" THEN Jobs(file) ELSE Jobs(modules)) \ DOMAIN results
           slot == CHOOSE s \in free : ~\E k \in free : Before(k, s)
       IN  results' = (slot :> msg[2]) @@ results
    /\ errors' = errors \cup msg[2].errs
    /\ UNCHANGED <<file, cfg, stage, todo, modules, height, front>>

(* The main goroutine receives one result and places it.                   *)
Receive(msg) ==
    /\ msg \in channel
    /\ channel' = channel \ {msg}
    /\ results' = (msg[1] :> msg[2]) @@ results
    /\ errors' = errors \cup msg[2].errs
    /\ UNCHANGED <<file, cfg, stage, todo, modules, height, front>>

(* flatten: the columns of a module in the order of the file.              *)
Flatten(i) == FlattenSeq([j \in DOMAIN file[i].cols |-> results[<<i, j>>].cols])

(* The main goroutine receives as many results as there are columns.       *)
Collected(jobs) == DOMAIN results = jobs

SplitEnd ==
    /\ stage = "split" /\ Collected(Jobs(file))
    /\ cfg.expand => \A i \in DOMAIN file : SchemaModule(file[i].name) # <<>>
    /\ stage' = IF errors # {} THEN "failed" ELSE "align"
    /\ modules' = [i \in DOMAIN file |-> [name |-> file[i].name, cols |-> Flatten(i)]]
    /\ results' = <<>>
    /\ UNCHANGED <<file, cfg, todo, channel, height, errors, front>>

-----------------------------------------------------------------------------
(* Alignment with the schema, whose registers are limbs by now.            *)

(* alignModules: the last module of a name wins, a module of the schema    *)
(* that the file lacks gets no columns.                                    *)
AlignModule(m) ==
    LET found == SelectSeq(modules, LAMBDA f : f.name = m.name)
    IN  IF found = <<>> THEN <<>> ELSE Last(found).cols

UnknownModules ==
    {<<"unknown module", f.name>> : f \in {g \in Range(modules) : SchemaModule(g.name) = <<>>}}

(* alignColumns: the columns taken are the first ones of a known name.     *)
Taken(m, cols) ==
    {i \in DOMAIN cols : /\ \E r \in Range(Limbs(m)) : r.name = cols[i].name
                         /\ \A k \in 1..(i - 1) : cols[k].name # cols[i].name}

AlignColumns(m, cols) ==
    [k \in DOMAIN Limbs(m) |->
        LET r == Limbs(m)[k]
            from == {i \in Taken(m, cols) : cols[i].name = r.name}
        IN  IF from = {} THEN [name |-> r.name, bits |-> r.width, data |-> NoData]
            ELSE cols[CHOOSE i \in from : TRUE]]

ColumnErrors(m, cols) ==
    LET taken == Taken(m, cols)
        filled == {i \in taken : HasData(cols[i])}
        known(i) == \E r \in Range(Limbs(m)) : r.name = cols[i].name
        absent == {r \in Range(Limbs(m)) : ~\E i \in filled : cols[i].name = r.name}
    IN  {<<IF known(i) THEN "duplicate" ELSE "unknown", cols[i].name>> : i \in DOMAIN cols \ taken}
        \cup {<<"height", cols[i].name>> :
                i \in {k \in filled : Len(cols[k].data) # Len(cols[Min(filled)].data)}}
        \cup {<<"missing", r.name>> :
                r \in {q \in absent : (q.io /\ filled # {}) \/ ~cfg.expand}}

AlignErrors ==
    LET unknown == IF cfg.expand THEN UnknownModules ELSE {}
    IN  IF unknown # {} THEN unknown
        ELSE UNION {ColumnErrors(Schema[i], AlignModule(Schema[i])) : i \in DOMAIN Schema}

Aligned(i) == [name |-> Schema[i].name, cols |-> AlignColumns(Schema[i], AlignModule(Schema[i]))]

(* NewArrayModule: the height is that of the columns with data.            *)
HeightOf(cols) ==
    LET filled == {k \in DOMAIN cols : HasData(cols[k])}
    IN  IF filled = {} THEN 0 ELSE Len(cols[Min(filled)].data)

Misaligned(i) ==
    LET cols == Aligned(i).cols
    IN  \/ HeightOf(cols) % Schema[i].mult # 0
        \/ \E k \in DOMAIN cols : HasData(cols[k]) /\ Len(cols[k].data) # HeightOf(cols)

Align ==
    /\ stage = "align"
    /\ AlignErrors = {} => \A i \in DOMAIN Schema : ~Misaligned(i)
    /\ errors' = AlignErrors
    /\ IF AlignErrors # {}
       THEN stage' = "failed" /\ UNCHANGED <<modules, height>>
       ELSE /\ stage' = IF cfg.expand THEN "spill" ELSE "pad"
            /\ modules' = [i \in DOMAIN Schema |-> Aligned(i)]
            /\ height' = [i \in DOMAIN Schema |-> HeightOf(Aligned(i).cols)]
    /\ UNCHANGED <<file, cfg, todo, channel, results, front>>

AlignPanics ==
    /\ stage = "align" /\ AlignErrors = {}
    /\ \E i \in DOMAIN Schema : Misaligned(i)
    /\ Crash

-----------------------------------------------------------------------------
(* Padding.                                                                *)

(* RequiredPaddingRows.                                                    *)
RequiredPaddingRows(m) ==
    LET spillage == Max({1, m.spill})
    IN  IF ~m.pads THEN 0
        ELSE m.mult * (IF cfg.defensive THEN Max({spillage, m.defend}) ELSE spillage)

PaddingValue(i, k) == SetBytes(Limbs(Schema[i])[k].padding)

(* ArrayModule.Pad in front of every column that has data.                 *)
PadColumn(i, k, n) ==
    LET c == modules[i].cols[k]
    IN  IF ~HasData(c) THEN c
        ELSE [c EXCEPT !.data = [x \in 1..n |-> Stored(c.bits, PaddingValue(i, k))] \o @]

Pad(rows) ==
    /\ modules' = [i \in DOMAIN Schema |->
                    [modules[i] EXCEPT !.cols =
                        [k \in DOMAIN modules[i].cols |-> PadColumn(i, k, rows[i])]]]
    /\ height' = [i \in DOMAIN Schema |-> height[i] + rows[i]]
    /\ front' = [i \in DOMAIN Schema |-> front[i] + rows[i]]

(* Spillage and defensive padding; checkModuleHeights recomputes the same  *)
(* number of rows, so its error is never reported.                         *)
Spill ==
    /\ stage = "spill" /\ stage' = "expand"
    /\ Pad([i \in DOMAIN Schema |-> RequiredPaddingRows(Schema[i])])
    /\ UNCHANGED <<file, cfg, todo, channel, results, errors>>

PadColumns ==
    /\ stage = "pad" /\ stage' = "ok"
    /\ Pad([i \in DOMAIN Schema |-> cfg.padding * Schema[i].mult])
    /\ UNCHANGED <<file, cfg, todo, channel, results, errors>>

-----------------------------------------------------------------------------
(* Expansion and validation.                                               *)

(* TraceExpansion, in one step: each column without data that is computed  *)
(* gets one value per row, here the successor of the module's first one.   *)
Expanded(i, k) ==
    LET c == modules[i].cols[k]
        first == modules[i].cols[1]
        value(x) == IF HasData(first) THEN (first.data[x] + 1) % Prime ELSE 0
    IN  IF HasData(c) \/ Limbs(Schema[i])[k].io THEN c
        ELSE [c EXCEPT !.bits = 64, !.data = [x \in 1..height[i] |-> value(x)]]

Expand ==
    /\ stage = "expand"
    /\ modules' = [i \in DOMAIN Schema |->
                    [modules[i] EXCEPT !.cols =
                        [k \in DOMAIN modules[i].cols |-> Expanded(i, k)]]]
    /\ stage' = IF cfg.validate THEN "validate" ELSE "pad"
    /\ todo' = IF cfg.validate THEN Jobs(modules) ELSE {}
    /\ UNCHANGED <<file, cfg, channel, results, height, errors, front>>

ExpansionFails ==
    /\ stage = "expand" /\ stage' = "failed"
    /\ errors' = {<<"expansion", NoData>>}
    /\ UNCHANGED <<file, cfg, todo, channel, results, modules, height, front>>

(* validateColumnBitWidth, with the bound as an element of the field.      *)
Unassigned(i, k) == ~Limbs(Schema[i])[k].native /\ ~HasData(modules[i].cols[k])

(* A faulty bound: the largest value of the type is rejected.              *)
BitWidthErrorsOffByOne(i, k) ==
    LET r == Limbs(Schema[i])[k]
        data == modules[i].cols[k].data
    IN  IF r.native \/ \A x \in DOMAIN data : data[x] <= 2^r.width % Prime THEN {}
        ELSE {<<"out-of-bounds", r.name>>}

BitWidthErrors(i, k) ==
    LET r == Limbs(Schema[i])[k]
        bound == 2^r.width % Prime
        data == modules[i].cols[k].data
    IN  IF r.native \/ \A x \in DOMAIN data : data[x] < bound THEN {}
        ELSE {<<"out-of-bounds", r.name>>}

ValidateColumn(job) ==
    /\ stage = "validate" /\ Runnable(job)
    /\ ~Unassigned(job[1], job[2])
    /\ todo' = todo \ {job}
    /\ channel' = channel \cup {<<job, [errs |-> BitWidthErrors(job[1], job[2])]>>}
    /\ UNCHANGED <<file, cfg, stage, results, modules, height, errors, front>>

ValidatePanics ==
    /\ stage = "validate"
    /\ \E job \in todo : Runnable(job) /\ Unassigned(job[1], job[2])
    /\ Crash

ValidateEnd ==
    /\ stage = "validate" /\ Collected(Jobs(modules))
    /\ stage' = IF errors # {} THEN "failed" ELSE "pad"
    /\ results' = <<>>
    /\ UNCHANGED <<file, cfg, todo, channel, modules, height, errors, front>>

Next ==
    \/ \E job \in todo : SplitColumn(job) \/ ValidateColumn(job)
    \/ stage \notin Done /\ \E msg \in channel : Receive(msg)
    \/ SplitPanics \/ SplitEnd \/ Align \/ AlignPanics \/ Spill
    \/ Expand \/ ExpansionFails \/ ValidatePanics \/ ValidateEnd \/ PadColumns

Spec == Init /\ [][Next]_vars /\ WF_vars(Next)

-----------------------------------------------------------------------------
(* Properties.                                                             *)

(* Build is always in a known stage and every column of the trace is a     *)
(* sequence of field elements or not yet assigned.                         *)
TypeOK ==
    /\ file \in Files /\ cfg \in Configurations /\ stage \in Stages
    /\ front \in [DOMAIN Schema -> Nat]
    /\ stage \in {"spill", "expand", "validate", "pad", "ok"} =>
        \A i \in DOMAIN Schema : \A c \in Range(modules[i].cols) :
            HasData(c) => c.data \in Seq(0..(Prime - 1))

(* What the file supplies for register r of schema module i.               *)
Supplied(i, r) ==
    LET found == SelectSeq(file, LAMBDA f : f.name = Schema[i].name)
        cols == IF found = <<>> THEN <<>> ELSE Last(found).cols
    IN  SelectSeq(cols, LAMBDA c : c.name = r.name /\ HasData(c))

LimbData(i, r, row) ==
    LET limbs == LimbIds[r]
        col(n) == CHOOSE c \in Range(modules[i].cols) : c.name = n
    IN  [k \in DOMAIN limbs |-> col(limbs[k].name).data[row]]

LimbBits(r) == [k \in DOMAIN LimbIds[r] |-> LimbIds[r][k].width]

(* The trace that Build returns holds, below the padding rows and in the   *)
(* order of the schema, limbs that add up to the values of the file,       *)
(* whichever goroutine split them and in which order the results came;     *)
(* values the field cannot hold are left out.                              *)
ValuesPreserved ==
    stage = "ok" /\ cfg.expand =>
        \A i \in DOMAIN Schema : \A r \in Registers(Schema[i]) :
            Supplied(i, r) # <<>> =>
                LET data == Supplied(i, r)[1].data
                IN  \A x \in DOMAIN data :
                        Len(LimbBits(r)) > 1 \/ data[x] < Prime =>
                            Recomposed(LimbData(i, r, front[i] + x), LimbBits(r)) = data[x]

(* Every row added in front of a column supplied by the file holds the     *)
(* padding value that the register declares, where the array that stores   *)
(* the column is as wide as the register.                                  *)
PaddingDeclared ==
    stage = "ok" /\ cfg.expand =>
        \A i \in DOMAIN Schema : \A r \in Registers(Schema[i]) :
            Supplied(i, r) # <<>> /\ Supplied(i, r)[1].bits >= r.width =>
                \A x \in 1..front[i] :
                    Recomposed(LimbData(i, r, x), LimbBits(r)) = r.padding

(* All columns of a module of the trace have one height, the rows of the   *)
(* file and the padding rows, a multiple of the module's multiplier.       *)
HeightsConsistent ==
    stage = "ok" =>
        \A i \in DOMAIN Schema :
            /\ height[i] % Schema[i].mult = 0
            /\ \A c \in Range(modules[i].cols) : HasData(c) => Len(c.data) = height[i]
            /\ \A r \in Registers(Schema[i]) :
                Supplied(i, r) # <<>> => height[i] = front[i] + Len(Supplied(i, r)[1].data)

(* A build that passes validation has no column with a value out of its    *)
(* type, and one that fails there names exactly the columns that have one. *)
Validated ==
    cfg.expand /\ cfg.validate =>
        LET wide(i) == {k \in DOMAIN modules[i].cols :
                           /\ ~Limbs(Schema[i])[k].native
                           /\ HasData(modules[i].cols[k])
                           /\ \E v \in Range(modules[i].cols[k].data) :
                                v >= 2^Limbs(Schema[i])[k].width}
            all == UNION {{<<"out-of-bounds", Limbs(Schema[i])[k].name>> : k \in wide(i)} :
                            i \in DOMAIN Schema}
        IN  /\ stage = "ok" => all = {}
            /\ stage = "failed" /\ DOMAIN height # {} /\ errors # {<<"expansion", NoData>>}
                   => errors = all

(* A build that fails while columns are split reports every column whose   *)
(* values do not fit its limbs, not only those whose goroutine came first. *)
SplitErrorsComplete ==
    LET bad(i) == {c \in Range(file[i].cols) :
                     \E r \in UNION {Registers(m) : m \in Range(SchemaModule(file[i].name))} :
                        /\ r.name = c.name /\ Len(LimbBits(r)) > 1 /\ HasData(c)
                        /\ \E v \in Range(c.data) : v >= 2^r.width}
        all == UNION {{<<"out-of-bounds", c.name>> : c \in bad(i)} : i \in DOMAIN file}
    IN  cfg.expand /\ all # {} => /\ stage \notin {"align", "ok"}
                                  /\ stage = "failed" => errors = all

(* The trace that Build returns is that of the file: its values below the  *)
(* padding that the registers declare, in columns of one height.           *)
TraceOfFile == ValuesPreserved /\ PaddingDeclared /\ HeightsConsistent

(* Whoever came first, the errors of a build are those of all columns.     *)
ErrorsComplete == Validated /\ SplitErrorsComplete

(* Every build ends: no goroutine is awaited that sends nothing.           *)
Terminates == <>(stage \in Done)

=============================================================================
