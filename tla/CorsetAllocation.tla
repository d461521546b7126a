--------------------------- MODULE CorsetAllocation ---------------------------
(* Columns to registers (pkg/corset/compiler/environment.go, allocation.go and    *)
(* the module translation of translator.go): every atomic column gets a register,  *)
(* registers of columns in different perspectives of a module are merged by an      *)
(* allocator, merged registers are discarded, and the rest are declared in the     *)
(* schema together with the range constraints that prove their types.              *)
EXTENDS Integers, Sequences, FiniteSets, SequencesExt

CONSTANTS
  Environments,          \* scopes to allocate: sequences of scopes of columns
  ENFORCE_TYPES,         \* whether all types are proved
  ENFORCE_LIMB_TYPES,    \* whether those are that must be split into limbs
  REGISTER_WIDTH         \* bits of the registers of the target field

VARIABLES
  scopes,      \* the flattened scopes of the circuit
  allocator,   \* "legacy" or "improved"
  phase,       \* "module", "compact", "merge", "discard", "translate", "done" or "panic"
  registers,   \* registers, in the order they were allocated
  columnMap,   \* register of each column
  todo,        \* modules whose registers are still to be allocated
  groups,      \* groups of the module being allocated
  pass,        \* comparators still to be tried
  at,          \* the pair of groups, or the group and slot, to look at next
  schema       \* registers declared, and the constraints on them

vars == <<scopes, allocator, phase, registers, columnMap, todo, groups, pass, at, schema>>

--------------------------------------------------------------------------------
(* Columns.  Names are sequences of letters; "_" joins an array and an index.    *)

Underscore == 0
Letters == Nat

(* A column is [name, dims, width, prove, computed, pad, mult], its dims the    *)
(* first and last index of an array or empty.                                    *)
DestructureColumn(scope, col) ==
  LET source(name) == [m |-> scope.m, p |-> scope.p, c |-> name, width |-> col.width,
                       prove |-> col.prove, computed |-> col.computed, pad |-> col.pad,
                       mult |-> col.mult]
  IN  IF col.dims = <<>> THEN <<source(col.name)>>
      ELSE [i \in 1..(col.dims[2] - col.dims[1] + 1) |->
              source(col.name \o <<Underscore, col.dims[1] + i - 1>>)]

DestructuredColumns(scope) ==
  FoldLeft(LAMBDA cols, col : cols \o DestructureColumn(scope, col), <<>>, scope.columns)

AllColumns(sc) == FoldLeft(LAMBDA cols, scope : cols \o DestructuredColumns(scope), <<>>, sc)

Path(s) == <<s.m, s.p, s.c>>
IsVirtual(s) == s.p # <<>>
Perspective(s) == s.p

--------------------------------------------------------------------------------
(* Registers.                                                                    *)

NewRegister(s) ==
  [m |-> s.m, mult |-> s.mult, width |-> s.width, pad |-> s.pad, sources |-> <<s>>, active |-> TRUE]

IsActive(r) == r.active

Deactivate(r) == [r EXCEPT !.active = FALSE, !.sources = <<>>]

MergeInto(r, other) ==
  [r EXCEPT !.width = IF other.width > @ THEN other.width ELSE @,
            !.sources = @ \o other.sources,
            !.pad = IF r.pad = other.pad THEN @ ELSE 0]

(* Names of registers: those of their sources, by perspective.                   *)
ConstructColumnName(s) == Perspective(s) \o s.c

LexLess(a, b) ==
  \E n \in 0..Len(a) :
    /\ n <= Len(b)
    /\ SubSeq(a, 1, n) = SubSeq(b, 1, n)
    /\ n < Len(b)
    /\ n = Len(a) \/ a[n + 1] < b[n + 1]

RegisterName(r) ==
  LET sorted == SortSeq(r.sources, LAMBDA s, t : LexLess(Perspective(s), Perspective(t)))
  IN  [i \in DOMAIN sorted |-> ConstructColumnName(sorted[i])] \o <<>>

ConsistentVisibility(r) == \A i \in DOMAIN r.sources : r.sources[i].computed = r.sources[1].computed
IsInput(r) == ~r.sources[1].computed

--------------------------------------------------------------------------------
(* The environment.                                                              *)

Owners(sc) == {sc[i].m : i \in {j \in DOMAIN sc : sc[j].p = <<>>}}

InitModules(sc) == Owners(sc)

(* Input columns come first, computed columns second.                            *)
InitRegisters(sc) ==
  LET all == AllColumns(sc)
      cols == SelectSeq(all, LAMBDA s : ~s.computed) \o SelectSeq(all, LAMBDA s : s.computed)
  IN  [i \in DOMAIN cols |-> NewRegister(cols[i])]

(* A later column of the same path takes its entry.                              *)
InitColumns(regs) ==
  [p \in {Path(regs[i].sources[1]) : i \in DOMAIN regs} |->
     CHOOSE i \in DOMAIN regs :
       /\ Path(regs[i].sources[1]) = p
       /\ \A j \in DOMAIN regs : Path(regs[j].sources[1]) = p => j <= i]

(* An identifier of a scope, other than a function, is an entry of its own.      *)
ApplyAliases(sc, map) ==
  LET aliases == UNION {{<<<<sc[i].m, sc[i].p, a>>, <<sc[i].m, sc[i].p, sc[i].aliases[a]>>>> :
                           a \in DOMAIN sc[i].aliases} : i \in DOMAIN sc}
  IN  [p \in DOMAIN map \cup {a[1] : a \in aliases} |->
         IF \E a \in aliases : a[1] = p THEN map[(CHOOSE a \in aliases : a[1] = p)[2]] ELSE map[p]]

RegistersOf(m) == SelectSeq([i \in DOMAIN registers |-> i], LAMBDA i : registers[i].m = m)

(* A faulty Merge, that leaves the columns with the register given up.           *)
MergeStale(dst, src) ==
  /\ columnMap' = columnMap
  /\ registers' = [registers EXCEPT ![dst] = MergeInto(@, registers[src]),
                                    ![src] = Deactivate(@)]

(* A register takes over the columns of another.                                 *)
Merge(dst, src) ==
  /\ columnMap' = [c \in DOMAIN columnMap |-> IF columnMap[c] = src THEN dst ELSE columnMap[c]]
  /\ registers' = [registers EXCEPT ![dst] = MergeInto(@, registers[src]),
                                    ![src] = Deactivate(@)]

--------------------------------------------------------------------------------
(* Groups of registers, at most one of each perspective (slot).                 *)

SortKey(i) == LET s == registers[i].sources[1] IN s.p \o <<-1>> \o s.c
SortRegisters(view) == SortSeq(view, LAMBDA i, j : LexLess(SortKey(i), SortKey(j)))

(* Slots of the perspectives, in the order they are met.                         *)
AllocatePerspectives(view) ==
  FoldLeft(LAMBDA slots, i : LET s == registers[i].sources[1] IN
             IF IsVirtual(s) /\ ~\E k \in DOMAIN slots : slots[k] = Perspective(s)
             THEN Append(slots, Perspective(s)) ELSE slots,
           <<>>, view)

SlotOf(slots, p) == CHOOSE k \in DOMAIN slots : slots[k] = p

AllocateRegister(slots, i) ==
  LET s == registers[i].sources[1]
  IN  [width |-> registers[i].width, prove |-> s.prove,
       slots |-> {[slot |-> SlotOf(slots, Perspective(s)), register |-> i]}]

NewRegisterAllocator(view) ==
  LET virtual == SelectSeq(view, LAMBDA i : IsVirtual(registers[i].sources[1]))
      slots == AllocatePerspectives(view)
  IN  [k \in DOMAIN virtual |-> AllocateRegister(slots, virtual[k])]

IsEmpty(g) == g.slots = {}

Target(g) == CHOOSE i \in {s.register : s \in g.slots} : \A s \in g.slots : i <= s.register

Disjoint(g, h) == {s.slot : s \in g.slots} \cap {s.slot : s \in h.slots} = {}

MergeGroups(g, h) ==
  [width |-> IF h.width > g.width THEN h.width ELSE g.width,
   prove |-> g.prove \/ h.prove, slots |-> g.slots \cup h.slots]

IdenticalType(g, h) == g.width = h.width
UnprovenType(g, h) == ~g.prove /\ ~h.prove
ContainedUnprovenType(g, h) == ~g.prove /\ h.prove /\ g.width <= h.width

LegacyAllocator == <<"identical">>
ImprovedAllocator == <<"identical", "unproven", "contained">>

Compatible(by, g, h) ==
  CASE by = "identical" -> IdenticalType(g, h)
    [] by = "unproven" -> UnprovenType(g, h)
    [] by = "contained" -> ContainedUnprovenType(g, h)

--------------------------------------------------------------------------------
Init ==
  /\ scopes \in Environments
  /\ allocator \in {"legacy", "improved"}
  /\ phase = "module"
  /\ registers = InitRegisters(scopes)
  /\ columnMap = ApplyAliases(scopes, InitColumns(registers))
  /\ todo = InitModules(scopes)
  /\ groups = <<>>
  /\ pass = <<>>
  /\ at = <<1, 2>>
  /\ schema = <<>>

(* The modules are taken from a map, in any order.                               *)
StartModule(m) ==
  /\ phase = "module"
  /\ m \in todo
  /\ todo' = todo \ {m}
  /\ groups' = NewRegisterAllocator(SortRegisters(RegistersOf(m)))
  /\ pass' = IF allocator = "legacy" THEN LegacyAllocator ELSE ImprovedAllocator
  /\ at' = <<1, 2>>
  /\ phase' = "compact"
  /\ UNCHANGED <<scopes, allocator, registers, columnMap, schema>>

NextPair(i, j) == IF j < Len(groups) THEN <<i, j + 1>> ELSE <<i + 1, i + 2>>

(* One pair of groups is compared: the later is merged into the earlier.         *)
CompactBy ==
  LET i == at[1]  j == at[2] IN
  /\ phase = "compact"
  /\ pass # <<>>
  /\ i < Len(groups)
  /\ groups' = IF ~IsEmpty(groups[i]) /\ ~IsEmpty(groups[j])
                  /\ Disjoint(groups[i], groups[j]) /\ Compatible(Head(pass), groups[i], groups[j])
               THEN [groups EXCEPT ![i] = MergeGroups(@, groups[j]), ![j].slots = {}]
               ELSE groups
  /\ at' = NextPair(i, j)
  /\ UNCHANGED <<scopes, allocator, phase, registers, columnMap, todo, pass, schema>>

EndPass ==
  /\ phase = "compact"
  /\ pass = <<>> \/ at[1] >= Len(groups)
  /\ pass' = IF pass = <<>> THEN pass ELSE Tail(pass)
  /\ phase' = IF Len(pass) > 1 THEN phase ELSE "merge"
  /\ at' = <<1, 2>>
  /\ UNCHANGED <<scopes, allocator, registers, columnMap, todo, groups, schema>>

(* Registers of a group still to be merged into its target, in slot order.       *)
Unmerged(g) == {s \in g.slots : s.register # Target(g) /\ IsActive(registers[s.register])}

Finalise ==
  /\ phase = "merge"
  /\ \E k \in DOMAIN groups : ~IsEmpty(groups[k]) /\ Unmerged(groups[k]) # {}
  /\ LET k == CHOOSE k \in DOMAIN groups :
                /\ ~IsEmpty(groups[k]) /\ Unmerged(groups[k]) # {}
                /\ \A l \in 1..(k - 1) : IsEmpty(groups[l]) \/ Unmerged(groups[l]) = {}
         s == CHOOSE s \in Unmerged(groups[k]) : \A t \in Unmerged(groups[k]) : s.slot <= t.slot
         dst == registers[Target(groups[k])]
         src == registers[s.register]
     IN  IF dst.mult # src.mult
         THEN phase' = "panic" /\ UNCHANGED <<registers, columnMap>>
         ELSE Merge(Target(groups[k]), s.register) /\ UNCHANGED phase
  /\ UNCHANGED <<scopes, allocator, todo, groups, pass, at, schema>>

EndModule ==
  /\ phase = "merge"
  /\ \A k \in DOMAIN groups : IsEmpty(groups[k]) \/ Unmerged(groups[k]) = {}
  /\ groups' = <<>>
  /\ phase' = IF todo = {} THEN "discard" ELSE "module"
  /\ UNCHANGED <<scopes, allocator, registers, columnMap, todo, pass, at, schema>>

(* The index of a register once inactive ones are gone.                          *)
NewIndex(i) == Cardinality({j \in 1..i : IsActive(registers[j])})

DiscardInactive ==
  /\ phase = "discard"
  /\ registers' = SelectSeq(registers, IsActive)
  /\ columnMap' = [c \in DOMAIN columnMap |-> NewIndex(columnMap[c])]
  /\ at' = <<1, 2>>
  /\ phase' = "translate"
  /\ UNCHANGED <<scopes, allocator, todo, groups, pass, schema>>

--------------------------------------------------------------------------------
(* Declaring the registers in the modules of the schema, one per multiplier.     *)

ModuleName(r) == <<r.m, r.mult>>

TypeRequired(r) ==
  \/ ENFORCE_TYPES \/ (ENFORCE_LIMB_TYPES /\ r.width > REGISTER_WIDTH)
  \/ \E k \in DOMAIN r.sources : r.sources[k].prove

(* Only whole registers can be proved.                                           *)
MixedWidth(r) == \E k \in DOMAIN r.sources : r.sources[k].prove /\ r.sources[k].width # r.width

AlreadyDeclared(r) ==
  \E k \in DOMAIN schema : schema[k].module = ModuleName(r) /\ schema[k].name = RegisterName(r)

TranslateModuleRegister ==
  LET r == registers[at[1]] IN
  /\ phase = "translate"
  /\ at[1] <= Len(registers)
  /\ IF ~ConsistentVisibility(r) \/ AlreadyDeclared(r) \/ (TypeRequired(r) /\ MixedWidth(r))
     THEN phase' = "panic" /\ UNCHANGED <<at, schema>>
     ELSE /\ schema' = Append(schema, [module |-> ModuleName(r), name |-> RegisterName(r),
                                       input |-> IsInput(r), width |-> r.width, pad |-> r.pad,
                                       range |-> TypeRequired(r)])
          /\ at' = <<at[1] + 1, at[2]>>
          /\ UNCHANGED phase
  /\ UNCHANGED <<scopes, allocator, registers, columnMap, todo, groups, pass>>

EndTranslation ==
  /\ phase = "translate"
  /\ at[1] > Len(registers)
  /\ phase' = "done"
  /\ UNCHANGED <<scopes, allocator, registers, columnMap, todo, groups, pass, at, schema>>

Next ==
  \/ \E m \in todo : StartModule(m)
  \/ CompactBy
  \/ EndPass
  \/ Finalise
  \/ EndModule
  \/ DiscardInactive
  \/ TranslateModuleRegister
  \/ EndTranslation

Spec == Init /\ [][Next]_vars

--------------------------------------------------------------------------------
Active == {i \in DOMAIN registers : IsActive(registers[i])}
SourceSet(r) == {r.sources[k] : k \in DOMAIN r.sources}

(* Registers, columns and groups are of their types, at every step.              *)
TypeOK ==
  /\ allocator \in {"legacy", "improved"}
  /\ phase \in {"module", "compact", "merge", "discard", "translate", "done", "panic"}
  /\ \A i \in DOMAIN registers : registers[i].width \in Nat /\ registers[i].active \in BOOLEAN
  /\ \A c \in DOMAIN columnMap : columnMap[c] \in DOMAIN registers
  /\ todo \subseteq Owners(scopes)
  /\ \A k \in DOMAIN groups : \A s \in groups[k].slots : s.register \in DOMAIN registers

(* At every moment of allocation a column is mapped to a register in use that     *)
(* counts it as a source: RegisterOf is never stale, not between two merges nor   *)
(* once registers have been renumbered (environment.go:94, allocation.go:212).    *)
ColumnsHeld ==
  LET all == AllColumns(scopes) IN
  \A k \in DOMAIN all :
    LET i == columnMap[Path(all[k])] IN
      IsActive(registers[i]) /\ all[k] \in SourceSet(registers[i])

(* A column of one perspective never shares a register with another column of     *)
(* it, and a column of the module itself shares its register with nothing         *)
(* (RegisterGroup, allocation.go:475).                                            *)
NoOverlap ==
  \A i \in Active : \A a, b \in DOMAIN registers[i].sources :
    a # b => LET s == registers[i].sources[a]  t == registers[i].sources[b] IN
               IsVirtual(s) /\ IsVirtual(t) /\ s.m = t.m /\ Perspective(s) # Perspective(t)

(* A register declared is as wide as its widest column, and where a column must   *)
(* be proved the register's range is exactly that column's type; no other has a   *)
(* range but those too wide for a limb; padding is that of all its columns, or     *)
(* zero (allocation.go:73, translator.go:188).                                    *)
RegistersFit ==
  phase = "done" =>
    \A i \in DOMAIN registers :
      LET r == registers[i] IN
        /\ schema[i].width = r.width
        /\ \E s \in SourceSet(r) : s.width = r.width /\ \A t \in SourceSet(r) : t.width <= s.width
        /\ \A s \in SourceSet(r) : s.prove => schema[i].range /\ schema[i].width = s.width
        /\ ENFORCE_LIMB_TYPES => \A s \in SourceSet(r) : s.width > REGISTER_WIDTH => schema[i].range
        /\ schema[i].range /\ ~ENFORCE_TYPES =>
             \E s \in SourceSet(r) : s.prove \/ (ENFORCE_LIMB_TYPES /\ s.width > REGISTER_WIDTH)
        /\ schema[i].pad = IF \A s, t \in SourceSet(r) : s.pad = t.pad THEN r.sources[1].pad ELSE 0

(* Compaction leaves nothing to compact: two registers of a module that hold      *)
(* columns of disjoint perspectives are of different widths (legacy), or one of   *)
(* them is proved (improved, allocation.go:266-286).                              *)
Compacted ==
  phase = "done" =>
    \A i, j \in DOMAIN registers :
      LET r == registers[i]  q == registers[j]
          persp(x) == {Perspective(s) : s \in SourceSet(x)} IN
      (/\ i # j /\ r.m = q.m
       /\ \A s \in SourceSet(r) \cup SourceSet(q) : IsVirtual(s)
       /\ persp(r) \cap persp(q) = {})
      => IF allocator = "legacy" THEN r.width # q.width
         ELSE \E s \in SourceSet(r) \cup SourceSet(q) : s.prove

(* Inputs are declared before computed columns ("allocate input columns first",   *)
(* environment.go:154), whatever is merged.                                       *)
InputsFirst ==
  \A i, j \in DOMAIN registers :
    i < j /\ IsActive(registers[i]) /\ IsActive(registers[j]) /\ IsInput(registers[j])
      => IsInput(registers[i])

(* No circuit whose columns are named apart makes allocation or the declaration   *)
(* of registers panic: a register to be proved is never of mixed width            *)
(* (allocation.go:296, translator.go:207).                                        *)
NeverPanics == phase # "panic"

(* Allocation and declaration come to an end, whatever is merged.                *)
Ended == phase \in {"done", "panic"}
FairSpec == Spec /\ ([]<>Ended \/ []<><<Next>>_vars)
Terminates == <>Ended
=============================================================================
