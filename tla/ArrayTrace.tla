----------------------------- MODULE ArrayTrace -----------------------------
(***************************************************************************)
(* The trace under expansion and the assignments that compute its columns. *)
(* A trace t holds data, per register a column (a sequence of values) or   *)
(* NoData for a computed column not yet filled, and height, per module the *)
(* number of rows.                                                         *)
(*                                                                         *)
(* An assignment either computes one column of its module row by row from  *)
(* other columns, or traces a function: the trace file holds one row per   *)
(* instance <<argument, result>>, which the assignment replaces by one row *)
(* per executed step, the result standing in the last of them.             *)
(***************************************************************************)
EXTENDS Integers, Sequences, FiniteSetsExt, SequencesExt

CONSTANTS
    Modules, Registers, ModuleOf,
    Multiplier,     \* per module: every height is a multiple of it
    Assignments,
    FunctionAssignments,  \* those that trace a function
    Callee,         \* per function assignment: the one it calls, or None
    None,
    Reads, Writes,  \* per assignment: sequences of registers
    Expands,        \* per assignment: the registers it reads and lengthens
    Value(_, _),    \* what an assignment computes from the source values of a row
    Steps(_, _),    \* rows the function executes for an argument
    NoData

ASSUME SignatureAssumption ==
    /\ ModuleOf \in [Registers -> Modules]
    /\ Multiplier \in [Modules -> Nat \ {0}]
    /\ FunctionAssignments \subseteq Assignments
    /\ Reads \in [Assignments -> Seq(Registers)]
    /\ Writes \in [Assignments -> Seq(Registers)]
    /\ Expands \in [Assignments -> SUBSET Registers]

(* Every register has at most one assignment that writes it.               *)
ASSUME OneWriterAssumption ==
    \A a, b \in Assignments : Range(Writes[a]) \cap Range(Writes[b]) # {} => a = b

RegistersRead(a) == Range(Reads[a])
RegistersWritten(a) == Range(Writes[a])
RegistersExpanded(a) == Expands[a]

-----------------------------------------------------------------------------
(* Filling columns.                                                        *)

(* FillColumn, over the columns of one result: the registers written get   *)
(* the data, whatever they held.                                           *)
FillColumns(t, a, cols) ==
    [r \in Registers |-> IF r \in RegistersWritten(a)
                         THEN cols[CHOOSE i \in DOMAIN Writes[a] : Writes[a][i] = r]
                         ELSE t.data[r]]

(* The modules for which some FillColumn reports a new height: the first   *)
(* column of another length than its module unsets the module's height.    *)
Resized(t, a, cols) ==
    {ModuleOf[Writes[a][i]] :
        i \in {j \in DOMAIN Writes[a] : Len(cols[j]) # t.height[ModuleOf[Writes[a][j]]]}}

Filled(data, m) == {r \in Registers : ModuleOf[r] = m /\ data[r] # NoData}

(* Whether Resize goes through, or panics.                                 *)
CanResize(data, m) ==
    /\ \A r, s \in Filled(data, m) : Len(data[r]) = Len(data[s])
    /\ \A r \in Filled(data, m) : Len(data[r]) % Multiplier[m] = 0

(* The common height of the columns that have data.                        *)
Resize(data, m) == Len(data[CHOOSE r \in Filled(data, m) : TRUE])

(* fillComputedColumns: the columns of one result, then the resizing of    *)
(* the modules that asked for it.  ok is FALSE when a Resize panics.       *)
FillComputedColumns(t, a, cols) ==
    LET data == FillColumns(t, a, cols)
        resized == Resized(t, a, cols)
    IN  [t |-> [data |-> data,
                height |-> [m \in Modules |-> IF m \in resized THEN Resize(data, m)
                                                               ELSE t.height[m]]],
         ok |-> \A m \in resized : CanResize(data, m)]

-----------------------------------------------------------------------------
(* Computing columns.                                                      *)

(* ComputedRegister and PseudoInverse: one value per row of the target's   *)
(* module, from the source values on that row.  A column read past its end *)
(* gives its padding.                                                      *)
Padding == 0

SourceValues(t, a, i) ==
    [k \in DOMAIN Reads[a] |->
        IF i \in DOMAIN t.data[Reads[a][k]] THEN t.data[Reads[a][k]][i] ELSE Padding]

ComputeRegister(t, a) ==
    <<[i \in 1..t.height[ModuleOf[Writes[a][1]]] |-> Value(a, SourceValues(t, a, i))]>>

(* Evaluating a row dereferences every source.                             *)
RegisterPanics(t, a) ==
    /\ t.height[ModuleOf[Writes[a][1]]] > 0
    /\ \E r \in RegistersRead(a) : t.data[r] = NoData

ArgumentOf(a) == Writes[a][1]
ResultOf(a) == Writes[a][2]

(* Faulty FindLast: the first row of the instance, not the last.           *)
FindFirst(t, f, arg) ==
    LET hits == {i \in DOMAIN t.data[ArgumentOf(f)] : t.data[ArgumentOf(f)][i] = arg}
    IN  IF hits = {} THEN 0 ELSE Min(hits)

(* The last of the rows, sorted by argument, that hold arg; 0 for none.    *)
FindLast(t, f, arg) ==
    LET key == t.data[ArgumentOf(f)]
        reached == {i \in 1..t.height[ModuleOf[ArgumentOf(f)]] : key[i] >= arg}
        run == {j \in reached : \A i \in reached : i <= j => key[i] = arg}
    IN  IF run = {} THEN 0 ELSE Max(run)

(* What FindLast reports for an instance that is not in the trace.         *)
Missing == -1

(* What running the function on arg returns: it reads the result of the    *)
(* callee's instance out of the trace.                                     *)
Run(t, a, arg) ==
    IF Callee[a] = None THEN arg + 1
    ELSE LET row == FindLast(t, Callee[a], arg)
         IN  IF row = 0 THEN Missing ELSE 2 * t.data[ResultOf(Callee[a])][row]

(* A column of the steps of every instance, in order: what it holds in the *)
(* row that returns, and in those before.                                  *)
StepColumn(a, args, returning, before) ==
    FlattenSeq([i \in DOMAIN args |->
        [j \in 1..Steps(a, args[i]) |->
            IF j = Steps(a, args[i]) THEN returning[i] ELSE before[i]]])

(* Assignment.Compute: the result stands in the row that returns, not      *)
(* before, and the last column marks that row.                             *)
ComputeFunction(t, a) ==
    LET rows == 1..t.height[ModuleOf[ArgumentOf(a)]]
        args == [i \in rows |-> t.data[ArgumentOf(a)][i]]
        results == [i \in rows |-> Run(t, a, args[i])]
        all(x) == [i \in rows |-> x]
    IN  <<StepColumn(a, args, args, args),
          StepColumn(a, args, results, all(0)),
          StepColumn(a, args, all(1), all(0))>>

(* A callee instance that is missing, or a result other than the recorded. *)
FunctionPanics(t, a) ==
    \E i \in 1..t.height[ModuleOf[ArgumentOf(a)]] :
        Run(t, a, t.data[ArgumentOf(a)][i]) # t.data[ResultOf(a)][i]

Compute(t, a) ==
    IF a \in FunctionAssignments THEN ComputeFunction(t, a) ELSE ComputeRegister(t, a)

Panics(t, a) ==
    IF a \in FunctionAssignments THEN FunctionPanics(t, a) ELSE RegisterPanics(t, a)
=============================================================================
