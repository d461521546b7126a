--------------------------- MODULE SerialExpansion ---------------------------
(***************************************************************************)
(* What trace expansion promises: the assignments take effect one at a     *)
(* time, each once, each on a trace in which all it reads is final, and    *)
(* the first one met that fails ends the expansion with its error.         *)
(***************************************************************************)
EXTENDS ArrayTrace

VARIABLES tr, done, faulty, outcome

vars == <<tr, done, faulty, outcome>>

Final(r) == \A b \in Assignments \ done : r \notin RegistersWritten(b)

Ready(a) ==
    /\ outcome = "running"
    /\ a \in Assignments \ done
    /\ \A r \in RegistersRead(a) \ RegistersExpanded(a) : Final(r)

Apply(a) ==
    /\ Ready(a)
    /\ a \notin faulty
    /\ done' = done \cup {a}
    /\ ~Panics(tr, a)
    /\ LET filled == FillComputedColumns(tr, a, Compute(tr, a))
       IN  filled.ok /\ tr' = filled.t
    /\ UNCHANGED <<faulty, outcome>>

Fail(a) ==
    /\ Ready(a)
    /\ a \in faulty
    /\ outcome' = "failed"
    /\ UNCHANGED <<tr, done, faulty>>

Finish ==
    /\ outcome = "running"
    /\ done = Assignments
    /\ outcome' = "done"
    /\ UNCHANGED <<tr, done, faulty>>

Next == Finish \/ \E a \in Assignments : Apply(a) \/ Fail(a)

Init ==
    /\ done = {}
    /\ outcome = "running"

Spec == Init /\ [][Next]_vars
=============================================================================
