--------------------------- MODULE ConstraintCheck ---------------------------
(***************************************************************************)
(* Checking all constraints of a schema against a trace, one after the     *)
(* other or in batches of goroutines that report over a channel.           *)
(***************************************************************************)
EXTENDS Integers, Sequences, FiniteSets, FiniteSetTheorems, TLAPS

CONSTANTS N,           \* the number of constraints
          BatchSize,   \* the size of a batch
          Verdicts     \* what checking a constraint may do: "holds", "fails", "panics"

ASSUME CheckAssumption ==
    N \in Nat /\ BatchSize \in Nat /\ Verdicts \subseteq {"holds", "fails", "panics"}

VARIABLES verdict,     \* what checking each constraint does
          parallel,    \* whether constraints are checked in parallel
          pc,          \* where the checking loop is
          next,        \* the constraint the iterator gives next
          launched,    \* goroutines launched in this batch
          received,    \* outcomes received in this batch
          running,     \* constraints being checked by a goroutine
          recovering,  \* constraints whose goroutine handles a panic
          channel,     \* outcomes under way: [of, fail]
          errors       \* failures reported so far

vars == <<verdict, parallel, pc, next, launched, received, running, recovering, channel, errors>>

Constraints == 1..N

Init ==
    /\ verdict \in [Constraints -> Verdicts]
    /\ parallel \in BOOLEAN
    /\ pc = IF parallel THEN "batch" ELSE "sequential"
    /\ next = 1 /\ launched = 0 /\ received = 0
    /\ running = {} /\ recovering = {} /\ channel = <<>> /\ errors = <<>>

HasNext == next <= N

(* One constraint after the other; a panic ends the program.               *)
CheckNext ==
    /\ pc = "sequential" /\ HasNext
    /\ next' = next + 1
    /\ pc' = IF verdict[next] = "panics" THEN "crashed" ELSE pc
    /\ errors' = IF verdict[next] = "fails" THEN Append(errors, next) ELSE errors
    /\ UNCHANGED <<verdict, parallel, launched, received, running, recovering, channel>>

(* A new batch has a channel of its own.                                   *)
StartBatch ==
    /\ pc = "batch" /\ HasNext
    /\ pc' = "launch" /\ launched' = 0 /\ received' = 0 /\ channel' = <<>>
    /\ UNCHANGED <<verdict, parallel, next, running, recovering, errors>>

Launch ==
    /\ pc = "launch" /\ launched < BatchSize /\ HasNext
    /\ running' = running \union {next}
    /\ next' = next + 1 /\ launched' = launched + 1
    /\ UNCHANGED <<verdict, parallel, pc, received, recovering, channel, errors>>

EndLaunch ==
    /\ pc = "launch" /\ (launched = BatchSize \/ ~HasNext)
    /\ pc' = "drain"
    /\ UNCHANGED <<verdict, parallel, next, launched, received, running, recovering, channel, errors>>

(* Sending blocks while the channel is full.                               *)
Send(c, fail) ==
    /\ Len(channel) < BatchSize
    /\ channel' = Append(channel, [of |-> c, fail |-> fail])

(* A goroutine checks its constraint and sends the outcome back.           *)
Report(c) ==
    /\ c \in running /\ verdict[c] # "panics"
    /\ Send(c, verdict[c] = "fails")
    /\ running' = running \ {c}
    /\ UNCHANGED <<verdict, parallel, pc, next, launched, received, recovering, errors>>

(* The check panics: nothing is sent, and the deferred function runs.      *)
PanicIn(c) ==
    /\ c \in running /\ verdict[c] = "panics"
    /\ running' = running \ {c} /\ recovering' = recovering \union {c}
    /\ UNCHANGED <<verdict, parallel, pc, next, launched, received, channel, errors>>

(* The panic is reported as a failure of the constraint.                   *)
Recover(c) ==
    /\ c \in recovering
    /\ Send(c, TRUE)
    /\ recovering' = recovering \ {c}
    /\ UNCHANGED <<verdict, parallel, pc, next, launched, received, running, errors>>

(* A faulty loop that stops at the first failure of a batch.               *)
ReceiveUpToFailure ==
    /\ pc = "drain" /\ received < launched /\ channel # <<>>
    /\ received' = IF Head(channel).fail THEN launched ELSE received + 1
    /\ channel' = Tail(channel)
    /\ errors' = IF Head(channel).fail THEN Append(errors, Head(channel).of) ELSE errors
    /\ UNCHANGED <<verdict, parallel, pc, next, launched, running, recovering>>

Receive ==
    /\ pc = "drain" /\ received < launched /\ channel # <<>>
    /\ received' = received + 1
    /\ channel' = Tail(channel)
    /\ errors' = IF Head(channel).fail THEN Append(errors, Head(channel).of) ELSE errors
    /\ UNCHANGED <<verdict, parallel, pc, next, launched, running, recovering>>

EndBatch ==
    /\ pc = "drain" /\ received = launched
    /\ pc' = "batch"
    /\ UNCHANGED <<verdict, parallel, next, launched, received, running, recovering, channel, errors>>

Finish ==
    /\ pc \in {"sequential", "batch"} /\ ~HasNext
    /\ pc' = "done"
    /\ UNCHANGED <<verdict, parallel, next, launched, received, running, recovering, channel, errors>>

Goroutine(c) == Report(c) \/ PanicIn(c) \/ Recover(c)

Checker == CheckNext \/ StartBatch \/ Launch \/ EndLaunch \/ Receive \/ EndBatch \/ Finish

Next == Checker \/ \E c \in Constraints : Goroutine(c)

Fairness == WF_vars(Checker) /\ \A c \in Constraints : WF_vars(Goroutine(c))

Spec == Init /\ [][Next]_vars /\ Fairness
-----------------------------------------------------------------------------
TypeOK ==
    /\ verdict \in [Constraints -> Verdicts] /\ parallel \in BOOLEAN
    /\ pc \in {"sequential", "batch", "launch", "drain", "done", "crashed"}
    /\ next \in 1..(N + 1) /\ launched \in 0..BatchSize /\ received \in 0..launched
    /\ running \subseteq Constraints /\ recovering \subseteq Constraints
    /\ channel \in Seq([of : Constraints, fail : BOOLEAN]) /\ errors \in Seq(Constraints)

Bad == {c \in Constraints : verdict[c] # "holds"}

(* Once checking ends, every constraint that failed, or panicked, has been *)
(* reported exactly once and no other has, in parallel as one by one.      *)
ReportsExact ==
    pc = "done" => {errors[i] : i \in DOMAIN errors} = Bad /\ Len(errors) = Cardinality(Bad)

(* Outcomes of a batch are received before the next begins: between        *)
(* batches no goroutine is left that could send to a channel nobody reads. *)
NothingLeftBehind ==
    pc \in {"batch", "done"} => running = {} /\ recovering = {} /\ channel = <<>>

(* What was launched is running, recovering, under way or received, so the *)
(* checking loop never waits for an outcome that does not come, and no     *)
(* goroutine is blocked by a full channel.                                 *)
Accounted ==
    pc \in {"launch", "drain"} =>
        /\ launched = received + Len(channel) + Cardinality(running) + Cardinality(recovering)
        /\ Len(channel) + Cardinality(running) + Cardinality(recovering) <= BatchSize

(* Every constraint that fails, or panics in its goroutine, is reported    *)
(* exactly once, and no goroutine is left behind or awaited in vain.       *)
VerdictExact == ReportsExact /\ NothingLeftBehind /\ Accounted
-----------------------------------------------------------------------------
(* The verdict is exact for every number of constraints and batch size.    *)

Outcomes == [of : Constraints, fail : BOOLEAN]

(* The constraints in a sequence of outcomes, and that none is there twice.*)
Of(s) == {s[i].of : i \in 1..Len(s)}
Once(s) == \A i, j \in 1..Len(s) : s[i].of = s[j].of => i = j

Reported == {errors[i] : i \in 1..Len(errors)}

CheckType ==
    /\ verdict \in [Constraints -> Verdicts]
    /\ pc \in {"sequential", "batch", "launch", "drain", "done", "crashed"}
    /\ next \in 1..(N + 1) /\ launched \in 0..BatchSize /\ received \in 0..launched
    /\ running \subseteq 1..(next - 1) /\ recovering \subseteq 1..(next - 1)
    /\ channel \in Seq(Outcomes) /\ errors \in Seq(Constraints)

(* A constraint is in one place only: running, recovering, under way or    *)
(* reported; an outcome says what the check of its constraint did.         *)
PlaceInv ==
    /\ Of(channel) \subseteq 1..(next - 1) /\ Once(channel)
    /\ running \cap recovering = {}
    /\ Of(channel) \cap (running \cup recovering) = {}
    /\ Reported \cap (running \cup recovering \cup Of(channel)) = {}
    /\ \A c \in recovering : verdict[c] # "holds"
    /\ \A i \in 1..Len(channel) : channel[i].fail <=> verdict[channel[i].of] # "holds"

(* What is reported is bad, once; what is bad and was given to a check is  *)
(* reported or will be.                                                    *)
ReportInv ==
    /\ Reported \subseteq Bad \cap 1..(next - 1)
    /\ \A i, j \in 1..Len(errors) : errors[i] = errors[j] => i = j
    /\ pc # "crashed" =>
          Bad \cap 1..(next - 1) \subseteq Reported \cup running \cup recovering \cup Of(channel)
    /\ pc = "done" => next = N + 1

(* No goroutine outlives its batch, and all of a batch are accounted for.  *)
BatchInv ==
    /\ pc \notin {"launch", "drain"} => running = {} /\ recovering = {} /\ channel = <<>>
    /\ Accounted

CheckInv == CheckType /\ PlaceInv /\ ReportInv /\ BatchInv

(* Sending an outcome adds its constraint to the ones under way.           *)
LEMMA SendAdds ==
    ASSUME NEW s \in Seq(Outcomes), NEW o \in Outcomes, o.of \notin Of(s), Once(s)
    PROVE  /\ Append(s, o) \in Seq(Outcomes) /\ Len(Append(s, o)) = Len(s) + 1
           /\ Of(Append(s, o)) = Of(s) \cup {o.of} /\ Once(Append(s, o))
           /\ \A i \in 1..Len(Append(s, o)) :
                 Append(s, o)[i] = o \/ (i \in 1..Len(s) /\ Append(s, o)[i] = s[i])
<1>1. /\ Append(s, o) \in Seq(Outcomes) /\ Len(Append(s, o)) = Len(s) + 1
      /\ Append(s, o)[Len(s) + 1] = o /\ \A i \in 1..Len(s) : Append(s, o)[i] = s[i]
      /\ Len(s) \in Nat
  OBVIOUS
<1> DEFINE t == Append(s, o)
<1> HIDE DEF t
<1>2. /\ Len(t) = Len(s) + 1 /\ t[Len(s) + 1] = o /\ \A i \in 1..Len(s) : t[i] = s[i]
  BY <1>1 DEF t
<1>3. \A i \in 1..Len(t) : i = Len(s) + 1 \/ i \in 1..Len(s)
  BY <1>1, <1>2
<1>4. Of(t) = Of(s) \cup {o.of}
  BY <1>1, <1>2, <1>3 DEF Of
<1>5. Once(t)
  BY <1>1, <1>2, <1>3 DEF Of, Once
<1> QED  BY <1>1, <1>2, <1>3, <1>4, <1>5 DEF t

(* Receiving an outcome takes its constraint away.                         *)
LEMMA ReceiveTakes ==
    ASSUME NEW s \in Seq(Outcomes), s # <<>>, Once(s)
    PROVE  /\ Head(s) = s[1] /\ 1 \in 1..Len(s) /\ Head(s) \in Outcomes
           /\ Tail(s) \in Seq(Outcomes) /\ Len(Tail(s)) = Len(s) - 1
           /\ Of(s) = Of(Tail(s)) \cup {Head(s).of} /\ Head(s).of \notin Of(Tail(s))
           /\ Once(Tail(s))
           /\ \A i \in 1..Len(Tail(s)) : i + 1 \in 1..Len(s) /\ Tail(s)[i] = s[i + 1]
<1>1. /\ Head(s) = s[1] /\ 1 \in 1..Len(s) /\ Head(s) \in Outcomes
      /\ Tail(s) \in Seq(Outcomes) /\ Len(Tail(s)) = Len(s) - 1 /\ Len(s) \in Nat
      /\ \A i \in 1..Len(Tail(s)) : i + 1 \in 1..Len(s) /\ Tail(s)[i] = s[i + 1]
  OBVIOUS
<1> DEFINE t == Tail(s)
<1> HIDE DEF t
<1>2. Len(t) = Len(s) - 1 /\ \A i \in 1..Len(t) : i + 1 \in 1..Len(s) /\ t[i] = s[i + 1]
  BY <1>1 DEF t
<1>3. \A j \in 1..Len(s) : j = 1 \/ (j - 1 \in 1..Len(t) /\ t[j - 1] = s[j])
  <2> TAKE j \in 1..Len(s)
  <2>1. j = 1 \/ j - 1 \in 1..Len(t)
    BY <1>1, <1>2
  <2>2. j - 1 \in 1..Len(t) => t[j - 1] = s[(j - 1) + 1]
    BY <1>2
  <2>3. (j - 1) + 1 = j
    BY <1>1
  <2> QED  BY <2>1, <2>2, <2>3
<1>4. Of(s) = Of(t) \cup {s[1].of}
  BY <1>1, <1>2, <1>3 DEF Of
<1>5. s[1].of \notin Of(t)
  BY <1>1, <1>2 DEF Of, Once
<1>6. Once(t)
  BY <1>1, <1>2 DEF Once
<1> QED  BY <1>1, <1>2, <1>4, <1>5, <1>6 DEF t

(* Reporting a constraint adds it to the reported ones, once.              *)
LEMMA ReportAdds ==
    ASSUME NEW s \in Seq(Constraints), NEW c \in Constraints,
           c \notin {s[i] : i \in 1..Len(s)},
           \A i, j \in 1..Len(s) : s[i] = s[j] => i = j
    PROVE  /\ Append(s, c) \in Seq(Constraints)
           /\ {Append(s, c)[i] : i \in 1..Len(Append(s, c))} = {s[i] : i \in 1..Len(s)} \cup {c}
           /\ \A i, j \in 1..Len(Append(s, c)) : Append(s, c)[i] = Append(s, c)[j] => i = j
<1>1. /\ Append(s, c) \in Seq(Constraints) /\ Len(Append(s, c)) = Len(s) + 1
      /\ Append(s, c)[Len(s) + 1] = c /\ \A i \in 1..Len(s) : Append(s, c)[i] = s[i]
      /\ Len(s) \in Nat
  OBVIOUS
<1> DEFINE t == Append(s, c)
<1> HIDE DEF t
<1>2. /\ Len(t) = Len(s) + 1 /\ t[Len(s) + 1] = c /\ \A i \in 1..Len(s) : t[i] = s[i]
  BY <1>1 DEF t
<1>3. \A i \in 1..Len(t) : i = Len(s) + 1 \/ i \in 1..Len(s)
  BY <1>1, <1>2
<1>4. {t[i] : i \in 1..Len(t)} = {s[i] : i \in 1..Len(s)} \cup {c}
  BY <1>1, <1>2, <1>3
<1>5. \A i, j \in 1..Len(t) : t[i] = t[j] => i = j
  BY <1>1, <1>2, <1>3
<1> QED  BY <1>1, <1>4, <1>5 DEF t

(* Sets of constraints are finite, and gain and lose one element at a time.*)
LEMMA Counts ==
    ASSUME NEW n \in Nat, NEW S \in SUBSET (1..n)
    PROVE  /\ Cardinality(S) \in Nat /\ (Cardinality(S) = 0 <=> S = {})
           /\ \A c : c \notin S => Cardinality(S \cup {c}) = Cardinality(S) + 1
           /\ \A c \in S : Cardinality(S \ {c}) = Cardinality(S) - 1
<1>1. IsFiniteSet(S)
  <2>1. IsFiniteSet(1..n)
    BY FS_Interval
  <2> QED  BY <2>1, FS_Subset
<1>2. Cardinality(S) \in Nat
  BY <1>1, FS_CardinalityType
<1>3. Cardinality(S) = 0 <=> S = {}
  BY <1>1, FS_EmptySet
<1>4. \A c : c \notin S => Cardinality(S \cup {c}) = Cardinality(S) + 1
  BY <1>1, FS_AddElement
<1>5. \A c \in S : Cardinality(S \ {c}) = Cardinality(S) - 1
  BY <1>1, FS_RemoveElement
<1> QED  BY <1>2, <1>3, <1>4, <1>5

(* Before anything is checked nothing is under way or reported.            *)
LEMMA CheckInit == Init => CheckInv
<1> SUFFICES ASSUME Init PROVE CheckInv
  OBVIOUS
<1> USE CheckAssumption DEF Init
<1>1. Len(channel) = 0 /\ Len(errors) = 0 /\ channel \in Seq(Outcomes) /\ errors \in Seq(Constraints)
  OBVIOUS
<1>2. pc \in {"batch", "sequential"}
  OBVIOUS
<1>3. Of(channel) = {} /\ Reported = {}
  BY <1>1 DEF Of, Reported
<1>4. CheckType
  BY <1>1, <1>2 DEF CheckType
<1>5. PlaceInv
  BY <1>1, <1>3 DEF PlaceInv, Once
<1>6. ReportInv
  <2>1. 1..(next - 1) = {}
    OBVIOUS
  <2> QED  BY <1>1, <1>2, <1>3, <2>1 DEF ReportInv
<1>7. BatchInv
  BY <1>1, <1>2 DEF BatchInv, Accounted
<1> QED  BY <1>4, <1>5, <1>6, <1>7 DEF CheckInv

(* One constraint after the other: nothing is under way, and the next one  *)
(* is reported if it fails.                                                *)
LEMMA CheckNextKeeps == CheckInv /\ CheckNext => CheckInv'
<1> SUFFICES ASSUME CheckInv, CheckNext PROVE CheckInv'
  OBVIOUS
<1> USE CheckAssumption
<1>1. /\ next \in Constraints /\ next' = next + 1 /\ next' \in 1..(N + 1) /\ next \in Nat
      /\ 1..(next' - 1) = 1..(next - 1) \cup {next} /\ next \notin 1..(next - 1)
  BY DEF CheckInv, CheckType, CheckNext, HasNext, Constraints
<1>2. /\ running = {} /\ recovering = {} /\ channel = <<>> /\ pc = "sequential"
      /\ UNCHANGED <<verdict, launched, received, running, recovering, channel>>
      /\ pc' \in {"sequential", "crashed"}
  BY DEF CheckInv, BatchInv, CheckNext
<1>3. Of(channel) = {} /\ Of(channel') = {} /\ Len(channel) = 0 /\ Len(channel') = 0
  BY <1>2 DEF Of
<1>4. /\ errors \in Seq(Constraints) /\ next \notin Reported /\ Reported \subseteq Bad \cap 1..(next - 1)
      /\ \A i, j \in 1..Len(errors) : errors[i] = errors[j] => i = j
      /\ Bad \cap 1..(next - 1) \subseteq Reported
  BY <1>1, <1>2, <1>3 DEF CheckInv, CheckType, ReportInv
<1>5. Bad' = Bad /\ (next \in Bad <=> verdict[next] # "holds") /\ verdict[next] \in Verdicts
  BY <1>1, <1>2 DEF Bad, CheckInv, CheckType
<1>6. /\ errors' \in Seq(Constraints)
      /\ \A i, j \in 1..Len(errors') : errors'[i] = errors'[j] => i = j
      /\ Reported' = IF verdict[next] = "fails" THEN Reported \cup {next} ELSE Reported
  <2>1. CASE verdict[next] = "fails"
    BY <1>1, <1>4, <2>1, ReportAdds DEF CheckNext, Reported
  <2>2. CASE verdict[next] # "fails"
    BY <1>4, <2>2 DEF CheckNext, Reported
  <2> QED  BY <2>1, <2>2
<1>7. CheckType'
  BY <1>1, <1>2, <1>6 DEF CheckInv, CheckType
<1>8. PlaceInv'
  BY <1>2, <1>3 DEF PlaceInv, Once
<1>9. ReportInv'
  <2>1. Reported' \subseteq Bad' \cap 1..(next' - 1)
    BY <1>1, <1>4, <1>5, <1>6
  <2>2. pc' # "crashed" => verdict[next] # "panics"
    BY DEF CheckNext
  <2>3. pc' # "crashed" => Bad' \cap 1..(next' - 1) \subseteq Reported'
    BY <1>1, <1>4, <1>5, <1>6, <2>2
  <2> QED  BY <1>2, <1>6, <2>1, <2>3 DEF ReportInv
<1>10. BatchInv'
  BY <1>2 DEF BatchInv, Accounted
<1> QED  BY <1>7, <1>8, <1>9, <1>10 DEF CheckInv

(* A step of the loop that moves no constraint.                            *)
LEMMA LoopKeeps ==
    CheckInv /\ (StartBatch \/ EndLaunch \/ EndBatch \/ Finish \/ UNCHANGED vars) => CheckInv'
<1> SUFFICES ASSUME CheckInv, StartBatch \/ EndLaunch \/ EndBatch \/ Finish \/ UNCHANGED vars
             PROVE  CheckInv'
  OBVIOUS
<1> USE CheckAssumption
<1>1. /\ UNCHANGED <<verdict, next, running, recovering, channel, errors>>
      /\ pc' \in {"sequential", "batch", "launch", "drain", "done", "crashed"}
      /\ (pc' = "crashed" <=> pc = "crashed")
      /\ pc' = "done" => pc = "done" \/ ~HasNext
  BY DEF StartBatch, EndLaunch, EndBatch, Finish, vars, CheckInv, CheckType, BatchInv
<1>2. launched' \in 0..BatchSize /\ received' \in 0..launched'
  BY DEF StartBatch, EndLaunch, EndBatch, Finish, vars, CheckInv, CheckType
<1>3. Of(channel)' = Of(channel) /\ Once(channel)' = Once(channel) /\ Reported' = Reported /\ Bad' = Bad
  BY <1>1 DEF Of, Once, Reported, Bad
<1>4. CheckType'
  BY <1>1, <1>2 DEF CheckInv, CheckType
<1>5. PlaceInv'
  BY <1>1, <1>3 DEF CheckInv, PlaceInv
<1>6. ~HasNext => next = N + 1
  BY DEF HasNext, CheckInv, CheckType
<1>7. ReportInv'
  BY <1>1, <1>3, <1>6 DEF CheckInv, ReportInv
<1>8. BatchInv'
  <2>1. CASE StartBatch
    <3>1. running = {} /\ recovering = {} /\ channel = <<>>
      BY <2>1 DEF CheckInv, BatchInv, StartBatch
    <3>2. Cardinality(running) = 0 /\ Cardinality(recovering) = 0 /\ Len(channel) = 0
      BY <3>1, FS_EmptySet
    <3> QED  BY <1>1, <2>1, <3>2 DEF BatchInv, StartBatch, Accounted
  <2>2. CASE EndLaunch \/ Finish \/ UNCHANGED vars
    BY <1>1, <2>2 DEF CheckInv, BatchInv, EndLaunch, Finish, vars, Accounted
  <2>3. CASE EndBatch
    <3>1. /\ Cardinality(running) \in Nat /\ (Cardinality(running) = 0 <=> running = {})
          /\ Cardinality(recovering) \in Nat /\ (Cardinality(recovering) = 0 <=> recovering = {})
      <4>1. next - 1 \in Nat
        BY DEF CheckInv, CheckType
      <4> QED  BY <4>1, Counts DEF CheckInv, CheckType
    <3>2. received = received + Len(channel) + Cardinality(running) + Cardinality(recovering)
      BY <2>3 DEF CheckInv, BatchInv, Accounted, EndBatch
    <3>3. Len(channel) \in Nat /\ received \in Nat /\ (Len(channel) = 0 => channel = <<>>)
      BY DEF CheckInv, CheckType
    <3>4. Len(channel) = 0 /\ Cardinality(running) = 0 /\ Cardinality(recovering) = 0
      BY <3>1, <3>2, <3>3
    <3> QED  BY <1>1, <2>3, <3>1, <3>3, <3>4 DEF BatchInv, EndBatch, Accounted
  <2> QED  BY <2>1, <2>2, <2>3
<1> QED  BY <1>4, <1>5, <1>7, <1>8 DEF CheckInv

(* Launching gives the next constraint to a goroutine.                     *)
LEMMA LaunchKeeps == CheckInv /\ Launch => CheckInv'
<1> SUFFICES ASSUME CheckInv, Launch PROVE CheckInv'
  OBVIOUS
<1> USE CheckAssumption
<1>1. /\ next \in Constraints /\ next' = next + 1 /\ next' \in 1..(N + 1) /\ next - 1 \in Nat
      /\ 1..(next' - 1) = 1..(next - 1) \cup {next} /\ next \notin 1..(next - 1)
  BY DEF CheckInv, CheckType, Launch, HasNext, Constraints
<1>2. /\ UNCHANGED <<verdict, pc, received, recovering, channel, errors>> /\ pc = "launch"
      /\ running' = running \cup {next} /\ launched' = launched + 1 /\ launched < BatchSize
  BY DEF Launch
<1>3. Of(channel)' = Of(channel) /\ Once(channel)' = Once(channel) /\ Reported' = Reported /\ Bad' = Bad
  BY <1>2 DEF Of, Once, Reported, Bad
<1>4. /\ Reported \subseteq 1..(next - 1) /\ Of(channel) \subseteq 1..(next - 1)
      /\ running \subseteq 1..(next - 1) /\ recovering \subseteq 1..(next - 1)
  BY DEF CheckInv, CheckType, PlaceInv, ReportInv
<1>5. CheckType'
  <2>1. launched' \in 0..BatchSize /\ received' \in 0..launched'
    BY <1>2 DEF CheckInv, CheckType
  <2>2. running' \subseteq 1..(next' - 1) /\ recovering' \subseteq 1..(next' - 1)
    BY <1>1, <1>2, <1>4
  <2> QED  BY <1>1, <1>2, <2>1, <2>2 DEF CheckInv, CheckType
<1>6. PlaceInv'
  BY <1>1, <1>2, <1>3, <1>4 DEF CheckInv, PlaceInv
<1>7. ReportInv'
  BY <1>1, <1>2, <1>3, <1>4 DEF CheckInv, ReportInv
<1>8. BatchInv'
  <2>1. Cardinality(running') = Cardinality(running) + 1 /\ Cardinality(running) \in Nat
    BY <1>1, <1>2, <1>4, Counts
  <2>2. Cardinality(recovering) \in Nat
    BY <1>1, <1>4, Counts
  <2>3. Len(channel) \in Nat /\ received \in Nat /\ launched \in Nat
    BY DEF CheckInv, CheckType
  <2>4. launched = received + Len(channel) + Cardinality(running) + Cardinality(recovering)
    BY <1>2 DEF CheckInv, BatchInv, Accounted
  <2> QED  BY <1>2, <2>1, <2>2, <2>3, <2>4 DEF BatchInv, Accounted
<1> QED  BY <1>5, <1>6, <1>7, <1>8 DEF CheckInv

(* A panic moves a constraint from the running to the recovering ones.     *)
LEMMA PanicKeeps == ASSUME NEW c \in Constraints PROVE CheckInv /\ PanicIn(c) => CheckInv'
<1> SUFFICES ASSUME CheckInv, PanicIn(c) PROVE CheckInv'
  OBVIOUS
<1> USE CheckAssumption
<1>1. /\ UNCHANGED <<verdict, pc, next, launched, received, channel, errors>>
      /\ c \in running /\ running' = running \ {c} /\ recovering' = recovering \cup {c}
      /\ verdict[c] # "holds"
  BY DEF PanicIn
<1>2. Of(channel)' = Of(channel) /\ Once(channel)' = Once(channel) /\ Reported' = Reported /\ Bad' = Bad
  BY <1>1 DEF Of, Once, Reported, Bad
<1>3. CheckType'
  BY <1>1 DEF CheckInv, CheckType
<1>4. PlaceInv'
  BY <1>1, <1>2 DEF CheckInv, PlaceInv
<1>5. ReportInv'
  BY <1>1, <1>2 DEF CheckInv, ReportInv
<1>6. BatchInv'
  <2>1. /\ Cardinality(running') = Cardinality(running) - 1
        /\ Cardinality(recovering') = Cardinality(recovering) + 1
        /\ Cardinality(running) \in Nat /\ Cardinality(recovering) \in Nat
    <3>1. next - 1 \in Nat /\ c \notin recovering
      BY <1>1 DEF CheckInv, CheckType, PlaceInv
    <3> QED  BY <1>1, <3>1, Counts DEF CheckInv, CheckType
  <2>2. Len(channel) \in Nat /\ received \in Nat /\ pc \in {"launch", "drain"}
    BY <1>1 DEF CheckInv, CheckType, BatchInv
  <2>3. /\ launched = received + Len(channel) + Cardinality(running) + Cardinality(recovering)
        /\ Len(channel) + Cardinality(running) + Cardinality(recovering) <= BatchSize
    BY <2>2 DEF CheckInv, BatchInv, Accounted
  <2> QED  BY <1>1, <2>1, <2>2, <2>3 DEF BatchInv, Accounted
<1> QED  BY <1>3, <1>4, <1>5, <1>6 DEF CheckInv

(* A goroutine that ends has its constraint under way instead of running   *)
(* or recovering.                                                          *)
LEMMA SendKeeps ==
    ASSUME NEW c \in Constraints
    PROVE  CheckInv /\ (Report(c) \/ Recover(c)) => CheckInv'
<1> SUFFICES ASSUME CheckInv, Report(c) \/ Recover(c) PROVE CheckInv'
  OBVIOUS
<1> USE CheckAssumption
<1> DEFINE o == [of |-> c, fail |-> verdict[c] # "holds"]
<1>1. /\ UNCHANGED <<verdict, pc, next, launched, received, errors>>
      /\ c \in running \cup recovering
      /\ running' = running \ {c} /\ recovering' = recovering \ {c}
  BY DEF Report, Recover, CheckInv, PlaceInv
<1>2. channel' = Append(channel, o)
  <2>1. CASE Report(c)
    <3>1. (verdict[c] = "fails") = (verdict[c] # "holds")
      BY <2>1 DEF Report, CheckInv, CheckType
    <3> QED  BY <2>1, <3>1 DEF Report, Send
  <2>2. CASE Recover(c)
    <3>1. TRUE = (verdict[c] # "holds")
      BY <2>2 DEF Recover, CheckInv, PlaceInv
    <3> QED  BY <2>2, <3>1 DEF Recover, Send
  <2> QED  BY <2>1, <2>2
<1>3. o \in Outcomes /\ o.of = c /\ (o.fail <=> verdict[c] # "holds")
  BY DEF Outcomes
<1> HIDE DEF o
<1>4. c \notin Of(channel) /\ c \in 1..(next - 1) /\ c \notin Reported
  BY <1>1 DEF CheckInv, CheckType, PlaceInv
<1>5. /\ channel' \in Seq(Outcomes) /\ Len(channel') = Len(channel) + 1
      /\ Of(channel)' = Of(channel) \cup {c} /\ Once(channel)'
      /\ \A i \in 1..Len(channel') :
            channel'[i] = o \/ (i \in 1..Len(channel) /\ channel'[i] = channel[i])
  <2>1. /\ Append(channel, o) \in Seq(Outcomes) /\ Len(Append(channel, o)) = Len(channel) + 1
        /\ Of(Append(channel, o)) = Of(channel) \cup {c} /\ Once(Append(channel, o))
        /\ \A i \in 1..Len(Append(channel, o)) :
              Append(channel, o)[i] = o
                 \/ (i \in 1..Len(channel) /\ Append(channel, o)[i] = channel[i])
    BY <1>3, <1>4, SendAdds DEF CheckInv, CheckType, PlaceInv
  <2>2. Of(channel)' = Of(channel') /\ Once(channel)' = Once(channel')
    BY DEF Of, Once
  <2> QED  BY <1>2, <2>1, <2>2
<1>6. Reported' = Reported /\ Bad' = Bad
  BY <1>1 DEF Reported, Bad
<1>7. CheckType'
  BY <1>1, <1>5 DEF CheckInv, CheckType
<1>8. PlaceInv'
  <2>1. \A i \in 1..Len(channel') : channel'[i].fail <=> verdict[channel'[i].of] # "holds"
    BY <1>3, <1>5 DEF CheckInv, PlaceInv
  <2> QED  BY <1>1, <1>4, <1>5, <1>6, <2>1 DEF CheckInv, PlaceInv
<1>9. ReportInv'
  BY <1>1, <1>5, <1>6 DEF CheckInv, ReportInv
<1>10. BatchInv'
  <2>1. next - 1 \in Nat /\ (c \in running <=> c \notin recovering)
    BY <1>1 DEF CheckInv, CheckType, PlaceInv
  <2>2. /\ Cardinality(running) \in Nat /\ Cardinality(recovering) \in Nat
        /\ Cardinality(running') + Cardinality(recovering')
              = Cardinality(running) + Cardinality(recovering) - 1
        /\ Cardinality(running') \in Nat /\ Cardinality(recovering') \in Nat
    <3>1. Cardinality(running) \in Nat /\ Cardinality(recovering) \in Nat
      BY <2>1, Counts DEF CheckInv, CheckType
    <3>2. Cardinality(running') \in Nat /\ Cardinality(recovering') \in Nat
      BY <1>7, <1>1, <2>1, Counts DEF CheckType
    <3>3. CASE c \in running
      <4>1. Cardinality(recovering') = Cardinality(recovering)
        <5>1. recovering' = recovering
          BY <1>1, <2>1, <3>3
        <5> QED  BY <5>1
      <4>2. Cardinality(running') = Cardinality(running) - 1
        BY <1>1, <2>1, <3>3, Counts DEF CheckInv, CheckType
      <4> QED  BY <3>1, <3>2, <4>1, <4>2
    <3>4. CASE c \notin running
      <4>1. Cardinality(running') = Cardinality(running)
        <5>1. running' = running
          BY <1>1, <3>4
        <5> QED  BY <5>1
      <4>2. Cardinality(recovering') = Cardinality(recovering) - 1
        BY <1>1, <2>1, <3>4, Counts DEF CheckInv, CheckType
      <4> QED  BY <3>1, <3>2, <4>1, <4>2
    <3> QED  BY <3>1, <3>2, <3>3, <3>4
  <2>3. Len(channel) \in Nat /\ received \in Nat /\ pc \in {"launch", "drain"}
    BY <1>1 DEF CheckInv, CheckType, BatchInv
  <2>4. /\ launched = received + Len(channel) + Cardinality(running) + Cardinality(recovering)
        /\ Len(channel) + Cardinality(running) + Cardinality(recovering) <= BatchSize
    BY <2>3 DEF CheckInv, BatchInv, Accounted
  <2>5. Accounted'
    <3> DEFINE r == Cardinality(running)    v == Cardinality(recovering)
               rr == Cardinality(running')  vv == Cardinality(recovering')
               l == Len(channel)            ll == Len(channel')
    <3>1. r \in Nat /\ v \in Nat /\ rr \in Nat /\ vv \in Nat /\ rr + vv = r + v - 1 /\ ll = l + 1
      BY <1>5, <2>2
    <3>2. l \in Nat /\ received \in Nat /\ launched = received + l + r + v /\ l + r + v <= BatchSize
      BY <2>3, <2>4
    <3>3. Accounted' <=> (pc' \in {"launch", "drain"} =>
                            launched' = received' + ll + rr + vv /\ ll + rr + vv <= BatchSize)
      BY DEF Accounted
    <3> HIDE DEF r, v, rr, vv, l, ll
    <3>4. launched = received + ll + rr + vv /\ ll + rr + vv <= BatchSize
      BY <3>1, <3>2
    <3> QED  BY <1>1, <3>3, <3>4
  <2> QED  BY <1>1, <2>3, <2>5 DEF BatchInv
<1> QED  BY <1>7, <1>8, <1>9, <1>10 DEF CheckInv

(* Receiving reports the constraint whose outcome comes first, if it is    *)
(* bad.                                                                    *)
LEMMA ReceiveKeeps == CheckInv /\ Receive => CheckInv'
<1> SUFFICES ASSUME CheckInv, Receive PROVE CheckInv'
  OBVIOUS
<1> USE CheckAssumption
<1> DEFINE c == Head(channel).of
<1>1. /\ UNCHANGED <<verdict, pc, next, launched, running, recovering>> /\ pc = "drain"
      /\ received' = received + 1 /\ received < launched
      /\ channel' = Tail(channel) /\ channel # <<>>
      /\ errors' = IF Head(channel).fail THEN Append(errors, c) ELSE errors
  BY DEF Receive
<1>2. channel \in Seq(Outcomes) /\ Once(channel)
  BY DEF CheckInv, CheckType, PlaceInv
<1>3. /\ Head(channel) = channel[1] /\ 1 \in 1..Len(channel) /\ Head(channel) \in Outcomes
      /\ channel' \in Seq(Outcomes) /\ Len(channel') = Len(channel) - 1
      /\ Of(channel) = Of(channel') \cup {c} /\ c \notin Of(channel') /\ Once(channel')
      /\ \A i \in 1..Len(channel') : i + 1 \in 1..Len(channel) /\ channel'[i] = channel[i + 1]
  BY <1>1, <1>2, ReceiveTakes
<1>4. Head(channel).fail <=> verdict[c] # "holds"
  BY <1>3 DEF CheckInv, PlaceInv
<1>5. c \in Constraints
  BY <1>3 DEF Outcomes
<1> HIDE DEF c
<1>6. Of(channel)' = Of(channel') /\ Once(channel)' = Once(channel') /\ Bad' = Bad
  BY <1>1 DEF Of, Once, Bad
<1>7. c \notin Reported /\ c \in 1..(next - 1) /\ c \notin running \cup recovering
  BY <1>3 DEF CheckInv, PlaceInv
<1>8. c \in Bad <=> verdict[c] # "holds"
  BY <1>5 DEF Bad
<1>9. /\ errors' \in Seq(Constraints)
      /\ \A i, j \in 1..Len(errors') : errors'[i] = errors'[j] => i = j
      /\ Reported' = IF c \in Bad THEN Reported \cup {c} ELSE Reported
  <2>1. errors \in Seq(Constraints) /\ \A i, j \in 1..Len(errors) : errors[i] = errors[j] => i = j
    BY DEF CheckInv, CheckType, ReportInv
  <2>2. CASE c \in Bad
    <3>1. errors' = Append(errors, c)
      BY <1>1, <1>4, <1>8, <2>2
    <3> QED  BY <1>5, <1>7, <2>1, <2>2, <3>1, ReportAdds DEF Reported
  <2>3. CASE c \notin Bad
    <3>1. errors' = errors
      BY <1>1, <1>4, <1>8, <2>3
    <3> QED  BY <2>1, <2>3, <3>1 DEF Reported
  <2> QED  BY <2>2, <2>3
<1>10. CheckType'
  <2>1. received' \in 0..launched'
    BY <1>1 DEF CheckInv, CheckType
  <2> QED  BY <1>1, <1>3, <1>9, <2>1 DEF CheckInv, CheckType
<1>11. PlaceInv'
  <2>1. \A i \in 1..Len(channel') : channel'[i].fail <=> verdict[channel'[i].of] # "holds"
    BY <1>3 DEF CheckInv, PlaceInv
  <2> QED  BY <1>1, <1>3, <1>6, <1>7, <1>9, <2>1 DEF CheckInv, PlaceInv
<1>12. ReportInv'
  <2>1. Reported' \subseteq Bad' \cap 1..(next' - 1)
    BY <1>1, <1>6, <1>7, <1>9 DEF CheckInv, ReportInv
  <2>2. Bad' \cap 1..(next' - 1) \subseteq Reported' \cup running' \cup recovering' \cup Of(channel)'
    BY <1>1, <1>3, <1>6, <1>9 DEF CheckInv, ReportInv
  <2> QED  BY <1>1, <1>9, <2>1, <2>2 DEF ReportInv
<1>13. BatchInv'
  <2>1. Cardinality(running) \in Nat /\ Cardinality(recovering) \in Nat
    <3>1. next - 1 \in Nat
      BY DEF CheckInv, CheckType
    <3> QED  BY <3>1, Counts DEF CheckInv, CheckType
  <2>2. Len(channel) \in Nat /\ received \in Nat
    BY DEF CheckInv, CheckType
  <2>3. /\ launched = received + Len(channel) + Cardinality(running) + Cardinality(recovering)
        /\ Len(channel) + Cardinality(running) + Cardinality(recovering) <= BatchSize
    BY <1>1 DEF CheckInv, BatchInv, Accounted
  <2> QED  BY <1>1, <1>3, <2>1, <2>2, <2>3 DEF BatchInv, Accounted
<1> QED  BY <1>10, <1>11, <1>12, <1>13 DEF CheckInv

(* When checking is done, the bad constraints are the reported ones.       *)
LEMMA DoneExact == CheckInv => VerdictExact
<1> SUFFICES ASSUME CheckInv PROVE VerdictExact
  OBVIOUS
<1> USE CheckAssumption
<1>1. NothingLeftBehind /\ Accounted
  BY DEF CheckInv, BatchInv, NothingLeftBehind
<1>2. ASSUME pc = "done"
      PROVE  {errors[i] : i \in DOMAIN errors} = Bad /\ Len(errors) = Cardinality(Bad)
  <2>1. running = {} /\ recovering = {} /\ channel = <<>> /\ next = N + 1
    BY <1>2 DEF CheckInv, BatchInv, ReportInv
  <2>2. Of(channel) = {}
    BY <2>1 DEF Of
  <2>3. errors \in Seq(Constraints) /\ Len(errors) \in Nat /\ DOMAIN errors = 1..Len(errors)
    BY DEF CheckInv, CheckType
  <2>4. Bad \subseteq 1..(next - 1)
    BY <2>1 DEF Bad, Constraints
  <2>5. Reported = Bad
    BY <1>2, <2>1, <2>2, <2>4 DEF CheckInv, ReportInv
  <2>6. errors \in Bijection(1..Len(errors), Bad)
    <3>1. errors \in [1..Len(errors) -> Bad]
      BY <2>3, <2>5 DEF Reported
    <3>2. \A i, j \in 1..Len(errors) : errors[i] = errors[j] => i = j
      BY DEF CheckInv, ReportInv
    <3>3. \A b \in Bad : \E i \in 1..Len(errors) : errors[i] = b
      BY <2>5 DEF Reported
    <3> QED  BY <3>1, <3>2, <3>3 DEF Bijection, Injection, Surjection, IsInjective
  <2>7. Cardinality(Bad) = Len(errors)
    BY <2>3, <2>6, FS_CountingElements DEF ExistsBijection
  <2> QED  BY <2>3, <2>5, <2>7 DEF Reported
<1> QED  BY <1>1, <1>2 DEF VerdictExact, ReportsExact

(* Every constraint that fails or panics is reported exactly once, and no  *)
(* goroutine is left behind or awaited in vain: for any number of          *)
(* constraints, verdicts and batch size.                                   *)
THEOREM VerdictsAreExact == Spec => []VerdictExact
<1>1. CheckInv /\ [Next]_vars => CheckInv'
  BY CheckNextKeeps, LoopKeeps, LaunchKeeps, PanicKeeps, SendKeeps, ReceiveKeeps
     DEF Next, Checker, Goroutine
<1> QED  BY CheckInit, DoneExact, <1>1, PTL DEF Spec
=============================================================================
