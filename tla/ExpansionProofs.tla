-------------------------- MODULE ExpansionProofs --------------------------
(***************************************************************************)
(* Expansion computes every assignment exactly once, on final inputs, with *)
(* no goroutine left when columns are filled and none ever blocked on the  *)
(* channel: for any schema, order of its assignments and batch size.  And  *)
(* for a sound schema and sound traces it is a serial expansion: whatever  *)
(* the batches and the order of the answers, the trace evolves as if the   *)
(* assignments had run one after the other, and nothing panics.            *)
(***************************************************************************)
EXTENDS Expansion, FiniteSetTheorems, TLAPS

(* No entry occurs twice in the first n of s.                              *)
Distinct(s, n) == \A i, j \in 1..n : s[i] = s[j] => i = j

(* The control state of the expansion is well typed.                       *)
ControlType ==
    /\ conf.size \in Nat \ {0}
    /\ pc \in {"loop", "scan", "dispatch", "collect", "fill", "compute",
               "done", "failed", "panic"}
    /\ worklist \in Seq(Assignments)
    /\ scan \in [i : Nat \ {0}, m : Nat, n : Nat]
    /\ batch \in Seq(Assignments)
    /\ job \in [Assignments -> {"none", "computing", "sending", "ended"}]
    /\ ch \in Seq(Assignments)
    /\ got \in Seq(Assignments)
    /\ runs \in [Assignments -> Nat]

(* The entries of the worklist that are assignments still to be taken.     *)
Remaining == IF pc = "scan" THEN scan.m ELSE Len(worklist)

(* The scan loses and doubles nothing.                                     *)
ScanInv ==
    /\ Remaining <= Len(worklist)
    /\ Distinct(worklist, Remaining)
    /\ Distinct(batch, Len(batch))
    /\ Untaken \cap Range(batch) = {}
    /\ Len(batch) + (IF pc = "scan" THEN scan.n ELSE 0)
          <= (IF conf.parallel THEN conf.size ELSE 1)
    /\ pc \in {"loop", "done"} => batch = <<>>
    /\ pc \in {"dispatch", "compute"} => batch # <<>>
    /\ pc = "compute" => ~conf.parallel
    /\ pc = "done" => worklist = <<>>

(* The registers not ready are those of the assignments not yet taken or,  *)
(* while scanning, taken by this scan.                                     *)
ReadyInv ==
    /\ notReady = UNION {RegistersWritten(a) :
                            a \in Untaken \cup (IF pc = "scan" THEN Range(batch) ELSE {})}
    /\ \A a \in Range(batch) :
          \A r \in RegistersRead(a) \ RegistersExpanded(a) :
             \A b \in Untaken \cup Range(batch) : r \notin RegistersWritten(b)

(* What the goroutine of an assignment has done, against the main thread.  *)
JobInv ==
    \A a \in Assignments :
        /\ job[a] \in {"computing", "sending"} =>
              a \in Range(batch) /\ pc \in {"collect", "failed", "panic"}
        /\ pc = "collect" /\ a \in Range(batch) => job[a] # "none"
        /\ pc = "fill" /\ a \in Range(batch) => job[a] = "ended"

(* Every answer is in the channel or collected, once.                      *)
AnswerInv ==
    /\ Distinct(ch, Len(ch)) /\ Distinct(got, Len(got))
    /\ Range(ch) \cap Range(got) = {}
    /\ Range(ch) \cup Range(got) \subseteq {a \in Range(batch) : job[a] = "ended"}
    /\ pc \in {"loop", "scan", "dispatch", "compute", "done"} => ch = <<>> /\ got = <<>>
    /\ pc = "fill" => ch = <<>>

(* How often an assignment was computed.                                   *)
RunsInv ==
    \A a \in Assignments :
        /\ runs[a] <= 1
        /\ a \in Untaken => runs[a] = 0
        /\ pc \in {"scan", "dispatch", "compute"} /\ a \in Range(batch) => runs[a] = 0
        /\ job[a] = "computing" /\ pc # "panic" => runs[a] = 0
        /\ pc = "collect" /\ a \in Range(batch) /\ job[a] # "computing" => runs[a] = 1
        /\ pc = "fill" /\ a \in Range(batch) => runs[a] = 1
        /\ a \notin Untaken \cup Range(batch) => runs[a] = 1

ExpansionInv ==
    ControlType /\ ScanInv /\ ReadyInv /\ JobInv /\ AnswerInv /\ RunsInv

-----------------------------------------------------------------------------
(* Sequences without repetition, as the scan, the channel and the answers  *)
(* use them.                                                               *)

(* A sequence that is not empty has a first entry.                         *)
LEMMA NonEmpty ==
  ASSUME NEW S, NEW s \in Seq(S), s # <<>>
  PROVE  Len(s) \in Nat \ {0}
  OBVIOUS

(* The empty sequence has no entries.                                      *)
LEMMA EmptySeq ==
  ASSUME NEW S
  PROVE  <<>> \in Seq(S)
  OBVIOUS

(* Appending a new entry.                                                  *)
LEMMA AppendNew ==
  ASSUME NEW S, NEW s \in Seq(S), NEW x \in S
  PROVE  /\ Append(s, x) \in Seq(S)
         /\ Range(Append(s, x)) = Range(s) \cup {x}
         /\ Len(Append(s, x)) = Len(s) + 1
         /\ Distinct(s, Len(s)) /\ x \notin Range(s)
               => Distinct(Append(s, x), Len(Append(s, x)))
  <1> DEFINE t == Append(s, x)
  <1>1. /\ t \in Seq(S) /\ Len(t) = Len(s) + 1 /\ Len(s) \in Nat
        /\ \A i \in 1..Len(s) : t[i] = s[i]
        /\ t[Len(s) + 1] = x
        /\ DOMAIN t = 1..Len(s) + 1 /\ DOMAIN s = 1..Len(s)
    OBVIOUS
  <1> HIDE DEF t
  <1>2. Range(t) = Range(s) \cup {x}
    BY <1>1 DEF Range
  <1>3. ASSUME Distinct(s, Len(s)), x \notin Range(s)
        PROVE  Distinct(t, Len(t))
    BY <1>1, <1>3 DEF Distinct, Range
  <1> QED
    BY <1>1, <1>2, <1>3 DEF t

(* Taking the first entry.                                                 *)
LEMMA TakeHead ==
  ASSUME NEW S, NEW s \in Seq(S), s # <<>>
  PROVE  /\ Tail(s) \in Seq(S) /\ Head(s) \in S
         /\ Len(Tail(s)) = Len(s) - 1
         /\ Range(s) = {Head(s)} \cup Range(Tail(s))
         /\ Distinct(s, Len(s)) =>
               Distinct(Tail(s), Len(Tail(s))) /\ Head(s) \notin Range(Tail(s))
  <1> DEFINE t == Tail(s)
  <1>1. /\ t \in Seq(S) /\ Len(t) = Len(s) - 1 /\ Len(s) \in Nat \ {0}
        /\ \A i \in 1..Len(t) : t[i] = s[i + 1]
        /\ Head(s) = s[1] /\ s[1] \in S
        /\ DOMAIN t = 1..Len(s) - 1 /\ DOMAIN s = 1..Len(s)
    OBVIOUS
  <1> HIDE DEF t
  <1>2. \A i \in 2..Len(s) : i - 1 \in 1..Len(t) /\ t[i - 1] = s[i]
    BY <1>1
  <1>3. Range(s) = {Head(s)} \cup Range(t)
    <2>1. ASSUME NEW i \in 1..Len(s) PROVE s[i] \in {Head(s)} \cup Range(t)
      BY <1>1, <1>2 DEF Range
    <2>2. ASSUME NEW i \in 1..Len(t) PROVE t[i] \in Range(s)
      BY <1>1 DEF Range
    <2> QED BY <2>1, <2>2, <1>1 DEF Range
  <1>4. ASSUME Distinct(s, Len(s))
        PROVE  Distinct(t, Len(t)) /\ Head(s) \notin Range(t)
    BY <1>1, <1>4 DEF Distinct, Range
  <1> QED
    BY <1>1, <1>3, <1>4 DEF t

(* The scan's swap: entry i of the first m goes, the last takes its place. *)
LEMMA SwapOut ==
  ASSUME NEW S, NEW s \in Seq(S), NEW m \in Nat, m <= Len(s),
         NEW i \in 1..m, Distinct(s, m)
  PROVE  LET t == [s EXCEPT ![i] = s[m]]
         IN  /\ t \in Seq(S) /\ Len(t) = Len(s)
             /\ Distinct(t, m - 1)
             /\ {t[k] : k \in 1..m - 1} = {s[k] : k \in 1..m} \ {s[i]}
  <1> DEFINE t == [s EXCEPT ![i] = s[m]]
  <1>1. /\ t \in Seq(S) /\ Len(t) = Len(s) /\ Len(s) \in Nat
        /\ \A k \in 1..m : t[k] = IF k = i THEN s[m] ELSE s[k]
    OBVIOUS
  <1> HIDE DEF t
  <1>2. Distinct(t, m - 1)
    BY <1>1 DEF Distinct
  <1>3. ASSUME NEW k \in 1..m - 1 PROVE t[k] \in {s[j] : j \in 1..m} \ {s[i]}
    BY <1>1 DEF Distinct
  <1>4. ASSUME NEW j \in 1..m, s[j] # s[i] PROVE s[j] \in {t[k] : k \in 1..m - 1}
    <2>1. CASE j = m
      BY <1>1, <1>4, <2>1
    <2>2. CASE j # m
      BY <1>1, <1>4, <2>2
    <2> QED BY <2>1, <2>2
  <1> QED
    BY <1>1, <1>2, <1>3, <1>4 DEF t

(* The scan's end: the worklist is cut to what was not taken.              *)
LEMMA CutTo ==
  ASSUME NEW S, NEW s \in Seq(S), NEW m \in Nat, m <= Len(s)
  PROVE  /\ SubSeq(s, 1, m) \in Seq(S) /\ Len(SubSeq(s, 1, m)) = m
         /\ Range(SubSeq(s, 1, m)) = {s[k] : k \in 1..m}
         /\ Distinct(s, m) => Distinct(SubSeq(s, 1, m), m)
  <1> DEFINE t == SubSeq(s, 1, m)
  <1>1. /\ t \in Seq(S) /\ Len(t) = m /\ DOMAIN t = 1..m
        /\ \A k \in 1..m : t[k] = s[k]
    OBVIOUS
  <1> HIDE DEF t
  <1> QED
    BY <1>1 DEF t, Range, Distinct

(* A sequence without repetition has as many entries as elements.          *)
LEMMA CountDistinct ==
  ASSUME NEW S, NEW s \in Seq(S), Distinct(s, Len(s))
  PROVE  IsFiniteSet(Range(s)) /\ Cardinality(Range(s)) = Len(s)
  <1>1. Len(s) \in Nat /\ DOMAIN s = 1..Len(s) /\ s \in [1..Len(s) -> Range(s)]
    BY DEF Range
  <1>2. s \in Bijection(1..Len(s), Range(s))
    BY <1>1 DEF Bijection, Injection, Surjection, Distinct, Range, IsInjective
  <1>3. ExistsBijection(1..Len(s), Range(s))
    BY <1>2 DEF ExistsBijection
  <1> QED
    BY <1>1, <1>3, FS_CountingElements, FS_NatBijection

-----------------------------------------------------------------------------
(* Every step of the expansion keeps the invariant.                        *)

(* Untaken assignments are the remaining entries of the worklist.          *)
LEMMA UntakenRemaining ==
  ASSUME ControlType
  PROVE  /\ Untaken = {worklist[i] : i \in 1..Remaining}
         /\ Remaining \in Nat
         /\ DOMAIN worklist = 1..Len(worklist) /\ Len(worklist) \in Nat
         /\ DOMAIN batch = 1..Len(batch) /\ Len(batch) \in Nat
  BY DEF ControlType, Untaken, Remaining, Range

(* Expander.Next, entered: nothing changes hands.                          *)
LEMMA NextStartKeeps ==
  ASSUME ExpansionInv, NextStart
  PROVE  ExpansionInv'
  <1> USE DEF ExpansionInv
  <1>1. ControlType'
    BY DEF ControlType, NextStart, Goroutines
  <1>2. Untaken' = Untaken /\ Remaining' = Remaining /\ Range(batch') = {}
        /\ Len(batch') = 0 /\ batch = <<>> /\ Range(batch) = {}
    <2>1. pc = "loop" /\ pc' = "scan" /\ scan'.m = Len(worklist) /\ worklist' = worklist
      BY DEF NextStart
    <2>2. batch = <<>> /\ batch' = <<>>
      BY <2>1 DEF ScanInv, NextStart
    <2>3. Range(<<>>) = {} /\ Len(<<>>) = 0
      BY DEF Range
    <2>4. Remaining = Len(worklist) /\ Remaining' = Len(worklist)
      BY <2>1 DEF Remaining
    <2>5. Untaken = {worklist[i] : i \in 1..Len(worklist)}
      BY <2>4, UntakenRemaining
    <2>6. Untaken' = {worklist[i] : i \in 1..Len(worklist)}
      BY <2>1 DEF Untaken
    <2> QED BY <2>2, <2>3, <2>4, <2>5, <2>6
  <1>3. ScanInv'
    BY <1>2 DEF ScanInv, NextStart, ControlType, Distinct
  <1>4. ReadyInv'
    BY <1>2 DEF ReadyInv, NextStart
  <1>5. JobInv' /\ AnswerInv'
    BY <1>2 DEF JobInv, AnswerInv, NextStart, Goroutines
  <1>6. RunsInv'
    BY <1>2 DEF RunsInv, NextStart, Goroutines
  <1> QED
    BY <1>1, <1>3, <1>4, <1>5, <1>6

(* A taken assignment moves from the worklist to the batch.                *)
LEMMA NextTakeKeeps ==
  ASSUME ExpansionInv, NextTake
  PROVE  ExpansionInv'
  <1> DEFINE a == worklist[scan.i]
  <1> USE DEF ExpansionInv
  <1>a. /\ pc = "scan" /\ pc' = "scan" /\ worklist \in Seq(Assignments)
        /\ UNCHANGED <<conf, notReady, job, result, ch, got, tr, runs>>
        /\ scan \in [i : Nat \ {0}, m : Nat, n : Nat]
    BY DEF NextTake, Scanning, ControlType, Goroutines
  <1>b. /\ scan.i \in 1..scan.m /\ scan.m \in Nat \ {0} /\ scan.n \in Nat \ {0}
        /\ scan.m <= Len(worklist) /\ Distinct(worklist, scan.m)
    BY <1>a DEF NextTake, Scanning, ScanInv, Remaining
  <1>c. /\ scan' \in [i : Nat \ {0}, m : Nat, n : Nat]
        /\ scan'.m = scan.m - 1 /\ scan'.n = scan.n - 1
    <2>1. scan' = [scan EXCEPT !.m = scan.m - 1, !.n = scan.n - 1]
      BY DEF NextTake
    <2>2. scan.m - 1 \in Nat /\ scan.n - 1 \in Nat
      BY <1>b
    <2> QED BY <2>1, <2>2, <1>a
  <1>d. a \in Assignments
    BY <1>a, <1>b
  <1>0. /\ scan.i \in 1..scan.m /\ scan.m \in Nat \ {0} /\ scan.n \in Nat \ {0}
        /\ pc = "scan" /\ pc' = "scan" /\ a \in Assignments
        /\ scan'.m = scan.m - 1 /\ scan'.n = scan.n - 1
    BY <1>a, <1>b, <1>c, <1>d
  <1>1. /\ worklist' \in Seq(Assignments) /\ Len(worklist') = Len(worklist)
        /\ Distinct(worklist', scan.m - 1)
        /\ Untaken' = Untaken \ {a} /\ a \in Untaken
    <2> DEFINE t == [worklist EXCEPT ![scan.i] = worklist[scan.m]]
    <2>1. /\ t \in Seq(Assignments) /\ Len(t) = Len(worklist)
          /\ Distinct(t, scan.m - 1)
          /\ {t[k] : k \in 1..scan.m - 1} = {worklist[k] : k \in 1..scan.m} \ {a}
      BY <1>a, <1>b, SwapOut
    <2>2. worklist' = t
      BY DEF NextTake
    <2>3. Untaken = {worklist[k] : k \in 1..scan.m} /\ a \in Untaken
      BY <1>a, <1>b DEF Untaken
    <2>4. Untaken' = {worklist'[k] : k \in 1..scan.m - 1}
      BY <1>0 DEF Untaken
    <2> QED BY <2>1, <2>2, <2>3, <2>4
  <1>2. a \notin Range(batch)
    BY <1>1 DEF ScanInv
  <1>3. /\ batch' \in Seq(Assignments)
        /\ Range(batch') = Range(batch) \cup {a}
        /\ Len(batch') = Len(batch) + 1 /\ Len(batch) \in Nat
        /\ Distinct(batch', Len(batch'))
    BY <1>0, <1>2, AppendNew DEF NextTake, ControlType, ScanInv
  <1> HIDE DEF a
  <1>4. ControlType'
    BY <1>a, <1>c, <1>1, <1>3 DEF ControlType
  <1>5. ScanInv'
    <2>1. Remaining' = scan.m - 1 /\ scan.m - 1 <= Len(worklist')
      BY <1>0, <1>b, <1>1 DEF Remaining
    <2>2. Untaken' \cap Range(batch') = {}
      BY <1>1, <1>3 DEF ScanInv
    <2>3. Len(batch') + scan'.n <= (IF conf.parallel THEN conf.size ELSE 1)
      BY <1>0, <1>3 DEF ScanInv, ControlType
    <2> QED BY <1>0, <1>1, <1>3, <1>a, <2>1, <2>2, <2>3 DEF ScanInv
  <1>6. Untaken' \cup Range(batch') = Untaken \cup Range(batch)
    BY <1>1, <1>3
  <1>7. \A r \in RegistersRead(a) \ RegistersExpanded(a) :
           \A b \in Untaken \cup Range(batch) : r \notin RegistersWritten(b)
    BY <1>0 DEF NextTake, IsReady, IsExpandedBy, ReadyInv, a
  <1>8. ReadyInv'
    BY <1>0, <1>3, <1>6, <1>7 DEF ReadyInv, NextTake
  <1>9. JobInv' /\ AnswerInv'
    BY <1>0, <1>3 DEF JobInv, AnswerInv, NextTake, Goroutines
  <1>10. RunsInv'
    BY <1>0, <1>1, <1>3 DEF RunsInv, NextTake, Goroutines
  <1> QED
    BY <1>4, <1>5, <1>8, <1>9, <1>10

(* An assignment that is not ready stays where it is.                      *)
LEMMA NextSkipKeeps ==
  ASSUME ExpansionInv, NextSkip
  PROVE  ExpansionInv'
  <1> USE DEF ExpansionInv
  <1>0. scan' \in [i : Nat \ {0}, m : Nat, n : Nat] /\ scan'.m = scan.m /\ scan'.n = scan.n
    <2>1. scan \in [i : Nat \ {0}, m : Nat, n : Nat]
      BY DEF ControlType
    <2> QED BY <2>1 DEF NextSkip
  <1>1. ControlType'
    BY <1>0 DEF ControlType, NextSkip, Goroutines
  <1>2. Untaken' = Untaken /\ Remaining' = Remaining
    BY <1>0 DEF NextSkip, Untaken, Remaining
  <1>3. ScanInv'
    BY <1>0, <1>2 DEF ScanInv, NextSkip
  <1>4. ReadyInv' /\ JobInv' /\ AnswerInv' /\ RunsInv'
    BY <1>2 DEF ReadyInv, JobInv, AnswerInv, RunsInv, NextSkip, Scanning, Goroutines
  <1> QED
    BY <1>1, <1>3, <1>4

(* By the one-writer rule, removing the registers of the batch leaves      *)
(* those of the assignments still to be taken.                             *)
LEMMA NextReturnKeeps ==
  ASSUME ExpansionInv, NextReturn
  PROVE  ExpansionInv'
  <1> USE DEF ExpansionInv
  <1>0. /\ pc = "scan" /\ pc' \in {"panic", "dispatch", "compute"}
        /\ pc' = "panic" <=> batch = <<>>
        /\ pc' = "compute" => ~conf.parallel
        /\ scan.m \in Nat /\ scan.m <= Len(worklist) /\ Distinct(worklist, scan.m)
        /\ worklist \in Seq(Assignments)
        /\ UNCHANGED <<conf, scan, batch, job, result, ch, got, runs>>
    BY DEF NextReturn, ControlType, ScanInv, Remaining, Goroutines
  <1>1. /\ worklist' \in Seq(Assignments) /\ Len(worklist') = scan.m
        /\ Distinct(worklist', scan.m)
        /\ Untaken' = Untaken
    BY <1>0, CutTo DEF NextReturn, Untaken
  <1>c. ControlType /\ ScanInv
    OBVIOUS
  <1>2. ControlType'
    <2> HIDE DEF ExpansionInv
    <2> QED
      BY <1>0, <1>1, <1>c DEF ControlType
  <1>3. ScanInv'
    <2> HIDE DEF ExpansionInv
    <2>1. Remaining' = scan.m
      BY <1>0, <1>1 DEF Remaining
    <2>2. scan.n \in Nat /\ conf.size \in Nat /\ Len(batch) \in Nat
      BY <1>c DEF ControlType
    <2>3. /\ Distinct(batch, Len(batch)) /\ Untaken \cap Range(batch) = {}
          /\ Len(batch) + scan.n <= (IF conf.parallel THEN conf.size ELSE 1)
      BY <1>0, <1>c DEF ScanInv
    <2>4. Len(batch) <= (IF conf.parallel THEN conf.size ELSE 1)
      BY <2>2, <2>3
    <2> QED
      BY <1>0, <1>1, <2>1, <2>3, <2>4, <2>2 DEF ScanInv
  <1>4. Untaken \subseteq Assignments /\ Range(batch) \subseteq Assignments
    BY <1>0 DEF Untaken, ControlType, Range
  <1>5. notReady' = UNION {RegistersWritten(b) : b \in Untaken}
    <2>1. notReady = UNION {RegistersWritten(b) : b \in Untaken \cup Range(batch)}
      BY <1>0 DEF ReadyInv
    <2>2. notReady' = notReady \ UNION {RegistersWritten(b) : b \in Range(batch)}
      BY DEF NextReturn
    <2>3. ASSUME NEW b \in Untaken, NEW c \in Range(batch)
          PROVE  RegistersWritten(b) \cap RegistersWritten(c) = {}
      BY <1>4, OneWriterAssumption DEF ScanInv, RegistersWritten
    <2> QED BY <2>1, <2>2, <2>3
  <1>6. ReadyInv'
    BY <1>0, <1>1, <1>5 DEF ReadyInv
  <1>7. JobInv' /\ AnswerInv'
    BY <1>0 DEF JobInv, AnswerInv
  <1>8. RunsInv'
    BY <1>0, <1>1 DEF RunsInv
  <1> QED
    BY <1>2, <1>3, <1>6, <1>7, <1>8

(* The batch is handed to goroutines, none of which was running.           *)
LEMMA DispatchKeeps ==
  ASSUME ExpansionInv, Dispatch
  PROVE  ExpansionInv'
  <1> USE DEF ExpansionInv
  <1>0. /\ pc = "dispatch" /\ pc' = "collect"
        /\ UNCHANGED <<conf, worklist, notReady, scan, batch, result, ch, got, runs>>
        /\ job' = [a \in Assignments |-> IF a \in Range(batch) THEN "computing" ELSE job[a]]
    BY DEF Dispatch, Expander
  <1>1. ControlType'
    BY <1>0 DEF ControlType
  <1>2. Untaken' = Untaken /\ Remaining' = Remaining
    BY <1>0 DEF Untaken, Remaining
  <1>3. ScanInv' /\ ReadyInv'
    BY <1>0, <1>2 DEF ScanInv, ReadyInv
  <1>4. Range(<<>>) = {}
    BY DEF Range
  <1>5. AnswerInv'
    BY <1>0, <1>4 DEF AnswerInv, Distinct
  <1>6. JobInv'
    BY <1>0 DEF JobInv
  <1>7. RunsInv'
    BY <1>0, <1>2 DEF RunsInv, JobInv, ControlType
  <1> QED
    BY <1>1, <1>3, <1>5, <1>6, <1>7

(* A goroutine computes, whether or not the expansion has failed already.  *)
LEMMA JobComputeKeeps ==
  ASSUME ExpansionInv, NEW a \in Assignments, pc # "panic", JobCompute(a)
  PROVE  ExpansionInv'
  <1> USE DEF ExpansionInv
  <1>0. /\ job[a] = "computing"
        /\ runs' = [runs EXCEPT ![a] = runs[a] + 1]
        /\ \/ pc' = "panic" /\ job' = job
           \/ pc' = pc /\ job' = [job EXCEPT ![a] = "sending"]
        /\ UNCHANGED <<conf, worklist, notReady, scan, batch, ch, got>>
    BY DEF JobCompute, Expander
  <1>1. a \in Range(batch) /\ pc \in {"collect", "failed"} /\ runs[a] = 0
    BY <1>0 DEF JobInv, RunsInv
  <1>2. ControlType'
    <2>1. runs' \in [Assignments -> Nat]
      BY <1>0 DEF ControlType
    <2>2. job' \in [Assignments -> {"none", "computing", "sending", "ended"}]
      BY <1>0 DEF ControlType
    <2> QED BY <1>0, <2>1, <2>2 DEF ControlType
  <1>3. Untaken' = Untaken /\ Remaining' = Remaining
    BY <1>0, <1>1 DEF Untaken, Remaining
  <1>4. ScanInv' /\ ReadyInv'
    BY <1>0, <1>1, <1>3 DEF ScanInv, ReadyInv
  <1>5. JobInv'
    BY <1>0, <1>1 DEF JobInv, ControlType
  <1>6. AnswerInv'
    <2>1. \A b \in Assignments : job[b] = "ended" => job'[b] = "ended"
      BY <1>0 DEF ControlType
    <2>2. Range(batch) \subseteq Assignments
      BY DEF ControlType, Range
    <2> QED BY <1>0, <1>1, <2>1, <2>2 DEF AnswerInv
  <1>7. RunsInv'
    <2>1. a \notin Untaken
      BY <1>1 DEF ScanInv
    <2>2. runs'[a] = 1 /\ \A b \in Assignments \ {a} : runs'[b] = runs[b] /\ job'[b] = job[b]
      BY <1>0, <1>1 DEF ControlType
    <2>3. pc' = "panic" \/ job'[a] = "sending"
      BY <1>0 DEF ControlType
    <2> QED BY <1>0, <1>1, <1>3, <2>1, <2>2, <2>3 DEF RunsInv
  <1> QED
    BY <1>2, <1>4, <1>5, <1>6, <1>7

(* An answer enters the channel: it was not there before.                  *)
LEMMA JobSendKeeps ==
  ASSUME ExpansionInv, NEW a \in Assignments, JobSend(a)
  PROVE  ExpansionInv'
  <1> USE DEF ExpansionInv
  <1>0. /\ job[a] = "sending"
        /\ ch' = Append(ch, a)
        /\ job' = [job EXCEPT ![a] = "ended"]
        /\ UNCHANGED <<conf, pc, worklist, notReady, scan, batch, got, runs>>
    BY DEF JobSend, Expander
  <1>1. a \in Range(batch) /\ pc \in {"collect", "failed", "panic"}
    BY <1>0 DEF JobInv
  <1>2. a \notin Range(ch) /\ a \notin Range(got)
    BY <1>0 DEF AnswerInv
  <1>3. /\ ch' \in Seq(Assignments) /\ Range(ch') = Range(ch) \cup {a}
        /\ Distinct(ch', Len(ch'))
    BY <1>0, <1>2, AppendNew DEF ControlType, AnswerInv
  <1>4. ControlType'
    BY <1>0, <1>3 DEF ControlType
  <1>5. Untaken' = Untaken /\ Remaining' = Remaining
    BY <1>0 DEF Untaken, Remaining
  <1>6. ScanInv' /\ ReadyInv'
    BY <1>0, <1>5 DEF ScanInv, ReadyInv
  <1>7. JobInv'
    BY <1>0, <1>1 DEF JobInv, ControlType
  <1>8. AnswerInv'
    <2>1. \A b \in Assignments : job[b] = "ended" => job'[b] = "ended"
      BY <1>0 DEF ControlType
    <2>2. job'[a] = "ended"
      BY <1>0 DEF ControlType
    <2>3. Range(batch) \subseteq Assignments
      BY DEF ControlType, Range
    <2> QED BY <1>0, <1>1, <1>2, <1>3, <2>1, <2>2, <2>3 DEF AnswerInv
  <1>9. RunsInv'
    BY <1>0, <1>1, <1>5 DEF RunsInv, ControlType
  <1> QED
    BY <1>4, <1>6, <1>7, <1>8, <1>9

(* The last answer of the batch is collected only after every goroutine of *)
(* the batch has ended.                                                    *)
LEMMA CollectKeeps ==
  ASSUME ExpansionInv, Collect
  PROVE  ExpansionInv'
  <1> USE DEF ExpansionInv
  <1>0. /\ pc = "collect" /\ ch # <<>> /\ ch' = Tail(ch)
        /\ \/ pc' = "failed" /\ got' = got
           \/ /\ got' = Append(got, Head(ch))
              /\ pc' = IF Len(got') = Len(batch) THEN "fill" ELSE "collect"
        /\ UNCHANGED <<conf, worklist, notReady, scan, batch, job, runs>>
    BY DEF Collect, Expander
  <1>1. /\ ch' \in Seq(Assignments) /\ Head(ch) \in Assignments
        /\ Range(ch) = {Head(ch)} \cup Range(ch')
        /\ Distinct(ch', Len(ch')) /\ Head(ch) \notin Range(ch')
    BY <1>0, TakeHead DEF ControlType, AnswerInv
  <1>2. Head(ch) \notin Range(got)
    BY <1>1 DEF AnswerInv
  <1>3. /\ got' \in Seq(Assignments) /\ Distinct(got', Len(got'))
        /\ Range(got') \subseteq Range(got) \cup {Head(ch)}
    <2>1. got \in Seq(Assignments) /\ Distinct(got, Len(got))
      BY DEF ControlType, AnswerInv
    <2>2. CASE got' = got
      BY <2>1, <2>2
    <2>3. CASE got' = Append(got, Head(ch))
      BY <2>1, <2>3, <1>1, <1>2, AppendNew
    <2> QED BY <1>0, <2>2, <2>3
  <1>4. ControlType'
    BY <1>0, <1>1, <1>3 DEF ControlType
  <1>5. Untaken' = Untaken /\ Remaining' = Remaining
    BY <1>0 DEF Untaken, Remaining
  <1>6. ScanInv' /\ ReadyInv'
    BY <1>0, <1>5 DEF ScanInv, ReadyInv
  <1>7. /\ Range(ch') \cap Range(got') = {}
        /\ Range(ch') \cup Range(got') \subseteq {a \in Range(batch) : job[a] = "ended"}
    BY <1>1, <1>3 DEF AnswerInv
  <1>8. pc' = "fill" => Range(got') = Range(batch)
    <2>1. SUFFICES ASSUME Len(got') = Len(batch) PROVE Range(got') = Range(batch)
      BY <1>0
    <2>2. IsFiniteSet(Range(batch)) /\ Cardinality(Range(batch)) = Len(batch)
      BY CountDistinct DEF ControlType, ScanInv
    <2>3. Cardinality(Range(got')) = Len(got')
      BY <1>3, CountDistinct
    <2> QED BY <1>7, <2>1, <2>2, <2>3, FS_Subset
  <1>9. AnswerInv'
    <2>1. pc' = "fill" => ch' = <<>>
      <3>1. SUFFICES ASSUME pc' = "fill" PROVE ch' = <<>>
        OBVIOUS
      <3>2. Range(ch') = {}
        BY <3>1, <1>7, <1>8
      <3> QED BY <3>2, <1>1 DEF Range
    <2> QED BY <1>0, <1>1, <1>3, <1>7, <2>1 DEF AnswerInv
  <1>10. pc' = "fill" => \A a \in Range(batch) : job[a] = "ended"
    BY <1>7, <1>8
  <1>11. JobInv'
    BY <1>0, <1>10 DEF JobInv
  <1>12. RunsInv'
    BY <1>0, <1>5, <1>10 DEF RunsInv
  <1> QED
    BY <1>4, <1>6, <1>9, <1>11, <1>12

(* The trace is filled from the results, in the order of the batch.        *)
LEMMA FillKeeps ==
  ASSUME ExpansionInv, Fill
  PROVE  ExpansionInv'
  <1> USE DEF ExpansionInv
  <1>0. /\ pc = "fill" /\ pc' \in {"fill", "panic"} /\ got # <<>> /\ got' = Tail(got)
        /\ UNCHANGED <<conf, worklist, notReady, scan, batch, job, result, ch, runs>>
    BY DEF Fill, Expander, Goroutines
  <1>1. /\ got' \in Seq(Assignments) /\ Range(got') \subseteq Range(got)
        /\ Distinct(got', Len(got'))
    BY <1>0, TakeHead DEF ControlType, AnswerInv
  <1>2. ControlType'
    BY <1>0, <1>1 DEF ControlType
  <1>3. Untaken' = Untaken /\ Remaining' = Remaining
    BY <1>0 DEF Untaken, Remaining
  <1>4. ScanInv' /\ ReadyInv'
    BY <1>0, <1>3 DEF ScanInv, ReadyInv
  <1>5. JobInv' /\ RunsInv'
    BY <1>0, <1>3 DEF JobInv, RunsInv
  <1>6. AnswerInv'
    BY <1>0, <1>1 DEF AnswerInv
  <1> QED
    BY <1>2, <1>4, <1>5, <1>6

(* When all of the batch is filled, the next batch is asked for.           *)
LEMMA FillEndKeeps ==
  ASSUME ExpansionInv, FillEnd
  PROVE  ExpansionInv'
  <1> USE DEF ExpansionInv
  <1>0. /\ pc = "fill" /\ pc' = "loop" /\ got = <<>> /\ batch' = <<>>
        /\ UNCHANGED <<conf, worklist, notReady, scan, job, ch, got, runs>>
    BY DEF FillEnd, Goroutines
  <1>1. ControlType'
    BY <1>0 DEF ControlType
  <1>2. Untaken' = Untaken /\ Remaining' = Remaining
    BY <1>0 DEF Untaken, Remaining
  <1>3. Range(batch') = {} /\ Len(batch') = 0
    BY <1>0 DEF Range
  <1>4. ScanInv' /\ ReadyInv'
    BY <1>0, <1>2, <1>3 DEF ScanInv, ReadyInv, Distinct, ControlType
  <1>5. JobInv' /\ RunsInv'
    BY <1>0, <1>2, <1>3 DEF JobInv, RunsInv
  <1>6. Range(<<>>) = {}
    BY DEF Range
  <1>7. AnswerInv'
    BY <1>0, <1>3, <1>6 DEF AnswerInv
  <1> QED
    BY <1>1, <1>4, <1>5, <1>7

(* The sequential batch is one assignment.                                 *)
LEMMA ComputeOneKeeps ==
  ASSUME ExpansionInv, ComputeOne
  PROVE  ExpansionInv'
  <1> DEFINE a == batch[1]
  <1> USE DEF ExpansionInv
  <1>0. /\ pc = "compute" /\ pc' \in {"loop", "failed", "panic"}
        /\ runs' = [runs EXCEPT ![a] = runs[a] + 1]
        /\ \/ pc' = "loop" /\ batch' = <<>>
           \/ pc' \in {"failed", "panic"} /\ batch' = batch
        /\ UNCHANGED <<conf, worklist, notReady, scan, job, ch, got>>
    BY DEF ComputeOne, Goroutines
  <1>1. a \in Range(batch) /\ a \in Assignments /\ runs[a] = 0 /\ a \notin Untaken
    BY <1>0 DEF ControlType, ScanInv, RunsInv, Range
  <1>2. Range(batch) = {a}
    <2>0. batch \in Seq(Assignments) /\ batch # <<>> /\ Len(batch) <= 1
      <3>1. ~conf.parallel /\ pc # "scan"
        BY <1>0 DEF ScanInv
      <3>2. Len(batch) + 0 <= 1
        BY <3>1 DEF ScanInv
      <3> QED BY <1>0, <3>2 DEF ScanInv, ControlType
    <2>1. Len(batch) = 1
      <3>1. Len(batch) \in Nat \ {0}
        BY <2>0, NonEmpty
      <3>2. Len(batch) <= 1
        BY <2>0
      <3>3. \A n \in Nat \ {0} : n <= 1 => n = 1
        OBVIOUS
      <3> QED BY <3>1, <3>2, <3>3
    <2> QED BY <2>1 DEF Range, ControlType
  <1>3. Range(<<>>) = {} /\ Len(<<>>) = 0
    BY DEF Range
  <1>4. runs' \in [Assignments -> Nat] /\ runs'[a] = 1
        /\ \A b \in Assignments \ {a} : runs'[b] = runs[b]
    BY <1>0, <1>1 DEF ControlType
  <1> HIDE DEF a
  <1>5. ControlType'
    <2>1. batch' \in Seq(Assignments)
      BY <1>0, EmptySeq DEF ControlType
    <2> QED BY <1>0, <1>4, <2>1 DEF ControlType
  <1>6. Untaken' = Untaken /\ Remaining' = Remaining
    BY <1>0 DEF Untaken, Remaining
  <1>7. Range(batch') \subseteq {a} /\ (pc' # "loop" => a \in Range(batch'))
    BY <1>0, <1>2, <1>3
  <1>8. ScanInv'
    <2>1. CASE batch' = <<>>
      BY <2>1, <1>0, <1>3, <1>6 DEF ScanInv, Distinct, ControlType
    <2>2. CASE batch' = batch
      BY <2>2, <1>0, <1>3, <1>6 DEF ScanInv
    <2> QED BY <1>0, <2>1, <2>2
  <1>9. ReadyInv'
    BY <1>0, <1>2, <1>6, <1>7 DEF ReadyInv
  <1>10. JobInv'
    BY <1>0, <1>2, <1>7 DEF JobInv
  <1>11. AnswerInv'
    BY <1>0, <1>3 DEF AnswerInv
  <1>12. RunsInv'
    <2>1. ASSUME NEW b \in Assignments \ {a} PROVE b \notin Range(batch')
      BY <1>7
    <2> QED BY <1>0, <1>1, <1>2, <1>4, <1>6, <1>7, <2>1 DEF RunsInv, JobInv
  <1> QED
    BY <1>5, <1>8, <1>9, <1>10, <1>11, <1>12

(* The expansion ends with success or with the first error.                *)
LEMMA FinishKeeps ==
  ASSUME ExpansionInv, Finish
  PROVE  ExpansionInv'
  <1> USE DEF ExpansionInv
  <1>0. /\ pc = "loop" /\ pc' = "done" /\ worklist = <<>>
        /\ UNCHANGED <<conf, worklist, notReady, scan, batch, job, ch, got, runs>>
    BY DEF Finish, Goroutines, Expander
  <1>1. ControlType'
    BY <1>0 DEF ControlType
  <1>2. Untaken' = Untaken /\ Remaining' = Remaining
    BY <1>0 DEF Untaken, Remaining
  <1>3. ScanInv' /\ ReadyInv'
    BY <1>0, <1>2 DEF ScanInv, ReadyInv
  <1>4. JobInv' /\ RunsInv' /\ AnswerInv'
    BY <1>0, <1>2 DEF JobInv, RunsInv, AnswerInv
  <1> QED
    BY <1>1, <1>3, <1>4

-----------------------------------------------------------------------------
(* The theorems.                                                           *)

(* Expansion starts with every assignment in the worklist.                 *)
LEMMA InitInv == Init => ExpansionInv
  <1> SUFFICES ASSUME Init PROVE ExpansionInv
    OBVIOUS
  <1>1. PICK order \in Orders : NewExpander(order)
    BY DEF Init
  <1>2. /\ order \in Seq(Assignments) /\ Range(order) = Assignments
        /\ Distinct(order, Len(order)) /\ Len(order) \in Nat
    BY OrdersAssumption DEF Distinct
  <1>3. /\ pc = "loop" /\ worklist = order /\ batch = <<>> /\ ch = <<>> /\ got = <<>>
        /\ job = [a \in Assignments |-> "none"] /\ runs = [a \in Assignments |-> 0]
        /\ scan = [i |-> 1, m |-> Len(order), n |-> 0]
        /\ notReady = UNION {RegistersWritten(a) : a \in Range(order)}
    BY <1>1 DEF Init, NewExpander
  <1>4. conf.size \in Nat \ {0}
    BY BatchAssumption DEF Init
  <1>5. Range(<<>>) = {} /\ Len(<<>>) = 0
    BY DEF Range
  <1>6. ControlType
    BY <1>2, <1>3, <1>4 DEF ControlType
  <1>7. Untaken = Assignments /\ Remaining = Len(order)
    BY <1>2, <1>3 DEF Untaken, Remaining
  <1>8. ScanInv
    BY <1>2, <1>3, <1>4, <1>5, <1>7 DEF ScanInv, Distinct
  <1>9. ReadyInv
    BY <1>2, <1>3, <1>5, <1>7 DEF ReadyInv
  <1>10. JobInv /\ AnswerInv /\ RunsInv
    BY <1>3, <1>5, <1>7 DEF JobInv, AnswerInv, RunsInv, Distinct
  <1> QED
    BY <1>6, <1>8, <1>9, <1>10 DEF ExpansionInv

(* Every step keeps the invariant.                                         *)
LEMMA NextInv ==
  ASSUME ExpansionInv, [Next]_vars
  PROVE  ExpansionInv'
  <1>1. CASE Main
    BY <1>1, NextStartKeeps, NextTakeKeeps, NextSkipKeeps, NextReturnKeeps, DispatchKeeps,
       CollectKeeps, FillKeeps, FillEndKeeps, ComputeOneKeeps, FinishKeeps DEF Main
  <1>2. ASSUME NEW a \in Assignments, Goroutine(a)
        PROVE  ExpansionInv'
    BY <1>2, JobComputeKeeps, JobSendKeeps DEF Goroutine
  <1>3. CASE UNCHANGED vars
    BY <1>3 DEF vars, ExpansionInv, ControlType, ScanInv, ReadyInv, JobInv, AnswerInv,
                RunsInv, Untaken, Remaining
  <1> QED
    BY <1>1, <1>2, <1>3 DEF Next

(* The invariant holds throughout every expansion.                         *)
LEMMA InvariantHolds == Spec => []ExpansionInv
  BY InitInv, NextInv, PTL DEF Spec

(* "Each assignment will only be run exactly once", in parallel or not.    *)
THEOREM EachOnce == Spec => []ExactlyOnce
  <1>1. ExpansionInv => ExactlyOnce
    <2> SUFFICES ASSUME ExpansionInv PROVE ExactlyOnce
      OBVIOUS
    <2>1. \A a \in Assignments : runs[a] <= 1
      BY DEF ExpansionInv, RunsInv
    <2>2. ASSUME pc = "done", NEW a \in Assignments PROVE runs[a] = 1
      <3>1. Untaken = {} /\ Range(batch) = {}
        BY <2>2 DEF ExpansionInv, ScanInv, Untaken, Range
      <3> QED BY <3>1 DEF ExpansionInv, RunsInv
    <2> QED BY <2>1, <2>2 DEF ExactlyOnce
  <1> QED
    BY <1>1, InvariantHolds, PTL

(* Goroutines and ComputeOne only read columns that are final.             *)
THEOREM InputsAreFinal == Spec => []InputsFinal
  <1>1. ExpansionInv => InputsFinal
    <2> SUFFICES ASSUME ExpansionInv,
                        NEW a \in Live \cup (IF pc = "compute" THEN Range(batch) ELSE {}),
                        NEW r \in RegistersRead(a) \ RegistersExpanded(a),
                        NEW b \in Assignments, r \in RegistersWritten(b)
                 PROVE  b \in FilledIn
      BY DEF InputsFinal
    <2>1. a \in Range(batch) /\ pc \in {"collect", "failed", "panic", "compute"}
      BY DEF ExpansionInv, JobInv, Live
    <2>2. b \notin Untaken \cup Range(batch)
      BY <2>1 DEF ExpansionInv, ReadyInv
    <2> QED BY <2>1, <2>2 DEF FilledIn, Unfilled
  <1> QED
    BY <1>1, InvariantHolds, PTL

(* No goroutine computes while the trace is being filled.                  *)
THEOREM FillsAreQuiet == Spec => []QuietFill
  <1>1. ExpansionInv => QuietFill
    BY DEF ExpansionInv, JobInv, QuietFill, Live
  <1> QED
    BY <1>1, InvariantHolds, PTL

(* A goroutine that is ready to answer finds room in the channel, even     *)
(* after the expansion has returned on another's error: none stays blocked *)
(* forever holding its columns.                                            *)
RoomToAnswer ==
    \A a \in Assignments : job[a] = "sending" => Len(ch) < ChannelCapacity

(* The channel has room for every answer that is still to be sent, so no   *)
(* goroutine is left blocked, even when the expansion ends on an error.    *)
THEOREM AnswersNeverBlock == Spec => []RoomToAnswer
  <1>1. ASSUME ExpansionInv, NEW a \in Assignments, job[a] = "sending"
        PROVE  Len(ch) < ChannelCapacity
    <2>1. a \in Range(batch) /\ Range(ch) \subseteq Range(batch) \ {a}
      BY <1>1 DEF ExpansionInv, JobInv, AnswerInv
    <2>2. IsFiniteSet(Range(batch)) /\ Cardinality(Range(batch)) = Len(batch)
      BY <1>1, CountDistinct DEF ExpansionInv, ControlType, ScanInv
    <2>3. Cardinality(Range(ch)) = Len(ch)
      BY <1>1, CountDistinct DEF ExpansionInv, ControlType, AnswerInv
    <2>4. Cardinality(Range(ch)) < Cardinality(Range(batch))
      BY <2>1, <2>2, FS_Subset, FS_CardinalityType, FS_RemoveElement
    <2>5. Len(batch) <= conf.size
      BY <1>1 DEF ExpansionInv, ControlType, ScanInv
    <2> QED BY <2>2, <2>3, <2>4, <2>5, <1>1 DEF ChannelCapacity, ExpansionInv, ControlType
  <1>2. ExpansionInv => RoomToAnswer
    BY <1>1 DEF RoomToAnswer
  <1> QED
    BY <1>2, InvariantHolds, PTL

-----------------------------------------------------------------------------
(* Blocks of rows: where a flattened sequence of sequences has its parts.  *)

(* A set of natural numbers has a least element.                           *)
LEMMA Least ==
  ASSUME NEW T \in SUBSET Nat, T # {}
  PROVE  \E x \in T : \A y \in T : x <= y
  <1>1. IsWellFoundedOn({p \in Nat \X Nat : p[1] < p[2]}, Nat)
    BY NatLessThanWellFounded DEF OpToRel
  <1>2. PICK x \in T : \A y \in T : ~(<<y, x>> \in {p \in Nat \X Nat : p[1] < p[2]})
    BY <1>1, WFMin, Zenon
  <1>3. \A y \in T : ~(y < x)
    BY <1>2
  <1> QED
    BY <1>3

(* The concatenations of the first entries of a sequence of sequences.     *)
Beginnings(S, seqs, m) ==
    {g \in [1..m -> Seq(S)] :
        \A i \in 1..m : g[i] = IF i = 1 THEN seqs[i] ELSE g[i - 1] \o seqs[i]}

(* They exist.                                                             *)
LEMMA BeginningsExist ==
  ASSUME NEW S, NEW n \in Nat, NEW seqs \in Seq(Seq(S)), Len(seqs) = n
  PROVE  Beginnings(S, seqs, n) # {}
  <1> DEFINE T == {m \in Nat : m <= n /\ Beginnings(S, seqs, m) = {}}
  <1> SUFFICES ASSUME T # {} PROVE FALSE
    OBVIOUS
  <1>1. PICK m \in T : \A k \in T : m <= k
    BY Least
  <1>2. m # 0
    <2>1. ASSUME m = 0 PROVE FALSE
      <3>1. [i \in 1..0 |-> <<>>] \in Beginnings(S, seqs, 0)
        BY DEF Beginnings
      <3> QED
        BY <1>1, <2>1, <3>1
    <2> QED
      BY <2>1
  <1>3. m \in Nat /\ m - 1 \in Nat /\ m <= n /\ m - 1 \notin T /\ m \in 1 .. n
    BY <1>1, <1>2
  <1>4. PICK g : g \in Beginnings(S, seqs, m - 1)
    BY <1>3
  <1>5. seqs[m] \in Seq(S)
    BY <1>3
  <1>6. PICK x : x = IF m = 1 THEN seqs[m] ELSE g[m - 1] \o seqs[m]
    OBVIOUS
  <1>7. x \in Seq(S)
    <2>1. CASE m = 1
      BY <1>5, <1>6, <2>1
    <2>2. CASE m # 1
      <3>1. g[m - 1] \in Seq(S)
        BY <1>3, <1>4, <2>2 DEF Beginnings
      <3> QED
        BY <1>5, <1>6, <2>2, <3>1
    <2> QED
      BY <2>1, <2>2
  <1>8. PICK h : h = [i \in 1..m |-> IF i = m THEN x ELSE g[i]]
    OBVIOUS
  <1>9. \A i \in 1..m - 1 : g[i] \in Seq(S) /\ g[i] = IF i = 1 THEN seqs[i] ELSE g[i - 1] \o seqs[i]
    BY <1>4 DEF Beginnings
  <1>10. h \in [1..m -> Seq(S)]
    BY <1>3, <1>7, <1>8, <1>9
  <1>11. ASSUME NEW i \in 1..m PROVE h[i] = IF i = 1 THEN seqs[i] ELSE h[i - 1] \o seqs[i]
    <2>1. CASE i = m
      <3>1. i # 1 => h[i - 1] = g[i - 1]
        BY <1>3, <1>8, <2>1
      <3> QED
        BY <1>6, <1>8, <2>1, <3>1
    <2>2. CASE i # m
      <3>1. i \in 1..m - 1 /\ h[i] = g[i] /\ (i # 1 => h[i - 1] = g[i - 1])
        BY <1>3, <1>8, <2>2
      <3> QED
        BY <1>9, <3>1
    <2> QED
      BY <2>1, <2>2
  <1>12. h \in Beginnings(S, seqs, m)
    BY <1>10, <1>11 DEF Beginnings
  <1> QED
    BY <1>1, <1>12

(* Flattening is the last of them.                                         *)
LEMMA FlattenLast ==
  ASSUME NEW S, NEW n \in Nat, NEW seqs \in Seq(Seq(S)), Len(seqs) = n, n # 0
  PROVE  \E g \in Beginnings(S, seqs, n) : FlattenSeq(seqs) = g[n]
  <1> DEFINE R(f) == [i \in 1..n |-> IF i = 1 THEN seqs[i] ELSE f[i - 1] \o seqs[i]]
  <1>1. PICK g : g \in Beginnings(S, seqs, n)
    BY BeginningsExist
  <1>2. g = R(g)
    BY <1>1 DEF Beginnings
  <1>3. PICK f : f = CHOOSE x : x = R(x)
    OBVIOUS
  <1>4. FlattenSeq(seqs) = f[n]
    BY <1>3 DEF FlattenSeq
  <1> HIDE DEF R
  <1>5. f = R(f)
    BY <1>2, <1>3
  <1>6. \A i \in 1..n : f[i] = IF i = 1 THEN seqs[i] ELSE f[i - 1] \o seqs[i]
    BY <1>5 DEF R
  <1>7. \A i \in 1..n : g[i] \in Seq(S) /\ g[i] = IF i = 1 THEN seqs[i] ELSE g[i - 1] \o seqs[i]
    BY <1>1 DEF Beginnings
  <1> DEFINE T == {i \in Nat : i \in 1..n /\ f[i] # g[i]}
  <1>8. T = {}
    <2> SUFFICES ASSUME T # {} PROVE FALSE
      OBVIOUS
    <2>1. PICK i \in T : \A k \in T : i <= k
      BY Least
    <2>2. i # 1 => i - 1 \in 1..n /\ i - 1 \notin T
      BY <2>1
    <2>3. i # 1 => f[i - 1] = g[i - 1]
      BY <2>2
    <2> QED
      BY <1>6, <1>7, <2>1, <2>3
  <1>9. f[n] = g[n]
    BY <1>8
  <1> QED
    BY <1>1, <1>4, <1>9

(* Where each of n blocks of rows ends, given their lengths.               *)
Ends(len, n) ==
    {e \in [0..n -> Nat] : e[0] = 0 /\ \A i \in 1..n : e[i] = e[i - 1] + len[i]}

(* The ends exist.                                                         *)
LEMMA EndsExist ==
  ASSUME NEW n \in Nat, NEW len, \A i \in 1..n : len[i] \in Nat
  PROVE  Ends(len, n) # {}
  <1> DEFINE T == {m \in Nat : m <= n /\ Ends(len, m) = {}}
  <1> SUFFICES ASSUME T # {} PROVE FALSE
    OBVIOUS
  <1>1. PICK m \in T : \A k \in T : m <= k
    BY Least
  <1>2. m # 0
    <2>1. ASSUME m = 0 PROVE FALSE
      <3>1. [i \in 0..0 |-> 0] \in Ends(len, 0)
        BY DEF Ends
      <3> QED
        BY <1>1, <2>1, <3>1
    <2> QED
      BY <2>1
  <1>3. m \in Nat /\ m - 1 \in Nat /\ m - 1 \notin T /\ m \in 1..n /\ len[m] \in Nat
    BY <1>1, <1>2
  <1>4. PICK e : e \in Ends(len, m - 1)
    BY <1>3
  <1>5. /\ e[0] = 0 /\ \A i \in 0..m - 1 : e[i] \in Nat
        /\ \A i \in 1..m - 1 : e[i] = e[i - 1] + len[i]
    BY <1>3, <1>4 DEF Ends
  <1>6. PICK d : d = [i \in 0..m |-> IF i = m THEN e[m - 1] + len[m] ELSE e[i]]
    OBVIOUS
  <1>7. d \in [0..m -> Nat] /\ d[0] = 0
    BY <1>3, <1>5, <1>6
  <1>8. ASSUME NEW i \in 1..m PROVE d[i] = d[i - 1] + len[i]
    <2>1. CASE i = m
      BY <1>3, <1>6, <2>1
    <2>2. CASE i # m
      BY <1>3, <1>5, <1>6, <2>2
    <2> QED
      BY <2>1, <2>2
  <1>9. d \in Ends(len, m)
    BY <1>7, <1>8 DEF Ends
  <1> QED
    BY <1>1, <1>9

(* Blocks follow each other.                                               *)
LEMMA EndsAscend ==
  ASSUME NEW n \in Nat, NEW len, \A i \in 1..n : len[i] \in Nat, NEW e \in Ends(len, n),
         NEW i \in 0..n, NEW k \in i..n
  PROVE  e[i] <= e[k]
  <1>1. \A j \in 0..n : e[j] \in Nat
    BY DEF Ends
  <1>2. \A j \in 1..n : e[j] = e[j - 1] + len[j]
    BY DEF Ends
  <1> DEFINE T == {j \in Nat : j \in i..n /\ ~(e[i] <= e[j])}
  <1>3. T = {}
    <2> SUFFICES ASSUME T # {} PROVE FALSE
      OBVIOUS
    <2>1. PICK j \in T : \A l \in T : j <= l
      BY Least
    <2>2. j # i
      BY <1>1, <2>1
    <2>3. j - 1 \in i..n /\ j \in 1..n /\ j - 1 \notin T
      BY <2>1, <2>2
    <2>4. e[i] <= e[j - 1]
      BY <2>3
    <2>5. e[j] = e[j - 1] + len[j] /\ len[j] \in Nat /\ e[j - 1] \in Nat /\ e[i] \in Nat
      BY <1>1, <1>2, <2>3
    <2> QED
      BY <2>1, <2>4, <2>5
  <1> QED
    BY <1>3

(* Every row is in one block.                                              *)
LEMMA RowInBlock ==
  ASSUME NEW n \in Nat, NEW len, \A i \in 1..n : len[i] \in Nat, NEW e \in Ends(len, n),
         NEW r \in 1..e[n]
  PROVE  \E i \in 1..n : \E j \in 1..len[i] : r = e[i - 1] + j
  <1>1. \A j \in 0..n : e[j] \in Nat
    BY DEF Ends
  <1>2. e[0] = 0 /\ \A j \in 1..n : e[j] = e[j - 1] + len[j]
    BY DEF Ends
  <1> DEFINE T == {i \in Nat : i \in 0..n /\ r <= e[i]}
  <1>3. n \in T
    BY <1>1
  <1>4. PICK i \in T : \A l \in T : i <= l
    BY <1>3, Least
  <1>5. i # 0
    BY <1>2, <1>4
  <1>6. i \in 1..n /\ i - 1 \in 0..n /\ i - 1 \notin T
    BY <1>4, <1>5
  <1>7. ~(r <= e[i - 1]) /\ r <= e[i]
    BY <1>4, <1>6
  <1>8. r - e[i - 1] \in 1..len[i] /\ r = e[i - 1] + (r - e[i - 1])
    BY <1>1, <1>2, <1>6, <1>7
  <1> QED
    BY <1>6, <1>8

(* Where a concatenation has its parts.                                    *)
LEMMA ConcatParts ==
  ASSUME NEW S, NEW a \in Seq(S), NEW b \in Seq(S)
  PROVE  /\ Len(a \o b) = Len(a) + Len(b) /\ Len(a) \in Nat /\ Len(b) \in Nat
         /\ \A k \in 1..Len(a) : (a \o b)[k] = a[k]
         /\ \A k \in 1..Len(b) : (a \o b)[Len(a) + k] = b[k]
  <1>1. Len(a \o b) = Len(a) + Len(b) /\ Len(a) \in Nat /\ Len(b) \in Nat
    OBVIOUS
  <1>2. \A k \in 1..Len(a) + Len(b) : (a \o b)[k] = IF k <= Len(a) THEN a[k] ELSE b[k - Len(a)]
    OBVIOUS
  <1>3. \A k \in 1..Len(a) : (a \o b)[k] = a[k]
    BY <1>1, <1>2
  <1>4. ASSUME NEW k \in 1..Len(b) PROVE (a \o b)[Len(a) + k] = b[k]
    <2>1. Len(a) + k \in 1..Len(a) + Len(b) /\ ~(Len(a) + k <= Len(a)) /\ (Len(a) + k) - Len(a) = k
      BY <1>1
    <2> QED
      BY <1>2, <2>1
  <1> QED
    BY <1>1, <1>3, <1>4

(* The lengths of the entries of a sequence, and those laid end to end.    *)
Lengths(len, seqs, n) == \A i \in 1..n : len[i] = Len(seqs[i])

Laid(c, S, seqs, n, len, e) ==
    /\ c \in Seq(S) /\ Len(c) = e[n]
    /\ \A i \in 1..n : \A j \in 1..len[i] : c[e[i - 1] + j] = seqs[i][j]

(* Flattening puts the entries one after the other.                        *)
LEMMA FlattenParts ==
  ASSUME NEW S, NEW n \in Nat, NEW seqs \in Seq(Seq(S)), Len(seqs) = n,
         NEW len, Lengths(len, seqs, n), NEW e \in Ends(len, n)
  PROVE  Laid(FlattenSeq(seqs), S, seqs, n, len, e)
  <1> SUFFICES /\ FlattenSeq(seqs) \in Seq(S) /\ Len(FlattenSeq(seqs)) = e[n]
               /\ \A i \in 1..n : \A j \in 1..len[i] : FlattenSeq(seqs)[e[i - 1] + j] = seqs[i][j]
    BY DEF Laid
  <1> USE DEF Lengths
  <1>1. CASE n = 0
    <2>1. seqs = <<>> /\ FlattenSeq(seqs) = <<>>
      BY <1>1 DEF FlattenSeq
    <2>2. e[0] = 0
      BY DEF Ends
    <2>3. <<>> \in Seq(S) /\ Len(<<>>) = 0 /\ 1..0 = {}
      OBVIOUS
    <2> QED
      BY <1>1, <2>1, <2>2, <2>3
  <1>2. CASE n # 0
    <2>1. PICK g \in Beginnings(S, seqs, n) : FlattenSeq(seqs) = g[n]
      BY <1>2, FlattenLast
    <2>2. \A i \in 1..n : g[i] \in Seq(S) /\ g[i] = IF i = 1 THEN seqs[i] ELSE g[i - 1] \o seqs[i]
      BY DEF Beginnings
    <2>3. /\ \A i \in 0..n : e[i] \in Nat
          /\ e[0] = 0 /\ \A i \in 1..n : e[i] = e[i - 1] + len[i]
      BY DEF Ends
    <2>4. \A i \in 1..n : seqs[i] \in Seq(S) /\ len[i] \in Nat /\ len[i] = Len(seqs[i])
      OBVIOUS
    <2> DEFINE Good(m) == /\ Len(g[m]) = e[m]
                          /\ \A i \in 1..m : \A j \in 1..len[i] : g[m][e[i - 1] + j] = seqs[i][j]
               T == {m \in Nat : m \in 1..n /\ ~Good(m)}
    <2> HIDE DEF Good
    <2>8. T \in SUBSET Nat /\ \A m \in T : m \in 1..n /\ ~Good(m)
      OBVIOUS
    <2>9. \A m \in 1..n : m \notin T => Good(m)
      OBVIOUS
    <2> HIDE DEF T
    <2>5. T = {}
      <3> SUFFICES ASSUME T # {} PROVE FALSE
        OBVIOUS
      <3>1. PICK m \in T : \A l \in T : m <= l
        BY <2>8, Least
      <3>2. CASE m = 1
        <4>1. 1 \in 1..n /\ 1 - 1 = 0
          BY <1>2
        <4>2. g[1] = seqs[1]
          BY <2>2, <4>1
        <4>3. e[1] = len[1] /\ e[1 - 1] = 0 /\ len[1] \in Nat /\ len[1] = Len(seqs[1])
          <5>1. e[1] = e[1 - 1] + len[1]
            BY <2>3, <4>1
          <5>2. e[1 - 1] = 0
            BY <2>3, <4>1
          <5>3. len[1] \in Nat /\ len[1] = Len(seqs[1])
            BY <2>4, <4>1
          <5> QED
            BY <5>1, <5>2, <5>3
        <4>4. \A i \in 1..1 : i = 1
          OBVIOUS
        <4>5. \A j \in 1..len[1] : e[1 - 1] + j = j
          BY <4>3
        <4>6. Good(1)
          BY <4>2, <4>3, <4>4, <4>5 DEF Good
        <4> QED
          BY <2>8, <3>1, <3>2, <4>6
      <3>3. CASE m # 1
        <4>1. m \in 1..n /\ m - 1 \in 1..n /\ m - 1 \notin T
          <5>1. m \in 1..n /\ m \in Nat
            BY <2>8, <3>1
          <5>2. m - 1 \in 1..n /\ ~(m <= m - 1)
            BY <3>3, <5>1
          <5> QED
            BY <3>1, <5>1, <5>2
        <4>2. Good(m - 1)
          BY <2>9, <4>1
        <4>3. PICK a \in Seq(S) : a = g[m - 1]
          BY <2>2, <4>1
        <4>4. PICK b \in Seq(S) : b = seqs[m]
          BY <2>4, <4>1
        <4>5. g[m] = a \o b
          BY <2>2, <3>3, <4>1, <4>3, <4>4
        <4>6. /\ Len(a \o b) = Len(a) + Len(b) /\ Len(a) \in Nat /\ Len(b) \in Nat
              /\ \A k \in 1..Len(a) : (a \o b)[k] = a[k]
              /\ \A k \in 1..Len(b) : (a \o b)[Len(a) + k] = b[k]
          BY ConcatParts
        <4>7. Len(a) = e[m - 1] /\ Len(b) = len[m]
          BY <2>4, <4>1, <4>2, <4>3, <4>4 DEF Good
        <4>8. Len(g[m]) = e[m]
          BY <2>3, <4>1, <4>5, <4>6, <4>7
        <4>9. ASSUME NEW i \in 1..m, NEW j \in 1..len[i] PROVE g[m][e[i - 1] + j] = seqs[i][j]
          <5>1. CASE i = m
            BY <4>4, <4>5, <4>6, <4>7, <5>1
          <5>2. CASE i # m
            <6>1. i \in 1..m - 1 /\ i \in 0..n /\ m - 1 \in i..n
              BY <4>1, <5>2
            <6>2. e[i] <= e[m - 1]
              BY <2>4, <6>1, EndsAscend
            <6>3. e[i] = e[i - 1] + len[i] /\ len[i] \in Nat /\ e[i - 1] \in Nat /\ e[m - 1] \in Nat
              BY <2>3, <2>4, <4>1, <6>1
            <6>4. e[i - 1] + j \in 1..Len(a)
              BY <4>7, <6>2, <6>3
            <6>5. a[e[i - 1] + j] = seqs[i][j]
              BY <4>2, <4>3, <6>1 DEF Good
            <6> QED
              BY <4>5, <4>6, <6>4, <6>5
          <5> QED
            BY <5>1, <5>2
        <4> QED
          BY <2>8, <3>1, <4>8, <4>9 DEF Good
      <3> QED
        BY <3>2, <3>3
    <2>6. n \in 1..n
      BY <1>2
    <2>7. Good(n)
      BY <2>5, <2>6, <2>9
    <2> QED
      BY <2>1, <2>2, <2>6, <2>7 DEF Good
  <1> QED
    BY <1>1, <1>2

(* The lengths of the blocks of rows, one block per instance, and what     *)
(* stands in a column of them.                                             *)
StepLengths(a, args, n) == [i \in 1..n |-> Steps(a, args[i])]

Positive(len, n) == \A i \in 1..n : len[i] \in Nat \ {0}

Entries(x, S, n) == \A i \in 1..n : x[i] \in S

StepRows(c, S, n, len, e, ret, bef) ==
    /\ c \in Seq(S) /\ Len(c) = e[n]
    /\ \A i \in 1..n : \A j \in 1..len[i] :
          c[e[i - 1] + j] = IF j = len[i] THEN ret[i] ELSE bef[i]

(* Blocks of rows put one after the other.                                 *)
LEMMA BlocksParts ==
  ASSUME NEW S, NEW n \in Nat, NEW len, Positive(len, n),
         NEW ret, NEW bef, Entries(ret, S, n), Entries(bef, S, n), NEW e \in Ends(len, n)
  PROVE  StepRows(FlattenSeq([i \in 1..n |-> [j \in 1..len[i] |-> IF j = len[i] THEN ret[i] ELSE bef[i]]]),
                  S, n, len, e, ret, bef)
  <1>1. PICK seqs : seqs = [i \in 1..n |-> [j \in 1..len[i] |-> IF j = len[i] THEN ret[i] ELSE bef[i]]]
    OBVIOUS
  <1>2. \A i \in 1..n : len[i] \in Nat /\ ret[i] \in S /\ bef[i] \in S
    BY DEF Positive, Entries
  <1>3. ASSUME NEW i \in 1..n
        PROVE  /\ seqs[i] \in Seq(S) /\ Len(seqs[i]) = len[i]
               /\ \A j \in 1..len[i] : seqs[i][j] = IF j = len[i] THEN ret[i] ELSE bef[i]
    <2>1. seqs[i] = [j \in 1..len[i] |-> IF j = len[i] THEN ret[i] ELSE bef[i]]
      BY <1>1
    <2> QED
      BY <1>2, <2>1
  <1>4. seqs \in Seq(Seq(S)) /\ Len(seqs) = n
    <2>1. seqs = [i \in 1..n |-> seqs[i]]
      BY <1>1
    <2> QED
      BY <1>3, <2>1
  <1>5. Lengths(len, seqs, n)
    BY <1>3 DEF Lengths
  <1>6. Laid(FlattenSeq(seqs), S, seqs, n, len, e)
    BY <1>4, <1>5, FlattenParts
  <1>7. StepRows(FlattenSeq(seqs), S, n, len, e, ret, bef)
    BY <1>3, <1>6 DEF StepRows, Laid
  <1> QED
    BY <1>1, <1>7

(* The rows of a function, one per step: what stands where.                *)
LEMMA StepColumnParts ==
  ASSUME NEW a, NEW S, NEW n \in Nat, NEW args, DOMAIN args = 1..n,
         NEW len, len = StepLengths(a, args, n), Positive(len, n),
         NEW ret, NEW bef, Entries(ret, S, n), Entries(bef, S, n),
         NEW e \in Ends(len, n)
  PROVE  StepRows(StepColumn(a, args, ret, bef), S, n, len, e, ret, bef)
  <1>1. \A i \in 1..n : len[i] = Steps(a, args[i])
    BY DEF StepLengths
  <1>2. [i \in DOMAIN args |-> [j \in 1..Steps(a, args[i]) |-> IF j = Steps(a, args[i]) THEN ret[i] ELSE bef[i]]]
          = [i \in 1..n |-> [j \in 1..len[i] |-> IF j = len[i] THEN ret[i] ELSE bef[i]]]
    BY <1>1
  <1>3. StepColumn(a, args, ret, bef)
          = FlattenSeq([i \in 1..n |-> [j \in 1..len[i] |-> IF j = len[i] THEN ret[i] ELSE bef[i]]])
    BY <1>2 DEF StepColumn
  <1>4. StepRows(FlattenSeq([i \in 1..n |-> [j \in 1..len[i] |-> IF j = len[i] THEN ret[i] ELSE bef[i]]]),
                  S, n, len, e, ret, bef)
    BY BlocksParts
  <1> QED
    BY <1>3, <1>4

(* Rows in ascending order, and the last of those with the same key.       *)
Ascending(key, h) ==
    (\A i \in 1..h : key[i] \in Int) /\ \A i, j \in 1..h : i <= j => key[i] <= key[j]

LastRow(key, h, r) == r \in 1..h /\ \A i \in 1..h : i > r => key[i] # key[r]

(* In ascending rows FindLast finds the last row of a key.                 *)
LEMMA FindLastHit ==
  ASSUME NEW t, NEW f, NEW h \in Nat, h = t.height[ModuleOf[ArgumentOf(f)]],
         NEW key, key = t.data[ArgumentOf(f)], Ascending(key, h), NEW r, LastRow(key, h, r)
  PROVE  FindLast(t, f, key[r]) = r
  <1> USE DEF Ascending, LastRow
  <1> DEFINE reached == {i \in 1..h : key[i] >= key[r]}
             run == {j \in reached : \A i \in reached : i <= j => key[i] = key[r]}
  <1>1. FindLast(t, f, key[r]) = IF run = {} THEN 0 ELSE Max(run)
    BY DEF FindLast
  <1>2. r \in reached
    OBVIOUS
  <1>3. \A i \in reached : i <= r => key[i] = key[r]
    OBVIOUS
  <1>4. r \in run
    BY <1>2, <1>3
  <1>5. ASSUME NEW j \in run PROVE j \in 1..h /\ j <= r
    <2>1. j \in reached /\ j \in 1..h
      OBVIOUS
    <2>2. key[j] = key[r]
      BY <2>1
    <2> QED
      BY <2>1, <2>2
  <1> HIDE DEF run
  <1>6. Max(run) = r
    <2>1. \A y \in run : r >= y
      BY <1>5
    <2>2. \E x \in run : \A y \in run : x >= y
      BY <1>4, <2>1
    <2>3. Max(run) \in run /\ \A y \in run : Max(run) >= y
      BY <2>2 DEF Max
    <2>4. Max(run) >= r /\ Max(run) \in 1..h /\ Max(run) <= r
      BY <1>4, <1>5, <2>3
    <2> QED
      BY <2>4
  <1> QED
    BY <1>1, <1>4, <1>6

(* A key that no row holds is not found.                                   *)
LEMMA FindLastMiss ==
  ASSUME NEW t, NEW f, NEW h \in Nat, h = t.height[ModuleOf[ArgumentOf(f)]],
         NEW arg \in Int, \A i \in 1..h : t.data[ArgumentOf(f)][i] # arg
  PROVE  FindLast(t, f, arg) = 0
  BY DEF FindLast

-----------------------------------------------------------------------------
(* The trace in the middle of the expansion.                               *)

(* The trace when the assignments of done have taken effect: the computed  *)
(* columns of the others are not there, their functions have the instances *)
(* they started with, and what was done needed nothing that was not.       *)
Sound(t, done) ==
    /\ t.height \in [Modules -> Nat]
    /\ \A r \in Registers :
          IF t.data[r] = NoData THEN \E a \in Assignments \ done : r \in RegistersWritten(a)
          ELSE Column(t.data[r], t.height[ModuleOf[r]])
    /\ \A a \in (Assignments \ FunctionAssignments) \ done :
          \A r \in RegistersWritten(a) : t.data[r] = NoData
    /\ \A f \in FunctionAssignments :
          t.data[ArgumentOf(f)] \in Seq(Int) /\ t.data[ResultOf(f)] \in Seq(Int)
    /\ \A f \in FunctionAssignments \ done : InstancesSound(t, f)
    /\ \A a \in done : \A b \in Assignments \ done : Needs(a) \cap RegistersWritten(b) = {}

(* All that a needs is final.                                              *)
ReadyIn(a, done) ==
    a \in Assignments \ done /\ \A b \in Assignments \ done : Needs(a) \cap RegistersWritten(b) = {}

(* The module of a function.                                               *)
Home(f) == ModuleOf[ArgumentOf(f)]

(* The three registers of a function.                                      *)
LEMMA FunctionRegisters ==
  ASSUME SoundSchema, NEW f \in FunctionAssignments
  PROVE  /\ f \in Assignments /\ Writes[f] \in Seq(Registers) /\ Len(Writes[f]) = 3
         /\ DOMAIN Writes[f] = 1..3 /\ IsInjective(Writes[f])
         /\ \A i \in 1..3 : Writes[f][i] \in Registers /\ ModuleOf[Writes[f][i]] = Home(f)
         /\ ArgumentOf(f) = Writes[f][1] /\ ResultOf(f) = Writes[f][2]
         /\ ArgumentOf(f) \in Registers /\ ResultOf(f) \in Registers
         /\ ArgumentOf(f) \in RegistersWritten(f) /\ ResultOf(f) \in RegistersWritten(f)
         /\ ModuleOf[ResultOf(f)] = Home(f) /\ Home(f) \in Modules
         /\ RegistersWritten(f) = {Writes[f][i] : i \in 1..3}
  <1>1. f \in Assignments /\ Writes[f] \in Seq(Registers) /\ ModuleOf \in [Registers -> Modules]
    BY SignatureAssumption
  <1>2. Len(Writes[f]) = 3 /\ IsInjective(Writes[f]) /\ \A r \in RegistersWritten(f) : ModuleOf[r] = Home(f)
    BY DEF SoundSchema, FunctionSound, Home
  <1>3. DOMAIN Writes[f] = 1..3 /\ \A i \in 1..3 : Writes[f][i] \in Registers
    BY <1>1, <1>2
  <1>4. RegistersWritten(f) = {Writes[f][i] : i \in 1..3}
    BY <1>3 DEF RegistersWritten, Range
  <1>5. 1 \in 1..3 /\ 2 \in 1..3
    OBVIOUS
  <1> QED
    BY <1>1, <1>2, <1>3, <1>4, <1>5 DEF ArgumentOf, ResultOf, Home

(* The one register of another assignment.                                 *)
LEMMA OtherRegister ==
  ASSUME SoundSchema, NEW a \in Assignments \ FunctionAssignments
  PROVE  /\ Writes[a] \in Seq(Registers) /\ DOMAIN Writes[a] = {1} /\ Writes[a][1] \in Registers
         /\ RegistersWritten(a) = {Writes[a][1]} /\ ModuleOf[Writes[a][1]] \in Modules
         /\ IsInjective(Writes[a]) /\ Needs(a) = RegistersRead(a)
  <1>1. Writes[a] \in Seq(Registers) /\ ModuleOf \in [Registers -> Modules]
    BY SignatureAssumption
  <1>2. Len(Writes[a]) = 1 /\ RegistersExpanded(a) = {}
    BY DEF SoundSchema
  <1>3. DOMAIN Writes[a] = {1} /\ Writes[a][1] \in Registers
    <2>1. DOMAIN Writes[a] = 1..1 /\ 1 \in 1..1 /\ 1..1 = {1}
      BY <1>1, <1>2
    <2> QED
      BY <1>1, <2>1
  <1> QED
    BY <1>1, <1>2, <1>3 DEF RegistersWritten, Range, IsInjective, Needs

(* Functions have modules of their own.                                    *)
LEMMA ModulesApart ==
  ASSUME SoundSchema, NEW f \in FunctionAssignments, NEW g \in FunctionAssignments, f # g
  PROVE  Home(f) # Home(g)
  <1> SUFFICES ASSUME Home(f) = Home(g) PROVE FALSE
    OBVIOUS
  <1>1. /\ ArgumentOf(g) \in Registers /\ ArgumentOf(g) \in RegistersWritten(g)
        /\ ModuleOf[ArgumentOf(g)] = ModuleOf[ArgumentOf(f)] /\ f \in Assignments /\ g \in Assignments
    BY FunctionRegisters DEF Home
  <1>2. \E a \in Assignments : a # g /\ ArgumentOf(g) \in RegistersWritten(a)
    <2>1. CASE ArgumentOf(g) \in RegistersWritten(f)
      BY <1>1, <2>1
    <2>2. CASE ArgumentOf(g) \notin RegistersWritten(f)
      BY <1>1, <2>2 DEF SoundSchema, FunctionSound
    <2> QED
      BY <2>1, <2>2
  <1> QED
    BY <1>1, <1>2, OneWriterAssumption DEF RegistersWritten

(* An assignment that is ready does not panic.                             *)
LEMMA NoPanic ==
  ASSUME SoundSchema, NEW t, NEW done, Sound(t, done), NEW a, ReadyIn(a, done)
  PROVE  ~Panics(t, a)
  <1>1. CASE a \in FunctionAssignments
    <2>1. InstancesSound(t, a)
      BY <1>1 DEF Sound, ReadyIn
    <2>2. ~FunctionPanics(t, a)
      BY <2>1 DEF InstancesSound
    <2> QED
      BY <1>1, <2>2 DEF Panics
  <1>2. CASE a \notin FunctionAssignments
    <2>1. a \in Assignments \ FunctionAssignments /\ Reads[a] \in Seq(Registers)
      BY <1>2, SignatureAssumption DEF ReadyIn
    <2>2. ASSUME NEW r \in RegistersRead(a), t.data[r] = NoData PROVE FALSE
      <3>1. r \in Registers
        BY <2>1 DEF RegistersRead, Range
      <3>2. PICK b \in Assignments \ done : r \in RegistersWritten(b)
        BY <2>2, <3>1 DEF Sound
      <3>3. r \in Needs(a)
        BY <2>1, OtherRegister
      <3> QED
        BY <3>2, <3>3 DEF ReadyIn
    <2> QED
      BY <1>2, <2>2 DEF Panics, RegisterPanics
  <1> QED
    BY <1>1, <1>2

(* A column that is filled holds the data computed for it.                 *)
LEMMA FillsOwn ==
  ASSUME NEW t, NEW a, NEW cols, IsInjective(Writes[a]), NEW i \in DOMAIN Writes[a],
         Writes[a][i] \in Registers
  PROVE  FillColumns(t, a, cols)[Writes[a][i]] = cols[i]
  <1>1. Writes[a][i] \in RegistersWritten(a)
    BY DEF RegistersWritten, Range
  <1>2. (CHOOSE k \in DOMAIN Writes[a] : Writes[a][k] = Writes[a][i]) = i
    BY DEF IsInjective
  <1> QED
    BY <1>1, <1>2 DEF FillColumns

(* A computed column has the height of its module, so nothing is resized.  *)
LEMMA FillOther ==
  ASSUME SoundSchema, NEW t, NEW done, Sound(t, done),
         NEW a \in Assignments \ FunctionAssignments, NEW u, u = FillComputedColumns(t, a, Compute(t, a))
  PROVE  /\ u.ok /\ u.t.height = t.height
         /\ \A r \in Registers \ RegistersWritten(a) : u.t.data[r] = t.data[r]
         /\ Column(u.t.data[Writes[a][1]], t.height[ModuleOf[Writes[a][1]]])
  <1>1. PICK r : r = Writes[a][1]
    OBVIOUS
  <1>2. PICK h \in Nat : h = t.height[ModuleOf[r]]
    BY <1>1, OtherRegister DEF Sound
  <1>3. PICK c : c = [i \in 1..h |-> Value(a, SourceValues(t, a, i))]
    OBVIOUS
  <1>4. Compute(t, a) = <<c>>
    BY <1>1, <1>2, <1>3 DEF Compute, ComputeRegister
  <1>5. c \in Seq(Range(c)) /\ Len(c) = h
    <2>1. \A i \in 1..h : c[i] \in Range(c)
      BY <1>3 DEF Range
    <2> QED
      BY <1>3, <2>1
  <1>6. Resized(t, a, <<c>>) = {}
    <2>1. DOMAIN Writes[a] = {1} /\ Len(<<c>>[1]) = t.height[ModuleOf[Writes[a][1]]]
      BY <1>1, <1>2, <1>5, OtherRegister
    <2> QED
      BY <2>1 DEF Resized
  <1>7. FillColumns(t, a, <<c>>)[r] = c
    BY <1>1, OtherRegister, FillsOwn
  <1>8. u.t.data = FillColumns(t, a, <<c>>) /\ u.ok /\ u.t.height = [m \in Modules |-> t.height[m]]
    <2>1. u = FillComputedColumns(t, a, <<c>>)
      BY <1>4
    <2>2. u.t.data = FillColumns(t, a, <<c>>)
      BY <2>1 DEF FillComputedColumns
    <2>3. u.ok
      BY <2>1, <1>6 DEF FillComputedColumns
    <2>4. u.t.height = [m \in Modules |-> t.height[m]]
      BY <2>1, <1>6 DEF FillComputedColumns
    <2> QED
      BY <2>2, <2>3, <2>4
  <1>9. u.t.height = t.height
    BY <1>8 DEF Sound
  <1> QED
    <2>1. \A q \in Registers \ RegistersWritten(a) : u.t.data[q] = t.data[q]
      BY <1>8 DEF FillColumns
    <2> QED
      BY <1>1, <1>2, <1>5, <1>7, <1>8, <1>9, <2>1 DEF Column

(* The rows of f in u are those in t, each stretched to its steps.         *)
Stretched(t, u, f, n, len, e) ==
    /\ n = t.height[Home(f)] /\ \A i \in 1..n : len[i] \in Nat \ {0}
    /\ e \in Ends(len, n) /\ e[n] \in Nat
    /\ u.height = [t.height EXCEPT ![Home(f)] = e[n]]
    /\ \A r \in RegistersWritten(f) : u.data[r] \in Seq(Int) /\ Len(u.data[r]) = e[n]
    /\ \A i \in 1..n : /\ \A j \in 1..len[i] : u.data[ArgumentOf(f)][e[i - 1] + j] = t.data[ArgumentOf(f)][i]
                       /\ u.data[ResultOf(f)][e[i - 1] + len[i]] = t.data[ResultOf(f)][i]
    /\ \A r \in Registers \ RegistersWritten(f) : u.data[r] = t.data[r]

(* The columns that a function computes.                                   *)
StepsLaid(cols, args, results, n, len, e) ==
    /\ \A i \in 1..n : len[i] \in Nat \ {0} /\ args[i] \in Int /\ results[i] \in Int
    /\ \A k \in 1..3 : cols[k] \in Seq(Int) /\ Len(cols[k]) = e[n]
    /\ \A i \in 1..n : /\ \A j \in 1..len[i] : cols[1][e[i - 1] + j] = args[i]
                       /\ cols[2][e[i - 1] + len[i]] = results[i]

(* They hold its instances, in order.                                      *)
LEMMA FunctionColumns ==
  ASSUME SoundSchema, NoDataAssumption, NEW t, NEW done, Sound(t, done), NEW f \in FunctionAssignments \ done,
         NEW cols, cols = Compute(t, f), NEW n \in Nat, n = t.height[Home(f)],
         NEW args, args = t.data[ArgumentOf(f)], NEW results, results = t.data[ResultOf(f)],
         NEW len, len = StepLengths(f, args, n), NEW e \in Ends(len, n)
  PROVE  StepsLaid(cols, args, results, n, len, e)
  <1>1. InstancesSound(t, f) /\ args \in Seq(Int) /\ results \in Seq(Int)
    BY DEF Sound
  <1>2. Len(args) = n /\ Len(results) = n
    <2>1. args # NoData /\ results # NoData
      BY <1>1 DEF NoDataAssumption
    <2>2. ArgumentOf(f) \in Registers /\ ResultOf(f) \in Registers /\ ModuleOf[ArgumentOf(f)] = Home(f) /\ ModuleOf[ResultOf(f)] = Home(f)
      BY FunctionRegisters DEF Home
    <2>3. Len(t.data[ArgumentOf(f)]) = t.height[ModuleOf[ArgumentOf(f)]]
      BY <2>1, <2>2 DEF Sound, Column
    <2>4. Len(t.data[ResultOf(f)]) = t.height[ModuleOf[ResultOf(f)]]
      BY <2>1, <2>2 DEF Sound, Column
    <2> QED
      BY <2>2, <2>3, <2>4
  <1>3. /\ \A i \in 1..n : len[i] \in Nat \ {0} /\ args[i] \in Int /\ results[i] \in Int
        /\ Positive(len, n) /\ Entries(args, Int, n) /\ Entries(results, Int, n)
    <2>1. \A i \in 1..n : len[i] = Steps(f, args[i])
      BY DEF StepLengths
    <2>2. DOMAIN args = 1..n /\ \A i \in 1..n : args[i] \in Int /\ results[i] \in Int
      BY <1>1, <1>2
    <2>3. \A i \in DOMAIN args : Steps(f, args[i]) \in Nat \ {0}
      BY <1>1 DEF InstancesSound
    <2>4. \A i \in 1..n : len[i] \in Nat \ {0}
      BY <2>1, <2>2, <2>3
    <2> QED
      BY <2>2, <2>4 DEF Positive, Entries
  <1>4. \A i \in 1..n : Run(t, f, args[i]) = results[i]
    BY <1>1 DEF InstancesSound, FunctionPanics, Home
  <1>5. PICK ones, zeros : ones = [i \in 1..n |-> 1] /\ zeros = [i \in 1..n |-> 0]
    OBVIOUS
  <1>6. args = [i \in 1..n |-> args[i]] /\ results = [i \in 1..n |-> results[i]]
    BY <1>1, <1>2
  <1>7. cols = <<StepColumn(f, args, args, args), StepColumn(f, args, results, zeros), StepColumn(f, args, ones, zeros)>>
    <2>1. [i \in 1..n |-> Run(t, f, args[i])] = results
      BY <1>4, <1>6
    <2>2. cols = ComputeFunction(t, f)
      BY DEF Compute
    <2>3. ComputeFunction(t, f) =
            LET a2 == [i \in 1..n |-> args[i]]
            IN  <<StepColumn(f, a2, a2, a2), StepColumn(f, a2, [i \in 1..n |-> Run(t, f, a2[i])], zeros),
                  StepColumn(f, a2, ones, zeros)>>
      BY <1>5 DEF ComputeFunction, Home
    <2> QED
      BY <1>6, <2>1, <2>2, <2>3
  <1>8. DOMAIN args = 1..n /\ Entries(ones, Int, n) /\ Entries(zeros, Int, n)
    BY <1>5, <1>6 DEF Entries
  <1>9. /\ cols[1] = StepColumn(f, args, args, args) /\ cols[2] = StepColumn(f, args, results, zeros)
        /\ cols[3] = StepColumn(f, args, ones, zeros)
    BY <1>7
  <1>12. StepRows(cols[1], Int, n, len, e, args, args)
    BY <1>3, <1>8, <1>9, StepColumnParts
  <1>13. StepRows(cols[2], Int, n, len, e, results, zeros)
    BY <1>3, <1>8, <1>9, StepColumnParts
  <1>14. StepRows(cols[3], Int, n, len, e, ones, zeros)
    BY <1>3, <1>8, <1>9, StepColumnParts
  <1>15. \A i \in 1..n : len[i] \in 1..len[i]
    BY <1>3
  <1>16. \A k \in 1..3 : k = 1 \/ k = 2 \/ k = 3
    OBVIOUS
  <1>17. \A k \in 1..3 : cols[k] \in Seq(Int) /\ Len(cols[k]) = e[n]
    BY <1>12, <1>13, <1>14, <1>16 DEF StepRows
  <1>18. \A i \in 1..n : \A j \in 1..len[i] : cols[1][e[i - 1] + j] = args[i]
    BY <1>12 DEF StepRows
  <1>19. \A i \in 1..n : cols[2][e[i - 1] + len[i]] = results[i]
    BY <1>13, <1>15 DEF StepRows
  <1> QED
    BY <1>3, <1>17, <1>18, <1>19 DEF StepsLaid

(* Tracing a function fills its module, and only that, with the steps of   *)
(* its instances; the resizing that follows goes through.                  *)
LEMMA FillFunction ==
  ASSUME SoundSchema, NoDataAssumption, NEW t, NEW done, Sound(t, done), NEW f \in FunctionAssignments \ done,
         NEW u, u = FillComputedColumns(t, f, Compute(t, f))
  PROVE  u.ok /\ \E n, len, e : Stretched(t, u.t, f, n, len, e)
  <1>1. f \in FunctionAssignments /\ f \in Assignments \ done /\ Home(f) \in Modules
    BY FunctionRegisters
  <1>2. PICK n \in Nat : n = t.height[Home(f)]
    BY <1>1 DEF Sound
  <1>3. PICK args, results : args = t.data[ArgumentOf(f)] /\ results = t.data[ResultOf(f)]
    OBVIOUS
  <1>4. PICK len : len = StepLengths(f, args, n)
    OBVIOUS
  <1>5. PICK cols : cols = Compute(t, f)
    OBVIOUS
  <1>6. \A i \in 1..n : len[i] \in Nat \ {0}
    <2>1. InstancesSound(t, f)
      BY DEF Sound
    <2>2. DOMAIN args = 1..n
      <3>1. args \in Seq(Int) /\ args # NoData
        BY <1>3, <2>1 DEF InstancesSound, NoDataAssumption
      <3>2. ArgumentOf(f) \in Registers /\ ModuleOf[ArgumentOf(f)] = Home(f)
        BY FunctionRegisters DEF Home
      <3>3. Len(args) = n
        BY <1>2, <1>3, <3>1, <3>2 DEF Sound, Column
      <3> QED
        BY <3>1, <3>3
    <2>3. \A i \in DOMAIN args : Steps(f, args[i]) \in Nat \ {0}
      BY <1>3, <2>1 DEF InstancesSound
    <2>4. \A i \in 1..n : len[i] = Steps(f, args[i])
      BY <1>4 DEF StepLengths
    <2> QED
      BY <2>2, <2>3, <2>4
  <1>7. PICK e : e \in Ends(len, n)
    <2>1. \A i \in 1..n : len[i] \in Nat
      BY <1>6
    <2> QED
      BY <2>1, EndsExist
  <1>8. /\ \A k \in 1..3 : cols[k] \in Seq(Int) /\ Len(cols[k]) = e[n]
        /\ \A i \in 1..n : /\ \A j \in 1..len[i] : cols[1][e[i - 1] + j] = args[i]
                           /\ cols[2][e[i - 1] + len[i]] = results[i]
    <2>1. StepsLaid(cols, args, results, n, len, e)
      BY <1>2, <1>3, <1>4, <1>5, <1>7, FunctionColumns
    <2> QED
      BY <2>1 DEF StepsLaid
  <1>9. e[n] \in Nat
    BY <1>7 DEF Ends
  <1>10. PICK data : data = FillColumns(t, f, cols)
    OBVIOUS
  <1>11. \A k \in 1..3 : data[Writes[f][k]] = cols[k] /\ Writes[f][k] \in Registers /\ ModuleOf[Writes[f][k]] = Home(f)
    <2>1. /\ IsInjective(Writes[f]) /\ DOMAIN Writes[f] = 1..3
          /\ \A i \in 1..3 : Writes[f][i] \in Registers /\ ModuleOf[Writes[f][i]] = Home(f)
      BY FunctionRegisters
    <2> QED
      BY <1>10, <2>1, FillsOwn
  <1>12. \A r \in Registers \ RegistersWritten(f) : data[r] = t.data[r]
    BY <1>10 DEF FillColumns
  <1>13. \A r \in RegistersWritten(f) : data[r] \in Seq(Int) /\ Len(data[r]) = e[n]
    <2>1. RegistersWritten(f) = {Writes[f][i] : i \in 1..3}
      BY FunctionRegisters
    <2> QED
      BY <1>8, <1>11, <2>1
  <1>14. ASSUME NEW r \in Registers \ RegistersWritten(f), ModuleOf[r] = Home(f)
         PROVE  data[r] = NoData
    <2>1. FunctionSound(f)
      BY DEF SoundSchema
    <2>2. PICK a \in Assignments \ FunctionAssignments :
             r \in RegistersWritten(a) /\ Needs(a) \cap RegistersWritten(f) # {}
      BY <1>14, <2>1 DEF FunctionSound, Home
    <2>3. a \notin done
      BY <1>1, <2>2 DEF Sound
    <2>4. t.data[r] = NoData
      BY <2>2, <2>3 DEF Sound
    <2> QED
      BY <1>12, <2>4
  <1>15. \A r \in Filled(data, Home(f)) : r \in RegistersWritten(f) /\ Len(data[r]) = e[n]
    BY <1>13, <1>14 DEF Filled
  <1>16. ArgumentOf(f) \in Filled(data, Home(f)) /\ ResultOf(f) \in RegistersWritten(f)
    <2>1. ArgumentOf(f) \in Registers /\ ModuleOf[ArgumentOf(f)] = Home(f) /\ ArgumentOf(f) \in RegistersWritten(f)
      BY FunctionRegisters DEF Home
    <2>2. data[ArgumentOf(f)] \in Seq(Int)
      BY <1>13, <2>1
    <2>3. data[ArgumentOf(f)] # NoData
      BY <2>2 DEF NoDataAssumption
    <2> QED
      BY <2>1, <2>3, FunctionRegisters DEF Filled
  <1>17. CanResize(data, Home(f)) /\ Resize(data, Home(f)) = e[n]
    <2>1. Multiplier[Home(f)] = 1
      BY DEF SoundSchema, FunctionSound, Home
    <2>2. e[n] % 1 = 0
      BY <1>9
    <2>3. CanResize(data, Home(f))
      BY <1>15, <2>1, <2>2 DEF CanResize
    <2>4. (CHOOSE r \in Filled(data, Home(f)) : TRUE) \in Filled(data, Home(f))
      BY <1>16
    <2> QED
      BY <1>15, <2>3, <2>4 DEF Resize
  <1>18. PICK resized : resized = Resized(t, f, cols)
    OBVIOUS
  <1>19. resized \subseteq {Home(f)} /\ (Home(f) \notin resized => e[n] = t.height[Home(f)])
    <2>1. DOMAIN Writes[f] = 1..3 /\ 1 \in 1..3
      BY FunctionRegisters
    <2>2. resized = {ModuleOf[Writes[f][i]] : i \in {j \in 1..3 : Len(cols[j]) # t.height[ModuleOf[Writes[f][j]]]}}
      BY <1>18, <2>1 DEF Resized
    <2>3. resized \subseteq {Home(f)}
      BY <1>11, <2>2
    <2>4. ASSUME e[n] # t.height[Home(f)] PROVE Home(f) \in resized
      BY <1>8, <1>11, <2>1, <2>2, <2>4
    <2> QED
      BY <2>3, <2>4
  <1>20. u = [t |-> [data |-> data,
                     height |-> [m \in Modules |-> IF m \in resized THEN Resize(data, m) ELSE t.height[m]]],
              ok |-> \A m \in resized : CanResize(data, m)]
    BY <1>5, <1>10, <1>18 DEF FillComputedColumns
  <1>21. u.ok
    <2>1. \A m \in resized : CanResize(data, m)
      BY <1>17, <1>19
    <2> QED
      BY <1>20, <2>1
  <1>22. u.t.data = data
    BY <1>20
  <1>23. u.t.height = [t.height EXCEPT ![Home(f)] = e[n]]
    <2>1. u.t.height = [m \in Modules |-> IF m \in resized THEN Resize(data, m) ELSE t.height[m]]
      BY <1>20
    <2>2. t.height \in [Modules -> Nat]
      BY DEF Sound
    <2>3. \A m \in Modules : u.t.height[m] = IF m = Home(f) THEN e[n] ELSE t.height[m]
      BY <1>17, <1>19, <2>1
    <2>4. u.t.height = [m \in Modules |-> u.t.height[m]]
      BY <2>1
    <2> QED
      BY <2>2, <2>3, <2>4
  <1>24. ArgumentOf(f) = Writes[f][1] /\ ResultOf(f) = Writes[f][2] /\ 1 \in 1..3 /\ 2 \in 1..3
    BY FunctionRegisters
  <1>25. data[ArgumentOf(f)] = cols[1] /\ data[ResultOf(f)] = cols[2]
    BY <1>11, <1>24
  <1>26. Stretched(t, u.t, f, n, len, e)
    BY <1>2, <1>3, <1>6, <1>7, <1>8, <1>9, <1>12, <1>13, <1>22, <1>23, <1>25 DEF Stretched
  <1> QED
    BY <1>21, <1>26

(* A later row is in a later block.                                        *)
LEMMA BlockOrder ==
  ASSUME NEW n \in Nat, NEW len, \A i \in 1..n : len[i] \in Nat, NEW e \in Ends(len, n),
         NEW i \in 1..n, NEW k \in 1..n, NEW j \in 1..len[i], NEW l \in 1..len[k],
         e[i - 1] + j <= e[k - 1] + l
  PROVE  i <= k
  <1> SUFFICES ASSUME k < i PROVE FALSE
    OBVIOUS
  <1>1. k \in 0..n /\ i - 1 \in k..n
    OBVIOUS
  <1>2. e[k] <= e[i - 1]
    BY <1>1, EndsAscend
  <1>3. e[k] = e[k - 1] + len[k] /\ e[k - 1] \in Nat /\ e[i - 1] \in Nat /\ len[k] \in Nat
    BY DEF Ends
  <1> QED
    BY <1>2, <1>3

(* Functions whose rows are as before give the same results.               *)
LEMMA RunSame ==
  ASSUME NEW t, NEW u, NEW g, NEW arg,
         Callee[g] # None => /\ u.data[ArgumentOf(Callee[g])] = t.data[ArgumentOf(Callee[g])]
                             /\ u.data[ResultOf(Callee[g])] = t.data[ResultOf(Callee[g])]
                             /\ u.height[Home(Callee[g])] = t.height[Home(Callee[g])]
  PROVE  Run(u, g, arg) = Run(t, g, arg)
  <1>1. CASE Callee[g] = None
    BY <1>1 DEF Run
  <1>2. CASE Callee[g] # None
    <2>1. FindLast(u, Callee[g], arg) = FindLast(t, Callee[g], arg)
      BY <1>2 DEF FindLast, Home
    <2> QED
      BY <1>2, <2>1 DEF Run
  <1> QED
    BY <1>1, <1>2

(* Nor does it matter whether a callee has been traced yet: the last row   *)
(* of an instance holds the result the one row held.                       *)
LEMMA RunStretched ==
  ASSUME SoundSchema, NoDataAssumption, NEW t, NEW done, Sound(t, done), NEW f \in FunctionAssignments \ done,
         NEW u, NEW n, NEW len, NEW e, Stretched(t, u, f, n, len, e),
         NEW g \in FunctionAssignments, NEW arg \in Int
  PROVE  Run(u, g, arg) = Run(t, g, arg)
  <1>1. Callee[g] \in FunctionAssignments \cup {None}
    BY DEF SoundSchema, FunctionSound
  <1>2. CASE Callee[g] # f
    <2>1. SUFFICES ASSUME Callee[g] # None
                   PROVE  /\ u.data[ArgumentOf(Callee[g])] = t.data[ArgumentOf(Callee[g])]
                          /\ u.data[ResultOf(Callee[g])] = t.data[ResultOf(Callee[g])]
                          /\ u.height[Home(Callee[g])] = t.height[Home(Callee[g])]
      BY RunSame
    <2>2. PICK c \in FunctionAssignments : c = Callee[g] /\ c # f
      BY <1>1, <1>2, <2>1
    <2>3. /\ ArgumentOf(c) \in Registers /\ ResultOf(c) \in Registers /\ Home(c) \in Modules
          /\ ArgumentOf(c) \in RegistersWritten(c) /\ ResultOf(c) \in RegistersWritten(c)
          /\ c \in Assignments /\ f \in Assignments /\ Home(f) \in Modules
      BY FunctionRegisters
    <2>4. ArgumentOf(c) \notin RegistersWritten(f) /\ ResultOf(c) \notin RegistersWritten(f)
      BY <2>2, <2>3, OneWriterAssumption DEF RegistersWritten
    <2>5. Home(c) # Home(f)
      BY <2>2, ModulesApart
    <2>6. t.height \in [Modules -> Nat]
      BY DEF Sound
    <2> QED
      BY <2>2, <2>3, <2>4, <2>5, <2>6 DEF Stretched
  <1>3. CASE Callee[g] = f
    <2>0. f # None
      BY DEF SoundSchema
    <2>1. PICK args, results : args = t.data[ArgumentOf(f)] /\ results = t.data[ResultOf(f)]
      OBVIOUS
    <2>2. PICK key : key = u.data[ArgumentOf(f)]
      OBVIOUS
    <2>3. ArgumentOf(f) \in Registers /\ ModuleOf[ArgumentOf(f)] = Home(f) /\ Home(f) \in Modules
      BY FunctionRegisters DEF Home
    <2>4. InstancesSound(t, f) /\ t.height \in [Modules -> Nat]
      BY DEF Sound
    <2>5. n \in Nat /\ n = t.height[Home(f)]
      BY <2>3, <2>4 DEF Stretched
    <2>6. DOMAIN args = 1..n /\ \A i \in 1..n : args[i] \in Int
      <3>1. args \in Seq(Int) /\ args # NoData
        BY <2>1, <2>4 DEF InstancesSound, NoDataAssumption
      <3>2. Len(args) = n
        BY <2>1, <2>3, <2>5, <3>1 DEF Sound, Column
      <3> QED
        BY <3>1, <3>2
    <2>7. \A i, j \in 1..n : i < j => args[i] < args[j]
      BY <2>1, <2>4, <2>6 DEF InstancesSound
    <2>8. \A i \in 1..n : len[i] \in Nat /\ len[i] \in 1..len[i]
      BY DEF Stretched
    <2>9. e \in Ends(len, n) /\ e[n] \in Nat /\ u.height[Home(f)] = e[n]
      BY <2>3, <2>4 DEF Stretched
    <2>10. \A i \in 1..n : /\ \A j \in 1..len[i] : key[e[i - 1] + j] = args[i]
                           /\ u.data[ResultOf(f)][e[i - 1] + len[i]] = results[i]
      BY <2>1, <2>2 DEF Stretched
    <2>11. \A i \in 0..n : e[i] \in Nat
      BY <2>9 DEF Ends
    <2>12. \A i \in 1..n : e[i] = e[i - 1] + len[i]
      BY <2>9 DEF Ends
    <2>16. \A x \in 0..n : \A y \in x..n : e[x] <= e[y]
      <3>1. \A k \in 1..n : len[k] \in Nat
        BY <2>8
      <3>2. ASSUME NEW x \in 0..n, NEW y \in x..n PROVE e[x] <= e[y]
        BY <2>5, <2>9, <3>1, EndsAscend
      <3> QED
        BY <3>2
    <2>13. ASSUME NEW r \in 1..e[n]
           PROVE  \E i \in 1..n : \E j \in 1..len[i] : r = e[i - 1] + j /\ key[r] = args[i]
      <3>1. \A i \in 1..n : len[i] \in Nat
        BY <2>8
      <3>2. PICK i \in 1..n : \E j \in 1..len[i] : r = e[i - 1] + j
        BY <2>5, <2>9, <3>1, RowInBlock
      <3> QED
        BY <2>10, <3>2
    <2>14. CASE \A i \in 1..n : args[i] # arg
      <3>1. FindLast(t, f, arg) = 0
        BY <2>1, <2>3, <2>5, <2>14, FindLastMiss
      <3>2. \A r \in 1..e[n] : key[r] # arg
        BY <2>13, <2>14
      <3>3. FindLast(u, f, arg) = 0
        BY <2>2, <2>3, <2>9, <3>2, FindLastMiss
      <3> QED
        BY <1>3, <2>0, <3>1, <3>3 DEF Run
    <2>15. CASE \E i \in 1..n : args[i] = arg
      <3>1. PICK i \in 1..n : args[i] = arg
        BY <2>15
      <3>2. FindLast(t, f, args[i]) = i
        <4>1. Ascending(args, n)
          <5>1. \A x, y \in 1..n : x <= y => args[x] <= args[y]
            <6> SUFFICES ASSUME NEW x \in 1..n, NEW y \in 1..n, x <= y PROVE args[x] <= args[y]
              OBVIOUS
            <6>1. CASE x = y
              BY <2>6, <6>1
            <6>2. CASE x < y
              BY <2>6, <2>7, <6>2
            <6> QED
              BY <6>1, <6>2
          <5> QED
            BY <2>6, <5>1 DEF Ascending
        <4>2. LastRow(args, n, i)
          <5> SUFFICES ASSUME NEW k \in 1..n, k > i PROVE args[k] # args[i]
            BY DEF LastRow
          <5>1. args[i] < args[k] /\ args[i] \in Int /\ args[k] \in Int
            BY <2>6, <2>7
          <5> QED
            BY <5>1
        <4> QED
          BY <2>1, <2>3, <2>5, <4>1, <4>2, FindLastHit
      <3>3. PICK r \in Nat : r = e[i - 1] + len[i] /\ r = e[i]
        BY <2>11, <2>12
      <3>4. r \in 1..e[n] /\ key[r] = args[i]
        <4>1. i \in 0..n /\ n \in i..n /\ \A k \in 1..n : len[k] \in Nat
          BY <2>5, <2>8
        <4>2. e[i] <= e[n]
          BY <2>16, <4>1
        <4>3. len[i] \in 1..len[i] /\ len[i] \in Nat /\ e[i - 1] \in Nat
          BY <2>5, <2>8, <2>11
        <4> QED
          BY <2>9, <2>10, <3>3, <4>2, <4>3
      <3>5. Ascending(key, e[n])
        <4>1. \A x \in 1..e[n] : key[x] \in Int
          BY <2>6, <2>13
        <4>2. ASSUME NEW x \in 1..e[n], NEW y \in 1..e[n], x <= y PROVE key[x] <= key[y]
          <5>1. PICK k \in 1..n : \E j \in 1..len[k] : x = e[k - 1] + j /\ key[x] = args[k]
            BY <2>13
          <5>2. PICK j \in 1..len[k] : x = e[k - 1] + j /\ key[x] = args[k]
            BY <5>1
          <5>3. PICK l \in 1..n : \E m \in 1..len[l] : y = e[l - 1] + m /\ key[y] = args[l]
            BY <2>13
          <5>4. PICK m \in 1..len[l] : y = e[l - 1] + m /\ key[y] = args[l]
            BY <5>3
          <5>5. k <= l
            <6>1. \A q \in 1..n : len[q] \in Nat
              BY <2>8
            <6>2. e[k - 1] + j <= e[l - 1] + m
              BY <4>2, <5>2, <5>4
            <6> QED
              BY <2>5, <2>9, <6>1, <6>2, BlockOrder
          <5>6. CASE k = l
            BY <2>6, <5>2, <5>4, <5>6
          <5>7. CASE k < l
            BY <2>6, <2>7, <5>2, <5>4, <5>7
          <5> QED
            BY <5>5, <5>6, <5>7
        <4> QED
          BY <4>1, <4>2 DEF Ascending
      <3>6. LastRow(key, e[n], r)
        <4> SUFFICES ASSUME NEW x \in 1..e[n], x > r PROVE key[x] # key[r]
          BY <3>4 DEF LastRow
        <4>1. PICK k \in 1..n : \E j \in 1..len[k] : x = e[k - 1] + j /\ key[x] = args[k]
          BY <2>13
        <4>2. PICK j \in 1..len[k] : x = e[k - 1] + j /\ key[x] = args[k]
          BY <4>1
        <4>3. ASSUME k <= i PROVE FALSE
          <5>1. k \in 0..n /\ i \in k..n /\ \A q \in 1..n : len[q] \in Nat
            BY <2>5, <2>8, <4>3
          <5>2. e[k] <= e[i]
            BY <2>16, <5>1
          <5>3. e[k] = e[k - 1] + len[k] /\ e[k - 1] \in Nat /\ e[i] \in Nat
            <6>1. k - 1 \in 0..n /\ i \in 0..n
              BY <2>5
            <6> QED
              BY <2>11, <2>12, <6>1
          <5> QED
            <6>1. len[k] \in Nat /\ x = e[k - 1] + j /\ x > e[i] /\ j <= len[k] /\ j \in Nat
              BY <2>8, <3>3, <4>2
            <6> QED
              BY <5>2, <5>3, <6>1
        <4>4. args[i] < args[k] /\ args[i] \in Int /\ args[k] \in Int
          BY <2>6, <2>7, <4>3
        <4> QED
          BY <3>4, <4>2, <4>4
      <3>7. FindLast(u, f, key[r]) = r
        <4>1. e[n] \in Nat /\ e[n] = u.height[ModuleOf[ArgumentOf(f)]]
          BY <2>3, <2>9
        <4> QED
          BY <2>2, <3>5, <3>6, <4>1, FindLastHit
      <3>8. FindLast(t, f, arg) = i /\ FindLast(u, f, arg) = r /\ i # 0 /\ r # 0
        BY <3>1, <3>2, <3>4, <3>7
      <3>9. u.data[ResultOf(f)][r] = t.data[ResultOf(f)][i]
        BY <2>1, <2>10, <3>3
      <3> QED
        BY <1>3, <2>0, <3>8, <3>9 DEF Run
    <2> QED
      BY <2>14, <2>15
  <1> QED
    BY <1>2, <1>3

(* Until a function is traced its module has no other columns.             *)
LEMMA ModuleEmpty ==
  ASSUME SoundSchema, NEW t, NEW done, Sound(t, done), NEW f \in FunctionAssignments \ done,
         NEW r \in Registers \ RegistersWritten(f), ModuleOf[r] = Home(f)
  PROVE  t.data[r] = NoData
  <1>1. f \in Assignments \ done /\ FunctionSound(f)
    BY FunctionRegisters DEF SoundSchema
  <1>2. PICK a \in Assignments \ FunctionAssignments :
           r \in RegistersWritten(a) /\ Needs(a) \cap RegistersWritten(f) # {}
    BY <1>1 DEF FunctionSound, Home
  <1>3. a \notin done
    BY <1>1, <1>2 DEF Sound
  <1> QED
    BY <1>2, <1>3 DEF Sound

(* What filling the columns of a leaves alone.                             *)
Kept(t, u, a) ==
    /\ u.height \in [Modules -> Nat]
    /\ \A m \in Modules : (a \in FunctionAssignments => m # Home(a)) => u.height[m] = t.height[m]
    /\ \A r \in Registers \ RegistersWritten(a) : u.data[r] = t.data[r]
    /\ \A r \in Registers \ RegistersWritten(a) :
          t.data[r] # NoData => u.height[ModuleOf[r]] = t.height[ModuleOf[r]]
    /\ \A r \in RegistersWritten(a) : u.data[r] # NoData /\ Column(u.data[r], u.height[ModuleOf[r]])
    /\ a \in FunctionAssignments => \A r \in RegistersWritten(a) : u.data[r] \in Seq(Int)
    /\ \A g \in FunctionAssignments : \A arg \in Int : Run(u, g, arg) = Run(t, g, arg)

(* A computed column is added to the trace.                                *)
LEMMA OtherKept ==
  ASSUME SoundSchema, NoDataAssumption, NEW t, NEW done, Sound(t, done),
         NEW a \in Assignments \ FunctionAssignments, NEW u, u = FillComputedColumns(t, a, Compute(t, a))
  PROVE  u.ok /\ Kept(t, u.t, a)
  <1>1. /\ u.ok /\ u.t.height = t.height
        /\ \A r \in Registers \ RegistersWritten(a) : u.t.data[r] = t.data[r]
        /\ Column(u.t.data[Writes[a][1]], t.height[ModuleOf[Writes[a][1]]])
    BY FillOther
  <1>2. RegistersWritten(a) = {Writes[a][1]}
    BY OtherRegister
  <1>3. t.height \in [Modules -> Nat]
    BY DEF Sound
  <1>4. u.t.data[Writes[a][1]] # NoData
    BY <1>1 DEF Column, NoDataAssumption
  <1>5. ASSUME NEW g \in FunctionAssignments, NEW arg \in Int
        PROVE  Run(u.t, g, arg) = Run(t, g, arg)
    <2>1. Callee[g] \in FunctionAssignments \cup {None}
      BY DEF SoundSchema, FunctionSound
    <2>2. SUFFICES ASSUME Callee[g] # None
                   PROVE  /\ u.t.data[ArgumentOf(Callee[g])] = t.data[ArgumentOf(Callee[g])]
                          /\ u.t.data[ResultOf(Callee[g])] = t.data[ResultOf(Callee[g])]
                          /\ u.t.height[Home(Callee[g])] = t.height[Home(Callee[g])]
      BY RunSame
    <2>3. PICK c \in FunctionAssignments : c = Callee[g]
      BY <2>1, <2>2
    <2>4. /\ ArgumentOf(c) \in Registers /\ ResultOf(c) \in Registers /\ c \in Assignments
          /\ ArgumentOf(c) \in RegistersWritten(c) /\ ResultOf(c) \in RegistersWritten(c)
      BY FunctionRegisters
    <2>5. ArgumentOf(c) \notin RegistersWritten(a) /\ ResultOf(c) \notin RegistersWritten(a)
      BY <2>4, OneWriterAssumption DEF RegistersWritten
    <2> QED
      BY <1>1, <2>3, <2>4, <2>5
  <1> QED
    BY <1>1, <1>2, <1>3, <1>4, <1>5 DEF Kept

(* Tracing a function changes its own module.                              *)
LEMMA FunctionKept ==
  ASSUME SoundSchema, NoDataAssumption, NEW t, NEW done, Sound(t, done), NEW f \in FunctionAssignments \ done,
         NEW u, u = FillComputedColumns(t, f, Compute(t, f))
  PROVE  u.ok /\ Kept(t, u.t, f)
  <1>1. u.ok /\ \E n, len, e : Stretched(t, u.t, f, n, len, e)
    BY FillFunction
  <1>2. PICK n, len, e : Stretched(t, u.t, f, n, len, e)
    BY <1>1
  <1>3. t.height \in [Modules -> Nat] /\ Home(f) \in Modules /\ ModuleOf \in [Registers -> Modules]
    BY FunctionRegisters, SignatureAssumption DEF Sound
  <1>4. u.t.height = [t.height EXCEPT ![Home(f)] = e[n]] /\ e[n] \in Nat
    BY <1>2 DEF Stretched
  <1>5. \A r \in Registers \ RegistersWritten(f) : u.t.data[r] = t.data[r]
    BY <1>2 DEF Stretched
  <1>6. ASSUME NEW r \in Registers \ RegistersWritten(f), t.data[r] # NoData
        PROVE  u.t.height[ModuleOf[r]] = t.height[ModuleOf[r]]
    <2>1. ModuleOf[r] # Home(f)
      BY <1>6, ModuleEmpty
    <2> QED
      BY <1>3, <1>4, <2>1
  <1>7. ASSUME NEW r \in RegistersWritten(f)
        PROVE  /\ u.t.data[r] \in Seq(Int) /\ u.t.data[r] # NoData
               /\ Column(u.t.data[r], u.t.height[ModuleOf[r]])
    <2>1. u.t.data[r] \in Seq(Int) /\ Len(u.t.data[r]) = e[n]
      BY <1>2 DEF Stretched
    <2>2. u.t.data[r] # NoData
      BY <2>1 DEF NoDataAssumption
    <2>3. ModuleOf[r] = Home(f)
      BY FunctionRegisters
    <2>4. PICK c \in Seq(Int) : c = u.t.data[r]
      BY <2>1
    <2>5. c \in Seq(Range(c))
      <3>1. \A i \in 1..Len(c) : c[i] \in Range(c)
        BY DEF Range
      <3> QED
        BY <3>1
    <2> QED
      BY <1>3, <1>4, <2>1, <2>2, <2>3, <2>4, <2>5 DEF Column
  <1>8. \A g \in FunctionAssignments : \A arg \in Int : Run(u.t, g, arg) = Run(t, g, arg)
    BY <1>2, RunStretched
  <1>9. u.t.height \in [Modules -> Nat] /\ \A m \in Modules : m # Home(f) => u.t.height[m] = t.height[m]
    BY <1>3, <1>4
  <1> QED
    BY <1>1, <1>5, <1>6, <1>7, <1>8, <1>9 DEF Kept

(* Both.                                                                   *)
LEMMA FillKept ==
  ASSUME SoundSchema, NoDataAssumption, NEW t, NEW done, Sound(t, done), NEW a \in Assignments \ done,
         NEW u, u = FillComputedColumns(t, a, Compute(t, a))
  PROVE  u.ok /\ Kept(t, u.t, a)
  BY OtherKept, FunctionKept

(* Filling what is ready keeps the trace sound.                            *)
LEMMA FillSound ==
  ASSUME SoundSchema, NoDataAssumption, NEW t, NEW done, Sound(t, done), NEW a, ReadyIn(a, done),
         NEW u, Kept(t, u, a)
  PROVE  Sound(u, done \cup {a})
  <1> DEFINE now == done \cup {a}
  <1>0. a \in Assignments \ done
    BY DEF ReadyIn
  <1>1. \A b \in Assignments : b # a => RegistersWritten(a) \cap RegistersWritten(b) = {}
    BY <1>0, OneWriterAssumption DEF RegistersWritten
  <1>2. u.height \in [Modules -> Nat]
    BY DEF Kept
  <1>3. ASSUME NEW r \in Registers
        PROVE  IF u.data[r] = NoData THEN \E b \in Assignments \ now : r \in RegistersWritten(b)
               ELSE Column(u.data[r], u.height[ModuleOf[r]])
    <2>1. CASE r \in RegistersWritten(a)
      BY <2>1 DEF Kept
    <2>2. CASE r \notin RegistersWritten(a)
      <3>1. u.data[r] = t.data[r]
        BY <2>2 DEF Kept
      <3>2. CASE t.data[r] = NoData
        <4>1. PICK b \in Assignments \ done : r \in RegistersWritten(b)
          BY <3>2 DEF Sound
        <4> QED
          BY <2>2, <3>1, <3>2, <4>1
      <3>3. CASE t.data[r] # NoData
        <4>1. Column(t.data[r], t.height[ModuleOf[r]])
          BY <3>3 DEF Sound
        <4>2. u.height[ModuleOf[r]] = t.height[ModuleOf[r]]
          BY <2>2, <3>3 DEF Kept
        <4> QED
          BY <3>1, <3>3, <4>1, <4>2
      <3> QED
        BY <3>2, <3>3
    <2> QED
      BY <2>1, <2>2
  <1>4. ASSUME NEW b \in (Assignments \ FunctionAssignments) \ now, NEW r \in RegistersWritten(b)
        PROVE  u.data[r] = NoData
    <2>1. t.data[r] = NoData
      BY DEF Sound
    <2>2. r \in Registers
      BY OtherRegister
    <2>3. r \notin RegistersWritten(a)
      BY <1>1
    <2> QED
      BY <2>1, <2>2, <2>3 DEF Kept
  <1>5. ASSUME NEW f \in FunctionAssignments
        PROVE  u.data[ArgumentOf(f)] \in Seq(Int) /\ u.data[ResultOf(f)] \in Seq(Int)
    <2>1. /\ ArgumentOf(f) \in Registers /\ ResultOf(f) \in Registers /\ f \in Assignments
          /\ ArgumentOf(f) \in RegistersWritten(f) /\ ResultOf(f) \in RegistersWritten(f)
      BY FunctionRegisters
    <2>2. CASE f = a
      BY <2>1, <2>2 DEF Kept
    <2>3. CASE f # a
      <3>1. ArgumentOf(f) \notin RegistersWritten(a) /\ ResultOf(f) \notin RegistersWritten(a)
        BY <1>1, <2>1, <2>3
      <3> QED
        BY <2>1, <3>1 DEF Kept, Sound
    <2> QED
      BY <2>2, <2>3
  <1>6. ASSUME NEW g \in FunctionAssignments \ now PROVE InstancesSound(u, g)
    <2>1. /\ ArgumentOf(g) \in Registers /\ ResultOf(g) \in Registers /\ g \in Assignments /\ g # a
          /\ ArgumentOf(g) \in RegistersWritten(g) /\ ResultOf(g) \in RegistersWritten(g)
          /\ Home(g) \in Modules
      BY FunctionRegisters
    <2>2. ArgumentOf(g) \notin RegistersWritten(a) /\ ResultOf(g) \notin RegistersWritten(a)
      BY <1>1, <2>1
    <2>3. u.data[ArgumentOf(g)] = t.data[ArgumentOf(g)] /\ u.data[ResultOf(g)] = t.data[ResultOf(g)]
      BY <2>1, <2>2 DEF Kept
    <2>4. u.height[Home(g)] = t.height[Home(g)]
      <3>1. a \in FunctionAssignments => Home(g) # Home(a)
        BY <2>1, ModulesApart
      <3> QED
        BY <2>1, <3>1 DEF Kept
    <2>5. InstancesSound(t, g)
      BY DEF Sound
    <2>6. \A i \in 1..t.height[Home(g)] : t.data[ArgumentOf(g)][i] \in Int
      <3>1. t.data[ArgumentOf(g)] \in Seq(Int)
        BY <2>5 DEF InstancesSound
      <3>2. t.data[ArgumentOf(g)] # NoData
        BY <3>1 DEF NoDataAssumption
      <3>3. Len(t.data[ArgumentOf(g)]) = t.height[Home(g)]
        BY <2>1, <3>2 DEF Sound, Column, Home
      <3> QED
        BY <3>1, <3>3
    <2>7. ~FunctionPanics(u, g)
      <3>1. ~FunctionPanics(t, g)
        BY <2>5 DEF InstancesSound
      <3>2. \A i \in 1..t.height[Home(g)] : Run(t, g, t.data[ArgumentOf(g)][i]) = t.data[ResultOf(g)][i]
        BY <3>1 DEF FunctionPanics, Home
      <3>3. \A i \in 1..t.height[Home(g)] : Run(u, g, t.data[ArgumentOf(g)][i]) = Run(t, g, t.data[ArgumentOf(g)][i])
        BY <2>6 DEF Kept
      <3>4. \A i \in 1..u.height[Home(g)] : Run(u, g, u.data[ArgumentOf(g)][i]) = u.data[ResultOf(g)][i]
        BY <2>3, <2>4, <3>2, <3>3
      <3> QED
        BY <3>4 DEF FunctionPanics, Home
    <2> QED
      BY <2>3, <2>5, <2>7 DEF InstancesSound
  <1>7. \A x \in now : \A b \in Assignments \ now : Needs(x) \cap RegistersWritten(b) = {}
    BY DEF Sound, ReadyIn
  <1> QED
    BY <1>2, <1>3, <1>4, <1>5, <1>6, <1>7 DEF Sound

(* What is ready computes the same before and after another takes effect.  *)
LEMMA ComputeKept ==
  ASSUME SoundSchema, NoDataAssumption, NEW t, NEW done, Sound(t, done), NEW a, ReadyIn(a, done),
         NEW b, ReadyIn(b, done), a # b, NEW u, Kept(t, u, b)
  PROVE  Compute(u, a) = Compute(t, a)
  <1>0. a \in Assignments \ done /\ b \in Assignments \ done
    BY DEF ReadyIn
  <1>1. RegistersWritten(b) \cap RegistersWritten(a) = {}
    BY <1>0, OneWriterAssumption DEF RegistersWritten
  <1>2. CASE a \in FunctionAssignments
    <2>1. /\ ArgumentOf(a) \in Registers /\ ResultOf(a) \in Registers
          /\ ArgumentOf(a) \in RegistersWritten(a) /\ ResultOf(a) \in RegistersWritten(a)
          /\ Home(a) \in Modules
      BY <1>2, FunctionRegisters
    <2>2. u.data[ArgumentOf(a)] = t.data[ArgumentOf(a)]
      BY <1>1, <2>1 DEF Kept
    <2>3. u.height[Home(a)] = t.height[Home(a)]
      <3>1. b \in FunctionAssignments => Home(a) # Home(b)
        BY <1>2, ModulesApart
      <3> QED
        BY <2>1, <3>1 DEF Kept
    <2>4. \A i \in 1..t.height[Home(a)] : t.data[ArgumentOf(a)][i] \in Int
      <3>1. t.data[ArgumentOf(a)] \in Seq(Int)
        BY <1>2 DEF Sound
      <3>2. t.data[ArgumentOf(a)] # NoData
        BY <3>1 DEF NoDataAssumption
      <3>3. Len(t.data[ArgumentOf(a)]) = t.height[Home(a)]
        BY <2>1, <3>2 DEF Sound, Column, Home
      <3> QED
        BY <3>1, <3>3
    <2>5. \A i \in 1..t.height[Home(a)] : Run(u, a, t.data[ArgumentOf(a)][i]) = Run(t, a, t.data[ArgumentOf(a)][i])
      BY <1>2, <2>4 DEF Kept
    <2>6. ComputeFunction(u, a) = ComputeFunction(t, a)
      <3>1. PICK rows : rows = 1..t.height[Home(a)]
        OBVIOUS
      <3>2. PICK args : args = [i \in rows |-> t.data[ArgumentOf(a)][i]]
        OBVIOUS
      <3>3. [i \in rows |-> Run(u, a, args[i])] = [i \in rows |-> Run(t, a, args[i])]
        BY <2>5, <3>1, <3>2
      <3>4. ComputeFunction(t, a) = <<StepColumn(a, args, args, args),
               StepColumn(a, args, [i \in rows |-> Run(t, a, args[i])], [i \in rows |-> 0]),
               StepColumn(a, args, [i \in rows |-> 1], [i \in rows |-> 0])>>
        BY <3>1, <3>2 DEF ComputeFunction, Home
      <3>5. ComputeFunction(u, a) = <<StepColumn(a, args, args, args),
               StepColumn(a, args, [i \in rows |-> Run(u, a, args[i])], [i \in rows |-> 0]),
               StepColumn(a, args, [i \in rows |-> 1], [i \in rows |-> 0])>>
        BY <2>2, <2>3, <3>1, <3>2 DEF ComputeFunction, Home
      <3> QED
        BY <3>3, <3>4, <3>5
    <2> QED
      BY <1>2, <2>6 DEF Compute
  <1>3. CASE a \notin FunctionAssignments
    <2>1. PICK r : r = Writes[a][1]
      OBVIOUS
    <2>2. /\ r \in Registers /\ RegistersWritten(a) = {r} /\ ModuleOf[r] \in Modules
          /\ Needs(a) = RegistersRead(a) /\ Reads[a] \in Seq(Registers)
      BY <1>0, <1>3, <2>1, OtherRegister, SignatureAssumption
    <2>3. u.height[ModuleOf[r]] = t.height[ModuleOf[r]]
      <3>1. ASSUME b \in FunctionAssignments, ModuleOf[r] = Home(b) PROVE FALSE
        <4>1. FunctionSound(b)
          BY <3>1 DEF SoundSchema
        <4>2. r \notin RegistersWritten(b)
          BY <1>1, <2>2
        <4>3. PICK c \in Assignments \ FunctionAssignments :
                 r \in RegistersWritten(c) /\ Needs(c) \cap RegistersWritten(b) # {}
          BY <2>2, <3>1, <4>1, <4>2 DEF FunctionSound, Home
        <4>4. c = a
          BY <1>0, <2>2, <4>3, OneWriterAssumption DEF RegistersWritten
        <4> QED
          BY <1>0, <4>3, <4>4 DEF ReadyIn
      <3> QED
        BY <2>2, <3>1 DEF Kept
    <2>4. ASSUME NEW k \in DOMAIN Reads[a] PROVE u.data[Reads[a][k]] = t.data[Reads[a][k]]
      <3>1. Reads[a][k] \in Registers /\ Reads[a][k] \in Needs(a)
        BY <2>2 DEF RegistersRead, Range
      <3>2. Reads[a][k] \notin RegistersWritten(b)
        BY <1>0, <3>1 DEF ReadyIn
      <3> QED
        BY <3>1, <3>2 DEF Kept
    <2>5. \A i : SourceValues(u, a, i) = SourceValues(t, a, i)
      BY <2>4 DEF SourceValues
    <2>6. ComputeRegister(u, a) = ComputeRegister(t, a)
      BY <2>1, <2>3, <2>5 DEF ComputeRegister
    <2> QED
      BY <1>3, <2>6 DEF Compute
  <1> QED
    BY <1>2, <1>3

-----------------------------------------------------------------------------
(* The serial expansion has the same operators: each is what it is here.   *)

(* Registers read and written.                                            *)
LEMMA SameRegisters ==
  ASSUME NEW t, NEW a
  PROVE  Serial!RegistersWritten(a) = RegistersWritten(a) /\ Serial!RegistersRead(a) = RegistersRead(a)
  BY DEF Serial!RegistersWritten, RegistersWritten, Range, Serial!Range, RegistersRead,
     Serial!RegistersRead

(* Flattening.                                                            *)
LEMMA SameFlatten ==
  ASSUME NEW s
  PROVE  Serial!FlattenSeq(s) = FlattenSeq(s)
  BY Zenon DEF FlattenSeq, Serial!FlattenSeq

(* Running a function.                                                    *)
LEMMA SameRun ==
  ASSUME NEW t, NEW a, NEW v
  PROVE  Serial!Run(t, a, v) = Run(t, a, v)
  BY DEF Run, Serial!Run, FindLast, Serial!FindLast, Max, Serial!Max, Missing,
     Serial!Missing, ArgumentOf, Serial!ArgumentOf, ResultOf, Serial!ResultOf

(* What panics.                                                           *)
LEMMA SamePanics ==
  ASSUME NEW t, NEW a
  PROVE  Serial!Panics(t, a) = Panics(t, a)
  BY SameRegisters, SameRun DEF Panics, Serial!Panics, RegisterPanics, Serial!RegisterPanics,
     FunctionPanics, Serial!FunctionPanics, ArgumentOf, Serial!ArgumentOf, ResultOf,
     Serial!ResultOf

(* A column of steps.                                                     *)
LEMMA SameStepColumn ==
  ASSUME NEW t, NEW a, NEW r, NEW x, NEW y
  PROVE  Serial!StepColumn(a, r, x, y) = StepColumn(a, r, x, y)
  BY SameFlatten DEF StepColumn, Serial!StepColumn

(* What an assignment computes.                                           *)
LEMMA SameCompute ==
  ASSUME NEW t, NEW a
  PROVE  Serial!Compute(t, a) = Compute(t, a)
  BY SameRun, SameStepColumn DEF Compute, Serial!Compute, ComputeFunction,
     Serial!ComputeFunction, ComputeRegister, Serial!ComputeRegister, SourceValues,
     Serial!SourceValues, Padding, Serial!Padding, ArgumentOf, Serial!ArgumentOf

(* Filling.                                                               *)
LEMMA SameFill ==
  ASSUME NEW t, NEW a, NEW c
  PROVE  Serial!FillComputedColumns(t, a, c) = FillComputedColumns(t, a, c)
  <1>1. PICK data : data = FillColumns(t, a, c)
    OBVIOUS
  <1>2. PICK resized : resized = Resized(t, a, c)
    OBVIOUS
  <1>3. Serial!FillColumns(t, a, c) = data
    BY <1>1, SameRegisters DEF FillColumns, Serial!FillColumns
  <1>4. Serial!Resized(t, a, c) = resized
    BY <1>2, SameRegisters DEF Resized, Serial!Resized
  <1>5. \A m : Serial!Filled(data, m) = Filled(data, m)
    BY DEF Filled, Serial!Filled
  <1>6. \A m : Serial!CanResize(data, m) = CanResize(data, m)
    BY <1>5 DEF CanResize, Serial!CanResize
  <1>7. \A m : Serial!Resize(data, m) = Resize(data, m)
    BY DEF Resize, Serial!Resize, Filled, Serial!Filled
  <1> QED
    BY <1>1, <1>2, <1>3, <1>4, <1>6, <1>7 DEF FillComputedColumns, Serial!FillComputedColumns

-----------------------------------------------------------------------------
(* The expansion against the serial one.                                   *)

(* What a goroutine left behind is what its assignment computes on the     *)
(* trace as it is now.                                                     *)
Right(a) ==
    /\ result[a].err <=> a \in conf.faulty
    /\ a \notin conf.faulty => result[a].cols = Compute(tr, a)

ResultInv ==
    /\ \A a \in Range(batch) : pc = "collect" /\ job[a] \in {"sending", "ended"} => Right(a)
    /\ \A a \in Range(got) : pc = "fill" => Right(a)
    /\ \A a \in Range(got) : pc \in {"collect", "fill"} => a \notin conf.faulty

(* While nothing was taken, what the scan has passed is not ready.         *)
ProgressInv ==
    pc = "scan" =>
        /\ scan.n + Len(batch) \in Nat \ {0}
        /\ scan.m + Len(batch) \in Nat \ {0}
        /\ \A i \in 1..scan.m : i < scan.i => ~IsReady(worklist[i])

DataInv ==
    /\ pc # "panic"
    /\ result = [a \in Assignments |-> result[a]]
    /\ Sound(tr, FilledIn)
    /\ ResultInv
    /\ ProgressInv

Outcome == IF pc \in {"done", "failed", "panic"} THEN pc ELSE "running"

SerialStep == [Serial!Next]_(Serial!vars)

(* A step of which the serial expansion sees nothing.                      *)
LEMMA Unseen ==
  ASSUME tr' = tr, conf' = conf, FilledIn' = FilledIn, Outcome' = Outcome
  PROVE  SerialStep
  BY DEF SerialStep, Serial!vars, Outcome

(* The batch that is not filled is ready.                                  *)
LEMMA BatchReady ==
  ASSUME ExpansionInv, NEW a \in Unfilled
  PROVE  a \in Assignments /\ a \in Range(batch) /\ ReadyIn(a, FilledIn)
  <1>1. Range(batch) \subseteq Assignments /\ Unfilled \subseteq Range(batch)
    <2>1. Range(batch) \subseteq Assignments
      BY DEF ExpansionInv, ControlType, Range
    <2> QED
      BY <2>1 DEF ExpansionInv, AnswerInv, Unfilled
  <1>2. Assignments \ FilledIn \subseteq Untaken \cup Range(batch)
    BY <1>1 DEF FilledIn
  <1>3. a \in Assignments \ FilledIn
    BY <1>1 DEF FilledIn
  <1>4. \A r \in Needs(a) : \A b \in Untaken \cup Range(batch) : r \notin RegistersWritten(b)
    BY <1>1 DEF ExpansionInv, ReadyInv, Needs
  <1> QED
    BY <1>1, <1>2, <1>3, <1>4 DEF ReadyIn

(* What is ready can take effect now, as the next of the serial expansion. *)
LEMMA ApplyStep ==
  ASSUME SoundSchema, NoDataAssumption, ExpansionInv, DataInv, NEW a \in Unfilled, a \notin conf.faulty,
         NEW u, u = FillComputedColumns(tr, a, Compute(tr, a))
  PROVE  /\ ~Panics(tr, a) /\ u.ok /\ Kept(tr, u.t, a) /\ Sound(u.t, FilledIn \cup {a})
         /\ (/\ tr' = u.t /\ FilledIn' = FilledIn \cup {a} /\ conf' = conf
             /\ Outcome = "running" /\ Outcome' = "running") => SerialStep
  <1>1. a \in Assignments \ FilledIn /\ ReadyIn(a, FilledIn) /\ Sound(tr, FilledIn)
    BY BatchReady DEF ReadyIn, DataInv
  <1>2. ~Panics(tr, a)
    BY <1>1, NoPanic
  <1>3. u.ok /\ Kept(tr, u.t, a)
    BY <1>1, FillKept
  <1>4. Sound(u.t, FilledIn \cup {a})
    BY <1>1, <1>3, FillSound
  <1>5. ASSUME tr' = u.t, FilledIn' = FilledIn \cup {a}, conf' = conf, Outcome = "running", Outcome' = "running"
        PROVE  SerialStep
    <2>1. Serial!Ready(a)
      <3>1. \A r \in RegistersRead(a) \ RegistersExpanded(a) : \A b \in Assignments \ FilledIn : r \notin RegistersWritten(b)
        BY <1>1 DEF ReadyIn, Needs
      <3> QED
        BY <1>1, <1>5, <3>1, SameRegisters DEF Serial!Ready, Serial!Final,
           Serial!RegistersExpanded, RegistersExpanded, Outcome
    <2>2. ~Serial!Panics(tr, a)
      BY <1>2, SamePanics
    <2>3. Serial!FillComputedColumns(tr, a, Serial!Compute(tr, a)) = u
      BY SameCompute, SameFill
    <2>4. Serial!Apply(a)
      BY <1>3, <1>5, <2>1, <2>2, <2>3 DEF Serial!Apply, Outcome
    <2> QED
      BY <1>1, <2>4 DEF SerialStep, Serial!Next
  <1> QED
    BY <1>2, <1>3, <1>4, <1>5

(* The error of what is ready can end the expansion now.                   *)
LEMMA FailStep ==
  ASSUME ExpansionInv, NEW a \in Unfilled, a \in conf.faulty,
         tr' = tr, FilledIn' = FilledIn, conf' = conf, Outcome = "running", Outcome' = "failed"
  PROVE  SerialStep
  <1>1. a \in Assignments \ FilledIn /\ ReadyIn(a, FilledIn)
    BY BatchReady DEF ReadyIn
  <1>2. Serial!Ready(a)
    <2>1. \A r \in RegistersRead(a) \ RegistersExpanded(a) : \A b \in Assignments \ FilledIn : r \notin RegistersWritten(b)
      BY <1>1 DEF ReadyIn, Needs
    <2> QED
      BY <1>1, <2>1, SameRegisters DEF Serial!Ready, Serial!Final, Serial!RegistersExpanded,
         RegistersExpanded, Outcome
  <1>3. Serial!Fail(a)
    BY <1>2 DEF Serial!Fail, Outcome
  <1> QED
    BY <1>1, <1>3 DEF SerialStep, Serial!Next

(* Expander.Next, entered with something left.                             *)
LEMMA NextStartSerial ==
  ASSUME ExpansionInv, DataInv, NextStart
  PROVE  DataInv' /\ SerialStep
  <1>0. /\ pc = "loop" /\ pc' = "scan" /\ worklist # <<>> /\ worklist' = worklist /\ batch' = <<>>
        /\ scan' = [i |-> 1, m |-> Len(worklist), n |-> IF conf.parallel THEN conf.size ELSE 1]
        /\ UNCHANGED <<conf, notReady, job, result, ch, got, tr, runs>>
    BY DEF NextStart, Goroutines
  <1>1. batch = <<>> /\ worklist \in Seq(Assignments) /\ conf.size \in Nat \ {0}
    BY <1>0 DEF ExpansionInv, ScanInv, ControlType
  <1>2. FilledIn' = FilledIn
    <2>1. Untaken' = {worklist[i] : i \in 1..Len(worklist)}
      BY <1>0 DEF Untaken
    <2>2. Untaken = Range(worklist)
      BY <1>0 DEF Untaken
    <2>3. Range(worklist) = {worklist[i] : i \in 1..Len(worklist)}
      BY <1>1 DEF Range
    <2>4. Unfilled' = Unfilled
      BY <1>0, <1>1 DEF Unfilled
    <2> QED
      BY <2>1, <2>2, <2>3, <2>4 DEF FilledIn
  <1>3. ResultInv'
    BY <1>0 DEF ResultInv
  <1>4. ProgressInv'
    <2>1. Len(batch') = 0 /\ Len(worklist) \in Nat \ {0}
      BY <1>0, <1>1
    <2>2. scan'.i = 1 /\ scan'.m = Len(worklist) /\ scan'.n \in Nat \ {0}
      BY <1>0, <1>1
    <2>3. \A i \in 1..scan'.m : ~(i < scan'.i)
      BY <2>1, <2>2
    <2> QED
      BY <2>1, <2>2, <2>3 DEF ProgressInv
  <1>5. SerialStep
    BY <1>0, <1>2, Unseen DEF Outcome
  <1> QED
    BY <1>0, <1>2, <1>3, <1>4, <1>5 DEF DataInv

(* A ready assignment joins the batch.                                     *)
LEMMA NextTakeSerial ==
  ASSUME ExpansionInv, DataInv, NextTake
  PROVE  DataInv' /\ SerialStep
  <1>0. /\ pc = "scan" /\ pc' = "scan" /\ scan.i <= scan.m /\ scan.n > 0
        /\ batch' = Append(batch, worklist[scan.i])
        /\ worklist' = [worklist EXCEPT ![scan.i] = worklist[scan.m]]
        /\ scan' = [scan EXCEPT !.m = scan.m - 1, !.n = scan.n - 1]
        /\ UNCHANGED <<conf, notReady, job, result, ch, got, tr, runs>>
    BY DEF NextTake, Scanning, Goroutines
  <1>1. /\ scan \in [i : Nat \ {0}, m : Nat, n : Nat] /\ worklist \in Seq(Assignments) /\ batch \in Seq(Assignments)
        /\ scan.m <= Len(worklist) /\ Distinct(worklist, scan.m)
    BY <1>0 DEF ExpansionInv, ControlType, ScanInv, Remaining
  <1>2. scan'.i = scan.i /\ scan'.m = scan.m - 1 /\ scan'.n = scan.n - 1 /\ scan.i \in 1..scan.m /\ scan.m \in Nat /\ scan.n \in Nat
    BY <1>0, <1>1
  <1>3. worklist[scan.i] \in Assignments
    BY <1>1, <1>2
  <1>4. Range(batch') = Range(batch) \cup {worklist[scan.i]} /\ Len(batch') = Len(batch) + 1 /\ Len(batch) \in Nat
    BY <1>0, <1>1, <1>3, AppendNew
  <1>5. {worklist'[k] : k \in 1..scan.m - 1} = {worklist[k] : k \in 1..scan.m} \ {worklist[scan.i]}
    <2> DEFINE t == [worklist EXCEPT ![scan.i] = worklist[scan.m]]
               a == worklist[scan.i]
    <2>0. /\ worklist \in Seq(Assignments) /\ scan.m \in Nat /\ scan.m <= Len(worklist)
          /\ scan.i \in 1..scan.m /\ Distinct(worklist, scan.m)
      BY <1>1, <1>2
    <2>1. /\ t \in Seq(Assignments) /\ Len(t) = Len(worklist)
          /\ Distinct(t, scan.m - 1)
          /\ {t[k] : k \in 1..scan.m - 1} = {worklist[k] : k \in 1..scan.m} \ {a}
      BY <2>0, SwapOut
    <2>2. worklist' = t
      BY <1>0
    <2> QED
      BY <2>1, <2>2
  <1>6. FilledIn' = FilledIn
    <2>1. Untaken' = Untaken \ {worklist[scan.i]} /\ worklist[scan.i] \in Untaken
      BY <1>0, <1>2, <1>5 DEF Untaken
    <2>2. Unfilled = Range(batch) /\ Unfilled' = Range(batch')
      BY <1>0 DEF Unfilled
    <2> QED
      BY <1>4, <2>1, <2>2 DEF FilledIn
  <1>7. ResultInv'
    BY <1>0 DEF ResultInv
  <1>8. ProgressInv'
    <2>1. scan'.n + Len(batch') \in Nat \ {0} /\ scan'.m + Len(batch') \in Nat \ {0}
      BY <1>0, <1>2, <1>4
    <2>2. ASSUME NEW i \in 1..scan'.m, i < scan'.i PROVE ~IsReady(worklist[i])'
      <3>1. i \in 1..scan.m /\ i < scan.i /\ i # scan.i /\ i \in 1..Len(worklist)
        BY <1>1, <1>2, <2>2
      <3>2. worklist'[i] = worklist[i]
        BY <1>0, <1>1, <3>1
      <3>3. ~IsReady(worklist[i])
        BY <1>0, <3>1 DEF DataInv, ProgressInv
      <3> QED
        BY <1>0, <3>2, <3>3 DEF IsReady
    <2> QED
      BY <2>1, <2>2 DEF ProgressInv
  <1>9. SerialStep
    BY <1>0, <1>6, Unseen DEF Outcome
  <1> QED
    BY <1>0, <1>6, <1>7, <1>8, <1>9 DEF DataInv

(* One that is not is passed.                                              *)
LEMMA NextSkipSerial ==
  ASSUME ExpansionInv, DataInv, NextSkip
  PROVE  DataInv' /\ SerialStep
  <1>0. /\ pc = "scan" /\ pc' = "scan" /\ scan.i <= scan.m /\ ~IsReady(worklist[scan.i])
        /\ scan' = [scan EXCEPT !.i = scan.i + 1]
        /\ UNCHANGED <<conf, worklist, notReady, batch, job, result, ch, got, tr, runs>>
    BY DEF NextSkip, Scanning, Goroutines
  <1>1. scan \in [i : Nat \ {0}, m : Nat, n : Nat]
    BY DEF ExpansionInv, ControlType
  <1>2. scan'.i = scan.i + 1 /\ scan'.m = scan.m /\ scan'.n = scan.n /\ scan.i \in Nat /\ scan.m \in Nat
    BY <1>0, <1>1
  <1>3. FilledIn' = FilledIn
    BY <1>0, <1>2 DEF FilledIn, Untaken, Unfilled
  <1>4. ResultInv'
    BY <1>0 DEF ResultInv
  <1>5. ProgressInv'
    <2>1. ASSUME NEW i \in 1..scan'.m, i < scan'.i PROVE ~IsReady(worklist[i])'
      <3>1. i \in 1..scan.m /\ (i < scan.i \/ i = scan.i)
        BY <1>2, <2>1
      <3>2. ~IsReady(worklist[i])
        BY <1>0, <3>1 DEF DataInv, ProgressInv
      <3> QED
        BY <1>0, <3>2 DEF IsReady
    <2> QED
      BY <1>0, <1>2, <2>1 DEF ProgressInv, DataInv
  <1>6. SerialStep
    BY <1>0, <1>3, Unseen DEF Outcome
  <1> QED
    BY <1>0, <1>3, <1>4, <1>5, <1>6 DEF DataInv

(* Of what is left of a sound schema, something is ready.                  *)
LEMMA SomeReady ==
  ASSUME SoundSchema, ExpansionInv, pc = "scan", batch = <<>>, Untaken # {}
  PROVE  \E a \in Untaken : IsReady(a)
  <1>1. Untaken \subseteq Assignments
    <2>1. worklist \in Seq(Assignments) /\ scan.m \in Nat /\ scan.m <= Len(worklist)
      BY DEF ExpansionInv, ControlType, ScanInv, Remaining
    <2> QED
      BY <2>1 DEF Untaken
  <1>2. PICK a \in Untaken : \A b \in Untaken : Needs(a) \cap RegistersWritten(b) = {}
    BY <1>1 DEF SoundSchema
  <1>3. Range(batch) = {}
    BY DEF Range
  <1>4. notReady = UNION {RegistersWritten(b) : b \in Untaken}
    BY <1>3 DEF ExpansionInv, ReadyInv
  <1>5. IsReady(a)
    BY <1>2, <1>4 DEF IsReady, IsExpandedBy, Needs
  <1> QED
    BY <1>5

(* The scan of a sound schema takes something: the Expander's panic, and   *)
(* an expansion that never ends, are excluded.                             *)
LEMMA NextReturnSerial ==
  ASSUME SoundSchema, ExpansionInv, DataInv, NextReturn
  PROVE  DataInv' /\ SerialStep
  <1>0. /\ pc = "scan" /\ ~(scan.i <= scan.m /\ scan.n > 0) /\ worklist' = SubSeq(worklist, 1, scan.m)
        /\ pc' \in {"panic", "dispatch", "compute"} /\ (pc' = "panic" => batch = <<>>)
        /\ UNCHANGED <<conf, scan, batch, job, result, ch, got, tr, runs>>
    BY DEF NextReturn, Scanning, Goroutines
  <1>1. /\ scan \in [i : Nat \ {0}, m : Nat, n : Nat] /\ worklist \in Seq(Assignments)
        /\ scan.m <= Len(worklist) /\ scan.m \in Nat /\ scan.n \in Nat /\ scan.i \in Nat
    BY <1>0 DEF ExpansionInv, ControlType, ScanInv, Remaining
  <1>2. batch # <<>>
    <2> SUFFICES ASSUME batch = <<>> PROVE FALSE
      OBVIOUS
    <2>1. Len(batch) = 0
      OBVIOUS
    <2>2. scan.n > 0 /\ scan.m > 0
      BY <1>0, <1>1, <2>1 DEF DataInv, ProgressInv
    <2>3. \A i \in 1..scan.m : ~IsReady(worklist[i])
      BY <1>0, <1>1, <2>2 DEF DataInv, ProgressInv
    <2>4. Untaken = {worklist[i] : i \in 1..scan.m} /\ 1 \in 1..scan.m
      BY <1>0, <1>1, <2>2 DEF Untaken
    <2>5. Untaken # {}
      BY <2>4
    <2>6. PICK a \in Untaken : IsReady(a)
      BY <1>0, <2>5, SomeReady
    <2> QED
      BY <2>3, <2>4, <2>6
  <1>3. pc' \in {"dispatch", "compute"}
    BY <1>0, <1>2
  <1>4. FilledIn' = FilledIn
    <2>1. Range(worklist') = {worklist[k] : k \in 1..scan.m}
      BY <1>0, <1>1, CutTo
    <2>2. Untaken' = Untaken /\ Unfilled' = Unfilled
      BY <1>0, <1>3, <2>1 DEF Untaken, Unfilled
    <2> QED
      BY <2>2 DEF FilledIn
  <1>5. ResultInv' /\ ProgressInv'
    BY <1>0, <1>3 DEF ResultInv, ProgressInv
  <1>6. SerialStep
    BY <1>0, <1>3, <1>4, Unseen DEF Outcome
  <1> QED
    BY <1>0, <1>3, <1>4, <1>5, <1>6 DEF DataInv

(* The goroutines are started.                                             *)
LEMMA DispatchSerial ==
  ASSUME ExpansionInv, DataInv, Dispatch
  PROVE  DataInv' /\ SerialStep
  <1>0. /\ pc = "dispatch" /\ pc' = "collect"
        /\ job' = [a \in Assignments |-> IF a \in Range(batch) THEN "computing" ELSE job[a]]
        /\ UNCHANGED <<conf, worklist, notReady, scan, batch, result, ch, got, tr, runs>>
    BY DEF Dispatch, Expander
  <1>1. FilledIn' = FilledIn
    BY <1>0 DEF FilledIn, Untaken, Unfilled
  <1>2. Range(batch) \subseteq Assignments /\ got = <<>> /\ Range(<<>>) = {}
    BY <1>0 DEF ExpansionInv, ControlType, AnswerInv, Range
  <1>3. \A a \in Range(batch) : job'[a] = "computing"
    BY <1>0, <1>2
  <1>4. ResultInv'
    BY <1>0, <1>2, <1>3 DEF ResultInv
  <1>5. ProgressInv'
    BY <1>0 DEF ProgressInv
  <1>6. SerialStep
    BY <1>0, <1>1, Unseen DEF Outcome
  <1> QED
    BY <1>0, <1>1, <1>4, <1>5, <1>6 DEF DataInv

(* A goroutine computes: what it reads is there, so it does not panic.     *)
LEMMA JobComputeSerial ==
  ASSUME SoundSchema, NoDataAssumption, ExpansionInv, DataInv, NEW a \in Assignments, JobCompute(a)
  PROVE  DataInv' /\ SerialStep
  <1>1. /\ job[a] = "computing" /\ a \in Range(batch) /\ pc \in {"collect", "failed", "panic"}
        /\ job \in [Assignments -> {"none", "computing", "sending", "ended"}]
        /\ Range(batch) \subseteq Assignments
    <2>1. job[a] = "computing"
      BY DEF JobCompute
    <2>2. Range(batch) \subseteq Assignments
      BY DEF ExpansionInv, ControlType, Range
    <2> QED
      BY <2>1, <2>2 DEF ExpansionInv, ControlType, JobInv
  <1>2. a \in Unfilled
    BY <1>1 DEF Unfilled
  <1>3. ~Panics(tr, a)
    <2>1. ReadyIn(a, FilledIn) /\ Sound(tr, FilledIn)
      BY <1>2, BatchReady DEF DataInv
    <2> QED
      BY <2>1, NoPanic
  <1>4. /\ pc' = pc /\ job' = [job EXCEPT ![a] = "sending"]
        /\ result' = [result EXCEPT ![a] = IF a \in conf.faulty THEN [NoResult EXCEPT !.err = TRUE]
                                           ELSE [cols |-> Compute(tr, a), err |-> FALSE]]
        /\ UNCHANGED <<conf, worklist, notReady, scan, batch, ch, got, tr>>
    BY <1>3 DEF JobCompute, Expander
  <1>5. FilledIn' = FilledIn
    BY <1>4 DEF FilledIn, Untaken, Unfilled
  <1>6. /\ result' = [b \in Assignments |-> result'[b]] /\ \A b \in Assignments \ {a} : result'[b] = result[b]
        /\ result'[a] = IF a \in conf.faulty THEN [NoResult EXCEPT !.err = TRUE]
                        ELSE [cols |-> Compute(tr, a), err |-> FALSE]
    BY <1>4 DEF DataInv
  <1>7. Right(a)'
    <2>1. CASE a \in conf.faulty
      <3>1. result'[a].err = TRUE
        BY <1>6, <2>1 DEF NoResult
      <3> QED
        BY <1>4, <2>1, <3>1 DEF Right
    <2>2. CASE a \notin conf.faulty
      BY <1>4, <1>6, <2>2 DEF Right
    <2> QED
      BY <2>1, <2>2
  <1>8. ASSUME NEW b \in Assignments \ {a}, Right(b) PROVE Right(b)'
    BY <1>4, <1>6, <1>8 DEF Right
  <1>9. ResultInv'
    <2>1. ASSUME NEW b \in Range(batch'), pc' = "collect", job'[b] \in {"sending", "ended"}
          PROVE  Right(b)'
      <3>1. b \in Range(batch) /\ b \in Assignments
        BY <1>1, <1>4
      <3>2. CASE b = a
        BY <1>7, <3>2
      <3>3. CASE b # a
        <4>1. job[b] \in {"sending", "ended"} /\ pc = "collect"
          BY <1>1, <1>4, <2>1, <3>1, <3>3
        <4>2. Right(b)
          BY <3>1, <4>1 DEF DataInv, ResultInv
        <4> QED
          BY <1>8, <3>1, <3>3, <4>2
      <3> QED
        BY <3>2, <3>3
    <2>2. pc' # "fill"
      BY <1>1, <1>4
    <2>3. \A b \in Range(got') : pc' \in {"collect", "fill"} => b \notin conf'.faulty
      BY <1>4 DEF DataInv, ResultInv
    <2> QED
      BY <2>1, <2>2, <2>3 DEF ResultInv
  <1>10. ProgressInv'
    BY <1>1, <1>4 DEF ProgressInv
  <1>11. SerialStep
    BY <1>4, <1>5, Unseen DEF Outcome
  <1> QED
    BY <1>4, <1>5, <1>6, <1>9, <1>10, <1>11 DEF DataInv

(* It answers.                                                             *)
LEMMA JobSendSerial ==
  ASSUME ExpansionInv, DataInv, NEW a \in Assignments, JobSend(a)
  PROVE  DataInv' /\ SerialStep
  <1>1. /\ job[a] = "sending" /\ job' = [job EXCEPT ![a] = "ended"] /\ pc' = pc
        /\ UNCHANGED <<conf, worklist, notReady, scan, batch, result, got, tr>>
    BY DEF JobSend, Expander
  <1>2. /\ pc \in {"collect", "failed", "panic"} /\ Range(batch) \subseteq Assignments
        /\ job \in [Assignments -> {"none", "computing", "sending", "ended"}]
    <2>1. Range(batch) \subseteq Assignments
      BY DEF ExpansionInv, ControlType, Range
    <2> QED
      BY <1>1, <2>1 DEF ExpansionInv, ControlType, JobInv
  <1>3. FilledIn' = FilledIn
    BY <1>1 DEF FilledIn, Untaken, Unfilled
  <1>4. \A b \in Assignments : job'[b] \in {"sending", "ended"} => job[b] \in {"sending", "ended"}
    BY <1>1, <1>2
  <1>5. ASSUME NEW b \in Assignments, Right(b) PROVE Right(b)'
    BY <1>1, <1>5 DEF Right
  <1>6. ResultInv'
    <2>1. ASSUME NEW b \in Range(batch'), pc' = "collect", job'[b] \in {"sending", "ended"}
          PROVE  Right(b)'
      <3>1. b \in Range(batch) /\ b \in Assignments /\ pc = "collect"
        BY <1>1, <1>2, <2>1
      <3>2. job[b] \in {"sending", "ended"}
        BY <1>4, <2>1, <3>1
      <3>3. Right(b)
        BY <3>1, <3>2 DEF DataInv, ResultInv
      <3> QED
        BY <1>5, <3>1, <3>3
    <2>2. pc' # "fill"
      BY <1>1, <1>2
    <2>3. \A b \in Range(got') : pc' \in {"collect", "fill"} => b \notin conf'.faulty
      BY <1>1 DEF DataInv, ResultInv
    <2> QED
      BY <2>1, <2>2, <2>3 DEF ResultInv
  <1>7. ProgressInv'
    BY <1>1, <1>2 DEF ProgressInv
  <1>8. SerialStep
    BY <1>1, <1>3, Unseen DEF Outcome
  <1> QED
    BY <1>1, <1>3, <1>6, <1>7, <1>8 DEF DataInv

(* An answer is collected; with an error, the expansion fails as the       *)
(* serial one may.                                                         *)
LEMMA CollectSerial ==
  ASSUME ExpansionInv, ExpansionInv', DataInv, Collect
  PROVE  DataInv' /\ SerialStep
  <1>0. /\ pc = "collect" /\ ch # <<>> /\ ch' = Tail(ch)
        /\ \/ result[Head(ch)].err /\ pc' = "failed" /\ got' = got
           \/ /\ ~result[Head(ch)].err /\ got' = Append(got, Head(ch))
              /\ pc' = IF Len(got') = Len(batch) THEN "fill" ELSE "collect"
        /\ UNCHANGED <<conf, worklist, notReady, scan, batch, job, result, tr, runs>>
    BY DEF Collect, Expander
  <1>1. PICK a \in Assignments : a = Head(ch) /\ a \in Range(ch)
    <2>1. ch \in Seq(Assignments)
      BY DEF ExpansionInv, ControlType
    <2> QED
      BY <1>0, <2>1, TakeHead
  <1>2. a \in Range(batch) /\ job[a] = "ended" /\ a \in Unfilled
    BY <1>0, <1>1 DEF ExpansionInv, AnswerInv, Unfilled
  <1>3. Right(a)
    BY <1>0, <1>2 DEF DataInv, ResultInv
  <1>4. \A b : Right(b) => Right(b)'
    BY <1>0 DEF Right
  <1>5. CASE result[a].err
    <2>1. pc' = "failed" /\ got' = got
      BY <1>0, <1>1, <1>5
    <2>2. a \in conf.faulty
      BY <1>3, <1>5 DEF Right
    <2>3. FilledIn' = FilledIn
      BY <1>0, <2>1 DEF FilledIn, Untaken, Unfilled
    <2>4. ResultInv' /\ ProgressInv'
      BY <2>1 DEF ResultInv, ProgressInv
    <2>5. SerialStep
      BY <1>0, <1>2, <2>1, <2>2, <2>3, FailStep DEF Outcome
    <2> QED
      BY <1>0, <2>1, <2>3, <2>4, <2>5 DEF DataInv
  <1>6. CASE ~result[a].err
    <2>1. got' = Append(got, a) /\ pc' = (IF Len(got') = Len(batch) THEN "fill" ELSE "collect")
      BY <1>0, <1>1, <1>6
    <2>2. a \notin conf.faulty
      BY <1>3, <1>6 DEF Right
    <2>3. Range(got') = Range(got) \cup {a}
      BY <2>1, AppendNew DEF ExpansionInv, ControlType
    <2>4. pc' = "fill" => Range(got') = Range(batch)
      <3> SUFFICES ASSUME Len(got') = Len(batch) PROVE Range(got') = Range(batch)
        BY <2>1
      <3>1. /\ batch \in Seq(Assignments) /\ Distinct(batch, Len(batch)) /\ batch' = batch
            /\ got' \in Seq(Assignments) /\ Distinct(got', Len(got'))
            /\ Range(got') \subseteq Range(batch)
        BY <1>0 DEF ExpansionInv, ControlType, ScanInv, AnswerInv
      <3>2. IsFiniteSet(Range(batch)) /\ Cardinality(Range(batch)) = Len(batch)
        BY <3>1, CountDistinct
      <3>3. Cardinality(Range(got')) = Len(got')
        BY <3>1, CountDistinct
      <3> QED
        BY <3>1, <3>2, <3>3, FS_Subset
    <2>5. FilledIn' = FilledIn
      <3>1. Unfilled' = Unfilled
        BY <1>0, <2>1, <2>4 DEF Unfilled
      <3>2. Untaken' = Untaken
        BY <1>0, <2>1 DEF Untaken
      <3> QED
        BY <3>1, <3>2 DEF FilledIn
    <2>6. \A b \in Range(got') : b \notin conf.faulty /\ Right(b)
      <3>1. \A b \in Range(got) : b \in Range(batch) /\ job[b] = "ended" /\ b \notin conf.faulty
        BY <1>0 DEF ExpansionInv, AnswerInv, DataInv, ResultInv
      <3>2. \A b \in Range(got) : Right(b)
        BY <1>0, <3>1 DEF DataInv, ResultInv
      <3> QED
        BY <1>3, <2>2, <2>3, <3>1, <3>2
    <2>7. ResultInv'
      <3>1. ASSUME NEW b \in Range(batch'), pc' = "collect", job'[b] \in {"sending", "ended"}
            PROVE  Right(b)'
        <4>1. Right(b)
          BY <1>0, <3>1 DEF DataInv, ResultInv
        <4> QED
          BY <1>4, <4>1
      <3>2. ASSUME NEW b \in Range(got') PROVE Right(b)' /\ b \notin conf'.faulty
        BY <1>0, <1>4, <2>6
      <3> QED
        BY <3>1, <3>2 DEF ResultInv
    <2>8. ProgressInv'
      BY <2>1 DEF ProgressInv
    <2>9. SerialStep
      BY <1>0, <2>1, <2>5, Unseen DEF Outcome
    <2> QED
      BY <1>0, <2>1, <2>5, <2>7, <2>8, <2>9 DEF DataInv
  <1> QED
    BY <1>5, <1>6

(* Filling the columns of one answer is the serial step of its assignment: *)
(* the columns are those it would compute now, whatever of the batch was   *)
(* filled since.                                                           *)
LEMMA FillSerial ==
  ASSUME SoundSchema, NoDataAssumption, ExpansionInv, DataInv, Fill
  PROVE  DataInv' /\ SerialStep
  <1>0. /\ pc = "fill" /\ got # <<>> /\ got' = Tail(got)
        /\ UNCHANGED <<conf, worklist, notReady, scan, batch, job, result, ch, runs>>
    BY DEF Fill, Expander, Goroutines
  <1>1. PICK a \in Assignments : /\ a = Head(got) /\ a \in Range(got) /\ a \notin Range(got')
                                 /\ Range(got) = {a} \cup Range(got')
    <2>1. got \in Seq(Assignments) /\ Distinct(got, Len(got))
      BY DEF ExpansionInv, ControlType, AnswerInv
    <2> QED
      BY <1>0, <2>1, TakeHead
  <1>2. Right(a) /\ a \notin conf.faulty /\ a \in Unfilled
    BY <1>0, <1>1 DEF DataInv, ResultInv, Unfilled
  <1>3. result[a].cols = Compute(tr, a)
    BY <1>2 DEF Right
  <1>4. PICK u : u = FillComputedColumns(tr, a, Compute(tr, a))
    OBVIOUS
  <1>5. /\ u.ok /\ Kept(tr, u.t, a) /\ Sound(u.t, FilledIn \cup {a})
        /\ (/\ tr' = u.t /\ FilledIn' = FilledIn \cup {a} /\ conf' = conf
            /\ Outcome = "running" /\ Outcome' = "running") => SerialStep
    BY <1>2, <1>4, ApplyStep
  <1>6. tr' = u.t /\ pc' = "fill"
    BY <1>0, <1>1, <1>3, <1>4, <1>5 DEF Fill
  <1>7. FilledIn' = FilledIn \cup {a}
    <2>1. Unfilled = {a} \cup Range(got') /\ Unfilled' = Range(got')
      BY <1>0, <1>1, <1>6 DEF Unfilled
    <2>2. Untaken' = Untaken
      BY <1>0, <1>6 DEF Untaken
    <2>3. a \notin Untaken
      BY <1>1 DEF ExpansionInv, AnswerInv, ScanInv
    <2> QED
      BY <1>1, <2>1, <2>2, <2>3 DEF FilledIn
  <1>8. SerialStep
    BY <1>0, <1>5, <1>6, <1>7 DEF Outcome
  <1>9. ResultInv'
    <2>1. ASSUME NEW b \in Range(got') PROVE Right(b)' /\ b \notin conf'.faulty
      <3>1. b \in Range(got) /\ b # a /\ b \in Unfilled
        BY <1>0, <1>1 DEF Unfilled
      <3>2. Right(b) /\ b \notin conf.faulty
        BY <1>0, <3>1 DEF DataInv, ResultInv
      <3>3. ReadyIn(b, FilledIn) /\ ReadyIn(a, FilledIn) /\ Sound(tr, FilledIn)
        BY <1>2, <3>1, BatchReady DEF DataInv
      <3>4. Compute(tr', b) = Compute(tr, b)
        BY <1>5, <1>6, <3>1, <3>3, ComputeKept
      <3> QED
        BY <1>0, <3>2, <3>4 DEF Right
    <2> QED
      BY <1>6, <2>1 DEF ResultInv
  <1>10. ProgressInv'
    BY <1>6 DEF ProgressInv
  <1> QED
    BY <1>0, <1>5, <1>6, <1>7, <1>8, <1>9, <1>10 DEF DataInv

(* The batch is filled.                                                    *)
LEMMA FillEndSerial ==
  ASSUME ExpansionInv, DataInv, FillEnd
  PROVE  DataInv' /\ SerialStep
  <1>0. /\ pc = "fill" /\ pc' = "loop" /\ got = <<>> /\ batch' = <<>>
        /\ UNCHANGED <<conf, worklist, notReady, scan, job, result, ch, got, tr>>
    BY DEF FillEnd, Goroutines
  <1>1. FilledIn' = FilledIn
    BY <1>0 DEF FilledIn, Untaken, Unfilled
  <1>2. ResultInv' /\ ProgressInv'
    BY <1>0 DEF ResultInv, ProgressInv
  <1>3. SerialStep
    BY <1>0, <1>1, Unseen DEF Outcome
  <1> QED
    BY <1>0, <1>1, <1>2, <1>3 DEF DataInv

(* In sequence, computing and filling are one step.                        *)
LEMMA ComputeOneSerial ==
  ASSUME SoundSchema, NoDataAssumption, ExpansionInv, DataInv, ComputeOne
  PROVE  DataInv' /\ SerialStep
  <1>0. /\ pc = "compute" /\ UNCHANGED <<conf, worklist, notReady, scan, job, result, ch, got>>
    BY DEF ComputeOne, Goroutines
  <1>1. PICK a \in Assignments : a = batch[1] /\ Range(batch) = {a} /\ a \notin Untaken
    <2>1. batch \in Seq(Assignments) /\ batch # <<>> /\ Len(batch) <= 1
      <3>1. ~conf.parallel /\ pc # "scan" /\ batch \in Seq(Assignments) /\ batch # <<>>
        BY <1>0 DEF ExpansionInv, ScanInv, ControlType
      <3>2. Len(batch) + 0 <= 1
        BY <3>1 DEF ExpansionInv, ScanInv
      <3> QED
        BY <3>1, <3>2
    <2>2. Len(batch) = 1
      <3>1. Len(batch) \in Nat \ {0}
        BY <2>1, NonEmpty
      <3>2. \A n \in Nat \ {0} : n <= 1 => n = 1
        OBVIOUS
      <3> QED
        BY <2>1, <3>1, <3>2
    <2>3. Range(batch) = {batch[1]} /\ batch[1] \in Assignments
      BY <2>1, <2>2 DEF Range
    <2> QED
      BY <2>3 DEF ExpansionInv, ScanInv
  <1>2. a \in Unfilled
    BY <1>0, <1>1 DEF Unfilled
  <1>3. PICK u : u = FillComputedColumns(tr, a, Compute(tr, a))
    OBVIOUS
  <1>4. CASE a \in conf.faulty
    <2>1. pc' = "failed" /\ tr' = tr /\ batch' = batch
      BY <1>1, <1>4 DEF ComputeOne
    <2>2. FilledIn' = FilledIn
      BY <1>0, <2>1 DEF FilledIn, Untaken, Unfilled
    <2>3. ResultInv' /\ ProgressInv'
      BY <2>1 DEF ResultInv, ProgressInv
    <2>4. SerialStep
      BY <1>0, <1>2, <1>4, <2>1, <2>2, FailStep DEF Outcome
    <2> QED
      BY <1>0, <2>1, <2>2, <2>3, <2>4 DEF DataInv
  <1>5. CASE a \notin conf.faulty
    <2>1. /\ ~Panics(tr, a) /\ u.ok /\ Kept(tr, u.t, a) /\ Sound(u.t, FilledIn \cup {a})
          /\ (/\ tr' = u.t /\ FilledIn' = FilledIn \cup {a} /\ conf' = conf
              /\ Outcome = "running" /\ Outcome' = "running") => SerialStep
      BY <1>2, <1>3, <1>5, ApplyStep
    <2>2. tr' = u.t /\ pc' = "loop" /\ batch' = <<>>
      BY <1>1, <1>3, <1>5, <2>1 DEF ComputeOne
    <2>3. FilledIn' = FilledIn \cup {a}
      <3>1. Unfilled = {a} /\ Unfilled' = {} /\ Untaken' = Untaken
        BY <1>0, <1>1, <2>2 DEF Unfilled, Untaken, Range
      <3> QED
        BY <1>1, <3>1 DEF FilledIn
    <2>4. ResultInv' /\ ProgressInv'
      BY <2>2 DEF ResultInv, ProgressInv
    <2>5. SerialStep
      BY <1>0, <2>1, <2>2, <2>3 DEF Outcome
    <2> QED
      BY <1>0, <2>1, <2>2, <2>3, <2>4, <2>5 DEF DataInv
  <1> QED
    BY <1>4, <1>5

(* The expansion ends when every assignment has taken effect.              *)
LEMMA FinishSerial ==
  ASSUME ExpansionInv, DataInv, Finish
  PROVE  DataInv' /\ SerialStep
  <1>0. /\ pc = "loop" /\ pc' = "done" /\ worklist = <<>>
        /\ UNCHANGED <<conf, worklist, notReady, scan, batch, job, result, ch, got, tr, runs>>
    BY DEF Finish, Goroutines, Expander
  <1>1. FilledIn' = FilledIn /\ FilledIn = Assignments
    <2>1. batch = <<>> /\ Range(<<>>) = {}
      BY <1>0 DEF ExpansionInv, ScanInv, Range
    <2>2. Untaken = {} /\ Unfilled = {} /\ Untaken' = {} /\ Unfilled' = {}
      BY <1>0, <2>1 DEF Untaken, Unfilled
    <2> QED
      BY <2>2 DEF FilledIn
  <1>2. ResultInv' /\ ProgressInv'
    BY <1>0 DEF ResultInv, ProgressInv
  <1>3. Serial!Finish
    BY <1>0, <1>1 DEF Serial!Finish
  <1>4. SerialStep
    BY <1>3 DEF SerialStep, Serial!Next
  <1> QED
    BY <1>0, <1>1, <1>2, <1>4 DEF DataInv

(* Every step of the expansion of a sound schema is one of the serial      *)
(* expansion, or changes nothing it sees.                                  *)
LEMMA NextSerial ==
  ASSUME SoundSchema, NoDataAssumption, ExpansionInv, ExpansionInv', DataInv, [Next]_vars
  PROVE  DataInv' /\ SerialStep
  <1>1. CASE Main
    BY <1>1, NextStartSerial, NextTakeSerial, NextSkipSerial, NextReturnSerial, DispatchSerial,
       CollectSerial, FillSerial, FillEndSerial, ComputeOneSerial, FinishSerial DEF Main
  <1>2. ASSUME NEW a \in Assignments, Goroutine(a)
        PROVE  DataInv' /\ SerialStep
    BY <1>2, JobComputeSerial, JobSendSerial DEF Goroutine
  <1>3. CASE UNCHANGED vars
    <2>1. UNCHANGED <<conf, pc, worklist, notReady, scan, batch, job, result, ch, got, tr, runs>>
      BY <1>3 DEF vars
    <2>2. FilledIn' = FilledIn
      BY <2>1 DEF FilledIn, Untaken, Unfilled
    <2>3. \A b : Right(b)' = Right(b)
      BY <2>1 DEF Right
    <2>4. ResultInv'
      BY <2>1, <2>3 DEF DataInv, ResultInv
    <2>5. ProgressInv'
      BY <2>1 DEF DataInv, ProgressInv, IsReady
    <2>6. SerialStep
      BY <2>1, <2>2, Unseen DEF Outcome
    <2> QED
      BY <2>1, <2>2, <2>4, <2>5, <2>6 DEF DataInv
  <1> QED
    BY <1>1, <1>2, <1>3 DEF Next

(* It starts with nothing in effect, on a sound trace.                     *)
LEMMA InitSerial ==
  ASSUME \A t \in InitialTraces : SoundTrace(t), Init
  PROVE  DataInv /\ Serial!Init
  <1>1. pc = "loop" /\ got = <<>> /\ tr \in InitialTraces /\ result = [a \in Assignments |-> NoResult]
    BY DEF Init
  <1>2. FilledIn = {}
    <2>1. PICK order \in Orders : NewExpander(order)
      BY DEF Init
    <2>2. Range(order) = Assignments
      BY OrdersAssumption
    <2>3. Untaken = Assignments
      BY <1>1, <2>1, <2>2 DEF Untaken, NewExpander
    <2> QED
      BY <2>3 DEF FilledIn
  <1>3. SoundTrace(tr)
    BY <1>1
  <1>4. Sound(tr, {})
    <2>1. /\ tr.height \in [Modules -> Nat]
          /\ \A r \in Registers :
                IF tr.data[r] = NoData THEN \E a \in Assignments \ {} : r \in RegistersWritten(a)
                ELSE Column(tr.data[r], tr.height[ModuleOf[r]])
      BY <1>3 DEF SoundTrace
    <2>2. \A a \in (Assignments \ FunctionAssignments) \ {} : \A r \in RegistersWritten(a) : tr.data[r] = NoData
      BY <1>3 DEF SoundTrace
    <2>3. \A f \in FunctionAssignments : InstancesSound(tr, f)
      BY <1>3 DEF SoundTrace
    <2>4. \A f \in FunctionAssignments : tr.data[ArgumentOf(f)] \in Seq(Int) /\ tr.data[ResultOf(f)] \in Seq(Int)
      BY <2>3 DEF InstancesSound
    <2> QED
      BY <2>1, <2>2, <2>3, <2>4 DEF Sound
  <1>5. ResultInv /\ ProgressInv
    BY <1>1 DEF ResultInv, ProgressInv, Range
  <1>6. result = [a \in Assignments |-> result[a]]
    BY <1>1
  <1>7. Serial!Init
    BY <1>1, <1>2 DEF Serial!Init
  <1> QED
    BY <1>1, <1>2, <1>4, <1>5, <1>6, <1>7 DEF DataInv

(* Whatever the batches, the goroutines and the order of their answers,    *)
(* expanding a sound trace of a sound schema is a serial expansion: the    *)
(* assignments take effect one after the other, none before what it needs, *)
(* and neither the scan nor an assignment ever panics.                     *)
THEOREM ExpansionIsSerial ==
  ASSUME SoundSchema, \A t \in InitialTraces : SoundTrace(t), NoDataAssumption
  PROVE  Spec => Serialised
  <1>1. Init => DataInv /\ Serial!Init
    BY InitSerial
  <1>2. ExpansionInv /\ ExpansionInv' /\ DataInv /\ [Next]_vars => DataInv' /\ SerialStep
    BY NextSerial
  <1> QED
    BY <1>1, <1>2, InvariantHolds, PTL DEF Spec, Serialised, Serial!Spec, SerialStep

(* In particular no expansion of it panics: the scan of a worklist that is *)
(* not empty always finds an assignment, none reads a column that is not   *)
(* there or disagrees with its recorded instances, and every Resize finds  *)
(* columns of one height.                                                  *)
THEOREM ExpansionNeverPanics ==
  ASSUME SoundSchema, \A t \in InitialTraces : SoundTrace(t), NoDataAssumption
  PROVE  Spec => [](pc # "panic")
  <1>1. Init => DataInv
    BY InitSerial
  <1>2. ExpansionInv /\ ExpansionInv' /\ DataInv /\ [Next]_vars => DataInv'
    BY NextSerial
  <1>3. DataInv => pc # "panic"
    BY DEF DataInv
  <1> QED
    BY <1>1, <1>2, <1>3, InvariantHolds, PTL DEF Spec

=============================================================================
