---------------------------- MODULE ReportsProofs ----------------------------
(***************************************************************************)
(* What a decision about a report has done to its object, with any number  *)
(* of reporters, moderators' workers and reports.  Between two queries of  *)
(* act_on_report nothing is locked, so the invariant says what a worker    *)
(* may still rely on: the steps of the measure behind it stay taken, and a *)
(* report it is about to close as resolved has its measure.                *)
(***************************************************************************)
EXTENDS Reports, SequenceTheorems, TLAPS

\* a worker in the middle of the measure has taken the steps before
StepsBehind(p, k, t) ==
  p.step = "measure" =>
    /\ p.next \in 1 .. Len(Measure(k))
    /\ \A n \in 1 .. p.next - 1 : Measure(k)[n] \in t

\* a worker that closes reports as resolved has the whole measure behind it
ClosesMeasured(p, k, t, g) ==
  p.step \in {"save", "duplicates"} /\ p.as = "resolved" => t = Steps(k) \/ g

\* a worker decides about a report that was filed
RowFiled(p, rs) == p.step \in {"measure", "save", "duplicates", "tell"} => p.row \in DOMAIN rs

WorkHolds(p, k, t, g, rs) ==
  StepsBehind(p, k, t) /\ ClosesMeasured(p, k, t, g) /\ RowFiled(p, rs)

ReportsInv ==
  /\ TypeOK
  /\ \A w \in Workers : WorkHolds(work[w], kind, taken, gone, reports)
  /\ ResolvedMeansMeasured
  /\ NoneLeftBehind

-----------------------------------------------------------------------------
(* The measures *)

\* The steps of the measure against an object of each kind.
LEMMA Measures ==
  /\ Measure("request") = <<"cancel">> /\ Measure("content") = <<"hide">>
  /\ Measure("user") = <<"revoke", "deactivate", "close_open_work">>
  /\ Measure("staff") = <<"never">>
BY DEF Measure

LEMMA MeasureLen ==
  ASSUME NEW k \in Kinds
  PROVE  /\ Len(Measure(k)) \in 1 .. 3
         /\ DOMAIN Measure(k) = 1 .. Len(Measure(k))
         /\ k = "user" => Len(Measure(k)) = 3 /\ Measure(k)[1] = "revoke"
         /\ Steps(k) = {Measure(k)[i] : i \in 1 .. Len(Measure(k))}
<1>1. /\ Len(Measure(k)) \in 1 .. 3 /\ DOMAIN Measure(k) = 1 .. Len(Measure(k))
      /\ k = "user" => Len(Measure(k)) = 3 /\ Measure(k)[1] = "revoke"
  BY Measures DEF Kinds
<1> QED
  BY <1>1 DEF Steps

LEMMA StepAfter ==
  ASSUME NEW len \in 1 .. 3, NEW n \in 1 .. len, n # len
  PROVE  n + 1 \in 1 .. len /\ n + 1 \in 1 .. 3
OBVIOUS

\* Whoever has taken the last step after all those before has taken all.
LEMMA LastStep ==
  ASSUME NEW k \in Kinds, NEW t \in SUBSET Steps(k), NEW n \in Nat, n = Len(Measure(k)),
         \A m \in 1 .. n - 1 : Measure(k)[m] \in t
  PROVE  t \cup {Measure(k)[n]} = Steps(k)
<1>1. n \in 1 .. 3 /\ Steps(k) = {Measure(k)[i] : i \in 1 .. n}
  BY MeasureLen
<1>2. \A i \in 1 .. n : i = n \/ i \in 1 .. n - 1
  BY <1>1
<1> QED
  BY <1>1, <1>2

-----------------------------------------------------------------------------
(* Types *)

LEMMA ReportsLen ==
  ASSUME TypeOK
  PROVE  /\ Len(reports) \in 0 .. MaxReports
         /\ reports \in [1 .. Len(reports) -> Report]
         /\ DOMAIN reports = 1 .. Len(reports)
         /\ DOMAIN reports \subseteq Rows
<1>1. PICK n \in 0 .. MaxReports : reports \in [1 .. n -> Report]
  BY DEF TypeOK
<1>2. Len(reports) = n
  BY <1>1, ReportsAssumption
<1> QED
  BY <1>1, <1>2, ReportsAssumption DEF Rows

LEMMA ReportAppend ==
  ASSUME NEW rs \in Seq(Report), NEW r \in Report
  PROVE  /\ Append(rs, r) \in [1 .. Len(rs) + 1 -> Report]
         /\ \A i \in 1 .. Len(rs) : Append(rs, r)[i] = rs[i]
         /\ Append(rs, r)[Len(rs) + 1] = r
<1>1. /\ Append(rs, r) \in Seq(Report)
      /\ Len(Append(rs, r)) = Len(rs) + 1
      /\ \A i \in 1 .. Len(rs) : Append(rs, r)[i] = rs[i]
      /\ Append(rs, r)[Len(rs) + 1] = r
  BY AppendProperties
<1>2. Append(rs, r) \in [1 .. Len(rs) + 1 -> Report]
  BY <1>1, LenProperties
<1> QED
  BY <1>1, <1>2

\* What a worker holds in each step.
LEMMA WorkFields ==
  ASSUME TypeOK, NEW w \in Workers
  PROVE  /\ work[w] \in Work
         /\ work[w].step = "file" => work[w].by \in Reporters
         /\ work[w].step \in {"measure", "save", "duplicates", "tell"} => work[w].row \in Rows
         /\ work[w].step = "measure" => work[w].as = "resolved" /\ work[w].next \in 1 .. 3
         /\ work[w].step \in {"save", "duplicates", "tell"}
              => work[w].as \in {"resolved", "dismissed"}
BY DEF TypeOK, Work, Idle

LEMMA InitReports == Init => ReportsInv
<1> SUFFICES ASSUME Init PROVE ReportsInv
  OBVIOUS
<1>1. reports = <<>> /\ DOMAIN reports = {}
  BY DEF Init
<1>2. reports \in [1 .. 0 -> Report]
  BY <1>1
<1>3. TypeOK
  <2>1. taken \subseteq Steps(kind)
    BY DEF Init
  <2>2. reports \in UNION {[1 .. n -> Report] : n \in 0 .. MaxReports}
    BY <1>2, ReportsAssumption
  <2> QED
    BY <2>1, <2>2 DEF Init, TypeOK, Work
<1>4. \A w \in Workers : WorkHolds(work[w], kind, taken, gone, reports)
  BY DEF Init, Idle, WorkHolds, StepsBehind, ClosesMeasured, RowFiled
<1> QED
  BY <1>1, <1>3, <1>4 DEF ReportsInv, ResolvedMeansMeasured, NoneLeftBehind

-----------------------------------------------------------------------------
(* Steps that leave the reports as they are *)

\* What is known of a worker survives when steps are added and the row deleted.
LEMMA WorkStays ==
  ASSUME TypeOK, NEW p, WorkHolds(p, kind, taken, gone, reports),
         NEW t \in SUBSET Steps(kind), taken \subseteq t,
         NEW g \in BOOLEAN, gone => g,
         NEW rs, DOMAIN reports \subseteq DOMAIN rs
  PROVE  WorkHolds(p, kind, t, g, rs)
<1>1. taken = Steps(kind) => t = Steps(kind)
  OBVIOUS
<1> QED
  BY <1>1 DEF WorkHolds, StepsBehind, ClosesMeasured, RowFiled

\* A step of a worker that closes no report; what it goes on to do is sound.
LEMMA WorkerStep ==
  ASSUME ReportsInv, NEW w \in Workers, NEW p \in Work, Set(w, p),
         UNCHANGED <<kind, gone, reports, cut>>,
         taken' \in SUBSET Steps(kind), taken \subseteq taken',
         ~At(w, "duplicates"),
         WorkHolds(p, kind, taken', gone, reports)
  PROVE  ReportsInv'
<1> USE DEF ReportsInv
<1>1. work' = [work EXCEPT ![w] = p]
  BY DEF Set
<1>2. TypeOK'
  BY <1>1 DEF TypeOK
<1>3. \A x \in Workers : WorkHolds(work'[x], kind', taken', gone', reports')
  <2> SUFFICES ASSUME NEW x \in Workers
               PROVE  WorkHolds(work'[x], kind, taken', gone, reports)
    OBVIOUS
  <2>1. CASE x = w
    BY <1>1, <2>1 DEF TypeOK
  <2>2. CASE x # w
    <3>1. work'[x] = work[x]
      BY <1>1, <2>2 DEF TypeOK
    <3>2. WorkHolds(work[x], kind, taken', gone, reports)
      BY WorkStays DEF TypeOK
    <3> QED
      BY <3>1, <3>2
  <2> QED
    BY <2>1, <2>2
<1>4. ResolvedMeansMeasured'
  BY DEF ResolvedMeansMeasured, Measured, TypeOK
<1>5. NoneLeftBehind'
  <2> SUFFICES ASSUME NEW i \in DOMAIN reports, NEW j \in DOMAIN reports,
                      j < i, reports[j].status = "open", reports[i].status # "open",
                      i \notin cut
               PROVE  \E x \in Workers : At(x, "duplicates")' /\ work'[x].row = i
    BY DEF NoneLeftBehind
  <2>1. PICK x \in Workers : At(x, "duplicates") /\ work[x].row = i
    BY DEF NoneLeftBehind
  <2>2. x # w /\ work'[x] = work[x]
    BY <1>1, <2>1 DEF TypeOK
  <2> QED
    BY <2>1, <2>2 DEF At
<1> QED
  BY <1>2, <1>3, <1>4, <1>5

LEMMA PageInv ==
  ASSUME ReportsInv, NEW w \in Workers, ReportPage(w) \/ Dismiss(w) \/ TellReporter(w)
  PROVE  ReportsInv'
<1> USE DEF ReportsInv
<1>1. CASE ReportPage(w)
  <2>1. PICK r \in Reporters : Set(w, [step |-> "file", by |-> r])
    BY <1>1 DEF ReportPage
  <2>2. /\ [step |-> "file", by |-> r] \in Work
        /\ WorkHolds([step |-> "file", by |-> r], kind, taken, gone, reports)
    BY DEF Work, WorkHolds, StepsBehind, ClosesMeasured, RowFiled
  <2> QED
    BY <1>1, <2>1, <2>2, WorkerStep DEF ReportPage, At, TypeOK
<1>2. CASE Dismiss(w)
  <2>1. PICK i \in OpenRows : Set(w, [step |-> "save", row |-> i, as |-> "dismissed"])
    BY <1>2 DEF Dismiss
  <2>2. i \in Rows /\ i \in DOMAIN reports
    BY ReportsLen DEF OpenRows
  <2>3. /\ [step |-> "save", row |-> i, as |-> "dismissed"] \in Work
        /\ WorkHolds([step |-> "save", row |-> i, as |-> "dismissed"], kind, taken, gone, reports)
    BY <2>2 DEF Work, WorkHolds, StepsBehind, ClosesMeasured, RowFiled
  <2> QED
    BY <1>2, <2>1, <2>3, WorkerStep DEF Dismiss, At, TypeOK
<1>3. CASE TellReporter(w)
  <2>1. Idle \in Work /\ WorkHolds(Idle, kind, taken, gone, reports)
    BY DEF Work, Idle, WorkHolds, StepsBehind, ClosesMeasured, RowFiled
  <2> QED
    BY <1>3, <2>1, WorkerStep DEF TellReporter, At, TypeOK
<1> QED
  BY <1>1, <1>2, <1>3

\* The moderator begins with the first step that is still to be taken.
LEMMA ActInv ==
  ASSUME ReportsInv, NEW w \in Workers, Act(w)
  PROVE  ReportsInv'
<1> USE DEF ReportsInv
<1>1. PICK i \in OpenRows :
        Set(w, IF gone THEN [step |-> "save", row |-> i, as |-> "resolved"]
               ELSE [step |-> "measure", row |-> i, as |-> "resolved",
                     next |-> IF kind = "user" /\ "revoke" \in taken THEN 2 ELSE 1])
  BY DEF Act
<1>2. i \in Rows /\ i \in DOMAIN reports
  BY ReportsLen DEF OpenRows
<1>3. CASE gone
  <2>1. /\ [step |-> "save", row |-> i, as |-> "resolved"] \in Work
        /\ WorkHolds([step |-> "save", row |-> i, as |-> "resolved"], kind, taken, gone, reports)
    BY <1>2, <1>3 DEF Work, WorkHolds, StepsBehind, ClosesMeasured, RowFiled
  <2> QED
    BY <1>1, <1>3, <2>1, WorkerStep DEF Act, At, TypeOK
<1>4. CASE ~gone
  <2> DEFINE n == IF kind = "user" /\ "revoke" \in taken THEN 2 ELSE 1
             p == [step |-> "measure", row |-> i, as |-> "resolved", next |-> n]
  <2>1. n \in 1 .. 3 /\ n \in 1 .. Len(Measure(kind))
    <3>1. kind \in Kinds
      BY DEF TypeOK
    <3>2. CASE kind = "user" /\ "revoke" \in taken
      <4>1. n = 2 /\ Len(Measure(kind)) = 3
        BY <3>1, <3>2, MeasureLen
      <4> QED
        BY <4>1
    <3>3. CASE ~(kind = "user" /\ "revoke" \in taken)
      <4>1. n = 1 /\ Len(Measure(kind)) \in 1 .. 3
        BY <3>1, <3>3, MeasureLen
      <4> QED
        BY <4>1
    <3> QED
      BY <3>2, <3>3
  <2>2. \A m \in 1 .. n - 1 : Measure(kind)[m] \in taken
    BY MeasureLen DEF TypeOK
  <2>3. p.step = "measure" /\ p.row = i /\ p.next = n
    OBVIOUS
  <2> HIDE DEF n
  <2>4. p \in Work
    BY <1>2, <2>1 DEF Work
  <2>5. WorkHolds(p, kind, taken, gone, reports)
    BY <1>2, <2>1, <2>2, <2>3 DEF WorkHolds, StepsBehind, ClosesMeasured, RowFiled
  <2>6. Set(w, p)
    BY <1>1, <1>4 DEF n
  <2> HIDE DEF p
  <2> QED
    BY <2>4, <2>5, <2>6, WorkerStep DEF Act, At, TypeOK
<1> QED
  BY <1>3, <1>4

LEMMA TakeMeasureInv ==
  ASSUME ReportsInv, NEW w \in Workers, TakeMeasure(w)
  PROVE  ReportsInv'
<1> USE DEF ReportsInv
<1> DEFINE n == work[w].next
           k == kind
<1>1. /\ work[w].step = "measure" /\ work[w].as = "resolved" /\ work[w].row \in DOMAIN reports
      /\ n \in 1 .. Len(Measure(k)) /\ k \in Kinds
      /\ \A m \in 1 .. n - 1 : Measure(k)[m] \in taken
  BY WorkFields DEF TakeMeasure, At, WorkHolds, StepsBehind, RowFiled, TypeOK
<1>2. /\ taken' = taken \cup {Measure(k)[n]}
      /\ UNCHANGED <<kind, gone, reports, cut>>
      /\ Set(w, IF n = Len(Measure(k)) THEN Rest(w, "save")
                ELSE [work[w] EXCEPT !.next = n + 1])
  BY DEF TakeMeasure
<1>3. Len(Measure(k)) \in 1 .. 3 /\ Measure(k)[n] \in Steps(k)
  BY <1>1, MeasureLen
<1>4. taken' \in SUBSET Steps(k) /\ taken \subseteq taken' /\ ~At(w, "duplicates")
  BY <1>1, <1>2, <1>3 DEF TypeOK, At
<1>5. work[w].row \in Rows
  BY <1>1, ReportsLen
<1>6. CASE n = Len(Measure(k))
  <2>1. taken' = Steps(k)
    BY <1>1, <1>2, <1>3, <1>6, LastStep DEF TypeOK
  <2>2. /\ Rest(w, "save") = [step |-> "save", row |-> work[w].row, as |-> "resolved"]
        /\ Rest(w, "save") \in Work
    BY <1>1, <1>5 DEF Rest, Work
  <2>3. WorkHolds(Rest(w, "save"), kind, taken', gone, reports)
    BY <1>1, <2>1, <2>2 DEF WorkHolds, StepsBehind, ClosesMeasured, RowFiled
  <2> QED
    BY <1>2, <1>4, <1>6, <2>2, <2>3, WorkerStep
<1>7. CASE n # Len(Measure(k))
  <2> DEFINE p == [step |-> "measure", row |-> work[w].row, as |-> "resolved", next |-> n + 1]
  <2>1. work[w] = [step |-> "measure", row |-> work[w].row, as |-> "resolved", next |-> n]
    BY <1>1, WorkFields DEF Work, Idle
  <2>2. [work[w] EXCEPT !.next = n + 1] = p
    BY <2>1
  <2>3. n + 1 \in 1 .. Len(Measure(k)) /\ n + 1 \in 1 .. 3
    BY <1>1, <1>3, <1>7, StepAfter
  <2>4. p \in Work
    BY <1>5, <2>3 DEF Work
  <2>5. \A m \in 1 .. (n + 1) - 1 : m = n \/ m \in 1 .. n - 1
    BY <1>1
  <2>6. WorkHolds(p, kind, taken', gone, reports)
    BY <1>1, <1>2, <2>3, <2>5 DEF WorkHolds, StepsBehind, ClosesMeasured, RowFiled
  <2> QED
    BY <1>2, <1>4, <1>7, <2>2, <2>4, <2>6, WorkerStep
<1> QED
  BY <1>6, <1>7

-----------------------------------------------------------------------------
(* Steps that write reports *)

\* Filing appends an open report, behind every other.
LEMMA FileInv ==
  ASSUME ReportsInv, NEW w \in Workers, FileReport(w)
  PROVE  ReportsInv'
<1> USE DEF ReportsInv
<1> DEFINE new == [by |-> work[w].by, status |-> "open"]
<1>1. Idle \in Work /\ WorkHolds(Idle, kind, taken, gone, reports)
  BY DEF Work, Idle, WorkHolds, StepsBehind, ClosesMeasured, RowFiled
<1>2. work[w].step = "file" /\ work[w].by \in Reporters
  BY WorkFields DEF FileReport, At
<1>3. CASE UNCHANGED reports
  BY <1>1, <1>2, <1>3, WorkerStep DEF FileReport, At, TypeOK
<1>4. CASE Len(reports) < MaxReports /\ reports' = Append(reports, new)
  <2> DEFINE n == Len(reports)
  <2>1. n \in Nat /\ reports \in [1 .. n -> Report] /\ DOMAIN reports = 1 .. n /\ n + 1 \in 0 .. MaxReports
    BY <1>4, ReportsLen, ReportsAssumption
  <2>2. new \in Report /\ new.status = "open"
    BY <1>2 DEF Report, RStatuses
  <2>3. reports \in Seq(Report)
    BY <2>1
  <2> HIDE DEF new
  <2>4. /\ reports' \in [1 .. n + 1 -> Report]
        /\ DOMAIN reports' = 1 .. n + 1
        /\ reports'[n + 1] = new
        /\ \A i \in 1 .. n : reports'[i] = reports[i]
    BY <1>4, <2>1, <2>2, <2>3, ReportAppend
  <2>5. /\ work' = [work EXCEPT ![w] = Idle]
        /\ UNCHANGED <<kind, taken, gone, cut>>
    BY DEF FileReport, Set
  <2>6. TypeOK'
    <3>1. reports' \in UNION {[1 .. m -> Report] : m \in 0 .. MaxReports}
      BY <2>1, <2>4
    <3> QED
      BY <1>1, <2>5, <3>1 DEF TypeOK
  <2>7. \A x \in Workers : WorkHolds(work'[x], kind', taken', gone', reports')
    <3> SUFFICES ASSUME NEW x \in Workers
                 PROVE  WorkHolds(work'[x], kind, taken, gone, reports')
      BY <2>5
    <3>1. DOMAIN reports \subseteq DOMAIN reports'
      BY <2>1, <2>4
    <3>2. WorkHolds(work'[x], kind, taken, gone, reports)
      BY <1>1, <2>5 DEF TypeOK
    <3> QED
      BY <3>1, <3>2, WorkStays DEF TypeOK
  <2>8. ResolvedMeansMeasured'
    BY <2>1, <2>2, <2>4, <2>5 DEF ResolvedMeansMeasured, Measured
  <2>9. NoneLeftBehind'
    <3> SUFFICES ASSUME NEW i \in 1 .. n + 1, NEW j \in 1 .. n + 1,
                        j < i, reports'[j].status = "open", reports'[i].status # "open",
                        i \notin cut
                 PROVE  \E x \in Workers : At(x, "duplicates")' /\ work'[x].row = i
      BY <2>4, <2>5 DEF NoneLeftBehind
    <3>1. i \in 1 .. n /\ j \in 1 .. n
      BY <2>1, <2>2, <2>4
    <3>2. PICK x \in Workers : At(x, "duplicates") /\ work[x].row = i
      BY <2>1, <2>4, <3>1 DEF NoneLeftBehind
    <3>3. work'[x] = work[x]
      BY <1>2, <2>5, <3>2 DEF TypeOK, At
    <3> QED
      BY <3>2, <3>3 DEF At
  <2> QED
    BY <2>6, <2>7, <2>8, <2>9
<1> QED
  BY <1>3, <1>4 DEF FileReport

\* The decision; its worker turns to the duplicates.
LEMMA CloseSaveInv ==
  ASSUME ReportsInv, NEW w \in Workers, CloseSave(w)
  PROVE  ReportsInv'
<1> USE DEF ReportsInv
<1> DEFINE r == work[w].row
           p == Rest(w, "duplicates")
<1>1. /\ work[w].step = "save" /\ r \in DOMAIN reports /\ r \in Rows
      /\ work[w].as \in {"resolved", "dismissed"}
      /\ work[w].as = "resolved" => Measured \/ gone
  BY WorkFields DEF CloseSave, At, WorkHolds, RowFiled, ClosesMeasured, Measured
<1>2. /\ reports' = [reports EXCEPT ![r].status = work[w].as]
      /\ work' = [work EXCEPT ![w] = p]
      /\ UNCHANGED <<kind, taken, gone, cut>>
  BY DEF CloseSave, Set
<1>3. /\ p = [step |-> "duplicates", row |-> r, as |-> work[w].as] /\ p \in Work
      /\ p.step = "duplicates" /\ p.row = r /\ p.as = work[w].as
  BY <1>1 DEF Rest, Work
<1> HIDE DEF p
<1> DEFINE n == Len(reports)
<1>4. n \in 0 .. MaxReports /\ reports \in [1 .. n -> Report] /\ DOMAIN reports = 1 .. n
  BY ReportsLen
<1> HIDE DEF n
<1>5. /\ reports' \in [1 .. n -> Report] /\ DOMAIN reports' = DOMAIN reports
      /\ reports'[r].status = work[w].as
      /\ \A i \in DOMAIN reports \ {r} : reports'[i] = reports[i]
  BY <1>1, <1>2, <1>4 DEF Report, RStatuses
<1>6. /\ work'[w] = p /\ \A x \in Workers \ {w} : work'[x] = work[x]
  BY <1>2 DEF TypeOK
<1>7. TypeOK'
  <2>1. reports' \in UNION {[1 .. m -> Report] : m \in 0 .. MaxReports}
    BY <1>4, <1>5
  <2> QED
    BY <1>2, <1>3, <2>1 DEF TypeOK
<1>8. \A x \in Workers : WorkHolds(work'[x], kind', taken', gone', reports')
  <2> SUFFICES ASSUME NEW x \in Workers
               PROVE  WorkHolds(work'[x], kind, taken, gone, reports')
    BY <1>2
  <2>1. CASE x = w
    BY <1>1, <1>3, <1>5, <1>6, <2>1
    DEF WorkHolds, StepsBehind, ClosesMeasured, RowFiled, Measured
  <2>2. CASE x # w
    <3>1. WorkHolds(work[x], kind, taken, gone, reports')
      BY <1>5 DEF WorkHolds, StepsBehind, ClosesMeasured, RowFiled
    <3> QED
      BY <1>6, <2>2, <3>1
  <2> QED
    BY <2>1, <2>2
<1>9. ResolvedMeansMeasured'
  BY <1>1, <1>2, <1>5 DEF ResolvedMeansMeasured, Measured
<1>10. NoneLeftBehind'
  <2> SUFFICES ASSUME NEW i \in DOMAIN reports, NEW j \in DOMAIN reports,
                      j < i, reports'[j].status = "open", reports'[i].status # "open",
                      i \notin cut
               PROVE  \E x \in Workers : At(x, "duplicates")' /\ work'[x].row = i
    BY <1>2, <1>5 DEF NoneLeftBehind
  <2>1. CASE i = r
    BY <1>3, <1>6, <2>1 DEF At
  <2>2. CASE i # r
    <3>1. j # r /\ reports[j].status = "open" /\ reports[i].status # "open"
      BY <1>1, <1>5, <2>2
    <3>2. PICK x \in Workers : At(x, "duplicates") /\ work[x].row = i
      BY <3>1 DEF NoneLeftBehind
    <3>3. work'[x] = work[x]
      BY <1>1, <1>6, <3>2 DEF At
    <3> QED
      BY <3>2, <3>3 DEF At
  <2> QED
    BY <2>1, <2>2
<1> QED
  BY <1>7, <1>8, <1>9, <1>10

\* The duplicates: no report is open after it.
LEMMA CloseDuplicatesInv ==
  ASSUME ReportsInv, NEW w \in Workers, CloseDuplicates(w)
  PROVE  ReportsInv'
<1> USE DEF ReportsInv
<1> DEFINE p == Rest(w, "tell")
           n == Len(reports)
<1>1. /\ work[w].step = "duplicates" /\ work[w].row \in DOMAIN reports /\ work[w].row \in Rows
      /\ work[w].as \in {"resolved", "dismissed"}
      /\ work[w].as = "resolved" => Measured \/ gone
  BY WorkFields DEF CloseDuplicates, At, WorkHolds, RowFiled, ClosesMeasured, Measured
<1>2. /\ reports' = [i \in DOMAIN reports |->
           IF i \in OpenRows THEN [reports[i] EXCEPT !.status = work[w].as] ELSE reports[i]]
      /\ work' = [work EXCEPT ![w] = p]
      /\ UNCHANGED <<kind, taken, gone, cut>>
  BY DEF CloseDuplicates, Set, Duplicates
<1>3. p = [step |-> "tell", row |-> work[w].row, as |-> work[w].as] /\ p \in Work
  BY <1>1 DEF Rest, Work
<1>4. n \in 0 .. MaxReports /\ reports \in [1 .. n -> Report] /\ DOMAIN reports = 1 .. n
  BY ReportsLen
<1> HIDE DEF n, p
<1>5. /\ reports' \in [1 .. n -> Report] /\ DOMAIN reports' = DOMAIN reports
      /\ \A i \in DOMAIN reports :
           \/ reports[i].status = "open" /\ reports'[i].status = work[w].as
           \/ reports[i].status # "open" /\ reports'[i] = reports[i]
  BY <1>1, <1>2, <1>4 DEF Report, RStatuses, OpenRows
<1>6. TypeOK'
  <2>1. reports' \in UNION {[1 .. m -> Report] : m \in 0 .. MaxReports}
    BY <1>4, <1>5
  <2> QED
    BY <1>2, <1>3, <2>1 DEF TypeOK
<1>7. \A x \in Workers : WorkHolds(work'[x], kind', taken', gone', reports')
  <2> SUFFICES ASSUME NEW x \in Workers
               PROVE  WorkHolds(work'[x], kind, taken, gone, reports')
    BY <1>2
  <2>1. CASE x = w
    BY <1>1, <1>2, <1>3, <1>5, <2>1
    DEF WorkHolds, StepsBehind, ClosesMeasured, RowFiled, TypeOK
  <2>2. CASE x # w
    <3>1. WorkHolds(work[x], kind, taken, gone, reports') /\ work'[x] = work[x]
      BY <1>2, <1>5, <2>2 DEF WorkHolds, StepsBehind, ClosesMeasured, RowFiled, TypeOK
    <3> QED
      BY <3>1
  <2> QED
    BY <2>1, <2>2
<1>8. ResolvedMeansMeasured'
  BY <1>1, <1>2, <1>5 DEF ResolvedMeansMeasured, Measured
<1>9. NoneLeftBehind'
  BY <1>1, <1>5 DEF NoneLeftBehind
<1> QED
  BY <1>6, <1>7, <1>8, <1>9

-----------------------------------------------------------------------------
(* The environment *)

LEMMA AbortInv ==
  ASSUME ReportsInv, NEW w \in Workers, Abort(w)
  PROVE  ReportsInv'
<1> USE DEF ReportsInv
<1>1. /\ work' = [work EXCEPT ![w] = Idle]
      /\ cut' = IF At(w, "duplicates") THEN cut \cup {work[w].row} ELSE cut
      /\ UNCHANGED <<kind, taken, gone, reports>>
  BY DEF Abort, Set
<1>2. Idle \in Work /\ WorkHolds(Idle, kind, taken, gone, reports)
  BY DEF Work, Idle, WorkHolds, StepsBehind, ClosesMeasured, RowFiled
<1>3. TypeOK'
  BY <1>1, <1>2, WorkFields DEF TypeOK, At
<1>4. \A x \in Workers : WorkHolds(work'[x], kind', taken', gone', reports')
  BY <1>1, <1>2 DEF TypeOK
<1>5. ResolvedMeansMeasured'
  BY <1>1 DEF ResolvedMeansMeasured, Measured
<1>6. NoneLeftBehind'
  <2> SUFFICES ASSUME NEW i \in DOMAIN reports, NEW j \in DOMAIN reports,
                      j < i, reports[j].status = "open", reports[i].status # "open",
                      i \notin cut'
               PROVE  \E x \in Workers : At(x, "duplicates")' /\ work'[x].row = i
    BY <1>1 DEF NoneLeftBehind
  <2>1. PICK x \in Workers : At(x, "duplicates") /\ work[x].row = i
    BY <1>1 DEF NoneLeftBehind
  <2>2. x # w /\ work'[x] = work[x]
    BY <1>1, <2>1 DEF TypeOK
  <2> QED
    BY <2>1, <2>2 DEF At
<1> QED
  BY <1>3, <1>4, <1>5, <1>6

LEMMA EnvironmentInv ==
  ASSUME ReportsInv, Ends \/ Delete
  PROVE  ReportsInv'
<1> USE DEF ReportsInv
<1>1. /\ taken' \in SUBSET Steps(kind) /\ taken \subseteq taken'
      /\ gone' \in BOOLEAN /\ (gone => gone')
      /\ UNCHANGED <<kind, reports, work, cut>>
  BY DEF Ends, Delete, TypeOK
<1>2. TypeOK'
  BY <1>1 DEF TypeOK
<1>3. \A x \in Workers : WorkHolds(work'[x], kind', taken', gone', reports')
  BY <1>1, WorkStays
<1>4. ResolvedMeansMeasured'
  BY <1>1 DEF ResolvedMeansMeasured, Measured
<1>5. NoneLeftBehind'
  BY <1>1 DEF NoneLeftBehind, At
<1> QED
  BY <1>2, <1>3, <1>4, <1>5

LEMMA NextReports == ReportsInv /\ [Next]_vars => ReportsInv'
<1> SUFFICES ASSUME ReportsInv, [Next]_vars PROVE ReportsInv'
  OBVIOUS
<1>1. CASE UNCHANGED vars
  BY <1>1
  DEF vars, ReportsInv, TypeOK, ResolvedMeansMeasured, NoneLeftBehind, Measured, At
<1>2. CASE Ends \/ Delete
  BY <1>2, EnvironmentInv
<1>3. ASSUME NEW w \in Workers, ReportPage(w) \/ FileReport(w) \/ Decide(w) \/ Abort(w)
      PROVE  ReportsInv'
  BY <1>3, PageInv, ActInv, TakeMeasureInv, FileInv, CloseSaveInv, CloseDuplicatesInv, AbortInv
  DEF Decide
<1> QED
  BY <1>1, <1>2, <1>3 DEF Next

-----------------------------------------------------------------------------

\* The invariant of the reports holds for any number of reporters, workers and
\* reports (act_on_report and dismiss_report of apps/moderation/services.py).
THEOREM ReportsHold == Spec => []ReportsInv
<1> QED
  BY InitReports, NextReports, PTL DEF Spec

\* The object, the reports and the workers keep their types.
THEOREM ReportsTyped == Spec => []TypeOK
BY ReportsHold, PTL DEF ReportsInv

\* A report is resolved only when every step of the measure was taken, or the
\* object is gone.
THEOREM ResolvedIsMeasured == Spec => []ResolvedMeansMeasured
BY ReportsHold, PTL DEF ReportsInv

\* No report stays open behind a later one that was closed, but for a worker
\* between the two queries or killed there.
THEOREM NothingLeftBehind == Spec => []NoneLeftBehind
BY ReportsHold, PTL DEF ReportsInv

-----------------------------------------------------------------------------
(* The contract of ReportDesk: a step is one of its steps or is not seen.  *)

\* What the desk sees of the workers when one of them goes on to do p.
LEMMA HandsMove ==
  ASSUME TypeOK, NEW w \in Workers, NEW p \in Work, Set(w, p)
  PROVE  /\ Deciding' = [Deciding EXCEPT ![w] =
               IF p.step \in {"measure", "save"} THEN p.row ELSE 0]
         /\ Closing' = [Closing EXCEPT ![w] = IF p.step = "duplicates" THEN p.as ELSE "none"]
<1>1. work' = [work EXCEPT ![w] = p] /\ DOMAIN work = Workers
  BY DEF Set, TypeOK
<1>2. \A x \in Workers : work'[x] = IF x = w THEN p ELSE work[x]
  BY <1>1
<1> QED
  BY <1>2 DEF Deciding, Closing, At

\* A worker of whom the desk sees the same before and after.
LEMMA HandsStay ==
  ASSUME TypeOK, NEW w \in Workers, NEW p \in Work, Set(w, p),
         ~At(w, "duplicates"), p.step # "duplicates",
         \/ At(w, "measure") /\ p.step \in {"measure", "save"} /\ p.row = work[w].row
         \/ ~At(w, "measure") /\ ~At(w, "save") /\ p.step \notin {"measure", "save"}
  PROVE  UNCHANGED <<Deciding, Closing>>
<1>1. work' = [work EXCEPT ![w] = p] /\ DOMAIN work = Workers
  BY DEF Set, TypeOK
<1>2. \A x \in Workers : work'[x] = IF x = w THEN p ELSE work[x]
  BY <1>1
<1> QED
  BY <1>2 DEF Deciding, Closing, At

LEMMA OutcomesStay == reports' = reports => Outcomes' = Outcomes
BY DEF Outcomes

LEMMA DoneStays ==
  UNCHANGED <<kind, taken, gone>> => (Measured \/ gone)' = (Measured \/ gone)
BY DEF Measured

\* Opening a page, telling the reporter, and the filing that is refused.
LEMMA PageUnseen ==
  ASSUME ReportsInv, NEW w \in Workers,
         ReportPage(w) \/ TellReporter(w) \/ (FileReport(w) /\ UNCHANGED reports)
  PROVE  UNCHANGED Desk!vars
<1>1. TypeOK
  BY DEF ReportsInv
<1>2. PICK p \in Work : Set(w, p) /\ p.step \notin {"measure", "save", "duplicates"}
  <2>1. Idle \in Work /\ Idle.step = "idle"
    BY DEF Work, Idle
  <2>2. CASE ReportPage(w)
    <3>1. PICK r \in Reporters : Set(w, [step |-> "file", by |-> r])
      BY <2>2 DEF ReportPage
    <3>2. [step |-> "file", by |-> r] \in Work
      BY DEF Work
    <3> QED
      BY <3>1, <3>2
  <2>3. CASE TellReporter(w) \/ FileReport(w)
    BY <2>1, <2>3 DEF TellReporter, FileReport
  <2> QED
    BY <2>2, <2>3
<1>3. work[w].step \in {"idle", "tell", "file"}
  BY DEF ReportPage, TellReporter, FileReport, At
<1>4. UNCHANGED <<Deciding, Closing>>
  BY <1>1, <1>2, <1>3, HandsStay DEF At
<1>5. UNCHANGED <<kind, taken, gone, reports>>
  BY DEF ReportPage, TellReporter, FileReport
<1> QED
  BY <1>4, <1>5, OutcomesStay, DoneStays DEF Desk!vars

\* A new row is a new open report.
LEMMA FileKeeps ==
  ASSUME ReportsInv, NEW w \in Workers, FileReport(w), ~UNCHANGED reports
  PROVE  Desk!Next
<1> DEFINE new == [by |-> work[w].by, status |-> "open"]
           n == Len(reports)
<1>1. TypeOK /\ work[w].step = "file" /\ work[w].by \in Reporters
  BY WorkFields DEF ReportsInv, FileReport, At
<1>2. /\ n < MaxReports /\ reports' = Append(reports, new)
      /\ Set(w, Idle) /\ UNCHANGED <<kind, taken, gone>>
  BY DEF FileReport
<1>3. n \in Nat /\ reports \in [1 .. n -> Report] /\ DOMAIN reports = 1 .. n /\ n + 1 \in Rows
  <2>1. /\ n \in 0 .. MaxReports /\ reports \in [1 .. n -> Report] /\ DOMAIN reports = 1 .. n
        /\ n < MaxReports
    BY <1>1, <1>2, ReportsLen
  <2> HIDE DEF n
  <2> QED
    BY <2>1, ReportsAssumption DEF Rows
<1>4. reports \in Seq(Report)
  BY <1>3
<1>5. new \in Report /\ new.status = "open"
  BY <1>1 DEF Report, RStatuses
<1> HIDE DEF n, new
<1>6. /\ DOMAIN reports' = 1 .. n + 1
      /\ reports'[n + 1] = new
      /\ \A i \in 1 .. n : reports'[i] = reports[i]
  BY <1>2, <1>4, <1>5, ReportAppend DEF n
<1>7. Outcomes' = [Outcomes EXCEPT ![n + 1] = "open"]
  <2>1. \A i \in 1 .. n + 1 : i \in 1 .. n \/ i = n + 1
    BY <1>3
  <2>2. 1 .. n \subseteq 1 .. n + 1 /\ n + 1 \notin 1 .. n /\ n + 1 \in 1 .. n + 1
    BY <1>3
  <2> QED
    BY <1>3, <1>5, <1>6, <2>1, <2>2 DEF Outcomes
<1>8. Outcomes[n + 1] = "none"
  BY <1>3 DEF Outcomes
<1>9. UNCHANGED <<Deciding, Closing>>
  <2>1. Idle \in Work /\ Idle.step = "idle"
    BY DEF Work, Idle
  <2> QED
    BY <1>1, <1>2, <2>1, HandsStay DEF At
<1>10. Desk!File(n + 1)
  BY <1>2, <1>7, <1>8, <1>9, DoneStays DEF Desk!File
<1> QED
  BY <1>3, <1>10 DEF Desk!Next

\* A moderator loads an open report.
LEMMA TakeKeeps ==
  ASSUME ReportsInv, NEW w \in Workers, Dismiss(w) \/ Act(w)
  PROVE  Desk!Next
<1>1. TypeOK /\ work[w].step = "idle" /\ UNCHANGED <<kind, taken, gone, reports>>
  BY DEF ReportsInv, Dismiss, Act, At
<1>2. PICK i \in OpenRows, p \in Work :
        Set(w, p) /\ p.step \in {"measure", "save"} /\ p.row = i
  <2>1. CASE Dismiss(w)
    <3>1. PICK i \in OpenRows : Set(w, [step |-> "save", row |-> i, as |-> "dismissed"])
      BY <2>1 DEF Dismiss
    <3>2. i \in Rows
      BY <1>1, ReportsLen DEF OpenRows
    <3>3. [step |-> "save", row |-> i, as |-> "dismissed"] \in Work
      BY <3>2 DEF Work
    <3> QED
      BY <3>1, <3>3
  <2>2. CASE Act(w)
    <3>1. PICK i \in OpenRows :
            Set(w, IF gone THEN [step |-> "save", row |-> i, as |-> "resolved"]
                   ELSE [step |-> "measure", row |-> i, as |-> "resolved",
                         next |-> IF kind = "user" /\ "revoke" \in taken THEN 2 ELSE 1])
      BY <2>2 DEF Act
    <3>2. i \in Rows
      BY <1>1, ReportsLen DEF OpenRows
    <3>3. [step |-> "save", row |-> i, as |-> "resolved"] \in Work
      BY <3>2 DEF Work
    <3>4. \A m \in {1, 2} :
            [step |-> "measure", row |-> i, as |-> "resolved", next |-> m] \in Work
      BY <3>2 DEF Work
    <3> QED
      BY <3>1, <3>3, <3>4
  <2> QED
    BY <2>1, <2>2
<1>3. i \in Rows /\ Outcomes[i] = "open"
  BY <1>1, ReportsLen DEF OpenRows, Outcomes
<1>4. Deciding' = [Deciding EXCEPT ![w] = i]
  BY <1>1, <1>2, HandsMove
<1>5. Closing' = Closing
  <2>1. Closing' = [Closing EXCEPT ![w] = "none"]
    BY <1>1, <1>2, HandsMove
  <2>2. Closing = [Closing EXCEPT ![w] = "none"]
    BY <1>1 DEF Closing, At
  <2> QED
    BY <2>1, <2>2
<1>6. Desk!Take(w, i)
  BY <1>1, <1>3, <1>4, <1>5, OutcomesStay, DoneStays DEF Desk!Take, Desk!Open
<1> QED
  BY <1>3, <1>6 DEF Desk!Next

\* Steps of the measure: the last one is seen, if it makes a difference.
LEMMA MeasureKeeps ==
  ASSUME ReportsInv, \/ Ends \/ Delete
                     \/ \E w \in Workers : TakeMeasure(w)
  PROVE  Desk!Next \/ UNCHANGED Desk!vars
<1>1. TypeOK
  BY DEF ReportsInv
<1>2. UNCHANGED <<Outcomes, Deciding, Closing>>
  <2>1. CASE Ends \/ Delete
    BY <2>1, OutcomesStay DEF Ends, Delete, Deciding, Closing, At
  <2>2. ASSUME NEW w \in Workers, TakeMeasure(w)
        PROVE  UNCHANGED <<Outcomes, Deciding, Closing>>
    <3>1. /\ work[w].step = "measure" /\ work[w].as = "resolved"
          /\ work[w].row \in Rows /\ work[w].next \in 1 .. 3
      BY <1>1, <2>2, WorkFields DEF TakeMeasure, At
    <3>2. work[w] = [step |-> "measure", row |-> work[w].row, as |-> "resolved",
                     next |-> work[w].next]
      BY <1>1, <3>1, WorkFields DEF Work, Idle
    <3>3. work[w].next \in 1 .. Len(Measure(kind)) /\ Len(Measure(kind)) \in 1 .. 3
      BY <1>1, <3>1, MeasureLen DEF ReportsInv, WorkHolds, StepsBehind, TypeOK
    <3>4. PICK p \in Work :
            Set(w, p) /\ p.step \in {"measure", "save"} /\ p.row = work[w].row
      <4>1. CASE work[w].next = Len(Measure(kind))
        <5>1. Rest(w, "save") \in Work
          BY <3>1 DEF Rest, Work
        <5> QED
          BY <2>2, <4>1, <5>1 DEF TakeMeasure, Rest
      <4>2. CASE work[w].next # Len(Measure(kind))
        <5> DEFINE q == [step |-> "measure", row |-> work[w].row, as |-> "resolved",
                         next |-> work[w].next + 1]
        <5>1. [work[w] EXCEPT !.next = work[w].next + 1] = q
          BY <3>2
        <5>2. q \in Work
          BY <3>1, <3>3, <4>2, StepAfter DEF Work
        <5> QED
          BY <2>2, <4>2, <5>1, <5>2 DEF TakeMeasure
      <4> QED
        BY <4>1, <4>2
    <3>5. UNCHANGED <<Deciding, Closing>>
      BY <1>1, <3>1, <3>4, HandsStay DEF At
    <3> QED
      BY <2>2, <3>5, OutcomesStay DEF TakeMeasure
  <2> QED
    BY <2>1, <2>2
<1>3. Measured \/ gone => (Measured \/ gone)'
  <2>1. /\ taken \subseteq taken' /\ taken' \subseteq Steps(kind)
        /\ kind' = kind /\ (gone => gone')
    <3>1. ReportsInv'
      BY EnvironmentInv, TakeMeasureInv
    <3> QED
      BY <3>1 DEF Ends, Delete, TakeMeasure, ReportsInv, TypeOK
  <2> QED
    BY <2>1 DEF Measured
<1>4. CASE (Measured \/ gone)' = (Measured \/ gone)
  BY <1>2, <1>4 DEF Desk!vars
<1>5. CASE (Measured \/ gone)' = TRUE
  <2>1. Desk!Finish
    BY <1>2, <1>5 DEF Desk!Finish
  <2> QED
    BY <2>1 DEF Desk!Next
<1>6. (Measured \/ gone)' \in BOOLEAN /\ (Measured \/ gone) \in BOOLEAN
  OBVIOUS
<1> QED
  BY <1>3, <1>4, <1>5, <1>6

\* The decision, on the report that was loaded while it was open, and as
\* resolved only behind the measure.
LEMMA SaveKeeps ==
  ASSUME ReportsInv, NEW w \in Workers, CloseSave(w)
  PROVE  Desk!Next
<1> DEFINE r == work[w].row
           v == work[w].as
           p == Rest(w, "duplicates")
<1>1. /\ TypeOK /\ work[w].step = "save" /\ r \in DOMAIN reports /\ r \in Rows
      /\ v \in {"resolved", "dismissed"}
      /\ v = "resolved" => Measured \/ gone
  BY WorkFields
  DEF ReportsInv, CloseSave, At, WorkHolds, RowFiled, ClosesMeasured, Measured
<1>2. /\ reports' = [reports EXCEPT ![r].status = v]
      /\ Set(w, p)
      /\ UNCHANGED <<kind, taken, gone>>
  BY DEF CloseSave
<1>3. p \in Work /\ p.step = "duplicates" /\ p.as = v
  BY <1>1 DEF Rest, Work
<1> HIDE DEF p
<1>4. /\ Deciding' = [Deciding EXCEPT ![w] = 0]
      /\ Closing' = [Closing EXCEPT ![w] = v]
  BY <1>1, <1>2, <1>3, HandsMove
<1>5. Deciding[w] = r /\ r # 0
  BY <1>1, ReportsAssumption DEF Deciding, At, Rows
<1>6. Outcomes' = [Outcomes EXCEPT ![r] = v]
  <2>1. PICK n \in 0 .. MaxReports : reports \in [1 .. n -> Report]
    BY <1>1 DEF TypeOK
  <2>2. /\ DOMAIN reports' = DOMAIN reports
        /\ reports'[r].status = v
        /\ \A i \in DOMAIN reports \ {r} : reports'[i] = reports[i]
    BY <1>1, <1>2, <2>1 DEF Report
  <2> QED
    BY <1>1, <2>2 DEF Outcomes
<1>7. Desk!Rule(w, v)
  BY <1>1, <1>2, <1>4, <1>5, <1>6, DoneStays DEF Desk!Rule, Desk!May
<1> QED
  BY <1>1, <1>7 DEF Desk!Next, Desk!Verdicts

\* The duplicates: only reports that are open.
LEMMA DuplicatesKeep ==
  ASSUME ReportsInv, NEW w \in Workers, CloseDuplicates(w)
  PROVE  Desk!Next
<1> DEFINE v == work[w].as
           p == Rest(w, "tell")
<1>1. /\ TypeOK /\ work[w].step = "duplicates" /\ work[w].row \in Rows
      /\ v \in {"resolved", "dismissed"}
      /\ v = "resolved" => Measured \/ gone
  BY WorkFields DEF ReportsInv, CloseDuplicates, At, WorkHolds, ClosesMeasured, Measured
<1>2. /\ reports' = [i \in DOMAIN reports |->
           IF i \in OpenRows THEN [reports[i] EXCEPT !.status = v] ELSE reports[i]]
      /\ Set(w, p)
      /\ UNCHANGED <<kind, taken, gone>>
  BY DEF CloseDuplicates, Duplicates
<1>3. p \in Work /\ p.step = "tell"
  BY <1>1 DEF Rest, Work
<1> HIDE DEF p
<1>4. Closing' = [Closing EXCEPT ![w] = "none"]
  BY <1>1, <1>2, <1>3, HandsMove
<1>5. Deciding' = Deciding
  <2>1. Deciding' = [Deciding EXCEPT ![w] = 0]
    BY <1>1, <1>2, <1>3, HandsMove
  <2>2. Deciding = [Deciding EXCEPT ![w] = 0]
    BY <1>1 DEF Deciding, At
  <2> QED
    BY <2>1, <2>2
<1>6. Closing[w] = v
  BY <1>1 DEF Closing, At
<1>7. Outcomes' = [i \in Rows |-> IF i \in Desk!Open THEN v ELSE Outcomes[i]]
  <2>1. reports \in [DOMAIN reports -> Report] /\ DOMAIN reports \subseteq Rows
    BY <1>1, ReportsLen
  <2>2. \A i \in DOMAIN reports :
          reports'[i].status = IF i \in OpenRows THEN v ELSE reports[i].status
    BY <1>2, <2>1 DEF Report
  <2>3. DOMAIN reports' = DOMAIN reports
    BY <1>2
  <2>4. \A i \in Rows : i \in Desk!Open <=> i \in OpenRows
    BY DEF Desk!Open, Outcomes, OpenRows
  <2> QED
    BY <2>2, <2>3, <2>4 DEF Outcomes, OpenRows
<1>8. Desk!CloseOthers(w)
  BY <1>1, <1>2, <1>4, <1>5, <1>6, <1>7, DoneStays DEF Desk!CloseOthers, Desk!May
<1> QED
  BY <1>8 DEF Desk!Next

\* A worker that is gone has nothing in its hands.
LEMMA AbortKeeps ==
  ASSUME ReportsInv, NEW w \in Workers, Abort(w)
  PROVE  Desk!Next
<1>1. TypeOK /\ Set(w, Idle) /\ UNCHANGED <<kind, taken, gone, reports>>
  BY DEF ReportsInv, Abort
<1>2. Idle \in Work /\ Idle.step = "idle"
  BY DEF Work, Idle
<1>3. /\ Deciding' = [Deciding EXCEPT ![w] = 0]
      /\ Closing' = [Closing EXCEPT ![w] = "none"]
  BY <1>1, <1>2, HandsMove
<1>4. Desk!Drop(w)
  BY <1>1, <1>3, OutcomesStay, DoneStays DEF Desk!Drop
<1> QED
  BY <1>4 DEF Desk!Next

\* No step of the measure has been taken to the end when nobody has begun.
LEMMA InitDesk == Init => Desk!Init
<1> SUFFICES ASSUME Init PROVE Desk!Init
  OBVIOUS
<1>1. ~Measured
  <2>1. kind \in Kinds /\ taken \subseteq {"revoke"}
    BY DEF Init
  <2>2. Measure(kind)[1] \in Steps(kind) /\ Measure(kind)[Len(Measure(kind))] \in Steps(kind)
    BY <2>1, MeasureLen
  <2>3. \/ Measure(kind)[1] # "revoke"
        \/ Measure(kind)[Len(Measure(kind))] # "revoke"
    BY <2>1, Measures DEF Kinds
  <2> QED
    BY <2>1, <2>2, <2>3 DEF Measured
<1>2. Outcomes = [i \in Rows |-> "none"]
  BY DEF Init, Outcomes
<1>3. Deciding = [w \in Workers |-> 0] /\ Closing = [w \in Workers |-> "none"]
  BY DEF Init, Idle, Deciding, Closing, At
<1> QED
  BY <1>1, <1>2, <1>3 DEF Init, Desk!Init

\* A closed report is ruled on again only by somebody who took it while it was
\* open, and nothing is called resolved before its measure was taken to the end,
\* for any number of moderators and wherever their workers die (dismiss_report
\* and act_on_report of apps/moderation/services.py).
THEOREM ReportsKeepDesk == Spec => KeepsDesk
<1>1. ReportsInv /\ [Next]_vars => [Desk!Next]_(Desk!vars)
  <2> SUFFICES ASSUME ReportsInv, [Next]_vars
               PROVE  Desk!Next \/ UNCHANGED Desk!vars
    OBVIOUS
  <2>1. CASE UNCHANGED vars
    BY <2>1, OutcomesStay, DoneStays DEF vars, Desk!vars, Deciding, Closing, At
  <2>2. CASE Ends \/ Delete
    BY <2>2, MeasureKeeps
  <2>3. ASSUME NEW w \in Workers, ReportPage(w) \/ FileReport(w) \/ Decide(w) \/ Abort(w)
        PROVE  Desk!Next \/ UNCHANGED Desk!vars
    BY <2>3, PageUnseen, FileKeeps, TakeKeeps, MeasureKeeps, SaveKeeps, DuplicatesKeep,
       AbortKeeps
    DEF Decide
  <2> QED
    BY <2>1, <2>2, <2>3 DEF Next
<1> QED
  BY <1>1, InitDesk, ReportsHold, PTL DEF Spec, KeepsDesk, Desk!Spec
=============================================================================
