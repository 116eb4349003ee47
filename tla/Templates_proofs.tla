-------------------------- MODULE Templates_proofs --------------------------
(***************************************************************************)
(* Proofs about Templates, for any calendar, templates and ranges.         *)
(***************************************************************************)
EXTENDS Templates, TLAPS

LEMMA MinIs ==
    ASSUME NEW S \in SUBSET Int, NEW m \in S, \A x \in S : m <= x
    PROVE  Min(S) = m
<1>1. \E x \in S : \A y \in S : x <= y
  OBVIOUS
<1>2. Min(S) \in S /\ \A y \in S : Min(S) <= y
  BY <1>1, Zenon DEF Min
<1>3. Min(S) <= m /\ m <= Min(S) /\ Min(S) \in Int /\ m \in Int
  BY <1>2
<1> QED
  BY <1>3

LEMMA DaysAreNumbers ==
    Days \subseteq Nat
<1>1. First[1] \in Nat /\ First[LastMonth + 1] \in Nat
  BY TemplatesAssumption
<1> QED
  BY <1>1 DEF Days

LEMMA DaysBetween ==
    ASSUME NEW from \in Days, NEW to \in Days, NEW d \in from .. to
    PROVE  d \in Days /\ d \in Nat /\ from <= d /\ d <= to
<1>1. First[1] \in Nat /\ First[LastMonth + 1] \in Nat
  BY TemplatesAssumption
<1> QED
  BY <1>1 DEF Days

LEMMA NextWeekday ==
    ASSUME NEW w \in 0 .. 6, NEW dow \in 0 .. 6, NEW ref \in Int,
           NEW off, off = (dow - ((w + ref) % 7)) % 7
    PROVE  /\ off \in 0 .. 6
           /\ (w + (ref + off)) % 7 = dow
           /\ \A d \in ref .. ref + 6 : (w + d) % 7 = dow => ref + off <= d
OBVIOUS

LEMMA AnchorOK ==
    ASSUME NEW t \in Templates, NEW from \in Days, from + 6 \in Days
    PROVE  /\ Anchor(Kind[t], from) \in Days
           /\ Weekday(Anchor(Kind[t], from)) = Kind[t].day_of_week
<1> DEFINE dow == Kind[t].day_of_week
           ref == IF Kind[t].reference = None THEN from ELSE Kind[t].reference
           off == (dow - ((Weekday0 + ref) % 7)) % 7
           S   == {d \in ref .. ref + 6 : (Weekday0 + d) % 7 = dow}
<1>1. /\ Kind[t].reference \in Days \cup {None} /\ dow \in 0 .. 6
      /\ Kind[t].reference # None => Kind[t].reference + 6 \in Days
      /\ Weekday0 \in 0 .. 6
  BY TemplatesAssumption
<1>2. ref \in Days /\ ref + 6 \in Days /\ ref \in Int
  <2>1. ref \in Days /\ ref + 6 \in Days
    <3>1. CASE Kind[t].reference = None
      BY <3>1
    <3>2. CASE Kind[t].reference # None
      BY <3>2, <1>1
    <3> QED BY <3>1, <3>2
  <2> HIDE DEF ref
  <2> QED BY <2>1, DaysAreNumbers
<1>3. /\ off \in 0 .. 6
      /\ (Weekday0 + (ref + off)) % 7 = dow
      /\ \A d \in ref .. ref + 6 : (Weekday0 + d) % 7 = dow => ref + off <= d
  <2>1. off = (dow - ((Weekday0 + ref) % 7)) % 7
    OBVIOUS
  <2>2. ref \in Int /\ dow \in 0 .. 6 /\ Weekday0 \in 0 .. 6
    BY <1>1, <1>2
  <2> HIDE DEF dow, ref, off
  <2> QED BY <2>1, <2>2, NextWeekday
<1>4. S \in SUBSET Int /\ ref + off \in S /\ \A d \in S : ref + off <= d
  <2> HIDE DEF dow, ref, off
  <2> QED BY <1>2, <1>3
<1>5. Min(S) = ref + off
  <2> HIDE DEF S, off, ref
  <2> QED BY <1>4, MinIs
<1>6. Anchor(Kind[t], from) = ref + off
  BY <1>5 DEF Anchor, Weekday
<1>7. ref + off \in Days
  <2>1. First[1] \in Nat /\ First[LastMonth + 1] \in Nat
    BY TemplatesAssumption
  <2> HIDE DEF off, ref
  <2> QED BY <1>2, <1>3, <2>1 DEF Days
<1> QED
  <2> HIDE DEF off, ref
  <2> QED BY <1>3, <1>6, <1>7 DEF Weekday

LEMMA FirstDateOK ==
    ASSUME NEW anchor \in Int, NEW from \in Int
    PROVE  /\ FirstDate(anchor, from) \in from .. from + 13
           /\ (FirstDate(anchor, from) - anchor) % 14 = 0
<1> DEFINE f == from + ((anchor - from) % 14)
<1>0. f \in from .. from + 13 /\ (f - anchor) % 14 = 0 /\ (anchor - f) % 14 = 0
  OBVIOUS
<1>1. CASE anchor > from
  <2> DEFINE S == {d \in from .. anchor : (anchor - d) % 14 = 0}
  <2>1. S \in SUBSET Int /\ f \in S /\ \A d \in S : f <= d
    BY <1>0, <1>1
  <2>2. Min(S) = f
    <3> HIDE DEF S, f
    <3> QED BY <2>1, MinIs
  <2> QED
    BY <1>0, <1>1, <2>2 DEF FirstDate
<1>2. CASE ~(anchor > from)
  <2> DEFINE S == {d \in from .. from + 13 : (d - anchor) % 14 = 0}
  <2>1. S \in SUBSET Int /\ f \in S /\ \A d \in S : f <= d
    BY <1>0, <1>2
  <2>2. Min(S) = f
    <3> HIDE DEF S, f
    <3> QED BY <2>1, MinIs
  <2> QED
    BY <1>0, <1>2, <2>2 DEF FirstDate
<1> QED
  BY <1>1, <1>2

LEMMA FirstIsNat ==
    ASSUME NEW m \in Months
    PROVE  m \in Nat /\ First[m] \in Nat /\ First[m + 1] \in Nat
<1>1. First \in [1 .. LastMonth + 1 -> Nat] /\ LastMonth \in Nat
  BY TemplatesAssumption
<1> QED
  BY <1>1 DEF Months

LEMMA MonthOK ==
    ASSUME NEW d \in Days
    PROVE  /\ Month(d) \in Months
           /\ First[Month(d)] <= d /\ d < First[Month(d) + 1]
BY TemplatesAssumption, Zenon DEF Month

LEMMA MonthsAreOrdered ==
    ASSUME NEW d \in Days, NEW m \in Months, NEW n \in Months,
           First[m] <= d, d < First[m + 1]
    PROVE  /\ n < m => First[n + 1] <= d
           /\ m < n => d < First[n]
<1>1. First \in [1 .. LastMonth + 1 -> Nat] /\ d \in Nat /\ LastMonth \in Nat
  BY TemplatesAssumption, DaysAreNumbers
<1>2. CASE n < m
  <2>1. m \in n + 1 .. LastMonth + 1
    BY <1>1, <1>2 DEF Months
  <2>2. First[n + 1] <= First[m]
    BY <2>1, TemplatesAssumption
  <2>3. First[n + 1] \in Nat /\ First[m] \in Nat
    BY <1>1 DEF Months
  <2> QED
    BY <1>1, <1>2, <2>2, <2>3 DEF Months
<1>3. CASE m < n
  <2>1. n \in m + 1 .. LastMonth + 1
    BY <1>1, <1>3 DEF Months
  <2>2. First[m + 1] <= First[n]
    BY <2>1, TemplatesAssumption
  <2>3. First[m + 1] \in Nat /\ First[n] \in Nat
    BY <1>1 DEF Months
  <2> QED
    BY <1>1, <1>3, <2>2, <2>3 DEF Months
<1> QED
  BY <1>2, <1>3 DEF Months

LEMMA MonthIsUnique ==
    ASSUME NEW d \in Days, NEW m \in Months, First[m] <= d, d < First[m + 1]
    PROVE  Month(d) = m
<1>1. First \in [1 .. LastMonth + 1 -> Nat] /\ d \in Nat /\ Month(d) \in Int /\ m \in Int
  BY TemplatesAssumption, DaysAreNumbers, MonthOK DEF Months
<1>2. /\ First[Month(d)] \in Nat /\ First[Month(d) + 1] \in Nat
      /\ First[Month(d)] <= d /\ d < First[Month(d) + 1]
  BY MonthOK, FirstIsNat
<1>3. ~(Month(d) < m) /\ ~(m < Month(d))
  BY <1>1, <1>2, MonthOK, MonthsAreOrdered
<1> QED
  BY <1>1, <1>3

LEMMA MonthsGrow ==
    ASSUME NEW d \in Days, NEW e \in Days, d <= e
    PROVE  Month(d) <= Month(e)
<1>1. /\ d \in Nat /\ e \in Nat /\ Month(d) \in Months /\ Month(e) \in Months
      /\ First[Month(d)] <= d /\ e < First[Month(e) + 1]
      /\ First[Month(d)] \in Nat /\ First[Month(e) + 1] \in Nat
  BY DaysAreNumbers, MonthOK, FirstIsNat
<1>2. Month(e) < Month(d) => First[Month(e) + 1] <= d
  BY MonthOK, MonthsAreOrdered
<1> QED
  <2>1. Month(d) \in Int /\ Month(e) \in Int
    BY <1>1 DEF Months
  <2> QED BY <1>1, <1>2, <2>1

(* The day of a week is found by counting from the first of the month.     *)
LEMMA DayOfWeek ==
    ASSUME NEW w \in 0 .. 6, NEW dow \in 0 .. 6, NEW f \in Nat, NEW week \in Int,
           NEW d \in Nat, f <= d
    PROVE  d = f + ((dow - ((w + f) % 7)) % 7) + 7 * (week - 1)
             <=> (w + d) % 7 = dow /\ (d - f) \div 7 + 1 = week
OBVIOUS

(* What the recurrences' loops compute is the cadence, for every calendar, *)
(* template and range (generate_sessions).                                 *)
THEOREM RecurrencesAreRight ==
    ASSUME NEW t \in Templates, NEW from \in Days, NEW to \in Days, from + 6 \in Days
    PROVE  ValidDates(Kind[t], from, to)
             = {d \in from .. to : OnCadence(Kind[t], Anchor(Kind[t], from), d)}
<1> DEFINE k == Kind[t]
           a == Anchor(k, from)
           dow == k.day_of_week
<1>1. /\ k.frequency \in Frequency /\ dow \in 0 .. 6 /\ Weekday0 \in 0 .. 6
      /\ a \in Days /\ a \in Int /\ Weekday(a) = dow
      /\ from \in Int /\ to \in Int
  <2>1. k.frequency \in Frequency /\ dow \in 0 .. 6 /\ Weekday0 \in 0 .. 6
    BY TemplatesAssumption
  <2>2. a \in Days /\ Weekday(a) = dow
    BY AnchorOK
  <2> HIDE DEF a
  <2> QED BY <2>1, <2>2, DaysAreNumbers
<1> SUFFICES ValidDates(k, from, to) = {d \in from .. to : OnCadence(k, a, d)}
  OBVIOUS
<1>2. CASE k.frequency = "daily"
  BY <1>2 DEF ValidDates, OnCadence
<1>3. CASE k.frequency = "weekly"
  BY <1>3 DEF ValidDates, OnCadence
<1>4. CASE k.frequency = "bi-weekly"
  <2> DEFINE f == FirstDate(a, from)
  <2>1. f \in from .. from + 13 /\ (f - a) % 14 = 0
    BY <1>1, FirstDateOK
  <2>2. ValidDates(k, from, to) = {d \in f .. to : (d - f) % 14 = 0}
    BY <1>4 DEF ValidDates
  <2>3. ASSUME NEW d \in Int
        PROVE  d \in f .. to /\ (d - f) % 14 = 0
                 <=> d \in from .. to /\ (Weekday0 + d) % 7 = dow /\ (d - a) % 14 = 0
    <3>1. (Weekday0 + a) % 7 = dow
      BY <1>1 DEF Weekday
    <3> HIDE DEF a, f, dow, k
    <3> QED BY <1>1, <2>1, <3>1
  <2>4. \A d : OnCadence(k, a, d) <=> (Weekday0 + d) % 7 = dow /\ (d - a) % 14 = 0
    BY <1>4 DEF OnCadence, Weekday
  <2>5. {d \in f .. to : (d - f) % 14 = 0}
          = {d \in from .. to : (Weekday0 + d) % 7 = dow /\ (d - a) % 14 = 0}
    <3>1. f .. to \subseteq Int /\ from .. to \subseteq Int
      OBVIOUS
    <3> DEFINE P(d) == (d - f) % 14 = 0
               Q(d) == (Weekday0 + d) % 7 = dow /\ (d - a) % 14 = 0
    <3>2. \A d \in Int : d \in f .. to /\ P(d) <=> d \in from .. to /\ Q(d)
      BY <2>3
    <3> HIDE DEF P, Q, f
    <3>3. {d \in f .. to : P(d)} = {d \in from .. to : Q(d)}
      BY <3>1, <3>2
    <3> QED BY <3>3 DEF P, Q
  <2> HIDE DEF a, f, dow, k
  <2> QED
    BY <2>2, <2>4, <2>5, Zenon
<1>5. CASE k.frequency = "monthly"
  <2> DEFINE week == WeekOfMonth(a)
             D == (from .. to) \cap UNION {Monthly(k, week, m) : m \in Month(from) .. Month(to)}
  <2>1. ValidDates(k, from, to) = D
    BY <1>5 DEF ValidDates
  <2>2. week \in Int
    <3>1. First[Month(a)] \in Nat
      BY <1>1, MonthOK, FirstIsNat
    <3> HIDE DEF a
    <3> QED BY <1>1, <3>1 DEF WeekOfMonth
  <2>3. ASSUME NEW d \in from .. to, NEW m \in Months
        PROVE  d \in Monthly(k, week, m)
                 <=> m = Month(d) /\ Weekday(d) = dow /\ WeekOfMonth(d) = week
    <3>1. d \in Days /\ d \in Nat /\ First[m] \in Nat /\ First[m + 1] \in Nat
      BY DaysBetween, FirstIsNat
    <3>2. d \in First[m] .. First[m + 1] - 1 <=> m = Month(d)
      BY <3>1, MonthOK, MonthIsUnique
    <3>3. First[m] <= d =>
            (d = First[m] + ((dow - ((Weekday0 + First[m]) % 7)) % 7) + 7 * (week - 1)
               <=> (Weekday0 + d) % 7 = dow /\ (d - First[m]) \div 7 + 1 = week)
      <4> DEFINE g == First[m]
      <4>1. dow \in 0 .. 6 /\ Weekday0 \in 0 .. 6 /\ week \in Int /\ g \in Nat /\ d \in Nat
        BY <1>1, <2>2, <3>1
      <4> HIDE DEF dow, week, g
      <4>2. g <= d =>
              (d = g + ((dow - ((Weekday0 + g) % 7)) % 7) + 7 * (week - 1)
                 <=> (Weekday0 + d) % 7 = dow /\ (d - g) \div 7 + 1 = week)
        BY <4>1, DayOfWeek
      <4> QED BY <4>2 DEF g
    <3> HIDE DEF week
    <3> QED BY <3>1, <3>2, <3>3 DEF Monthly, Weekday, WeekOfMonth
  <2>4. ASSUME NEW d \in from .. to
        PROVE  Month(d) \in Months /\ Month(d) \in Month(from) .. Month(to)
    <3>1. d \in Days /\ from <= d /\ d <= to
      BY DaysBetween
    <3>2. Month(from) <= Month(d) /\ Month(d) <= Month(to)
      BY <3>1, MonthsGrow
    <3>3. Month(d) \in Months /\ Month(from) \in Int /\ Month(to) \in Int /\ Month(d) \in Int
      BY <3>1, MonthOK, FirstIsNat
    <3> QED BY <3>2, <3>3
  <2>5. Month(from) .. Month(to) \subseteq Months
    <3>1. Month(from) \in Months /\ Month(to) \in Months /\ LastMonth \in Nat
      BY MonthOK, TemplatesAssumption
    <3> QED BY <3>1 DEF Months
  <2>6. \A d : OnCadence(k, a, d) <=> Weekday(d) = dow /\ WeekOfMonth(d) = week
    BY <1>5 DEF OnCadence
  <2>7. ASSUME NEW d \in from .. to
        PROVE  d \in D <=> Weekday(d) = dow /\ WeekOfMonth(d) = week
    BY <2>3, <2>4, <2>5
  <2>8. D \subseteq from .. to
    OBVIOUS
  <2> HIDE DEF a, week, dow, k, D
  <2> QED
    BY <2>1, <2>6, <2>7, <2>8
<1> QED
  BY <1>1, <1>2, <1>3, <1>4, <1>5 DEF Frequency

-----------------------------------------------------------------------------
(* Requests that run together are recorded; what a request is about to add *)
(* is its own, and none of it was there when it was looked up, unless its  *)
(* owner still runs or ran at the same time.                               *)
Paired ==
    \A g, h \in Running : g # h => {job[g].no, job[h].no} \in overlap
Unseen ==
    \A g \in Running : \A r \in job[g].new :
        /\ r.by[1] = job[g].no
        /\ \A q \in sessions : r.slot = q.slot => {r.by[1], q.by[1]} \in overlap

(* Each day a request calls for is still to be found, still to be looked   *)
(* up, or there; it looks up and adds nothing else.                        *)
OnCourse(g) ==
    /\ job[g].left \subseteq job[g].all
    /\ job[g].dates \subseteq Called(job[g])
    /\ \A r \in job[g].new : r.slot \in Due(job[g])
    /\ \A x \in Called(job[g]) :
         \/ x[1] \in job[g].left
         \/ x \in job[g].dates
         \/ \E r \in job[g].new \cup sessions : r.slot = Slot(x[1], x[2])

IInv == /\ TypeOK
        /\ Paired /\ Unseen /\ DoublesHaveACause
        /\ CadenceIsKept /\ \A g \in Running : OnCourse(g)

Jobs == [op : {"generate"}, no : Nat, from : Days, to : Days, all : SUBSET Templates,
         left : SUBSET Templates, dates : SUBSET (Templates \X Days), new : SUBSET Rows]

LEMMA RunningJob ==
    ASSUME TypeOK, NEW g \in Running
    PROVE  /\ g \in Threads /\ job[g] \in Jobs /\ job[g] # Idle
           /\ <<job[g].from, job[g].to>> \in Ranges
           /\ job[g].dates \subseteq job[g].all \X (job[g].from .. job[g].to)
BY DEF TypeOK, Running, Jobs

LEMMA IdleIsNoJob ==
    ASSUME NEW j \in Jobs
    PROVE  j # Idle
BY DEF Jobs, Idle

LEMMA SlotOK ==
    ASSUME NEW t \in Templates, NEW d \in Days, NEW no \in Nat
    PROVE  /\ Row(t, d, no) \in Rows
           /\ Row(t, d, no).slot = Slot(t, d) /\ Row(t, d, no).by[1] = no
BY DEF Row, Rows, Slot

(* What Take looks up next is what the cadence calls for.                  *)
LEMMA TakenDates ==
    ASSUME TypeOK, NEW g \in Running, NEW t \in Templates
    PROVE  {<<t, d>> : d \in ValidDates(Kind[t], job[g].from, job[g].to)}
             = {x \in {t} \X (job[g].from .. job[g].to) :
                  OnCadence(Kind[x[1]], Anchor(Kind[x[1]], job[g].from), x[2])}
<1>1. /\ job[g].from \in Days /\ job[g].to \in Days /\ job[g].from + 6 \in Days
  <2>1. <<job[g].from, job[g].to>> \in Ranges
    BY RunningJob
  <2>2. job[g].from + 6 \in Days
    BY <2>1, TemplatesAssumption
  <2> QED BY <2>2, RunningJob DEF Jobs
<1>2. ValidDates(Kind[t], job[g].from, job[g].to)
        = {d \in job[g].from .. job[g].to : OnCadence(Kind[t], Anchor(Kind[t], job[g].from), d)}
  BY <1>1, RecurrencesAreRight
<1> QED
  BY <1>2

-----------------------------------------------------------------------------
LEMMA InitOK == Init => IInv
<1> SUFFICES ASSUME Init PROVE IInv
  OBVIOUS
<1>1. Running = {}
  BY DEF Init, Running
<1>2. TypeOK
  BY <1>1 DEF Init, TypeOK
<1>3. Paired /\ Unseen /\ DoublesHaveACause
  BY <1>1 DEF Init, Paired, Unseen, DoublesHaveACause
<1>4. CadenceIsKept /\ \A g \in Running : OnCourse(g)
  BY <1>1 DEF Init, CadenceIsKept
<1> QED
  BY <1>2, <1>3, <1>4 DEF IInv

LEMMA EditOK ==
    ASSUME IInv, NEW t \in Templates, CreateTemplate(t) \/ DeleteTemplate(t)
    PROVE  IInv'
<1>1. /\ templates' \subseteq Templates /\ edits' \in Nat
      /\ UNCHANGED <<sessions, job, runs, begun, overlap>>
  BY DEF IInv, TypeOK, CreateTemplate, DeleteTemplate, Edit
<1>2. TypeOK'
  BY <1>1 DEF IInv, TypeOK, Running
<1>3. Paired' /\ Unseen' /\ DoublesHaveACause'
  BY <1>1 DEF IInv, Running, Paired, Unseen, DoublesHaveACause
<1>4. CadenceIsKept' /\ (\A g \in Running : OnCourse(g))'
  BY <1>1 DEF IInv, Running, CadenceIsKept, OnCourse
<1> QED
  BY <1>2, <1>3, <1>4 DEF IInv

LEMMA GenerateOK ==
    ASSUME IInv, NEW g \in Threads, Generate(g)
    PROVE  IInv'
<1> PICK r \in Ranges :
      job' = [job EXCEPT ![g] =
                [op |-> "generate", no |-> begun', from |-> r[1], to |-> r[2],
                 all |-> {t \in templates : Kind[t].active},
                 left |-> {t \in templates : Kind[t].active}, dates |-> {}, new |-> {}]]
  BY DEF Generate
<1>1. /\ UNCHANGED <<templates, sessions, edits, runs>>
      /\ begun' = begun + 1 /\ begun' \in Nat
      /\ overlap' = overlap \cup {{begun', job[h].no} : h \in Running}
      /\ job[g] = Idle
  BY DEF Generate, IInv, TypeOK
<1>2. /\ job \in [Threads -> {Idle} \cup Jobs]
      /\ r[1] \in Days /\ r[2] \in Days /\ r = <<r[1], r[2]>>
      /\ templates \subseteq Templates
  BY TemplatesAssumption DEF IInv, TypeOK, Jobs
<1>3. /\ job'[g].no = begun' /\ job'[g].from = r[1] /\ job'[g].to = r[2]
      /\ job'[g].left = job'[g].all /\ job'[g].dates = {} /\ job'[g].new = {}
      /\ job'[g] \in Jobs /\ \A h \in Threads \ {g} : job'[h] = job[h]
      /\ job' \in [Threads -> {Idle} \cup Jobs]
  BY <1>1, <1>2 DEF Jobs
<1>4. Running' = Running \cup {g} /\ g \notin Running /\ Running \subseteq Threads
  BY <1>1, <1>3, IdleIsNoJob DEF Running
<1>5. TypeOK'
  <2>1. (\A h \in Running : /\ <<job[h].from, job[h].to>> \in Ranges
                           /\ job[h].dates \subseteq job[h].all \X (job[h].from .. job[h].to))'
    BY <1>2, <1>3, <1>4 DEF IInv, TypeOK
  <2> QED
    BY <1>1, <1>3, <2>1 DEF IInv, TypeOK, Jobs
<1>6. Paired'
  BY <1>1, <1>3, <1>4 DEF IInv, Paired
<1>7. Unseen' /\ DoublesHaveACause'
  BY <1>1, <1>3, <1>4 DEF IInv, Unseen, DoublesHaveACause
<1>8. CadenceIsKept'
  BY <1>1 DEF IInv, CadenceIsKept
<1>9. ASSUME NEW h \in Running' PROVE OnCourse(h)'
  <2>1. CASE h = g
    BY <2>1, <1>3 DEF OnCourse, Called
  <2>2. CASE h # g
    BY <2>2, <1>1, <1>3, <1>4 DEF IInv, OnCourse
  <2> QED BY <2>1, <2>2
<1> QED
  BY <1>5, <1>6, <1>7, <1>8, <1>9 DEF IInv

LEMMA AbortOK ==
    ASSUME IInv, NEW g \in Threads, Abort(g)
    PROVE  IInv'
<1>1. /\ UNCHANGED <<templates, sessions, edits, runs, begun, overlap>>
      /\ job \in [Threads -> {Idle} \cup Jobs]
      /\ job' = [job EXCEPT ![g] = Idle]
  BY DEF Abort, IInv, TypeOK, Jobs
<1>2. /\ job' \in [Threads -> {Idle} \cup Jobs]
      /\ \A h \in Running' : h \in Running /\ job'[h] = job[h]
  BY <1>1 DEF Running
<1>3. TypeOK'
  BY <1>1, <1>2 DEF IInv, TypeOK, Jobs
<1>4. Paired' /\ Unseen' /\ DoublesHaveACause'
  BY <1>1, <1>2 DEF IInv, Paired, Unseen, DoublesHaveACause
<1>5. CadenceIsKept' /\ (\A h \in Running : OnCourse(h))'
  BY <1>1, <1>2 DEF IInv, CadenceIsKept, OnCourse
<1> QED
  BY <1>3, <1>4, <1>5 DEF IInv

LEMMA TakeOK ==
    ASSUME IInv, NEW g \in Threads, Take(g)
    PROVE  IInv'
<1> DEFINE D(t) == {<<t, d>> : d \in ValidDates(Kind[t], job[g].from, job[g].to)}
<1>1. PICK t \in job[g].left :
        job' = [job EXCEPT ![g].left = @ \ {t}, ![g].dates = D(t)]
  BY DEF Take
<1>2. /\ UNCHANGED <<templates, sessions, edits, runs, begun, overlap>>
      /\ g \in Running /\ job[g].dates = {}
      /\ job \in [Threads -> {Idle} \cup Jobs] /\ TypeOK /\ OnCourse(g)
  BY DEF Take, IInv, TypeOK, Jobs, Running
<1>3. /\ job[g] \in Jobs /\ t \in Templates /\ t \in job[g].all
  BY <1>1, <1>2, RunningJob DEF Jobs, OnCourse
<1>4. D(t) = {x \in {t} \X (job[g].from .. job[g].to) :
                OnCadence(Kind[x[1]], Anchor(Kind[x[1]], job[g].from), x[2])}
  BY <1>2, <1>3, TakenDates
<1>5. D(t) \subseteq Templates \X Days
  <2>1. job[g].from .. job[g].to \subseteq Days
    BY <1>3, DaysBetween DEF Jobs
  <2> HIDE DEF D
  <2> QED BY <1>3, <1>4, <2>1
<1> HIDE DEF D
<1>6. /\ job'[g] = [job[g] EXCEPT !.left = @ \ {t}, !.dates = D(t)]
      /\ \A h \in Threads \ {g} : job'[h] = job[h]
  BY <1>1, <1>2
<1>7. /\ job'[g] \in Jobs
      /\ job'[g].no = job[g].no /\ job'[g].from = job[g].from /\ job'[g].to = job[g].to
      /\ job'[g].all = job[g].all /\ job'[g].new = job[g].new
      /\ job'[g].left = job[g].left \ {t} /\ job'[g].dates = D(t)
  BY <1>3, <1>5, <1>6 DEF Jobs
<1>8. job' \in [Threads -> {Idle} \cup Jobs] /\ Running' = Running
  BY <1>1, <1>2, <1>6, <1>7, IdleIsNoJob DEF Running
<1>9. TypeOK'
  <2>1. D(t) \subseteq job[g].all \X (job[g].from .. job[g].to)
    BY <1>3, <1>4
  <2>2. (\A h \in Running : /\ <<job[h].from, job[h].to>> \in Ranges
                           /\ job[h].dates \subseteq job[h].all \X (job[h].from .. job[h].to))'
    <3>1. ASSUME NEW h \in Running', h # g
          PROVE  h \in Running /\ job'[h] = job[h]
      BY <3>1, <1>6, <1>8 DEF Running
    <3>2. <<job'[g].from, job'[g].to>> \in Ranges
      BY <1>2, <1>7, RunningJob
    <3>3. job'[g].dates \subseteq job'[g].all \X (job'[g].from .. job'[g].to)
      BY <2>1, <1>7
    <3>4. \A h \in Running : /\ <<job[h].from, job[h].to>> \in Ranges
                            /\ job[h].dates \subseteq job[h].all \X (job[h].from .. job[h].to)
      BY <1>2 DEF TypeOK
    <3> QED
      BY <3>1, <3>2, <3>3, <3>4
  <2> QED
    BY <1>2, <1>8, <2>2 DEF TypeOK, Jobs
<1>10. Paired' /\ Unseen' /\ DoublesHaveACause'
  <2>1. \A h \in Running' : h \in Running /\ job'[h].no = job[h].no /\ job'[h].new = job[h].new
    BY <1>6, <1>7, <1>8 DEF Running
  <2> QED
    BY <1>2, <2>1 DEF IInv, Paired, Unseen, DoublesHaveACause
<1>11. CadenceIsKept'
  BY <1>2 DEF IInv, CadenceIsKept
<1>12. OnCourse(g)'
  <2>1. Called(job[g])' = Called(job[g]) /\ Due(job[g])' = Due(job[g])
    BY <1>7 DEF Called, Due
  <2>2. D(t) \subseteq Called(job[g])
    BY <1>3, <1>4 DEF Called
  <2>3. ASSUME NEW x \in Called(job[g]), x[1] = t PROVE x \in D(t)
    BY <2>3, <1>4 DEF Called
  <2> QED
    BY <1>2, <1>7, <2>1, <2>2, <2>3 DEF OnCourse
<1>13. ASSUME NEW h \in Running', h # g PROVE OnCourse(h)'
  BY <1>13, <1>2, <1>6, <1>8 DEF IInv, OnCourse, Running
<1> QED
  BY <1>9, <1>10, <1>11, <1>12, <1>13 DEF IInv

LEMMA LookupOK ==
    ASSUME IInv, NEW g \in Threads, Lookup(g)
    PROVE  IInv'
<1>1. /\ UNCHANGED <<templates, sessions, edits, runs, begun, overlap>>
      /\ g \in Running
      /\ job \in [Threads -> {Idle} \cup Jobs] /\ TypeOK /\ OnCourse(g)
  BY DEF Lookup, IInv, TypeOK, Jobs, Running
<1>2. PICK n \in job[g].dates :
        job' = [job EXCEPT ![g].dates = @ \ {n},
                           ![g].new = IF Existing(Row(n[1], n[2], job[g].no).slot) = {}
                                      THEN @ \cup {Row(n[1], n[2], job[g].no)} ELSE @]
  BY DEF Lookup
<1> DEFINE row  == Row(n[1], n[2], job[g].no)
           new  == IF Existing(row.slot) = {} THEN job[g].new \cup {row} ELSE job[g].new
<1>3. /\ job[g] \in Jobs /\ n \in Called(job[g])
      /\ n[1] \in Templates /\ n[2] \in Days
  <2>1. job[g] \in Jobs
    BY <1>1, RunningJob
  <2> QED BY <1>1, <1>2, <2>1 DEF OnCourse, Jobs
<1>4. /\ row \in Rows /\ row.slot = Slot(n[1], n[2]) /\ row.by[1] = job[g].no
  BY <1>3, SlotOK DEF Jobs
<1>5. new \subseteq Rows /\ job[g].new \subseteq new /\ new \subseteq job[g].new \cup {row}
  BY <1>3, <1>4 DEF Jobs
<1>6. \E r \in new \cup sessions : r.slot = Slot(n[1], n[2])
  BY <1>4 DEF Existing
<1>7. \A r \in new : r \in job[g].new \/ (r = row /\ \A q \in sessions : q.slot # row.slot)
  BY DEF Existing
<1>8. /\ job'[g] = [job[g] EXCEPT !.dates = @ \ {n}, !.new = new]
      /\ \A h \in Threads \ {g} : job'[h] = job[h]
  BY <1>1, <1>2
<1> HIDE DEF row, new
<1>9. /\ job'[g] \in Jobs
      /\ job'[g].no = job[g].no /\ job'[g].from = job[g].from /\ job'[g].to = job[g].to
      /\ job'[g].all = job[g].all /\ job'[g].left = job[g].left
      /\ job'[g].new = new /\ job'[g].dates = job[g].dates \ {n}
  BY <1>3, <1>5, <1>8 DEF Jobs
<1>10. /\ job' \in [Threads -> {Idle} \cup Jobs] /\ Running' = Running
       /\ \A h \in Running' : h # g => h \in Running /\ job'[h] = job[h]
  BY <1>1, <1>2, <1>8, <1>9, IdleIsNoJob DEF Running
<1>11. TypeOK'
  <2>1. <<job'[g].from, job'[g].to>> \in Ranges
    BY <1>1, <1>9, RunningJob
  <2>2. job'[g].dates \subseteq job'[g].all \X (job'[g].from .. job'[g].to)
    BY <1>1, <1>9, RunningJob
  <2>3. \A h \in Running : /\ <<job[h].from, job[h].to>> \in Ranges
                          /\ job[h].dates \subseteq job[h].all \X (job[h].from .. job[h].to)
    BY <1>1 DEF TypeOK
  <2>4. (\A h \in Running : /\ <<job[h].from, job[h].to>> \in Ranges
                           /\ job[h].dates \subseteq job[h].all \X (job[h].from .. job[h].to))'
    BY <1>10, <2>1, <2>2, <2>3
  <2> QED
    BY <1>1, <1>10, <2>4 DEF TypeOK, Jobs
<1>12. Paired' /\ DoublesHaveACause'
  <2>1. \A h \in Running' : h \in Running /\ job'[h].no = job[h].no
    BY <1>9, <1>10
  <2> QED
    BY <1>1, <2>1 DEF IInv, Paired, DoublesHaveACause
<1>13. Unseen'
  <2>1. \A r \in new : /\ r.by[1] = job[g].no
                       /\ \A q \in sessions : r.slot = q.slot => {r.by[1], q.by[1]} \in overlap
    BY <1>1, <1>4, <1>7 DEF IInv, Unseen
  <2> QED
    BY <2>1, <1>1, <1>9, <1>10 DEF IInv, Unseen
<1>14. CadenceIsKept'
  BY <1>1 DEF IInv, CadenceIsKept
<1>15. OnCourse(g)'
  <2>1. Called(job[g])' = Called(job[g]) /\ Due(job[g])' = Due(job[g])
    BY <1>9 DEF Called, Due
  <2>2. row.slot \in Due(job[g])
    BY <1>3, <1>4 DEF Due
  <2>3. \A r \in new : r.slot \in Due(job[g])
    BY <1>1, <1>5, <2>2 DEF OnCourse
  <2> QED
    BY <1>1, <1>5, <1>6, <1>9, <2>1, <2>3 DEF OnCourse
<1>16. ASSUME NEW h \in Running', h # g PROVE OnCourse(h)'
  BY <1>16, <1>1, <1>10 DEF IInv, OnCourse
<1> QED
  BY <1>11, <1>12, <1>13, <1>14, <1>15, <1>16 DEF IInv

LEMMA CommitOK ==
    ASSUME IInv, NEW g \in Threads, Commit(g)
    PROVE  IInv'
<1> DEFINE run == [from |-> job[g].from, to |-> job[g].to, all |-> job[g].all]
<1>1. /\ UNCHANGED <<templates, edits, begun, overlap>>
      /\ sessions' = sessions \cup job[g].new
      /\ runs' = runs \cup {run}
      /\ job' = [job EXCEPT ![g] = Idle]
      /\ g \in Running /\ job[g].dates = {} /\ job[g].left = {}
      /\ job \in [Threads -> {Idle} \cup Jobs] /\ TypeOK /\ OnCourse(g)
  BY DEF Commit, IInv, TypeOK, Jobs, Running
<1>2. job[g] \in Jobs
  BY <1>1, RunningJob
<1>3. /\ job' \in [Threads -> {Idle} \cup Jobs]
      /\ \A h \in Running' : h # g /\ h \in Running /\ job'[h] = job[h]
  BY <1>1 DEF Running
<1>4. TypeOK'
  <2>1. sessions' \subseteq Rows
    BY <1>1, <1>2 DEF TypeOK, Jobs
  <2>2. runs' \subseteq [from : Days, to : Days, all : SUBSET Templates]
    BY <1>1, <1>2 DEF TypeOK, Jobs
  <2>3. (\A h \in Running : /\ <<job[h].from, job[h].to>> \in Ranges
                           /\ job[h].dates \subseteq job[h].all \X (job[h].from .. job[h].to))'
    BY <1>1, <1>3 DEF TypeOK
  <2> QED
    BY <1>1, <1>3, <2>1, <2>2, <2>3 DEF TypeOK, Jobs
<1>5. Paired'
  BY <1>1, <1>3 DEF IInv, Paired
<1>6. Unseen'
  <2>1. ASSUME NEW h \in Running', NEW r \in job[h].new, NEW q \in job[g].new, r.slot = q.slot
        PROVE  {r.by[1], q.by[1]} \in overlap
    <3>1. h \in Running /\ h # g /\ g \in Running
      BY <1>1, <1>3
    <3>2. r.by[1] = job[h].no /\ q.by[1] = job[g].no
      BY <3>1 DEF IInv, Unseen
    <3> QED BY <3>1, <3>2 DEF IInv, Paired
  <2> QED
    BY <1>1, <1>3, <2>1 DEF IInv, Unseen
<1>7. DoublesHaveACause'
  <2>1. \A r \in job[g].new : /\ r.by[1] = job[g].no
                             /\ \A q \in sessions : r.slot = q.slot => {r.by[1], q.by[1]} \in overlap
    BY <1>1 DEF IInv, Unseen
  <2>2. \A r, q : {r.by[1], q.by[1]} = {q.by[1], r.by[1]}
    OBVIOUS
  <2> QED
    BY <1>1, <2>1, <2>2 DEF IInv, DoublesHaveACause
<1>8. CadenceIsKept'
  <2>1. Due(run) = Due(job[g])
    BY DEF Due, Called
  <2>2. {r.slot : r \in job[g].new} \subseteq Due(run)
    BY <1>1, <2>1 DEF OnCourse
  <2>3. Due(run) \subseteq {r.slot : r \in job[g].new \cup sessions}
    BY <1>1, <2>1 DEF OnCourse, Due
  <2>4. {r.slot : r \in sessions} = UNION {Due(x) : x \in runs}
    BY DEF IInv, CadenceIsKept
  <2>5. UNION {Due(x) : x \in runs'} = Due(run) \cup (UNION {Due(x) : x \in runs})
    <3> HIDE DEF run
    <3> QED BY <1>1
  <2>6. {r.slot : r \in sessions'} = {r.slot : r \in sessions} \cup {r.slot : r \in job[g].new}
    BY <1>1
  <2>7. {r.slot : r \in sessions'} = UNION {Due(x) : x \in runs'}
    <3> HIDE DEF run
    <3> QED BY <2>2, <2>3, <2>4, <2>5, <2>6
  <2> QED
    BY <2>7 DEF CadenceIsKept, Due, Called
<1>9. ASSUME NEW h \in Running' PROVE OnCourse(h)'
  BY <1>1, <1>3 DEF IInv, OnCourse
<1> QED
  BY <1>4, <1>5, <1>6, <1>7, <1>8, <1>9 DEF IInv

LEMMA StepOK == IInv /\ [Next]_vars => IInv'
<1> SUFFICES ASSUME IInv, [Next]_vars PROVE IInv'
  OBVIOUS
<1>1. CASE \E t \in Templates : CreateTemplate(t) \/ DeleteTemplate(t)
  BY <1>1, EditOK
<1>2. CASE \E g \in Threads : Generate(g) \/ Take(g) \/ Lookup(g) \/ Commit(g) \/ Abort(g)
  BY <1>2, GenerateOK, TakeOK, LookupOK, CommitOK, AbortOK
<1>3. CASE UNCHANGED vars
  <2>1. TypeOK'
    BY <1>3 DEF IInv, TypeOK, Running, vars
  <2>2. Paired' /\ Unseen' /\ DoublesHaveACause'
    BY <1>3 DEF IInv, Paired, Unseen, DoublesHaveACause, Running, vars
  <2>3. CadenceIsKept' /\ (\A g \in Running : OnCourse(g))'
    BY <1>3 DEF IInv, CadenceIsKept, OnCourse, Running, vars
  <2> QED BY <2>1, <2>2, <2>3 DEF IInv
<1> QED
  BY <1>1, <1>2, <1>3 DEF Next

LEMMA Invariance == Spec => []IInv
BY InitOK, StepOK, PTL DEF Spec

(* The rows and requests keep their types, and a request only looks up     *)
(* days it asked for (generate_sessions).                                  *)
THEOREM TemplatesTypeCorrect == Spec => []TypeOK
<1>1. IInv => TypeOK
  BY DEF IInv
<1> QED
  BY <1>1, Invariance, PTL

(* However requests overlap, fail or are repeated, the generated slots are *)
(* those of the committed requests' cadences (generate_sessions).          *)
THEOREM CadenceHolds == Spec => []CadenceIsKept
<1>1. IInv => CadenceIsKept
  BY DEF IInv
<1> QED
  BY <1>1, Invariance, PTL

(* A session is doubled only by two templates of one request or by two     *)
(* requests that ran at the same time (generate_sessions).                 *)
THEOREM DoublesAreCaused == Spec => []DoublesHaveACause
<1>1. IInv => DoublesHaveACause
  BY DEF IInv
<1> QED
  BY <1>1, Invariance, PTL
=============================================================================
