----------------------- MODULE SessionLifecycle_proofs -----------------------
(***************************************************************************)
(* Proofs about SessionLifecycle for any number of sweepers, request       *)
(* threads, sessions and ticks.                                            *)
(***************************************************************************)
EXTENDS SessionLifecycle, FiniteSetTheorems, TLAPS

(* A sweep holds an object exactly for the sessions it has plans for.      *)
ReadIffPlanned ==
    \A w \in Sweepers, s \in Ids :
        sweep[w].read[s] = Absent <=> sweep[w].plan[s] = "none"

IInv == TypeOK /\ ReadIffPlanned /\ PlanIsCurrent

-----------------------------------------------------------------------------
LEMMA InitTypeOK == Init => TypeOK
<1> USE LifecycleAssumption
<1> QED BY DEF Init, TypeOK, IdleSweep, IdleReq, NoRead, NoPlan, Ids

(* A column-wise merge of three rows is a row.                             *)
LEMMA MergeType ==
    ASSUME NEW row \in Row, NEW read \in Row, NEW new \in Row
    PROVE  Merge(row, read, new) \in Row
<1>1. \A f \in {"status", "start", "end"} :
        Merge(row, read, new)[f] = IF new[f] = read[f] THEN row[f] ELSE new[f]
  BY DEF Merge
<1>2. Merge(row, read, new) =
        [status |-> Merge(row, read, new).status,
         start  |-> Merge(row, read, new).start,
         end    |-> Merge(row, read, new).end]
  BY DEF Merge
<1> QED BY <1>1, <1>2 DEF Row

(* A status written into a row leaves a row, its other columns unchanged.  *)
LEMMA StatusType ==
    ASSUME NEW row \in Row, NEW st \in Statuses
    PROVE  /\ [row EXCEPT !.status = st] \in Row
           /\ [row EXCEPT !.status = st].status = st
BY DEF Row

(* The commit of a request keeps the type of all it writes.                *)
LEMMA CommittedType ==
    ASSUME TypeOK, NEW r \in Requests, NEW S \in SUBSET Nat, Committed(r, S),
           table' \in [Ids -> Row \cup {Absent}], nextId' \in Nat \ {0}
    PROVE  TypeOK'
<1>1. touched' \in [Sweepers -> SUBSET Nat]
  BY DEF Committed, TypeOK
<1>2. overlap' \in [Requests -> BOOLEAN]
  BY DEF Committed, TypeOK
<1>3. req' \in [Requests -> [op : {"idle"}]
                     \cup [op : {"create"}, row : Row, old : SUBSET Ids]
                     \cup [op : {"patch"}, id : Ids, read : Row, new : Row]]
  BY DEF Committed, TypeOK, IdleReq
<1> QED BY <1>1, <1>2, <1>3 DEF Committed, TypeOK

LEMMA NextTypeOK == TypeOK /\ [Next]_vars => TypeOK'
<1> SUFFICES ASSUME TypeOK, [Next]_vars PROVE TypeOK'
  OBVIOUS
<1> USE LifecycleAssumption
<1>1. CASE Tick
  BY <1>1 DEF Tick, TypeOK
<1>2. ASSUME NEW w \in Sweepers, SweepScheduled(w) PROVE TypeOK'
  BY <1>2 DEF SweepScheduled, TypeOK, Statuses
<1>3. ASSUME NEW w \in Sweepers, NEW due \in SUBSET Ids, NEW new \in Statuses,
             NEW pc \in {"concluded", "commit"}, SweepQuery(w, due, new, pc)
      PROVE TypeOK'
  <2>1. \A s \in Ids : Loaded(w, s) \in Row \cup {Absent}
    BY DEF Loaded, TypeOK
  <2>2. sweep' \in [Sweepers ->
         [pc   : {"idle", "active", "concluded", "commit"},
          now  : Nat,
          read : [Ids -> Row \cup {Absent}],
          plan : [Ids -> Statuses \cup {"none"}]]]
    BY <1>3, <2>1 DEF SweepQuery, TypeOK
  <2> QED BY <1>3, <2>2 DEF SweepQuery, TypeOK
<1>4. ASSUME NEW w \in Sweepers, SweepActive(w) PROVE TypeOK'
  BY <1>4, <1>3 DEF SweepActive, Statuses
<1>5. ASSUME NEW w \in Sweepers, SweepConcluded(w) PROVE TypeOK'
  BY <1>5, <1>3 DEF SweepConcluded, Statuses
<1>6. ASSUME NEW w \in Sweepers, SweepCommit(w) PROVE TypeOK'
  <2>1. \A s \in Ids : sweep[w].plan[s] # "none" => sweep[w].plan[s] \in Statuses
    BY DEF TypeOK
  <2>2. table' \in [Ids -> Row \cup {Absent}]
    BY <1>6, <2>1, StatusType DEF SweepCommit, TypeOK, Planned, Present
  <2>3. sweep' \in [Sweepers ->
         [pc   : {"idle", "active", "concluded", "commit"},
          now  : Nat,
          read : [Ids -> Row \cup {Absent}],
          plan : [Ids -> Statuses \cup {"none"}]]]
    BY <1>6 DEF SweepCommit, TypeOK, IdleSweep, NoRead, NoPlan
  <2> DEFINE written == IF \A s \in Planned(w) : Present(s) THEN Planned(w) ELSE {}
  <2>4. /\ touched' = [v \in Sweepers |-> IF v = w THEN {} ELSE touched[v] \cup written]
        /\ overlap' = [q \in Requests |-> overlap[q] \/ written # {}]
    BY <1>6 DEF SweepCommit
  <2>5. \A v \in Sweepers : touched[v] \cup written \in SUBSET Nat
    <3>1. written \subseteq Nat
      BY DEF Planned, Ids
    <3> QED BY <3>1 DEF TypeOK
  <2> HIDE DEF written
  <2>6. touched' \in [Sweepers -> SUBSET Nat] /\ overlap' \in [Requests -> BOOLEAN]
    BY <2>4, <2>5
  <2> QED BY <1>6, <2>2, <2>3, <2>6 DEF SweepCommit, TypeOK
<1>7. ASSUME NEW r \in Requests, CreateBegin(r) PROVE TypeOK'
  <2>1. PICK st \in Statuses, b \in Starts, e \in Ends :
          Begin(r, [op  |-> "create",
                    row |-> [status |-> st, start |-> b, end |-> e],
                    old |-> IF st = "active" THEN {s \in Ids : HasStatus(s, "active")}
                                             ELSE {}])
    BY <1>7 DEF CreateBegin
  <2>2. [status |-> st, start |-> b, end |-> e] \in Row
    BY DEF Row
  <2>3. (IF st = "active" THEN {s \in Ids : HasStatus(s, "active")} ELSE {}) \in SUBSET Ids
    OBVIOUS
  <2>4. req' \in [Requests -> [op : {"idle"}]
                       \cup [op : {"create"}, row : Row, old : SUBSET Ids]
                       \cup [op : {"patch"}, id : Ids, read : Row, new : Row]]
    BY <2>1, <2>2, <2>3 DEF Begin, TypeOK
  <2> QED BY <2>1, <2>4 DEF Begin, TypeOK
<1>8. ASSUME NEW r \in Requests, CreateCommit(r) PROVE TypeOK'
  <2>1. req[r].row \in Row
    BY <1>8 DEF CreateCommit, TypeOK
  <2>2. table' \in [Ids -> Row \cup {Absent}]
    BY <1>8, <2>1, StatusType DEF CreateCommit, TypeOK, HasStatus, Present, Statuses
  <2>3. nextId' \in Nat \ {0}
    BY <1>8 DEF CreateCommit, TypeOK
  <2>4. {s \in req[r].old : HasStatus(s, "active")} \cup {nextId} \in SUBSET Nat
    BY <1>8 DEF CreateCommit, TypeOK, Ids
  <2> QED BY <1>8, <2>2, <2>3, <2>4, CommittedType DEF CreateCommit
<1>9. ASSUME NEW r \in Requests, PatchBegin(r) PROVE TypeOK'
  <2>0. PICK s \in Ids :
          /\ Present(s)
          /\ \E st \in Statuses \cup {"null"}, b \in Starts \cup {table[s].start},
                e \in Ends \cup {Null} :
               Begin(r, [op |-> "patch", id |-> s, read |-> table[s],
                         new |-> [status |-> st, start |-> b, end |-> e]])
    BY <1>9 DEF PatchBegin
  <2>1. PICK st \in Statuses \cup {"null"}, b \in Starts \cup {table[s].start},
             e \in Ends \cup {Null} :
          Begin(r, [op |-> "patch", id |-> s, read |-> table[s],
                    new |-> [status |-> st, start |-> b, end |-> e]])
    BY <2>0
  <2>2. table[s] \in Row
    BY <2>0 DEF TypeOK, Present
  <2>3. [status |-> st, start |-> b, end |-> e] \in Row
    BY <2>2 DEF Row
  <2>4. req' \in [Requests -> [op : {"idle"}]
                       \cup [op : {"create"}, row : Row, old : SUBSET Ids]
                       \cup [op : {"patch"}, id : Ids, read : Row, new : Row]]
    BY <2>1, <2>2, <2>3 DEF Begin, TypeOK
  <2> QED BY <2>1, <2>4 DEF Begin, TypeOK
<1>10. ASSUME NEW r \in Requests, PatchCommit(r) PROVE TypeOK'
  <2>1. req[r].id \in Ids /\ req[r].read \in Row /\ req[r].new \in Row
    BY <1>10 DEF PatchCommit, TypeOK
  <2>2. table' \in [Ids -> Row \cup {Absent}]
    BY <1>10, <2>1, MergeType DEF PatchCommit, TypeOK, Present
  <2>3. (IF Present(req[r].id) /\ req[r].new # req[r].read THEN {req[r].id} ELSE {})
          \in SUBSET Nat
    BY <2>1 DEF Ids
  <2>4. nextId' \in Nat \ {0}
    BY <1>10 DEF PatchCommit, TypeOK
  <2> QED BY <1>10, <2>2, <2>3, <2>4, CommittedType DEF PatchCommit
<1>11. ASSUME NEW r \in Requests, Delete(r) PROVE TypeOK'
  <2>1. PICK S \in SUBSET {s \in Ids : Present(s)} :
          /\ table' = [s \in Ids |-> IF s \in S THEN Absent ELSE table[s]]
          /\ touched' = [w \in Sweepers |-> touched[w] \cup S]
          /\ overlap' = [q \in Requests |-> q # r]
    BY <1>11 DEF Delete
  <2>2. table' \in [Ids -> Row \cup {Absent}]
    BY <2>1 DEF TypeOK
  <2>3. touched' \in [Sweepers -> SUBSET Nat] /\ overlap' \in [Requests -> BOOLEAN]
    <3>1. S \subseteq Nat
      BY DEF Ids
    <3>2. \A w \in Sweepers : touched[w] \cup S \in SUBSET Nat
      BY <3>1 DEF TypeOK
    <3> QED BY <2>1, <3>2
  <2>4. now' \in Nat /\ served' \in Nat /\ nextId' \in Nat \ {0}
    BY <1>11 DEF Delete, TypeOK
  <2> QED BY <1>11, <2>2, <2>3, <2>4 DEF Delete, TypeOK
<1>12. CASE UNCHANGED vars
  BY <1>12 DEF vars, TypeOK
<1> QED
  BY <1>1, <1>2, <1>4, <1>5, <1>6, <1>7, <1>8, <1>9, <1>10, <1>11, <1>12
     DEF Next, Sweep, Request

(* Type correctness: every reachable state of the table, of the sweeps'    *)
(* objects and of the handlers' locals has the shape TypeOK states.        *)
THEOREM TypeCorrect == Spec => []TypeOK
BY InitTypeOK, NextTypeOK, PTL DEF Spec

-----------------------------------------------------------------------------
LEMMA InitIInv == Init => ReadIffPlanned /\ PlanIsCurrent
BY DEF Init, ReadIffPlanned, PlanIsCurrent, Planned, IdleSweep, NoRead, NoPlan

(* A step that reports every row it changes to the history of every sweep, *)
(* and leaves the sweeps alone, keeps their plans current.                 *)
LEMMA ReportedChange ==
    ASSUME TypeOK, ReadIffPlanned, PlanIsCurrent, sweep' = sweep,
           NEW S,
           \A w \in Sweepers : touched'[w] = touched[w] \cup S,
           \A s \in Ids : s \notin S => table'[s] = table[s]
    PROVE  ReadIffPlanned' /\ PlanIsCurrent'
<1>1. ReadIffPlanned'
  BY DEF ReadIffPlanned
<1>2. ASSUME NEW w \in Sweepers, NEW s \in Ids, s \in Planned(w)', s \notin touched'[w]
      PROVE  /\ sweep'[w].read[s] = table'[s]
             /\ Present(s)'
             /\ Due(table'[s], sweep'[w].now, sweep'[w].plan[s])
  <2>1. s \in Planned(w) /\ s \notin touched[w] /\ table'[s] = table[s]
    BY <1>2 DEF Planned
  <2> QED BY <2>1 DEF PlanIsCurrent, Present
<1>3. PlanIsCurrent'
  BY <1>2 DEF PlanIsCurrent
<1> QED BY <1>1, <1>3

(* A step that changes neither rows nor sweeps keeps their plans current.  *)
LEMMA NoChange ==
    ASSUME TypeOK, ReadIffPlanned, PlanIsCurrent, UNCHANGED <<table, sweep, touched>>
    PROVE  ReadIffPlanned' /\ PlanIsCurrent'
BY DEF ReadIffPlanned, PlanIsCurrent, Planned, Present

(* The two later queries of a sweep: what they select is due as it stands  *)
(* in the table, so an untouched object of an earlier query is not         *)
(* selected again.                                                         *)
LEMMA QueryKeepsPlans ==
    ASSUME TypeOK, ReadIffPlanned, PlanIsCurrent,
           NEW w \in Sweepers, NEW due \in SUBSET Ids, NEW new \in Statuses,
           NEW pc, SweepQuery(w, due, new, pc),
           \A s \in due : Present(s),
           \A s \in due : s \notin touched[w] =>
               Due(Loaded(w, s), sweep[w].now, new) /\ Loaded(w, s) = table[s]
    PROVE  ReadIffPlanned' /\ PlanIsCurrent'
<1>1. /\ UNCHANGED <<table, touched>>
      /\ \A v \in Sweepers : v # w => sweep'[v] = sweep[v]
      /\ sweep'[w].now = sweep[w].now
      /\ \A s \in Ids :
           /\ sweep'[w].read[s] = IF s \in due THEN Loaded(w, s) ELSE sweep[w].read[s]
           /\ sweep'[w].plan[s] = IF s \in due THEN new ELSE sweep[w].plan[s]
  BY DEF SweepQuery, TypeOK
<1>2. \A s \in due : Loaded(w, s) # Absent
  BY DEF Loaded, Present
<1>3. new # "none"
  BY DEF Statuses
<1>4. ReadIffPlanned'
  BY <1>1, <1>2, <1>3 DEF ReadIffPlanned
<1>5. ASSUME NEW v \in Sweepers, NEW s \in Ids, s \in Planned(v)', s \notin touched'[v]
      PROVE  /\ sweep'[v].read[s] = table'[s]
             /\ Present(s)'
             /\ Due(table'[s], sweep'[v].now, sweep'[v].plan[s])
  <2>1. CASE v = w /\ s \in due
    BY <1>1, <1>5, <2>1 DEF Present
  <2>2. CASE ~(v = w /\ s \in due)
    <3>1. s \in Planned(v) /\ s \notin touched[v]
      BY <1>1, <1>5, <2>2 DEF Planned
    <3> QED BY <1>1, <2>2, <3>1 DEF PlanIsCurrent, Present
  <2> QED BY <2>1, <2>2
<1>6. PlanIsCurrent'
  BY <1>5 DEF PlanIsCurrent
<1> QED BY <1>4, <1>6

LEMMA NextIInv == IInv /\ [Next]_vars => (ReadIffPlanned /\ PlanIsCurrent)'
<1> SUFFICES ASSUME TypeOK, ReadIffPlanned, PlanIsCurrent, [Next]_vars
             PROVE  ReadIffPlanned' /\ PlanIsCurrent'
  BY DEF IInv
<1>1. CASE Tick
  BY <1>1, NoChange DEF Tick
<1>2. ASSUME NEW w \in Sweepers, SweepScheduled(w)
      PROVE  ReadIffPlanned' /\ PlanIsCurrent'
  <2> DEFINE due == {s \in Ids : HasStatus(s, "scheduled") /\ table[s].start <= now + Lead}
  <2>1. /\ UNCHANGED table
        /\ \A v \in Sweepers : v # w => sweep'[v] = sweep[v] /\ touched'[v] = touched[v]
        /\ sweep'[w].now = now
        /\ \A s \in Ids :
             /\ sweep'[w].read[s] = IF s \in due THEN table[s] ELSE Absent
             /\ sweep'[w].plan[s] = IF s \in due THEN "active" ELSE "none"
    BY <1>2 DEF SweepScheduled, TypeOK
  <2>2. ReadIffPlanned'
    BY <2>1 DEF ReadIffPlanned, HasStatus, Present
  <2>3. ASSUME NEW v \in Sweepers, NEW s \in Ids, s \in Planned(v)', s \notin touched'[v]
        PROVE  /\ sweep'[v].read[s] = table'[s]
               /\ Present(s)'
               /\ Due(table'[s], sweep'[v].now, sweep'[v].plan[s])
    <3>1. CASE v = w
      <4>1. s \in due
        BY <2>1, <2>3, <3>1 DEF Planned
      <4> QED BY <2>1, <3>1, <4>1 DEF HasStatus, Present, Due
    <3>2. CASE v # w
      <4>1. s \in Planned(v) /\ s \notin touched[v]
        BY <2>1, <2>3, <3>2 DEF Planned
      <4> QED BY <2>1, <3>2, <4>1 DEF PlanIsCurrent, Present
    <3> QED BY <3>1, <3>2
  <2>4. PlanIsCurrent'
    BY <2>3 DEF PlanIsCurrent
  <2> QED BY <2>2, <2>4
<1>3. ASSUME NEW w \in Sweepers, SweepActive(w)
      PROVE  ReadIffPlanned' /\ PlanIsCurrent'
  <2> DEFINE due == {s \in Ids : /\ HasStatus(s, "active")
                                 /\ table[s].end # Null
                                 /\ table[s].end <= sweep[w].now}
  <2>1. ASSUME NEW s \in due, s \notin touched[w]
        PROVE  Loaded(w, s) = table[s]
    BY <2>1 DEF Loaded, ReadIffPlanned, PlanIsCurrent, Planned
  <2>2. \A s \in due : s \notin touched[w] =>
            Due(Loaded(w, s), sweep[w].now, "concluded") /\ Loaded(w, s) = table[s]
    BY <2>1 DEF Due, HasStatus
  <2>3. \A s \in due : Present(s)
    BY DEF HasStatus
  <2>4. SweepQuery(w, due, "concluded", "concluded")
    BY <1>3 DEF SweepActive
  <2>5. due \in SUBSET Ids /\ "concluded" \in Statuses
    BY DEF Statuses
  <2> HIDE DEF due
  <2> QED BY <2>2, <2>3, <2>4, <2>5, QueryKeepsPlans
<1>4. ASSUME NEW w \in Sweepers, SweepConcluded(w)
      PROVE  ReadIffPlanned' /\ PlanIsCurrent'
  <2> DEFINE due == {s \in Ids : /\ HasStatus(s, "concluded")
                                 /\ ArchiveAt(Loaded(w, s).start) <= sweep[w].now}
  <2>1. ASSUME NEW s \in due, s \notin touched[w]
        PROVE  Loaded(w, s) = table[s]
    BY <2>1 DEF Loaded, ReadIffPlanned, PlanIsCurrent, Planned
  <2>2. \A s \in due : s \notin touched[w] =>
            Due(Loaded(w, s), sweep[w].now, "archived") /\ Loaded(w, s) = table[s]
    BY <2>1 DEF Due, HasStatus
  <2>3. \A s \in due : Present(s)
    BY DEF HasStatus
  <2>4. SweepQuery(w, due, "archived", "commit")
    BY <1>4 DEF SweepConcluded
  <2>5. due \in SUBSET Ids /\ "archived" \in Statuses
    BY DEF Statuses
  <2> HIDE DEF due
  <2> QED BY <2>2, <2>3, <2>4, <2>5, QueryKeepsPlans
<1>5. ASSUME NEW w \in Sweepers, SweepCommit(w)
      PROVE  ReadIffPlanned' /\ PlanIsCurrent'
  <2> DEFINE written == IF \A s \in Planned(w) : Present(s) THEN Planned(w) ELSE {}
  <2>1. /\ \A s \in Ids : s \notin written => table'[s] = table[s]
        /\ \A v \in Sweepers : v # w => sweep'[v] = sweep[v]
                                        /\ touched'[v] = touched[v] \cup written
    BY <1>5 DEF SweepCommit, TypeOK
  <2>2. \A s \in Ids : sweep'[w].read[s] = Absent /\ sweep'[w].plan[s] = "none"
    BY <1>5 DEF SweepCommit, TypeOK, IdleSweep, NoRead, NoPlan
  <2>3. ReadIffPlanned'
    BY <2>1, <2>2 DEF ReadIffPlanned
  <2>4. ASSUME NEW v \in Sweepers, NEW s \in Ids, s \in Planned(v)', s \notin touched'[v]
        PROVE  /\ sweep'[v].read[s] = table'[s]
               /\ Present(s)'
               /\ Due(table'[s], sweep'[v].now, sweep'[v].plan[s])
    <3>1. v # w
      BY <2>2, <2>4 DEF Planned
    <3>2. s \in Planned(v) /\ s \notin touched[v] /\ s \notin written
      BY <2>1, <2>4, <3>1 DEF Planned
    <3> QED BY <2>1, <3>1, <3>2 DEF PlanIsCurrent, Present
  <2>5. PlanIsCurrent'
    BY <2>4 DEF PlanIsCurrent
  <2> QED BY <2>3, <2>5
<1>6. ASSUME NEW r \in Requests, CreateBegin(r) \/ PatchBegin(r)
      PROVE  ReadIffPlanned' /\ PlanIsCurrent'
  <2>1. UNCHANGED <<table, sweep, touched>>
    BY <1>6 DEF CreateBegin, PatchBegin, Begin
  <2> QED BY <2>1, NoChange
<1>7. ASSUME NEW r \in Requests, CreateCommit(r)
      PROVE  ReadIffPlanned' /\ PlanIsCurrent'
  <2> DEFINE S == {s \in req[r].old : HasStatus(s, "active")} \cup {nextId}
  <2>1. /\ sweep' = sweep
        /\ \A w \in Sweepers : touched'[w] = touched[w] \cup S
        /\ \A s \in Ids : s \notin S => table'[s] = table[s]
    BY <1>7 DEF CreateCommit, Committed
  <2> HIDE DEF S
  <2> QED BY <2>1, ReportedChange
<1>8. ASSUME NEW r \in Requests, PatchCommit(r)
      PROVE  ReadIffPlanned' /\ PlanIsCurrent'
  <2> DEFINE S == IF Present(req[r].id) /\ req[r].new # req[r].read
                  THEN {req[r].id} ELSE {}
  <2>1. /\ sweep' = sweep
        /\ \A w \in Sweepers : touched'[w] = touched[w] \cup S
        /\ \A s \in Ids : s \notin S => table'[s] = table[s]
    BY <1>8 DEF PatchCommit, Committed
  <2> HIDE DEF S
  <2> QED BY <2>1, ReportedChange
<1>9. ASSUME NEW r \in Requests, Delete(r)
      PROVE  ReadIffPlanned' /\ PlanIsCurrent'
  <2>1. PICK S \in SUBSET {s \in Ids : Present(s)} :
          /\ table' = [s \in Ids |-> IF s \in S THEN Absent ELSE table[s]]
          /\ touched' = [w \in Sweepers |-> touched[w] \cup S]
    BY <1>9 DEF Delete
  <2>2. /\ sweep' = sweep
        /\ \A w \in Sweepers : touched'[w] = touched[w] \cup S
        /\ \A s \in Ids : s \notin S => table'[s] = table[s]
    BY <1>9, <2>1 DEF Delete
  <2> QED BY <2>2, ReportedChange
<1>10. CASE UNCHANGED vars
  BY <1>10, NoChange DEF vars
<1> QED
  BY <1>1, <1>2, <1>3, <1>4, <1>5, <1>6, <1>7, <1>8, <1>9, <1>10
     DEF Next, Sweep, Request

(* In every reachable state a plan no other transaction has interfered     *)
(* with since the sweep began is due for the row as committed now.         *)
THEOREM PlansStayCurrent == Spec => []PlanIsCurrent
<1>1. Init => IInv
  BY InitTypeOK, InitIInv DEF IInv
<1>2. IInv /\ [Next]_vars => IInv'
  BY NextTypeOK, NextIInv DEF IInv
<1>3. IInv => PlanIsCurrent
  BY DEF IInv
<1> QED BY <1>1, <1>2, <1>3, PTL DEF Spec

(* Only its own commit takes a sweep from its last step back to idle.      *)
LEMMA OnlyCommitEnds ==
    ASSUME TypeOK, [Next]_vars, NEW w \in Sweepers, SweepEnds(w)
    PROVE  SweepCommit(w)
<1>1. sweep'[w] # sweep[w]
  BY DEF SweepEnds
<1>2. ASSUME sweep' = sweep PROVE FALSE
  BY <1>1, <1>2
<1>3. ASSUME NEW v \in Sweepers, Sweep(v), v # w PROVE sweep'[w] = sweep[w]
  BY <1>3 DEF Sweep, SweepScheduled, SweepActive, SweepConcluded, SweepQuery,
              SweepCommit, TypeOK
<1>4. CASE \E r \in Requests : Request(r)
  <2>1. sweep' = sweep
    BY <1>4 DEF Request, CreateBegin, PatchBegin, Begin, CreateCommit, PatchCommit,
                Committed, Delete
  <2> QED BY <1>2, <2>1
<1>5. CASE Tick \/ UNCHANGED vars
  BY <1>2, <1>5 DEF Tick, vars
<1>6. CASE Sweep(w)
  BY <1>6 DEF Sweep, SweepScheduled, SweepActive, SweepConcluded, SweepEnds
<1> QED BY <1>1, <1>3, <1>4, <1>5, <1>6 DEF Next

(* The commit of a sweep moves a session nobody else changed meanwhile one *)
(* step forward and only when it is due.                                   *)
THEOREM SweepsAdvanceOneStep == Spec => UntouchedAdvanceOneDueStep
<1> DEFINE Advance ==
      \A w \in Sweepers : SweepEnds(w) =>
         \A s \in Ids \ touched[w] : table'[s] # table[s] =>
             /\ Present(s)
             /\ \E st \in Statuses :
                  /\ table'[s] = [table[s] EXCEPT !.status = st]
                  /\ Due(table[s], sweep[w].now, st)
<1>1. ASSUME TypeOK, PlanIsCurrent, [Next]_vars PROVE Advance
  <2> SUFFICES ASSUME NEW w \in Sweepers, SweepEnds(w),
                      NEW s \in Ids \ touched[w], table'[s] # table[s]
               PROVE  /\ Present(s)
                      /\ \E st \in Statuses :
                           /\ table'[s] = [table[s] EXCEPT !.status = st]
                           /\ Due(table[s], sweep[w].now, st)
    OBVIOUS
  <2>1. SweepCommit(w)
    BY <1>1, OnlyCommitEnds
  <2>2. s \in Planned(w) /\ table'[s] = [table[s] EXCEPT !.status = sweep[w].plan[s]]
    BY <2>1 DEF SweepCommit
  <2>3. Present(s) /\ Due(table[s], sweep[w].now, sweep[w].plan[s])
    BY <1>1, <2>2 DEF PlanIsCurrent
  <2>4. sweep[w].plan[s] \in Statuses
    BY <1>1, <2>2 DEF TypeOK, Planned
  <2> QED BY <2>2, <2>3, <2>4
<1>2. TypeOK /\ PlanIsCurrent /\ [Next]_vars => [Advance]_vars
  BY <1>1
<1>3. Spec => [][Advance]_vars
  BY <1>2, TypeCorrect, PlansStayCurrent, PTL DEF Spec
<1> QED BY <1>3 DEF UntouchedAdvanceOneDueStep

-----------------------------------------------------------------------------
(* Creations. A POST under way that nobody disturbed has seen every active *)
(* session, and there is a free id for it.                                 *)

Creating == {r \in Requests : req[r].op = "create"}

CountInv == /\ IsFiniteSet(Creating) /\ served <= MaxRequests
            /\ nextId + Cardinality(Creating) <= served + 1

SeenInv ==
    \A r \in Requests :
        (req[r].op = "create" /\ req[r].row.status = "active" /\ ~overlap[r])
            => \A s \in Ids : HasStatus(s, "active") => s \in req[r].old

LEMMA BeginIs ==
    ASSUME TypeOK, NEW r \in Requests, NEW h, Begin(r, h)
    PROVE  /\ req'[r] = h /\ \A q \in Requests \ {r} : req'[q] = req[q] /\ overlap'[q] = overlap[q]
           /\ req[r].op = "idle" /\ served < MaxRequests /\ served' = served + 1
           /\ UNCHANGED <<table, nextId>>
  BY DEF Begin, TypeOK

LEMMA CommittedIs ==
    ASSUME TypeOK, NEW r \in Requests, NEW S, Committed(r, S)
    PROVE  /\ req'[r] = IdleReq /\ \A q \in Requests \ {r} : req'[q] = req[q]
           /\ \A q \in Requests \ {r} : overlap'[q] = (overlap[q] \/ S # {})
           /\ UNCHANGED served
  BY DEF Committed, TypeOK

LEMMA CountStep == TypeOK /\ CountInv /\ [Next]_vars => CountInv'
<1> SUFFICES ASSUME TypeOK, CountInv, [Next]_vars
             PROVE  CountInv'
  OBVIOUS
<1> USE LifecycleAssumption
<1>1. /\ IsFiniteSet(Creating) /\ Cardinality(Creating) \in Nat
      /\ nextId \in Nat /\ served \in Nat
  BY FS_CardinalityType DEF CountInv, TypeOK
<1>2. CASE UNCHANGED <<req, nextId, served>>
  BY <1>2 DEF CountInv, Creating
<1>3. ASSUME NEW r \in Requests, CreateBegin(r)
      PROVE  CountInv'
  <2>1. PICK h : h.op = "create" /\ Begin(r, h)
    BY <1>3 DEF CreateBegin
  <2>2. Creating' = Creating \cup {r} /\ r \notin Creating
    BY <2>1, BeginIs DEF Creating
  <2>3. IsFiniteSet(Creating') /\ Cardinality(Creating') = Cardinality(Creating) + 1
    BY <1>1, <2>2, FS_AddElement
  <2>4. served < MaxRequests /\ served' = served + 1 /\ nextId' = nextId
    BY <2>1, BeginIs
  <2> QED
    BY <1>1, <2>3, <2>4 DEF CountInv
<1>4. ASSUME NEW r \in Requests, CreateCommit(r)
      PROVE  CountInv'
  <2>1. req[r].op = "create" /\ nextId' = nextId + 1 /\ \E S : Committed(r, S)
    BY <1>4 DEF CreateCommit
  <2>2. Creating' = Creating \ {r} /\ r \in Creating
    BY <2>1, CommittedIs DEF Creating, IdleReq
  <2>3. IsFiniteSet(Creating') /\ Cardinality(Creating') = Cardinality(Creating) - 1
    BY <1>1, <2>2, FS_RemoveElement
  <2>4. served' = served
    BY <2>1, CommittedIs
  <2> QED
    BY <1>1, <2>1, <2>3, <2>4 DEF CountInv
<1>5. ASSUME NEW r \in Requests, PatchBegin(r)
      PROVE  CountInv'
  <2>1. PICK h : h.op = "patch" /\ Begin(r, h)
    BY <1>5 DEF PatchBegin
  <2>2. Creating' = Creating /\ served < MaxRequests /\ served' = served + 1 /\ nextId' = nextId
    BY <2>1, BeginIs DEF Creating
  <2> QED
    BY <1>1, <2>2 DEF CountInv
<1>6. ASSUME NEW r \in Requests, PatchCommit(r)
      PROVE  CountInv'
  <2>1. req[r].op = "patch" /\ nextId' = nextId /\ \E S : Committed(r, S)
    BY <1>6 DEF PatchCommit
  <2>2. Creating' = Creating /\ served' = served
    BY <2>1, CommittedIs DEF Creating, IdleReq
  <2> QED
    BY <1>1, <2>1, <2>2 DEF CountInv
<1>7. ASSUME NEW r \in Requests, Delete(r)
      PROVE  CountInv'
  BY <1>1, <1>7 DEF Delete, CountInv, Creating
<1>8. ASSUME NEW w \in Sweepers, Sweep(w)
      PROVE  UNCHANGED <<req, nextId, served>>
  BY <1>8 DEF Sweep, SweepScheduled, SweepActive, SweepConcluded, SweepQuery, SweepCommit
<1>9. CASE Tick \/ UNCHANGED vars
  BY <1>2, <1>9 DEF Tick, vars
<1> QED
  BY <1>2, <1>3, <1>4, <1>5, <1>6, <1>7, <1>8, <1>9 DEF Next, Request

LEMMA SeenStep == TypeOK /\ SeenInv /\ [Next]_vars => SeenInv'
<1> SUFFICES ASSUME TypeOK, SeenInv, [Next]_vars,
                    NEW q \in Requests, req'[q].op = "create",
                    req'[q].row.status = "active", ~overlap'[q],
                    NEW s \in Ids, HasStatus(s, "active")'
             PROVE  s \in req'[q].old
  BY DEF SeenInv
(* Whatever leaves q and the table alone.                                  *)
<1>1. CASE req'[q] = req[q] /\ overlap'[q] = overlap[q] /\ table' = table
  BY <1>1 DEF SeenInv, HasStatus, Present
<1>2. ASSUME NEW w \in Sweepers, Sweep(w)
      PROVE  s \in req'[q].old
  <2>1. CASE SweepCommit(w)
    <3>1. PICK written :
            /\ table' = [t \in Ids |-> IF t \in written
                                       THEN [table[t] EXCEPT !.status = sweep[w].plan[t]]
                                       ELSE table[t]]
            /\ overlap' = [r \in Requests |-> overlap[r] \/ written # {}]
            /\ req' = req
      BY <2>1 DEF SweepCommit
    <3>2. written = {} /\ ~overlap[q]
      BY <3>1
    <3>3. table' = table /\ overlap'[q] = overlap[q]
      BY <3>1, <3>2 DEF TypeOK
    <3> QED
      BY <1>1, <3>1, <3>3
  <2>2. CASE ~SweepCommit(w)
    BY <1>1, <1>2, <2>2 DEF Sweep, SweepScheduled, SweepActive, SweepConcluded, SweepQuery
  <2> QED
    BY <2>1, <2>2
<1>3. ASSUME NEW r \in Requests, CreateBegin(r)
      PROVE  s \in req'[q].old
  <2>1. PICK h : /\ h.op = "create" /\ Begin(r, h)
                 /\ h.row.status = "active" => h.old = {t \in Ids : HasStatus(t, "active")}
    BY <1>3 DEF CreateBegin
  <2>2. CASE q = r
    BY <2>1, <2>2, BeginIs DEF HasStatus, Present
  <2>3. CASE q # r
    BY <1>1, <2>1, <2>3, BeginIs
  <2> QED
    BY <2>2, <2>3
<1>4. ASSUME NEW r \in Requests, PatchBegin(r)
      PROVE  s \in req'[q].old
  <2>1. PICK h : h.op = "patch" /\ Begin(r, h)
    BY <1>4 DEF PatchBegin
  <2>2. q # r
    BY <2>1, BeginIs
  <2> QED
    BY <1>1, <2>1, <2>2, BeginIs
<1>5. ASSUME NEW r \in Requests, CreateCommit(r)
      PROVE  FALSE
  <2>1. PICK S : Committed(r, S) /\ S # {}
    BY <1>5 DEF CreateCommit
  <2>2. q # r
    BY <2>1, CommittedIs DEF IdleReq
  <2> QED
    BY <2>1, <2>2, CommittedIs
<1>6. ASSUME NEW r \in Requests, PatchCommit(r)
      PROVE  s \in req'[q].old
  <2>1. PICK written :
          /\ table' = [t \in Ids |-> IF t \in written
                                     THEN Merge(table[t], req[r].read, req[r].new)
                                     ELSE table[t]]
          /\ Committed(r, written)
    BY <1>6 DEF PatchCommit
  <2>2. q # r
    BY <2>1, CommittedIs DEF IdleReq
  <2>3. written = {} /\ req'[q] = req[q] /\ overlap'[q] = overlap[q]
    <3>1. req'[q] = req[q] /\ overlap'[q] = (overlap[q] \/ written # {})
      BY <2>1, <2>2, CommittedIs
    <3>2. overlap[q] \in BOOLEAN
      BY DEF TypeOK
    <3>3. written = {}
      BY <3>1
    <3>4. overlap'[q] = (overlap[q] \/ FALSE)
      BY <3>1, <3>3
    <3> QED
      BY <3>1, <3>2, <3>3, <3>4
  <2>4. table' = table
    BY <2>1, <2>3 DEF TypeOK
  <2> QED
    BY <1>1, <2>3, <2>4
<1>7. ASSUME NEW r \in Requests, Delete(r)
      PROVE  FALSE
  BY <1>7 DEF Delete
<1>8. CASE Tick \/ UNCHANGED vars
  BY <1>1, <1>8 DEF Tick, vars
<1> QED
  BY <1>2, <1>3, <1>4, <1>5, <1>6, <1>7, <1>8 DEF Next, Request

LEMMA OnlyCreateCommits ==
    ASSUME TypeOK, [Next]_vars, NEW r \in Requests, req[r].op = "create", req'[r].op = "idle"
    PROVE  CreateCommit(r)
<1>1. ASSUME NEW q \in Requests, Request(q)
      PROVE  CreateCommit(r)
  <2>1. CASE CreateBegin(q) \/ PatchBegin(q)
    <3>1. PICK h : Begin(q, h)
      BY <2>1 DEF CreateBegin, PatchBegin
    <3>2. req[q].op = "idle" /\ (r # q => req'[r] = req[r])
      BY <3>1, BeginIs
    <3> QED
      BY <3>2
  <2>2. CASE CreateCommit(q) \/ PatchCommit(q)
    <3>1. PICK S : Committed(q, S)
      BY <2>2 DEF CreateCommit, PatchCommit
    <3>2. r = q
      BY <3>1, CommittedIs
    <3> QED
      BY <2>2, <3>2 DEF PatchCommit
  <2>3. CASE Delete(q)
    BY <2>3 DEF Delete
  <2> QED
    BY <1>1, <2>1, <2>2, <2>3 DEF Request
<1>2. ASSUME NEW w \in Sweepers, Sweep(w)
      PROVE  req' = req
  BY <1>2 DEF Sweep, SweepScheduled, SweepActive, SweepConcluded, SweepQuery, SweepCommit
<1>3. CASE Tick \/ UNCHANGED vars
  BY <1>3 DEF Tick, vars
<1> QED
  BY <1>1, <1>2, <1>3 DEF Next

(* A POST of an active session during which nobody else committed leaves   *)
(* that session the only active one (create_session).                      *)
THEOREM UndisturbedCreationsAreExclusive == Spec => UndisturbedCreateIsExclusive
<1> DEFINE Exclusive ==
      \A r \in Requests :
         (req[r].op = "create" /\ req'[r].op = "idle"
            /\ req[r].row.status = "active" /\ ~overlap[r])
            => {s \in Ids : table'[s] # Absent /\ table'[s].status = "active"} = {nextId}
<1>1. ASSUME TypeOK, CountInv, SeenInv, [Next]_vars PROVE Exclusive
  <2> SUFFICES ASSUME NEW r \in Requests, req[r].op = "create", req'[r].op = "idle",
                      req[r].row.status = "active", ~overlap[r]
               PROVE  {s \in Ids : table'[s] # Absent /\ table'[s].status = "active"} = {nextId}
    OBVIOUS
  <2>1. PICK old : /\ old = {s \in req[r].old : HasStatus(s, "active")}
                   /\ table' = [s \in Ids |->
                        IF s = nextId THEN req[r].row
                        ELSE IF s \in old THEN [table[s] EXCEPT !.status = "concluded"]
                        ELSE table[s]]
    BY <1>1, OnlyCreateCommits DEF CreateCommit
  <2>2. nextId \in Ids
    <3>1. r \in Creating /\ IsFiniteSet(Creating) /\ Cardinality(Creating) \in Nat
      BY <1>1, FS_CardinalityType DEF CountInv, Creating
    <3>2. Cardinality(Creating) # 0
      BY <3>1, FS_EmptySet
    <3> QED
      BY <1>1, <3>1, <3>2, LifecycleAssumption DEF CountInv, TypeOK, Ids
  <2>3. req[r].row \in Row
    BY <1>1 DEF TypeOK
  <2>4. table'[nextId] # Absent /\ table'[nextId].status = "active"
    BY <2>1, <2>2, <2>3, LifecycleAssumption
  <2>5. ASSUME NEW s \in Ids, s # nextId
        PROVE  ~(table'[s] # Absent /\ table'[s].status = "active")
    <3>1. CASE s \in old
      <4>1. table[s] \in Row /\ table'[s] = [table[s] EXCEPT !.status = "concluded"]
        BY <1>1, <2>1, <2>5, <3>1 DEF TypeOK, HasStatus, Present
      <4> QED
        BY <4>1, StatusType DEF Statuses
    <3>2. CASE s \notin old
      <4>1. table'[s] = table[s]
        BY <2>1, <2>5, <3>2
      <4>2. ~HasStatus(s, "active")
        BY <1>1, <2>1, <3>2 DEF SeenInv
      <4> QED
        BY <4>1, <4>2 DEF HasStatus, Present
    <3> QED
      BY <3>1, <3>2
  <2> QED
    BY <2>2, <2>4, <2>5
<1>2. TypeOK /\ CountInv /\ SeenInv /\ [Next]_vars => [Exclusive]_vars
  BY <1>1
<1>3. Init => CountInv /\ SeenInv
  <2> SUFFICES ASSUME Init
               PROVE  CountInv /\ SeenInv
    OBVIOUS
  <2>1. Creating = {}
    BY DEF Init, Creating, IdleReq
  <2>2. IsFiniteSet(Creating) /\ Cardinality(Creating) = 0
    BY <2>1, FS_EmptySet
  <2> QED
    BY <2>2, LifecycleAssumption DEF Init, CountInv, SeenInv, IdleReq
<1>4. Spec => [](TypeOK /\ CountInv /\ SeenInv)
  BY <1>3, CountStep, SeenStep, TypeCorrect, PTL DEF Spec
<1>5. Spec => [][Exclusive]_vars
  BY <1>2, <1>4, PTL DEF Spec
<1> QED BY <1>5 DEF UndisturbedCreateIsExclusive
=============================================================================
