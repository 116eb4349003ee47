--------------------------- MODULE Reminders_proofs ---------------------------
(***************************************************************************)
(* Proofs about Reminders, for any sessions, members, numbers of           *)
(* dispatchers and edits, and any clock.                                   *)
(***************************************************************************)
EXTENDS Reminders, TLAPS

Runs == [stage : {"idle", "pick", "send", "mark"}, scan : BOOLEAN, fresh : BOOLEAN,
         ok : BOOLEAN, queue : SUBSET Sessions, cur : SUBSET Sessions, todo : SUBSET Slots,
         read : [Sessions -> Nat]]

LEMMA IdleIsRun == Idle \in Runs
  BY DEF Runs, Idle

LEMMA RunEdits ==
    ASSUME NEW r \in Runs, NEW A \in SUBSET Slots
    PROVE  /\ [r EXCEPT !.todo = A] \in Runs
           /\ [r EXCEPT !.ok = FALSE] \in Runs
           /\ [r EXCEPT !.stage = "mark"] \in Runs
<1>1. [r EXCEPT !.todo = A] \in Runs
  BY DEF Runs
<1>2. [r EXCEPT !.ok = FALSE] \in Runs
  BY DEF Runs
<1>3. [r EXCEPT !.stage = "mark"] \in Runs
  BY DEF Runs
<1> QED
  BY <1>1, <1>2, <1>3

LEMMA RowEdits ==
    ASSUME NEW row \in Row, NEW b \in Nat, NEW sch \in BOOLEAN
    PROVE  /\ [row EXCEPT !.marked = TRUE] \in Row
           /\ [row EXCEPT !.start = b, !.scheduled = sch] \in Row
  BY DEF Row

-----------------------------------------------------------------------------
(* Types.                                                                  *)

LEMMA InitTypes == Init => TypeOK
<1> SUFFICES ASSUME Init
             PROVE  TypeOK
  OBVIOUS
<1>1. table \in [Sessions -> Row \cup {Absent}]
  <2>1. [start : Starts, scheduled : {TRUE}, marked : {FALSE}] \subseteq Row
    BY ReminderAssumption DEF Row
  <2> QED
    BY <2>1 DEF Init
<1>2. run \in [Dispatchers -> Runs]
  BY IdleIsRun DEF Init
<1>3. sent \in [Sessions -> [Slots -> Nat]]
  BY DEF Init
<1> QED
  BY <1>1, <1>2, <1>3 DEF Init, TypeOK, Runs

LEMMA DropTypes ==
    ASSUME TypeOK, NEW d \in Dispatchers, Drop(d)
    PROVE  run' \in [Dispatchers -> Runs] /\ dropped' \subseteq Sessions
<1>1. run \in [Dispatchers -> Runs] /\ run[d] \in Runs
  BY DEF TypeOK, Runs
<1>2. Holds(d) \subseteq Sessions
  BY <1>1 DEF Holds, Runs
<1>3. run' \in [Dispatchers -> Runs]
  BY <1>1, IdleIsRun DEF Drop
<1> QED
  BY <1>2, <1>3 DEF TypeOK, Drop

LEMMA RefuseTypes ==
    ASSUME TypeOK, NEW d \in Dispatchers, NEW r \in Runs, Refuse(d, r)
    PROVE  /\ run' \in [Dispatchers -> Runs] /\ refused' \subseteq Sessions
           /\ faults' \in Nat /\ UNCHANGED sent
<1>1. run \in [Dispatchers -> Runs] /\ run[d] \in Runs
  BY DEF TypeOK, Runs
<1>2. Current(d) \subseteq Sessions
  BY <1>1 DEF Current, Runs
<1>3. [r EXCEPT !.ok = FALSE] \in Runs
  BY RunEdits
<1>4. run' \in [Dispatchers -> Runs]
  BY <1>1, <1>3 DEF Refuse
<1> QED
  BY <1>2, <1>4 DEF TypeOK, Refuse

LEMMA ReadTypes ==
    ASSUME TypeOK, NEW d \in Dispatchers, NEW s \in Sessions, Present(s) \/ run[d].fresh
    PROVE  Read(d, s) \in [Sessions -> Nat]
<1>1. run[d].read \in [Sessions -> Nat]
  BY DEF TypeOK
<1>2. Present(s) => table[s].start \in Nat
  BY DEF TypeOK, Present, Row
<1> QED
  BY <1>1, <1>2 DEF Read

LEMMA DispatchTypes ==
    ASSUME TypeOK, NEW d \in Dispatchers, Dispatch(d)
    PROVE  TypeOK'
<1>1. run \in [Dispatchers -> Runs] /\ run[d] \in Runs
  BY DEF TypeOK, Runs
<1>2. CASE ScanBegin(d)
  <2> DEFINE due == {s \in Sessions : Present(s) /\ Due(table[s])}
             r == [Idle EXCEPT !.stage = "pick", !.scan = TRUE, !.queue = due,
                               !.read = Loaded(due), !.fresh = TRUE]
  <2>1. r \in Runs
    <3>1. Loaded(due) \in [Sessions -> Nat]
      BY DEF Loaded, TypeOK, Present, Row
    <3> QED
      BY <3>1 DEF Runs, Idle
  <2>2. run' = [run EXCEPT ![d] = IF due = {} THEN Idle ELSE r]
    BY <1>2 DEF ScanBegin
  <2>3. run' \in [Dispatchers -> Runs]
    BY <1>1, <2>1, <2>2, IdleIsRun
  <2>4. overlapped' \subseteq Sessions
    BY <1>2 DEF ScanBegin, TypeOK
  <2> QED
    BY <1>2, <2>3, <2>4 DEF ScanBegin, TypeOK, world, Runs
<1>3. CASE TargetBegin(d)
  <2>1. PICK s \in Sessions :
          run' = [run EXCEPT ![d] = [Idle EXCEPT !.stage = "send", !.cur = {s},
                                                 !.todo = assigned[s]]]
    BY <1>3 DEF TargetBegin
  <2>2. [Idle EXCEPT !.stage = "send", !.cur = {s}, !.todo = assigned[s]] \in Runs
    BY DEF Runs, Idle, TypeOK
  <2>3. run' \in [Dispatchers -> Runs]
    BY <1>1, <2>1, <2>2
  <2> QED
    BY <1>3, <2>3 DEF TargetBegin, TypeOK, world, clock, Runs
<1>4. CASE Pick(d)
  <2>1. PICK s \in run[d].queue :
          IF Present(s) \/ run[d].fresh
          THEN /\ run' = [run EXCEPT ![d] =
                    [@ EXCEPT !.stage = "send", !.cur = {s}, !.todo = assigned[s],
                              !.read = Read(d, s), !.queue = run[d].queue \ {s}]]
               /\ moved' \in {moved, moved \cup {s}}
               /\ UNCHANGED dropped
          ELSE Drop(d) /\ UNCHANGED moved
    BY <1>4 DEF Pick
  <2>2. s \in Sessions /\ assigned[s] \in SUBSET Slots /\ run[d].queue \ {s} \in SUBSET Sessions
    BY <1>1, <2>1 DEF TypeOK, Runs
  <2> DEFINE n == [run[d] EXCEPT !.stage = "send", !.cur = {s}, !.todo = assigned[s],
                                 !.read = Read(d, s), !.queue = run[d].queue \ {s}]
  <2>3. CASE Present(s) \/ run[d].fresh
    <3>1. n \in Runs
      BY <1>1, <2>2, <2>3, ReadTypes DEF Runs
    <3>2. run' \in [Dispatchers -> Runs] /\ dropped' = dropped /\ moved' \subseteq Sessions
      BY <1>1, <2>1, <2>2, <2>3, <3>1 DEF TypeOK
    <3> QED
      BY <1>4, <3>2 DEF Pick, TypeOK, world, clock, Runs
  <2>4. CASE ~(Present(s) \/ run[d].fresh)
    <3>1. run' \in [Dispatchers -> Runs] /\ dropped' \subseteq Sessions /\ moved' = moved
      BY <2>1, <2>4, DropTypes
    <3> QED
      BY <1>4, <3>1 DEF Pick, TypeOK, world, clock, Runs
  <2> QED
    BY <2>3, <2>4
<1>5. CASE Send(d)
  <2>1. PICK a \in run[d].todo :
          LET r == [run[d] EXCEPT !.todo = run[d].todo \ {a}]
          IN  \/ Refuse(d, r)
              \/ /\ run' = [run EXCEPT ![d] = r]
                 /\ sent' = IF run[d].scan
                            THEN [s \in Sessions |-> IF s \in run[d].cur
                                                     THEN [sent[s] EXCEPT ![a] = @ + 1]
                                                     ELSE sent[s]]
                            ELSE sent
                 /\ UNCHANGED <<faults, refused>>
    BY <1>5 DEF Send
  <2> DEFINE r == [run[d] EXCEPT !.todo = run[d].todo \ {a}]
  <2>2. a \in Slots /\ r \in Runs
    BY <1>1, <2>1, RunEdits DEF Runs
  <2>3. /\ run' \in [Dispatchers -> Runs] /\ sent' \in [Sessions -> [Slots -> Nat]]
        /\ faults' \in Nat /\ refused' \subseteq Sessions
    <3>1. CASE Refuse(d, r)
      BY <2>2, <3>1, RefuseTypes DEF TypeOK
    <3>2. CASE run' = [run EXCEPT ![d] = r] /\ UNCHANGED <<faults, refused>>
      <4>1. run' \in [Dispatchers -> Runs]
        BY <1>1, <2>2, <3>2
      <4>2. sent' \in [Sessions -> [Slots -> Nat]]
        BY <2>1, <2>2 DEF TypeOK, Refuse
      <4> QED
        BY <3>2, <4>1, <4>2 DEF TypeOK
    <3> QED
      BY <2>1, <3>1, <3>2
  <2> QED
    BY <1>5, <2>3 DEF Send, TypeOK, world, clock, Runs
<1>6. CASE Summary(d)
  <2>1. AfterSummary(d) \in Runs
    BY <1>1, RunEdits, IdleIsRun DEF AfterSummary
  <2>2. told' \in [Sessions -> SUBSET Nat]
    <3>1. \A s \in Sessions : run[d].read[s] \in Nat
      BY <1>1 DEF Runs
    <3>2. Told(d) \in [Sessions -> SUBSET Nat]
      BY <3>1 DEF Told, TypeOK
    <3> QED
      BY <1>6, <3>2 DEF Summary, TypeOK
  <2>3. /\ run' \in [Dispatchers -> Runs] /\ sent' \in [Sessions -> [Slots -> Nat]]
        /\ faults' \in Nat /\ refused' \subseteq Sessions
    BY <1>1, <1>6, <2>1, RefuseTypes DEF Summary, TypeOK
  <2> QED
    BY <1>6, <2>2, <2>3 DEF Summary, TypeOK, world, clock, Runs
<1>7. CASE Mark(d)
  <2> DEFINE n == [Idle EXCEPT !.stage = "pick", !.scan = TRUE, !.queue = run[d].queue]
  <2>1. n \in Runs
    BY <1>1 DEF Runs, Idle
  <2>2. run' \in [Dispatchers -> Runs] /\ dropped' \subseteq Sessions
    <3>1. CASE Drop(d)
      BY <3>1, DropTypes
    <3>2. CASE ~Drop(d)
      BY <1>1, <1>7, <2>1, <3>2, IdleIsRun DEF Mark, TypeOK
    <3> QED
      BY <3>1, <3>2
  <2>3. table' \in [Sessions -> Row \cup {Absent}]
    <3>1. \A s \in Sessions : Present(s) => [table[s] EXCEPT !.marked = TRUE] \in Row
      BY RowEdits DEF TypeOK, Present
    <3> QED
      BY <1>1, <1>7, <3>1 DEF Mark, TypeOK, Runs
  <2> QED
    BY <1>7, <2>2, <2>3 DEF Mark, TypeOK, clock, Runs
<1>8. CASE Fault(d)
  <2>1. run' \in [Dispatchers -> Runs] /\ dropped' \subseteq Sessions
    BY <1>8, DropTypes DEF Fault
  <2> QED
    BY <1>8, <2>1 DEF Fault, TypeOK, world, clock, Runs
<1> QED
  BY <1>2, <1>3, <1>4, <1>5, <1>6, <1>7, <1>8 DEF Dispatch

LEMMA RequestTypes ==
    ASSUME TypeOK, NEW s \in Sessions, Patch(s) \/ Delete(s) \/ SaveAssignments(s)
    PROVE  TypeOK'
<1>1. CASE Patch(s)
  <2>1. table' \in [Sessions -> Row \cup {Absent}]
    <3>1. PICK b \in Starts, sch \in BOOLEAN :
            table' = [table EXCEPT ![s].start = b, ![s].scheduled = sch]
      BY <1>1 DEF Patch
    <3>2. table[s] \in Row /\ b \in Nat
      BY <1>1, ReminderAssumption DEF Patch, Edit, TypeOK, Present
    <3>3. [table[s] EXCEPT !.start = b, !.scheduled = sch] \in Row
      BY <3>2, RowEdits
    <3>4. table' = [table EXCEPT ![s] = [table[s] EXCEPT !.start = b, !.scheduled = sch]]
      BY <3>1 DEF TypeOK
    <3> QED
      BY <3>3, <3>4 DEF TypeOK
  <2>2. Edit(s) /\ UNCHANGED assigned /\ moved' \subseteq Sessions
    BY <1>1 DEF Patch, TypeOK
  <2> QED
    BY <2>1, <2>2 DEF Edit, TypeOK, clock
<1>2. CASE Delete(s)
  BY <1>2 DEF Delete, Edit, TypeOK, clock
<1>3. CASE SaveAssignments(s)
  BY <1>3 DEF SaveAssignments, Edit, TypeOK, clock
<1> QED
  BY <1>1, <1>2, <1>3

LEMMA NextTypes == TypeOK /\ [Next]_vars => TypeOK'
<1> SUFFICES ASSUME TypeOK, [Next]_vars
             PROVE  TypeOK'
  OBVIOUS
<1>1. CASE Tick
  <2>1. scanned' \in BOOLEAN /\ late' \in BOOLEAN
    BY <1>1, Zenon DEF Tick
  <2>2. now' \in Nat
    BY <1>1 DEF Tick, TypeOK
  <2> QED
    BY <1>1, <2>1, <2>2 DEF Tick, TypeOK, world
<1>2. CASE UNCHANGED vars
  BY <1>2 DEF vars, TypeOK
<1>3. ASSUME NEW d \in Dispatchers, Dispatch(d)
      PROVE  TypeOK'
  BY <1>3, DispatchTypes
<1>4. ASSUME NEW s \in Sessions, Patch(s) \/ Delete(s) \/ SaveAssignments(s)
      PROVE  TypeOK'
  BY <1>4, RequestTypes
<1> QED
  BY <1>1, <1>2, <1>3, <1>4 DEF Next

-----------------------------------------------------------------------------
(* Where a run is. A targeted run holds nothing.                           *)

RunInv ==
    \A d \in Dispatchers :
        /\ run[d].stage = "idle" => ~run[d].scan
        /\ run[d].stage = "pick" => run[d].scan /\ run[d].cur = {} /\ run[d].ok
        /\ run[d].stage = "mark" => run[d].scan
        /\ run[d].cur \cap run[d].queue = {}


(* What a step of dispatcher d makes of its run, action by action.         *)
LEMMA IdleIs ==
    /\ Idle.stage = "idle" /\ Idle.scan = FALSE /\ Idle.queue = {} /\ Idle.cur = {}
    /\ Idle.todo = {} /\ Idle.ok = TRUE
  BY DEF Idle

LEMMA DropIs ==
    ASSUME TypeOK, NEW d \in Dispatchers, Drop(d)
    PROVE  /\ run'[d] = Idle /\ \A e \in Dispatchers \ {d} : run'[e] = run[e]
           /\ dropped' = dropped \cup Holds(d)
  BY DEF TypeOK, Drop

LEMMA ScanBeginIs ==
    ASSUME TypeOK, NEW d \in Dispatchers, ScanBegin(d)
    PROVE  LET due == {s \in Sessions : Present(s) /\ Due(table[s])}
           IN  /\ run[d].stage = "idle"
               /\ \A e \in Dispatchers \ {d} : run'[e] = run[e]
               /\ run'[d].cur = {} /\ run'[d].queue = due /\ run'[d].todo = {}
               /\ run'[d].ok /\ run'[d].stage \in {"idle", "pick"}
               /\ (run'[d].scan <=> run'[d].stage = "pick")
               /\ due # {} => run'[d].scan
               /\ overlapped' = overlapped \cup (due \cap UNION {Holds(e) : e \in Dispatchers})
               /\ scanned' = TRUE
               /\ UNCHANGED <<now, late, world, faults, sent, told, moved, refused, dropped>>
<1> DEFINE due == {s \in Sessions : Present(s) /\ Due(table[s])}
           n == [Idle EXCEPT !.stage = "pick", !.scan = TRUE, !.queue = due,
                             !.read = Loaded(due), !.fresh = TRUE]
<1>1. run' = [run EXCEPT ![d] = IF due = {} THEN Idle ELSE n]
  BY DEF ScanBegin
<1>2. run'[d] = (IF due = {} THEN Idle ELSE n) /\ \A e \in Dispatchers \ {d} : run'[e] = run[e]
  BY <1>1 DEF TypeOK
<1>3. /\ n.stage = "pick" /\ n.scan = TRUE /\ n.queue = due /\ n.cur = {} /\ n.todo = {}
      /\ n.ok = TRUE
  BY DEF Idle
<1>4. /\ run'[d].cur = {} /\ run'[d].queue = due /\ run'[d].todo = {}
      /\ run'[d].ok /\ run'[d].stage \in {"idle", "pick"}
      /\ (run'[d].scan <=> run'[d].stage = "pick") /\ (due # {} => run'[d].scan)
  <2>1. CASE due = {}
    BY <1>2, <2>1, IdleIs
  <2>2. CASE due # {}
    <3>1. run'[d] = n
      BY <1>2, <2>2
    <3> QED
      BY <1>3, <3>1
  <2> QED
    BY <2>1, <2>2
<1> QED
  BY <1>2, <1>4 DEF ScanBegin

LEMMA TargetBeginIs ==
    ASSUME TypeOK, NEW d \in Dispatchers, TargetBegin(d)
    PROVE  /\ run[d].stage = "idle" /\ ~run'[d].scan /\ run'[d].stage = "send"
           /\ run'[d].queue = {}
           /\ \A e \in Dispatchers \ {d} : run'[e] = run[e]
           /\ UNCHANGED <<clock, world, faults, sent, told, moved, refused, dropped, overlapped>>
<1>1. PICK s \in Sessions :
        run' = [run EXCEPT ![d] = [Idle EXCEPT !.stage = "send", !.cur = {s},
                                               !.todo = assigned[s]]]
  BY DEF TargetBegin
<1>2. run'[d] = [Idle EXCEPT !.stage = "send", !.cur = {s}, !.todo = assigned[s]]
  BY <1>1 DEF TypeOK
<1> QED
  BY <1>1, <1>2 DEF TypeOK, TargetBegin, Idle

LEMMA PickIs ==
    ASSUME TypeOK, NEW d \in Dispatchers, Pick(d)
    PROVE  /\ run[d].stage = "pick"
           /\ \A e \in Dispatchers \ {d} : run'[e] = run[e]
           /\ UNCHANGED <<clock, world, faults, sent, told, refused, overlapped>>
           /\ moved \subseteq moved'
           /\ \/ Drop(d)
              \/ \E s \in run[d].queue :
                   /\ run'[d].stage = "send" /\ run'[d].scan = run[d].scan
                   /\ run'[d].ok = run[d].ok
                   /\ run'[d].cur = {s} /\ run'[d].queue = run[d].queue \ {s}
                   /\ Present(s) => run'[d].read[s] = table[s].start \/ s \in moved'
                   /\ dropped' = dropped
<1>1. run[d] \in Runs
  BY DEF TypeOK, Runs
<1>2. PICK s \in run[d].queue :
        IF Present(s) \/ run[d].fresh
        THEN /\ run' = [run EXCEPT ![d] =
                  [@ EXCEPT !.stage = "send", !.cur = {s}, !.todo = assigned[s],
                            !.read = Read(d, s), !.queue = run[d].queue \ {s}]]
             /\ moved' = IF Present(s) /\ run[d].fresh /\ table[s].start # run[d].read[s]
                         THEN moved \cup {s} ELSE moved
             /\ UNCHANGED dropped
        ELSE Drop(d) /\ UNCHANGED moved
  BY DEF Pick
<1> DEFINE n == [run[d] EXCEPT !.stage = "send", !.cur = {s}, !.todo = assigned[s],
                               !.read = Read(d, s), !.queue = run[d].queue \ {s}]
<1>3. /\ n.stage = "send" /\ n.scan = run[d].scan /\ n.ok = run[d].ok
      /\ n.cur = {s} /\ n.queue = run[d].queue \ {s} /\ n.read = Read(d, s)
  BY <1>1 DEF Runs
<1>4. moved \subseteq moved'
  BY <1>2
<1>5. CASE Drop(d)
  BY <1>4, <1>5, DropIs DEF Pick
<1>6. CASE ~Drop(d)
  <2>1. run'[d] = n /\ dropped' = dropped /\ \A e \in Dispatchers \ {d} : run'[e] = run[e]
    BY <1>2, <1>6 DEF TypeOK
  <2>2. Present(s) => Read(d, s)[s] = table[s].start \/ s \in moved'
    <3>1. s \in Sessions /\ run[d].read \in [Sessions -> Nat]
      BY <1>1, <1>2 DEF Runs
    <3> QED
      BY <1>2, <1>6, <3>1 DEF Read
  <2> HIDE DEF n
  <2> QED
    BY <1>2, <1>3, <1>4, <2>1, <2>2 DEF Pick
<1> QED
  BY <1>5, <1>6

LEMMA SendIs ==
    ASSUME TypeOK, NEW d \in Dispatchers, Send(d)
    PROVE  /\ run[d].stage = "send"
           /\ \A e \in Dispatchers \ {d} : run'[e] = run[e]
           /\ run'[d].stage = "send" /\ run'[d].scan = run[d].scan
           /\ run'[d].cur = run[d].cur /\ run'[d].queue = run[d].queue
           /\ run'[d].read = run[d].read
           /\ UNCHANGED <<clock, world, told, moved, dropped, overlapped>>
           /\ \E a \in run[d].todo :
                /\ run'[d].todo = run[d].todo \ {a}
                /\ \/ /\ ~run'[d].ok /\ refused' = refused \cup Current(d) /\ sent' = sent
                   \/ /\ run'[d].ok = run[d].ok /\ refused' = refused
                      /\ \A s \in Sessions, b \in Slots :
                           sent'[s][b] = IF run[d].scan /\ s \in run[d].cur /\ b = a
                                         THEN sent[s][b] + 1 ELSE sent[s][b]
<1>1. run[d] \in Runs
  BY DEF TypeOK, Runs
<1>2. PICK a \in run[d].todo :
        LET r == [run[d] EXCEPT !.todo = run[d].todo \ {a}]
        IN  \/ Refuse(d, r)
            \/ /\ run' = [run EXCEPT ![d] = r]
               /\ sent' = IF run[d].scan
                          THEN [s \in Sessions |-> IF s \in run[d].cur
                                                   THEN [sent[s] EXCEPT ![a] = @ + 1]
                                                   ELSE sent[s]]
                          ELSE sent
               /\ UNCHANGED <<faults, refused>>
  BY DEF Send
<1> DEFINE r == [run[d] EXCEPT !.todo = run[d].todo \ {a}]
           n == [r EXCEPT !.ok = FALSE]
<1>3. /\ r.stage = run[d].stage /\ r.scan = run[d].scan /\ r.cur = run[d].cur
      /\ r.queue = run[d].queue /\ r.ok = run[d].ok /\ r.todo = run[d].todo \ {a}
      /\ r.read = run[d].read
  BY <1>1 DEF Runs
<1>4. /\ n.stage = run[d].stage /\ n.scan = run[d].scan /\ n.cur = run[d].cur
      /\ n.queue = run[d].queue /\ n.ok = FALSE /\ n.todo = run[d].todo \ {a}
      /\ n.read = run[d].read
  BY <1>1 DEF Runs
<1>5. run[d].stage = "send" /\ UNCHANGED <<clock, world, told, moved, dropped, overlapped>>
  BY DEF Send
<1>6. CASE Refuse(d, r)
  <2>1. /\ run'[d] = n /\ \A e \in Dispatchers \ {d} : run'[e] = run[e]
        /\ refused' = refused \cup Current(d) /\ sent' = sent
    BY <1>6 DEF Refuse, TypeOK
  <2> QED
    BY <1>4, <1>5, <2>1
<1>7. CASE ~Refuse(d, r)
  <2>1. /\ run'[d] = r /\ \A e \in Dispatchers \ {d} : run'[e] = run[e]
        /\ refused' = refused
    BY <1>2, <1>7 DEF TypeOK
  <2>2. \A s \in Sessions, b \in Slots :
          sent'[s][b] = IF run[d].scan /\ s \in run[d].cur /\ b = a
                        THEN sent[s][b] + 1 ELSE sent[s][b]
    BY <1>2, <1>7 DEF TypeOK
  <2> QED
    BY <1>3, <1>5, <2>1, <2>2
<1> QED
  BY <1>6, <1>7

LEMMA SummaryIs ==
    ASSUME TypeOK, NEW d \in Dispatchers, Summary(d)
    PROVE  /\ run[d].stage = "send"
           /\ \A e \in Dispatchers \ {d} : run'[e] = run[e]
           /\ run[d].scan => /\ run'[d].stage = "mark" /\ run'[d].scan
                             /\ run'[d].cur = run[d].cur /\ run'[d].queue = run[d].queue
                             /\ run'[d].todo = run[d].todo /\ run'[d].read = run[d].read
           /\ ~run[d].scan => /\ run'[d].stage = "idle" /\ ~run'[d].scan
                              /\ run'[d].cur = {} /\ run'[d].queue = {}
           /\ \/ /\ ~run'[d].ok /\ refused' = refused \cup Current(d) /\ told' = told
              \/ /\ run[d].scan => run'[d].ok = run[d].ok
                 /\ refused' = refused
                 /\ \A s \in Sessions :
                      told'[s] = told[s] \cup (IF run[d].ok /\ s \in Current(d)
                                               THEN {run[d].read[s]} ELSE {})
           /\ UNCHANGED <<clock, world, sent, moved, dropped, overlapped>>
<1>1. run[d] \in Runs
  BY DEF TypeOK, Runs
<1> DEFINE r == AfterSummary(d)
           n == [r EXCEPT !.ok = FALSE]
<1>2. run[d].scan => /\ r.stage = "mark" /\ r.scan /\ r.cur = run[d].cur
                     /\ r.queue = run[d].queue /\ r.ok = run[d].ok /\ r.todo = run[d].todo
                     /\ r.read = run[d].read /\ n.read = run[d].read
                     /\ n.stage = "mark" /\ n.scan /\ n.cur = run[d].cur
                     /\ n.queue = run[d].queue /\ n.ok = FALSE /\ n.todo = run[d].todo
  BY <1>1 DEF AfterSummary, Runs
<1>3. ~run[d].scan => /\ r.stage = "idle" /\ ~r.scan /\ r.cur = {} /\ r.queue = {}
                      /\ n.stage = "idle" /\ ~n.scan /\ n.cur = {} /\ n.queue = {}
                      /\ n.ok = FALSE
  BY DEF AfterSummary, Idle
<1>4. run[d].stage = "send" /\ run[d].todo = {}
      /\ UNCHANGED <<clock, world, moved, dropped, overlapped>>
  BY DEF Summary
<1>5. CASE Refuse(d, AfterSummary(d)) /\ UNCHANGED told
  <2>1. /\ run'[d] = n /\ \A e \in Dispatchers \ {d} : run'[e] = run[e]
        /\ refused' = refused \cup Current(d) /\ sent' = sent /\ told' = told
    BY <1>5 DEF Refuse, TypeOK
  <2> HIDE DEF n, r
  <2> QED
    BY <1>1, <1>2, <1>3, <1>4, <2>1 DEF Runs
<1>6. CASE /\ run' = [run EXCEPT ![d] = AfterSummary(d)]
           /\ told' = Told(d)
           /\ UNCHANGED <<faults, sent, refused>>
  <2>1. /\ run'[d] = r /\ \A e \in Dispatchers \ {d} : run'[e] = run[e]
        /\ \A s \in Sessions :
             told'[s] = told[s] \cup (IF run[d].ok /\ s \in Current(d)
                                      THEN {run[d].read[s]} ELSE {})
    BY <1>4, <1>6 DEF TypeOK, Told
  <2> HIDE DEF n, r
  <2> QED
    BY <1>1, <1>2, <1>3, <1>4, <1>6, <2>1 DEF Runs
<1> QED
  BY <1>5, <1>6 DEF Summary

LEMMA MarkIs ==
    ASSUME TypeOK, NEW d \in Dispatchers, Mark(d)
    PROVE  /\ run[d].stage = "mark"
           /\ \A e \in Dispatchers \ {d} : run'[e] = run[e]
           /\ UNCHANGED <<clock, assigned, edits, since, faults, sent, told, moved, refused,
                          overlapped>>
           /\ \/ Drop(d) /\ table' = table
              \/ /\ \A s \in Sessions :
                      table'[s] = IF s \in run[d].cur THEN [table[s] EXCEPT !.marked = TRUE]
                                  ELSE table[s]
                 /\ \A s \in run[d].cur : Present(s)
                 /\ run'[d].stage \in {"idle", "pick"} /\ run'[d].cur = {} /\ run'[d].ok
                 /\ (run'[d].scan <=> run'[d].stage = "pick")
                 /\ run'[d].queue = run[d].queue /\ (run[d].queue # {} => run'[d].scan)
                 /\ dropped' = dropped
<1> DEFINE n == [Idle EXCEPT !.stage = "pick", !.scan = TRUE, !.queue = run[d].queue]
<1>1. /\ n.stage = "pick" /\ n.scan = TRUE /\ n.queue = run[d].queue /\ n.cur = {} /\ n.ok = TRUE
  BY DEF Idle
<1>2. /\ run[d].stage = "mark"
      /\ UNCHANGED <<clock, assigned, edits, since, faults, sent, told, moved, refused,
                     overlapped>>
  BY DEF Mark
<1>3. CASE \A s \in run[d].cur : Present(s)
  <2>1. /\ \A s \in Sessions :
             table'[s] = IF s \in run[d].cur THEN [table[s] EXCEPT !.marked = TRUE] ELSE table[s]
        /\ dropped' = dropped
        /\ run'[d] = IF run[d].queue = {} THEN Idle ELSE n
        /\ \A e \in Dispatchers \ {d} : run'[e] = run[e]
    BY <1>3 DEF Mark, TypeOK
  <2>2. CASE run[d].queue = {}
    BY <1>2, <1>3, <2>1, <2>2, IdleIs
  <2>3. CASE run[d].queue # {}
    <3>1. run'[d] = n
      BY <2>1, <2>3
    <3> HIDE DEF n
    <3> QED
      BY <1>1, <1>2, <1>3, <2>1, <3>1
  <2> QED
    BY <2>2, <2>3
<1>4. CASE ~\A s \in run[d].cur : Present(s)
  BY <1>2, <1>4, DropIs DEF Mark
<1> QED
  BY <1>3, <1>4

-----------------------------------------------------------------------------
(* The markers. A scan whose run is not ok had a message refused for the   *)
(* session it holds. What it knows of that session is the row, or a PATCH  *)
(* has been noted; past the summary it has told what it knows, or a        *)
(* message was refused.                                                    *)

MarkerInv ==
    \A d \in Dispatchers : run[d].scan =>
        /\ ~run[d].ok => run[d].cur \subseteq refused
        /\ \A s \in run[d].cur :
              /\ Present(s) => run[d].read[s] = table[s].start \/ s \in moved
              /\ run[d].stage = "mark" => run[d].read[s] \in told[s] \/ s \in refused

(* What a step that changes neither d's run nor its sessions' starts keeps. *)
LEMMA OthersMarker ==
    ASSUME TypeOK, MarkerInv, NEW e \in Dispatchers, run'[e] = run[e],
           refused \subseteq refused', moved \subseteq moved',
           \A s \in Sessions : told[s] \subseteq told'[s],
           \A s \in Sessions : Present(s)' => Present(s) /\ table'[s].start = table[s].start,
           run[e].scan
    PROVE  /\ ~run'[e].ok => run'[e].cur \subseteq refused'
           /\ \A s \in run'[e].cur :
                 /\ Present(s)' => run'[e].read[s] = table'[s].start \/ s \in moved'
                 /\ run'[e].stage = "mark" => run'[e].read[s] \in told'[s] \/ s \in refused'
<1>1. run[e].cur \subseteq Sessions
  BY DEF TypeOK
<1> QED
  BY <1>1 DEF MarkerInv

LEMMA MarkedKept ==
    ASSUME TypeOK, MarkedIsAnnounced, refused \subseteq refused', moved \subseteq moved',
           \A s \in Sessions : told[s] \subseteq told'[s], UNCHANGED table
    PROVE  MarkedIsAnnounced'
  BY DEF MarkedIsAnnounced, Present

LEMMA DispatchRuns ==
    ASSUME TypeOK, RunInv, MarkerInv, MarkedIsAnnounced, NEW d \in Dispatchers, Dispatch(d)
    PROVE  RunInv' /\ MarkerInv' /\ MarkedIsAnnounced'
<1>0. /\ \A e \in Dispatchers : run[e].cur \subseteq Sessions /\ run[e].queue \subseteq Sessions
      /\ \A s \in Sessions : run[d].read[s] \in Nat
  BY DEF TypeOK
<1>1. CASE Drop(d) /\ UNCHANGED <<table, told, refused>> /\ moved \subseteq moved'
  <2>1. /\ run'[d] = Idle /\ \A e \in Dispatchers \ {d} : run'[e] = run[e]
    BY <1>1, DropIs
  <2>2. RunInv'
    BY <2>1, IdleIs DEF RunInv
  <2>3. MarkerInv'
    BY <1>1, <2>1, OthersMarker, IdleIs DEF MarkerInv, Present
  <2> QED
    BY <1>1, <2>2, <2>3, MarkedKept
<1>2. CASE ScanBegin(d)
  <2>1. /\ run'[d].cur = {} /\ run'[d].ok /\ run'[d].stage \in {"idle", "pick"}
        /\ (run'[d].scan <=> run'[d].stage = "pick")
        /\ \A e \in Dispatchers \ {d} : run'[e] = run[e]
        /\ UNCHANGED <<table, told, moved, refused>>
    BY <1>2, ScanBeginIs DEF world
  <2>2. RunInv'
    BY <2>1 DEF RunInv
  <2>3. MarkerInv'
    BY <2>1, OthersMarker DEF MarkerInv, Present
  <2> QED
    BY <2>1, <2>2, <2>3, MarkedKept
<1>3. CASE TargetBegin(d)
  <2>1. /\ ~run'[d].scan /\ run'[d].stage = "send" /\ run'[d].queue = {}
        /\ \A e \in Dispatchers \ {d} : run'[e] = run[e]
        /\ UNCHANGED <<table, told, moved, refused>>
    BY <1>3, TargetBeginIs DEF world
  <2>2. RunInv'
    BY <2>1 DEF RunInv
  <2>3. MarkerInv'
    BY <2>1, OthersMarker DEF MarkerInv, Present
  <2> QED
    BY <2>1, <2>2, <2>3, MarkedKept
<1>4. CASE Pick(d)
  <2>1. /\ run[d].stage = "pick" /\ \A e \in Dispatchers \ {d} : run'[e] = run[e]
        /\ UNCHANGED <<table, told, refused>> /\ moved \subseteq moved'
    BY <1>4, PickIs DEF world
  <2>2. CASE Drop(d)
    BY <1>1, <2>1, <2>2
  <2>3. CASE ~Drop(d)
    <3>1. PICK s \in run[d].queue :
            /\ run'[d].stage = "send" /\ run'[d].scan = run[d].scan /\ run'[d].ok = run[d].ok
            /\ run'[d].cur = {s} /\ run'[d].queue = run[d].queue \ {s}
            /\ Present(s) => run'[d].read[s] = table[s].start \/ s \in moved'
      BY <1>4, <2>3, PickIs
    <3>2. RunInv'
      BY <2>1, <3>1 DEF RunInv
    <3>3. run'[d].ok
      BY <2>1, <3>1 DEF RunInv
    <3>4. MarkerInv'
      BY <2>1, <3>1, <3>3, OthersMarker DEF MarkerInv, Present
    <3> QED
      BY <2>1, <3>2, <3>4, MarkedKept
  <2> QED
    BY <2>2, <2>3
<1>5. CASE Send(d)
  <2>1. /\ run[d].stage = "send" /\ \A e \in Dispatchers \ {d} : run'[e] = run[e]
        /\ run'[d].stage = "send" /\ run'[d].scan = run[d].scan /\ run'[d].cur = run[d].cur
        /\ run'[d].queue = run[d].queue /\ run'[d].read = run[d].read
        /\ UNCHANGED <<table, told, moved>>
        /\ \/ ~run'[d].ok /\ refused' = refused \cup Current(d)
           \/ run'[d].ok = run[d].ok /\ refused' = refused
    BY <1>5, SendIs DEF world
  <2>2. RunInv'
    BY <2>1 DEF RunInv
  <2>3. MarkerInv'
    BY <2>1, OthersMarker DEF MarkerInv, Present, Current
  <2> QED
    BY <2>1, <2>2, <2>3, MarkedKept
<1>6. CASE Summary(d)
  <2>1. /\ \A e \in Dispatchers \ {d} : run'[e] = run[e]
        /\ run[d].scan => /\ run'[d].stage = "mark" /\ run'[d].scan
                          /\ run'[d].cur = run[d].cur /\ run'[d].queue = run[d].queue
                          /\ run'[d].read = run[d].read
        /\ ~run[d].scan => /\ run'[d].stage = "idle" /\ ~run'[d].scan
                           /\ run'[d].cur = {} /\ run'[d].queue = {}
        /\ UNCHANGED <<table, moved>>
        /\ \/ /\ ~run'[d].ok /\ refused' = refused \cup Current(d) /\ told' = told
           \/ /\ run[d].scan => run'[d].ok = run[d].ok
              /\ refused' = refused
              /\ \A s \in Sessions :
                   told'[s] = told[s] \cup (IF run[d].ok /\ s \in Current(d)
                                            THEN {run[d].read[s]} ELSE {})
    BY <1>6, SummaryIs DEF world
  <2>2. refused \subseteq refused' /\ \A s \in Sessions : told[s] \subseteq told'[s]
    BY <2>1
  <2>3. RunInv'
    BY <2>1 DEF RunInv
  <2>4. ASSUME run'[d].scan
        PROVE  /\ ~run'[d].ok => run'[d].cur \subseteq refused'
               /\ \A s \in run'[d].cur :
                     /\ Present(s)' => run'[d].read[s] = table'[s].start \/ s \in moved'
                     /\ run'[d].read[s] \in told'[s] \/ s \in refused'
    <3>1. run[d].scan /\ Current(d) = run[d].cur
      BY <2>1, <2>4 DEF Current
    <3>2. ~run'[d].ok => run'[d].cur \subseteq refused'
      BY <2>1, <2>2, <3>1 DEF MarkerInv
    <3>3. ASSUME NEW s \in run'[d].cur
          PROVE  /\ Present(s)' => run'[d].read[s] = table'[s].start \/ s \in moved'
                 /\ run'[d].read[s] \in told'[s] \/ s \in refused'
      <4>1. s \in run[d].cur /\ s \in Sessions /\ run'[d].read = run[d].read
        BY <1>0, <2>1, <3>1, <3>3
      <4>2. Present(s)' => run'[d].read[s] = table'[s].start \/ s \in moved'
        BY <2>1, <3>1, <4>1 DEF MarkerInv, Present
      <4>3. run[d].read[s] \in told'[s] \/ s \in refused'
        BY <2>1, <2>2, <3>1, <3>2, <4>1
      <4> QED
        BY <4>1, <4>2, <4>3
    <3> QED
      BY <3>2, <3>3
  <2>5. MarkerInv'
    BY <2>1, <2>2, <2>4, OthersMarker DEF MarkerInv, Present
  <2> QED
    BY <2>1, <2>2, <2>3, <2>5, MarkedKept
<1>7. CASE Mark(d)
  <2>1. CASE Drop(d) /\ table' = table
    BY <1>1, <1>7, <2>1, MarkIs
  <2>2. CASE ~(Drop(d) /\ table' = table)
    <3>1. /\ \A s \in Sessions :
               table'[s] = IF s \in run[d].cur THEN [table[s] EXCEPT !.marked = TRUE]
                           ELSE table[s]
          /\ \A s \in run[d].cur : Present(s)
          /\ run'[d].stage \in {"idle", "pick"} /\ run'[d].cur = {} /\ run'[d].ok
          /\ (run'[d].scan <=> run'[d].stage = "pick")
      BY <1>7, <2>2, MarkIs
    <3>2. /\ run[d].stage = "mark" /\ \A e \in Dispatchers \ {d} : run'[e] = run[e]
          /\ UNCHANGED <<told, moved, refused>>
      BY <1>7, MarkIs
    <3>3. \A s \in run[d].cur : table[s].start \in told[s] \/ s \in refused \cup moved
      BY <3>1, <3>2 DEF MarkerInv, RunInv
    <3>4. \A s \in Sessions : Present(s)' => Present(s) /\ table'[s].start = table[s].start
      BY <3>1 DEF TypeOK, Present, Row
    <3>5. ASSUME NEW s \in Sessions, Present(s)', table'[s].marked
          PROVE  table'[s].start \in told'[s] \/ s \in refused' \cup moved'
      <4>1. CASE s \in run[d].cur
        BY <3>2, <3>3, <3>4, <3>5, <4>1
      <4>2. CASE s \notin run[d].cur
        BY <3>1, <3>2, <3>5, <4>2 DEF MarkedIsAnnounced, Present
      <4> QED
        BY <4>1, <4>2
    <3>6. RunInv'
      BY <3>1, <3>2 DEF RunInv
    <3>7. MarkerInv'
      BY <3>1, <3>2, <3>4, OthersMarker DEF MarkerInv
    <3> QED
      BY <3>5, <3>6, <3>7 DEF MarkedIsAnnounced
  <2> QED
    BY <2>1, <2>2
<1>8. CASE Fault(d)
  BY <1>1, <1>8 DEF Fault, world
<1> QED
  BY <1>2, <1>3, <1>4, <1>5, <1>6, <1>7, <1>8 DEF Dispatch

LEMMA OthersRuns ==
    ASSUME TypeOK, RunInv, MarkerInv, MarkedIsAnnounced,
           \/ Tick \/ UNCHANGED vars
           \/ \E s \in Sessions : Patch(s) \/ Delete(s) \/ SaveAssignments(s)
    PROVE  RunInv' /\ MarkerInv' /\ MarkedIsAnnounced'
<1>1. UNCHANGED <<run, told, refused>>
  BY DEF Tick, Patch, Delete, SaveAssignments, Edit, vars
<1>2. RunInv'
  BY <1>1 DEF RunInv
<1>3. \A e \in Dispatchers : run[e].cur \subseteq Sessions
  BY DEF TypeOK
<1>4. CASE Tick \/ UNCHANGED vars
  <2>1. UNCHANGED <<table, moved>>
    BY <1>4 DEF Tick, world, vars
  <2> QED
    BY <1>1, <1>2, <2>1 DEF MarkerInv, MarkedIsAnnounced, Present
<1>5. ASSUME NEW s \in Sessions, Patch(s)
      PROVE  MarkerInv' /\ MarkedIsAnnounced'
  <2>1. PICK b \in Starts, sch \in BOOLEAN :
          /\ table' = [table EXCEPT ![s].start = b, ![s].scheduled = sch]
          /\ moved' = IF b # table[s].start /\ Noted(s) THEN moved \cup {s} ELSE moved
    BY <1>5 DEF Patch
  <2>2. table[s] \in Row /\ Present(s)
    BY <1>5 DEF Patch, Edit, Present, TypeOK
  <2>3. /\ table'[s].marked = table[s].marked /\ table'[s].start = b
        /\ \A o \in Sessions \ {s} : table'[o] = table[o]
    BY <2>1, <2>2 DEF TypeOK, Row
  <2>4. Noted(s) => table'[s].start = table[s].start \/ s \in moved'
    BY <2>1, <2>3
  <2>5. moved \subseteq moved'
    BY <2>1
  <2>6. ASSUME NEW d \in Dispatchers, run[d].scan, NEW o \in run[d].cur, Present(o)'
        PROVE  run[d].read[o] = table'[o].start \/ o \in moved'
    <3>1. CASE o = s
      <4>1. Noted(s)
        BY <2>6, <3>1 DEF Noted, Current
      <4> QED
        BY <2>2, <2>4, <2>5, <2>6, <3>1, <4>1 DEF MarkerInv
    <3>2. CASE o # s
      BY <1>3, <2>3, <2>5, <2>6, <3>2 DEF MarkerInv, Present
    <3> QED
      BY <3>1, <3>2
  <2>7. MarkerInv'
    BY <1>1, <2>6 DEF MarkerInv
  <2>8. ASSUME NEW o \in Sessions, Present(o)', table'[o].marked
        PROVE  table'[o].start \in told[o] \/ o \in refused \cup moved'
    <3>1. CASE o = s
      BY <2>2, <2>3, <2>4, <2>5, <2>8, <3>1 DEF Noted, MarkedIsAnnounced
    <3>2. CASE o # s
      BY <2>3, <2>5, <2>8, <3>2 DEF MarkedIsAnnounced, Present
    <3> QED
      BY <3>1, <3>2
  <2> QED
    BY <1>1, <2>7, <2>8 DEF MarkedIsAnnounced
<1>6. ASSUME NEW s \in Sessions, Delete(s) \/ SaveAssignments(s)
      PROVE  MarkerInv' /\ MarkedIsAnnounced'
  <2>1. moved' = moved /\ \A o \in Sessions : Present(o)' => table'[o] = table[o] /\ Present(o)
    BY <1>6 DEF Delete, SaveAssignments, TypeOK, Present
  <2> QED
    BY <1>1, <1>3, <2>1 DEF MarkerInv, MarkedIsAnnounced
<1> QED
  BY <1>2, <1>4, <1>5, <1>6

-----------------------------------------------------------------------------
(* Duplicates. Unless something is to blame, one scan at most holds a      *)
(* session; nothing has been sent for one that waits in a queue or is      *)
(* neither marked nor being sent for, nor to those a run still has to do.  *)

Blamed(s)  == s \in dropped \cup overlapped
Unsent(s)  == \A a \in Slots : sent[s][a] = 0
OnceInv(s) ==
    \/ Blamed(s)
    \/ /\ \A d, e \in Dispatchers : s \in Holds(d) /\ s \in Holds(e) => d = e
       /\ \A a \in Slots : sent[s][a] <= 1
       /\ \/ Unsent(s)
          \/ ~Present(s)
          \/ table[s].marked
          \/ \E d \in Dispatchers : s \in Current(d)
       /\ \A d \in Dispatchers : run[d].scan =>
            /\ s \in run[d].queue => Unsent(s)
            /\ s \in run[d].cur => \A a \in run[d].todo : sent[s][a] = 0

LEMMA DispatchOnce ==
    ASSUME TypeOK, RunInv, NEW s \in Sessions, OnceInv(s), NEW d \in Dispatchers, Dispatch(d)
    PROVE  OnceInv(s)'
<1> SUFFICES ASSUME ~Blamed(s)'
             PROVE  OnceInv(s)'
  BY DEF OnceInv
<1>1. dropped \subseteq dropped' /\ overlapped \subseteq overlapped'
  BY DEF Dispatch, ScanBegin, TargetBegin, Pick, Send, Summary, Mark, Fault, Drop
<1>2. ~Blamed(s)
  BY <1>1 DEF Blamed
<1>3. /\ \A e, f \in Dispatchers : s \in Holds(e) /\ s \in Holds(f) => e = f
      /\ \A a \in Slots : sent[s][a] <= 1
      /\ Unsent(s) \/ ~Present(s) \/ table[s].marked \/ \E e \in Dispatchers : s \in Current(e)
      /\ \A e \in Dispatchers : run[e].scan =>
           /\ s \in run[e].queue => Unsent(s)
           /\ s \in run[e].cur => \A a \in run[e].todo : sent[s][a] = 0
  BY <1>2 DEF OnceInv
<1>4. \A e \in Dispatchers : run[e] \in Runs
  BY DEF TypeOK, Runs
(* The session leaves a run only into `dropped`.                           *)
<1>5. ASSUME Drop(d), UNCHANGED <<table, sent>>
      PROVE  OnceInv(s)'
  <2>1. /\ run'[d] = Idle /\ \A e \in Dispatchers \ {d} : run'[e] = run[e]
        /\ s \notin Holds(d)
    BY <1>5, DropIs DEF Blamed
  <2>2. s \notin Current(d) /\ ~run'[d].scan
    BY <2>1, IdleIs DEF Holds, Current
  <2>3. \A e \in Dispatchers : s \in Current(e) => s \in Current(e)'
    BY <2>1, <2>2 DEF Current
  <2>4. \A e \in Dispatchers : s \in Holds(e)' => s \in Holds(e)
    BY <2>1, <2>2 DEF Holds
  <2> QED
    BY <1>3, <1>5, <2>1, <2>2, <2>3, <2>4 DEF OnceInv, Unsent, Present
<1>6. CASE ScanBegin(d)
  <2> DEFINE due == {o \in Sessions : Present(o) /\ Due(table[o])}
  <2>1. /\ run[d].stage = "idle" /\ \A e \in Dispatchers \ {d} : run'[e] = run[e]
        /\ run'[d].cur = {} /\ run'[d].queue = due
        /\ overlapped' = overlapped \cup (due \cap UNION {Holds(e) : e \in Dispatchers})
        /\ UNCHANGED <<table, sent>>
    BY <1>6, ScanBeginIs DEF world
  <2>2. Holds(d) = {} /\ Current(d) = {}
    BY <2>1 DEF RunInv, Holds, Current
  <2>3. s \in due => \A e \in Dispatchers : s \notin Holds(e)
    BY <2>1 DEF Blamed
  <2>4. \A e \in Dispatchers : s \in Current(e) => s \in Holds(e)
    BY DEF Current, Holds
  <2>5. s \in due => Present(s) /\ ~table[s].marked
    BY DEF Due
  <2>6. s \in due => Unsent(s)
    BY <1>3, <2>3, <2>4, <2>5
  <2> HIDE DEF due
  <2>7. \A e \in Dispatchers : s \in Current(e) => s \in Current(e)'
    BY <2>1, <2>2 DEF Current
  <2>8. \A e \in Dispatchers : s \in Holds(e)' => IF e = d THEN s \in due ELSE s \in Holds(e)
    BY <2>1 DEF Holds
  <2>9. \A e, f \in Dispatchers : s \in Holds(e)' /\ s \in Holds(f)' => e = f
    BY <1>3, <2>3, <2>8
  <2> QED
    BY <1>3, <2>1, <2>6, <2>7, <2>9 DEF OnceInv, Unsent, Present
<1>7. CASE TargetBegin(d)
  <2>1. /\ run[d].stage = "idle" /\ ~run'[d].scan /\ UNCHANGED <<table, sent>>
        /\ \A e \in Dispatchers \ {d} : run'[e] = run[e]
    BY <1>7, TargetBeginIs DEF world
  <2>2. \A e \in Dispatchers : /\ s \in Current(e) => s \in Current(e)'
                               /\ s \in Holds(e)' => s \in Holds(e)
    BY <2>1 DEF RunInv, Current, Holds
  <2> QED
    BY <1>3, <2>1, <2>2 DEF OnceInv, Unsent, Present
<1>8. CASE Pick(d)
  <2>1. /\ run[d].stage = "pick" /\ run[d].scan /\ run[d].cur = {}
        /\ \A e \in Dispatchers \ {d} : run'[e] = run[e]
        /\ UNCHANGED <<table, sent>>
    BY <1>8, PickIs DEF world, RunInv
  <2>2. CASE Drop(d)
    BY <1>5, <2>1, <2>2
  <2>3. CASE ~Drop(d)
    <3>1. PICK o \in run[d].queue :
            /\ run'[d].scan = run[d].scan
            /\ run'[d].cur = {o} /\ run'[d].queue = run[d].queue \ {o}
      BY <1>8, <2>3, PickIs
    <3>2. \A e \in Dispatchers : /\ s \in Current(e) => s \in Current(e)'
                                 /\ s \in Holds(e)' => s \in Holds(e)
      BY <2>1, <3>1 DEF Current, Holds
    <3>3. run'[d].todo \subseteq Slots
      BY <1>8, DispatchTypes DEF Dispatch, TypeOK, Runs
    <3>4. o = s => Unsent(s)
      BY <1>3, <2>1, <3>1
    <3> QED
      BY <1>3, <2>1, <3>1, <3>2, <3>3, <3>4 DEF OnceInv, Unsent, Present
  <2> QED
    BY <2>2, <2>3
<1>9. CASE Send(d)
  <2>1. /\ \A e \in Dispatchers \ {d} : run'[e] = run[e]
        /\ run'[d].scan = run[d].scan /\ run'[d].cur = run[d].cur
        /\ run'[d].queue = run[d].queue
        /\ UNCHANGED table
    BY <1>9, SendIs DEF world
  <2>2. PICK a \in run[d].todo :
          /\ run'[d].todo = run[d].todo \ {a}
          /\ \A b \in Slots :
               \/ sent'[s][b] = sent[s][b]
               \/ run[d].scan /\ s \in run[d].cur /\ b = a /\ sent'[s][b] = sent[s][b] + 1
    BY <1>9, SendIs
  <2>3. \A e \in Dispatchers : (s \in Current(e)' <=> s \in Current(e))
                               /\ (s \in Holds(e)' <=> s \in Holds(e))
    BY <2>1 DEF Current, Holds
  <2>4. \A b \in Slots : sent[s][b] \in Nat
    BY DEF TypeOK
  <2>5. CASE run[d].scan /\ s \in run[d].cur
    <3>1. s \in Current(d) /\ s \in Holds(d) /\ s \notin run[d].queue
      BY <2>5 DEF Current, Holds, RunInv
    <3>2. \A b \in Slots : sent'[s][b] <= 1
      BY <1>3, <1>4, <2>2, <2>4, <2>5
    <3>3. \A e \in Dispatchers \ {d} : run[e].scan => s \notin run[e].queue /\ s \notin run[e].cur
      BY <1>3, <3>1 DEF Holds
    <3>4. \A b \in run'[d].todo : sent'[s][b] = 0
      BY <1>3, <1>4, <2>2, <2>4, <2>5 DEF Runs
    <3> QED
      BY <1>3, <2>1, <2>3, <3>1, <3>2, <3>3, <3>4 DEF OnceInv, Present
  <2>6. CASE ~(run[d].scan /\ s \in run[d].cur)
    <3>1. \A b \in Slots : sent'[s][b] = sent[s][b]
      BY <2>2, <2>6
    <3>2. Unsent(s) => Unsent(s)'
      BY <3>1 DEF Unsent
    <3>3. \A e \in Dispatchers : run'[e].scan =>
            /\ s \in run'[e].queue => Unsent(s)'
            /\ s \in run'[e].cur => \A b \in run'[e].todo : sent'[s][b] = 0
      BY <1>3, <1>4, <2>1, <2>6, <3>1, <3>2 DEF Runs
    <3> QED
      BY <1>3, <2>1, <2>3, <3>1, <3>2, <3>3 DEF OnceInv, Present
  <2> QED
    BY <2>5, <2>6
<1>10. CASE Summary(d)
  <2>1. /\ \A e \in Dispatchers \ {d} : run'[e] = run[e]
        /\ run[d].scan => /\ run'[d].scan /\ run'[d].cur = run[d].cur
                          /\ run'[d].queue = run[d].queue /\ run'[d].todo = run[d].todo
        /\ ~run[d].scan => ~run'[d].scan
        /\ UNCHANGED <<table, sent>>
    BY <1>10, SummaryIs DEF world
  <2>2. \A e \in Dispatchers : /\ s \in Current(e) => s \in Current(e)'
                               /\ s \in Holds(e)' => s \in Holds(e)
    BY <2>1 DEF Current, Holds
  <2> QED
    BY <1>3, <2>1, <2>2 DEF OnceInv, Unsent, Present
<1>11. CASE Mark(d)
  <2>1. /\ run[d].stage = "mark" /\ run[d].scan
        /\ \A e \in Dispatchers \ {d} : run'[e] = run[e] /\ UNCHANGED sent
    BY <1>11, MarkIs DEF RunInv
  <2>2. sent' = sent
    BY <1>11, MarkIs
  <2>3. CASE Drop(d) /\ table' = table
    BY <1>5, <2>2, <2>3
  <2>4. CASE ~(Drop(d) /\ table' = table)
    <3>1. /\ table'[s] = IF s \in run[d].cur THEN [table[s] EXCEPT !.marked = TRUE] ELSE table[s]
          /\ s \in run[d].cur => Present(s)
          /\ run'[d].cur = {} /\ run'[d].queue = run[d].queue
      BY <1>11, <2>4, MarkIs
    <3>2. s \in run[d].cur => table'[s].marked
      BY <3>1 DEF TypeOK, Row, Present
    <3>3. s \notin run[d].cur => table'[s] = table[s]
      BY <3>1
    <3>4. \A e \in Dispatchers : s \in Holds(e)' => s \in Holds(e)
      BY <2>1, <3>1 DEF Holds
    <3>5. \A e \in Dispatchers : s \in Current(e) =>
            s \in Current(e)' \/ (e = d /\ s \in run[d].cur)
      BY <2>1 DEF Current
    <3> QED
      BY <1>3, <2>1, <2>2, <3>1, <3>2, <3>3, <3>4, <3>5 DEF OnceInv, Unsent, Present
  <2> QED
    BY <2>3, <2>4
<1>12. CASE Fault(d)
  BY <1>5, <1>12 DEF Fault, world
<1> QED
  BY <1>6, <1>7, <1>8, <1>9, <1>10, <1>11, <1>12 DEF Dispatch

(* Steps outside the dispatcher.                                           *)
LEMMA RowSteps ==
    ASSUME TypeOK, NEW s \in Sessions,
           \/ Tick \/ UNCHANGED vars
           \/ \E o \in Sessions : Patch(o) \/ Delete(o) \/ SaveAssignments(o)
    PROVE  /\ UNCHANGED <<run, sent, dropped, overlapped>>
           /\ Present(s)' => Present(s)
           /\ Present(s)' => table'[s].marked = table[s].marked
           /\ \/ table'[s] = table[s] /\ since'[s] = since[s]
              \/ since'[s] = now /\ now' = now
<1>1. UNCHANGED <<run, sent, dropped, overlapped>>
  BY DEF Tick, Patch, Delete, SaveAssignments, Edit, vars
<1>2. CASE Tick \/ UNCHANGED vars
  BY <1>1, <1>2 DEF Tick, world, vars, Present
<1>3. ASSUME NEW o \in Sessions, Patch(o)
      PROVE  /\ Present(s)' => Present(s)
             /\ Present(s)' => table'[s].marked = table[s].marked
             /\ \/ table'[s] = table[s] /\ since'[s] = since[s]
                \/ since'[s] = now /\ now' = now
  <2>1. PICK b \in Starts, sch \in BOOLEAN :
          table' = [table EXCEPT ![o].start = b, ![o].scheduled = sch]
    BY <1>3 DEF Patch
  <2>2. table[o] \in Row /\ Present(o) /\ since' = [since EXCEPT ![o] = now] /\ now' = now
    BY <1>3 DEF Patch, Edit, Present, TypeOK, clock
  <2>3. table'[o].marked = table[o].marked /\ \A q \in Sessions \ {o} : table'[q] = table[q]
    BY <2>1, <2>2 DEF TypeOK, Row
  <2> QED
    BY <2>2, <2>3 DEF TypeOK, Present
<1>4. ASSUME NEW o \in Sessions, Delete(o)
      PROVE  /\ Present(s)' => Present(s)
             /\ Present(s)' => table'[s].marked = table[s].marked
             /\ \/ table'[s] = table[s] /\ since'[s] = since[s]
                \/ since'[s] = now /\ now' = now
  BY <1>4 DEF Delete, Edit, TypeOK, Present, clock
<1>5. ASSUME NEW o \in Sessions, SaveAssignments(o)
      PROVE  /\ Present(s)' => Present(s)
             /\ Present(s)' => table'[s].marked = table[s].marked
             /\ \/ table'[s] = table[s] /\ since'[s] = since[s]
                \/ since'[s] = now /\ now' = now
  BY <1>5 DEF SaveAssignments, Edit, TypeOK, Present, clock
<1> QED
  BY <1>1, <1>2, <1>3, <1>4, <1>5

LEMMA OthersOnce ==
    ASSUME TypeOK, NEW s \in Sessions, OnceInv(s),
           \/ Tick \/ UNCHANGED vars
           \/ \E o \in Sessions : Patch(o) \/ Delete(o) \/ SaveAssignments(o)
    PROVE  OnceInv(s)'
<1>1. /\ UNCHANGED <<run, sent, dropped, overlapped>>
      /\ Present(s)' => Present(s)
      /\ Present(s)' => table'[s].marked = table[s].marked
  BY RowSteps
<1>2. ~Present(s)' \/ (Present(s) /\ table'[s].marked = table[s].marked)
  BY <1>1
<1> QED
  BY <1>1, <1>2 DEF OnceInv, Blamed, Unsent, Current, Holds

-----------------------------------------------------------------------------
(* No session is missed. A session settled before the window reached it is *)
(* covered as soon as a scan has run in the window; as at most one tick in *)
(* a row passes without a scan, the first two ticks of the window suffice. *)

Settled(s) == /\ Present(s) /\ table[s].scheduled
              /\ since[s] + Ahead + Window <= table[s].start
Covered(s) == \/ table[s].marked
              \/ s \in dropped
              \/ \E d \in Dispatchers : s \in Holds(d)

SeenInv(s) ==
    Settled(s) /\ now + Ahead + Window > table[s].start =>
        \/ Covered(s)
        \/ /\ ~scanned
           /\ \/ now + Ahead + Window = table[s].start + 1
              \/ now + Ahead + Window = table[s].start + 2 /\ late

LEMMA DispatchCovers ==
    ASSUME TypeOK, RunInv, NEW s \in Sessions, Present(s), Covered(s),
           NEW d \in Dispatchers, Dispatch(d)
    PROVE  Covered(s)'
<1>1. dropped \subseteq dropped'
  BY DEF Dispatch, ScanBegin, TargetBegin, Pick, Send, Summary, Mark, Fault, Drop
<1>2. CASE s \in dropped
  BY <1>1, <1>2 DEF Covered
<1>3. CASE table[s].marked
  <2>1. CASE Mark(d)
    <3>1. \/ table'[s] = table[s]
          \/ table'[s] = [table[s] EXCEPT !.marked = TRUE]
      BY <2>1, MarkIs
    <3>2. table'[s].marked
      BY <1>3, <3>1 DEF TypeOK, Row, Present
    <3> QED
      BY <3>2 DEF Covered
  <2>2. CASE ~Mark(d)
    <3>1. table' = table
      BY <2>2 DEF Dispatch, ScanBegin, TargetBegin, Pick, Send, Summary, Fault, world
    <3> QED
      BY <1>3, <3>1 DEF Covered
  <2> QED
    BY <2>1, <2>2
<1>4. ASSUME NEW e \in Dispatchers, s \in Holds(e), e # d
      PROVE  Covered(s)'
  <2>1. run'[e] = run[e]
    <3>1. CASE Fault(d)
      BY <1>4, <3>1, DropIs DEF Fault
    <3>2. CASE ScanBegin(d)
      BY <1>4, <3>2, ScanBeginIs
    <3>3. CASE TargetBegin(d)
      BY <1>4, <3>3, TargetBeginIs
    <3>4. CASE Pick(d)
      BY <1>4, <3>4, PickIs
    <3>5. CASE Send(d)
      BY <1>4, <3>5, SendIs
    <3>6. CASE Summary(d)
      BY <1>4, <3>6, SummaryIs
    <3>7. CASE Mark(d)
      BY <1>4, <3>7, MarkIs
    <3> QED
      BY <3>1, <3>2, <3>3, <3>4, <3>5, <3>6, <3>7 DEF Dispatch
  <2>2. s \in Holds(e)'
    BY <1>4, <2>1 DEF Holds
  <2> QED
    BY <1>4, <2>2 DEF Covered
<1>5. ASSUME s \in Holds(d)
      PROVE  Covered(s)'
  <2>1. run[d].scan /\ (s \in run[d].queue \/ s \in run[d].cur) /\ run[d].stage # "idle"
    BY <1>5 DEF Holds, RunInv
  <2>2. ASSUME Drop(d)
        PROVE  Covered(s)'
    BY <1>5, <2>2, DropIs DEF Covered
  <2>3. ASSUME run'[d].scan, s \in run'[d].queue \/ s \in run'[d].cur
        PROVE  Covered(s)'
    BY <2>3 DEF Covered, Holds
  <2>4. CASE Pick(d)
    <3>1. run[d].cur = {}
      BY <2>4, PickIs DEF RunInv
    <3>2. \/ Drop(d)
          \/ \E o \in run[d].queue : /\ run'[d].scan = run[d].scan
                                     /\ run'[d].cur = {o} /\ run'[d].queue = run[d].queue \ {o}
      BY <2>4, PickIs
    <3> QED
      BY <2>1, <2>2, <2>3, <3>1, <3>2
  <2>5. CASE Send(d)
    BY <2>1, <2>3, <2>5, SendIs
  <2>6. CASE Summary(d)
    BY <2>1, <2>3, <2>6, SummaryIs
  <2>7. CASE Mark(d)
    <3>1. CASE Drop(d)
      BY <2>2, <3>1
    <3>2. CASE ~Drop(d)
      <4>1. /\ table'[s] = IF s \in run[d].cur THEN [table[s] EXCEPT !.marked = TRUE] ELSE table[s]
            /\ run'[d].queue = run[d].queue /\ (run[d].queue # {} => run'[d].scan)
        BY <2>7, <3>2, MarkIs
      <4>2. CASE s \in run[d].queue
        BY <2>3, <4>1, <4>2
      <4>3. CASE s \in run[d].cur
        <5>1. table'[s].marked
          BY <4>1, <4>3 DEF TypeOK, Row, Present
        <5> QED
          BY <5>1 DEF Covered
      <4> QED
        BY <2>1, <4>2, <4>3
    <3> QED
      BY <3>1, <3>2
  <2>8. CASE Fault(d)
    BY <2>2, <2>8 DEF Fault
  <2> QED
    BY <2>1, <2>4, <2>5, <2>6, <2>7, <2>8, ScanBeginIs, TargetBeginIs DEF Dispatch
<1> QED
  BY <1>2, <1>3, <1>4, <1>5 DEF Covered

LEMMA SeenStep ==
    ASSUME Window >= 2, TypeOK, RunInv, [Next]_vars, NEW s \in Sessions, SeenInv(s)
    PROVE  SeenInv(s)'
<1>1. /\ now \in Nat /\ since[s] \in Nat /\ Ahead \in Nat /\ Window \in Nat
      /\ Present(s) => table[s].start \in Nat
  BY ReminderAssumption DEF TypeOK, Present, Row
<1>2. CASE Tick
  <2>1. /\ scanned \/ ~late
        /\ now' = now + 1 /\ (late' <=> ~scanned) /\ ~scanned'
        /\ UNCHANGED <<table, since, run, dropped>>
    BY <1>2 DEF Tick, world
  <2>2. Covered(s) => Covered(s)'
    BY <2>1 DEF Covered, Holds
  <2>3. Settled(s)' => Settled(s)
    BY <2>1 DEF Settled, Present
  <2>4. CASE Settled(s)
    <3>1. Present(s) /\ table'[s].start = table[s].start
      BY <2>1, <2>4 DEF Settled
    <3> QED
      BY <1>1, <2>1, <2>2, <2>4, <3>1 DEF SeenInv
  <2> QED
    BY <2>3, <2>4 DEF SeenInv
<1>3. CASE UNCHANGED vars \/ \E o \in Sessions : Patch(o) \/ Delete(o) \/ SaveAssignments(o)
  <2>1. /\ UNCHANGED <<run, dropped>>
        /\ Present(s)' => Present(s)
        /\ Present(s)' => table'[s].marked = table[s].marked
        /\ \/ table'[s] = table[s] /\ since'[s] = since[s]
           \/ since'[s] = now /\ now' = now
    BY <1>3, RowSteps
  <2>2. UNCHANGED <<now, scanned, late>>
    BY <1>3 DEF vars, Patch, Delete, SaveAssignments, Edit, clock
  <2>3. CASE table'[s] = table[s] /\ since'[s] = since[s]
    <3>1. Covered(s) => Covered(s)'
      BY <2>1, <2>3 DEF Covered, Holds
    <3>2. Settled(s)' => Settled(s)
      BY <2>3 DEF Settled, Present
    <3> QED
      BY <2>2, <2>3, <3>1, <3>2 DEF SeenInv
  <2>4. CASE since'[s] = now
    <3>1. Settled(s)' => now + Ahead + Window <= table'[s].start
      BY <2>4 DEF Settled
    <3>2. Present(s)' => table'[s].start \in Nat
      BY NextTypes DEF TypeOK, Present, Row
    <3> QED
      BY <1>1, <2>2, <3>1, <3>2 DEF SeenInv, Settled
  <2> QED
    BY <2>1, <2>3, <2>4
<1>4. ASSUME NEW d \in Dispatchers, Dispatch(d)
      PROVE  SeenInv(s)'
  <2>1. now' = now /\ since' = since /\ late' = late
    BY <1>4 DEF Dispatch, ScanBegin, TargetBegin, Pick, Send, Summary, Mark, Fault, world, clock
  <2>2. /\ Present(s)' => Present(s)
        /\ Present(s) => /\ table'[s].start = table[s].start
                         /\ table'[s].scheduled = table[s].scheduled
    <3>1. CASE Mark(d)
      <4>1. \/ table'[s] = table[s]
            \/ /\ table'[s] = [table[s] EXCEPT !.marked = TRUE]
               /\ Present(s)
        BY <3>1, MarkIs
      <4> QED
        BY <4>1 DEF TypeOK, Row, Present
    <3>2. CASE ~Mark(d)
      <4>1. table' = table
        BY <1>4, <3>2 DEF Dispatch, ScanBegin, TargetBegin, Pick, Send, Summary, Fault, world
      <4> QED
        BY <4>1 DEF Present
    <3> QED
      BY <3>1, <3>2
  <2>3. SUFFICES ASSUME Settled(s)', (now + Ahead + Window > table[s].start)'
                 PROVE  \/ Covered(s)'
                        \/ /\ ~scanned'
                           /\ \/ now' + Ahead + Window = table'[s].start + 1
                              \/ now' + Ahead + Window = table'[s].start + 2 /\ late'
    BY DEF SeenInv
  <2>4. Settled(s) /\ Present(s) /\ now + Ahead + Window > table[s].start
    BY <2>1, <2>2, <2>3 DEF Settled
  <2>5. CASE Covered(s)
    BY <1>4, <2>4, <2>5, DispatchCovers
  <2>6. CASE ~Covered(s) /\ ~ScanBegin(d)
    <3>1. scanned' = scanned
      BY <1>4, <2>6 DEF Dispatch, TargetBegin, Pick, Send, Summary, Mark, Fault, clock
    <3> QED
      BY <2>1, <2>2, <2>4, <2>6, <3>1 DEF SeenInv
  <2>7. CASE ~Covered(s) /\ ScanBegin(d)
    <3>1. now + Ahead + Window <= table[s].start + 2
      BY <1>1, <2>4, <2>7 DEF SeenInv
    <3>2. table[s].start >= now + Ahead /\ table[s].start < now + Ahead + Window
      BY <1>1, <2>4, <3>1
    <3>3. Due(table[s])
      BY <2>4, <2>7, <3>2 DEF Due, Settled, Covered
    <3> DEFINE due == {o \in Sessions : Present(o) /\ Due(table[o])}
    <3>4. s \in due
      BY <2>4, <3>3
    <3>5. run'[d].queue = due /\ (due # {} => run'[d].scan)
      BY <2>7, ScanBeginIs
    <3> HIDE DEF due
    <3>6. s \in Holds(d)'
      BY <3>4, <3>5 DEF Holds
    <3> QED
      BY <1>4, <3>6 DEF Covered
  <2> QED
    BY <2>5, <2>6, <2>7
<1> QED
  BY <1>2, <1>3, <1>4 DEF Next

-----------------------------------------------------------------------------
(* The theorems.                                                           *)

Inv == /\ TypeOK /\ RunInv /\ MarkerInv /\ MarkedIsAnnounced
       /\ \A s \in Sessions : OnceInv(s)

LEMMA Initially == Init => Inv /\ \A s \in Sessions : SeenInv(s)
<1> SUFFICES ASSUME Init
             PROVE  Inv /\ \A s \in Sessions : SeenInv(s)
  OBVIOUS
<1>1. TypeOK
  BY InitTypes
<1>2. RunInv /\ MarkerInv
  BY IdleIs DEF Init, RunInv, MarkerInv
<1>3. MarkedIsAnnounced
  BY DEF Init, MarkedIsAnnounced
<1>4. \A s \in Sessions : OnceInv(s)
  <2>1. \A s \in Sessions : Unsent(s)
    BY DEF Init, Unsent
  <2>2. \A d \in Dispatchers : run[d] = Idle
    BY DEF Init
  <2>3. \A d \in Dispatchers : Holds(d) = {} /\ ~run[d].scan
    BY <2>2, IdleIs DEF Holds
  <2>4. ASSUME NEW s \in Sessions
        PROVE  OnceInv(s)
    <3>1. Unsent(s) /\ \A a \in Slots : sent[s][a] <= 1
      BY <2>1 DEF Unsent
    <3> QED
      BY <2>3, <3>1 DEF OnceInv
  <2> QED
    BY <2>4
<1>5. ASSUME NEW s \in Sessions
      PROVE  SeenInv(s)
  <2>1. now = 0 /\ since[s] = 0
    BY DEF Init
  <2>2. Settled(s) => Ahead + Window <= table[s].start /\ table[s].start \in Nat
    BY <1>1, <2>1, ReminderAssumption DEF Settled, TypeOK, Present, Row
  <2> QED
    BY <2>1, <2>2, ReminderAssumption DEF SeenInv
<1> QED
  BY <1>1, <1>2, <1>3, <1>4, <1>5 DEF Inv

LEMMA InvStep == Inv /\ [Next]_vars => Inv'
<1> SUFFICES ASSUME Inv, [Next]_vars
             PROVE  Inv'
  OBVIOUS
<1>1. /\ TypeOK /\ RunInv /\ MarkerInv /\ MarkedIsAnnounced
      /\ \A s \in Sessions : OnceInv(s)
  BY DEF Inv
<1>2. TypeOK'
  BY <1>1, NextTypes
<1>3. ASSUME NEW d \in Dispatchers, Dispatch(d)
      PROVE  Inv'
  <2>1. RunInv' /\ MarkerInv' /\ MarkedIsAnnounced'
    BY <1>1, <1>3, DispatchRuns
  <2>2. \A s \in Sessions : OnceInv(s)'
    BY <1>1, <1>3, DispatchOnce
  <2> QED
    BY <1>2, <2>1, <2>2 DEF Inv
<1>4. CASE \/ Tick \/ UNCHANGED vars
           \/ \E s \in Sessions : Patch(s) \/ Delete(s) \/ SaveAssignments(s)
  <2>1. RunInv' /\ MarkerInv' /\ MarkedIsAnnounced'
    BY <1>1, <1>4, OthersRuns
  <2>2. \A s \in Sessions : OnceInv(s)'
    BY <1>1, <1>4, OthersOnce
  <2> QED
    BY <1>2, <2>1, <2>2 DEF Inv
<1> QED
  BY <1>3, <1>4 DEF Next

LEMMA Invariance == Spec => []Inv
<1>1. Init => Inv
  BY Initially
<1> QED
  BY <1>1, InvStep, PTL DEF Spec

(* Rows, assignments, runs and the histories keep their types.             *)
THEOREM RemindersTypeCorrect == Spec => []TypeOK
<1>1. Inv => TypeOK
  BY DEF Inv
<1> QED
  BY <1>1, Invariance, PTL

(* A marker says that everything went out for the time the session has,    *)
(* unless a provider failed or a PATCH came after the run's read.          *)
THEOREM MarkersAreTruthful == Spec => []MarkedIsAnnounced
<1>1. Inv => MarkedIsAnnounced
  BY DEF Inv
<1> QED
  BY <1>1, Invariance, PTL

(* Second reminders come from overlapping scans and failed runs only.      *)
THEOREM DuplicatesHaveACause == Spec => []DuplicateHasACause
<1>1. Inv => DuplicateHasACause
  <2> SUFFICES ASSUME Inv, NEW s \in Sessions, NEW a \in Slots, sent[s][a] > 1
               PROVE  s \in dropped \cup overlapped
    BY DEF DuplicateHasACause
  <2>1. OnceInv(s) /\ sent[s][a] \in Nat
    BY DEF Inv, TypeOK
  <2> QED
    BY <2>1 DEF OnceInv, Blamed
<1> QED
  BY <1>1, Invariance, PTL

(* When the scanned interval spans two cron periods, and no two scans in a *)
(* row are skipped, no session passes its reminder time unseen.            *)
THEOREM NoSessionIsMissed ==
    ASSUME Window >= 2
    PROVE  Spec => []NoSessionMissed
<1> DEFINE SInv == Inv /\ \A s \in Sessions : SeenInv(s)
<1>1. Init => SInv
  BY Initially
<1>2. SInv /\ [Next]_vars => SInv'
  <2> SUFFICES ASSUME Inv, \A s \in Sessions : SeenInv(s), [Next]_vars
               PROVE  SInv'
    OBVIOUS
  <2>1. Inv'
    BY InvStep
  <2>2. \A s \in Sessions : SeenInv(s)'
    BY SeenStep DEF Inv
  <2> QED
    BY <2>1, <2>2
<1>3. SInv => NoSessionMissed
  <2> SUFFICES ASSUME Inv, \A s \in Sessions : SeenInv(s), NEW s \in Sessions,
                      Present(s), table[s].scheduled,
                      since[s] + Ahead + Window <= table[s].start,
                      table[s].start < now + Ahead
               PROVE  Covered(s)
    BY DEF NoSessionMissed, Covered
  <2>1. /\ now \in Nat /\ table[s].start \in Nat /\ Ahead \in Nat /\ Window \in Nat
    BY ReminderAssumption DEF Inv, TypeOK, Present, Row
  <2>2. Settled(s) /\ now + Ahead + Window > table[s].start + 2
    BY <2>1 DEF Settled
  <2> QED
    BY <2>1, <2>2 DEF SeenInv
<1> QED
  BY <1>1, <1>2, <1>3, PTL DEF Spec

=============================================================================
