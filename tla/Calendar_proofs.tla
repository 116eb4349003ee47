-------------------------- MODULE Calendar_proofs --------------------------
(***************************************************************************)
(* Proofs about Calendar and CalendarViews, for any members, sessions,     *)
(* days, months and numbers of request threads.                            *)
(***************************************************************************)
EXTENDS CalendarViews, TLAPS

-----------------------------------------------------------------------------
(* What a thread can be.                                                   *)

Seen     == Values \cup {"none", "unread"}
MarkTx   == [op : {"mark"}, who : Members, val : Values, key : Keys,
             todo : Seq(SUBSET Keys), seen : [Keys -> Seen]]
SaveTx(S) == [op : {"save"}, sel : {S}, id : 1..MaxRequests, plan : [S -> Rosters],
              old : [S -> SUBSET AssignmentRows], locked : BOOLEAN,
              seen : [Months -> LockRows \cup {"unread"}]]
SaveTxs  == UNION {SaveTx(S) : S \in SUBSET Sessions}
NotifyTx == [op : {"notify"}, month : Months, seen : LockRows]
Tx       == {Idle} \cup MarkTx \cup SaveTxs \cup NotifyTx

TypeInv ==
    /\ mark \in [Members -> [Keys -> Values \cup {"none"}]]
    /\ lock \in [Months -> LockRows]
    /\ notified \subseteq Months
    /\ assign \in [Sessions -> SUBSET AssignmentRows]
    /\ thisMonth \in Months
    /\ served \in 0..MaxRequests
    /\ tx \in [Threads -> Tx]
    /\ inflight \in [Months -> SUBSET Threads]
    /\ clashed \subseteq Members /\ raced \subseteq Sessions /\ opened \subseteq Months

LEMMA Ops ==
    ASSUME NEW x \in Tx
    PROVE  /\ x.op \in {"idle", "mark", "save", "notify"}
           /\ x.op = "idle" => x = Idle
           /\ x.op = "mark" => x \in MarkTx
           /\ x.op = "save" => x.sel \in SUBSET Sessions /\ x \in SaveTx(x.sel)
           /\ x.op = "notify" => x \in NotifyTx
<1>1. CASE x = Idle
  BY <1>1 DEF Idle
<1>2. CASE x \in MarkTx
  BY <1>2 DEF MarkTx
<1>3. ASSUME NEW S \in SUBSET Sessions, x \in SaveTx(S)
      PROVE  x.op = "save" /\ x.sel = S
  BY <1>3 DEF SaveTx
<1>4. CASE x \in NotifyTx
  BY <1>4 DEF NotifyTx
<1> QED
  BY <1>1, <1>2, <1>3, <1>4 DEF Tx, SaveTxs

LEMMA DatesAreKeys ==
    ASSUME NEW s \in Sessions
    PROVE  /\ LocalDay[s] \in Days /\ UtcDay[s] \in Days
           /\ LocalMonth(s) \in Months /\ UtcMonth(s) \in Months
           /\ s \in Keys /\ LocalDay[s] \in Keys
  BY CalendarAssumption DEF LocalMonth, UtcMonth, Keys

-----------------------------------------------------------------------------
(* Types.                                                                  *)

LEMMA InitTypes == Init => TypeInv
<1> SUFFICES ASSUME Init
             PROVE  TypeInv
  OBVIOUS
<1>1. mark \in [Members -> [Keys -> Values \cup {"none"}]]
  BY DEF Init
<1>2. lock \in [Months -> LockRows] /\ notified \subseteq Months
  BY DEF Init, LockRows
<1>3. assign \in [Sessions -> SUBSET AssignmentRows]
  BY DEF Init
<1>4. served \in 0..MaxRequests /\ thisMonth \in Months
  BY CalendarAssumption DEF Init
<1>5. tx \in [Threads -> Tx]
  BY DEF Init, Tx
<1>6. inflight \in [Months -> SUBSET Threads]
  BY DEF Init
<1>7. clashed \subseteq Members /\ raced \subseteq Sessions /\ opened \subseteq Months
  BY DEF Init
<1> QED
  BY <1>1, <1>2, <1>3, <1>4, <1>5, <1>6, <1>7 DEF TypeInv

LEMMA LocksType ==
    ASSUME TypeInv, NEW S, Locks(S)
    PROVE  inflight' \in [Months -> SUBSET Threads]
  BY DEF TypeInv, Locks, Marking

(* A handler begins, or a thread gets idle: what the rest of the state     *)
(* needs to stay typed.                                                    *)
LEMMA BeginTypes ==
    ASSUME TypeInv, NEW t \in Threads, NEW x \in Tx, Begin(t, x)
    PROVE  /\ tx' \in [Threads -> Tx] /\ served' \in 0..MaxRequests
           /\ served' = served + 1 /\ served + 1 \in 1..MaxRequests
           /\ UNCHANGED <<mark, lock, notified, assign, thisMonth, opened>>
  BY CalendarAssumption DEF TypeInv, Begin, rows

LEMMA EndTypes ==
    ASSUME TypeInv, NEW t \in Threads, End(t)
    PROVE  /\ tx' \in [Threads -> Tx]
           /\ UNCHANGED <<thisMonth, served, clashed, raced, opened>>
  BY DEF TypeInv, End, Tx

LEMMA MarkBeginTypes ==
    ASSUME TypeInv, NEW t \in Threads, NEW m \in Members, NEW v \in Values, NEW key \in Keys,
           NEW month, NEW todo \in Seq(SUBSET Keys), MarkBegin(t, m, v, key, month, todo)
    PROVE  TypeInv'
<1> DEFINE x == [op |-> "mark", who |-> m, val |-> v, key |-> key, todo |-> todo,
                 seen |-> [k \in Keys |-> "unread"]]
<1>1. x \in MarkTx
  BY DEF MarkTx, Seen
<1>2. x \in Tx
  BY <1>1 DEF Tx
<1>3. Begin(t, x)
  BY DEF MarkBegin
<1>4. /\ tx' \in [Threads -> Tx] /\ served' \in 0..MaxRequests
      /\ UNCHANGED <<mark, lock, notified, assign, thisMonth, opened>>
  BY <1>2, <1>3, BeginTypes
<1>5. inflight' \in [Months -> SUBSET Threads]
  BY DEF MarkBegin, TypeInv
<1>6. clashed' \subseteq Members /\ raced' = raced
  BY DEF MarkBegin, TypeInv
<1> QED
  BY <1>4, <1>5, <1>6 DEF TypeInv

LEMMA MarkTypes ==
    ASSUME TypeInv, NEW t \in Threads, MarkSession(t) \/ MarkDay(t)
    PROVE  TypeInv'
<1>1. CASE MarkSession(t)
  <2>1. PICK m \in Markers, v \in Values, s \in Sessions :
          MarkBegin(t, m, v, s, UtcMonth(s),
              <<{s}, {LocalDay[s]},
                {o \in Sessions \ {s} : LocalDay[o] = LocalDay[s]
                                        /\ UtcMonth(o) = MonthOf[LocalDay[s]]}>>)
    BY <1>1 DEF MarkSession
  <2>0. m \in Members
    BY CalendarAssumption
  <2> DEFINE C == {o \in Sessions \ {s} : LocalDay[o] = LocalDay[s]
                                          /\ UtcMonth(o) = MonthOf[LocalDay[s]]}
  <2>2. {s} \in SUBSET Keys /\ {LocalDay[s]} \in SUBSET Keys /\ C \in SUBSET Keys
    BY DatesAreKeys DEF Keys
  <2>3. <<{s}, {LocalDay[s]}, C>> \in Seq(SUBSET Keys)
    BY <2>2
  <2> QED
    BY <2>0, <2>1, <2>3, MarkBeginTypes, DatesAreKeys
<1>2. CASE MarkDay(t)
  <2>1. PICK m \in Markers, v \in Values, d \in Days :
          MarkBegin(t, m, v, d, MonthOf[d], <<{d}, {s \in Sessions : UtcDay[s] = d}>>)
    BY <1>2 DEF MarkDay
  <2>0. m \in Members
    BY CalendarAssumption
  <2> DEFINE C == {s \in Sessions : UtcDay[s] = d}
  <2>2. d \in Keys /\ {d} \in SUBSET Keys /\ C \in SUBSET Keys
    BY DEF Keys
  <2>3. <<{d}, C>> \in Seq(SUBSET Keys)
    BY <2>2
  <2> QED
    BY <2>0, <2>1, <2>2, <2>3, MarkBeginTypes
<1> QED
  BY <1>1, <1>2

LEMMA MarkReadTypes ==
    ASSUME TypeInv, NEW t \in Threads, MarkRead(t)
    PROVE  TypeInv' /\ tx[t] \in MarkTx /\ tx'[t] \in MarkTx
<1>1. tx[t] \in MarkTx /\ tx[t].todo \in Seq(SUBSET Keys) /\ tx[t].todo # <<>>
  BY Ops DEF TypeInv, MarkRead, Running, MarkTx
<1>2. Tail(tx[t].todo) \in Seq(SUBSET Keys)
  BY <1>1
<1> DEFINE seen == [x \in Keys |-> IF x \in Head(tx[t].todo) THEN mark[tx[t].who][x]
                                   ELSE tx[t].seen[x]]
           new  == [tx[t] EXCEPT !.todo = Tail(tx[t].todo), !.seen = seen]
<1>3. seen \in [Keys -> Seen]
  BY <1>1 DEF TypeInv, MarkTx, Seen
<1>4. new \in MarkTx
  BY <1>1, <1>2, <1>3 DEF MarkTx
<1>5. tx' = [tx EXCEPT ![t] = new]
  BY <1>1 DEF MarkRead, MarkTx, TypeInv
<1>6. tx' \in [Threads -> Tx] /\ tx'[t] = new
  BY <1>4, <1>5 DEF TypeInv, Tx
<1> QED
  BY <1>1, <1>4, <1>6 DEF TypeInv, MarkRead, rows

LEMMA MarkCommitTypes ==
    ASSUME TypeInv, NEW t \in Threads, MarkCommit(t)
    PROVE  TypeInv' /\ tx[t] \in MarkTx
<1>1. tx[t] \in MarkTx
  BY Ops DEF TypeInv, MarkCommit, Running
<1>2. mark' \in [Members -> [Keys -> Values \cup {"none"}]]
  BY <1>1 DEF MarkCommit, TypeInv, MarkTx
<1> QED
  BY <1>1, <1>2, EndTypes DEF MarkCommit, TypeInv

LEMMA SaveBeginTypes ==
    ASSUME TypeInv, NEW t \in Threads, SaveBegin(t)
    PROVE  TypeInv'
<1>1. PICK S \in SUBSET Sessions \ {{}} : \E plan \in [S -> Rosters] :
        /\ Begin(t, [op |-> "save", sel |-> S, id |-> served + 1, plan |-> plan,
                     old |-> [s \in S |-> assign[s]],
                     locked |-> FALSE, seen |-> [mo \in Months |-> "unread"]])
        /\ raced' = raced \cup {s \in S : Saving(s) # {}}
        /\ UNCHANGED <<inflight, clashed>>
  BY DEF SaveBegin
<1>1a. PICK plan \in [S -> Rosters] :
        /\ Begin(t, [op |-> "save", sel |-> S, id |-> served + 1, plan |-> plan,
                     old |-> [s \in S |-> assign[s]],
                     locked |-> FALSE, seen |-> [mo \in Months |-> "unread"]])
        /\ raced' = raced \cup {s \in S : Saving(s) # {}}
        /\ UNCHANGED <<inflight, clashed>>
  BY <1>1
<1> DEFINE x == [op |-> "save", sel |-> S, id |-> served + 1, plan |-> plan,
                 old |-> [s \in S |-> assign[s]],
                 locked |-> FALSE, seen |-> [mo \in Months |-> "unread"]]
<1>2. served + 1 \in 1..MaxRequests
  BY <1>1a, CalendarAssumption DEF Begin, TypeInv
<1>3. x \in SaveTx(S)
  BY <1>2 DEF SaveTx, TypeInv
<1>4. x \in Tx
  BY <1>3 DEF Tx, SaveTxs
<1> QED
  BY <1>1a, <1>4, BeginTypes DEF TypeInv

LEMMA SaveReadTypes ==
    ASSUME TypeInv, NEW t \in Threads, SaveReadLocks(t)
    PROVE  TypeInv' /\ tx[t] \in SaveTx(tx[t].sel)
<1>1. tx[t].sel \in SUBSET Sessions /\ tx[t] \in SaveTx(tx[t].sel)
  BY Ops DEF TypeInv, SaveReadLocks, Running
<1> DEFINE seen == [mo \in Months |-> IF mo \in SaveMonths(t) THEN lock[mo] ELSE "unread"]
           new  == [tx[t] EXCEPT !.locked = TRUE, !.seen = seen]
<1>2. seen \in [Months -> LockRows \cup {"unread"}]
  BY DEF TypeInv
<1>3. new \in SaveTx(tx[t].sel)
  BY <1>1, <1>2 DEF SaveTx
<1>4. tx' = [tx EXCEPT ![t] = new]
  BY <1>1 DEF SaveReadLocks, SaveTx, TypeInv
<1>5. tx' \in [Threads -> Tx]
  BY <1>1, <1>3, <1>4 DEF TypeInv, Tx, SaveTxs
<1> QED
  BY <1>1, <1>5 DEF TypeInv, SaveReadLocks, rows

LEMMA SaveCommitTypes ==
    ASSUME TypeInv, NEW t \in Threads, SaveCommit(t)
    PROVE  TypeInv' /\ tx[t].sel \in SUBSET Sessions /\ tx[t] \in SaveTx(tx[t].sel)
<1>1. tx[t].sel \in SUBSET Sessions /\ tx[t] \in SaveTx(tx[t].sel)
  BY Ops DEF TypeInv, SaveCommit, Running
<1>2. /\ tx[t].id \in 1..MaxRequests
  BY <1>1 DEF SaveTx
<1>3. assign' \in [Sessions -> SUBSET AssignmentRows]
  <2>1. ASSUME NEW s \in tx[t].sel
        PROVE  Inserted(t, s) \subseteq AssignmentRows
    <3>1. tx[t].plan[s] \subseteq Members \X Roles
      BY <1>1, CalendarAssumption DEF SaveTx
    <3> QED
      BY <1>2, <3>1 DEF Inserted, AssignmentRows
  <2> QED
    BY <1>1, <2>1 DEF SaveCommit, TypeInv
<1>4. lock' \in [Months -> LockRows]
  BY DEF SaveCommit, TypeInv, NewLock, LockRows
<1>5. inflight' \in [Months -> SUBSET Threads]
  BY LocksType DEF SaveCommit, TypeInv
<1> QED
  BY <1>1, <1>3, <1>4, <1>5, EndTypes DEF SaveCommit, TypeInv

LEMMA NotifyTypes ==
    ASSUME TypeInv, NEW t \in Threads, NotifyBegin(t) \/ NotifyCommit(t)
    PROVE  TypeInv'
<1>1. CASE NotifyBegin(t)
  <2>1. PICK mo \in Months :
          /\ Begin(t, [op |-> "notify", month |-> mo, seen |-> lock[mo]])
          /\ UNCHANGED <<inflight, clashed, raced>>
    BY <1>1 DEF NotifyBegin
  <2>2. [op |-> "notify", month |-> mo, seen |-> lock[mo]] \in Tx
    BY DEF TypeInv, Tx, NotifyTx
  <2> QED
    BY <2>1, <2>2, BeginTypes DEF TypeInv
<1>2. CASE NotifyCommit(t)
  <2>1. tx[t].month \in Months
    BY <1>2, Ops DEF TypeInv, NotifyCommit, Running, NotifyTx
  <2>2. lock' \in [Months -> LockRows] /\ notified' \subseteq Months
    BY <1>2, <2>1 DEF NotifyCommit, TypeInv, LockRows
  <2> QED
    BY <1>2, <2>2, EndTypes DEF NotifyCommit, TypeInv
<1> QED
  BY <1>1, <1>2

LEMMA StepTypes ==
    ASSUME TypeInv, [Next]_vars
    PROVE  TypeInv'
<1>1. CASE UNCHANGED vars
  BY <1>1 DEF vars, TypeInv
<1>2. CASE NextMonth
  BY <1>2, LocksType DEF NextMonth, rows, TypeInv
<1>3. CASE SetMonthLock
  <2>1. inflight' \in [Months -> SUBSET Threads]
    BY <1>3, LocksType DEF SetMonthLock
  <2>2. served' \in 0..MaxRequests
    BY <1>3, CalendarAssumption DEF SetMonthLock, TypeInv
  <2>3. lock' \in [Months -> LockRows] /\ opened' \subseteq Months
    BY <1>3 DEF SetMonthLock, TypeInv, LockRows
  <2> QED
    BY <1>3, <2>1, <2>2, <2>3 DEF SetMonthLock, TypeInv
<1>4. ASSUME NEW t \in Threads, Abort(t)
      PROVE  TypeInv'
  BY <1>4, EndTypes DEF Abort, TypeInv, rows
<1> QED
  BY <1>1, <1>2, <1>3, <1>4, MarkTypes, MarkReadTypes, MarkCommitTypes, SaveBeginTypes,
     SaveReadTypes, SaveCommitTypes, NotifyTypes DEF Next, Handler

(* TypeOK holds in every reachable state, for any number of threads,       *)
(* members, sessions and months (the tables and requests of calendar.py).  *)
THEOREM CalendarTypeCorrect == Spec => []TypeOK
<1>1. TypeInv => TypeOK
  <2> SUFFICES ASSUME TypeInv
               PROVE  TypeOK
    OBVIOUS
  <2>1. ASSUME NEW t \in Threads
        PROVE  \/ tx[t] = Idle
               \/ /\ Running(t, "mark")
                  /\ tx[t].who \in Members /\ tx[t].val \in Values /\ tx[t].key \in Keys
                  /\ \A i \in DOMAIN tx[t].todo : tx[t].todo[i] \subseteq Keys
                  /\ tx[t].seen \in [Keys -> Values \cup {"none", "unread"}]
               \/ /\ Running(t, "save")
                  /\ tx[t].sel \subseteq Sessions /\ tx[t].id \in 1..MaxRequests
                  /\ tx[t].plan \in [tx[t].sel -> Rosters]
                  /\ tx[t].old \in [tx[t].sel -> SUBSET AssignmentRows]
                  /\ tx[t].seen \in [Months -> LockRows \cup {"unread"}]
               \/ /\ Running(t, "notify")
                  /\ tx[t].month \in Months /\ tx[t].seen \in LockRows
    <3>1. tx[t] \in Tx
      BY DEF TypeInv
    <3>2. CASE tx[t].op = "mark"
      BY <3>1, <3>2, Ops DEF Running, MarkTx, Seen
    <3>3. CASE tx[t].op = "save"
      BY <3>1, <3>3, Ops DEF Running, SaveTx
    <3>4. CASE tx[t].op = "notify"
      BY <3>1, <3>4, Ops DEF Running, NotifyTx
    <3> QED
      BY <3>1, <3>2, <3>3, <3>4, Ops
  <2> QED
    BY <2>1 DEF TypeInv, TypeOK
<1> QED
  BY <1>1, InitTypes, StepTypes, PTL DEF Spec

-----------------------------------------------------------------------------
(* What a step leaves alone.                                               *)

LEMMA OneThread ==
    ASSUME TypeInv, NEW t \in Threads, Handler(t), NEW u \in Threads, u # t
    PROVE  tx'[u] = tx[u]
<1> USE DEF TypeInv
<1>1. CASE MarkSession(t) \/ MarkDay(t)
  BY <1>1 DEF MarkSession, MarkDay, MarkBegin, Begin
<1>2. CASE MarkRead(t)
  BY <1>2 DEF MarkRead
<1>3. CASE MarkCommit(t) \/ SaveCommit(t) \/ NotifyCommit(t) \/ Abort(t)
  BY <1>3 DEF MarkCommit, SaveCommit, NotifyCommit, Abort, End
<1>4. CASE SaveBegin(t) \/ NotifyBegin(t)
  BY <1>4 DEF SaveBegin, NotifyBegin, Begin
<1>5. CASE SaveReadLocks(t)
  BY <1>5 DEF SaveReadLocks
<1> QED
  BY <1>1, <1>2, <1>3, <1>4, <1>5 DEF Handler

(* The thread that steps becomes what the step's name says.                *)
LEMMA Becomes ==
    ASSUME TypeInv, NEW t \in Threads
    PROVE  /\ MarkSession(t) \/ MarkDay(t) => tx[t] = Idle /\ tx'[t].op = "mark"
           /\ MarkRead(t) => tx[t].op = "mark" /\ tx'[t].op = "mark"
           /\ MarkCommit(t) \/ SaveCommit(t) \/ NotifyCommit(t) \/ Abort(t) => tx'[t] = Idle
           /\ NotifyBegin(t) => tx[t] = Idle /\ tx'[t].op = "notify"
           /\ SaveReadLocks(t) => /\ tx'[t].op = "save" /\ tx[t].op = "save"
                                  /\ tx'[t].sel = tx[t].sel /\ tx'[t].old = tx[t].old
                                  /\ tx'[t].locked
                                  /\ tx'[t].seen = [mo \in Months |->
                                        IF mo \in SaveMonths(t) THEN lock[mo] ELSE "unread"]
<1>1. tx \in [Threads -> Tx] /\ tx[t] \in Tx
  BY DEF TypeInv
<1>2. Running(t, "idle") => tx[t] = Idle
  BY <1>1, Ops DEF Running
<1>3. MarkSession(t) \/ MarkDay(t) => tx[t] = Idle /\ tx'[t].op = "mark"
  BY <1>1, <1>2 DEF MarkSession, MarkDay, MarkBegin, Begin
<1>4. MarkRead(t) => tx[t].op = "mark" /\ tx'[t].op = "mark"
  BY <1>1, MarkReadTypes DEF MarkTx
<1>5. MarkCommit(t) \/ SaveCommit(t) \/ NotifyCommit(t) \/ Abort(t) => tx'[t] = Idle
  BY <1>1 DEF MarkCommit, SaveCommit, NotifyCommit, Abort, End
<1>6. NotifyBegin(t) => tx[t] = Idle /\ tx'[t].op = "notify"
  BY <1>1, <1>2 DEF NotifyBegin, Begin
<1>7. ASSUME SaveReadLocks(t)
      PROVE  /\ tx'[t].op = "save" /\ tx[t].op = "save"
             /\ tx'[t].sel = tx[t].sel /\ tx'[t].old = tx[t].old
             /\ tx'[t].locked
             /\ tx'[t].seen = [mo \in Months |->
                                IF mo \in SaveMonths(t) THEN lock[mo] ELSE "unread"]
  <2>1. tx[t] \in SaveTx(tx[t].sel)
    BY <1>7, SaveReadTypes
  <2> QED
    BY <1>1, <1>7, <2>1 DEF SaveReadLocks, SaveTx
<1> QED
  BY <1>3, <1>4, <1>5, <1>6, <1>7

(* Only a save touches the assignments.                                    *)
LEMMA NotASave ==
    ASSUME TypeInv, [Next]_vars, \A t \in Threads : ~SaveBegin(t) /\ ~SaveCommit(t)
    PROVE  /\ assign' = assign /\ raced' = raced
           /\ \A u \in Threads, s \in Sessions : (u \in Saving(s))' =>
                u \in Saving(s) /\ tx'[u].old = tx[u].old /\ tx'[u].sel = tx[u].sel
<1>1. CASE UNCHANGED vars
  BY <1>1 DEF vars, Saving, Running
<1>2. CASE NextMonth \/ SetMonthLock
  BY <1>2 DEF NextMonth, SetMonthLock, rows, Saving, Running
<1>3. ASSUME NEW t \in Threads, Handler(t)
      PROVE  /\ assign' = assign /\ raced' = raced
             /\ \A u \in Threads, s \in Sessions : (u \in Saving(s))' =>
                  u \in Saving(s) /\ tx'[u].old = tx[u].old /\ tx'[u].sel = tx[u].sel
  <2>1. assign' = assign /\ raced' = raced
    BY <1>3 DEF Handler, MarkSession, MarkDay, MarkBegin, MarkRead, MarkCommit, SaveReadLocks,
                NotifyBegin, NotifyCommit, Abort, Begin, End, rows
  <2>2. tx'[t].op = "save" => SaveReadLocks(t)
    <3>1. ~SaveBegin(t) /\ ~SaveCommit(t) /\ Idle.op # "save"
      BY DEF Idle
    <3>2. tx'[t] = Idle \/ tx'[t].op \in {"mark", "notify"} \/ SaveReadLocks(t)
      BY <1>3, <3>1, Becomes DEF Handler
    <3> QED
      BY <3>1, <3>2
  <2> QED
    BY <1>3, <2>1, <2>2, OneThread, Becomes DEF Saving, Running
<1> QED
  BY <1>1, <1>2, <1>3 DEF Next

-----------------------------------------------------------------------------
(* Saves of one session mix only if they overlapped: while one save of it  *)
(* is under way, the rows it deletes are the rows there are.               *)

SaveInv ==
    \A s \in Sessions \ raced :
        /\ \E i \in 0..MaxRequests : \A r \in assign[s] : r.by = i
        /\ \A t \in Threads : t \in Saving(s) =>
             /\ tx[t].old[s] = assign[s]
             /\ \A u \in Threads : u \in Saving(s) => u = t

LEMMA InitSaves == Init => SaveInv
  BY CalendarAssumption DEF Init, SaveInv, Saving, Running, Idle

LEMMA StepSaves ==
    ASSUME TypeInv, TypeInv', SaveInv, [Next]_vars
    PROVE  SaveInv'
<1>1. CASE \A t \in Threads : ~SaveBegin(t) /\ ~SaveCommit(t)
  BY <1>1, NotASave DEF SaveInv
<1>2. ASSUME NEW t \in Threads, SaveBegin(t)
      PROVE  SaveInv'
  <2>1. PICK S \in SUBSET Sessions \ {{}} : \E plan \in [S -> Rosters] :
          /\ Begin(t, [op |-> "save", sel |-> S, id |-> served + 1, plan |-> plan,
                       old |-> [s \in S |-> assign[s]],
                       locked |-> FALSE, seen |-> [mo \in Months |-> "unread"]])
          /\ raced' = raced \cup {s \in S : Saving(s) # {}}
    BY <1>2 DEF SaveBegin
  <2>1a. PICK plan \in [S -> Rosters] :
          /\ Begin(t, [op |-> "save", sel |-> S, id |-> served + 1, plan |-> plan,
                       old |-> [s \in S |-> assign[s]],
                       locked |-> FALSE, seen |-> [mo \in Months |-> "unread"]])
          /\ raced' = raced \cup {s \in S : Saving(s) # {}}
    BY <2>1
  <2>2. /\ assign' = assign /\ tx[t].op = "idle"
        /\ tx'[t].op = "save" /\ tx'[t].sel = S /\ tx'[t].old = [s \in S |-> assign[s]]
        /\ \A u \in Threads : u # t => tx'[u] = tx[u]
    BY <2>1a DEF Begin, rows, TypeInv, Running
  <2>3. ASSUME NEW s \in Sessions \ raced'
        PROVE  /\ \E i \in 0..MaxRequests : \A r \in assign'[s] : r.by = i
               /\ \A v \in Threads : (v \in Saving(s))' =>
                    /\ tx'[v].old[s] = assign'[s]
                    /\ \A u \in Threads : (u \in Saving(s))' => u = v
    <3>1. s \notin raced /\ (s \in S => Saving(s) = {})
      BY <2>1a
    <3>2. \A v \in Threads : (v \in Saving(s))' => (v = t /\ s \in S) \/ (v # t /\ v \in Saving(s))
      BY <2>2 DEF Saving, Running
    <3> QED
      BY <2>2, <3>1, <3>2 DEF SaveInv
  <2> QED
    BY <2>3 DEF SaveInv
<1>3. ASSUME NEW t \in Threads, SaveCommit(t)
      PROVE  SaveInv'
  <2>1. /\ tx'[t] = Idle /\ raced' = raced /\ tx[t].op = "save"
        /\ tx[t].id \in 1..MaxRequests /\ tx[t].sel \subseteq Sessions
    BY <1>3, Becomes, SaveCommitTypes DEF SaveCommit, End, SaveTx
  <2>2. \A u \in Threads : u # t => tx'[u] = tx[u]
    BY <1>3, OneThread DEF Handler
  <2>3. ASSUME NEW s \in Sessions \ raced
        PROVE  /\ \E i \in 0..MaxRequests : \A r \in assign'[s] : r.by = i
               /\ \A v \in Threads : (v \in Saving(s))' =>
                    /\ tx'[v].old[s] = assign'[s]
                    /\ \A u \in Threads : (u \in Saving(s))' => u = v
    <3>1. \A v \in Threads : (v \in Saving(s))' => v # t /\ v \in Saving(s)
      BY <2>1, <2>2 DEF Saving, Running, Idle
    <3>2. CASE s \in tx[t].sel
      <4>1. t \in Saving(s) /\ tx[t].old[s] = assign[s]
        BY <2>1, <3>2 DEF Saving, Running, SaveInv
      <4>2. \A v \in Threads : ~(v \in Saving(s))'
        BY <3>1, <4>1 DEF SaveInv
      <4>3. assign'[s] = assign[s] \/ \A r \in assign'[s] : r.by = tx[t].id
        BY <1>3, <3>2, <4>1 DEF SaveCommit, Deleted, Inserted
      <4> QED
        BY <2>1, <4>2, <4>3 DEF SaveInv
    <3>3. CASE s \notin tx[t].sel
      <4>1. assign'[s] = assign[s]
        BY <1>3, <3>3 DEF SaveCommit
      <4> QED
        BY <2>2, <3>1, <4>1 DEF SaveInv
    <3> QED
      BY <3>2, <3>3
  <2> QED
    BY <2>1, <2>3 DEF SaveInv
<1> QED
  BY <1>1, <1>2, <1>3

(* A session's assignments stem from one save unless two saves of it       *)
(* overlapped (save_schedule).                                             *)
THEOREM SavesDoNotMix == Spec => []MixedOnlyIfRaced
<1>1. SaveInv => MixedOnlyIfRaced
  <2> SUFFICES ASSUME SaveInv, NEW s \in Sessions, s \notin raced
               PROVE  ~\E p, q \in assign[s] : p.by # q.by
    BY DEF MixedOnlyIfRaced
  <2>1. PICK i \in 0..MaxRequests : \A r \in assign[s] : r.by = i
    BY DEF SaveInv
  <2> QED
    BY <2>1
<1> QED
  BY <1>1, InitTypes, StepTypes, InitSaves, StepSaves, PTL DEF Spec

-----------------------------------------------------------------------------
(* Locks: who opens a month, and what a save knows of it.                  *)

LEMMA Unlocks ==
    ASSUME TypeInv, [Next]_vars, NEW mo \in Months
    PROVE  /\ opened \subseteq opened'
           /\ lock[mo] = "locked" /\ lock'[mo] # "locked" => tx' = tx /\ mo \in opened'
<1> USE DEF TypeInv
<1>1. CASE UNCHANGED vars
  BY <1>1 DEF vars
<1>2. CASE NextMonth
  BY <1>2 DEF NextMonth, rows
<1>3. CASE SetMonthLock
  BY <1>3 DEF SetMonthLock
<1>4. ASSUME NEW t \in Threads, SaveCommit(t)
      PROVE  opened' = opened /\ (lock[mo] = "locked" => lock'[mo] = "locked")
  BY <1>4 DEF SaveCommit, End, NewLock
<1>5. ASSUME NEW t \in Threads, NotifyCommit(t)
      PROVE  opened' = opened /\ (lock[mo] = "locked" => lock'[mo] = "locked")
  <2>1. tx[t].month \in Months
    BY <1>5, Ops DEF NotifyCommit, Running, NotifyTx
  <2> QED
    BY <1>5, <2>1 DEF NotifyCommit, End
<1>6. ASSUME NEW t \in Threads, Handler(t), ~SaveCommit(t), ~NotifyCommit(t)
      PROVE  opened' = opened /\ lock' = lock
  BY <1>6 DEF Handler, MarkSession, MarkDay, MarkBegin, MarkRead, MarkCommit, SaveBegin,
              SaveReadLocks, NotifyBegin, Abort, Begin, End, rows
<1> QED
  BY <1>1, <1>2, <1>3, <1>4, <1>5, <1>6 DEF Next

(* No save and no announcement opens a locked month, whatever it had read  *)
(* of the month's row (save_schedule, notify_schedule).                    *)
THEOREM NobodyElseUnlocks == Spec => OnlyAdminUnlocks
<1>1. TypeInv /\ [Next]_vars =>
        [\A mo \in Months : (lock[mo] = "locked" /\ lock'[mo] # "locked") => tx' = tx]_vars
  BY Unlocks
<1> QED
  BY <1>1, InitTypes, StepTypes, PTL DEF Spec, OnlyAdminUnlocks

LockedOrOpened(mo) == lock[mo] = "locked" \/ mo \in opened

LockInv ==
    /\ \A s \in Sessions : assign[s] # {} => LockedOrOpened(LocalMonth(s))
    /\ \A t \in Threads, mo \in Months :
         (Running(t, "save") /\ tx[t].locked /\ mo \in SaveMonths(t)) =>
            /\ tx[t].seen[mo] \in LockRows
            /\ tx[t].seen[mo] = "locked" => LockedOrOpened(mo)

LEMMA InitLocks == Init => LockInv
  BY DEF Init, LockInv, Running, Idle

LEMMA KeepsLocked ==
    ASSUME TypeInv, [Next]_vars, NEW mo \in Months, LockedOrOpened(mo)
    PROVE  LockedOrOpened(mo)'
  BY Unlocks DEF LockedOrOpened

LEMMA StepLocks ==
    ASSUME TypeInv, LockInv, [Next]_vars
    PROVE  LockInv'
<1>1. ASSUME NEW u \in Threads, tx'[u] = tx[u] \/ tx'[u].op # "save", NEW mo \in Months,
             (Running(u, "save") /\ tx[u].locked /\ mo \in SaveMonths(u))'
      PROVE  tx'[u].seen[mo] \in LockRows /\ (tx'[u].seen[mo] = "locked" => LockedOrOpened(mo)')
  <2>1. tx'[u] = tx[u] /\ Running(u, "save") /\ tx[u].locked /\ mo \in SaveMonths(u)
    BY <1>1 DEF Running, SaveMonths
  <2> QED
    BY <2>1, KeepsLocked DEF LockInv
<1>2. ASSUME assign' = assign, \A u \in Threads : tx'[u] = tx[u] \/ tx'[u].op # "save"
      PROVE  LockInv'
  <2>1. \A s \in Sessions : assign[s] # {} => LockedOrOpened(LocalMonth(s))'
    BY KeepsLocked, DatesAreKeys DEF LockInv
  <2>2. \A s \in Sessions : assign'[s] # {} => LockedOrOpened(LocalMonth(s))'
    BY <1>2, <2>1
  <2> QED
    BY <1>1, <1>2, <2>2, Zenon DEF LockInv, LocalMonth, LockedOrOpened
<1>3. CASE UNCHANGED vars \/ NextMonth \/ SetMonthLock
  <2>1. assign' = assign /\ tx' = tx
    BY <1>3 DEF vars, NextMonth, SetMonthLock, rows
  <2> QED
    BY <1>2, <2>1
<1>4. ASSUME NEW t \in Threads, SaveBegin(t)
      PROVE  LockInv'
  <2>1. assign' = assign /\ tx'[t].op = "save" /\ tx'[t].locked = FALSE
    BY <1>4 DEF SaveBegin, Begin, rows, TypeInv
  <2>2. \A s \in Sessions : assign[s] # {} => LockedOrOpened(LocalMonth(s))'
    BY KeepsLocked, DatesAreKeys DEF LockInv
  <2>3. \A u \in Threads : u # t => tx'[u] = tx[u]
    BY <1>4, OneThread DEF Handler
  <2> QED
    BY <1>1, <2>1, <2>2, <2>3 DEF LockInv, LocalMonth, LockedOrOpened
<1>5. ASSUME NEW t \in Threads, SaveReadLocks(t)
      PROVE  LockInv'
  <2>1. /\ assign' = assign /\ lock' = lock /\ opened' = opened
        /\ tx'[t].sel = tx[t].sel
        /\ tx'[t].seen = [mo \in Months |-> IF mo \in SaveMonths(t) THEN lock[mo] ELSE "unread"]
    BY <1>5, Becomes DEF SaveReadLocks, rows
  <2>2. \A s \in Sessions : assign'[s] # {} => LockedOrOpened(LocalMonth(s))'
    BY <2>1 DEF LockInv, LockedOrOpened, LocalMonth
  <2>3. \A mo \in Months : mo \in SaveMonths(t)' =>
            /\ tx'[t].seen[mo] \in LockRows
            /\ tx'[t].seen[mo] = "locked" => LockedOrOpened(mo)'
    BY <2>1 DEF SaveMonths, TypeInv, LockedOrOpened, LocalMonth
  <2>4. \A u \in Threads : u # t => tx'[u] = tx[u]
    BY <1>5, OneThread DEF Handler
  <2> QED
    BY <1>1, <2>2, <2>3, <2>4 DEF LockInv, LocalMonth, LockedOrOpened
<1>6. ASSUME NEW t \in Threads, SaveCommit(t)
      PROVE  LockInv'
  <2>1. tx'[t] = Idle /\ Idle.op # "save" /\ \A u \in Threads : u # t => tx'[u] = tx[u]
    BY <1>6, OneThread, Becomes DEF Handler, Idle
  <2>2. CASE assign' = assign
    BY <1>2, <2>1, <2>2
  <2>3. CASE assign' # assign
    <3>1. /\ \A mo \in Months : ~(tx[t].seen[mo] = "none" /\ lock[mo] # "none")
          /\ lock' = [mo \in Months |-> NewLock(t, mo)]
          /\ assign' = [s \in Sessions |->
                 IF s \in tx[t].sel THEN (assign[s] \ Deleted(t, s)) \cup Inserted(t, s)
                                    ELSE assign[s]]
          /\ Running(t, "save") /\ tx[t].locked
      BY <1>6, <2>3 DEF SaveCommit
    <3>2. ASSUME NEW s \in Sessions, assign'[s] # {}
          PROVE  LockedOrOpened(LocalMonth(s))'
      <4>1. CASE s \in tx[t].sel
        <5> DEFINE mo == LocalMonth(s)
        <5>1. mo \in Months /\ mo \in SaveMonths(t)
          BY <4>1, DatesAreKeys DEF SaveMonths
        <5>2. tx[t].seen[mo] \in LockRows /\ (tx[t].seen[mo] = "locked" => LockedOrOpened(mo))
          BY <3>1, <5>1 DEF LockInv
        <5>3. CASE tx[t].seen[mo] = "locked"
          BY <5>1, <5>2, <5>3, KeepsLocked DEF LockedOrOpened, LocalMonth
        <5>4. CASE tx[t].seen[mo] # "locked"
          <6>1. lock'[mo] = "locked"
            BY <3>1, <5>1, <5>2, <5>4 DEF NewLock, LockRows
          <6> QED
            BY <6>1 DEF LockedOrOpened, LocalMonth
        <5> QED
          BY <5>3, <5>4
      <4>2. CASE s \notin tx[t].sel
        <5>1. assign[s] # {}
          BY <3>1, <3>2, <4>2
        <5> QED
          BY <5>1, KeepsLocked, DatesAreKeys DEF LockInv, LockedOrOpened, LocalMonth
      <4> QED
        BY <4>1, <4>2
    <3> QED
      BY <1>1, <2>1, <3>2 DEF LockInv
  <2> QED
    BY <2>2, <2>3
<1>7. ASSUME NEW t \in Threads, Handler(t), ~SaveBegin(t), ~SaveReadLocks(t), ~SaveCommit(t)
      PROVE  LockInv'
  <2>1. assign' = assign
    BY <1>7 DEF Handler, MarkSession, MarkDay, MarkBegin, MarkRead, MarkCommit,
                NotifyBegin, NotifyCommit, Abort, Begin, End, rows
  <2>2. tx'[t] = Idle \/ tx'[t].op \in {"mark", "notify"}
    BY <1>7, Becomes DEF Handler
  <2>3. \A u \in Threads : tx'[u] = tx[u] \/ tx'[u].op # "save"
    BY <1>7, <2>2, OneThread DEF Idle
  <2> QED
    BY <1>2, <2>1, <2>3
<1> QED
  BY <1>3, <1>4, <1>5, <1>6, <1>7 DEF Next, Handler

(* A saved schedule's month is locked unless the administrator opened it,  *)
(* and what the automatic schedule may have drawn of it is on the page, in *)
(* the exports, in the feed and in the announcement (save_schedule and the *)
(* reads of calendar.py, each with its own filters).                       *)
THEOREM SavedSchedulesAreLocked == Spec => []SavedIsShownLocked
<1>1. TypeInv /\ LockInv => SavedIsShownLocked
  <2> SUFFICES ASSUME TypeInv, LockInv, NEW s \in Sessions, NEW r \in assign[s]
               PROVE  LET here == UtcMonth(s)
                      IN  /\ lock[LocalMonth(s)] = "locked" \/ LocalMonth(s) \in opened
                          /\ LocalMonth(s) = here => MonthSchedule(here).locked \/ here \in opened
                          /\ <<r.who, r.role>> \in Drawable(s) =>
                               /\ r \in MonthSchedule(here).rows[s] \cap Feed(r.who, here)[s]
                               /\ r \in CsvSchedule(here)[s] \cap PdfSchedule(here)[s]
                               /\ r.who \in WithEmail => r \in Announcement(here)[r.who][s]
    BY DEF SavedIsShownLocked
  <2> DEFINE here == UtcMonth(s)
  <2>1. LockedOrOpened(LocalMonth(s))
    BY DEF LockInv
  <2>2. s \in MonthSessions(here)
    BY DEF MonthSessions
  <2>3. MonthSchedule(here).locked = IsMonthLocked(here)
    BY DEF MonthSchedule
  <2>4. ASSUME <<r.who, r.role>> \in Drawable(s)
        PROVE  /\ r \in MonthSchedule(here).rows[s] \cap Feed(r.who, here)[s]
               /\ r \in CsvSchedule(here)[s] \cap PdfSchedule(here)[s]
               /\ r.who \in WithEmail => r \in Announcement(here)[r.who][s]
    <3>1. /\ s \in Upcoming \ Rehearsals /\ r.who \in Active /\ r.role \in Assignable
          /\ r.role \in RolesOf[r.who]
      BY <2>4 DEF Drawable
    <3>2. r.who \in Team
      BY <3>1 DEF Team
    <3>3. s \in Exported(here)
      BY <2>2, <3>1 DEF Exported
    <3>4. r \in OwnRows(r.who, here)[s]
      BY <2>2, <3>1 DEF OwnRows
    <3>5. r.who \in WithEmail => r \in Announcement(here)[r.who][s]
      BY <3>2, <3>4 DEF Announcement
    <3> QED
      BY <2>2, <3>1, <3>3, <3>4, <3>5 DEF MonthSchedule, Feed, CsvSchedule, PdfSchedule
  <2> QED
    BY <2>1, <2>3, <2>4 DEF LockedOrOpened, IsMonthLocked
<1> QED
  BY <1>1, InitTypes, StepTypes, InitLocks, StepLocks, PTL DEF Spec

-----------------------------------------------------------------------------
(* Marks. A marking request covers a day together with its plain sessions, *)
(* from the first read to the commit.                                      *)

Covers(r, x) == r.seen[x] # "unread" \/ \E i \in DOMAIN r.todo : x \in r.todo[i]
Civil(x)     == x \in Sessions => Plain(x)

Closed(r) ==
    /\ \A s \in Sessions : Plain(s) => (Covers(r, s) <=> Covers(r, LocalDay[s]))
    /\ \A x \in Keys : (Covers(r, x) /\ Civil(x) /\ Civil(r.key)) =>
                          MonthOfKey(x) = MonthOfKey(r.key)

LEMMA ThreeSets ==
    ASSUME NEW A, NEW B, NEW C, NEW x
    PROVE  (\E i \in DOMAIN <<A, B, C>> : x \in <<A, B, C>>[i]) <=> x \in A \/ x \in B \/ x \in C
<1>1. DOMAIN <<A, B, C>> = 1..3
  OBVIOUS
<1>2. <<A, B, C>>[1] = A /\ <<A, B, C>>[2] = B /\ <<A, B, C>>[3] = C
  OBVIOUS
<1>3. \A i \in 1..3 : i = 1 \/ i = 2 \/ i = 3
  OBVIOUS
<1> QED
  BY <1>1, <1>2, <1>3

LEMMA TwoSets ==
    ASSUME NEW A, NEW B, NEW x
    PROVE  (\E i \in DOMAIN <<A, B>> : x \in <<A, B>>[i]) <=> x \in A \/ x \in B
<1>1. DOMAIN <<A, B>> = 1..2
  OBVIOUS
<1>2. <<A, B>>[1] = A /\ <<A, B>>[2] = B
  OBVIOUS
<1>3. \A i \in 1..2 : i = 1 \/ i = 2
  OBVIOUS
<1> QED
  BY <1>1, <1>2, <1>3

LEMMA HeadAndTail ==
    ASSUME NEW T, NEW q \in Seq(T), q # <<>>, NEW x
    PROVE  (\E i \in DOMAIN q : x \in q[i])
              <=> x \in Head(q) \/ \E i \in DOMAIN Tail(q) : x \in Tail(q)[i]
<1>1. /\ DOMAIN q = 1..Len(q) /\ Len(q) \in Nat /\ Len(q) > 0
      /\ DOMAIN Tail(q) = 1..(Len(q) - 1)
      /\ Head(q) = q[1] /\ \A i \in 1..(Len(q) - 1) : Tail(q)[i] = q[i + 1]
  OBVIOUS
<1>2. ASSUME NEW i \in DOMAIN q, x \in q[i]
      PROVE  x \in Head(q) \/ \E j \in DOMAIN Tail(q) : x \in Tail(q)[j]
  <2>1. CASE i = 1
    BY <1>1, <1>2, <2>1
  <2>2. CASE i # 1
    <3>1. i - 1 \in DOMAIN Tail(q) /\ Tail(q)[i - 1] = q[i]
      BY <1>1, <2>2
    <3> QED
      BY <1>2, <3>1
  <2> QED
    BY <2>1, <2>2
<1>3. ASSUME x \in Head(q)
      PROVE  \E i \in DOMAIN q : x \in q[i]
  BY <1>1, <1>3
<1>4. ASSUME NEW j \in DOMAIN Tail(q), x \in Tail(q)[j]
      PROVE  \E i \in DOMAIN q : x \in q[i]
  <2>1. j + 1 \in DOMAIN q /\ x \in q[j + 1]
    BY <1>1, <1>4
  <2> QED
    BY <2>1
<1> QED
  BY <1>2, <1>3, <1>4

(* What a request that has just passed the lock check is.                  *)
LEMMA Started ==
    ASSUME TypeInv, NEW t \in Threads, MarkSession(t) \/ MarkDay(t)
    PROVE  /\ tx'[t].op = "mark" /\ tx'[t].key \in Keys /\ tx'[t].who \in Members
           /\ tx'[t].seen = [k \in Keys |-> "unread"]
           /\ Closed(tx'[t])
           /\ Civil(tx'[t].key) => ~IsMonthLocked(MonthOfKey(tx'[t].key))
           /\ inflight' = [mo \in Months |-> inflight[mo] \ {t}]
           /\ clashed' = IF \E u \in Marking : tx[u].who = tx'[t].who
                         THEN clashed \cup {tx'[t].who} ELSE clashed
           /\ UNCHANGED <<mark, lock, thisMonth>>
<1> DEFINE Rec(m, v, key, todo) == [op |-> "mark", who |-> m, val |-> v, key |-> key,
                                    todo |-> todo, seen |-> [k \in Keys |-> "unread"]]
<1>1. ASSUME NEW m \in Members, NEW v \in Values, NEW key \in Keys, NEW month, NEW todo,
             MarkBegin(t, m, v, key, month, todo)
      PROVE  /\ tx'[t] = Rec(m, v, key, todo)
             /\ ~IsMonthLocked(month)
             /\ inflight' = [mo \in Months |-> inflight[mo] \ {t}]
             /\ clashed' = IF \E u \in Marking : tx[u].who = m THEN clashed \cup {m} ELSE clashed
             /\ UNCHANGED <<mark, lock, thisMonth>>
  BY <1>1 DEF MarkBegin, Begin, TypeInv, rows
<1>2. CASE MarkSession(t)
  <2> DEFINE C(s) == {o \in Sessions \ {s} : LocalDay[o] = LocalDay[s]
                                             /\ UtcMonth(o) = MonthOf[LocalDay[s]]}
  <2>1. PICK m \in Markers, v \in Values, s \in Sessions :
          MarkBegin(t, m, v, s, UtcMonth(s), <<{s}, {LocalDay[s]}, C(s)>>)
    BY <1>2 DEF MarkSession
  <2>0. m \in Members
    BY CalendarAssumption
  <2> DEFINE r == Rec(m, v, s, <<{s}, {LocalDay[s]}, C(s)>>)
  <2>2. tx'[t] = r /\ ~IsMonthLocked(UtcMonth(s)) /\ s \in Keys
    <3>1. s \in Keys
      BY DatesAreKeys
    <3> DEFINE todo == <<{s}, {LocalDay[s]}, C(s)>>
    <3>2. MarkBegin(t, m, v, s, UtcMonth(s), todo)
      BY <2>1
    <3> HIDE DEF todo
    <3>3. tx'[t] = Rec(m, v, s, todo) /\ ~IsMonthLocked(UtcMonth(s))
      BY <1>1, <2>0, <3>1, <3>2
    <3> USE DEF todo
    <3> QED
      BY <3>1, <3>3
  <2>3. \A x \in Keys : Covers(r, x) <=> x = s \/ x = LocalDay[s] \/ x \in C(s)
    <3>1. \A x \in Keys : r.seen[x] = "unread"
      OBVIOUS
    <3>2. r.todo = <<{s}, {LocalDay[s]}, C(s)>>
      OBVIOUS
    <3> HIDE DEF r, C
    <3> QED
      BY <3>1, <3>2, ThreeSets DEF Covers
  <2>4. Closed(r)
    <3>1. ASSUME NEW o \in Sessions, Plain(o)
          PROVE  Covers(r, o) <=> Covers(r, LocalDay[o])
      <4>1. o \in Keys /\ LocalDay[o] \in Keys /\ LocalDay[o] \in Days /\ LocalDay[s] \in Days
        BY DatesAreKeys
      <4>2. LocalDay[o] # s /\ LocalDay[o] \notin C(s) /\ o # LocalDay[s]
        BY <4>1, CalendarAssumption
      <4>3. Covers(r, LocalDay[o]) <=> LocalDay[o] = LocalDay[s]
        BY <2>3, <4>1, <4>2
      <4>4. Covers(r, o) <=> LocalDay[o] = LocalDay[s]
        BY <2>3, <3>1, <4>1, <4>2 DEF Plain, UtcMonth
      <4> QED
        BY <4>3, <4>4
    <3>2. ASSUME NEW x \in Keys, Covers(r, x), Civil(x), Civil(s)
          PROVE  MonthOfKey(x) = MonthOfKey(s)
      <4>1. MonthOfKey(s) = MonthOf[LocalDay[s]] /\ s \notin Days /\ LocalDay[s] \in Days
        BY CalendarAssumption, DatesAreKeys DEF MonthOfKey, LocalMonth
      <4>2. CASE x \in Days
        BY <2>3, <3>2, <4>1, <4>2, CalendarAssumption DEF MonthOfKey
      <4>3. CASE x \in Sessions
        BY <2>3, <3>2, <4>1, <4>3, CalendarAssumption DEF MonthOfKey, LocalMonth
      <4> QED
        BY <4>2, <4>3 DEF Keys
    <3>3. r.key = s
      OBVIOUS
    <3> HIDE DEF r
    <3> QED
      BY <3>1, <3>2, <3>3 DEF Closed
  <2>5. Civil(s) => ~IsMonthLocked(MonthOfKey(s))
    BY <2>2, CalendarAssumption DEF Civil, Plain, UtcMonth, MonthOfKey, LocalMonth
  <2>6. /\ inflight' = [mo \in Months |-> inflight[mo] \ {t}]
        /\ clashed' = IF \E u \in Marking : tx[u].who = m THEN clashed \cup {m} ELSE clashed
        /\ UNCHANGED <<mark, lock, thisMonth>>
    BY <2>1 DEF MarkBegin, Begin, rows
  <2>7. r.op = "mark" /\ r.key = s /\ r.who = m /\ r.seen = [k \in Keys |-> "unread"]
    OBVIOUS
  <2> HIDE DEF r
  <2> QED
    BY <2>0, <2>2, <2>4, <2>5, <2>6, <2>7
<1>3. CASE MarkDay(t)
  <2> DEFINE C(d) == {s \in Sessions : UtcDay[s] = d}
  <2>1. PICK m \in Markers, v \in Values, d \in Days :
          MarkBegin(t, m, v, d, MonthOf[d], <<{d}, C(d)>>)
    BY <1>3 DEF MarkDay
  <2>0. m \in Members
    BY CalendarAssumption
  <2> DEFINE r == Rec(m, v, d, <<{d}, C(d)>>)
  <2>2. d \in Keys
    BY DEF Keys
  <2>3. tx'[t] = r /\ ~IsMonthLocked(MonthOf[d])
    BY <1>1, <2>0, <2>1, <2>2
  <2>4. \A x \in Keys : Covers(r, x) <=> x = d \/ x \in C(d)
    <3>1. \A x \in Keys : r.seen[x] = "unread"
      OBVIOUS
    <3>2. r.todo = <<{d}, C(d)>>
      OBVIOUS
    <3> HIDE DEF r, C
    <3> QED
      BY <3>1, <3>2, TwoSets DEF Covers
  <2>5. Closed(r)
    <3>1. ASSUME NEW o \in Sessions, Plain(o)
          PROVE  Covers(r, o) <=> Covers(r, LocalDay[o])
      <4>1. o \in Keys /\ LocalDay[o] \in Keys /\ LocalDay[o] \in Days
        BY DatesAreKeys
      <4>2. LocalDay[o] \notin C(d) /\ o # d
        BY <4>1, CalendarAssumption
      <4> QED
        BY <2>4, <3>1, <4>1, <4>2 DEF Plain
    <3>2. ASSUME NEW x \in Keys, Covers(r, x), Civil(x)
          PROVE  MonthOfKey(x) = MonthOfKey(d)
      <4>1. CASE x \in Days
        BY <2>4, <3>2, <4>1, CalendarAssumption DEF MonthOfKey
      <4>2. CASE x \in Sessions
        BY <2>4, <3>2, <4>2, CalendarAssumption DEF MonthOfKey, LocalMonth, Civil, Plain
      <4> QED
        BY <4>1, <4>2 DEF Keys
    <3>3. r.key = d
      OBVIOUS
    <3> HIDE DEF r
    <3> QED
      BY <3>1, <3>2, <3>3 DEF Closed
  <2>6. ~IsMonthLocked(MonthOfKey(d))
    BY <2>3 DEF MonthOfKey
  <2>7. /\ inflight' = [mo \in Months |-> inflight[mo] \ {t}]
        /\ clashed' = IF \E u \in Marking : tx[u].who = m THEN clashed \cup {m} ELSE clashed
        /\ UNCHANGED <<mark, lock, thisMonth>>
    BY <2>1 DEF MarkBegin, Begin, rows
  <2>8. r.op = "mark" /\ r.key = d /\ r.who = m /\ r.seen = [k \in Keys |-> "unread"]
    OBVIOUS
  <2> HIDE DEF r
  <2> QED
    BY <2>0, <2>2, <2>3, <2>5, <2>6, <2>7, <2>8
<1> QED
  BY <1>2, <1>3

(* What one read does to it.                                               *)
LEMMA ReadOn ==
    ASSUME TypeInv, NEW t \in Threads, MarkRead(t)
    PROVE  /\ tx'[t].who = tx[t].who /\ tx'[t].key = tx[t].key /\ tx'[t].val = tx[t].val
           /\ \A x \in Keys : tx'[t].seen[x] \in {tx[t].seen[x], mark[tx[t].who][x]}
           /\ \A x \in Keys : Covers(tx'[t], x) <=> Covers(tx[t], x)
           /\ UNCHANGED <<mark, lock, thisMonth, inflight, clashed>>
<1>1. tx[t] \in MarkTx /\ tx[t].todo \in Seq(SUBSET Keys) /\ tx[t].todo # <<>>
  BY MarkReadTypes DEF MarkRead, MarkTx
<1>2. /\ tx'[t].who = tx[t].who /\ tx'[t].key = tx[t].key /\ tx'[t].val = tx[t].val
      /\ tx'[t].todo = Tail(tx[t].todo)
      /\ tx'[t].seen = [x \in Keys |-> IF x \in Head(tx[t].todo) THEN mark[tx[t].who][x]
                                       ELSE tx[t].seen[x]]
  BY <1>1 DEF MarkRead, MarkTx, TypeInv
<1>3. ASSUME NEW x \in Keys
      PROVE  Covers(tx'[t], x) <=> Covers(tx[t], x)
  <2>1. mark[tx[t].who][x] # "unread"
    BY <1>1 DEF TypeInv, MarkTx, Values
  <2>2. tx'[t].seen[x] # "unread" <=> x \in Head(tx[t].todo) \/ tx[t].seen[x] # "unread"
    BY <1>2, <2>1
  <2>3. (\E i \in DOMAIN tx[t].todo : x \in tx[t].todo[i])
           <=> x \in Head(tx[t].todo) \/ \E i \in DOMAIN tx'[t].todo : x \in tx'[t].todo[i]
    BY <1>1, <1>2, HeadAndTail
  <2> QED
    BY <2>2, <2>3 DEF Covers
<1>4. UNCHANGED <<mark, lock, thisMonth, inflight, clashed>>
  BY DEF MarkRead, rows
<1> QED
  BY <1>2, <1>3, <1>4

(* Which steps move a marking thread or a mark.                            *)
LEMMA OnlyMarks ==
    ASSUME TypeInv, [Next]_vars, NEW u \in Threads, tx'[u].op = "mark"
    PROVE  tx'[u] = tx[u] \/ MarkSession(u) \/ MarkDay(u) \/ MarkRead(u)
<1>1. CASE UNCHANGED vars \/ NextMonth \/ SetMonthLock
  BY <1>1 DEF vars, NextMonth, SetMonthLock, rows
<1>2. ASSUME NEW t \in Threads, Handler(t), t # u
      PROVE  tx'[u] = tx[u]
  BY <1>2, OneThread
<1>3. ASSUME Handler(u), ~MarkSession(u), ~MarkDay(u), ~MarkRead(u)
      PROVE  FALSE
  <2>1. Idle.op # "mark"
    BY DEF Idle
  <2>2. ~SaveBegin(u)
    BY DEF SaveBegin, Begin, TypeInv
  <2> QED
    BY <1>3, <2>1, <2>2, Becomes DEF Handler
<1> QED
  BY <1>1, <1>2, <1>3 DEF Next

LEMMA MarksKept ==
    ASSUME TypeInv, [Next]_vars
    PROVE  /\ clashed \subseteq clashed'
           /\ mark' = mark \/ \E t \in Threads : MarkCommit(t)
<1>1. CASE UNCHANGED vars \/ NextMonth \/ SetMonthLock
  BY <1>1 DEF vars, NextMonth, SetMonthLock, rows
<1>2. ASSUME NEW t \in Threads, Handler(t)
      PROVE  clashed \subseteq clashed' /\ (mark' = mark \/ MarkCommit(t))
  <2>1. CASE MarkSession(t) \/ MarkDay(t)
    BY <2>1, Started
  <2>2. CASE ~(MarkSession(t) \/ MarkDay(t))
    BY <1>2, <2>2 DEF Handler, MarkRead, MarkCommit, SaveBegin, SaveReadLocks, SaveCommit,
                NotifyBegin, NotifyCommit, Abort, Begin, End, rows
  <2> QED
    BY <2>1, <2>2
<1> QED
  BY <1>1, <1>2 DEF Next

(* Locking a month leaves every request under way on record.               *)
LEMMA OnRecord ==
    ASSUME TypeInv, [Next]_vars, NEW u \in Threads, Running(u, "mark"), NEW mo \in Months
    PROVE  /\ u \in inflight[mo] => u \in inflight'[mo]
           /\ IsMonthLocked(mo)' /\ ~IsMonthLocked(mo) => u \in inflight'[mo]
<1>0. u \in Marking /\ Months \subseteq Int
  BY CalendarAssumption DEF Marking
<1>1. ASSUME NEW S, Locks(S), IsMonthLocked(mo)' /\ ~IsMonthLocked(mo) => mo \in S
      PROVE  /\ u \in inflight[mo] => u \in inflight'[mo]
             /\ IsMonthLocked(mo)' /\ ~IsMonthLocked(mo) => u \in inflight'[mo]
  BY <1>0, <1>1 DEF Locks
<1>2. ASSUME inflight' = inflight, thisMonth' = thisMonth, lock'[mo] = "locked" => lock[mo] = "locked"
      PROVE  /\ u \in inflight[mo] => u \in inflight'[mo]
             /\ ~(IsMonthLocked(mo)' /\ ~IsMonthLocked(mo))
  BY <1>2 DEF IsMonthLocked
<1>3. CASE UNCHANGED vars
  BY <1>2, <1>3 DEF vars
<1>4. CASE NextMonth
  <2>1. IsMonthLocked(mo)' /\ ~IsMonthLocked(mo) => mo \in {thisMonth}
    BY <1>0, <1>4 DEF NextMonth, IsMonthLocked, rows, TypeInv
  <2> QED
    BY <1>1, <1>4, <2>1 DEF NextMonth
<1>5. CASE SetMonthLock
  <2>1. PICK lo \in Months, v \in {"open", "locked"} :
          lock' = [lock EXCEPT ![lo] = v] /\ Locks(IF v = "locked" THEN {lo} ELSE {})
    BY <1>5 DEF SetMonthLock
  <2>2. IsMonthLocked(mo)' /\ ~IsMonthLocked(mo) => mo \in (IF v = "locked" THEN {lo} ELSE {})
    BY <1>5, <2>1 DEF SetMonthLock, IsMonthLocked, TypeInv
  <2> QED
    BY <1>1, <2>1, <2>2
<1>6. ASSUME NEW t \in Threads, MarkSession(t) \/ MarkDay(t)
      PROVE  /\ u \in inflight[mo] => u \in inflight'[mo]
             /\ ~(IsMonthLocked(mo)' /\ ~IsMonthLocked(mo))
  <2>0. tx[t] = Idle
    BY <1>6, Becomes
  <2>1. u # t
    BY <2>0 DEF Running, Idle
  <2> QED
    BY <1>6, <2>1, Started DEF IsMonthLocked, TypeInv
<1>7. ASSUME NEW t \in Threads, SaveCommit(t)
      PROVE  /\ u \in inflight[mo] => u \in inflight'[mo]
             /\ IsMonthLocked(mo)' /\ ~IsMonthLocked(mo) => u \in inflight'[mo]
  <2>1. thisMonth' = thisMonth
    BY <1>7 DEF SaveCommit, End
  <2>2. CASE lock' = lock /\ inflight' = inflight
    BY <1>2, <2>1, <2>2
  <2>3. CASE ~(lock' = lock /\ inflight' = inflight)
    <3> DEFINE S == {lo \in Months : lock[lo] # "locked" /\ NewLock(t, lo) = "locked"}
    <3>1. lock' = [lo \in Months |-> NewLock(t, lo)] /\ Locks(S)
      BY <1>7, <2>3 DEF SaveCommit
    <3>2. IsMonthLocked(mo)' /\ ~IsMonthLocked(mo) => mo \in S
      BY <2>1, <3>1 DEF IsMonthLocked
    <3> HIDE DEF S
    <3> QED
      BY <1>1, <3>1, <3>2
  <2> QED
    BY <2>2, <2>3
<1>8. ASSUME NEW t \in Threads, NotifyCommit(t)
      PROVE  /\ u \in inflight[mo] => u \in inflight'[mo]
             /\ ~(IsMonthLocked(mo)' /\ ~IsMonthLocked(mo))
  <2>1. lock'[mo] = "locked" => lock[mo] = "locked"
    BY <1>8 DEF NotifyCommit, TypeInv
  <2> QED
    BY <1>2, <1>8, <2>1 DEF NotifyCommit, End
<1>9. ASSUME NEW t \in Threads, Handler(t), ~MarkSession(t), ~MarkDay(t), ~SaveCommit(t),
             ~NotifyCommit(t)
      PROVE  /\ u \in inflight[mo] => u \in inflight'[mo]
             /\ ~(IsMonthLocked(mo)' /\ ~IsMonthLocked(mo))
  <2>1. inflight' = inflight /\ thisMonth' = thisMonth /\ lock' = lock
    BY <1>9 DEF Handler, MarkRead, MarkCommit, SaveBegin, SaveReadLocks, NotifyBegin, Abort,
                Begin, End, rows
  <2> QED
    BY <1>2, <2>1
<1> QED
  BY <1>3, <1>4, <1>5, <1>6, <1>7, <1>8, <1>9 DEF Next

CoverInv == \A t \in Threads : Running(t, "mark") => Closed(tx[t])

LateInv ==
    \A t \in Threads : (Running(t, "mark") /\ Civil(tx[t].key)) =>
        LET mo == MonthOfKey(tx[t].key) IN IsMonthLocked(mo) => t \in inflight[mo]

FreshInv ==
    \A t \in Threads : (Running(t, "mark") /\ tx[t].who \notin clashed) =>
        /\ \A x \in Keys : tx[t].seen[x] # "unread" => tx[t].seen[x] = mark[tx[t].who][x]
        /\ \A u \in Threads : (Running(u, "mark") /\ tx[u].who = tx[t].who) => u = t

LEMMA InitMarks == Init => CoverInv /\ LateInv /\ FreshInv /\ DayAndSessionsAgree
<1> SUFFICES ASSUME Init
             PROVE  CoverInv /\ LateInv /\ FreshInv /\ DayAndSessionsAgree
  OBVIOUS
<1>1. \A t \in Threads : ~Running(t, "mark")
  BY DEF Init, Running, Idle
<1>2. DayAndSessionsAgree
  BY DatesAreKeys DEF Init, DayAndSessionsAgree
<1> QED
  BY <1>1, <1>2 DEF CoverInv, LateInv, FreshInv

LEMMA StepCover ==
    ASSUME TypeInv, CoverInv, [Next]_vars
    PROVE  CoverInv'
<1> SUFFICES ASSUME NEW u \in Threads, tx'[u].op = "mark"
             PROVE  Closed(tx'[u])
  BY DEF CoverInv, Closed, Covers, Running, Plain, Civil, MonthOfKey, LocalMonth
<1>1. CASE tx'[u] = tx[u]
  BY <1>1 DEF CoverInv, Running
<1>2. CASE MarkSession(u) \/ MarkDay(u)
  BY <1>2, Started
<1>3. CASE MarkRead(u)
  <2>1. Closed(tx[u])
    BY <1>3 DEF CoverInv, MarkRead
  <2> QED
    BY <1>3, <2>1, ReadOn, DatesAreKeys DEF Closed
<1> QED
  BY <1>1, <1>2, <1>3, OnlyMarks

LEMMA KeyMonths ==
    ASSUME NEW x \in Keys
    PROVE  MonthOfKey(x) \in Months
  BY CalendarAssumption, DatesAreKeys DEF MonthOfKey, Keys

LEMMA StepLate ==
    ASSUME TypeInv, TypeInv', LateInv, [Next]_vars
    PROVE  LateInv'
<1>0. ASSUME NEW u \in Threads, tx'[u].op = "mark"
      PROVE  tx'[u].key \in Keys /\ MonthOfKey(tx'[u].key) \in Months
  <2>1. tx'[u] \in Tx
    BY DEF TypeInv
  <2>2. tx'[u].key \in Keys
    BY <1>0, <2>1, Ops DEF MarkTx
  <2> QED
    BY <2>2, KeyMonths
<1> SUFFICES ASSUME NEW u \in Threads, tx'[u].op = "mark", Civil(tx'[u].key),
                    NEW mo \in Months, mo = MonthOfKey(tx'[u].key), IsMonthLocked(mo)'
             PROVE  u \in inflight'[mo]
  BY <1>0 DEF LateInv, Running, Civil, Plain, MonthOfKey, LocalMonth, IsMonthLocked
<1>1. CASE tx'[u].key = tx[u].key /\ tx[u].op = "mark"
  <2>1. IsMonthLocked(mo) => u \in inflight[mo]
    BY <1>1 DEF LateInv, Running
  <2>2. Running(u, "mark")
    BY <1>1 DEF Running
  <2> QED
    BY <2>1, <2>2, OnRecord
<1>2. CASE MarkSession(u) \/ MarkDay(u)
  <2>1. ~IsMonthLocked(mo) /\ lock' = lock /\ thisMonth' = thisMonth
    BY <1>2, Started
  <2> QED
    BY <2>1 DEF IsMonthLocked
<1> QED
  BY <1>1, <1>2, OnlyMarks, ReadOn, Becomes

(* What a commit writes.                                                   *)
LEMMA Committed ==
    ASSUME TypeInv, NEW t \in Threads, MarkCommit(t)
    PROVE  /\ tx[t] \in MarkTx /\ Running(t, "mark") /\ tx'[t] = Idle
           /\ \A m \in Members : m # tx[t].who => mark'[m] = mark[m]
           /\ \A x \in Keys : mark'[tx[t].who][x] # mark[tx[t].who][x] => Covers(tx[t], x)
           /\ \/ mark' = mark
              \/ \A x \in Keys : mark'[tx[t].who][x] =
                     IF Covers(tx[t], x) /\ tx[t].seen[x] # tx[t].val THEN tx[t].val
                     ELSE mark[tx[t].who][x]
<1>1. tx[t] \in MarkTx /\ Running(t, "mark") /\ tx[t].todo = <<>> /\ tx'[t] = Idle
  BY MarkCommitTypes, Becomes DEF MarkCommit
<1>2. tx[t].who \in Members
  BY <1>1 DEF MarkTx
<1>3. \A x \in Keys : Covers(tx[t], x) <=> tx[t].seen[x] # "unread"
  BY <1>1 DEF Covers
<1>4. \/ mark' = mark
      \/ mark' = [mark EXCEPT ![tx[t].who] = [x \in Keys |->
                     IF Written(t, x) THEN tx[t].val ELSE mark[tx[t].who][x]]]
  BY DEF MarkCommit
<1>5. CASE mark' = mark
  BY <1>1, <1>5
<1>6. CASE mark' = [mark EXCEPT ![tx[t].who] = [x \in Keys |->
                     IF Written(t, x) THEN tx[t].val ELSE mark[tx[t].who][x]]]
  <2>1. \A m \in Members : m # tx[t].who => mark'[m] = mark[m]
    BY <1>6 DEF TypeInv
  <2>2. \A x \in Keys : mark'[tx[t].who][x] =
            IF Written(t, x) THEN tx[t].val ELSE mark[tx[t].who][x]
    BY <1>2, <1>6 DEF TypeInv
  <2> QED
    BY <1>1, <1>3, <2>1, <2>2 DEF Written
<1> QED
  BY <1>4, <1>5, <1>6

LEMMA StepFresh ==
    ASSUME TypeInv, TypeInv', FreshInv, [Next]_vars
    PROVE  FreshInv'
<1>1. ASSUME NEW u \in Threads, tx'[u].op = "mark", tx'[u].who \notin clashed',
             NEW v \in Threads, tx'[v].op = "mark", tx'[v].who = tx'[u].who, u # v
      PROVE  FALSE
  <2>1. ASSUME NEW a \in Threads, NEW b \in Threads, MarkSession(a) \/ MarkDay(a),
               tx'[b].op = "mark", a # b, tx'[b].who = tx'[a].who
        PROVE  tx'[a].who \in clashed'
    <3>1. Handler(a)
      BY <2>1 DEF Handler
    <3>2. tx'[b] = tx[b]
      BY <2>1, <3>1, OneThread
    <3>3. b \in Marking
      BY <2>1, <3>2 DEF Marking, Running
    <3> QED
      BY <2>1, <3>2, <3>3, Started
  <2>2. CASE MarkSession(u) \/ MarkDay(u) \/ MarkSession(v) \/ MarkDay(v)
    BY <1>1, <2>1, <2>2
  <2>3. CASE ~(MarkSession(u) \/ MarkDay(u) \/ MarkSession(v) \/ MarkDay(v))
    <3>1. tx[u].op = "mark" /\ tx[u].who = tx'[u].who
      BY <1>1, <2>3, OnlyMarks, ReadOn, Becomes
    <3>2. tx[v].op = "mark" /\ tx[v].who = tx'[v].who
      BY <1>1, <2>3, OnlyMarks, ReadOn, Becomes
    <3>3. tx[u].who \notin clashed
      BY <1>1, <3>1, MarksKept
    <3> QED
      BY <1>1, <3>1, <3>2, <3>3 DEF FreshInv, Running
  <2> QED
    BY <2>2, <2>3
<1>2. ASSUME NEW u \in Threads, tx'[u].op = "mark", tx'[u].who \notin clashed',
             NEW x \in Keys, tx'[u].seen[x] # "unread"
      PROVE  tx'[u].seen[x] = mark'[tx'[u].who][x]
  <2>1. ~(MarkSession(u) \/ MarkDay(u))
    BY <1>2, Started
  <2>2. tx[u].op = "mark" /\ tx[u].who = tx'[u].who
    BY <1>2, <2>1, OnlyMarks, ReadOn, Becomes
  <2>3. tx[u].who \notin clashed /\ tx[u] \in MarkTx /\ tx[u].who \in Members
    <3>1. tx[u] \in MarkTx
      BY <2>2, Ops DEF TypeInv
    <3> QED
      BY <1>2, <2>2, <3>1, MarksKept DEF MarkTx
  <2>4. tx[u].seen[x] # "unread" => tx[u].seen[x] = mark[tx[u].who][x]
    BY <2>2, <2>3 DEF FreshInv, Running
  <2>5. mark'[tx[u].who] = mark[tx[u].who]
    <3>1. CASE mark' = mark
      BY <3>1
    <3>2. ASSUME NEW t \in Threads, MarkCommit(t)
          PROVE  mark'[tx[u].who] = mark[tx[u].who]
      <4>1. Running(t, "mark") /\ tx'[t] = Idle
        BY <3>2, Committed
      <4>2. t # u
        BY <1>2, <4>1 DEF Idle
      <4>3. tx[t].who # tx[u].who
        BY <2>2, <2>3, <4>1, <4>2 DEF FreshInv, Running
      <4> QED
        BY <2>3, <3>2, <4>3, Committed
    <3> QED
      BY <3>1, <3>2, MarksKept
  <2>6. CASE tx'[u] = tx[u]
    BY <1>2, <2>4, <2>5, <2>6
  <2>7. CASE MarkRead(u)
    <3>1. tx'[u].seen[x] \in {tx[u].seen[x], mark[tx[u].who][x]}
      BY <2>7, ReadOn
    <3> QED
      BY <1>2, <2>2, <2>4, <2>5, <3>1
  <2> QED
    BY <1>2, <2>1, <2>6, <2>7, OnlyMarks
<1> QED
  BY <1>1, <1>2 DEF FreshInv, Running

LEMMA StepAgree ==
    ASSUME TypeInv, CoverInv, FreshInv, DayAndSessionsAgree, [Next]_vars
    PROVE  DayAndSessionsAgree'
<1> SUFFICES ASSUME NEW m \in Members \ clashed, NEW s \in Sessions, Plain(s),
                    mark'[m][LocalDay[s]] # "none"
             PROVE  mark'[m][s] = mark'[m][LocalDay[s]]
  BY MarksKept DEF DayAndSessionsAgree, Plain
<1> DEFINE d == LocalDay[s]
<1>0. s \in Keys /\ d \in Keys
  BY DatesAreKeys
<1>1. mark[m][d] # "none" => mark[m][s] = mark[m][d]
  BY DEF DayAndSessionsAgree
<1>2. CASE mark' = mark
  BY <1>1, <1>2
<1>3. ASSUME NEW t \in Threads, MarkCommit(t), mark' # mark
      PROVE  mark'[m][s] = mark'[m][d]
  <2>1. CASE m # tx[t].who
    BY <1>1, <1>3, <2>1, Committed
  <2>2. CASE m = tx[t].who
    <3>1. \A x \in Keys : mark'[m][x] = IF Covers(tx[t], x) /\ tx[t].seen[x] # tx[t].val
                                        THEN tx[t].val ELSE mark[m][x]
      BY <1>3, <2>2, Committed
    <3>2. Covers(tx[t], s) <=> Covers(tx[t], d)
      BY <1>3, Committed DEF CoverInv, Closed
    <3>3. \A x \in Keys : tx[t].seen[x] # "unread" => tx[t].seen[x] = mark[m][x]
      BY <1>3, <2>2, Committed DEF FreshInv
    <3>4. tx[t].val # "unread"
      BY <1>3, Committed DEF MarkTx, Values
    <3>5. \A x \in Keys : Covers(tx[t], x) => mark'[m][x] = tx[t].val
      BY <3>1, <3>3, <3>4
    <3>6. \A x \in Keys : ~Covers(tx[t], x) => mark'[m][x] = mark[m][x]
      BY <3>1
    <3> QED
      BY <1>0, <1>1, <3>2, <3>5, <3>6
  <2> QED
    BY <2>1, <2>2
<1> QED
  BY <1>2, <1>3, MarksKept

(* A day and its plain sessions say the same whatever was marked, unless   *)
(* two of the member's requests overlapped (update_availability,           *)
(* update_day_availability).                                               *)
THEOREM DaysAndSessionsAgree == Spec => []DayAndSessionsAgree
  BY InitTypes, StepTypes, InitMarks, StepCover, StepFresh, StepAgree, PTL DEF Spec

(* And so do all screens, exports, drafts and messages.                    *)
THEOREM MarksAreShown == Spec => []MarkIsShownEverywhere
<1>1. TypeInv /\ DayAndSessionsAgree => MarkIsShownEverywhere
  <2> SUFFICES ASSUME TypeInv, DayAndSessionsAgree,
                      NEW m \in Team \ clashed, NEW s \in Sessions, Plain(s)
               PROVE  LET d == LocalDay[s]
                      IN  /\ mark[m][d] = "no" =>
                               /\ m \in Matrix(s) \cap TeamSession(s).out \cap DraftOut(s)
                                          \cap TeamDay(d)
                               /\ m \notin CsvFree(s) \cup PdfFree(s) \cup SummaryFree(s)
                               /\ d \in OwnDays(m, MonthOf[d])
                               /\ ReminderMonth = MonthOf[d] => d \in ReminderDays(m)
                          /\ mark[m][d] = "yes" =>
                               /\ m \notin Matrix(s) \cup TeamSession(s).out \cup DraftOut(s)
                               /\ m \in CsvFree(s) \cap PdfFree(s) \cap SummaryFree(s)
    BY DEF MarkIsShownEverywhere
  <2> DEFINE d == LocalDay[s]
  <2>1. m \in Members /\ m \in Active /\ m \in Team /\ d \in Days
    BY ViewsAssumption, DatesAreKeys DEF Team
  <2>2. UtcMonth(s) = MonthOf[d] /\ UtcDay[s] = d
    BY DEF UtcMonth, Plain
  <2>3. mark[m][d] # "none" => mark[m][s] = mark[m][d]
    BY <2>1 DEF DayAndSessionsAgree
  <2>4. CASE mark[m][d] = "no"
    <3>1. m \in OptedOut(s) /\ m \in DayOffs(MonthOf[d], d)
      BY <2>1, <2>3, <2>4 DEF OptedOut, DayOffs
    <3>2. m \in TeamSession(s).out
      BY <3>1 DEF TeamSession
    <3> QED
      BY <2>1, <2>2, <2>4, <3>1, <3>2
         DEF Matrix, DraftOut, TeamDay, CsvFree, PdfFree, SummaryFree, OwnDays, ReminderDays
  <2>5. CASE mark[m][d] = "yes"
    <3>1. m \notin OptedOut(s) /\ m \notin DayOffs(MonthOf[d], d)
      BY <2>1, <2>3, <2>5 DEF OptedOut, DayOffs
    <3>2. m \notin TeamSession(s).out
      BY <2>2, <3>1 DEF TeamSession
    <3> QED
      BY <2>1, <2>2, <2>5, <3>1, <3>2 DEF Matrix, DraftOut, CsvFree, PdfFree, SummaryFree
  <2> QED
    BY <2>4, <2>5
<1> QED
  BY <1>1, InitTypes, StepTypes, InitMarks, StepCover, StepFresh, StepAgree, PTL DEF Spec

(* A mark of a locked month was under way when the month was locked, or is *)
(* that of an evening session (is_month_locked, update_availability).      *)
THEOREM LateMarksAreExcused == Spec => LateMarksBeganBeforeTheLock
<1>1. ASSUME TypeInv, CoverInv, LateInv, [Next]_vars, NEW m \in Members, NEW x \in Keys,
             mark'[m][x] # mark[m][x], x \in Sessions => Plain(x), IsMonthLocked(MonthOfKey(x))
      PROVE  \E t \in Marking :
                /\ tx[t].who = m /\ tx'[t] = Idle
                /\ \/ t \in inflight[MonthOfKey(x)]
                   \/ tx[t].key \in Sessions /\ ~Plain(tx[t].key)
  <2>1. PICK t \in Threads : MarkCommit(t)
    BY <1>1, MarksKept
  <2>2. /\ Running(t, "mark") /\ tx'[t] = Idle /\ tx[t].who = m /\ Covers(tx[t], x)
        /\ tx[t].key \in Keys
    BY <1>1, <2>1, Committed DEF MarkTx
  <2>3. t \in Marking
    BY <2>2 DEF Marking
  <2>4. CASE Civil(tx[t].key)
    <3>1. MonthOfKey(x) = MonthOfKey(tx[t].key)
      BY <1>1, <2>2, <2>4 DEF CoverInv, Closed, Civil
    <3>2. t \in inflight[MonthOfKey(x)]
      BY <1>1, <2>2, <2>4, <3>1 DEF LateInv
    <3> QED
      BY <2>2, <2>3, <3>2
  <2>5. CASE ~Civil(tx[t].key)
    BY <2>2, <2>3, <2>5 DEF Civil
  <2> QED
    BY <2>4, <2>5
<1>2. TypeInv /\ CoverInv /\ LateInv /\ [Next]_vars =>
        [\A m \in Members, x \in Keys :
           (/\ mark'[m][x] # mark[m][x]
            /\ x \in Sessions => Plain(x)
            /\ IsMonthLocked(MonthOfKey(x)))
           => \E t \in Marking :
                /\ tx[t].who = m /\ tx'[t] = Idle
                /\ \/ t \in inflight[MonthOfKey(x)]
                   \/ tx[t].key \in Sessions /\ ~Plain(tx[t].key)]_vars
  BY <1>1
<1> QED
  BY <1>2, InitTypes, StepTypes, InitMarks, StepCover, StepLate, PTL
     DEF Spec, LateMarksBeganBeforeTheLock
=============================================================================
