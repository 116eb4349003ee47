------------------------------- MODULE Calendar -------------------------------
(***************************************************************************)
(* Availability, month locks and saved schedules (app/routers/calendar.py) *)
(* as the concurrent READ COMMITTED transactions of request threads:       *)
(*   - a member marks a session or a day (update_availability,             *)
(*     update_day_availability): the lock is checked, the rows to upsert   *)
(*     are read one query after the other, all is written at the commit;   *)
(*   - a schedule is saved (save_schedule): old rows deleted, lock rows    *)
(*     read, new rows and locks committed together;                        *)
(*   - a month's schedule is announced (notify_schedule): everything is    *)
(*     read, the e-mails go out, then the lock row is written;             *)
(*   - an administrator sets or clears a lock (set_month_lock).            *)
(* An upsert is an UPDATE if the row was there when read (and its value    *)
(* differs), else an INSERT, which fails on the unique constraint if the   *)
(* row has appeared meanwhile and takes the whole transaction with it.     *)
(*                                                                         *)
(* A session has a UTC date (what SQL's extract sees) and a local date; an *)
(* evening session's UTC date is the day after its local one.              *)
(***************************************************************************)
EXTENDS Integers, Sequences, FiniteSets

CONSTANTS
    Members, Roles,
    Markers,                 \* bound: the members who mark anything
    Rosters,                 \* bound: the sets of <<member, role>> a save stores for a session
    Sessions, Days, Months,  \* Days and Months are integers in order
    UtcDay, LocalDay,        \* the two dates of each session
    MonthOf,                 \* the month of each day
    Threads,                 \* request threads
    MaxRequests              \* bound: requests ever served

Keys   == Sessions \cup Days   \* what a member can mark: availability, day_off
Values == {"yes", "no"}

ASSUME CalendarAssumption ==
    /\ Days \subseteq Int /\ Months \subseteq Int
    /\ Sessions \cap Days = {}
    /\ UtcDay \in [Sessions -> Days] /\ LocalDay \in [Sessions -> Days]
    /\ MonthOf \in [Days -> Months]
    /\ Markers \subseteq Members
    /\ Rosters \subseteq SUBSET (Members \X Roles)
    /\ MaxRequests \in Nat

VARIABLES
    mark,       \* availability and day_off rows of each member, or "none"
    lock,       \* month_lock rows: "none", "open" or "locked"
    notified,   \* months whose row has notified_at
    assign,     \* assignment rows of each session, with the save that wrote them
    thisMonth,  \* the month of the wall clock, local
    tx,         \* per thread: the handler it runs and what it has read
    served,     \* requests so far
    inflight,   \* history: marks under way when a month was locked
    clashed,    \* history: members two of whose marks overlapped
    raced,      \* history: sessions two of whose saves overlapped
    opened      \* history: months the administrator opened

vars == <<mark, lock, notified, assign, thisMonth, tx, served, inflight, clashed, raced, opened>>
rows == <<mark, lock, notified, assign>>

Idle == [op |-> "idle"]

Init ==
    /\ mark = [m \in Members |-> [x \in Keys |-> "none"]]
    /\ lock = [mo \in Months |-> "none"]
    /\ notified = {}
    /\ assign = [s \in Sessions |-> {}]
    /\ thisMonth \in Months
    /\ tx = [t \in Threads |-> Idle]
    /\ served = 0
    /\ inflight = [mo \in Months |-> {}]
    /\ clashed = {} /\ raced = {} /\ opened = {}

-----------------------------------------------------------------------------
UtcMonth(s)   == MonthOf[UtcDay[s]]
LocalMonth(s) == MonthOf[LocalDay[s]]

(* Past months are locked; others by their row.                            *)
IsMonthLocked(mo) == mo < thisMonth \/ lock[mo] = "locked"

Running(t, op) == tx[t].op = op
Marking == {t \in Threads : Running(t, "mark")}
Saving(s) == {t \in Threads : Running(t, "save") /\ s \in tx[t].sel}

Begin(t, handler) ==
    /\ Running(t, "idle")
    /\ served < MaxRequests
    /\ served' = served + 1
    /\ tx' = [tx EXCEPT ![t] = handler]
    /\ UNCHANGED <<rows, thisMonth, opened>>

(* A handler that ends without a commit: an error reply, a lost process.   *)
End(t) == tx' = [tx EXCEPT ![t] = Idle] /\ UNCHANGED <<thisMonth, served, clashed, raced, opened>>

(* The handlers in flight when months become locked are remembered.        *)
Locks(S) == inflight' = [mo \in Months |-> IF mo \in S THEN Marking ELSE inflight[mo]]

NextMonth ==
    /\ thisMonth + 1 \in Months
    /\ thisMonth' = thisMonth + 1
    /\ Locks({thisMonth})
    /\ UNCHANGED <<rows, tx, served, clashed, raced, opened>>

-----------------------------------------------------------------------------
(* Marking. `todo` holds the sets of rows still to be read, in order.      *)

MarkBegin(t, m, v, key, month, todo) ==
    /\ ~IsMonthLocked(month)
    /\ Begin(t, [op |-> "mark", who |-> m, val |-> v, key |-> key, todo |-> todo,
                 seen |-> [x \in Keys |-> "unread"]])
    /\ inflight' = [mo \in Months |-> inflight[mo] \ {t}]
    /\ clashed' = IF \E u \in Marking : tx[u].who = m THEN clashed \cup {m} ELSE clashed
    /\ UNCHANGED raced

(* PUT /availability: the lock of the session's UTC month; the session,    *)
(* its local day, then the day's other sessions in that month's UTC range. *)
MarkSession(t) ==
    \E m \in Markers, v \in Values, s \in Sessions :
        LET d == LocalDay[s]
        IN  MarkBegin(t, m, v, s, UtcMonth(s),
              <<{s}, {d}, {o \in Sessions \ {s} : LocalDay[o] = d /\ UtcMonth(o) = MonthOf[d]}>>)

(* Mutant: the sessions of the day are left out.                           *)
MarkDay_OnlyTheDay(t) ==
    \E m \in Markers, v \in Values, d \in Days : MarkBegin(t, m, v, d, MonthOf[d], <<{d}>>)

(* Mutant: there is no lock check.                                         *)
MarkDay_NoLockCheck(t) ==
    \E m \in Markers, v \in Values, d \in Days :
        MarkBegin(t, m, v, d, thisMonth, <<{d}, {s \in Sessions : UtcDay[s] = d}>>)

(* POST /availability/day: the day, then the sessions of that UTC date.    *)
MarkDay(t) ==
    \E m \in Markers, v \in Values, d \in Days :
        MarkBegin(t, m, v, d, MonthOf[d], <<{d}, {s \in Sessions : UtcDay[s] = d}>>)

MarkRead(t) ==
    /\ Running(t, "mark") /\ tx[t].todo # <<>>
    /\ tx' = [tx EXCEPT ![t].todo = Tail(tx[t].todo),
                        ![t].seen = [x \in Keys |-> IF x \in Head(tx[t].todo)
                                                    THEN mark[tx[t].who][x]
                                                    ELSE tx[t].seen[x]]]
    /\ UNCHANGED <<rows, thisMonth, served, inflight, clashed, raced, opened>>

(* A row that was read is inserted, or updated if its value differs.       *)
Written(t, x) == tx[t].seen[x] \notin {"unread", tx[t].val}

MarkCommit(t) ==
    /\ Running(t, "mark") /\ tx[t].todo = <<>>
    /\ LET m == tx[t].who
           conflict == \E x \in Keys : tx[t].seen[x] = "none" /\ mark[m][x] # "none"
       IN  mark' = IF conflict THEN mark
                   ELSE [mark EXCEPT ![m] = [x \in Keys |->
                           IF Written(t, x) THEN tx[t].val ELSE mark[m][x]]]
    /\ End(t)
    /\ UNCHANGED <<lock, notified, assign, inflight>>

-----------------------------------------------------------------------------
(* Saving a schedule.                                                      *)

(* The DELETE statements see the rows committed now. What is stored is     *)
(* what the client sent: nothing asks whether the members are active or    *)
(* hold the roles.                                                         *)
SaveBegin(t) ==
    \E S \in SUBSET Sessions \ {{}} : \E plan \in [S -> Rosters] :
        /\ Begin(t, [op |-> "save", sel |-> S, id |-> served + 1, plan |-> plan,
                     old |-> [s \in S |-> assign[s]],
                     locked |-> FALSE, seen |-> [mo \in Months |-> "unread"]])
        /\ raced' = raced \cup {s \in S : Saving(s) # {}}
        /\ UNCHANGED <<inflight, clashed>>

SaveMonths(t) == {LocalMonth(s) : s \in tx[t].sel}

(* They hold the rows' locks until the commit, so a save that would delete *)
(* the same rows waits here. Then the month locks are read.                *)
SaveReadLocks(t) ==
    /\ Running(t, "save") /\ ~tx[t].locked
    /\ \A u \in Threads \ {t}, s \in tx[t].sel :
         (u \in Saving(s) /\ tx[u].locked) => tx[u].old[s] \cap tx[t].old[s] = {}
    /\ tx' = [tx EXCEPT ![t].locked = TRUE,
                        ![t].seen = [mo \in Months |-> IF mo \in SaveMonths(t)
                                                       THEN lock[mo] ELSE "unread"]]
    /\ UNCHANGED <<rows, thisMonth, served, inflight, clashed, raced, opened>>

(* Mutant: the new rows are added to what is there.                        *)
Deleted_Nothing(t, s) == {}

(* Mutant: a lock row is only changed, never created.                      *)
NewLock_UpdateOnly(t, mo) == IF tx[t].seen[mo] = "open" THEN "locked" ELSE lock[mo]

(* Mutant: every lock row is written back as it was read.                  *)
NewLock_AsRead(t, mo) == tx[t].seen[mo]

(* The rows of session s the save deletes.                                 *)
Deleted(t, s) == tx[t].old[s]

(* A row read as locked is not written again.                              *)
NewLock(t, mo) == IF tx[t].seen[mo] \in {"none", "open"} THEN "locked" ELSE lock[mo]

Inserted(t, s) == {[by |-> tx[t].id, who |-> p[1], role |-> p[2]] : p \in tx[t].plan[s]}

SaveCommit(t) ==
    /\ Running(t, "save") /\ tx[t].locked
    /\ IF \E mo \in Months : tx[t].seen[mo] = "none" /\ lock[mo] # "none"
       THEN UNCHANGED <<assign, lock, inflight>>
       ELSE /\ assign' = [s \in Sessions |->
                 IF s \in tx[t].sel THEN (assign[s] \ Deleted(t, s)) \cup Inserted(t, s)
                                    ELSE assign[s]]
            /\ lock' = [mo \in Months |-> NewLock(t, mo)]
            /\ Locks({mo \in Months : lock[mo] # "locked" /\ NewLock(t, mo) = "locked"})
    /\ End(t)
    /\ UNCHANGED <<mark, notified>>

-----------------------------------------------------------------------------
(* Announcing a schedule, and the administrator's lock.                    *)

(* The roster and the lock row are read before the e-mails are sent.       *)
NotifyBegin(t) ==
    \E mo \in Months :
        /\ Begin(t, [op |-> "notify", month |-> mo, seen |-> lock[mo]])
        /\ UNCHANGED <<inflight, clashed, raced>>

(* Mutant: the row is inserted or overwritten as an open one.              *)
NotifyCommit_Upsert(t) ==
    /\ Running(t, "notify")
    /\ LET mo == tx[t].month
       IN  /\ notified' = notified \cup {mo}
           /\ lock' = IF tx[t].seen = "none" THEN [lock EXCEPT ![mo] = "open"] ELSE lock
    /\ End(t)
    /\ UNCHANGED <<mark, assign, inflight>>

(* notified_at is set on the row that was read, or on a new, open row;     *)
(* that INSERT fails, after the e-mails, if the row has appeared.          *)
NotifyCommit(t) ==
    /\ Running(t, "notify")
    /\ LET mo == tx[t].month
       IN  IF tx[t].seen # "none"
           THEN notified' = notified \cup {mo} /\ UNCHANGED lock
           ELSE IF lock[mo] # "none" THEN UNCHANGED <<notified, lock>>
           ELSE notified' = notified \cup {mo} /\ lock' = [lock EXCEPT ![mo] = "open"]
    /\ End(t)
    /\ UNCHANGED <<mark, assign, inflight>>

(* One row read and written back: the outcome is the value asked for or,   *)
(* if another commit comes between, what the other one wrote.              *)
SetMonthLock ==
    /\ served < MaxRequests
    /\ served' = served + 1
    /\ \E mo \in Months, v \in {"open", "locked"} :
         /\ lock[mo] # v
         /\ lock' = [lock EXCEPT ![mo] = v]
         /\ Locks(IF v = "locked" THEN {mo} ELSE {})
         /\ opened' = IF v = "open" THEN opened \cup {mo} ELSE opened
    /\ UNCHANGED <<mark, notified, assign, thisMonth, tx, clashed, raced>>

(* An exception or a lost process: the transaction is rolled back.         *)
Abort(t) ==
    /\ tx[t].op # "idle"
    /\ End(t)
    /\ UNCHANGED <<rows, inflight>>

Handler(t) ==
    \/ MarkSession(t) \/ MarkDay(t) \/ MarkRead(t) \/ MarkCommit(t)
    \/ SaveBegin(t) \/ SaveReadLocks(t) \/ SaveCommit(t)
    \/ NotifyBegin(t) \/ NotifyCommit(t) \/ Abort(t)
Next == NextMonth \/ SetMonthLock \/ \E t \in Threads : Handler(t)

Spec == Init /\ [][Next]_vars

-----------------------------------------------------------------------------
LockRows       == {"none", "open", "locked"}
AssignmentRows == [by : 1..MaxRequests, who : Members, role : Roles]

TypeOK ==
    /\ mark \in [Members -> [Keys -> Values \cup {"none"}]]
    /\ lock \in [Months -> LockRows]
    /\ notified \subseteq Months
    /\ assign \in [Sessions -> SUBSET AssignmentRows]
    /\ thisMonth \in Months
    /\ served \in 0..MaxRequests
    /\ \A t \in Threads :
         \/ tx[t] = Idle
         \/ /\ Running(t, "mark")
            /\ tx[t].who \in Members /\ tx[t].val \in Values /\ tx[t].key \in Keys
            /\ \A i \in DOMAIN tx[t].todo : tx[t].todo[i] \subseteq Keys
            /\ tx[t].seen \in [Keys -> Values \cup {"none", "unread"}]
         \/ /\ Running(t, "save")
            /\ tx[t].sel \subseteq Sessions /\ tx[t].id \in 1..MaxRequests
            /\ tx[t].plan \in [tx[t].sel -> Rosters]
            /\ tx[t].old \in [tx[t].sel -> SUBSET AssignmentRows]
            /\ tx[t].seen \in [Months -> LockRows \cup {"unread"}]
         \/ /\ Running(t, "notify")
            /\ tx[t].month \in Months /\ tx[t].seen \in LockRows

(* Sessions whose UTC date is their local date.                            *)
Plain(s) == UtcDay[s] = LocalDay[s]

(* A member's day and the sessions of that day say the same, whichever of  *)
(* the two was marked and whatever failed, as long as two of the member's  *)
(* own requests never overlapped (calendar.py:83-85, "also marks the whole *)
(* day"; calendar.py:171-172, "also updates availability for any sessions  *)
(* that already exist on that day"). Evening sessions are left out.        *)
DayAndSessionsAgree ==
    \A m \in Members \ clashed, s \in Sessions :
        (Plain(s) /\ mark[m][LocalDay[s]] # "none") => mark[m][s] = mark[m][LocalDay[s]]

MonthOfKey(x) == IF x \in Days THEN MonthOf[x] ELSE LocalMonth(x)

(* Once a month is locked, its days and plain sessions are only marked by  *)
(* a request that had passed the lock check before, or one for an evening  *)
(* session, whose check is of the next day's month (is_month_locked        *)
(* against save_schedule, set_month_lock and the turn of the month).       *)
LateMarksBeganBeforeTheLock ==
    [][\A m \in Members, x \in Keys :
         (/\ mark'[m][x] # mark[m][x]
          /\ x \in Sessions => Plain(x)
          /\ IsMonthLocked(MonthOfKey(x)))
         => \E t \in Marking :
              /\ tx[t].who = m /\ tx'[t] = Idle
              /\ \/ t \in inflight[MonthOfKey(x)]
                 \/ tx[t].key \in Sessions /\ ~Plain(tx[t].key)]_vars

(* calendar.py:574 "Save or overwrite assignments for the specific         *)
(* sessions": a session never holds rows of two saves, unless two saves of *)
(* it overlapped.                                                          *)
MixedOnlyIfRaced ==
    \A s \in Sessions : (\E p, q \in assign[s] : p.by # q.by) => s \in raced

(* A locked month is only opened by the administrator, never by an         *)
(* announcement or a save that read the row before it was locked.          *)
OnlyAdminUnlocks ==
    [][\A mo \in Months :
         (lock[mo] = "locked" /\ lock'[mo] # "locked") => tx' = tx]_vars
=============================================================================
