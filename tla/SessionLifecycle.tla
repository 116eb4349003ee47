-------------------------- MODULE SessionLifecycle --------------------------
(***************************************************************************)
(* The sessions table, the periodic status sweep (app/core/scheduler.py,   *)
(* update_session_statuses) and the session endpoints that write the same  *)
(* rows (app/routers/sessions.py), each run as a READ COMMITTED database   *)
(* transaction with autoflush off (app/core/database.py):                  *)
(*   - a sweep reads in three queries and writes in one flush at the end;  *)
(*   - a PATCH reads the row, then writes the columns whose value differs  *)
(*     from the one it read;                                               *)
(*   - a POST with status "active" concludes the rows its bulk UPDATE saw  *)
(*     active when the statement began and that still are when it gets     *)
(*     their row locks.                                                    *)
(* Times are in ticks; NULL columns are Null (times) and "null" (status).  *)
(***************************************************************************)
EXTENDS Integers

CONSTANTS
    Sweepers,      \* threads that may run the sweep: scheduler job, /cron/...
    Requests,      \* threads that serve session POST, PATCH and DELETE
    Lead,          \* a session is active from start_time - Lead (30 minutes)
    DayLength,     \* ticks in a day
    Retention,     \* days from the start date to archiving (7)
    Starts, Ends,  \* the times a client puts in a request
    MaxRequests,   \* bound: requests ever served, so rows ever inserted
    MaxTime,       \* bound: the last tick of the clock
    Absent         \* the content of a table slot that holds no row

Ids       == 1..MaxRequests
Null      == -1
Statuses  == {"scheduled", "active", "concluded", "archived"}
Row       == [status : Statuses \cup {"null"}, start : Nat, end : Nat \cup {Null}]

ASSUME LifecycleAssumption ==
    /\ {Lead, Retention, MaxRequests, MaxTime} \subseteq Nat
    /\ DayLength \in Nat \ {0}
    /\ Starts \subseteq Nat /\ Ends \subseteq Nat
    /\ Absent \notin Row

VARIABLES
    now,      \* the wall clock
    table,    \* committed content of the sessions table
    nextId,   \* the id sequence: ids are never used twice
    sweep,    \* per sweeper: where it is and the objects its session loaded
    req,      \* per request thread: the handler it runs and what it has read
    served,   \* requests begun so far
    touched,  \* history: ids another transaction changed since a sweep began
    overlap   \* history: did another transaction commit during a POST

vars == <<now, table, nextId, sweep, req, served, touched, overlap>>

Present(s) == table[s] # Absent
HasStatus(s, st) == Present(s) /\ table[s].status = st

NoPlan    == [s \in Ids |-> "none"]
NoRead    == [s \in Ids |-> Absent]
IdleSweep == [pc |-> "idle", now |-> 0, read |-> NoRead, plan |-> NoPlan]
IdleReq   == [op |-> "idle"]

(* Midnight of the start date plus the retention.                          *)
ArchiveAt(start) == ((start \div DayLength) + Retention) * DayLength

Init ==
    /\ now = 0
    /\ table = [s \in Ids |-> Absent]
    /\ nextId = 1
    /\ sweep = [w \in Sweepers |-> IdleSweep]
    /\ req = [r \in Requests |-> IdleReq]
    /\ served = 0
    /\ touched = [w \in Sweepers |-> {}]
    /\ overlap = [r \in Requests |-> FALSE]

Tick ==
    /\ now < MaxTime
    /\ now' = now + 1
    /\ UNCHANGED <<table, nextId, sweep, req, served, touched, overlap>>

-----------------------------------------------------------------------------
(* The status sweep.                                                       *)

(* Mutant: only sessions whose lead begins at this very tick.              *)
SweepScheduled_OnTheDot(w) ==
    /\ sweep[w].pc = "idle"
    /\ LET due == {s \in Ids : HasStatus(s, "scheduled") /\ table[s].start = now + Lead}
       IN  sweep' = [sweep EXCEPT ![w] =
             [pc   |-> "active",
              now  |-> now,
              read |-> [s \in Ids |-> IF s \in due THEN table[s] ELSE Absent],
              plan |-> [s \in Ids |-> IF s \in due THEN "active" ELSE "none"]]]
    /\ touched' = [touched EXCEPT ![w] = {}]
    /\ UNCHANGED <<now, table, nextId, req, served, overlap>>

(* `now` is taken once; the first query loads the due scheduled sessions.  *)
SweepScheduled(w) ==
    /\ sweep[w].pc = "idle"
    /\ LET due == {s \in Ids : HasStatus(s, "scheduled") /\ table[s].start <= now + Lead}
       IN  sweep' = [sweep EXCEPT ![w] =
             [pc   |-> "active",
              now  |-> now,
              read |-> [s \in Ids |-> IF s \in due THEN table[s] ELSE Absent],
              plan |-> [s \in Ids |-> IF s \in due THEN "active" ELSE "none"]]]
    /\ touched' = [touched EXCEPT ![w] = {}]
    /\ UNCHANGED <<now, table, nextId, req, served, overlap>>

(* The row of an object: as first loaded if this session already holds it. *)
Loaded(w, s) == IF sweep[w].read[s] # Absent THEN sweep[w].read[s] ELSE table[s]

(* The sweep's next query: `due` is what it selects, new the status given. *)
SweepQuery(w, due, new, pc) ==
    /\ sweep' = [sweep EXCEPT ![w] =
         [pc   |-> pc,
          now  |-> sweep[w].now,
          read |-> [s \in Ids |-> IF s \in due THEN Loaded(w, s) ELSE sweep[w].read[s]],
          plan |-> [s \in Ids |-> IF s \in due THEN new ELSE sweep[w].plan[s]]]]
    /\ UNCHANGED <<now, table, nextId, req, served, touched, overlap>>

(* Mutant: the end time is compared without SQL's rule for NULL.           *)
SweepActive_NullIsPast(w) ==
    /\ sweep[w].pc = "active"
    /\ SweepQuery(w, {s \in Ids : HasStatus(s, "active") /\ table[s].end <= sweep[w].now},
                  "concluded", "concluded")

(* Mutant: the second query sees the first one's changes (autoflush on).   *)
SweepActive_Autoflush(w) ==
    /\ sweep[w].pc = "active"
    /\ SweepQuery(w, {s \in Ids : /\ Present(s)
                                  /\ sweep[w].plan[s] = "active" \/ table[s].status = "active"
                                  /\ table[s].end # Null
                                  /\ table[s].end <= sweep[w].now},
                  "concluded", "concluded")

(* The second query reads the table, where the first one's changes are not *)
(* flushed, and compares the end time (never true of NULL).                *)
SweepActive(w) ==
    /\ sweep[w].pc = "active"
    /\ SweepQuery(w, {s \in Ids : /\ HasStatus(s, "active")
                                  /\ table[s].end # Null
                                  /\ table[s].end <= sweep[w].now},
                  "concluded", "concluded")

(* The third query loads every concluded row; the age test is on objects.  *)
SweepConcluded(w) ==
    /\ sweep[w].pc = "concluded"
    /\ SweepQuery(w, {s \in Ids : /\ HasStatus(s, "concluded")
                                  /\ ArchiveAt(Loaded(w, s).start) <= sweep[w].now},
                  "archived", "commit")

(* Mutant: every object that still has a row is written.                   *)
Planned_Everything(w) == {s \in Ids : Present(s)}

Planned(w) == {s \in Ids : sweep[w].plan[s] # "none"}

(* One flush of the changed status columns. If a row is gone the UPDATE    *)
(* matches too few rows and the exception discards the whole sweep.        *)
SweepCommit(w) ==
    /\ sweep[w].pc = "commit"
    /\ LET written == IF \A s \in Planned(w) : Present(s) THEN Planned(w) ELSE {}
       IN  /\ table' = [s \in Ids |-> IF s \in written
                                      THEN [table[s] EXCEPT !.status = sweep[w].plan[s]]
                                      ELSE table[s]]
           /\ touched' = [v \in Sweepers |-> IF v = w THEN {} ELSE touched[v] \cup written]
           /\ overlap' = [q \in Requests |-> overlap[q] \/ written # {}]
    /\ sweep' = [sweep EXCEPT ![w] = IdleSweep]
    /\ UNCHANGED <<now, nextId, req, served>>

-----------------------------------------------------------------------------
(* The session endpoints.                                                  *)

(* What the commit of request r, which changes the rows S, leaves behind.  *)
Committed(r, S) ==
    /\ req' = [req EXCEPT ![r] = IdleReq]
    /\ touched' = [w \in Sweepers |-> touched[w] \cup S]
    /\ overlap' = [q \in Requests |-> q # r /\ (overlap[q] \/ S # {})]
    /\ UNCHANGED <<now, sweep, served>>

Begin(r, handler) ==
    /\ req[r].op = "idle"
    /\ served < MaxRequests
    /\ served' = served + 1
    /\ req' = [req EXCEPT ![r] = handler]
    /\ overlap' = [overlap EXCEPT ![r] = FALSE]
    /\ UNCHANGED <<now, table, nextId, sweep, touched>>

(* POST: the bulk UPDATE of an active session's creation begins here, on   *)
(* the rows committed as active; any other creation writes nothing else.   *)
CreateBegin(r) ==
    \E st \in Statuses, b \in Starts, e \in Ends :
      Begin(r, [op  |-> "create",
                row |-> [status |-> st, start |-> b, end |-> e],
                old |-> IF st = "active" THEN {s \in Ids : HasStatus(s, "active")} ELSE {}])

(* Mutant: the old active sessions are forgotten.                          *)
CreateCommit_KeepOld(r) ==
    /\ req[r].op = "create"
    /\ table' = [table EXCEPT ![nextId] = req[r].row]
    /\ nextId' = nextId + 1
    /\ Committed(r, {nextId})

(* The row locks make UPDATE, INSERT and COMMIT one step for the others; a *)
(* row that is no longer active once its lock is granted is left alone.    *)
CreateCommit(r) ==
    /\ req[r].op = "create"
    /\ LET old == {s \in req[r].old : HasStatus(s, "active")}
       IN  /\ table' = [s \in Ids |->
                 IF s = nextId THEN req[r].row
                 ELSE IF s \in old THEN [table[s] EXCEPT !.status = "concluded"]
                 ELSE table[s]]
           /\ nextId' = nextId + 1
           /\ Committed(r, old \cup {nextId})

(* PATCH: the row is read ...                                              *)
PatchBegin(r) ==
    \E s \in Ids :
      /\ Present(s)
      /\ \E st \in Statuses \cup {"null"}, b \in Starts \cup {table[s].start},
            e \in Ends \cup {Null} :
           Begin(r, [op |-> "patch", id |-> s, read |-> table[s],
                     new |-> [status |-> st, start |-> b, end |-> e]])

(* The UPDATE names only the columns whose value is not the one read.      *)
Merge(row, read, new) == [f \in {"status", "start", "end"} |->
                             IF new[f] = read[f] THEN row[f] ELSE new[f]]

(* ... and written back, unless it is gone (the UPDATE then fails).        *)
PatchCommit(r) ==
    /\ req[r].op = "patch"
    /\ LET s == req[r].id
           written == IF Present(s) /\ req[r].new # req[r].read THEN {s} ELSE {}
       IN  /\ table' = [t \in Ids |-> IF t \in written
                                      THEN Merge(table[t], req[r].read, req[r].new)
                                      ELSE table[t]]
           /\ UNCHANGED nextId
           /\ Committed(r, written)

(* DELETE of one session, and POST /bulk-delete of several.                *)
Delete(r) ==
    /\ req[r].op = "idle"
    /\ served < MaxRequests
    /\ \E S \in SUBSET {s \in Ids : Present(s)} :
         /\ S # {}
         /\ table' = [s \in Ids |-> IF s \in S THEN Absent ELSE table[s]]
         /\ touched' = [w \in Sweepers |-> touched[w] \cup S]
         /\ overlap' = [q \in Requests |-> q # r]
    /\ served' = served + 1
    /\ UNCHANGED <<now, nextId, sweep, req>>

-----------------------------------------------------------------------------
Sweep(w)   == SweepScheduled(w) \/ SweepActive(w) \/ SweepConcluded(w) \/ SweepCommit(w)
Request(r) == CreateBegin(r) \/ CreateCommit(r) \/ PatchBegin(r) \/ PatchCommit(r) \/ Delete(r)
Next == Tick \/ (\E w \in Sweepers : Sweep(w)) \/ (\E r \in Requests : Request(r))

Spec == Init /\ [][Next]_vars

(* The clock runs, a job that is due runs to its end (the scheduler's and  *)
(* the cron's period), and a handler that has begun returns. Nothing says  *)
(* that a client sends a request.                                          *)
Fairness ==
    /\ WF_vars(Tick)
    /\ \A w \in Sweepers : WF_vars(Sweep(w))
    /\ \A r \in Requests : WF_vars(CreateCommit(r) \/ PatchCommit(r))

FairSpec == Spec /\ Fairness

-----------------------------------------------------------------------------
TypeOK ==
    /\ now \in Nat
    /\ table \in [Ids -> Row \cup {Absent}]
    /\ nextId \in Nat \ {0}
    /\ sweep \in [Sweepers ->
         [pc   : {"idle", "active", "concluded", "commit"},
          now  : Nat,
          read : [Ids -> Row \cup {Absent}],
          plan : [Ids -> Statuses \cup {"none"}]]]
    /\ req \in [Requests -> [op : {"idle"}]
                       \cup [op : {"create"}, row : Row, old : SUBSET Ids]
                       \cup [op : {"patch"}, id : Ids, read : Row, new : Row]]
    /\ served \in Nat
    /\ touched \in [Sweepers -> SUBSET Nat]
    /\ overlap \in [Requests -> BOOLEAN]

(* What a sweep may decide about a row at time t.                          *)
Due(row, t, new) ==
    \/ new = "active" /\ row.status = "scheduled" /\ row.start <= t + Lead
    \/ new = "concluded" /\ row.status = "active" /\ row.end # Null /\ row.end <= t
    \/ new = "archived" /\ row.status = "concluded" /\ ArchiveAt(row.start) <= t

(* A plan that nobody else has interfered with is due for the row as it is *)
(* in the table now, however long ago and in which query it was loaded     *)
(* (scheduler.py:343-371: objects are read once and written at the end).   *)
PlanIsCurrent ==
    \A w \in Sweepers, s \in Ids :
        (s \in Planned(w) /\ s \notin touched[w])
            => /\ sweep[w].read[s] = table[s]
               /\ Present(s)
               /\ Due(table[s], sweep[w].now, sweep[w].plan[s])

SweepEnds(w) == sweep[w].pc = "commit" /\ sweep'[w].pc = "idle"

(* The commit of a sweep moves a session nobody else changed meanwhile one *)
(* step forward and only when it is due, and changes nothing but the       *)
(* status (update_session_statuses, scheduler.py:341-373).                 *)
UntouchedAdvanceOneDueStep ==
    [][\A w \in Sweepers : SweepEnds(w) =>
         \A s \in Ids \ touched[w] : table'[s] # table[s] =>
             /\ Present(s)
             /\ \E st \in Statuses :
                  /\ table'[s] = [table[s] EXCEPT !.status = st]
                  /\ Due(table[s], sweep[w].now, st)]_vars

(* A POST of an active session during which nobody else committed leaves   *)
(* that session the only active one (create_session, sessions.py:48-64).   *)
UndisturbedCreateIsExclusive ==
    [][\A r \in Requests :
         (req[r].op = "create" /\ req'[r].op = "idle"
            /\ req[r].row.status = "active" /\ ~overlap[r])
            => {s \in Ids : table'[s] # Absent /\ table'[s].status = "active"} = {nextId}]_vars

(* Sessions the sweep can never archive: no status at all, or an active or *)
(* soon active one that has no end time (PATCH accepts both NULLs).        *)
Stuck(s) == \/ table[s].status = "null"
            \/ table[s].status = "active" /\ table[s].end = Null

(* Once the requests stop, the sweeps carry every session to "archived",   *)
(* whatever stale plan a request or an overlapping sweep left behind.      *)
EventuallyArchived ==
    <>[](\A s \in Ids : Present(s) => (table[s].status = "archived" \/ Stuck(s)))
=============================================================================
