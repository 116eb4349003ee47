------------------------------ MODULE Reminders ------------------------------
(***************************************************************************)
(* The 24-hour reminders (app/core/scheduler.py, dispatch_24hr_reminders   *)
(* and send_session_reminders): runs of the scan triggered by the 15       *)
(* minute scheduler job or by /cron/reminders and /cron/all, which may     *)
(* overlap, targeted runs for one session, and the requests that change    *)
(* sessions and assignments meanwhile. A run sends before it commits the   *)
(* marker reminder_sent_at, session by session; any exception, or the end  *)
(* of a serverless instance, ends the run there. The e-mail and SMS        *)
(* providers never raise: they answer False, which nobody looks at.        *)
(* One tick is the cron period, 15 minutes.                                *)
(***************************************************************************)
EXTENDS Integers

CONSTANTS
    Sessions,      \* session ids
    Slots,         \* assignments of a session: a member in a role
    Dispatchers,   \* threads that may run the dispatcher
    Ahead,         \* reminders go out this long before the start (24 hours)
    Window,        \* width of the scanned interval (30 minutes)
    Starts,        \* start times of the sessions
    Absent,        \* the row of a deleted session
    MaxTime,       \* bound: the last tick
    MaxEdits,      \* bound: requests that change sessions or assignments
    MaxFaults      \* bound: runs ended by an exception or a lost process,
                   \* and messages a provider fails to send

Row == [start : Nat, scheduled : BOOLEAN, marked : BOOLEAN]

ASSUME ReminderAssumption ==
    /\ {Ahead, Window, MaxTime, MaxEdits, MaxFaults} \subseteq Nat
    /\ Starts \subseteq Nat
    /\ Absent \notin Row

VARIABLES
    now,         \* the wall clock
    table,       \* committed rows: start_time, status, reminder_sent_at
    assigned,    \* committed assignments of each session
    run,         \* per dispatcher: where it is and what it has loaded
    scanned,     \* did a scan begin in this tick
    late,        \* did none begin in the tick before
    edits,       \* requests so far
    faults,      \* failed runs and failed messages so far
    sent,        \* history: scan reminders sent for each assignment
    told,        \* history: the starts some scan sent everything for, per session
    moved,       \* history: sessions rescheduled after the run that wrote about
                 \* them had read them
    refused,     \* history: sessions one of whose scan's messages a provider failed
    since,       \* history: when the session's row last changed
    dropped,     \* history: sessions a failed run held, unmarked
    overlapped   \* history: sessions selected while another scan held them

vars == <<now, table, assigned, run, scanned, late, edits, faults,
          sent, told, moved, refused, since, dropped, overlapped>>
world == <<table, assigned, edits, since>>
clock == <<now, scanned, late>>

Idle == [stage |-> "idle", scan |-> FALSE, queue |-> {}, cur |-> {}, todo |-> {},
         read |-> [s \in Sessions |-> 0], fresh |-> FALSE, ok |-> TRUE]

Init ==
    /\ now = 0
    /\ table \in [Sessions -> [start : Starts, scheduled : {TRUE}, marked : {FALSE}]]
    /\ assigned \in [Sessions -> SUBSET Slots]
    /\ run = [d \in Dispatchers |-> Idle]
    /\ scanned = FALSE /\ late = FALSE
    /\ edits = 0 /\ faults = 0
    /\ sent = [s \in Sessions |-> [a \in Slots |-> 0]]
    /\ told = [s \in Sessions |-> {}] /\ moved = {} /\ refused = {}
    /\ since = [s \in Sessions |-> 0]
    /\ dropped = {} /\ overlapped = {}

Present(s) == table[s] # Absent

(* The sessions a scan has selected and not finished with.                 *)
Holds(d) == IF run[d].scan THEN run[d].queue \cup run[d].cur ELSE {}

(* The session a scan is sending for.                                      *)
Current(d) == IF run[d].scan THEN run[d].cur ELSE {}

(* Time passes; at most one cron period in a row goes by without a scan    *)
(* (a run still busy, or a trigger that fires late, costs one).            *)
Tick ==
    /\ now < MaxTime
    /\ scanned \/ ~late
    /\ now' = now + 1
    /\ late' = ~scanned
    /\ scanned' = FALSE
    /\ UNCHANGED <<world, run, faults, sent, told, moved, refused, dropped, overlapped>>

-----------------------------------------------------------------------------
(* The dispatcher.                                                         *)

(* Mutant: the window is as wide as the cron period.                       *)
Due_NarrowWindow(row) ==
    /\ row.start >= now + Ahead /\ row.start < now + Ahead + Window - 1
    /\ row.scheduled /\ ~row.marked

(* Mutant: the marker is not looked at.                                    *)
Due_Again(row) ==
    /\ row.start >= now + Ahead /\ row.start < now + Ahead + Window
    /\ row.scheduled

Due(row) ==
    /\ row.start >= now + Ahead /\ row.start < now + Ahead + Window
    /\ row.scheduled /\ ~row.marked

(* What a query for some rows reads of them.                               *)
Loaded(due) == [s \in Sessions |-> IF s \in due THEN table[s].start ELSE 0]

(* One query selects the sessions of the run.                              *)
ScanBegin(d) ==
    /\ run[d].stage = "idle"
    /\ LET due == {s \in Sessions : Present(s) /\ Due(table[s])}
           busy == UNION {Holds(e) : e \in Dispatchers}
       IN  /\ run' = [run EXCEPT ![d] =
                IF due = {} THEN Idle
                ELSE [Idle EXCEPT !.stage = "pick", !.scan = TRUE, !.queue = due,
                                  !.read = Loaded(due), !.fresh = TRUE]]
           /\ overlapped' = overlapped \cup (due \cap busy)
    /\ scanned' = TRUE
    /\ UNCHANGED <<now, late, world, faults, sent, told, moved, refused, dropped>>

(* A run given a session_id looks only for that row.                       *)
TargetBegin(d) ==
    /\ run[d].stage = "idle"
    /\ \E s \in Sessions :
         /\ Present(s)
         /\ run' = [run EXCEPT ![d] = [Idle EXCEPT !.stage = "send", !.cur = {s},
                                                   !.todo = assigned[s]]]
    /\ UNCHANGED <<clock, world, faults, sent, told, moved, refused, dropped, overlapped>>

(* The run ends by an exception: what it still holds stays unmarked.       *)
Drop(d) ==
    /\ run' = [run EXCEPT ![d] = Idle]
    /\ dropped' = dropped \cup Holds(d)

(* Mutant: objects are not expired by a commit.                            *)
Read_Cached(d, s) == run[d].read

(* What the run knows of session s when its turn comes: the objects of all *)
(* but the first one have been expired by a commit and are read again.     *)
Read(d, s) == IF run[d].fresh THEN run[d].read
              ELSE [run[d].read EXCEPT ![s] = table[s].start]

(* The next session of the loop: its assignments are read. A session       *)
(* deleted since the scan raises when it is read again; the first one is   *)
(* only missed at its commit.                                              *)
Pick(d) ==
    /\ run[d].stage = "pick"
    /\ \E s \in run[d].queue :
         IF Present(s) \/ run[d].fresh
         THEN /\ run' = [run EXCEPT ![d] =
                   [@ EXCEPT !.stage = "send", !.cur = {s}, !.todo = assigned[s],
                             !.read = Read(d, s), !.queue = run[d].queue \ {s}]]
              /\ moved' = IF Present(s) /\ run[d].fresh /\ table[s].start # run[d].read[s]
                          THEN moved \cup {s} ELSE moved
              /\ UNCHANGED dropped
         ELSE Drop(d) /\ UNCHANGED moved
    /\ UNCHANGED <<clock, world, faults, sent, told, refused, overlapped>>

(* A message the provider fails to send: send() logs it and answers False. *)
Refuse(d, r) ==
    /\ faults < MaxFaults
    /\ faults' = faults + 1
    /\ run' = [run EXCEPT ![d] = [r EXCEPT !.ok = FALSE]]
    /\ refused' = refused \cup Current(d)
    /\ UNCHANGED sent

(* E-mail and push to one assigned member.                                 *)
Send(d) ==
    /\ run[d].stage = "send"
    /\ \E a \in run[d].todo :
         LET r == [run[d] EXCEPT !.todo = run[d].todo \ {a}]
         IN  \/ Refuse(d, r)
             \/ /\ run' = [run EXCEPT ![d] = r]
                /\ sent' = IF run[d].scan
                           THEN [s \in Sessions |-> IF s \in run[d].cur
                                                    THEN [sent[s] EXCEPT ![a] = @ + 1]
                                                    ELSE sent[s]]
                           ELSE sent
                /\ UNCHANGED <<faults, refused>>
    /\ UNCHANGED <<clock, world, told, moved, dropped, overlapped>>

(* Where a run goes from the summary, and what it has then announced.      *)
AfterSummary(d) == IF run[d].scan THEN [run[d] EXCEPT !.stage = "mark"] ELSE Idle
Told(d) == [s \in Sessions |-> IF run[d].ok /\ s \in Current(d)
                               THEN told[s] \cup {run[d].read[s]} ELSE told[s]]

(* The leaders' summary comes last; a targeted run ends with it.           *)
Summary(d) ==
    /\ run[d].stage = "send" /\ run[d].todo = {}
    /\ \/ Refuse(d, AfterSummary(d)) /\ UNCHANGED told
       \/ /\ run' = [run EXCEPT ![d] = AfterSummary(d)]
          /\ told' = Told(d)
          /\ UNCHANGED <<faults, sent, refused>>
    /\ UNCHANGED <<clock, world, moved, dropped, overlapped>>

(* reminder_sent_at is set and committed; the UPDATE of a deleted session  *)
(* matches no row and raises.                                              *)
Mark(d) ==
    /\ run[d].stage = "mark"
    /\ IF \A s \in run[d].cur : Present(s)
       THEN /\ table' = [s \in Sessions |-> IF s \in run[d].cur
                                            THEN [table[s] EXCEPT !.marked = TRUE]
                                            ELSE table[s]]
            /\ run' = [run EXCEPT ![d] =
                 IF run[d].queue = {} THEN Idle
                 ELSE [Idle EXCEPT !.stage = "pick", !.scan = TRUE, !.queue = run[d].queue]]
            /\ UNCHANGED dropped
       ELSE Drop(d) /\ UNCHANGED table
    /\ UNCHANGED <<clock, assigned, edits, since, faults, sent, told, moved, refused,
                   overlapped>>

(* Any other exception (a member gone, a provider that raises), or the     *)
(* process is lost: the transaction is rolled back.                        *)
Fault(d) ==
    /\ run[d].stage # "idle"
    /\ faults < MaxFaults
    /\ faults' = faults + 1
    /\ Drop(d)
    /\ UNCHANGED <<clock, world, sent, told, moved, refused, overlapped>>

-----------------------------------------------------------------------------
(* Requests. None of them touches reminder_sent_at.                        *)

Edit(s) ==
    /\ edits < MaxEdits /\ Present(s)
    /\ edits' = edits + 1
    /\ since' = [since EXCEPT ![s] = now]
    /\ UNCHANGED <<clock, run, faults, sent, told, refused, dropped, overlapped>>

(* Mutant: a start_time of NULL goes through.                              *)
Patch_NullStart(s) ==
    /\ Edit(s)
    /\ \E b \in Starts \cup {-1}, sch \in BOOLEAN :
         table' = [table EXCEPT ![s].start = b, ![s].scheduled = sch]
    /\ UNCHANGED <<assigned, moved>>

(* The session is marked, or a run that will mark it has read it.          *)
Noted(s) == table[s].marked \/ \E d \in Dispatchers : s \in Current(d)

(* PATCH /sessions/{id} of start_time or status. A run that is sending for *)
(* the session does not notice, and its marker stays.                      *)
Patch(s) ==
    /\ Edit(s)
    /\ \E b \in Starts, sch \in BOOLEAN :
         /\ table' = [table EXCEPT ![s].start = b, ![s].scheduled = sch]
         /\ moved' = IF b # table[s].start /\ Noted(s) THEN moved \cup {s} ELSE moved
    /\ UNCHANGED assigned

(* DELETE /sessions/{id}: its assignments go with it.                      *)
Delete(s) ==
    /\ Edit(s)
    /\ table' = [table EXCEPT ![s] = Absent]
    /\ assigned' = [assigned EXCEPT ![s] = {}]
    /\ UNCHANGED moved

(* The schedule of the session is saved again.                             *)
SaveAssignments(s) ==
    /\ Edit(s)
    /\ \E A \in SUBSET Slots : assigned' = [assigned EXCEPT ![s] = A]
    /\ UNCHANGED <<table, moved>>

Dispatch(d) == \/ ScanBegin(d) \/ TargetBegin(d) \/ Pick(d) \/ Send(d)
               \/ Summary(d) \/ Mark(d) \/ Fault(d)
Next == \/ Tick
        \/ \E d \in Dispatchers : Dispatch(d)
        \/ \E s \in Sessions : Patch(s) \/ Delete(s) \/ SaveAssignments(s)

Spec == Init /\ [][Next]_vars

-----------------------------------------------------------------------------
TypeOK ==
    /\ now \in Nat
    /\ table \in [Sessions -> Row \cup {Absent}]
    /\ assigned \in [Sessions -> SUBSET Slots]
    /\ run \in [Dispatchers ->
         [stage : {"idle", "pick", "send", "mark"}, scan : BOOLEAN, fresh : BOOLEAN, ok : BOOLEAN,
          queue : SUBSET Sessions, cur : SUBSET Sessions, todo : SUBSET Slots,
          read : [Sessions -> Nat]]]
    /\ scanned \in BOOLEAN /\ late \in BOOLEAN
    /\ edits \in Nat /\ faults \in Nat
    /\ sent \in [Sessions -> [Slots -> Nat]]
    /\ told \in [Sessions -> SUBSET Nat]
    /\ moved \subseteq Sessions /\ refused \subseteq Sessions
    /\ since \in [Sessions -> Nat]
    /\ dropped \subseteq Sessions /\ overlapped \subseteq Sessions

(* A marker says that in one run every reminder and the leaders' summary   *)
(* have gone out for the time the session now has (models/session.py:20,   *)
(* "set when 24h reminders + leader summary are sent"), whichever run set  *)
(* it. Two things make it untrue, and nothing else does: a provider that   *)
(* failed a message, which is never retried, and a PATCH of the start that *)
(* came after the run had read the session: it keeps the marker            *)
(* (sessions.py:104), so the new time is never announced.                  *)
MarkedIsAnnounced ==
    \A s \in Sessions :
        Present(s) /\ table[s].marked => table[s].start \in told[s] \/ s \in refused \cup moved

(* Nobody gets the scan's reminder of an assignment twice unless two scans *)
(* held the session at once or a run failed while holding it: edits of the *)
(* session, targeted runs and later scans never cause a second one.        *)
DuplicateHasACause ==
    \A s \in Sessions, a \in Slots :
        sent[s][a] > 1 => s \in dropped \cup overlapped

(* scheduler.py:153 "Scan a wider window (24h to 24h30m) to catch sessions *)
(* between cron runs": once its reminder time is past, a scheduled session *)
(* settled before the window reached it is marked or in a run's hands,     *)
(* unless a run that had it failed, even if every other period is skipped. *)
NoSessionMissed ==
    \A s \in Sessions :
        (/\ Present(s) /\ table[s].scheduled
         /\ since[s] + Ahead + Window <= table[s].start
         /\ table[s].start < now + Ahead)
        => \/ table[s].marked
           \/ s \in dropped
           \/ \E d \in Dispatchers : s \in Holds(d)
=============================================================================
