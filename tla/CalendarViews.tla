---------------------------- MODULE CalendarViews ----------------------------
(***************************************************************************)
(* Who the program says is unavailable, and which schedule it shows: the   *)
(* queries of routers/calendar.py that show a month, the CSV and PDF       *)
(* exports, the announcement and the members' feeds, the leaders' summary  *)
(* and the monthly availability reminder of core/scheduler.py, each over   *)
(* the rows of Calendar as they are at one moment. A month's sessions are  *)
(* selected by their UTC date, its days off by the date itself. Layout,    *)
(* names and order are left out, except that the reminder's calendar needs *)
(* its days to have a number that exists in the month it shows.            *)
(***************************************************************************)
EXTENDS Calendar

CONSTANTS
    Active,       \* members with is_active
    WithEmail,    \* members with an e-mail address
    RolesOf,      \* the roles each member holds
    Assignable,   \* roles with a display_order: the others have no column anywhere
    Upcoming,     \* sessions that are active or scheduled
    Rehearsals,   \* sessions of that type
    DayNumber,    \* the day of the month of each day
    LastDay       \* the number of days of each month

ASSUME ViewsAssumption ==
    /\ Active \subseteq Members /\ WithEmail \subseteq Members
    /\ Assignable \subseteq Roles /\ RolesOf \in [Members -> SUBSET Roles]
    /\ Upcoming \subseteq Sessions /\ Rehearsals \subseteq Sessions
    /\ DayNumber \in [Days -> Nat] /\ LastDay \in [Months -> Nat]
    /\ \A d \in Days : DayNumber[d] \in 1..LastDay[MonthOf[d]]

(* Active members with at least one assignable role.                       *)
Team == {m \in Active : RolesOf[m] \cap Assignable # {}}

-----------------------------------------------------------------------------
(* What the queries select.                                                *)

MonthSessions(mo) == {s \in Sessions : UtcMonth(s) = mo}

(* Mutant: a row counts whatever it says.                                  *)
OptedOut_AnyRow(s) == {m \in Members : mark[m][s] # "none"}

(* Session-level opt-outs.                                                 *)
OptedOut(s) == {m \in Members : mark[m][s] = "no"}

(* The days off of month mo, looked up by a date.                          *)
DayOffs(mo, d) == {m \in Members : MonthOf[d] = mo /\ mark[m][d] = "no"}

-----------------------------------------------------------------------------
(* Screens.                                                                *)

(* GET /availability/days: the days a member is shown as unavailable.      *)
OwnDays(m, mo) ==
    {d \in Days : MonthOf[d] = mo /\ mark[m][d] = "no"}
        \cup {LocalDay[s] : s \in {o \in MonthSessions(mo) : mark[m][o] = "no"}}

(* GET /availability: the matrix.                                          *)
Matrix(s) == OptedOut(s) \cup DayOffs(UtcMonth(s), LocalDay[s])

(* GET /availability/team: the opt-outs and the count of each session, and *)
(* who is unavailable on each day.                                         *)
TeamSession(s) ==
    LET out == OptedOut(s) \cup DayOffs(UtcMonth(s), LocalDay[s])
        left == Cardinality(Team) - Cardinality(out)
    IN  [out |-> out, available |-> IF left > 0 THEN left ELSE 0]

TeamDay(d) ==
    DayOffs(MonthOf[d], d)
        \cup UNION {OptedOut(s) : s \in {o \in MonthSessions(MonthOf[d]) : LocalDay[o] = d}}

(* What the automatic schedule takes for unavailable.                      *)
DraftOut(s) == OptedOut(s) \cup DayOffs(UtcMonth(s), LocalDay[s])

-----------------------------------------------------------------------------
(* Exports: the day off is looked up by the session's UTC date.            *)

(* Only members with an assignable role have a row.                        *)
CsvFree(s) == Team \ (OptedOut(s) \cup DayOffs(UtcMonth(s), UtcDay[s]))

PdfFree(s) == Active \ (OptedOut(s) \cup DayOffs(UtcMonth(s), UtcDay[s]))

-----------------------------------------------------------------------------
(* The schedule: which rows are shown for which sessions of a month.       *)

(* GET /schedule/{year}/{month}, with the month's state.                   *)
MonthSchedule(mo) ==
    [rows |-> [s \in MonthSessions(mo) |-> assign[s]],
     locked |-> IsMonthLocked(mo), told |-> mo \in notified]

(* The CSV and the PDF leave out rehearsals and what is over, and have a   *)
(* column for each assignable role only.                                   *)
Exported(mo) == (MonthSessions(mo) \cap Upcoming) \ Rehearsals

CsvSchedule(mo) == [s \in Exported(mo) |-> {r \in assign[s] : r.role \in Assignable}]
PdfSchedule(mo) == [s \in Exported(mo) |-> {r \in assign[s] : r.role \in Assignable}]

(* A member's own rows, whatever the role.                                 *)
OwnRows(m, mo) == [s \in MonthSessions(mo) \cap Upcoming |-> {r \in assign[s] : r.who = m}]

(* The announcement is a mail and a calendar file for each member it goes  *)
(* to.                                                                     *)
Announcement(mo) == [m \in Team \cap WithEmail |-> OwnRows(m, mo)]

(* The feed of a member that is asked for a month.                         *)
Feed(m, mo) == OwnRows(m, mo)

(* What the automatic schedule may draw: an upcoming session that is no    *)
(* rehearsal, an assignable role, an active member who holds it.           *)
Drawable(s) ==
    IF s \in Upcoming \ Rehearsals
    THEN {p \in Active \X Assignable : p[2] \in RolesOf[p[1]]}
    ELSE {}

-----------------------------------------------------------------------------
(* Messages.                                                               *)

(* The leaders' summary of one session asks for its local day's days off,  *)
(* whatever their month.                                                   *)
SummaryFree(s) == Team \ (OptedOut(s) \cup {m \in Members : mark[m][LocalDay[s]] = "no"})

(* The monthly reminder of the month after this one.                       *)
ReminderMonth == thisMonth + 1

ReminderDays(m) ==
    {d \in Days : MonthOf[d] = ReminderMonth /\ mark[m][d] = "no"}
        \cup {LocalDay[s] : s \in {o \in MonthSessions(ReminderMonth) : mark[m][o] = "no"}}

(* Its calendar raises on a day whose number the month does not have, and  *)
(* the exception ends the run: whoever comes later is not written to.      *)
Printable(m) == \A d \in ReminderDays(m) : DayNumber[d] <= LastDay[ReminderMonth]

(* Who is sure to be written to, whatever the order of the members.        *)
Reminded ==
    IF lock[ReminderMonth] = "locked" THEN {}
    ELSE IF \A m \in Team : Printable(m) THEN Team
    ELSE {}

-----------------------------------------------------------------------------
(* A day a member marked is what every screen, export, summary, draft and  *)
(* reminder says of it and of the day's plain sessions, as long as two of  *)
(* the member's own requests never overlapped (calendar.py:83-84, "marks   *)
(* the whole day as unavailable").                                         *)
MarkIsShownEverywhere ==
    \A m \in Team \ clashed, s \in Sessions :
        LET d == LocalDay[s]
        IN  Plain(s) =>
            /\ mark[m][d] = "no" =>
                 /\ m \in Matrix(s) \cap TeamSession(s).out \cap DraftOut(s) \cap TeamDay(d)
                 /\ m \notin CsvFree(s) \cup PdfFree(s) \cup SummaryFree(s)
                 /\ d \in OwnDays(m, MonthOf[d])
                 /\ ReminderMonth = MonthOf[d] => d \in ReminderDays(m)
            /\ mark[m][d] = "yes" =>
                 /\ m \notin Matrix(s) \cup TeamSession(s).out \cup DraftOut(s)
                 /\ m \in CsvFree(s) \cap PdfFree(s) \cap SummaryFree(s)

(* A saved schedule is final and told: its month is locked, and shows so,  *)
(* unless the administrator opened it (calendar.py:575 "Auto-locks the     *)
(* month(s)"); and what was saved as the automatic schedule drew it stands *)
(* on its page, in both exports, in the member's feed and, given an        *)
(* address, in the member's announcement, although each selects sessions,  *)
(* roles and members anew. Rows assigned by hand are on the page, but need *)
(* not be anywhere else. The lock goes by local months, the pages by UTC ones: the *)
(* page of an evening session on a month's last day is the next month's.   *)
SavedIsShownLocked ==
    \A s \in Sessions : \A r \in assign[s] :
        LET here == UtcMonth(s)
        IN  /\ lock[LocalMonth(s)] = "locked" \/ LocalMonth(s) \in opened
            /\ LocalMonth(s) = here => MonthSchedule(here).locked \/ here \in opened
            /\ <<r.who, r.role>> \in Drawable(s) =>
                 /\ r \in MonthSchedule(here).rows[s] \cap Feed(r.who, here)[s]
                 /\ r \in CsvSchedule(here)[s] \cap PdfSchedule(here)[s]
                 /\ r.who \in WithEmail => r \in Announcement(here)[r.who][s]

(* scheduler.py:190-192: a run without member_ids is for "all eligible     *)
(* members" of a month that is not locked.                                 *)
ReminderReachesTeam ==
    (ReminderMonth \in Months /\ lock[ReminderMonth] # "locked") => Reminded = Team
=============================================================================
