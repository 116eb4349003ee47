----------------------------- MODULE Templates -----------------------------
(***************************************************************************)
(* Sessions generated from templates (app/routers/session_templates.py):   *)
(* the dates of a recurrence within a requested range, and the generation  *)
(* as a transaction that looks every date up before it adds a session, and *)
(* writes them all at its commit. Autoflush is off and nothing but the     *)
(* lookup keeps a title and start apart, so a lookup sees neither what the *)
(* same request has added nor what another has not committed.              *)
(*                                                                         *)
(* Days are numbered. Sessions come and go by generation only              *)
(* (SessionLifecycle has the rest), and without their end, place and       *)
(* status.                                                                 *)
(***************************************************************************)
EXTENDS Integers, FiniteSetsExt

CONSTANTS
    LastMonth,     \* months are numbered from 1
    First,         \* the day each begins, and the one after the last
    Weekday0,      \* the weekday of day 0, Monday is 0
    Templates,     \* ids of templates
    Kind,          \* the content of each
    Ranges,        \* what clients request: <<first day, last day>>
    Threads,       \* request threads
    None,          \* no reference date
    MaxRuns,       \* bound: requests ever served
    MaxEdits       \* bound: templates created or deleted

Frequency == {"daily", "weekly", "bi-weekly", "monthly"}

Months     == 1 .. LastMonth
Days       == First[1] .. First[LastMonth + 1] - 1
Month(d)   == CHOOSE m \in Months : First[m] <= d /\ d < First[m + 1]
Weekday(d) == (Weekday0 + d) % 7

(* day_of_week is a weekday, as its comment in the schema says and nothing *)
(* checks: the search for the anchor passes over any other number for ever *)
(* and ends in an overflow of the date.                                    *)
ASSUME TemplatesAssumption ==
    /\ LastMonth \in Nat \ {0} /\ Weekday0 \in 0 .. 6
    /\ First \in [1 .. LastMonth + 1 -> Nat]
    /\ \A m \in Months : /\ First[m + 1] - First[m] \in 28 .. 31
                        /\ \A n \in m + 1 .. LastMonth + 1 : First[m + 1] <= First[n]
    /\ \A d \in Days : \E m \in Months : First[m] <= d /\ d < First[m + 1]
    /\ Kind \in [Templates -> [title : STRING, start : Nat, frequency : Frequency,
                               day_of_week : 0 .. 6, reference : Days \cup {None},
                               active : BOOLEAN]]
    /\ Ranges \subseteq Days \X Days
    /\ \A r \in Ranges : r[1] + 6 \in Days
    /\ \A t \in Templates : Kind[t].reference # None => Kind[t].reference + 6 \in Days
    /\ MaxRuns \in Nat /\ MaxEdits \in Nat

VARIABLES
    templates,   \* session_templates rows
    sessions,    \* sessions rows
    job,         \* per thread: the generation it runs
    edits,       \* templates created or deleted so far
    runs,        \* history: the requests committed
    begun,       \* history: requests begun
    overlap      \* history: pairs of requests that ran at the same time

vars == <<templates, sessions, job, edits, runs, begun, overlap>>

Idle == [op |-> "idle"]

Init ==
    /\ templates \in SUBSET Templates
    /\ sessions = {}
    /\ job = [g \in Threads |-> Idle]
    /\ edits = 0
    /\ runs = {}
    /\ begun = 0
    /\ overlap = {}

-----------------------------------------------------------------------------
(* The dates of a recurrence. A template without a reference date is       *)
(* anchored at the first day requested.                                    *)

Anchor(k, from) ==
    LET ref == IF k.reference = None THEN from ELSE k.reference
    IN  Min({d \in ref .. ref + 6 : Weekday(d) = k.day_of_week})

(* Mutant: stepping back stops one fortnight early on the first day.       *)
FirstDate_Strict(anchor, from) ==
    IF anchor > from THEN Min({d \in from + 1 .. anchor : (anchor - d) % 14 = 0})
                     ELSE Min({d \in from .. from + 13 : (d - anchor) % 14 = 0})

(* Mutant: what lies after the first day is not stepped back.              *)
FirstDate_Before(anchor, from) ==
    IF anchor > from THEN Min({d \in from - 13 .. anchor : (anchor - d) % 14 = 0})
                     ELSE Min({d \in from .. from + 13 : (d - anchor) % 14 = 0})

(* From the anchor in steps of a fortnight, back as far as the first day   *)
(* requested allows, or forward until it is reached.                       *)
FirstDate(anchor, from) ==
    IF anchor > from THEN Min({d \in from .. anchor : (anchor - d) % 14 = 0})
                     ELSE Min({d \in from .. from + 13 : (d - anchor) % 14 = 0})

WeekOfMonth(d) == (d - First[Month(d)]) \div 7 + 1

(* The day of a month that has the anchor's weekday and week, if it has.   *)
Monthly(k, week, m) ==
    LET target == First[m] + ((k.day_of_week - Weekday(First[m])) % 7) + 7 * (week - 1)
    IN  {target} \cap (First[m] .. First[m + 1] - 1)

ValidDates(k, from, to) ==
    CASE k.frequency = "daily"     -> from .. to
      [] k.frequency = "weekly"    -> {d \in from .. to : Weekday(d) = k.day_of_week}
      [] k.frequency = "bi-weekly" ->
           LET first == FirstDate(Anchor(k, from), from)
           IN  {d \in first .. to : (d - first) % 14 = 0}
      [] k.frequency = "monthly"   ->
           LET week == WeekOfMonth(Anchor(k, from))
           IN  (from .. to) \cap UNION {Monthly(k, week, m) : m \in Month(from) .. Month(to)}

-----------------------------------------------------------------------------
(* The endpoints.                                                          *)

Edit == edits < MaxEdits /\ edits' = edits + 1 /\ UNCHANGED <<sessions, job, runs, begun, overlap>>

CreateTemplate(t) == Edit /\ t \notin templates /\ templates' = templates \cup {t}
DeleteTemplate(t) == Edit /\ t \in templates /\ templates' = templates \ {t}

Running == {g \in Threads : job[g] # Idle}

(* The active templates are read once.                                     *)
Generate(g) ==
    /\ job[g] = Idle /\ begun < MaxRuns
    /\ begun' = begun + 1
    /\ \E r \in Ranges :
         LET active == {t \in templates : Kind[t].active}
         IN  job' = [job EXCEPT ![g] =
                 [op |-> "generate", no |-> begun', from |-> r[1], to |-> r[2],
                  all |-> active, left |-> active, dates |-> {}, new |-> {}]]
    /\ overlap' = overlap \cup {{begun', job[h].no} : h \in Running}
    /\ UNCHANGED <<templates, sessions, edits, runs>>

(* The next template, in whatever order the rows came.                     *)
Take(g) ==
    /\ job[g] # Idle /\ job[g].dates = {}
    /\ \E t \in job[g].left :
         job' = [job EXCEPT ![g].left  = @ \ {t},
                            ![g].dates = {<<t, d>> : d \in ValidDates(Kind[t], job[g].from, job[g].to)}]
    /\ UNCHANGED <<templates, sessions, edits, runs, begun, overlap>>

(* What a lookup compares, and what the history knows of a session.        *)
Slot(t, d)    == [title |-> Kind[t].title, day |-> d, start |-> Kind[t].start]
Row(t, d, no) == [slot |-> Slot(t, d), by |-> <<no, t>>]

(* Mutant: the lookup is left out.                                         *)
Existing_None(slot) == {}

(* The committed sessions with the title and start.                        *)
Existing(slot) == {r \in sessions : r.slot = slot}

(* The next date is looked up, and added if there is no such session.      *)
Lookup(g) ==
    /\ job[g] # Idle /\ job[g].dates # {}
    /\ \E next \in job[g].dates :
         LET row == Row(next[1], next[2], job[g].no)
         IN  /\ \A x \in job[g].dates : next[2] <= x[2]
             /\ job' = [job EXCEPT ![g].dates = @ \ {next},
                                  ![g].new = IF Existing(row.slot) = {} THEN @ \cup {row} ELSE @]
    /\ UNCHANGED <<templates, sessions, edits, runs, begun, overlap>>

Commit(g) ==
    /\ job[g] # Idle /\ job[g].dates = {} /\ job[g].left = {}
    /\ sessions' = sessions \cup job[g].new
    /\ runs' = runs \cup {[from |-> job[g].from, to |-> job[g].to, all |-> job[g].all]}
    /\ job' = [job EXCEPT ![g] = Idle]
    /\ UNCHANGED <<templates, edits, begun, overlap>>

(* An exception, or the end of the process: nothing is written.            *)
Abort(g) ==
    /\ job[g] # Idle
    /\ job' = [job EXCEPT ![g] = Idle]
    /\ UNCHANGED <<templates, sessions, edits, runs, begun, overlap>>

Next == \/ \E t \in Templates : CreateTemplate(t) \/ DeleteTemplate(t)
        \/ \E g \in Threads : Generate(g) \/ Take(g) \/ Lookup(g) \/ Commit(g) \/ Abort(g)

Spec == Init /\ [][Next]_vars

-----------------------------------------------------------------------------
Rows == [slot : [title : {Kind[t].title : t \in Templates}, day : Days,
                 start : {Kind[t].start : t \in Templates}],
         by   : Nat \X Templates]

TypeOK ==
    /\ templates \subseteq Templates
    /\ sessions \subseteq Rows
    /\ job \in [Threads -> {Idle} \cup
         [op : {"generate"}, no : Nat, from : Days, to : Days, all : SUBSET Templates,
          left : SUBSET Templates, dates : SUBSET (Templates \X Days), new : SUBSET Rows]]
    /\ \A g \in Running : /\ <<job[g].from, job[g].to>> \in Ranges
                          /\ job[g].dates \subseteq job[g].all \X (job[g].from .. job[g].to)
    /\ runs \subseteq [from : Days, to : Days, all : SUBSET Templates]
    /\ edits \in Nat /\ begun \in Nat

(* Whether a recurrence falls on a day, whatever the range: every second   *)
(* week before and after the anchor, or the anchor's week of the month.    *)
OnCadence(k, anchor, d) ==
    /\ k.frequency = "daily" \/ Weekday(d) = k.day_of_week
    /\ k.frequency = "bi-weekly" => (d - anchor) % 14 = 0
    /\ k.frequency = "monthly" => WeekOfMonth(d) = WeekOfMonth(anchor)

(* The templates and days a request calls for, and their slots.            *)
Called(r) == {x \in r.all \X (r.from .. r.to) :
                OnCadence(Kind[x[1]], Anchor(Kind[x[1]], r.from), x[2])}
Due(r)    == {Slot(x[1], x[2]) : x \in Called(r)}

(* However a period is cut into requests, repeated, overlapping or not,    *)
(* its sessions are the days on which the recurrences of the requests'     *)
(* templates fall: none is missed, repeated off the rhythm, or spilled     *)
(* into the next month (generate_sessions).                                *)
CadenceIsKept == {r.slot : r \in sessions} = UNION {Due(r) : r \in runs}

(* Two sessions of a title with the same start come from two templates of  *)
(* one request, or from two requests that ran at the same time; repeating  *)
(* a request never doubles anything (generate_sessions).                   *)
DoublesHaveACause ==
    \A r, q \in sessions : r # q /\ r.slot = q.slot =>
        r.by[1] = q.by[1] \/ {r.by[1], q.by[1]} \in overlap
=============================================================================
