---------------------------- MODULE ScheduleDraft ----------------------------
(***************************************************************************)
(* The automatic schedule (app/routers/calendar.py, generate_schedule):    *)
(* the sessions of a month in order of start, their roles in display       *)
(* order, and for each role the choice of a least loaded valid member,     *)
(* ties broken at random. Everything is read before the loop begins, so    *)
(* one request is one behaviour, over any content of the tables.           *)
(*                                                                         *)
(* Sessions are numbered by start_time, assignable roles by display_order. *)
(* The sessions are those of a UTC month; Day is their local date, which   *)
(* for a session on the evening before is not in MonthDays.                *)
(***************************************************************************)
EXTENDS Integers, FiniteSets

CONSTANTS
    Members,
    N, K,            \* numbers of sessions and of assignable roles
    OtherRoles,      \* roles without a display_order
    None,            \* no qualifier
    Qualifier,       \* sunday_qualifier_role of each assignable role
    SundayFilter,    \* settings.enable_sunday_pool_filter
    Days, Day,       \* local dates, and the one of each session
    Sundays,         \* the local dates that are Sundays
    MonthDays,       \* the dates of the requested month
    HoldsInputs,     \* what the tables and the request may contain: roles of
    ActiveInputs,    \*   each member, active members, session-level opt-outs
    OptOutInputs,    \*   (pairs of member and session), days off (pairs of
    DayOffInputs,    \*   member and date), the roles asked for and the
    RequiredInputs,  \*   overrides of some sessions
    OverrideInputs

Sessions == 1..N
Roles    == 1..K
RoleName == Roles \cup OtherRoles

ASSUME DraftAssumption ==
    /\ N \in Nat /\ K \in Nat
    /\ None \notin RoleName \cup Members \cup Int
    /\ Qualifier \in [Roles -> RoleName \cup {None}]
    /\ SundayFilter \in BOOLEAN
    /\ Day \in [Sessions -> Days]
    /\ Sundays \subseteq Days /\ MonthDays \subseteq Days
    /\ HoldsInputs \subseteq [Members -> SUBSET RoleName]
    /\ ActiveInputs \subseteq SUBSET Members
    /\ OptOutInputs \subseteq SUBSET (Members \X Sessions)
    /\ DayOffInputs \subseteq SUBSET (Members \X Days)
    /\ RequiredInputs \subseteq SUBSET Roles
    /\ OverrideInputs \subseteq [Sessions -> (SUBSET Roles) \cup {{None}}]

Vacant == None

VARIABLES
    holds, active, optOut, dayOff, required, override,  \* read, never written
    session, role,   \* the loop counters
    scheduled,       \* scheduled_in_session
    counts,          \* assignment_counts
    draft            \* who serves in each role of each session, or Vacant

inputs == <<holds, active, optOut, dayOff, required, override>>
vars   == <<inputs, session, role, scheduled, counts, draft>>

Init ==
    /\ holds \in HoldsInputs /\ active \in ActiveInputs
    /\ optOut \in OptOutInputs /\ dayOff \in DayOffInputs
    /\ required \in RequiredInputs /\ override \in OverrideInputs
    /\ session = 1 /\ role = 1
    /\ scheduled = {}
    /\ counts = [m \in Members |-> 0]
    /\ draft = [s \in Sessions |-> [r \in Roles |-> Vacant]]

-----------------------------------------------------------------------------
(* The roles a session is drafted for: its override, else the request's.   *)
SessionRoles(s) == IF override[s] = {None} THEN required ELSE override[s]

(* Pools are built for the required roles only, of active members.         *)
MembersByRole(r) == {m \in active : r \in required /\ r \in holds[m]}

(* Mutant: any member who holds the qualifier or the role will do.         *)
Pool_AnySinger(s, r) ==
    IF SundayFilter /\ Day[s] \in Sundays /\ Qualifier[r] # None
    THEN {m \in active : Qualifier[r] \in holds[m] \/ m \in MembersByRole(r)}
    ELSE MembersByRole(r)

(* On Sundays only holders of the role's qualifier, if it has one.         *)
Pool(s, r) ==
    IF SundayFilter /\ Day[s] \in Sundays /\ Qualifier[r] # None
    THEN {m \in MembersByRole(r) : Qualifier[r] \in holds[m]}
    ELSE MembersByRole(r)

(* Mutant: a day off is only looked up through the session's opt-outs.     *)
Unavailable_OptOutOnly(s) == {m \in Members : <<m, s>> \in optOut}

(* Opt-outs of the session, and the days off of the requested month.       *)
Unavailable(s) ==
    {m \in Members : \/ <<m, s>> \in optOut
                     \/ Day[s] \in MonthDays /\ <<m, Day[s]>> \in dayOff}

(* Who can take role r of session s, leaving aside who serves in it.       *)
Eligible(s, r) == Pool(s, r) \ Unavailable(s)

(* Mutant: a member may take a second role in the session.                 *)
Valid_Twice == Eligible(session, role)

(* Mutant: whoever served last is left out, too.                           *)
Valid_NotLast ==
    {m \in Eligible(session, role) \ scheduled :
        session = 1 \/ draft[session - 1][role] # m}

Valid == Eligible(session, role) \ scheduled

(* Mutant: the draw is uniform, counts are not looked at.                  *)
LeastLoaded_Random(S) == S

LeastLoaded(S) == {m \in S : \A n \in S : counts[m] <= counts[n]}

Assign ==
    /\ session \in Sessions /\ role \in SessionRoles(session)
    /\ \E m \in LeastLoaded(Valid) :
         /\ scheduled' = scheduled \cup {m}
         /\ counts' = [counts EXCEPT ![m] = @ + 1]
         /\ draft' = [draft EXCEPT ![session][role] = m]
    /\ role' = role + 1
    /\ UNCHANGED <<inputs, session>>

(* Mutant: the role counter runs past the last role.                       *)
Skip_PastTheEnd ==
    /\ session \in Sessions /\ role \in 1..(K + 1)
    /\ role \in SessionRoles(session) => Valid = {}
    /\ role' = role + 1
    /\ UNCHANGED <<inputs, session, scheduled, counts, draft>>

(* No valid member, or the role is not one of the session's.               *)
Skip ==
    /\ session \in Sessions /\ role \in Roles
    /\ role \in SessionRoles(session) => Valid = {}
    /\ role' = role + 1
    /\ UNCHANGED <<inputs, session, scheduled, counts, draft>>

NextSession ==
    /\ session \in Sessions /\ role = K + 1
    /\ session' = session + 1
    /\ role' = 1
    /\ scheduled' = {}
    /\ UNCHANGED <<inputs, counts, draft>>

Next == Assign \/ Skip \/ NextSession

Spec == Init /\ [][Next]_vars

-----------------------------------------------------------------------------
TypeOK ==
    /\ holds \in [Members -> SUBSET RoleName] /\ active \subseteq Members
    /\ optOut \subseteq Members \X Sessions /\ dayOff \subseteq Members \X Days
    /\ required \subseteq Roles
    /\ override \in [Sessions -> (SUBSET Roles) \cup {{None}}]
    /\ session \in 1..(N + 1) /\ role \in 1..(K + 1)
    /\ scheduled \subseteq Members
    /\ counts \in [Members -> Nat]
    /\ draft \in [Sessions -> [Roles -> Members \cup {Vacant}]]

Serves(m, s, r) == draft[s][r] = m
Done(s, r) == s < session \/ (s = session /\ r < role)

(* No member serves in two roles of a session (calendar.py:518-519, 535).  *)
NobodyTwice ==
    \A s \in Sessions, r1, r2 \in Roles, m \in Members :
        (Serves(m, s, r1) /\ Serves(m, s, r2)) => r1 = r2

(* Whoever serves is active, holds the role and, on a Sunday, its          *)
(* qualifier, has not opted out of the session and is not off that day,    *)
(* when the day belongs to the requested month.                            *)
ServesRightly ==
    \A s \in Sessions, r \in Roles, m \in Members :
        Serves(m, s, r) =>
            /\ m \in active /\ r \in holds[m]
            /\ (SundayFilter /\ Day[s] \in Sundays /\ Qualifier[r] # None)
                   => Qualifier[r] \in holds[m]
            /\ <<m, s>> \notin optOut
            /\ Day[s] \in MonthDays => <<m, Day[s]>> \notin dayOff

(* A role the session and the request ask for is left vacant only if every *)
(* member who could take it serves in an earlier role of the session.      *)
VacantOnlyIfNobodyLeft ==
    \A s \in Sessions, r \in Roles :
        (Done(s, r) /\ r \in SessionRoles(s) \cap required /\ draft[s][r] = Vacant)
            => \A m \in Eligible(s, r) : \E q \in 1..(r - 1) : Serves(m, s, q)

(* Members the draft cannot tell apart.                                    *)
Twins(a, b) == \A s \in Sessions, r \in Roles : a \in Eligible(s, r) <=> b \in Eligible(s, r)

(* calendar.py:540 "Sort by least number of assignments this month to      *)
(* balance load": two members who can take the same roles on the same      *)
(* sessions never end up more than one assignment apart, at any point.     *)
TwinsStayBalanced ==
    \A a, b \in Members : Twins(a, b) => counts[a] <= counts[b] + 1
=============================================================================
