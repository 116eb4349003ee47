------------------------------- MODULE CheckIn -------------------------------
(***************************************************************************)
(* Marking attendance (app/routers/attendance.py mark_attendance,          *)
(* app/routers/qr_attendance.py mark_qr_attendance) with the checks of     *)
(* app/services/attendance.py validate_attendance, and the deletions of    *)
(* attendance rows and sessions. Each check is a query of its own and the  *)
(* table has no unique constraint, so requests interleave between them.    *)
(* A request that a check refuses changes nothing and is not a step.       *)
(***************************************************************************)
EXTENDS Integers, FiniteSets

CONSTANTS
    Members, Sessions,
    Devices, NoDevice,  \* device ids, and none sent
    Nobody,             \* marked_by_id is NULL
    Fenced,             \* sessions with a location and a radius
    Modes,              \* values of DEVICE_ID_MODE to start with
    Threads,            \* request threads
    Asked,              \* bound: the requests that are made
    MaxMarks            \* bound: rows ever inserted

Ids == 1..MaxMarks
Request == [member : Members, session : Sessions, device : Devices \cup {NoDevice},
            by : Members \cup {Nobody}, near : BOOLEAN, qr : BOOLEAN]

ASSUME CheckInAssumption ==
    /\ Fenced \subseteq Sessions
    /\ Modes \subseteq {"fingerprint", "localStorage"}
    /\ Asked \subseteq Request
    /\ \A q \in Asked : q.qr => q.by = q.member
    /\ MaxMarks \in Nat

VARIABLES
    mode,        \* settings.device_id_mode
    attendance,  \* committed rows: the id and the request they came from
    nextId,      \* the id sequence
    existing,    \* sessions not deleted
    job,         \* per thread: how far its handler is, and the request
    raced        \* history: sessions two of whose requests overlapped

checkInVars == <<mode, attendance, nextId, existing, job, raced>>

NoJob == [stage |-> "idle"]

CheckInInit ==
    /\ mode \in Modes
    /\ attendance = {}
    /\ nextId = 1
    /\ existing = Sessions
    /\ job = [t \in Threads |-> NoJob]
    /\ raced = {}

Busy(s) == {t \in Threads : job[t].stage # "idle" /\ job[t].req.session = s}

(* Not marked by somebody else.                                            *)
SelfCheckIn(q) == q.by \in {Nobody, q.member}

(* Mutant: a collision is only logged in localStorage mode too.            *)
DeviceLocked_Never(q) == FALSE

(* In localStorage mode a device used for another member, by whomever,     *)
(* blocks a self check-in; in fingerprint mode it is only logged.          *)
DeviceLocked(q) ==
    /\ mode = "localStorage"
    /\ SelfCheckIn(q) /\ q.device # NoDevice
    /\ \E r \in attendance : /\ r.req.session = q.session
                             /\ r.req.device = q.device
                             /\ r.req.member # q.member

OutOfFence(q) == SelfCheckIn(q) /\ q.session \in Fenced /\ ~q.near

(* Member and session exist, then the device lock and the geofence. A QR   *)
(* check-in is always marked by the member.                                *)
CheckDevice(t) ==
    /\ job[t].stage = "idle"
    /\ nextId <= MaxMarks
    /\ \E q \in Asked :
         /\ q.session \in existing
         /\ ~DeviceLocked(q) /\ ~OutOfFence(q)
         /\ job' = [job EXCEPT ![t] = [stage |-> "checked", req |-> q]]
         /\ raced' = IF Busy(q.session) = {} THEN raced ELSE raced \cup {q.session}
    /\ UNCHANGED <<mode, attendance, nextId, existing>>

(* Mutant: only rows the member entered are looked at.                     *)
Duplicate_SelfOnly(q) ==
    \E r \in attendance : /\ r.req.member = q.member /\ r.req.session = q.session
                          /\ SelfCheckIn(r.req)

Duplicate(q) ==
    \E r \in attendance : r.req.member = q.member /\ r.req.session = q.session

(* The duplicate check; a duplicate ends the request (409).                *)
CheckDuplicate(t) ==
    /\ job[t].stage = "checked"
    /\ job' = [job EXCEPT ![t] = IF Duplicate(job[t].req) THEN NoJob
                                 ELSE [stage |-> "insert", req |-> job[t].req]]
    /\ UNCHANGED <<mode, attendance, nextId, existing, raced>>

(* The INSERT fails on the foreign key if the session is gone.             *)
Inserts(t) == job[t].stage = "insert" /\ job[t].req.session \in existing

(* Bound: the row beyond the last id is never written.                     *)
Insert(t) ==
    /\ job[t].stage = "insert"
    /\ Inserts(t) => nextId <= MaxMarks
    /\ IF Inserts(t)
       THEN /\ attendance' = attendance \cup {[id |-> nextId, req |-> job[t].req]}
            /\ nextId' = nextId + 1
       ELSE UNCHANGED <<attendance, nextId>>
    /\ job' = [job EXCEPT ![t] = NoJob]
    /\ UNCHANGED <<mode, existing, raced>>

(* DELETE of one row, and POST /bulk-delete of several.                    *)
DeleteAttendance ==
    /\ \E R \in SUBSET attendance \ {{}} : attendance' = attendance \ R
    /\ UNCHANGED <<mode, nextId, existing, job, raced>>

(* A deleted session takes its attendance with it.                         *)
DeleteSession(s) ==
    /\ s \in existing
    /\ existing' = existing \ {s}
    /\ attendance' = {r \in attendance : r.req.session # s}
    /\ UNCHANGED <<mode, nextId, job, raced>>

CheckInNext ==
    \/ \E t \in Threads : CheckDevice(t) \/ CheckDuplicate(t) \/ Insert(t)
    \/ DeleteAttendance
    \/ \E s \in Sessions : DeleteSession(s)

CheckInSpec == CheckInInit /\ [][CheckInNext]_checkInVars

-----------------------------------------------------------------------------
CheckInTypeOK ==
    /\ mode \in Modes
    /\ attendance \subseteq [id : Ids, req : Asked]
    /\ nextId \in 1..(MaxMarks + 1)
    /\ existing \subseteq Sessions
    /\ job \in [Threads -> [stage : {"idle"}]
                      \cup [stage : {"checked", "insert"}, req : Asked]]
    /\ raced \subseteq Sessions

(* Nobody has two rows in a session, self check-in, QR or by hand, unless  *)
(* two requests for the session overlapped (validate_attendance:97-104).   *)
DoubleOnlyIfRaced ==
    \A r1, r2 \in attendance :
        (/\ r1 # r2
         /\ r1.req.member = r2.req.member /\ r1.req.session = r2.req.session)
            => r1.req.session \in raced

(* In localStorage mode the later of two rows of one device and session    *)
(* for different members was entered by a third person, unless two         *)
(* requests for the session overlapped; and every row a member entered for *)
(* a fenced session was sent from inside the fence.                        *)
SelfCheckInIsGenuine ==
    /\ \A r1, r2 \in attendance :
         (/\ mode = "localStorage" /\ r1.id < r2.id
          /\ r1.req.session = r2.req.session /\ r1.req.member # r2.req.member
          /\ r1.req.device = r2.req.device /\ r1.req.device # NoDevice)
             => ~SelfCheckIn(r2.req) \/ r1.req.session \in raced
    /\ \A r \in attendance :
         (SelfCheckIn(r.req) /\ r.req.session \in Fenced) => r.req.near

(* A check-in of a session whose requests do not overlap happens at one    *)
(* instant: what the three checks found, in queries of their own, is still *)
(* so when the row is committed (validate_attendance:35-104).              *)
Register == INSTANCE AttendanceRegister WITH
    strict    <- mode = "localStorage",
    rows      <- attendance,
    next      <- nextId,
    open      <- existing,
    contended <- raced,
    Requests  <- Asked

CheckInsAreAtomic == Register!Spec
=============================================================================
