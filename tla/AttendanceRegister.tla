--------------------------- MODULE AttendanceRegister ---------------------------
(***************************************************************************)
(* What marking attendance promises (validate_attendance of                *)
(* app/services/attendance.py; the repository's README.md:242, "a member   *)
(* cannot mark attendance twice for the same session"): a mark is decided  *)
(* and entered at one instant. The duplicate and device rules are promised *)
(* for sessions that are not contended, the geofence for all.              *)
(***************************************************************************)
EXTENDS Naturals

CONSTANTS
    Sessions,
    Requests,           \* [member, session, device, by, near]
    NoDevice, Nobody,
    Fenced              \* sessions with a geofence

VARIABLES
    strict,     \* does a device admit one member only
    rows,       \* the register: the number of a row and its request
    next,       \* the number of the next row
    open,       \* sessions that exist
    contended   \* sessions that two requests have wanted at once

Init ==
    /\ strict \in BOOLEAN
    /\ rows = {} /\ next = 1
    /\ open = Sessions
    /\ contended = {}

InPerson(q) == q.by \in {Nobody, q.member}

Unmarked(q) == \A r \in rows : r.req.session = q.session => r.req.member # q.member

(* Nobody checks in with a device that has marked somebody else.           *)
OwnDevice(q) ==
    (strict /\ InPerson(q) /\ q.device # NoDevice) =>
        \A r \in rows : (r.req.session = q.session /\ r.req.device = q.device)
                            => r.req.member = q.member

InFence(q) == InPerson(q) /\ q.session \in Fenced => q.near

Mark(q) ==
    /\ q.session \in open
    /\ InFence(q)
    /\ q.session \in contended \/ (Unmarked(q) /\ OwnDevice(q))
    /\ rows' = rows \cup {[id |-> next, req |-> q]}
    /\ next' = next + 1
    /\ UNCHANGED <<strict, open, contended>>

Contend(s) ==
    /\ contended' = contended \cup {s}
    /\ UNCHANGED <<strict, rows, next, open>>

Erase ==
    /\ \E R \in SUBSET rows : rows' = rows \ R
    /\ UNCHANGED <<strict, next, open, contended>>

Close(s) ==
    /\ open' = open \ {s}
    /\ rows' = {r \in rows : r.req.session # s}
    /\ UNCHANGED <<strict, next, contended>>

Next == \/ \E q \in Requests : Mark(q)
        \/ Erase
        \/ \E s \in Sessions : Contend(s) \/ Close(s)

Spec == Init /\ [][Next]_<<strict, rows, next, open, contended>>
=============================================================================
