---------------------------- MODULE LiveAttendance ----------------------------
(***************************************************************************)
(* Attendance and its live feed together: the commit of a QR check-in (and *)
(* of no other way to mark or delete attendance) queues the broadcast of   *)
(* its row to the sockets that watch the session.                          *)
(***************************************************************************)
EXTENDS CheckIn, AttendanceWS

(* Every session can be watched; a broadcast is known by the row's id.     *)
ASSUME LiveAssumption == Sessions \subseteq Channels /\ Ids \subseteq Casts

vars == <<checkInVars, wsVars>>

Init == CheckInInit /\ WSInit

Announces(t) == Inserts(t) /\ job[t].req.qr

(* The insert of either endpoint, with the task of the QR one.             *)
Mark(t) ==
    /\ Insert(t)
    /\ IF Announces(t) THEN Schedule(nextId, job[t].req.session) ELSE UNCHANGED wsVars

Next ==
    \/ \E t \in Threads : /\ CheckDevice(t) \/ CheckDuplicate(t)
                          /\ UNCHANGED wsVars
    \/ \E t \in Threads : Mark(t)
    \/ (DeleteAttendance \/ \E s \in Sessions : DeleteSession(s)) /\ UNCHANGED wsVars
    \/ WSNext /\ UNCHANGED checkInVars

Spec == Init /\ [][Next]_vars

TypeOK == CheckInTypeOK /\ WSTypeOK
=============================================================================
