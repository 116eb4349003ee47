--------------------------- MODULE MCLiveAttendance ---------------------------
(***************************************************************************)
(* LiveAttendance with one fenced session, two members who may use the     *)
(* same device, two request threads and three sockets.                     *)
(***************************************************************************)
EXTENDS LiveAttendance, TLC

MCWatches == [c \in Sockets |-> CHOOSE s \in Sessions : TRUE]
MCCasts   == 1..MaxMarks

Symmetry  == Permutations(Members) \cup Permutations(Threads) \cup Permutations(Sockets)

(* Bound: a third connection only while there is no second row.            *)
MCBound == nextId > 2 => \E c \in Sockets : sock[c] = "new"

(* Scans with one shared device, one of them by each member; an admin's    *)
(* mark with that device for a member who is elsewhere; a mark in one's    *)
(* own name from elsewhere, which the fence refuses.                       *)
MCAsked ==
    LET scan == [member : Members, session : Sessions, device : Devices,
                 by : Members, near : {TRUE}, qr : {TRUE}]
        hand == [member : Members, session : Sessions, device : Devices,
                 by : Members \cup {Nobody}, near : {FALSE}, qr : {FALSE}]
    IN  {q \in scan : q.by = q.member} \cup {q \in hand : q.by # q.member}
=============================================================================
