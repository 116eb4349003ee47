--------------------------- MODULE MCScheduleDraft ---------------------------
(***************************************************************************)
(* ScheduleDraft with three members, two assignable roles (the first of    *)
(* which needs a qualifier on Sundays) and three sessions: one whose local *)
(* date is outside the requested month, a Sunday and an ordinary day.      *)
(***************************************************************************)
EXTENDS ScheduleDraft

CONSTANTS m1, m2, m3, cantor

MCMembers    == {m1, m2, m3}
MCOtherRoles == {cantor}
MCQualifier  == [r \in 1..2 |-> IF r = 1 THEN cantor ELSE None]
MCDays       == 1..3
MCDay        == [s \in 1..3 |-> s]
MCSundays    == {2}
MCMonthDays  == {2, 3}

MCHolds ==
    {[m \in MCMembers |-> {1, 2, cantor}],
     [m \in MCMembers |-> IF m = m1 THEN {1, cantor} ELSE {1, 2}],
     [m \in MCMembers |-> IF m = m3 THEN {2, cantor} ELSE {1, 2, cantor}]}
MCActive   == {MCMembers, {m1, m2}}
MCOptOut   == SUBSET {<<m1, 1>>, <<m2, 2>>, <<m1, 3>>}
MCDayOff   == SUBSET {<<m1, 1>>, <<m1, 2>>, <<m3, 3>>}
MCRequired == {{1, 2}, {2}}
MCOverride ==
    {[s \in 1..3 |-> {None}], [s \in 1..3 |-> IF s = 2 THEN {1} ELSE {None}]}
=============================================================================
