----------------------------- MODULE MCCalendar -----------------------------
(***************************************************************************)
(* Calendar on two days, the 31st of one month and the first of the next,  *)
(* with two sessions on the first day: by daylight, and in the evening,    *)
(* when the UTC date is already in the next month. There is one assignable *)
(* role, and one that is not. The first member holds both; the second, who *)
(* is not active, only the latter. What is saved holds a row that could    *)
(* have been drawn and two that could not.                                 *)
(***************************************************************************)
EXTENDS CalendarViews

CONSTANTS morning, evening, m1, m2, singer, driver

MCSessions  == {morning, evening}
MCDays      == {1, 2}
MCMonths    == {1, 2}
MCUtcDay    == [s \in MCSessions |-> IF s = morning THEN 1 ELSE 2]
MCLocalDay  == [s \in MCSessions |-> 1]
MCMonthOf   == [d \in MCDays |-> d]
MCDayNumber == [d \in MCDays |-> IF d = 1 THEN 31 ELSE 1]
MCLastDay   == [mo \in MCMonths |-> IF mo = 1 THEN 31 ELSE 30]
MCRoles     == {singer, driver}
MCRolesOf   == [m \in Members |-> IF m = m1 THEN MCRoles ELSE {driver}]
MCRosters   == {{<<m1, singer>>, <<m1, driver>>, <<m2, singer>>}}
=============================================================================
