----------------------------- MODULE MCDirectory -----------------------------
(***************************************************************************)
(* Directory with two members, one of whom has the role, a key for a new   *)
(* member, one name and one number to compete for and a free e-mail.       *)
(***************************************************************************)
EXTENDS Directory, TLC

CONSTANTS m1, m2, m3, e1, e2, e3, r1, p1

MCMembers == {m1, m2, m3}
MCEmails  == {e1, e2, e3}
MCRows    == [m \in MCMembers |->
    IF m = m3 THEN Unborn ELSE [email |-> IF m = m1 THEN e1 ELSE e2, name |-> None, number |-> None]]
MCGrants  == [m \in MCMembers |-> IF m = m1 THEN {r1} ELSE {}]

MCSymmetry == Permutations(Threads)

(* A new member has a name or a number.                                    *)
MCCreations == [email : MCEmails, name : Names \cup {None}, number : {None}, grants : {{}}]
               \cup [email : MCEmails, name : {None}, number : Numbers, grants : {{}}]

(* A body sets one thing: the name, the e-mail, the number, or lists.      *)
Body(e, n, num, ls, new) ==
    [email |-> e, name |-> n, number |-> num, lists |-> ls, new |-> new]
MCUpdates ==
    {Body(Unset, n, Unset, {}, {}) : n \in Names \cup {None}}
    \cup {Body(e, Unset, Unset, {}, {}) : e \in MCEmails}
    \cup {Body(Unset, Unset, num, {}, {}) : num \in Numbers \cup {None}}
    \cup UNION {{Body(Unset, Unset, Unset, ls, new) : new \in SUBSET UNION ls} :
                   ls \in (SUBSET Lists) \ {{}}}

(* Lists are set on the first member. Attendance is marked in behaviours   *)
(* without changes of names and e-mails.                                   *)
MCBound ==
    \A t \in Threads :
        /\ job[t].op = "update" /\ job[t].lists # {} => job[t].who = m1
        /\ job[t].op = "update" /\ marks > 0 => job[t].lists # {}
        /\ job[t].op = "insert" => marks = 0
=============================================================================
