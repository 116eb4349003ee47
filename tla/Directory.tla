------------------------------ MODULE Directory ------------------------------
(***************************************************************************)
(* The members' directory: app/routers/members.py over the members, their  *)
(* roles and permissions (app/models/associations.py, tables without a     *)
(* key) and the attendance rows that refer to them. Requests read in one   *)
(* transaction and flush and commit at its end, so requests on one member  *)
(* interleave; the database keeps e-mails and numbers unique, and the      *)
(* references. `number` stands for phone_number and nfc_id, two columns    *)
(* that are unique, may be NULL, and are written as they come, without a   *)
(* look at who has them. The fields nothing depends on and the callers'    *)
(* permissions are left out.                                               *)
(***************************************************************************)
EXTENDS Integers, FiniteSets

CONSTANTS
    Members,       \* primary keys, used or not
    Emails,        \* lower case, as the schemas store them
    Names,         \* preferred first names, up to case
    Numbers,       \* phone and NFC numbers
    None,          \* no preferred first name, no number, no member
    Unset,         \* a field the body leaves out
    Unborn, Gone,  \* the row of a key not used yet, of a deleted member
    Roles, Permissions,
    Default,       \* the permission "member", if the table has it
    FirstRows,     \* the members to start with
    FirstGrants,   \* and what they hold
    Creations,     \* bound: bodies of POST /members
    Updates,       \* bound: bodies of PUT /members/{id}
    Threads,       \* request threads
    MaxRequests,   \* bound: requests that read the database
    MaxMarks       \* bound: attendance rows ever inserted

Grants == Roles \cup Permissions
Lists  == {Roles, Permissions}
Row    == [email : Emails, name : Names \cup {None}, number : Numbers \cup {None}]

(* What the bodies may say, validated: a blank name is None, any other has *)
(* three letters or more and is stored in title case; e-mails are stored   *)
(* in lower case. An update may leave fields out, a profile has a name and *)
(* nothing else that matters here.                                         *)
MemberCreate  == [email : Emails, name : Names \cup {None}, number : Numbers \cup {None},
                  grants : SUBSET Grants]
MemberUpdate  == UNION {[email : Emails \cup {Unset}, name : Names \cup {None, Unset},
                         number : Numbers \cup {None, Unset},
                         lists : {lists}, new : SUBSET UNION lists] : lists \in SUBSET Lists}
ProfileUpdate == [email : {Unset}, name : Names \cup {None, Unset}, number : {Unset},
                  lists : {{}}, new : {{}}]

ASSUME DirectoryAssumption ==
    /\ None \notin Emails \cup Names \cup Numbers \cup Members
    /\ Unset \notin Names \cup Emails \cup Numbers \cup {None}
    /\ {Unborn, Gone} \cap Row = {} /\ Unborn # Gone
    /\ Roles \cap Permissions = {} /\ Default \subseteq Permissions
    /\ IsFiniteSet(Grants)
    /\ FirstRows \in [Members -> Row \cup {Unborn}]
    /\ \A m, o \in Members : m # o /\ {FirstRows[m], FirstRows[o]} \subseteq Row =>
          /\ FirstRows[m].email # FirstRows[o].email
          /\ FirstRows[m].name = FirstRows[o].name => FirstRows[m].name = None
          /\ FirstRows[m].number = FirstRows[o].number => FirstRows[m].number = None
    /\ FirstGrants \in [Members -> SUBSET Grants]
    /\ \A m \in Members : FirstRows[m] = Unborn => FirstGrants[m] = {}
    /\ Creations \subseteq MemberCreate /\ Updates \subseteq MemberUpdate
    /\ {MaxRequests, MaxMarks} \subseteq Nat

VARIABLES
    rows,      \* committed members
    held,      \* how many association rows a member and a grant have
    att,       \* attendance rows: [no, member, by], by for marked_by_id
    job,       \* per thread: the handler it runs and what it has read
    reads,     \* requests so far
    marks,     \* attendance rows so far
    asked,     \* history: the grants last asked for each member
    raced,     \* history: names and lists that two requests wrote at once
    failed     \* history: what went with each database error

vars == <<rows, held, att, job, reads, marks, asked, raced, failed>>
data == <<rows, held, att, asked>>

Idle == [op |-> "idle"]

Init ==
    /\ rows = FirstRows
    /\ held = [m \in Members |-> [g \in Grants |-> IF g \in FirstGrants[m] THEN 1 ELSE 0]]
    /\ att = {} /\ marks = 0 /\ reads = 0
    /\ job = [t \in Threads |-> Idle]
    /\ asked = FirstGrants
    /\ raced = {} /\ failed = {}

-----------------------------------------------------------------------------
(* What a request reads and checks.                                        *)

Present == {m \in Members : rows[m] \in Row}

(* Mutant: only the members with a role are looked at.                     *)
NameTaken_OfRole(m, n) ==
    n \in Names /\ \E o \in Present \ {m} : rows[o].name = n /\ \E r \in Roles : held[o][r] > 0

(* The check of preferred_displayed_firstname, for member m or for None.   *)
NameTaken(m, n) == n \in Names /\ \E o \in Present \ {m} : rows[o].name = n

(* The unique column behind the e-mail.                                    *)
EmailInUse(m, e) == \E o \in Present \ {m} : rows[o].email = e

(* Mutant: the e-mail is not looked up.                                    *)
EmailTaken_Never(m, e) == FALSE

EmailTaken(m, e) == EmailInUse(m, e)

(* The unique columns behind the numbers, which nothing looks up.          *)
NumberInUse(m, n) == n \in Numbers /\ \E o \in Present \ {m} : rows[o].number = n

(* What a lazy load of the collections returns: no grant appears twice.    *)
Loaded(m) == {g \in Grants : held[m][g] > 0}

Begin(t, j) ==
    /\ job[t] = Idle /\ reads < MaxRequests
    /\ reads' = reads + 1
    /\ job' = [job EXCEPT ![t] = j]
    /\ UNCHANGED <<data, marks, raced, failed>>

(* POST /members: the two checks, and the grants. No permission asked for  *)
(* means the default one.                                                  *)
Create(t) ==
    \E b \in Creations :
        /\ ~EmailTaken(None, b.email) /\ ~NameTaken(None, b.name)
        /\ Begin(t, [op |-> "insert", email |-> b.email, name |-> b.name, number |-> b.number,
                     new |-> IF b.grants \cap Permissions = {} THEN b.grants \cup Default
                             ELSE b.grants,
                     late |-> {}])

(* The row is read; the body is the rest of the request.                   *)
Change(t, m, b) ==
    /\ m \in Present
    /\ Begin(t, [op |-> "update", who |-> m, read |-> rows[m],
                 email |-> IF b.email = Unset THEN rows[m].email ELSE b.email,
                 name |-> b.name, number |-> b.number,
                 lists |-> b.lists, new |-> b.new, late |-> {}])

(* PUT /members/{id}, and PUT /me by the member.                           *)
Update(t)  == \E m \in Members, b \in Updates : Change(t, m, b)
Profile(t) == \E m \in Members, b \in ProfileUpdate : Change(t, m, b)

(* The checks, and the collections about to be replaced. An e-mail that    *)
(* does not change is not checked.                                         *)
UpdateCheck(t) ==
    /\ job[t].op = "update"
    /\ LET j == job[t]
           refused == \/ j.email # j.read.email /\ EmailTaken(j.who, j.email)
                      \/ NameTaken(j.who, j.name)
           save == [op |-> "save", who |-> j.who, read |-> j.read, email |-> j.email,
                    name |-> j.name, number |-> j.number, lists |-> j.lists,
                    old |-> Loaded(j.who) \cap UNION j.lists, new |-> j.new, late |-> j.late]
       IN  job' = [job EXCEPT ![t] = IF refused THEN Idle ELSE save]
    /\ UNCHANGED <<data, reads, marks, raced, failed>>

(* DELETE /members/{id}.                                                   *)
Delete(t) ==
    \E m \in Present : Begin(t, [op |-> "delete", who |-> m, late |-> {}])

(* The flush loads the member's attendance rows and both collections.      *)
DeleteLoad(t) ==
    /\ job[t].op = "delete"
    /\ LET j == job[t]
       IN  job' = [job EXCEPT ![t] =
               [op |-> "remove", who |-> j.who, old |-> Loaded(j.who),
                att |-> {a \in att : a.member = j.who}, late |-> j.late]]
    /\ UNCHANGED <<data, reads, marks, raced, failed>>

-----------------------------------------------------------------------------
(* What a request writes. A write is late for the requests under way.      *)

Tell(t, what) ==
    [u \in Threads |->
        IF u = t THEN Idle
        ELSE IF job[u] = Idle THEN Idle
        ELSE [job[u] EXCEPT !.late = @ \cup what]]

Renames(j)   == j.name # Unset /\ j.name # j.read.name
Readdress(j) == j.email # j.read.email
Renumbers(j) == j.number # Unset /\ j.number # j.read.number

(* The number it puts into a row that had another.                         *)
NewNumber(j) ==
    CASE j.op = "insert" -> j.number
      [] j.op = "save"   -> IF Renumbers(j) THEN j.number ELSE None
      [] j.op = "remove" -> None

(* What j writes, as the others are told of it.                            *)
Writes(j) ==
    CASE j.op = "insert" -> {<<"email", j.email>>, <<"name", j.name>>}
      [] j.op = "save"   -> {<<"row", j.who>>} \cup {<<"list", j.who, L>> : L \in j.lists}
                            \cup (IF Renames(j) THEN {<<"name", j.name>>} ELSE {})
                            \cup (IF Readdress(j) THEN {<<"email", j.email>>} ELSE {})
      [] j.op = "remove" -> {<<"row", j.who>>, <<"marks", j.who>>}

Crossed(j) == {w \in Writes(j) \cap j.late : w[1] \in {"name", "list"} /\ w[2] # None}

Done(t, ok) ==
    LET j == job[t]
    IN  /\ job' = Tell(t, IF ok THEN Writes(j) ELSE {})
        /\ raced' = IF ok THEN raced \cup Crossed(j) ELSE raced
        /\ UNCHANGED <<reads, marks>>

(* A database error: the transaction is rolled back and the client gets a  *)
(* 500. The record says what stood beside it.                              *)
Fail(t, m) ==
    LET j == job[t]
    IN  /\ Done(t, FALSE)
        /\ failed' = failed \cup {[op |-> j.op, beside |-> Writes(j) \cap j.late # {},
              number  |-> NumberInUse(m, NewNumber(j)),
              marked  |-> j.op = "remove" /\ \E a \in att : a.by = m,
              doubled |-> m # None /\ \E g \in Grants : held[m][g] > 1]}
        /\ UNCHANGED data

(* The association rows of a member and some grants.                       *)
Associations(m, gs) == UNION {{g} \X (1 .. held[m][g]) : g \in gs}

(* A DELETE of association rows must meet as many rows as it names.        *)
CountsMatch(m, gone) ==
    \A L \in Lists : Cardinality(Associations(m, gone \cap L)) = Cardinality(gone \cap L)

(* Mutant: every grant asked for is inserted.                              *)
Granted_Again(j, g) == IF g \in j.new THEN held[j.who][g] + 1
                       ELSE IF g \in j.old THEN 0 ELSE held[j.who][g]

(* The association rows of a grant after a save.                           *)
Granted(j, g) == IF g \in j.new \ j.old THEN held[j.who][g] + 1
                 ELSE IF g \in j.old \ j.new THEN 0 ELSE held[j.who][g]

Insert(t) ==
    /\ job[t].op = "insert"
    /\ LET j == job[t]
       IN  IF EmailInUse(None, j.email) \/ NumberInUse(None, j.number) THEN Fail(t, None)
           ELSE \E m \in Members :
                /\ rows[m] = Unborn
                /\ rows' = [rows EXCEPT ![m] =
                       [email |-> j.email, name |-> j.name, number |-> j.number]]
                /\ held' = [held EXCEPT ![m] = [g \in Grants |-> IF g \in j.new THEN 1 ELSE 0]]
                /\ asked' = [asked EXCEPT ![m] = j.new]
                /\ UNCHANGED <<att, failed>>
                /\ Done(t, TRUE)

Save(t) ==
    /\ job[t].op = "save"
    /\ LET j == job[t]
           ok == /\ j.who \in Present
                 /\ Readdress(j) => ~EmailInUse(j.who, j.email)
                 /\ ~NumberInUse(j.who, NewNumber(j))
                 /\ CountsMatch(j.who, j.old \ j.new)
       IN  IF ~ok THEN Fail(t, j.who)
           ELSE /\ rows' = [rows EXCEPT ![j.who] =
                       [email  |-> IF Readdress(j) THEN j.email ELSE @.email,
                        name   |-> IF Renames(j) THEN j.name ELSE @.name,
                        number |-> IF Renumbers(j) THEN j.number ELSE @.number]]
                /\ held' = [held EXCEPT ![j.who] = [g \in Grants |-> Granted(j, g)]]
                /\ asked' = [asked EXCEPT ![j.who] = (@ \ UNION j.lists) \cup j.new]
                /\ UNCHANGED <<att, failed>>
                /\ Done(t, TRUE)

(* Mutant: the attendance rows keep the member's key.                      *)
Orphaned_Kept(j) == att

(* The attendance rows of the deleted member stay, without a member.       *)
Orphaned(j) == {IF a.member = j.who THEN [a EXCEPT !.member = None] ELSE a : a \in att}

(* Availability, days off and assignments go with the member (ON DELETE    *)
(* CASCADE); attendance and association rows do not, and any left, or a    *)
(* row the member marked for somebody, keeps the member. A member already  *)
(* gone is only a warning.                                                 *)
Remove(t) ==
    /\ job[t].op = "remove"
    /\ LET j == job[t]
           ok == /\ \A a \in j.att : \E b \in att : b.no = a.no
                 /\ CountsMatch(j.who, j.old)
                 /\ Loaded(j.who) \subseteq j.old
                 /\ \A a \in att : a.by # j.who /\ (a.member = j.who => a \in j.att)
       IN  IF ~ok THEN Fail(t, j.who)
           ELSE /\ rows' = [rows EXCEPT ![j.who] = Gone]
                /\ held' = [held EXCEPT ![j.who] = [g \in Grants |-> 0]]
                /\ asked' = [asked EXCEPT ![j.who] = {}]
                /\ att' = Orphaned(j)
                /\ UNCHANGED failed
                /\ Done(t, TRUE)

-----------------------------------------------------------------------------
(* Attendance is marked, by the member (every QR check-in) or by another.  *)
Mark ==
    /\ marks < MaxMarks /\ marks' = marks + 1
    /\ \E m \in Present, by \in Present \cup {None} :
          /\ att' = att \cup {[no |-> marks, member |-> m, by |-> by]}
          /\ job' = Tell(None, {<<"marks", m>>, <<"marks", by>>})
    /\ UNCHANGED <<rows, held, reads, asked, raced, failed>>

(* DELETE /attendance/{id} and POST /attendance/bulk-delete.               *)
Unmark ==
    \E a \in att :
        /\ att' = att \ {a}
        /\ job' = Tell(None, {<<"marks", a.member>>, <<"marks", a.by>>})
        /\ UNCHANGED <<rows, held, reads, marks, asked, raced, failed>>

Handler(t) == \/ Create(t) \/ Insert(t) \/ Update(t) \/ Profile(t) \/ UpdateCheck(t) \/ Save(t)
              \/ Delete(t) \/ DeleteLoad(t) \/ Remove(t)
Next == Mark \/ Unmark \/ \E t \in Threads : Handler(t)

Spec == Init /\ [][Next]_vars

-----------------------------------------------------------------------------
(* What a request under way may say to another.                            *)
Note == ({"row"} \X Members) \cup ({"marks"} \X (Members \cup {None}))
        \cup ({"email"} \X Emails) \cup ({"name"} \X (Names \cup {None}))
        \cup ({"list"} \X Members \X Lists)

(* Types, and the references: an association or attendance row belongs to  *)
(* a member that exists, however the requests overlap.                     *)
TypeOK ==
    /\ rows \in [Members -> Row \cup {Unborn, Gone}]
    /\ held \in [Members -> [Grants -> Nat]]
    /\ \A m \in Members \ Present : Loaded(m) = {}
    /\ \A a \in att : a.no \in 0..(marks - 1) /\ {a.member, a.by} \subseteq Present \cup {None}
    /\ reads \in 0..MaxRequests /\ marks \in 0..MaxMarks
    /\ asked \in [Members -> SUBSET Grants]
    /\ \A t \in Threads :
          \/ job[t] = Idle
          \/ /\ job[t].op \in {"insert", "update", "save", "delete", "remove"}
             /\ job[t].late \subseteq Note
    /\ raced \subseteq Note
    /\ failed \subseteq [op : {"insert", "save", "remove"}, beside : BOOLEAN,
                        number : BOOLEAN, marked : BOOLEAN, doubled : BOOLEAN]

(* No column makes preferred first names unique: two members have the same *)
(* one only if one was saved while the request for the other was past its  *)
(* check (members.py:38-44, 121-127, 209-215: "already in use by another   *)
(* member").                                                               *)
NameClashOnlyIfRaced ==
    \A m, o \in Present :
        m # o /\ rows[m].name = rows[o].name /\ rows[m].name # None
        => <<"name", rows[m].name>> \in raced

(* A member holds what was last asked for, in one row each, unless two     *)
(* requests that replace the same list overlapped (members.py:217-225).    *)
GrantsAreAsAsked ==
    \A m \in Present, L \in Lists :
        <<"list", m, L>> \notin raced =>
            \A g \in L : held[m][g] = IF g \in asked[m] THEN 1 ELSE 0

(* What a request that passed its checks can still die of, in a database   *)
(* error: another request on the same member or e-mail at its side, a row  *)
(* that an earlier overlap doubled, the deletion of a member who marked    *)
(* somebody's attendance (members.py:234-242, models/attendance.py:23),    *)
(* and a phone or NFC number that another member has, which takes nobody   *)
(* else to happen (members.py:61-74 and 226-230 write the unique columns   *)
(* of models/member.py:51-53 unchecked). The e-mail, the names and the     *)
(* lists never fail a request that is alone.                               *)
ErrorsHaveACause == \A f \in failed : f.beside \/ f.number \/ f.marked \/ f.doubled

(* The response schema takes a row with a member only.                     *)
Readable(a) == a.member \in Members

(* attendance.py:85 "Allow all authenticated members to view session       *)
(* attendance (for mobile app)": no row makes the response of GET          *)
(* /attendance/session/{id} invalid.                                       *)
SessionAttendanceIsReadable == \A a \in att : Readable(a)
=============================================================================
