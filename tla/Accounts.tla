------------------------------ MODULE Accounts ------------------------------
(***************************************************************************)
(* Verification codes and what they authorise: the in-memory store of      *)
(* app/services/local_otp.py behind the "local" verification provider, the *)
(* endpoints that send codes (login of an unverified member, forgotten     *)
(* password, change of phone) and that redeem them (verify-otp, reset-     *)
(* password, verify-phone), and the administrator's edits of the same      *)
(* members. The store is used under a lock; the handlers interleave        *)
(* between that and their database reads and commits. Contacts are e-mail  *)
(* addresses and phone numbers; the limiter and the passwords' wording are *)
(* left out.                                                               *)
(***************************************************************************)
EXTENDS Integers, FiniteSets

CONSTANTS
    Members,
    Emails, Phones,
    None,           \* no phone number, no entry
    Absent,         \* the row of a deleted member
    FirstRows,      \* the members to start with
    Codes,          \* what generate_otp may return: two codes may be equal
    Expiry,         \* otp_expiry_seconds
    Threads,        \* request threads
    MaxTime,        \* bound: the last tick
    MaxIssues,      \* bound: codes ever issued
    MaxEdits        \* bound: edits and deletions by an administrator

Contacts == Emails \cup Phones

(* email_verified, phone_number_verified; the password is the number of    *)
(* the code that authorised it, 0 if none did.                             *)
Row == [email : Emails, phone : Phones \cup {None}, ev : BOOLEAN, pv : BOOLEAN,
        password : Nat]

(* An entry of _otp_store, and a message. The code keeps `code` and `exp`. *)
Issue == [no : Nat, to : Contacts, code : Codes, exp : Nat]

ASSUME AccountsAssumption ==
    /\ Emails \cap Phones = {} /\ None \notin Contacts \cup Issue
    /\ Absent \notin Row
    /\ FirstRows \in [Members -> Row]
    /\ {Expiry, MaxTime, MaxIssues, MaxEdits} \subseteq Nat
    /\ \A m \in Members : /\ ~FirstRows[m].ev /\ ~FirstRows[m].pv
                          /\ FirstRows[m].password = 0

VARIABLES
    now,       \* time.time()
    store,     \* _otp_store
    rows,      \* committed members
    job,       \* per thread: the handler it runs and what it has read
    inbox,     \* the message that reached each contact last
    edits,     \* edits so far
    log,       \* history: the codes issued
    used,      \* history: the codes redeemed
    refused,   \* history: codes refused when they were the last received
    lostTo,    \* history: the last code issued before the process started
    edited     \* history: members whose contacts an administrator changed

vars == <<now, store, rows, job, inbox, edits, log, used, refused, lostTo, edited>>
codes   == <<store, log, used, refused, lostTo>>
members == <<rows, edits, edited>>

Idle == [op |-> "idle"]

Init ==
    /\ now = 0
    /\ store = [c \in Contacts |-> None]
    /\ rows = FirstRows
    /\ job = [t \in Threads |-> Idle]
    /\ inbox = [c \in Contacts |-> None]
    /\ edits = 0
    /\ log = {} /\ used = {} /\ refused = {}
    /\ lostTo = 0
    /\ edited = {}

issued == Cardinality(log)

Tick ==
    /\ now < MaxTime
    /\ now' = now + 1
    /\ UNCHANGED <<codes, members, job, inbox>>

Present    == {m \in Members : rows[m] # Absent}
Has(m, c)  == m \in Present /\ c \in {rows[m].email, rows[m].phone}
Goes(t, j) == job' = [job EXCEPT ![t] = j]

-----------------------------------------------------------------------------
(* Sending a code.                                                         *)

(* The login of an unverified member, and the forgotten password: a code   *)
(* for a contact that a member has.                                        *)
Ask(t) ==
    /\ job[t] = Idle
    /\ \E c \in Contacts : /\ \E m \in Members : Has(m, c)
                           /\ Goes(t, [op |-> "send", to |-> c])
    /\ UNCHANGED <<now, codes, members, inbox>>

(* The change of phone: a code for a number nobody else has.               *)
AskPhone(t) ==
    /\ job[t] = Idle
    /\ \E m \in Present, p \in Phones :
         /\ \A n \in Members \ {m} : ~Has(n, p)
         /\ Goes(t, [op |-> "send", to |-> p])
    /\ UNCHANGED <<now, codes, members, inbox>>

(* _cleanup_expired                                                        *)
Clean == [c \in Contacts |-> IF store[c] # None /\ now > store[c].exp THEN None ELSE store[c]]

(* Mutant: an entry that is there is kept.                                 *)
Stored_KeepsOld(i) == [Clean EXCEPT ![i.to] = IF Clean[i.to] = None THEN i ELSE @]

(* Mutant: the entry is stored for another contact.                        *)
Stored_Elsewhere(i) == [Clean EXCEPT ![CHOOSE c \in Contacts : c # i.to] = i]

(* A contact's entry is replaced, whatever became of it.                   *)
Stored(i) == [Clean EXCEPT ![i.to] = i]

StoreOtp(t) ==
    /\ job[t].op = "send" /\ issued < MaxIssues
    /\ \E code \in Codes :
         LET i == [no |-> issued + 1, to |-> job[t].to, code |-> code, exp |-> now + Expiry]
         IN  /\ store' = Stored(i)
             /\ log' = log \cup {i}
             /\ Goes(t, [op |-> "deliver", issue |-> i])
    /\ UNCHANGED <<now, used, refused, lostTo, members, inbox>>

(* The message goes out, or the provider fails, which nobody looks at.     *)
Deliver(t) ==
    /\ job[t].op = "deliver"
    /\ inbox' \in {inbox, [inbox EXCEPT ![job[t].issue.to] = job[t].issue]}
    /\ Goes(t, Idle)
    /\ UNCHANGED <<now, codes, members>>

-----------------------------------------------------------------------------
(* Redeeming one.                                                          *)

(* Mutant: the entry is left in the store.                                 *)
Spent_Kept(c) == Clean

(* A right code is taken from the store; a wrong one leaves the entry.     *)
Spent(c) == [Clean EXCEPT ![c] = None]

(* check_verification: `next` is the handler's job after a right code.     *)
Check(t, c, next) ==
    /\ \E code \in Codes :
         LET good == Clean[c] # None /\ Clean[c].code = code
         IN  /\ store' = IF good THEN Spent(c) ELSE Clean
             /\ used' = IF good THEN used \cup {Clean[c]} ELSE used
             /\ refused' = IF ~good /\ inbox[c] # None /\ inbox[c].code = code
                           THEN refused \cup {inbox[c]} ELSE refused
             /\ Goes(t, IF good THEN next ELSE Idle)
    /\ UNCHANGED <<now, log, lostTo, members, inbox>>

(* verify-otp and reset-password check the code before anything else.      *)
Verify(t) ==
    /\ job[t] = Idle
    /\ \E c \in Contacts, reset \in BOOLEAN :
         Check(t, c, [op |-> "lookup", issue |-> Clean[c], reset |-> reset])

(* Mutant: the flags of both contacts are set.                             *)
Verified_Both(row, c) == [row EXCEPT !.ev = TRUE, !.pv = TRUE]

(* The contact's own flag is set.                                          *)
Verified(row, c) == IF c \in Emails THEN [row EXCEPT !.ev = TRUE] ELSE [row EXCEPT !.pv = TRUE]

(* The member who has the contact now, if any; a new password may be       *)
(* refused as too weak. The code is spent in any case.                     *)
Lookup(t) ==
    /\ job[t].op = "lookup"
    /\ LET i == job[t].issue
       IN  \/ Goes(t, Idle) /\ (job[t].reset \/ \A m \in Members : ~Has(m, i.to))
           \/ \E m \in Members :
                /\ Has(m, i.to)
                /\ Goes(t, [op   |-> "commit", who |-> m, read |-> rows[m],
                            new  |-> IF job[t].reset
                                     THEN [Verified(rows[m], i.to) EXCEPT !.password = i.no]
                                     ELSE Verified(rows[m], i.to)])
    /\ UNCHANGED <<now, codes, members, inbox>>

(* verify-phone reads the current member before it checks the code.        *)
PhoneBegin(t) ==
    /\ job[t] = Idle
    /\ \E m \in Present, p \in Phones :
         Goes(t, [op |-> "phone", who |-> m, read |-> rows[m], to |-> p])
    /\ UNCHANGED <<now, codes, members, inbox>>

PhoneCheck(t) ==
    /\ job[t].op = "phone"
    /\ LET j == job[t]
       IN  Check(t, j.to, [op |-> "commit", who |-> j.who, read |-> j.read,
                           new |-> [j.read EXCEPT !.phone = j.to, !.pv = TRUE]])

(* Another member with one of the row's contacts: the columns are unique.  *)
Taken(m, row) == \E n \in Present \ {m} : \/ rows[n].email = row.email
                                          \/ row.phone # None /\ rows[n].phone = row.phone

(* A column is written if it differs from what was read.                   *)
Written(stored, read, new) == IF new = read THEN stored ELSE new

(* The changed columns are written, unless the row is gone or a unique     *)
(* column refuses.                                                         *)
Commit(t) ==
    /\ job[t].op = "commit"
    /\ LET j   == job[t]
           was == rows[j.who]
           row == [email    |-> Written(was.email, j.read.email, j.new.email),
                   phone    |-> Written(was.phone, j.read.phone, j.new.phone),
                   ev       |-> Written(was.ev, j.read.ev, j.new.ev),
                   pv       |-> Written(was.pv, j.read.pv, j.new.pv),
                   password |-> Written(was.password, j.read.password, j.new.password)]
       IN  rows' = IF j.who \in Present /\ ~Taken(j.who, row)
                   THEN [rows EXCEPT ![j.who] = row] ELSE rows
    /\ Goes(t, Idle)
    /\ UNCHANGED <<now, codes, edits, edited, inbox>>

-----------------------------------------------------------------------------
(* The administrator, and the process.                                     *)

Edit == edits < MaxEdits /\ edits' = edits + 1 /\ UNCHANGED <<now, codes, job, inbox>>

(* PUT /members/{id}: new contacts; the flags stay.                        *)
UpdateMember(m) ==
    /\ Edit /\ m \in Present
    /\ \E e \in Emails, p \in Phones \cup {None} :
         LET row == [rows[m] EXCEPT !.email = e, !.phone = p]
         IN  /\ row # rows[m] /\ ~Taken(m, row)
             /\ rows' = [rows EXCEPT ![m] = row]
    /\ edited' = edited \cup {m}

(* POST /members/{id}/reset-password                                       *)
AdminReset(m) ==
    /\ Edit /\ m \in Present
    /\ rows' = [rows EXCEPT ![m].password = 0]
    /\ UNCHANGED edited

DeleteMember(m) ==
    /\ Edit /\ m \in Present
    /\ rows' = [rows EXCEPT ![m] = Absent]
    /\ UNCHANGED edited

(* The store is in memory and the handlers do not survive.                 *)
Restart ==
    /\ store' = [c \in Contacts |-> None]
    /\ job' = [t \in Threads |-> Idle]
    /\ lostTo' = issued
    /\ UNCHANGED <<now, log, used, refused, members, inbox>>

Handler(t) == \/ Ask(t) \/ AskPhone(t) \/ StoreOtp(t) \/ Deliver(t)
              \/ Verify(t) \/ Lookup(t) \/ PhoneBegin(t) \/ PhoneCheck(t) \/ Commit(t)
Admin(m)   == UpdateMember(m) \/ AdminReset(m) \/ DeleteMember(m)
Next == Tick \/ Restart \/ (\E t \in Threads : Handler(t)) \/ (\E m \in Members : Admin(m))

Spec == Init /\ [][Next]_vars

-----------------------------------------------------------------------------
TypeOK ==
    /\ now \in Nat
    /\ store \in [Contacts -> Issue \cup {None}]
    /\ \A c \in Contacts : store[c] # None => store[c].to = c /\ store[c] \in log
    /\ rows \in [Members -> Row \cup {Absent}]
    /\ job \in [Threads ->
              [op : {"idle"}]
         \cup [op : {"send"}, to : Contacts]
         \cup [op : {"deliver"}, issue : Issue]
         \cup [op : {"lookup"}, issue : Issue, reset : BOOLEAN]
         \cup [op : {"phone"}, who : Members, read : Row, to : Phones]
         \cup [op : {"commit"}, who : Members, read : Row, new : Row]]
    /\ inbox \in [Contacts -> Issue \cup {None}]
    /\ edits \in Nat /\ lostTo \in Nat
    /\ log \subseteq Issue /\ used \subseteq log /\ refused \subseteq log
    /\ edited \subseteq Members

(* The codes keep the promise of OneTimeCodes: only a contact's newest     *)
(* code is good, only until it expires, and only once, whatever the order  *)
(* in which requests for it are sent and redeemed.                         *)
Promise == INSTANCE OneTimeCodes WITH
    issued <- issued,
    live   <- [c \in Contacts |-> IF store[c] # None /\ now <= store[c].exp
                                  THEN store[c].no ELSE 0],
    used   <- {i.no : i \in used}

CodesAreOneTime == Promise!Spec

(* Whatever a code authorises is backed by a redeemed one: a verified      *)
(* contact by a code sent to that very contact, though members change      *)
(* their phone while other requests run, unless an administrator changed   *)
(* the contacts; a new password by a code that set no one else's.          *)
BackedByACode ==
    \A m \in Present :
        /\ m \notin edited =>
             /\ rows[m].ev => \E i \in used : i.to = rows[m].email
             /\ rows[m].pv => \E i \in used : i.to = rows[m].phone
        /\ rows[m].password # 0 =>
             /\ \E i \in used : i.no = rows[m].password
             /\ \A n \in Present \ {m} : rows[n].password # rows[m].password

(* The code a contact received last is only refused if it has expired, was *)
(* redeemed, a newer one was issued to the contact (and is still under way *)
(* or was lost), or the process has restarted since.                       *)
RefusalHasACause ==
    \A i \in refused :
        \/ now > i.exp
        \/ i \in used
        \/ \E j \in log : j.to = i.to /\ j.no > i.no
        \/ i.no <= lostTo
=============================================================================
