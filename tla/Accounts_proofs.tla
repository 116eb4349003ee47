---------------------------- MODULE Accounts_proofs ----------------------------
(***************************************************************************)
(* Proofs about Accounts, for any members, contacts, codes and numbers of  *)
(* request threads, edits and restarts, and, at the end, about the limiter *)
(* in front of its login and forgotten-password endpoints.                 *)
(***************************************************************************)
EXTENDS Accounts, RateLimiter, FiniteSetTheorems, TLAPS

-----------------------------------------------------------------------------
(* What a thread can be.                                                   *)

SendJob    == [op : {"send"}, to : Contacts]
DeliverJob == [op : {"deliver"}, issue : Issue]
LookupJob  == [op : {"lookup"}, issue : Issue, reset : BOOLEAN]
PhoneJob   == [op : {"phone"}, who : Members, read : Row, to : Phones]
CommitJob  == [op : {"commit"}, who : Members, read : Row, new : Row]
Job        == {Idle} \cup SendJob \cup DeliverJob \cup LookupJob \cup PhoneJob \cup CommitJob

LEMMA Ops ==
    ASSUME NEW j \in Job
    PROVE  /\ j.op \in {"idle", "send", "deliver", "lookup", "phone", "commit"}
           /\ j.op = "idle" => j = Idle
           /\ j.op = "send" => j \in SendJob
           /\ j.op = "deliver" => j \in DeliverJob
           /\ j.op = "lookup" => j \in LookupJob
           /\ j.op = "phone" => j \in PhoneJob
           /\ j.op = "commit" => j \in CommitJob
<1>1. CASE j = Idle
  BY <1>1 DEF Idle
<1>2. CASE j \in SendJob
  BY <1>2 DEF SendJob
<1>3. CASE j \in DeliverJob
  BY <1>3 DEF DeliverJob
<1>4. CASE j \in LookupJob
  BY <1>4 DEF LookupJob
<1>5. CASE j \in PhoneJob
  BY <1>5 DEF PhoneJob
<1>6. CASE j \in CommitJob
  BY <1>6 DEF CommitJob
<1> QED
  BY <1>1, <1>2, <1>3, <1>4, <1>5, <1>6 DEF Job

-----------------------------------------------------------------------------
(* The codes: the issues are numbered from 1 on, and the store holds none  *)
(* that was redeemed. An issue that is not in the store has a cause.       *)

LogInv ==
    /\ log \subseteq Issue /\ IsFiniteSet(log)
    /\ \A i \in log : 1 <= i.no /\ i.no <= issued
    /\ \A i, j \in log : i.no = j.no => i = j
    /\ used \subseteq log /\ refused \subseteq log
    /\ lostTo \in Nat /\ now \in Nat

StoreInv ==
    /\ store \in [Contacts -> Issue \cup {None}]
    /\ inbox \in [Contacts -> Issue \cup {None}]
    /\ \A c \in Contacts :
         /\ store[c] # None => store[c] \in log /\ store[c].to = c /\ store[c] \notin used
         /\ inbox[c] # None => inbox[c] \in log /\ inbox[c].to = c

JobInv ==
    /\ job \in [Threads -> Job]
    /\ \A t \in Threads : /\ job[t].op = "deliver" => job[t].issue \in log
                          /\ job[t].op = "lookup" => job[t].issue \in used

RowInv == /\ rows \in [Members -> Row \cup {Absent}]
          /\ edits \in Nat /\ edited \subseteq Members

TypeInv == LogInv /\ StoreInv /\ JobInv /\ RowInv

Caused(i) == \/ now > i.exp
             \/ i \in used
             \/ \E j \in log : j.to = i.to /\ j.no > i.no
             \/ i.no <= lostTo

CauseInv == /\ \A i \in log : store[i.to] = i \/ Caused(i)
            /\ \A i \in refused : Caused(i)

LEMMA RowOfPresent ==
    ASSUME RowInv, NEW m \in Present
    PROVE  m \in Members /\ rows[m] \in Row
  BY DEF RowInv, Present

LEMMA IssueFacts ==
    ASSUME NEW i \in Issue
    PROVE  /\ i.no \in Nat /\ i.to \in Contacts /\ i.code \in Codes /\ i.exp \in Nat /\ i # None
  BY AccountsAssumption DEF Issue

LEMMA LogNumbers ==
    ASSUME LogInv
    PROVE  issued \in Nat
  BY FS_CardinalityType DEF LogInv, issued

LEMMA CleanFacts ==
    ASSUME StoreInv
    PROVE  /\ Clean \in [Contacts -> Issue \cup {None}]
           /\ \A c \in Contacts :
                /\ Clean[c] # None => Clean[c] = store[c] /\ ~(now > store[c].exp)
                /\ Clean[c] = None => store[c] = None \/ now > store[c].exp
  BY DEF StoreInv, Clean

LEMMA InitTypes == Init => TypeInv /\ CauseInv
<1> SUFFICES ASSUME Init
             PROVE  TypeInv /\ CauseInv
  OBVIOUS
<1>1. IsFiniteSet(log)
  BY FS_EmptySet, Zenon DEF Init
<1>2. LogInv /\ CauseInv
  BY <1>1 DEF Init, LogInv, CauseInv
<1>3. StoreInv
  BY DEF Init, StoreInv
<1>4. JobInv
  BY DEF Init, JobInv, Job, Idle
<1>5. RowInv
  BY AccountsAssumption DEF Init, RowInv
<1> QED
  BY <1>2, <1>3, <1>4, <1>5 DEF TypeInv

LEMMA GoesTypes ==
    ASSUME JobInv, NEW t \in Threads, NEW j \in Job, Goes(t, j),
           log \subseteq log', used \subseteq used',
           j.op = "deliver" => j.issue \in log', j.op = "lookup" => j.issue \in used'
    PROVE  JobInv'
  BY DEF JobInv, Goes

(* Where neither the codes nor the clock change, causes stay.              *)
LEMMA CodesStay ==
    ASSUME LogInv, StoreInv, CauseInv, UNCHANGED <<now, codes>>
    PROVE  /\ LogInv' /\ CauseInv'
           /\ inbox' = inbox => StoreInv'
  BY DEF codes, LogInv, StoreInv, CauseInv, Caused, issued

LEMMA RowsStay ==
    ASSUME RowInv, UNCHANGED members
    PROVE  RowInv'
  BY DEF RowInv, members

-----------------------------------------------------------------------------
(* Sending.                                                                *)

LEMMA StoreOtpTypes ==
    ASSUME TypeInv, CauseInv, NEW t \in Threads, StoreOtp(t)
    PROVE  TypeInv' /\ CauseInv'
<1>1. LogInv /\ StoreInv /\ JobInv /\ RowInv
  BY DEF TypeInv
<1>2. job[t] \in SendJob
  BY <1>1, Ops DEF StoreOtp, JobInv
<1>3. PICK i : /\ i.no = issued + 1 /\ i.to = job[t].to /\ i.exp = now + Expiry
               /\ \E code \in Codes : i = [no |-> issued + 1, to |-> job[t].to, code |-> code,
                                           exp |-> now + Expiry]
               /\ store' = Stored(i) /\ log' = log \cup {i}
               /\ Goes(t, [op |-> "deliver", issue |-> i])
  BY DEF StoreOtp
<1>4. /\ now \in Nat /\ Expiry \in Nat /\ issued \in Nat
  BY <1>1, LogNumbers, AccountsAssumption DEF LogInv
<1>5. i \in Issue /\ i.to \in Contacts
  BY <1>2, <1>3, <1>4 DEF Issue, SendJob
<1>6. UNCHANGED <<now, used, refused, lostTo, members, inbox>>
  BY DEF StoreOtp
<1>7. i \notin log /\ i \notin used
  BY <1>1, <1>3, <1>4 DEF LogInv
<1>8. IsFiniteSet(log') /\ issued' = issued + 1
  BY <1>1, <1>3, <1>7, FS_AddElement DEF LogInv, issued
<1>9. LogInv'
  <2>1. \A j \in log' : 1 <= j.no /\ j.no <= issued'
    BY <1>1, <1>3, <1>4, <1>5, <1>8, IssueFacts DEF LogInv
  <2>2. \A j, k \in log' : j.no = k.no => j = k
    BY <1>1, <1>3, <1>4, IssueFacts DEF LogInv
  <2> QED
    BY <1>1, <1>3, <1>5, <1>6, <1>8, <2>1, <2>2 DEF LogInv
<1>10. \A c \in Contacts : store'[c] = IF c = i.to THEN i ELSE Clean[c]
  BY <1>1, <1>3, <1>5, CleanFacts DEF Stored
<1>11. StoreInv'
  <2>1. store' \in [Contacts -> Issue \cup {None}]
    BY <1>1, <1>3, <1>5, CleanFacts DEF Stored
  <2>2. \A c \in Contacts : store'[c] # None =>
          store'[c] \in log' /\ store'[c].to = c /\ store'[c] \notin used'
    BY <1>1, <1>3, <1>6, <1>7, <1>10, CleanFacts DEF StoreInv
  <2> QED
    BY <1>1, <1>3, <1>6, <2>1, <2>2 DEF StoreInv
<1>12. JobInv'
  <2> DEFINE j == [op |-> "deliver", issue |-> i]
  <2>1. j \in Job
    BY <1>5 DEF Job, DeliverJob
  <2> QED
    BY <1>1, <1>3, <1>6, <2>1, GoesTypes
<1>13. CauseInv'
  <2>1. \A k \in log : Caused(k) => Caused(k)'
    BY <1>3, <1>6 DEF Caused
  <2>2. ASSUME NEW k \in log, store[k.to] = k
        PROVE  store'[k.to] = k \/ Caused(k)'
    <3>1. k \in Issue /\ k.to \in Contacts /\ k # None
      BY <1>1, IssueFacts DEF LogInv
    <3>2. CASE k.to = i.to
      <4>1. i.no > k.no
        BY <1>1, <1>3, <1>4, <3>1, IssueFacts DEF LogInv
      <4> QED
        BY <1>3, <3>2, <4>1 DEF Caused
    <3>3. CASE k.to # i.to
      <4>1. Clean[k.to] = k \/ now > k.exp
        BY <1>1, <2>2, <3>1, CleanFacts
      <4> QED
        BY <1>6, <1>10, <3>1, <3>3, <4>1 DEF Caused
    <3> QED
      BY <3>2, <3>3
  <2>3. store'[i.to] = i
    BY <1>5, <1>10
  <2> QED
    BY <1>1, <1>3, <1>6, <2>1, <2>2, <2>3 DEF CauseInv, LogInv
<1>14. RowInv'
  BY <1>1, <1>6, RowsStay
<1> QED
  BY <1>9, <1>11, <1>12, <1>13, <1>14 DEF TypeInv

LEMMA DeliverTypes ==
    ASSUME TypeInv, CauseInv, NEW t \in Threads, Deliver(t)
    PROVE  TypeInv' /\ CauseInv'
<1>1. LogInv /\ StoreInv /\ JobInv /\ RowInv
  BY DEF TypeInv
<1>2. PICK i \in log : i = job[t].issue
  BY <1>1 DEF Deliver, JobInv
<1>3. i \in Issue /\ i.to \in Contacts
  BY <1>1, IssueFacts DEF LogInv
<1>4. UNCHANGED <<now, codes, members>> /\ Goes(t, Idle)
      /\ inbox' \in {inbox, [inbox EXCEPT ![i.to] = i]}
  BY <1>2 DEF Deliver
<1>5. LogInv' /\ CauseInv' /\ RowInv'
  BY <1>1, <1>4, CodesStay, RowsStay
<1>6. StoreInv'
  BY <1>1, <1>2, <1>3, <1>4 DEF StoreInv, codes
<1>7. JobInv'
  BY <1>1, <1>4, GoesTypes DEF Job, Idle, codes
<1> QED
  BY <1>5, <1>6, <1>7 DEF TypeInv

-----------------------------------------------------------------------------
(* Redeeming.                                                              *)

(* What check_verification makes of the codes: with a right code, it takes *)
(* the contact's entry from the store; a refused one has a cause.          *)
LEMMA CheckIs ==
    ASSUME TypeInv, CauseInv, NEW t \in Threads, NEW c \in Contacts, NEW next, Check(t, c, next)
    PROVE  /\ LogInv' /\ StoreInv' /\ CauseInv' /\ log' = log
           /\ UNCHANGED <<now, lostTo, members, inbox>>
           /\ \/ /\ Clean[c] \in log /\ Clean[c] = store[c] /\ ~(now > store[c].exp)
                 /\ Clean[c] \notin used /\ used' = used \cup {Clean[c]}
                 /\ store' = Spent(c) /\ Goes(t, next)
              \/ used' = used /\ store' = Clean /\ Goes(t, Idle)
<1>1. LogInv /\ StoreInv /\ JobInv /\ RowInv
  BY DEF TypeInv
<1>2. UNCHANGED <<now, log, lostTo, members, inbox>>
  BY DEF Check
<1>3. PICK code \in Codes :
        LET good == Clean[c] # None /\ Clean[c].code = code
        IN  /\ store' = IF good THEN Spent(c) ELSE Clean
            /\ used' = IF good THEN used \cup {Clean[c]} ELSE used
            /\ refused' = IF ~good /\ inbox[c] # None /\ inbox[c].code = code
                          THEN refused \cup {inbox[c]} ELSE refused
            /\ Goes(t, IF good THEN next ELSE Idle)
  BY DEF Check
<1> DEFINE good == Clean[c] # None /\ Clean[c].code = code
<1>4. issued' = issued
  BY <1>2 DEF issued
<1>5. \A k \in log : Caused(k) => Caused(k)'
  BY <1>2, <1>3 DEF Caused
(* An entry that Clean drops has expired.                                  *)
<1>6. \A k \in log : store[k.to] = k => Clean[k.to] = k \/ now > k.exp
  <2> SUFFICES ASSUME NEW k \in log, store[k.to] = k
               PROVE  Clean[k.to] = k \/ now > k.exp
    OBVIOUS
  <2>1. k # None /\ k.to \in Contacts
    BY <1>1, IssueFacts DEF LogInv
  <2> QED
    BY <1>1, <2>1, CleanFacts
<1>7. CASE good
  <2>1. /\ Clean[c] = store[c] /\ Clean[c] \in log /\ ~(now > store[c].exp)
        /\ Clean[c] \notin used /\ Clean[c].to = c
    BY <1>1, <1>7, CleanFacts DEF StoreInv
  <2>2. /\ store' = Spent(c) /\ used' = used \cup {Clean[c]} /\ refused' = refused
        /\ Goes(t, next)
    BY <1>3, <1>7
  <2>3. \A d \in Contacts : store'[d] = IF d = c THEN None ELSE Clean[d]
    BY <1>1, <2>2, CleanFacts DEF Spent
  <2>4. store' \in [Contacts -> Issue \cup {None}]
    BY <1>1, <2>2, CleanFacts DEF Spent
  <2>5. LogInv'
    BY <1>1, <1>2, <1>4, <2>1, <2>2 DEF LogInv
  <2>6. StoreInv'
    <3>1. \A d \in Contacts : store'[d] # None =>
            store'[d] \in log /\ store'[d].to = d /\ store'[d] \notin used'
      BY <1>1, <2>1, <2>2, <2>3, CleanFacts DEF StoreInv
    <3> QED
      BY <1>1, <1>2, <2>4, <3>1 DEF StoreInv
  <2>7. CauseInv'
    <3>1. ASSUME NEW k \in log, store[k.to] = k
          PROVE  store'[k.to] = k \/ Caused(k)'
      <4>1. k.to \in Contacts
        BY <1>1, IssueFacts DEF LogInv
      <4>2. CASE k.to = c
        <5>1. k \in used'
          BY <2>1, <2>2, <3>1, <4>2
        <5> QED
          BY <5>1 DEF Caused
      <4>3. CASE k.to # c
        BY <1>2, <1>6, <2>3, <3>1, <4>1, <4>3 DEF Caused
      <4> QED
        BY <4>2, <4>3
    <3> QED
      BY <1>1, <1>2, <1>5, <2>2, <3>1 DEF CauseInv, LogInv
  <2> QED
    BY <1>2, <2>1, <2>2, <2>5, <2>6, <2>7
<1>8. CASE ~good
  <2>1. /\ store' = Clean /\ used' = used /\ Goes(t, Idle)
        /\ \/ refused' = refused
           \/ inbox[c] # None /\ inbox[c].code = code /\ refused' = refused \cup {inbox[c]}
    BY <1>3, <1>8
  <2>2. StoreInv'
    BY <1>1, <1>2, <2>1, CleanFacts DEF StoreInv
  <2>3. \A k \in log : Clean[k.to] = k \/ Caused(k)
    BY <1>1, <1>6 DEF CauseInv, Caused
  <2>4. \A k \in log : store'[k.to] = k \/ Caused(k)'
    BY <1>5, <2>1, <2>3
  <2>5. ASSUME inbox[c] # None, inbox[c].code = code
        PROVE  inbox[c] \in log /\ Caused(inbox[c])
    <3>1. inbox[c] \in log /\ inbox[c].to = c
      BY <1>1, <2>5 DEF StoreInv
    <3> QED
      BY <1>8, <2>3, <2>5, <3>1
  <2>6. LogInv' /\ CauseInv'
    BY <1>1, <1>2, <1>4, <1>5, <2>1, <2>4, <2>5 DEF LogInv, CauseInv
  <2> QED
    BY <1>2, <2>1, <2>2, <2>6
<1> QED
  BY <1>7, <1>8

LEMMA CheckTypes ==
    ASSUME TypeInv, CauseInv, NEW t \in Threads, Verify(t) \/ PhoneCheck(t)
    PROVE  TypeInv' /\ CauseInv'
<1>1. LogInv /\ StoreInv /\ JobInv /\ RowInv
  BY DEF TypeInv
<1>2. Idle \in Job
  BY DEF Job
<1>3. CASE Verify(t)
  <2>1. PICK c \in Contacts, reset \in BOOLEAN :
          Check(t, c, [op |-> "lookup", issue |-> Clean[c], reset |-> reset])
    BY <1>3 DEF Verify
  <2> DEFINE j == [op |-> "lookup", issue |-> Clean[c], reset |-> reset]
  <2>2. /\ LogInv' /\ StoreInv' /\ CauseInv' /\ log' = log
        /\ UNCHANGED <<now, lostTo, members, inbox>>
        /\ \/ Clean[c] \in log /\ used' = used \cup {Clean[c]} /\ Goes(t, j)
           \/ used' = used /\ Goes(t, Idle)
    BY <2>1, CheckIs
  <2>3. Clean[c] \in log => j \in Job
    BY <1>1 DEF Job, LookupJob, LogInv
  <2>4. JobInv'
    BY <1>1, <1>2, <2>2, <2>3, GoesTypes DEF Idle
  <2> QED
    BY <1>1, <2>2, <2>4, RowsStay DEF TypeInv
<1>4. CASE PhoneCheck(t)
  <2>1. PICK p \in PhoneJob : p = job[t]
    BY <1>1, <1>4, Ops DEF PhoneCheck, JobInv
  <2>2. /\ p.to \in Contacts /\ p.to \in Phones /\ p.who \in Members /\ p.read \in Row
    BY DEF PhoneJob, Contacts
  <2> DEFINE j == [op |-> "commit", who |-> p.who, read |-> p.read,
                   new |-> [p.read EXCEPT !.phone = p.to, !.pv = TRUE]]
  <2>3. Check(t, p.to, j)
    BY <1>4, <2>1 DEF PhoneCheck
  <2>4. [p.read EXCEPT !.phone = p.to, !.pv = TRUE] \in Row
    BY <2>2 DEF Row
  <2>5. j \in Job
    BY <2>2, <2>4 DEF Job, CommitJob
  <2>6. /\ LogInv' /\ StoreInv' /\ CauseInv' /\ log' = log
        /\ UNCHANGED <<now, lostTo, members, inbox>>
        /\ used \subseteq used' /\ (Goes(t, j) \/ Goes(t, Idle))
    BY <2>2, <2>3, CheckIs
  <2>7. JobInv'
    BY <1>1, <1>2, <2>5, <2>6, GoesTypes DEF Idle
  <2> QED
    BY <1>1, <2>6, <2>7, RowsStay DEF TypeInv
<1> QED
  BY <1>3, <1>4

LEMMA VerifiedTypes ==
    ASSUME NEW row \in Row, NEW c \in Contacts
    PROVE  Verified(row, c) \in Row
  BY DEF Verified, Row

LEMMA LookupIs ==
    ASSUME TypeInv, NEW t \in Threads, Lookup(t)
    PROVE  /\ job[t] \in LookupJob /\ job[t].issue \in used /\ job[t].issue \in Issue
           /\ \/ Goes(t, Idle)
              \/ \E m \in Present, new \in Row :
                   /\ Has(m, job[t].issue.to)
                   /\ new = IF job[t].reset
                            THEN [Verified(rows[m], job[t].issue.to) EXCEPT !.password = job[t].issue.no]
                            ELSE Verified(rows[m], job[t].issue.to)
                   /\ Goes(t, [op |-> "commit", who |-> m, read |-> rows[m], new |-> new])
           /\ UNCHANGED <<now, codes, members, inbox>>
<1>1. LogInv /\ JobInv /\ RowInv
  BY DEF TypeInv
<1>2. job[t] \in LookupJob /\ job[t].issue \in used /\ job[t].issue \in Issue
  BY <1>1, Ops DEF Lookup, JobInv, LogInv
<1>3. UNCHANGED <<now, codes, members, inbox>>
  BY DEF Lookup
<1>4. CASE Goes(t, Idle)
  BY <1>2, <1>3, <1>4
<1>5. CASE ~Goes(t, Idle)
  <2> DEFINE i == job[t].issue
  <2>1. PICK m \in Members :
          /\ Has(m, i.to)
          /\ Goes(t, [op   |-> "commit", who |-> m, read |-> rows[m],
                      new  |-> IF job[t].reset
                               THEN [Verified(rows[m], i.to) EXCEPT !.password = i.no]
                               ELSE Verified(rows[m], i.to)])
    BY <1>5 DEF Lookup
  <2> DEFINE new == IF job[t].reset
                    THEN [Verified(rows[m], i.to) EXCEPT !.password = i.no]
                    ELSE Verified(rows[m], i.to)
  <2>2. m \in Present /\ rows[m] \in Row
    BY <1>1, <2>1, RowOfPresent DEF Has
  <2>3. Verified(rows[m], i.to) \in Row /\ i.no \in Nat
    BY <1>2, <2>2, VerifiedTypes, IssueFacts
  <2>4. PICK v \in Row : v = Verified(rows[m], i.to)
    BY <2>3
  <2>5. [v EXCEPT !.password = i.no] \in Row
    BY <2>3 DEF Row
  <2>6. new \in Row
    BY <2>4, <2>5
  <2> QED
    BY <1>2, <1>3, <2>1, <2>2, <2>6
<1> QED
  BY <1>4, <1>5

LEMMA LookupTypes ==
    ASSUME TypeInv, CauseInv, NEW t \in Threads, Lookup(t)
    PROVE  TypeInv' /\ CauseInv'
<1>1. LogInv /\ StoreInv /\ JobInv /\ RowInv
  BY DEF TypeInv
<1>2. UNCHANGED <<now, codes, members, inbox>>
  BY LookupIs
<1>3. \E j \in Job : Goes(t, j) /\ j.op \notin {"deliver", "lookup"}
  <2>1. CASE Goes(t, Idle)
    BY <2>1 DEF Job, Idle
  <2>2. CASE ~Goes(t, Idle)
    <3>1. PICK m \in Present, new \in Row :
            Goes(t, [op |-> "commit", who |-> m, read |-> rows[m], new |-> new])
      BY <2>2, LookupIs
    <3>2. m \in Members /\ rows[m] \in Row
      BY <1>1, RowOfPresent
    <3>3. [op |-> "commit", who |-> m, read |-> rows[m], new |-> new] \in Job
      BY <3>2 DEF Job, CommitJob
    <3> QED
      BY <3>1, <3>3
  <2> QED
    BY <2>1, <2>2
<1>4. JobInv'
  BY <1>1, <1>2, <1>3, GoesTypes DEF codes
<1> QED
  BY <1>1, <1>2, <1>4, CodesStay, RowsStay DEF TypeInv

-----------------------------------------------------------------------------
(* The other steps.                                                        *)

LEMMA RequestTypes ==
    ASSUME TypeInv, CauseInv, NEW t \in Threads, Ask(t) \/ AskPhone(t) \/ PhoneBegin(t)
    PROVE  TypeInv' /\ CauseInv'
<1>1. LogInv /\ StoreInv /\ JobInv /\ RowInv
  BY DEF TypeInv
<1>2. UNCHANGED <<now, codes, members, inbox>>
  BY DEF Ask, AskPhone, PhoneBegin
<1>3. \E j \in Job : Goes(t, j) /\ j.op \notin {"deliver", "lookup"}
  <2>1. CASE Ask(t) \/ AskPhone(t)
    <3>1. PICK c \in Contacts : Goes(t, [op |-> "send", to |-> c])
      BY <2>1 DEF Ask, AskPhone, Contacts
    <3>2. [op |-> "send", to |-> c] \in Job
      BY DEF Job, SendJob
    <3> QED
      BY <3>1, <3>2
  <2>2. CASE PhoneBegin(t)
    <3>1. PICK m \in Present, p \in Phones :
            Goes(t, [op |-> "phone", who |-> m, read |-> rows[m], to |-> p])
      BY <2>2 DEF PhoneBegin
    <3>2. m \in Members /\ rows[m] \in Row
      BY <1>1, RowOfPresent
    <3>3. [op |-> "phone", who |-> m, read |-> rows[m], to |-> p] \in Job
      BY <3>2 DEF Job, PhoneJob
    <3> QED
      BY <3>1, <3>3
  <2> QED
    BY <2>1, <2>2
<1>4. JobInv'
  BY <1>1, <1>2, <1>3, GoesTypes DEF codes
<1> QED
  BY <1>1, <1>2, <1>4, CodesStay, RowsStay DEF TypeInv

(* A commit: the columns that were changed are written over the row.       *)
Merged(was, j) == [email    |-> Written(was.email, j.read.email, j.new.email),
                   phone    |-> Written(was.phone, j.read.phone, j.new.phone),
                   ev       |-> Written(was.ev, j.read.ev, j.new.ev),
                   pv       |-> Written(was.pv, j.read.pv, j.new.pv),
                   password |-> Written(was.password, j.read.password, j.new.password)]

LEMMA MergedTypes ==
    ASSUME NEW was \in Row, NEW j \in CommitJob
    PROVE  Merged(was, j) \in Row
<1>1. j.read \in Row /\ j.new \in Row
  BY DEF CommitJob
<1>2. Written(was.email, j.read.email, j.new.email) \in Emails
  BY <1>1 DEF Written, Row
<1>3. Written(was.phone, j.read.phone, j.new.phone) \in Phones \cup {None}
  BY <1>1 DEF Written, Row
<1>4. Written(was.ev, j.read.ev, j.new.ev) \in BOOLEAN
  BY <1>1 DEF Written, Row
<1>5. Written(was.pv, j.read.pv, j.new.pv) \in BOOLEAN
  BY <1>1 DEF Written, Row
<1>6. Written(was.password, j.read.password, j.new.password) \in Nat
  BY <1>1 DEF Written, Row
<1> QED
  BY <1>2, <1>3, <1>4, <1>5, <1>6 DEF Merged, Row

LEMMA CommitIs ==
    ASSUME TypeInv, NEW t \in Threads, Commit(t)
    PROVE  /\ job[t] \in CommitJob
           /\ \/ rows' = rows
              \/ /\ job[t].who \in Present
                 /\ rows' = [rows EXCEPT ![job[t].who] = Merged(rows[job[t].who], job[t])]
           /\ Goes(t, Idle) /\ UNCHANGED <<now, codes, edits, edited, inbox>>
<1>1. job[t] \in CommitJob
  BY Ops DEF TypeInv, JobInv, Commit
<1> QED
  BY <1>1 DEF Commit, Merged

LEMMA CommitTypes ==
    ASSUME TypeInv, CauseInv, NEW t \in Threads, Commit(t)
    PROVE  TypeInv' /\ CauseInv'
<1>1. LogInv /\ StoreInv /\ JobInv /\ RowInv
  BY DEF TypeInv
<1>2. /\ job[t] \in CommitJob /\ Goes(t, Idle) /\ UNCHANGED <<now, codes, edits, edited, inbox>>
      /\ \/ rows' = rows
         \/ /\ job[t].who \in Present
            /\ rows' = [rows EXCEPT ![job[t].who] = Merged(rows[job[t].who], job[t])]
  BY CommitIs
<1>3. RowInv'
  <2>1. job[t].who \in Present => Merged(rows[job[t].who], job[t]) \in Row
    BY <1>1, <1>2, RowOfPresent, MergedTypes
  <2> QED
    BY <1>1, <1>2, <2>1 DEF RowInv
<1>4. JobInv'
  BY <1>1, <1>2, GoesTypes DEF Job, Idle, codes
<1> QED
  BY <1>1, <1>2, <1>3, <1>4, CodesStay DEF TypeInv

(* An administrator's step, column by column.                              *)
LEMMA AdminIs ==
    ASSUME TypeInv, NEW m \in Members, Admin(m)
    PROVE  /\ m \in Present /\ edits' = edits + 1 /\ UNCHANGED <<now, codes, job, inbox>>
           /\ edited \subseteq edited' /\ edited' \subseteq edited \cup {m}
           /\ \E row \in Row \cup {Absent} :
                /\ rows' = [rows EXCEPT ![m] = row]
                /\ row # Absent =>
                     /\ row.ev = rows[m].ev /\ row.pv = rows[m].pv
                     /\ row.password \in {0, rows[m].password}
                     /\ m \in edited' \/ (row.email = rows[m].email /\ row.phone = rows[m].phone)
<1>1. m \in Present /\ edits' = edits + 1 /\ UNCHANGED <<now, codes, job, inbox>>
  BY DEF Admin, UpdateMember, AdminReset, DeleteMember, Edit
<1>2. rows[m] \in Row
  BY <1>1, RowOfPresent DEF TypeInv
<1>3. CASE UpdateMember(m)
  <2>1. PICK e \in Emails, p \in Phones \cup {None} :
          rows' = [rows EXCEPT ![m] = [rows[m] EXCEPT !.email = e, !.phone = p]]
    BY <1>3 DEF UpdateMember
  <2> DEFINE row == [rows[m] EXCEPT !.email = e, !.phone = p]
  <2>2. /\ row \in Row /\ row.ev = rows[m].ev /\ row.pv = rows[m].pv
        /\ row.password = rows[m].password
    BY <1>2 DEF Row
  <2>3. edited' = edited \cup {m}
    BY <1>3 DEF UpdateMember
  <2> QED
    BY <1>1, <2>1, <2>2, <2>3
<1>4. CASE AdminReset(m)
  <2> DEFINE row == [rows[m] EXCEPT !.password = 0]
  <2>1. rows' = [rows EXCEPT ![m] = row] /\ edited' = edited
    BY <1>4 DEF AdminReset
  <2>2. /\ row \in Row /\ row.ev = rows[m].ev /\ row.pv = rows[m].pv
        /\ row.email = rows[m].email /\ row.phone = rows[m].phone /\ row.password = 0
    BY <1>2 DEF Row
  <2> QED
    BY <1>1, <2>1, <2>2
<1>5. CASE DeleteMember(m)
  BY <1>1, <1>5 DEF DeleteMember
<1> QED
  BY <1>3, <1>4, <1>5 DEF Admin

LEMMA AdminTypes ==
    ASSUME TypeInv, CauseInv, NEW m \in Members, Admin(m)
    PROVE  TypeInv' /\ CauseInv'
<1>1. LogInv /\ StoreInv /\ JobInv /\ RowInv
  BY DEF TypeInv
<1>2. UNCHANGED <<now, codes, job, inbox>>
  BY AdminIs
<1>3. RowInv'
  BY <1>1, AdminIs DEF RowInv
<1>4. JobInv'
  BY <1>1, <1>2 DEF JobInv, codes
<1> QED
  BY <1>1, <1>2, <1>3, <1>4, CodesStay DEF TypeInv

LEMMA TickTypes ==
    ASSUME TypeInv, CauseInv, Tick
    PROVE  TypeInv' /\ CauseInv'
<1>1. LogInv /\ StoreInv /\ JobInv /\ RowInv
  BY DEF TypeInv
<1>2. now' = now + 1 /\ UNCHANGED <<codes, members, job, inbox>>
  BY DEF Tick
<1>3. LogInv'
  BY <1>1, <1>2 DEF LogInv, codes, issued
<1>4. StoreInv' /\ JobInv'
  BY <1>1, <1>2 DEF StoreInv, JobInv, codes
<1>5. \A i \in log : Caused(i) => Caused(i)'
  <2> SUFFICES ASSUME NEW i \in log, Caused(i)
               PROVE  Caused(i)'
    OBVIOUS
  <2>1. i.exp \in Nat /\ now \in Nat
    BY <1>1, IssueFacts DEF LogInv
  <2>2. now > i.exp => now' > i.exp
    BY <1>2, <2>1
  <2> QED
    BY <1>2, <2>2 DEF Caused, codes
<1>6. CauseInv'
  BY <1>1, <1>2, <1>5 DEF CauseInv, LogInv, codes
<1> QED
  BY <1>1, <1>2, <1>3, <1>4, <1>6, RowsStay DEF TypeInv

LEMMA RestartTypes ==
    ASSUME TypeInv, CauseInv, Restart
    PROVE  TypeInv' /\ CauseInv'
<1>1. LogInv /\ StoreInv /\ JobInv /\ RowInv
  BY DEF TypeInv
<1>2. /\ store' = [c \in Contacts |-> None] /\ job' = [t \in Threads |-> Idle]
      /\ lostTo' = issued /\ UNCHANGED <<now, log, used, refused, members, inbox>>
  BY DEF Restart
<1>3. LogInv'
  BY <1>1, <1>2, LogNumbers DEF LogInv, issued
<1>4. StoreInv'
  BY <1>1, <1>2 DEF StoreInv
<1>5. JobInv'
  BY <1>1, <1>2 DEF JobInv, Job, Idle
<1>6. \A i \in log : Caused(i)'
  BY <1>1, <1>2 DEF Caused, LogInv
<1>7. CauseInv'
  BY <1>1, <1>2, <1>6 DEF CauseInv, LogInv
<1> QED
  BY <1>1, <1>2, <1>3, <1>4, <1>5, <1>7, RowsStay DEF TypeInv

LEMMA NextTypes == TypeInv /\ CauseInv /\ [Next]_vars => TypeInv' /\ CauseInv'
<1> SUFFICES ASSUME TypeInv, CauseInv, [Next]_vars
             PROVE  TypeInv' /\ CauseInv'
  OBVIOUS
<1>1. ASSUME NEW t \in Threads, Handler(t)
      PROVE  TypeInv' /\ CauseInv'
  BY <1>1, RequestTypes, StoreOtpTypes, DeliverTypes, CheckTypes, LookupTypes, CommitTypes
     DEF Handler
<1>2. CASE UNCHANGED vars
  <2>1. UNCHANGED <<now, codes, members, job, inbox>>
    BY <1>2 DEF vars, codes, members
  <2>2. LogInv' /\ StoreInv' /\ CauseInv' /\ RowInv'
    BY <2>1, CodesStay, RowsStay DEF TypeInv
  <2>3. JobInv'
    BY <2>1 DEF TypeInv, JobInv, codes
  <2> QED
    BY <2>2, <2>3 DEF TypeInv
<1> QED
  BY <1>1, <1>2, AdminTypes, TickTypes, RestartTypes DEF Next

LEMMA TypesHold == Spec => [](TypeInv /\ CauseInv)
<1>1. Init => TypeInv /\ CauseInv
  BY InitTypes
<1> QED
  BY <1>1, NextTypes, PTL DEF Spec

(* Rows, codes and jobs keep their types, and what the store holds for a   *)
(* contact was issued to it.                                               *)
THEOREM AccountsTypeCorrect == Spec => []TypeOK
<1>1. TypeInv => TypeOK
  <2> SUFFICES ASSUME TypeInv
               PROVE  TypeOK
    OBVIOUS
  <2>1. Job \subseteq [op : {"idle"}] \cup SendJob \cup DeliverJob \cup LookupJob
                      \cup PhoneJob \cup CommitJob
    BY DEF Job, Idle
  <2>2. job \in [Threads ->
              [op : {"idle"}]
         \cup [op : {"send"}, to : Contacts]
         \cup [op : {"deliver"}, issue : Issue]
         \cup [op : {"lookup"}, issue : Issue, reset : BOOLEAN]
         \cup [op : {"phone"}, who : Members, read : Row, to : Phones]
         \cup [op : {"commit"}, who : Members, read : Row, new : Row]]
    BY <2>1 DEF TypeInv, JobInv, SendJob, DeliverJob, LookupJob, PhoneJob, CommitJob
  <2>3. /\ now \in Nat /\ lostTo \in Nat /\ log \subseteq Issue
        /\ used \subseteq log /\ refused \subseteq log
    BY DEF TypeInv, LogInv
  <2>4. /\ store \in [Contacts -> Issue \cup {None}] /\ inbox \in [Contacts -> Issue \cup {None}]
        /\ \A c \in Contacts : store[c] # None => store[c].to = c /\ store[c] \in log
    BY DEF TypeInv, StoreInv
  <2> QED
    BY <2>2, <2>3, <2>4 DEF TypeInv, RowInv, TypeOK
<1> QED
  BY <1>1, TypesHold, PTL

(* The code received last is refused for a reason.                         *)
THEOREM RefusalsHaveACause == Spec => []RefusalHasACause
<1>1. CauseInv => RefusalHasACause
  BY DEF CauseInv, Caused, RefusalHasACause
<1> QED
  BY <1>1, TypesHold, PTL

-----------------------------------------------------------------------------
(* The store implements OneTimeCodes.                                      *)

Live    == [c \in Contacts |-> IF store[c] # None /\ now <= store[c].exp THEN store[c].no ELSE 0]
Numbers == {i.no : i \in used}

LEMMA LiveIs ==
    ASSUME NEW c \in Contacts
    PROVE  Live[c] = IF store[c] # None /\ now <= store[c].exp THEN store[c].no ELSE 0
  BY DEF Live

(* Cleaning, a restart and the passing of time only lose codes.            *)
LEMMA LosingIsAllowed ==
    ASSUME TypeInv, UNCHANGED <<log, used>>,
           \A c \in Contacts : Live'[c] = Live[c] \/ Live'[c] = 0
    PROVE  Promise!Next
<1> DEFINE S == {c \in Contacts : Live'[c] = 0}
<1>1. Live' = [c \in Contacts |-> IF c \in S THEN 0 ELSE Live[c]]
  <2>1. Live' = [c \in Contacts |-> Live'[c]]
    BY DEF Live
  <2>2. \A c \in Contacts : Live'[c] = IF c \in S THEN 0 ELSE Live[c]
    OBVIOUS
  <2> QED
    BY <2>1, <2>2
<1>2. UNCHANGED <<issued, Numbers>>
  BY DEF issued, Numbers
<1>3. S \in SUBSET Contacts
  OBVIOUS
<1> HIDE DEF S
<1>4. Promise!Lose
  BY <1>1, <1>2, <1>3 DEF Promise!Lose, Live, Numbers
<1> QED
  BY <1>4 DEF Promise!Next

LEMMA CleaningLoses ==
    ASSUME TypeInv, now' = now, NEW c \in Contacts, store'[c] = Clean[c]
    PROVE  Live'[c] = Live[c]
<1>1. StoreInv
  BY DEF TypeInv
<1>2. Live'[c] = IF store'[c] # None /\ now <= store'[c].exp THEN store'[c].no ELSE 0
  BY DEF Live
<1>3. CASE Clean[c] = None
  <2>1. now \in Nat /\ (store[c] # None => store[c].exp \in Nat)
    BY <1>1, IssueFacts DEF TypeInv, LogInv, StoreInv
  <2>2. store[c] = None \/ ~(now <= store[c].exp)
    BY <1>1, <1>3, <2>1, CleanFacts
  <2> QED
    BY <1>2, <1>3, <2>2, LiveIs
<1>4. CASE Clean[c] # None
  BY <1>1, <1>2, <1>4, CleanFacts, LiveIs
<1> QED
  BY <1>3, <1>4

LEMMA StoreOtpIssues ==
    ASSUME TypeInv, NEW t \in Threads, StoreOtp(t)
    PROVE  Promise!Next
<1>1. LogInv /\ StoreInv /\ JobInv
  BY DEF TypeInv
<1>2. job[t] \in SendJob
  BY <1>1, Ops DEF StoreOtp, JobInv
<1>3. PICK i : /\ i.no = issued + 1 /\ i.to = job[t].to /\ i.exp = now + Expiry
               /\ \E code \in Codes : i = [no |-> issued + 1, to |-> job[t].to, code |-> code,
                                           exp |-> now + Expiry]
               /\ store' = Stored(i) /\ log' = log \cup {i}
  BY DEF StoreOtp
<1>4. now \in Nat /\ Expiry \in Nat /\ issued \in Nat
  BY <1>1, LogNumbers, AccountsAssumption DEF LogInv
<1>5. i \in Issue /\ i.to \in Contacts /\ i # None
  BY <1>2, <1>3, <1>4, IssueFacts DEF Issue, SendJob
<1>6. UNCHANGED <<now, used>>
  BY DEF StoreOtp
<1>7. issued' = issued + 1
  <2>1. i \notin log /\ IsFiniteSet(log)
    BY <1>1, <1>3, <1>4 DEF LogInv
  <2> QED
    BY <1>3, <2>1, FS_AddElement DEF issued
<1>8. \A c \in Contacts : store'[c] = IF c = i.to THEN i ELSE Clean[c]
  BY <1>1, <1>3, <1>5, CleanFacts DEF Stored
<1>9. \A c \in Contacts : Live'[c] = IF c = i.to THEN i.no ELSE Live[c]
  <2> SUFFICES ASSUME NEW c \in Contacts
               PROVE  Live'[c] = IF c = i.to THEN i.no ELSE Live[c]
    OBVIOUS
  <2>1. CASE c = i.to
    <3>1. store'[c] = i /\ now' <= i.exp
      BY <1>3, <1>4, <1>6, <1>8, <2>1
    <3>2. Live'[c] = IF store'[c] # None /\ now' <= store'[c].exp THEN store'[c].no ELSE 0
      BY DEF Live
    <3> QED
      BY <1>5, <2>1, <3>1, <3>2
  <2>2. CASE c # i.to
    BY <1>6, <1>8, <2>2, CleaningLoses
  <2> QED
    BY <2>1, <2>2
<1>10. Live' = [Live EXCEPT ![i.to] = issued']
  <2>1. Live' = [c \in Contacts |-> Live'[c]] /\ Live = [c \in Contacts |-> Live[c]]
    BY DEF Live
  <2> QED
    BY <1>3, <1>5, <1>7, <1>9, <2>1
<1>11. Numbers' = Numbers
  BY <1>6 DEF Numbers
<1>12. Promise!Issue(i.to)
  BY <1>7, <1>10, <1>11 DEF Promise!Issue, Live, Numbers
<1> QED
  BY <1>5, <1>12 DEF Promise!Next

LEMMA CheckRedeems ==
    ASSUME TypeInv, CauseInv, NEW t \in Threads, NEW c \in Contacts, NEW next, Check(t, c, next)
    PROVE  Promise!Next
<1>1. LogInv /\ StoreInv
  BY DEF TypeInv
<1>2. UNCHANGED <<now, log>>
  BY CheckIs
<1>3. CASE used' = used /\ store' = Clean
  <2>1. \A d \in Contacts : Live'[d] = Live[d]
    BY <1>2, <1>3, CleaningLoses
  <2> QED
    BY <1>2, <1>3, <2>1, LosingIsAllowed
<1>4. CASE /\ Clean[c] \in log /\ Clean[c] = store[c] /\ ~(now > store[c].exp)
           /\ used' = used \cup {Clean[c]} /\ store' = Spent(c)
  <2>1. PICK i \in log : i = Clean[c]
    BY <1>4
  <2>2. i \in Issue /\ i.no \in Nat /\ i.exp \in Nat /\ now \in Nat /\ 1 <= i.no /\ i # None
    BY <1>1, IssueFacts DEF LogInv
  <2>3. Live[c] = i.no /\ Live[c] # 0
    BY <1>4, <2>1, <2>2, LiveIs
  <2>4. \A d \in Contacts : store'[d] = IF d = c THEN None ELSE Clean[d]
    BY <1>1, <1>4, CleanFacts DEF Spent
  <2>5. Live'[c] = 0
    BY <2>4 DEF Live
  <2>6. \A d \in Contacts : d # c => Live'[d] = Live[d]
    BY <1>2, <2>4, CleaningLoses
  <2>7. Live' = [Live EXCEPT ![c] = 0]
    <3>1. Live' = [d \in Contacts |-> Live'[d]] /\ Live = [d \in Contacts |-> Live[d]]
      BY DEF Live
    <3> QED
      BY <2>5, <2>6, <3>1
  <2>8. Numbers' = Numbers \cup {Live[c]}
    BY <1>4, <2>1, <2>3 DEF Numbers
  <2>9. issued' = issued
    BY <1>2 DEF issued
  <2>10. Promise!Redeem(c)
    BY <2>3, <2>7, <2>8, <2>9 DEF Promise!Redeem, Live, Numbers
  <2> QED
    BY <2>10 DEF Promise!Next
<1> QED
  BY <1>3, <1>4, CheckIs

LEMMA PromiseStep ==
    ASSUME TypeInv, CauseInv, [Next]_vars
    PROVE  Promise!Next \/ UNCHANGED <<issued, Live, Numbers>>
<1>1. StoreInv /\ LogInv /\ JobInv
  BY DEF TypeInv
<1>2. CASE UNCHANGED <<now, codes>>
  BY <1>2 DEF codes, issued, Live, Numbers
<1>3. CASE Tick
  <2>1. now' = now + 1 /\ UNCHANGED codes
    BY <1>3 DEF Tick
  <2>2. ASSUME NEW c \in Contacts
        PROVE  Live'[c] = Live[c] \/ Live'[c] = 0
    <3>1. store[c] # None => store[c].exp \in Nat
      BY <1>1, IssueFacts DEF StoreInv
    <3>2. Live'[c] = IF store[c] # None /\ now + 1 <= store[c].exp THEN store[c].no ELSE 0
      BY <2>1 DEF Live, codes
    <3> QED
      BY <1>1, <3>1, <3>2, LiveIs DEF LogInv
  <2> QED
    BY <2>1, <2>2, LosingIsAllowed DEF codes
<1>4. CASE Restart
  <2>1. store' = [c \in Contacts |-> None] /\ UNCHANGED <<log, used>>
    BY <1>4 DEF Restart
  <2>2. \A c \in Contacts : Live'[c] = 0
    BY <2>1 DEF Live
  <2> QED
    BY <2>1, <2>2, LosingIsAllowed
<1>5. ASSUME NEW t \in Threads, Handler(t)
      PROVE  Promise!Next \/ UNCHANGED <<issued, Live, Numbers>>
  <2>1. CASE StoreOtp(t)
    BY <2>1, StoreOtpIssues
  <2>2. CASE Verify(t)
    <3>1. PICK c \in Contacts, reset \in BOOLEAN :
            Check(t, c, [op |-> "lookup", issue |-> Clean[c], reset |-> reset])
      BY <2>2 DEF Verify
    <3> QED
      BY <3>1, CheckRedeems
  <2>3. CASE PhoneCheck(t)
    <3>1. job[t].to \in Contacts
      BY <1>1, <2>3, Ops DEF PhoneCheck, JobInv, PhoneJob, Contacts
    <3>2. \E next : Check(t, job[t].to, next)
      BY <2>3 DEF PhoneCheck
    <3> QED
      BY <3>1, <3>2, CheckRedeems
  <2>4. CASE UNCHANGED <<now, codes>>
    BY <1>2, <2>4
  <2> QED
    BY <1>5, <2>1, <2>2, <2>3, <2>4
       DEF Handler, Ask, AskPhone, Deliver, Lookup, PhoneBegin, Commit
<1>6. ASSUME NEW m \in Members, Admin(m)
      PROVE  UNCHANGED <<now, codes>>
  BY <1>6, AdminIs
<1>7. CASE UNCHANGED vars
  BY <1>2, <1>7 DEF vars, codes
<1> QED
  BY <1>2, <1>3, <1>4, <1>5, <1>6, <1>7 DEF Next

(* The in-memory store keeps the promise of one-time codes.                *)
THEOREM CodesImplementTheirPromise == Spec => CodesAreOneTime
<1>1. Init => Promise!Init
  <2> SUFFICES ASSUME Init
               PROVE  Promise!Init
    OBVIOUS
  <2>1. issued = 0
    BY FS_EmptySet DEF Init, issued
  <2>2. Live = [c \in Contacts |-> 0] /\ Numbers = {}
    BY DEF Init, Live, Numbers
  <2> QED
    BY <2>1, <2>2 DEF Promise!Init, Live, Numbers
<1>2. TypeInv /\ CauseInv /\ [Next]_vars => [Promise!Next]_<<issued, Live, Numbers>>
  BY PromiseStep
<1>3. [Promise!Next]_<<issued, Live, Numbers>> =>
          [Promise!Next]_<<issued, [c \in Contacts |-> IF store[c] # None /\ now <= store[c].exp
                                                       THEN store[c].no ELSE 0],
                           {i.no : i \in used}>>
  BY DEF Live, Numbers
<1> QED
  BY <1>1, <1>2, <1>3, TypesHold, PTL DEF Spec, CodesAreOneTime, Promise!Spec

-----------------------------------------------------------------------------
(* What a code authorises. A request that has redeemed a code carries its  *)
(* number until it writes it as a password; no two requests or members     *)
(* have the same one. A request that read a member finds, unless an        *)
(* administrator stepped in, the address as it was, no flag reset, and     *)
(* another phone number only together with its flag.                       *)

Number(j) == IF j.op = "lookup" THEN j.issue.no
             ELSE IF j.op = "commit" /\ j.new.password # j.read.password
                  THEN j.new.password ELSE 0

Sent(c)  == \E i \in used : i.to = c
Spends(n) == \E i \in used : i.no = n

ReadGood(j) ==
    (j.op \in {"phone", "commit"} /\ j.who \in Present /\ j.who \notin edited) =>
        /\ rows[j.who].email = j.read.email
        /\ j.read.ev = TRUE => rows[j.who].ev = TRUE
        /\ j.read.pv = TRUE => rows[j.who].pv = TRUE
        /\ rows[j.who].phone # j.read.phone => rows[j.who].pv = TRUE

WriteGood(j) ==
    j.op = "commit" =>
        /\ j.new.email = j.read.email
        /\ j.new.ev # j.read.ev => j.new.ev = TRUE /\ Sent(j.read.email)
        /\ j.new.pv # j.read.pv => j.new.pv = TRUE /\ Sent(j.new.phone)
        /\ j.new.phone # j.read.phone => j.new.pv = TRUE /\ Sent(j.new.phone)

NumberInv ==
    /\ \A t \in Threads : Number(job[t]) # 0 => Spends(Number(job[t]))
    /\ \A t, u \in Threads : t # u /\ Number(job[t]) # 0 => Number(job[t]) # Number(job[u])

PasswordInv ==
    \A m \in Present : rows[m].password # 0 =>
        /\ Spends(rows[m].password)
        /\ \A t \in Threads : Number(job[t]) # rows[m].password
        /\ \A n \in Present \ {m} : rows[n].password # rows[m].password

FlagInv ==
    \A m \in Present \ edited : /\ rows[m].ev = TRUE => Sent(rows[m].email)
                                /\ rows[m].pv = TRUE => Sent(rows[m].phone)

BackInv == /\ NumberInv /\ PasswordInv /\ FlagInv
           /\ \A t \in Threads : ReadGood(job[t]) /\ WriteGood(job[t])

LEMMA NumberOf ==
    /\ Number(Idle) = 0
    /\ \A j \in SendJob \cup DeliverJob \cup PhoneJob : Number(j) = 0
    /\ \A j \in LookupJob : Number(j) = j.issue.no
    /\ \A j \in CommitJob : Number(j) = IF j.new.password # j.read.password
                                        THEN j.new.password ELSE 0
  BY DEF Number, Idle, SendJob, DeliverJob, PhoneJob, LookupJob, CommitJob

LEMMA IdleGood == Number(Idle) = 0 /\ ReadGood(Idle) /\ WriteGood(Idle)
  BY DEF Number, ReadGood, WriteGood, Idle

(* A handler moves on, and no row changes.                                 *)
LEMMA JobStep ==
    ASSUME TypeInv, BackInv, NEW t \in Threads, NEW j \in Job, Goes(t, j),
           used \subseteq used', UNCHANGED <<rows, edited>>,
           ReadGood(j)', WriteGood(j)',
           \/ Number(j) = 0
           \/ Number(j) = Number(job[t])
           \/ Spends(Number(j))' /\ ~Spends(Number(j))
    PROVE  BackInv'
<1>1. job'[t] = j /\ \A u \in Threads \ {t} : job'[u] = job[u]
  BY DEF TypeInv, JobInv, Goes
<1>2. Present' = Present
  BY DEF Present
<1>3. /\ \A n : Spends(n) => Spends(n)'
      /\ \A c : Sent(c) => Sent(c)'
  BY DEF Spends, Sent
<1>4. Number(j) # 0 => Spends(Number(j))'
  BY <1>3 DEF BackInv, NumberInv
<1>5. \A u \in Threads \ {t} : Number(j) # 0 => Number(job[u]) # Number(j)
  BY DEF BackInv, NumberInv
<1>6. NumberInv'
  <2>1. ASSUME NEW u \in Threads, Number(job'[u]) # 0
        PROVE  \E i \in used' : i.no = Number(job'[u])
    BY <1>1, <1>3, <1>4, <2>1 DEF BackInv, NumberInv, Spends
  <2>2. ASSUME NEW u \in Threads, NEW v \in Threads, u # v, Number(job'[u]) # 0
        PROVE  Number(job'[u]) # Number(job'[v])
    BY <1>1, <1>5, <2>2 DEF BackInv, NumberInv
  <2>3. NumberInv' <=>
          /\ \A u \in Threads : Number(job'[u]) # 0 => \E i \in used' : i.no = Number(job'[u])
          /\ \A u, v \in Threads : u # v /\ Number(job'[u]) # 0 => Number(job'[u]) # Number(job'[v])
    BY DEF NumberInv, Spends, Number
  <2> QED
    BY <2>1, <2>2, <2>3
<1>7. PasswordInv'
  <2>1. SUFFICES ASSUME NEW m \in Present, rows[m].password # 0
                 PROVE  /\ Spends(rows[m].password)'
                        /\ \A u \in Threads : Number(job'[u]) # rows[m].password
                        /\ \A n \in Present \ {m} : rows[n].password # rows[m].password
    BY <1>2 DEF PasswordInv, Number, Spends
  <2>2. /\ Spends(rows[m].password)
        /\ \A u \in Threads : Number(job[u]) # rows[m].password
        /\ \A n \in Present \ {m} : rows[n].password # rows[m].password
    BY <2>1 DEF BackInv, PasswordInv
  <2>3. Number(j) # rows[m].password
    BY <2>1, <2>2
  <2>4. Spends(rows[m].password)'
    BY <2>2 DEF Spends
  <2> QED
    BY <1>1, <2>2, <2>3, <2>4
<1>8. FlagInv'
  BY <1>2 DEF BackInv, FlagInv, Sent
<1>9. ASSUME NEW u \in Threads
      PROVE  ReadGood(job[u])' /\ WriteGood(job[u])'
  <2>1. CASE u = t
    BY <1>1, <2>1 DEF ReadGood, WriteGood, Sent
  <2>2. CASE u # t
    <3>1. PICK k \in Job : k = job[u]
      BY DEF TypeInv, JobInv
    <3>2. ReadGood(k) /\ WriteGood(k) /\ job'[u] = k
      BY <1>1, <2>2, <3>1 DEF BackInv
    <3>3. ReadGood(k)' /\ WriteGood(k)'
      BY <1>2, <3>2 DEF ReadGood, WriteGood, Sent
    <3> QED
      BY <3>2, <3>3 DEF ReadGood, WriteGood, Sent
  <2> QED
    BY <2>1, <2>2
<1> QED
  BY <1>6, <1>7, <1>8, <1>9 DEF BackInv

LEMMA RequestBack ==
    ASSUME TypeInv, BackInv, NEW t \in Threads,
           Ask(t) \/ AskPhone(t) \/ StoreOtp(t) \/ Deliver(t) \/ PhoneBegin(t)
    PROVE  BackInv'
<1>1. UNCHANGED <<used, rows, edited>>
  BY DEF Ask, AskPhone, StoreOtp, Deliver, PhoneBegin, codes, members
<1>2. CASE Ask(t) \/ AskPhone(t)
  <2>1. PICK c \in Contacts : Goes(t, [op |-> "send", to |-> c])
    BY <1>2 DEF Ask, AskPhone, Contacts
  <2> DEFINE j == [op |-> "send", to |-> c]
  <2>2. j \in Job /\ Number(j) = 0 /\ j.op = "send"
    BY NumberOf DEF Job, SendJob
  <2>3. ReadGood(j)' /\ WriteGood(j)'
    BY <2>2 DEF ReadGood, WriteGood
  <2> QED
    BY <1>1, <2>1, <2>2, <2>3, JobStep
<1>3. CASE StoreOtp(t)
  <2>1. job[t] \in SendJob
    BY <1>3, Ops DEF TypeInv, JobInv, StoreOtp
  <2>2. PICK code \in Codes :
          Goes(t, [op |-> "deliver",
                   issue |-> [no |-> issued + 1, to |-> job[t].to, code |-> code,
                              exp |-> now + Expiry]])
    BY <1>3 DEF StoreOtp
  <2>3. PICK i : i = [no |-> issued + 1, to |-> job[t].to, code |-> code, exp |-> now + Expiry]
    OBVIOUS
  <2>4. i \in Issue
    BY <2>1, <2>3, LogNumbers, AccountsAssumption DEF TypeInv, LogInv, Issue, SendJob
  <2> DEFINE j == [op |-> "deliver", issue |-> i]
  <2>5. j \in Job /\ Number(j) = 0 /\ j.op = "deliver"
    BY <2>4, NumberOf DEF Job, DeliverJob
  <2>6. ReadGood(j)' /\ WriteGood(j)'
    BY <2>5 DEF ReadGood, WriteGood
  <2> QED
    BY <1>1, <2>2, <2>3, <2>5, <2>6, JobStep
<1>4. CASE Deliver(t)
  <2>1. Goes(t, Idle)
    BY <1>4 DEF Deliver
  <2>2. ReadGood(Idle)' /\ WriteGood(Idle)'
    BY DEF ReadGood, WriteGood, Idle
  <2> QED
    BY <1>1, <2>1, <2>2, IdleGood, JobStep DEF Job
<1>5. CASE PhoneBegin(t)
  <2>1. PICK m \in Present, p \in Phones :
          Goes(t, [op |-> "phone", who |-> m, read |-> rows[m], to |-> p])
    BY <1>5 DEF PhoneBegin
  <2>2. PICK r \in Row : r = rows[m]
    BY RowOfPresent DEF TypeInv
  <2>3. m \in Members
    BY DEF Present
  <2> DEFINE j == [op |-> "phone", who |-> m, read |-> r, to |-> p]
  <2>4. j \in Job /\ Number(j) = 0 /\ j.op = "phone" /\ j.who = m /\ j.read = r
    BY <2>3, NumberOf DEF Job, PhoneJob
  <2>5. rows'[m] = r
    BY <1>1, <2>2
  <2>6. ReadGood(j)' /\ WriteGood(j)'
    BY <2>4, <2>5 DEF ReadGood, WriteGood
  <2> QED
    BY <1>1, <2>1, <2>2, <2>4, <2>6, JobStep
<1> QED
  BY <1>2, <1>3, <1>4, <1>5

LEMMA CheckBack ==
    ASSUME TypeInv, CauseInv, BackInv, NEW t \in Threads, Verify(t) \/ PhoneCheck(t)
    PROVE  BackInv'
<1>1. LogInv /\ JobInv
  BY DEF TypeInv
<1>2. Idle \in Job /\ ReadGood(Idle)' /\ WriteGood(Idle)'
  BY DEF Job, ReadGood, WriteGood, Idle
<1>3. CASE Verify(t)
  <2>1. PICK c \in Contacts, reset \in BOOLEAN :
          Check(t, c, [op |-> "lookup", issue |-> Clean[c], reset |-> reset])
    BY <1>3 DEF Verify
  <2>2. PICK i : i = Clean[c]
    OBVIOUS
  <2> DEFINE j == [op |-> "lookup", issue |-> i, reset |-> reset]
  <2>3. /\ UNCHANGED <<rows, edited>>
        /\ \/ i \in log /\ i \notin used /\ used' = used \cup {i} /\ Goes(t, j)
           \/ used' = used /\ Goes(t, Idle)
    BY <2>1, <2>2, CheckIs DEF members
  <2>4. CASE i \in log /\ i \notin used /\ used' = used \cup {i} /\ Goes(t, j)
    <3>1. i \in Issue
      BY <1>1, <2>4 DEF LogInv
    <3>2. j \in Job /\ Number(j) = i.no /\ j.op = "lookup"
      BY <3>1, NumberOf DEF Job, LookupJob
    <3>3. ReadGood(j)' /\ WriteGood(j)'
      BY <3>2 DEF ReadGood, WriteGood
    <3>4. Spends(i.no)' /\ ~Spends(i.no)
      BY <1>1, <2>4 DEF Spends, LogInv
    <3>5. PICK n : n = Number(j)
      OBVIOUS
    <3>6. Spends(n)' /\ ~Spends(n)
      BY <3>2, <3>4, <3>5
    <3>7. Spends(Number(j))' /\ ~Spends(Number(j))
      BY <3>5, <3>6 DEF Spends
    <3> QED
      BY <2>3, <2>4, <3>2, <3>3, <3>7, JobStep
  <2>5. CASE used' = used /\ Goes(t, Idle)
    BY <1>2, <2>3, <2>5, IdleGood, JobStep
  <2> QED
    BY <2>3, <2>4, <2>5
<1>4. CASE PhoneCheck(t)
  <2>1. PICK p \in PhoneJob : p = job[t] /\ p.op = "phone"
    BY <1>1, <1>4, Ops DEF PhoneCheck, JobInv
  <2>2. p.to \in Contacts /\ p.to \in Phones /\ p.who \in Members /\ p.read \in Row
    BY <2>1 DEF PhoneJob, Contacts
  <2>3. PICK new \in Row : /\ new = [p.read EXCEPT !.phone = p.to, !.pv = TRUE]
                           /\ new.email = p.read.email /\ new.phone = p.to /\ new.ev = p.read.ev
                           /\ new.pv = TRUE /\ new.password = p.read.password
    <3>1. PICK r \in Row : r = p.read
      BY <2>2
    <3>2. [r EXCEPT !.phone = p.to, !.pv = TRUE] \in Row
      BY <2>2 DEF Row
    <3>3. PICK new : new = [r EXCEPT !.phone = p.to, !.pv = TRUE]
      OBVIOUS
    <3>4. /\ new.email = r.email /\ new.phone = p.to /\ new.ev = r.ev
          /\ new.pv = TRUE /\ new.password = r.password
      BY <3>3 DEF Row
    <3> QED
      BY <3>1, <3>2, <3>3, <3>4
  <2> DEFINE j == [op |-> "commit", who |-> p.who, read |-> p.read, new |-> new]
  <2>4. Check(t, p.to, j)
    BY <1>4, <2>1, <2>3 DEF PhoneCheck
  <2>5. StoreInv /\ UNCHANGED <<rows, edited>>
    BY <2>2, <2>4, CheckIs DEF members, TypeInv
  <2>6. \/ /\ Clean[p.to] = store[p.to] /\ Clean[p.to] \in log
           /\ used' = used \cup {Clean[p.to]} /\ Goes(t, j)
        \/ used' = used /\ Goes(t, Idle)
    BY <2>2, <2>4, CheckIs
  <2>7. CASE /\ Clean[p.to] = store[p.to] /\ Clean[p.to] \in log
             /\ used' = used \cup {Clean[p.to]} /\ Goes(t, j)
    <3>1. \E i \in used' : i.to = p.to
      <4>1. Clean[p.to] \in Issue /\ Clean[p.to] # None
        BY <1>1, <2>7, IssueFacts DEF LogInv
      <4>2. Clean[p.to].to = p.to
        BY <2>2, <2>5, <2>7, <4>1 DEF StoreInv
      <4> QED
        BY <2>7, <4>2
    <3>2. /\ j \in Job /\ Number(j) = 0 /\ j.op = "commit" /\ j.who = p.who
          /\ j.read = p.read /\ j.new = new
      BY <2>2, <2>3, NumberOf DEF Job, CommitJob
    <3>3. ReadGood(p) /\ Present' = Present
      BY <2>1, <2>5 DEF BackInv, Present
    <3>4. ReadGood(p)'
      BY <2>5, <3>3 DEF ReadGood
    <3>5. ReadGood(j)'
      BY <2>1, <3>2, <3>4 DEF ReadGood
    <3>6. WriteGood(j)'
      BY <2>3, <3>1, <3>2 DEF WriteGood, Sent
    <3> QED
      BY <2>5, <2>7, <3>2, <3>5, <3>6, JobStep
  <2>8. CASE used' = used /\ Goes(t, Idle)
    BY <1>2, <2>5, <2>8, IdleGood, JobStep
  <2> QED
    BY <2>6, <2>7, <2>8
<1> QED
  BY <1>3, <1>4

LEMMA LookupBack ==
    ASSUME TypeInv, BackInv, NEW t \in Threads, Lookup(t)
    PROVE  BackInv'
<1>1. /\ job[t] \in LookupJob /\ job[t].issue \in used /\ job[t].issue \in Issue
      /\ UNCHANGED <<used, rows, edited>>
  BY LookupIs DEF codes, members
<1>2. PICK i \in Issue : i = job[t].issue /\ i \in used
  BY <1>1
<1>3. CASE Goes(t, Idle)
  <2>1. ReadGood(Idle)' /\ WriteGood(Idle)' /\ Idle \in Job
    BY DEF ReadGood, WriteGood, Idle, Job
  <2> QED
    BY <1>1, <1>3, <2>1, IdleGood, JobStep
<1>4. CASE ~Goes(t, Idle)
  <2>1. PICK m \in Present, new \in Row :
          /\ Has(m, i.to)
          /\ new = IF job[t].reset
                   THEN [Verified(rows[m], i.to) EXCEPT !.password = i.no]
                   ELSE Verified(rows[m], i.to)
          /\ Goes(t, [op |-> "commit", who |-> m, read |-> rows[m], new |-> new])
    BY <1>2, <1>4, LookupIs
  <2>2. PICK r \in Row : r = rows[m] /\ m \in Members
    BY RowOfPresent DEF TypeInv
  <2>3. i.no \in Nat /\ i.to \in Contacts
    BY IssueFacts
  <2>4. PICK v \in Row : v = Verified(r, i.to)
    BY <2>3, VerifiedTypes
  <2>5. /\ v.email = r.email /\ v.phone = r.phone /\ v.password = r.password
        /\ v.ev # r.ev => v.ev = TRUE /\ i.to \in Emails
        /\ v.pv # r.pv => v.pv = TRUE /\ i.to \notin Emails
    BY <2>4 DEF Verified, Row
  <2>6. /\ new.email = v.email /\ new.phone = v.phone /\ new.ev = v.ev /\ new.pv = v.pv
        /\ new.password \in {v.password, i.no}
    <3>1. new = v \/ new = [v EXCEPT !.password = i.no]
      BY <2>1, <2>2, <2>4
    <3> QED
      BY <3>1 DEF Row
  <2>7. i.to \in {r.email, r.phone} /\ r.email \in Emails /\ r.phone \in Phones \cup {None}
    BY <2>1, <2>2 DEF Has, Row
  <2>8. /\ i.to \in Emails => i.to = r.email
        /\ i.to \notin Emails => i.to = r.phone
    BY <2>7, AccountsAssumption DEF Contacts
  <2> DEFINE j == [op |-> "commit", who |-> m, read |-> r, new |-> new]
  <2>9. /\ j \in Job /\ j.op = "commit" /\ j.who = m /\ j.read = r /\ j.new = new
        /\ Number(j) = IF new.password # r.password THEN new.password ELSE 0
    BY <2>2, NumberOf DEF Job, CommitJob
  <2>10. Number(j) = 0 \/ Number(j) = Number(job[t])
    BY <1>1, <1>2, <2>5, <2>6, <2>9, NumberOf
  <2>11. ReadGood(j)'
    BY <1>1, <2>2, <2>9 DEF ReadGood
  <2>12. WriteGood(j)'
    <3>1. i \in used'
      BY <1>1, <1>2
    <3> QED
      BY <2>5, <2>6, <2>8, <2>9, <3>1 DEF WriteGood, Sent
  <2> QED
    BY <1>1, <2>1, <2>2, <2>9, <2>10, <2>11, <2>12, JobStep
<1> QED
  BY <1>3, <1>4

(* What a commit does to the row, and to what another request read of it.  *)
LEMMA MergedBacks ==
    ASSUME NEW was \in Row, NEW j \in CommitJob, WriteGood(j),
           was.email = j.read.email,
           j.read.ev = TRUE => was.ev = TRUE,
           j.read.pv = TRUE => was.pv = TRUE,
           was.phone # j.read.phone => was.pv = TRUE,
           was.ev = TRUE => Sent(was.email), was.pv = TRUE => Sent(was.phone),
           NEW row, row = Merged(was, j)
    PROVE  /\ row.email = was.email
           /\ was.ev = TRUE => row.ev = TRUE
           /\ was.pv = TRUE => row.pv = TRUE
           /\ row.phone # was.phone => row.pv = TRUE
           /\ row.ev = TRUE => Sent(row.email)
           /\ row.pv = TRUE => Sent(row.phone)
<1>1. j.op = "commit"
  BY DEF CommitJob
<1>2. /\ row.email = Written(was.email, j.read.email, j.new.email)
      /\ row.phone = Written(was.phone, j.read.phone, j.new.phone)
      /\ row.ev = Written(was.ev, j.read.ev, j.new.ev)
      /\ row.pv = Written(was.pv, j.read.pv, j.new.pv)
  BY DEF Merged
<1>3. row.email = was.email
  BY <1>1, <1>2 DEF WriteGood, Written
<1>4. /\ was.ev = TRUE => row.ev = TRUE
      /\ row.ev = TRUE => Sent(row.email)
  BY <1>1, <1>2, <1>3 DEF WriteGood, Written
<1>5. was.pv = TRUE => row.pv = TRUE
  BY <1>1, <1>2 DEF WriteGood, Written
<1>6. CASE j.new.phone # j.read.phone
  <2>1. row.phone = j.new.phone /\ j.new.pv = TRUE /\ Sent(j.new.phone)
    BY <1>1, <1>2, <1>6 DEF WriteGood, Written
  <2>2. row.pv = TRUE
    BY <1>2, <2>1 DEF Written
  <2> QED
    BY <1>3, <1>4, <1>5, <2>1, <2>2
<1>7. CASE j.new.phone = j.read.phone
  <2>1. row.phone = was.phone
    BY <1>2, <1>7 DEF Written
  <2>2. row.pv = TRUE => Sent(row.phone)
    <3>1. CASE j.new.pv = j.read.pv
      BY <1>2, <2>1, <3>1 DEF Written
    <3>2. CASE j.new.pv # j.read.pv
      BY <1>1, <1>7, <2>1, <3>2 DEF WriteGood
    <3> QED
      BY <3>1, <3>2
  <2> QED
    BY <1>3, <1>4, <1>5, <2>1, <2>2
<1> QED
  BY <1>6, <1>7

LEMMA CommitBack ==
    ASSUME TypeInv, BackInv, NEW t \in Threads, Commit(t)
    PROVE  BackInv'
<1>1. /\ job[t] \in CommitJob /\ Goes(t, Idle) /\ UNCHANGED <<used, edited>>
      /\ \/ rows' = rows
         \/ /\ job[t].who \in Present
            /\ rows' = [rows EXCEPT ![job[t].who] = Merged(rows[job[t].who], job[t])]
  BY CommitIs DEF codes
<1>2. ReadGood(Idle)' /\ WriteGood(Idle)' /\ Idle \in Job
  BY DEF ReadGood, WriteGood, Idle, Job
<1>3. CASE rows' = rows
  BY <1>1, <1>2, <1>3, IdleGood, JobStep
<1>4. CASE /\ job[t].who \in Present
           /\ rows' = [rows EXCEPT ![job[t].who] = Merged(rows[job[t].who], job[t])]
  <2>1. PICK j \in CommitJob : j = job[t] /\ j.op = "commit" /\ j \in Job
    BY <1>1 DEF CommitJob, Job
  <2>2. PICK m \in Present : m = j.who /\ m \in Members
    BY <1>4, <2>1 DEF Present
  <2>3. PICK was \in Row : was = rows[m]
    BY <2>2, RowOfPresent DEF TypeInv
  <2>4. PICK row \in Row : row = Merged(was, j)
    BY <2>1, <2>3, MergedTypes
  <2>5. rows' = [rows EXCEPT ![m] = row]
    BY <1>4, <2>1, <2>2, <2>3, <2>4
  <2>6. /\ rows'[m] = row /\ \A n \in Members : n # m => rows'[n] = rows[n]
        /\ Present' = Present
    BY <2>2, <2>3, <2>5, AccountsAssumption DEF TypeInv, RowInv, Present
  <2>7. /\ \A u \in Threads : job[u] \in Job
        /\ \A u \in Threads : job'[u] = IF u = t THEN Idle ELSE job[u]
    BY <1>1 DEF TypeInv, JobInv, Goes
  <2>8. ReadGood(j) /\ WriteGood(j)
    BY <2>1 DEF BackInv
  <2>9. m \notin edited =>
          /\ was.email = j.read.email
          /\ j.read.ev = TRUE => was.ev = TRUE
          /\ j.read.pv = TRUE => was.pv = TRUE
          /\ was.phone # j.read.phone => was.pv = TRUE
    BY <2>1, <2>2, <2>3, <2>8 DEF ReadGood
  <2>10. m \notin edited =>
           /\ was.ev = TRUE => Sent(was.email)
           /\ was.pv = TRUE => Sent(was.phone)
    BY <2>3 DEF BackInv, FlagInv
  <2>11. m \notin edited =>
           /\ row.email = was.email
           /\ was.ev = TRUE => row.ev = TRUE
           /\ was.pv = TRUE => row.pv = TRUE
           /\ row.phone # was.phone => row.pv = TRUE
           /\ row.ev = TRUE => Sent(row.email)
           /\ row.pv = TRUE => Sent(row.phone)
    BY <2>4, <2>8, <2>9, <2>10, MergedBacks
  <2>12. row.password = IF j.new.password = j.read.password THEN was.password ELSE j.new.password
    BY <2>4 DEF Merged, Written
  <2>13. \/ row.password = was.password
         \/ row.password = Number(j)
    BY <2>12, NumberOf
  <2>14. NumberInv'
    <3>1. \A u \in Threads : Number(job'[u]) # 0 =>
            u # t /\ Number(job'[u]) = Number(job[u])
      BY <2>7, IdleGood
    <3>2. NumberInv' <=>
            /\ \A u \in Threads : Number(job'[u]) # 0 => \E i \in used' : i.no = Number(job'[u])
            /\ \A u, v \in Threads : u # v /\ Number(job'[u]) # 0 => Number(job'[u]) # Number(job'[v])
      BY DEF NumberInv, Spends, Number
    <3>3. \A u \in Threads : Number(job'[u]) # 0 => \E i \in used' : i.no = Number(job'[u])
      BY <1>1, <3>1 DEF BackInv, NumberInv, Spends
    <3>4. \A u, v \in Threads : u # v /\ Number(job'[u]) # 0 => Number(job'[u]) # Number(job'[v])
      BY <3>1 DEF BackInv, NumberInv
    <3> QED
      BY <3>2, <3>3, <3>4
  <2>15. PasswordInv'
    <3>1. SUFFICES ASSUME NEW n \in Present, rows'[n].password # 0
                   PROVE  /\ \E i \in used' : i.no = rows'[n].password
                          /\ \A u \in Threads : Number(job'[u]) # rows'[n].password
                          /\ \A o \in Present \ {n} : rows'[o].password # rows'[n].password
      BY <2>6 DEF PasswordInv, Number, Spends
    <3>2. PICK p : p = rows'[n].password
      OBVIOUS
    <3>3. \A o \in Present : o \in Members /\ (o # m => rows'[o] = rows[o])
      BY <2>6 DEF Present
    <3>4. \A u \in Threads : Number(job'[u]) = IF u = t THEN 0 ELSE Number(job[u])
      BY <2>7, IdleGood
    <3>5. CASE n # m
      <4>1. rows[n].password = p
        BY <3>2, <3>3, <3>5
      <4>2. /\ \E i \in used : i.no = p
            /\ \A u \in Threads : Number(job[u]) # p
            /\ \A o \in Present \ {n} : rows[o].password # p
        BY <3>1, <3>2, <4>1 DEF BackInv, PasswordInv, Spends
      <4>3. row.password # p
        BY <2>1, <2>3, <2>13, <3>5, <4>2
      <4> QED
        BY <1>1, <2>6, <3>1, <3>2, <3>3, <3>4, <4>2, <4>3
    <3>6. CASE n = m /\ p = was.password
      <4>1. /\ \E i \in used : i.no = p
            /\ \A u \in Threads : Number(job[u]) # p
            /\ \A o \in Present \ {m} : rows[o].password # p
        BY <2>3, <3>1, <3>2, <3>6 DEF BackInv, PasswordInv, Spends
      <4> QED
        BY <1>1, <3>1, <3>2, <3>3, <3>4, <3>6, <4>1
    <3>7. CASE n = m /\ p = Number(j)
      <4>1. /\ \E i \in used : i.no = p
            /\ \A u \in Threads \ {t} : Number(job[u]) # p
        BY <2>1, <3>1, <3>2, <3>7 DEF BackInv, NumberInv, Spends
      <4>2. \A o \in Present : rows[o].password # p
        BY <2>1, <3>1, <3>2, <3>7 DEF BackInv, PasswordInv
      <4> QED
        BY <1>1, <3>1, <3>2, <3>3, <3>4, <3>7, <4>1, <4>2
    <3> QED
      BY <2>6, <2>13, <3>2, <3>5, <3>6, <3>7
  <2>16. FlagInv'
    <3>1. SUFFICES ASSUME NEW n \in Present, n \notin edited
                   PROVE  /\ rows'[n].ev = TRUE => Sent(rows'[n].email)
                          /\ rows'[n].pv = TRUE => Sent(rows'[n].phone)
      BY <1>1, <2>6 DEF FlagInv, Sent
    <3>2. CASE n = m
      BY <2>6, <2>11, <3>1, <3>2
    <3>3. CASE n # m
      <4>1. rows'[n] = rows[n]
        BY <2>6, <3>3 DEF Present
      <4> QED
        BY <3>1, <4>1 DEF BackInv, FlagInv
    <3> QED
      BY <3>2, <3>3
  <2>17. ASSUME NEW u \in Threads
         PROVE  ReadGood(job[u])' /\ WriteGood(job[u])'
    <3>1. PICK k \in Job : k = job'[u] /\ (k = Idle \/ (k = job[u] /\ u # t))
      BY <1>2, <2>7
    <3>2. CASE k = Idle
      <4>1. ReadGood(k)' /\ WriteGood(k)'
        BY <3>2 DEF ReadGood, WriteGood, Idle
      <4> QED
        BY <3>1, <4>1 DEF ReadGood, WriteGood, Sent
    <3>3. CASE k = job[u]
      <4>1. ReadGood(k) /\ WriteGood(k)
        BY <3>3 DEF BackInv
      <4>2. ReadGood(k)'
        <5>1. SUFFICES ASSUME k.op \in {"phone", "commit"}, k.who \in Present, k.who \notin edited
                       PROVE  /\ rows'[k.who].email = k.read.email
                              /\ k.read.ev = TRUE => rows'[k.who].ev = TRUE
                              /\ k.read.pv = TRUE => rows'[k.who].pv = TRUE
                              /\ rows'[k.who].phone # k.read.phone => rows'[k.who].pv = TRUE
          BY <1>1, <2>6 DEF ReadGood
        <5>2. /\ rows[k.who].email = k.read.email
              /\ k.read.ev = TRUE => rows[k.who].ev = TRUE
              /\ k.read.pv = TRUE => rows[k.who].pv = TRUE
              /\ rows[k.who].phone # k.read.phone => rows[k.who].pv = TRUE
          BY <4>1, <5>1 DEF ReadGood
        <5>3. CASE k.who = m
          BY <2>3, <2>6, <2>11, <5>1, <5>2, <5>3
        <5>4. CASE k.who # m
          <6>1. rows'[k.who] = rows[k.who]
            BY <2>6, <5>1, <5>4 DEF Present
          <6> QED
            BY <5>2, <6>1
        <5> QED
          BY <5>3, <5>4
      <4>3. WriteGood(k)'
        BY <1>1, <4>1 DEF WriteGood, Sent
      <4> QED
        BY <3>1, <4>2, <4>3 DEF ReadGood, WriteGood, Sent
    <3> QED
      BY <3>1, <3>2, <3>3
  <2> QED
    BY <2>14, <2>15, <2>16, <2>17 DEF BackInv
<1> QED
  BY <1>1, <1>3, <1>4

LEMMA AdminBack ==
    ASSUME TypeInv, BackInv, NEW m \in Members, Admin(m)
    PROVE  BackInv'
<1>1. /\ m \in Present /\ UNCHANGED <<used, job>> /\ edited \subseteq edited'
      /\ \E row \in Row \cup {Absent} :
           /\ rows' = [rows EXCEPT ![m] = row]
           /\ row # Absent =>
                /\ row.ev = rows[m].ev /\ row.pv = rows[m].pv
                /\ row.password \in {0, rows[m].password}
                /\ m \in edited' \/ (row.email = rows[m].email /\ row.phone = rows[m].phone)
  BY AdminIs DEF codes
<1>2. PICK row \in Row \cup {Absent} :
        /\ rows' = [rows EXCEPT ![m] = row]
        /\ row # Absent =>
             /\ row.ev = rows[m].ev /\ row.pv = rows[m].pv
             /\ row.password \in {0, rows[m].password}
             /\ m \in edited' \/ (row.email = rows[m].email /\ row.phone = rows[m].phone)
  BY <1>1
<1>3. rows'[m] = row /\ \A n \in Members : n # m => rows'[n] = rows[n]
  BY <1>2 DEF TypeInv, RowInv
(* Whoever is left keeps the flags, and loses a password at most.          *)
<1>4. ASSUME NEW n \in Present'
      PROVE  /\ n \in Present /\ rows'[n].ev = rows[n].ev /\ rows'[n].pv = rows[n].pv
             /\ rows'[n].password \in {0, rows[n].password}
             /\ n \in edited' \/ (/\ rows'[n].email = rows[n].email
                                  /\ rows'[n].phone = rows[n].phone)
  <2>1. CASE n = m
    BY <1>1, <1>2, <1>3, <2>1 DEF Present
  <2>2. CASE n # m
    BY <1>3, <2>2 DEF Present
  <2> QED
    BY <2>1, <2>2
<1>5. NumberInv'
  BY <1>1 DEF BackInv, NumberInv, Spends, Number
<1>6. PasswordInv'
  <2>1. SUFFICES ASSUME NEW n \in Present', rows'[n].password # 0
                 PROVE  /\ \E i \in used : i.no = rows'[n].password
                        /\ \A u \in Threads : Number(job[u]) # rows'[n].password
                        /\ \A o \in Present' \ {n} : rows'[o].password # rows'[n].password
    BY <1>1 DEF PasswordInv, Number, Spends
  <2>2. n \in Present /\ rows'[n].password = rows[n].password
    BY <1>4, <2>1
  <2>3. /\ \E i \in used : i.no = rows[n].password
        /\ \A u \in Threads : Number(job[u]) # rows[n].password
        /\ \A o \in Present \ {n} : rows[o].password # rows[n].password
    BY <2>1, <2>2 DEF BackInv, PasswordInv, Spends
  <2>4. \A o \in Present' \ {n} : rows'[o].password # rows'[n].password
    BY <1>4, <2>1, <2>2, <2>3
  <2> QED
    BY <2>2, <2>3, <2>4
<1>7. FlagInv'
  <2>1. SUFFICES ASSUME NEW n \in Present', n \notin edited'
                 PROVE  /\ rows'[n].ev = TRUE => Sent(rows'[n].email)
                        /\ rows'[n].pv = TRUE => Sent(rows'[n].phone)
    BY <1>1 DEF FlagInv, Sent
  <2>2. n \in Present \ edited /\ rows'[n].email = rows[n].email /\ rows'[n].phone = rows[n].phone
        /\ rows'[n].ev = rows[n].ev /\ rows'[n].pv = rows[n].pv
    BY <1>1, <1>4, <2>1
  <2> QED
    BY <2>2 DEF BackInv, FlagInv
<1>8. ASSUME NEW u \in Threads
      PROVE  ReadGood(job[u])' /\ WriteGood(job[u])'
  <2>1. PICK k : k = job[u] /\ k = job'[u]
    BY <1>1
  <2>2. ReadGood(k) /\ WriteGood(k)
    BY <2>1 DEF BackInv
  <2>3. ReadGood(k)'
    <3>1. SUFFICES ASSUME k.op \in {"phone", "commit"}, k.who \in Present', k.who \notin edited'
                   PROVE  /\ rows'[k.who].email = k.read.email
                          /\ k.read.ev = TRUE => rows'[k.who].ev = TRUE
                          /\ k.read.pv = TRUE => rows'[k.who].pv = TRUE
                          /\ rows'[k.who].phone # k.read.phone => rows'[k.who].pv = TRUE
      BY DEF ReadGood
    <3>2. /\ k.who \in Present \ edited
          /\ rows'[k.who].email = rows[k.who].email /\ rows'[k.who].phone = rows[k.who].phone
          /\ rows'[k.who].ev = rows[k.who].ev /\ rows'[k.who].pv = rows[k.who].pv
      BY <1>1, <1>4, <3>1
    <3> QED
      BY <2>2, <3>1, <3>2 DEF ReadGood
  <2>4. WriteGood(k)'
    BY <1>1, <2>2 DEF WriteGood, Sent
  <2> QED
    BY <2>1, <2>3, <2>4 DEF ReadGood, WriteGood, Sent
<1> QED
  BY <1>5, <1>6, <1>7, <1>8 DEF BackInv

LEMMA RestartBack ==
    ASSUME TypeInv, BackInv, Restart
    PROVE  BackInv'
<1>1. /\ \A t \in Threads : job'[t] = Idle
      /\ UNCHANGED <<used, rows, edited>>
  BY DEF Restart, members
<1>2. \A t \in Threads : Number(job[t])' = 0
  BY <1>1, IdleGood DEF Number
<1>3. NumberInv'
  BY <1>2 DEF NumberInv
<1>4. PasswordInv' /\ FlagInv'
  BY <1>1, <1>2 DEF BackInv, PasswordInv, FlagInv, Present, Spends, Sent
<1>5. \A t \in Threads : ReadGood(job[t])' /\ WriteGood(job[t])'
  BY <1>1 DEF ReadGood, WriteGood, Idle
<1> QED
  BY <1>3, <1>4, <1>5 DEF BackInv

LEMMA SameBack ==
    ASSUME BackInv, UNCHANGED <<job, used, rows, edited>>
    PROVE  BackInv'
  BY DEF BackInv, NumberInv, PasswordInv, FlagInv, ReadGood, WriteGood, Number, Spends, Sent,
         Present

LEMMA InitBack == Init => BackInv
<1> SUFFICES ASSUME Init
             PROVE  BackInv
  OBVIOUS
<1>1. \A t \in Threads : Number(job[t]) = 0 /\ ReadGood(job[t]) /\ WriteGood(job[t])
  BY IdleGood DEF Init
<1>2. \A m \in Members : rows[m].ev # TRUE /\ rows[m].pv # TRUE /\ rows[m].password = 0
  BY AccountsAssumption DEF Init, Row
<1> QED
  BY <1>1, <1>2 DEF BackInv, NumberInv, PasswordInv, FlagInv, Present

LEMMA NextBack == TypeInv /\ CauseInv /\ BackInv /\ [Next]_vars => BackInv'
<1> SUFFICES ASSUME TypeInv, CauseInv, BackInv, [Next]_vars
             PROVE  BackInv'
  OBVIOUS
<1>1. ASSUME NEW t \in Threads, Handler(t)
      PROVE  BackInv'
  BY <1>1, RequestBack, CheckBack, LookupBack, CommitBack DEF Handler
<1>2. CASE Tick \/ UNCHANGED vars
  BY <1>2, SameBack DEF Tick, vars, codes, members
<1> QED
  BY <1>1, <1>2, AdminBack, RestartBack DEF Next

(* A verified contact or a new password is backed by a redeemed code.      *)
THEOREM VerificationIsBackedByACode == Spec => []BackedByACode
<1>1. TypeInv /\ BackInv => BackedByACode
  <2> SUFFICES ASSUME TypeInv, BackInv, NEW m \in Present
               PROVE  /\ m \notin edited =>
                           /\ rows[m].ev => \E i \in used : i.to = rows[m].email
                           /\ rows[m].pv => \E i \in used : i.to = rows[m].phone
                      /\ rows[m].password # 0 =>
                           /\ \E i \in used : i.no = rows[m].password
                           /\ \A n \in Present \ {m} : rows[n].password # rows[m].password
    BY DEF BackedByACode
  <2>1. /\ rows[m].ev => rows[m].ev = TRUE
        /\ rows[m].pv => rows[m].pv = TRUE
    <3>1. rows[m].ev \in BOOLEAN /\ rows[m].pv \in BOOLEAN
      BY RowOfPresent DEF TypeInv, Row
    <3> QED
      BY <3>1
  <2>2. m \notin edited => /\ rows[m].ev = TRUE => \E i \in used : i.to = rows[m].email
                           /\ rows[m].pv = TRUE => \E i \in used : i.to = rows[m].phone
    BY DEF BackInv, FlagInv, Sent
  <2>3. rows[m].password # 0 =>
          /\ \E i \in used : i.no = rows[m].password
          /\ \A n \in Present \ {m} : rows[n].password # rows[m].password
    BY DEF BackInv, PasswordInv, Spends
  <2> QED
    BY <2>1, <2>2, <2>3
<1>2. Init => BackInv
  BY InitBack
<1>3. TypeInv /\ CauseInv /\ BackInv /\ [Next]_vars => BackInv'
  BY NextBack
<1> QED
  BY <1>1, <1>2, <1>3, TypesHold, PTL DEF Spec
-----------------------------------------------------------------------------
(***************************************************************************)
(* The limiter that the login and the forgotten password pass first        *)
(* (RateLimiter), for any addresses, endpoints, limits and windows. The    *)
(* invariant behind it: an address's list still holds every admitted       *)
(* attempt of the shortest window, since no check cleans up with a shorter *)
(* one, and holds nothing but admitted attempts.                           *)
(***************************************************************************)
FiniteHistory == \A ip \in Ips : IsFiniteSet(admitted[ip])

(* Nothing of the shortest window has been cleaned up.                     *)
Remembered ==
    \A ip \in Ips, k \in Kinds : Shortest(k) => Recent(admitted[ip], k) \subseteq hits[ip]

LimiterInv == LimiterTypeOK /\ FiniteHistory /\ Remembered /\ ShortestWindowIsEnforced /\ RefusalIsEarned

(* A list is finite, and so is what a check leaves of it.                  *)
LEMMA CleanupFinite ==
    ASSUME LimiterTypeOK, FiniteHistory, NEW ip \in Ips, NEW k \in Kinds
    PROVE  /\ IsFiniteSet(Cleanup(ip, k))
           /\ Cardinality(Cleanup(ip, k)) \in Nat
           /\ Cleanup(ip, k) \subseteq hits[ip]
<1>1. Cleanup(ip, k) \subseteq hits[ip]
  BY DEF Cleanup, Recent
<1>2. Cleanup(ip, k) \subseteq admitted[ip]
  BY <1>1 DEF LimiterTypeOK
<1>3. IsFiniteSet(Cleanup(ip, k))
  BY <1>2, FS_Subset DEF FiniteHistory
<1> QED
  BY <1>1, <1>3, FS_CardinalityType

LEMMA LimiterInitInv == LimiterInit => LimiterInv
<1> SUFFICES ASSUME LimiterInit
             PROVE  LimiterInv
  OBVIOUS
<1>1. LimiterTypeOK
  BY DEF LimiterInit, LimiterTypeOK
<1>2. FiniteHistory
  BY FS_EmptySet DEF LimiterInit, FiniteHistory
<1>3. Remembered
  BY DEF LimiterInit, Remembered, Recent
<1>4. ShortestWindowIsEnforced
  <2> SUFFICES ASSUME NEW ip \in Ips, NEW k \in Kinds
               PROVE  Cardinality(Passed(ip, k)) <= Limit[k]
    BY DEF ShortestWindowIsEnforced
  <2>1. Passed(ip, k) = {}
    BY DEF LimiterInit, Passed, Recent
  <2> QED
    BY <2>1, FS_EmptySet, LimiterAssumption
<1>5. RefusalIsEarned
  BY DEF LimiterInit, RefusalIsEarned
<1> QED
  BY <1>1, <1>2, <1>3, <1>4, <1>5 DEF LimiterInv

(* A step that admits nothing and lets no time run backwards keeps the     *)
(* limit: what passed in the window can only become less.                  *)
LEMMA FewerPassed ==
    ASSUME LimiterTypeOK, FiniteHistory, ShortestWindowIsEnforced, NEW ip \in Ips, NEW k \in Kinds,
           Shortest(k), clock' \in Nat, clock' >= clock, admitted'[ip] \subseteq admitted[ip]
    PROVE  Cardinality(Passed(ip, k)') <= Limit[k]
<1>1. Passed(ip, k)' \subseteq Passed(ip, k)
  <2> SUFFICES ASSUME NEW h \in admitted'[ip], h.at > clock' - Window[k], h.kind = k
               PROVE  h \in admitted[ip] /\ h.at > clock - Window[k]
    BY DEF Passed, Recent
  <2>1. h \in admitted[ip] /\ h.at \in Nat
    BY DEF LimiterTypeOK, Hit
  <2> QED
    BY <2>1, LimiterAssumption DEF LimiterTypeOK
<1>2. Passed(ip, k) \subseteq admitted[ip]
  BY DEF Passed, Recent
<1>3. IsFiniteSet(Passed(ip, k))
  BY <1>2, FS_Subset DEF FiniteHistory
<1>4. Cardinality(Passed(ip, k)') <= Cardinality(Passed(ip, k))
  BY <1>1, <1>3, FS_Subset
<1>5. Cardinality(Passed(ip, k)) \in Nat /\ Cardinality(Passed(ip, k)') \in Nat
  BY <1>1, <1>3, FS_Subset, FS_CardinalityType
<1> QED
  BY <1>4, <1>5, LimiterAssumption DEF ShortestWindowIsEnforced

(* Time passes, or a new process starts.                                   *)
LEMMA LimiterTickInv == LimiterInv /\ LimiterTick => LimiterInv'
<1> SUFFICES ASSUME LimiterInv, LimiterTick
             PROVE  LimiterInv'
  OBVIOUS
<1> USE DEF LimiterInv
<1>1. LimiterTypeOK'
  BY DEF LimiterTypeOK, LimiterTick
<1>2. FiniteHistory'
  BY DEF FiniteHistory, LimiterTick
<1>3. Remembered'
  <2> SUFFICES ASSUME NEW ip \in Ips, NEW k \in Kinds, Shortest(k)
               PROVE  Recent(admitted[ip], k)' \subseteq hits'[ip]
    BY DEF Remembered, Shortest
  <2>1. Recent(admitted[ip], k)' \subseteq Recent(admitted[ip], k)
    BY LimiterAssumption DEF LimiterTick, Recent, LimiterTypeOK, Hit
  <2> QED
    BY <2>1 DEF Remembered, LimiterTick
<1>4. ShortestWindowIsEnforced'
  <2> SUFFICES ASSUME NEW ip \in Ips, NEW k \in Kinds, Shortest(k)
               PROVE  Cardinality(Passed(ip, k)') <= Limit[k]
    BY DEF ShortestWindowIsEnforced, Shortest
  <2>1. clock' \in Nat /\ clock' >= clock /\ admitted'[ip] \subseteq admitted[ip]
    BY DEF LimiterTick, LimiterTypeOK
  <2> QED
    BY <2>1, FewerPassed
<1>5. RefusalIsEarned'
  BY DEF RefusalIsEarned, LimiterTick
<1> QED
  BY <1>1, <1>2, <1>3, <1>4, <1>5

LEMMA LimiterRestartInv == LimiterInv /\ LimiterRestart => LimiterInv'
<1> SUFFICES ASSUME LimiterInv, LimiterRestart
             PROVE  LimiterInv'
  OBVIOUS
<1> USE DEF LimiterInv
<1>1. LimiterTypeOK'
  BY DEF LimiterTypeOK, LimiterRestart
<1>2. FiniteHistory'
  BY FS_EmptySet DEF FiniteHistory, LimiterRestart
<1>3. Remembered'
  BY DEF Remembered, Recent, LimiterRestart
<1>4. ShortestWindowIsEnforced'
  <2> SUFFICES ASSUME NEW ip \in Ips, NEW k \in Kinds, Shortest(k)
               PROVE  Cardinality(Passed(ip, k)') <= Limit[k]
    BY DEF ShortestWindowIsEnforced, Shortest
  <2>1. clock' \in Nat /\ clock' >= clock /\ admitted'[ip] \subseteq admitted[ip]
    BY DEF LimiterRestart, LimiterTypeOK
  <2> QED
    BY <2>1, FewerPassed
<1>5. RefusalIsEarned'
  BY DEF RefusalIsEarned, LimiterRestart
<1> QED
  BY <1>1, <1>2, <1>3, <1>4, <1>5
-----------------------------------------------------------------------------
(* A check cleans up nothing that the shortest window still covers.        *)
LEMMA CleanupKeeps ==
    ASSUME LimiterTypeOK, Remembered, NEW ip \in Ips, NEW k \in Kinds, NEW j \in Kinds, Shortest(k)
    PROVE  Recent(admitted[ip], k) \subseteq Cleanup(ip, j)
<1> SUFFICES ASSUME NEW h \in Recent(admitted[ip], k)
             PROVE  h \in Cleanup(ip, j)
  OBVIOUS
<1>1. h \in hits[ip]
  BY DEF Remembered
<1>2. h.at \in Nat /\ h.at > clock - Window[k]
  BY DEF Recent, LimiterTypeOK, Hit
<1>3. Window[k] <= Window[j] /\ Window[k] \in Nat /\ Window[j] \in Nat
  BY LimiterAssumption DEF Shortest
<1>4. h.at > clock - Window[j]
  BY <1>2, <1>3 DEF LimiterTypeOK
<1> QED
  BY <1>1, <1>4 DEF Cleanup, Recent

(* A refused attempt.                                                      *)
LEMMA RefusedInv ==
    ASSUME LimiterInv, NEW ip \in Ips, NEW k \in Kinds, CheckRate(ip, k), ~Allowed(ip, k)
    PROVE  LimiterInv'
<1> USE DEF LimiterInv
<1>0. /\ clock' = clock /\ admitted' = admitted /\ attempts' = attempts + 1
      /\ hits' = [hits EXCEPT ![ip] = Cleanup(ip, k)]
      /\ refusal' = [ip |-> ip, kind |-> k]
  BY DEF CheckRate
<1>1. LimiterTypeOK'
  BY <1>0, CleanupFinite DEF LimiterTypeOK
<1>2. FiniteHistory'
  BY <1>0 DEF FiniteHistory
<1>3. Remembered'
  <2> SUFFICES ASSUME NEW i \in Ips, NEW j \in Kinds, Shortest(j)
               PROVE  Recent(admitted[i], j)' \subseteq hits'[i]
    BY DEF Remembered, Shortest
  <2>1. Recent(admitted[i], j)' = Recent(admitted[i], j)
    BY <1>0 DEF Recent
  <2>2. CASE i = ip
    BY <1>0, <2>1, <2>2, CleanupKeeps DEF LimiterTypeOK
  <2>3. CASE i # ip
    BY <1>0, <2>1, <2>3 DEF Remembered, LimiterTypeOK
  <2> QED
    BY <2>2, <2>3
<1>4. ShortestWindowIsEnforced'
  BY <1>0 DEF ShortestWindowIsEnforced, Passed, Recent, Shortest
<1>5. RefusalIsEarned'
  <2>1. Cardinality(Cleanup(ip, k)) >= Limit[k]
    BY CleanupFinite, LimiterAssumption DEF Allowed
  <2>2. Cleanup(ip, k) \subseteq Recent(admitted[ip], k)
    BY DEF Cleanup, Recent, LimiterTypeOK
  <2>3. IsFiniteSet(Recent(admitted[ip], k))
    BY FS_Subset DEF FiniteHistory, Recent
  <2>4. Cardinality(Cleanup(ip, k)) <= Cardinality(Recent(admitted[ip], k))
    BY <2>2, <2>3, FS_Subset
  <2>5. Cardinality(Recent(admitted[ip], k)) >= Limit[k]
    BY <2>1, <2>3, <2>4, CleanupFinite, FS_CardinalityType, LimiterAssumption
  <2>6. Recent(admitted[ip], k)' = Recent(admitted[ip], k)
    BY <1>0 DEF Recent
  <2> QED
    BY <1>0, <2>5, <2>6 DEF RefusalIsEarned, Recent
<1> QED
  BY <1>1, <1>2, <1>3, <1>4, <1>5

(* An admitted attempt.                                                    *)
LEMMA AdmittedInv ==
    ASSUME LimiterInv, NEW ip \in Ips, NEW k \in Kinds, CheckRate(ip, k), Allowed(ip, k)
    PROVE  LimiterInv'
<1> USE DEF LimiterInv
<1> DEFINE hit == [no |-> attempts, kind |-> k, at |-> clock]
<1>0. /\ clock' = clock /\ attempts' = attempts + 1 /\ refusal' = NoRefusal
      /\ hits' = [hits EXCEPT ![ip] = Cleanup(ip, k) \cup {hit}]
      /\ admitted' = [admitted EXCEPT ![ip] = admitted[ip] \cup {hit}]
  BY DEF CheckRate
<1>h. hit \in Hit /\ hit.kind = k
  BY DEF Hit, LimiterTypeOK
<1>s. /\ hits'[ip] = Cleanup(ip, k) \cup {hit}
      /\ admitted'[ip] = admitted[ip] \cup {hit}
      /\ \A i \in Ips \ {ip} : hits'[i] = hits[i] /\ admitted'[i] = admitted[i]
  BY <1>0 DEF LimiterTypeOK
<1> HIDE DEF hit
<1>1. LimiterTypeOK'
  BY <1>0, <1>h, <1>s, CleanupFinite DEF LimiterTypeOK
<1>2. FiniteHistory'
  BY <1>s, FS_AddElement DEF FiniteHistory
<1>3. Remembered'
  <2> SUFFICES ASSUME NEW i \in Ips, NEW j \in Kinds, Shortest(j)
               PROVE  Recent(admitted[i], j)' \subseteq hits'[i]
    BY DEF Remembered, Shortest
  <2>2. CASE i = ip
    <3>1. Recent(admitted[i], j)' \subseteq Recent(admitted[i], j) \cup {hit}
      BY <1>0, <1>s, <2>2 DEF Recent
    <3> QED
      BY <1>s, <2>2, <3>1, CleanupKeeps
  <2>3. CASE i # ip
    BY <1>0, <1>s, <2>3 DEF Remembered, Recent
  <2> QED
    BY <2>2, <2>3
<1>4. ShortestWindowIsEnforced'
  <2> SUFFICES ASSUME NEW i \in Ips, NEW j \in Kinds, Shortest(j)
               PROVE  Cardinality(Passed(i, j)') <= Limit[j]
    BY DEF ShortestWindowIsEnforced, Shortest
  <2>1. CASE i = ip /\ j = k
    <3>1. Passed(ip, k) \subseteq Cleanup(ip, k)
      BY <2>1, CleanupKeeps DEF Passed
    <3>2. /\ IsFiniteSet(Passed(ip, k))
          /\ Cardinality(Passed(ip, k)) <= Cardinality(Cleanup(ip, k))
      BY <3>1, CleanupFinite, FS_Subset
    <3>3. Cardinality(Passed(ip, k)) \in Nat /\ Cardinality(Passed(ip, k)) < Limit[k]
      BY <3>2, CleanupFinite, FS_CardinalityType, LimiterAssumption DEF Allowed
    <3>4. Passed(ip, k)' \subseteq Passed(ip, k) \cup {hit}
      BY <1>0, <1>s DEF Passed, Recent
    <3>5. /\ IsFiniteSet(Passed(ip, k) \cup {hit})
          /\ Cardinality(Passed(ip, k) \cup {hit}) \in Nat
          /\ Cardinality(Passed(ip, k) \cup {hit}) <= Cardinality(Passed(ip, k)) + 1
      <4> DEFINE P == Passed(ip, k)
      <4>1. IsFiniteSet(P) /\ Cardinality(P) \in Nat
        BY <3>2, <3>3
      <4> HIDE DEF P
      <4>2. /\ IsFiniteSet(P \cup {hit})
            /\ Cardinality(P \cup {hit}) = IF hit \in P THEN Cardinality(P)
                                                       ELSE Cardinality(P) + 1
        BY <4>1, FS_AddElement
      <4>3. Cardinality(P \cup {hit}) \in Nat /\ Cardinality(P \cup {hit}) <= Cardinality(P) + 1
        BY <4>1, <4>2
      <4> QED
        BY <4>2, <4>3 DEF P
    <3>6. /\ Cardinality(Passed(ip, k)') \in Nat
          /\ Cardinality(Passed(ip, k)') <= Cardinality(Passed(ip, k) \cup {hit})
      BY <3>4, <3>5, FS_Subset, FS_CardinalityType
    <3>7. Cardinality(Passed(ip, k)') <= Limit[k]
      BY <3>3, <3>5, <3>6, LimiterAssumption
    <3> QED
      BY <2>1, <3>7
  <2>2. CASE ~(i = ip /\ j = k)
    <3>1. Passed(i, j)' \subseteq Passed(i, j)
      BY <1>0, <1>h, <1>s, <2>2 DEF Passed, Recent
    <3>2. Passed(i, j) \subseteq admitted[i]
      BY DEF Passed, Recent
    <3>3. IsFiniteSet(Passed(i, j))
      BY <3>2, FS_Subset DEF FiniteHistory
    <3>4. /\ Cardinality(Passed(i, j)') <= Cardinality(Passed(i, j))
          /\ Cardinality(Passed(i, j)) \in Nat /\ Cardinality(Passed(i, j)') \in Nat
      BY <3>1, <3>3, FS_Subset, FS_CardinalityType
    <3>5. Cardinality(Passed(i, j)) <= Limit[j]
      BY DEF ShortestWindowIsEnforced
    <3> QED
      BY <3>4, <3>5, LimiterAssumption
  <2> QED
    BY <2>1, <2>2
<1>5. RefusalIsEarned'
  BY <1>0 DEF RefusalIsEarned
<1> QED
  BY <1>1, <1>2, <1>3, <1>4, <1>5

LEMMA LimiterNextInv == LimiterInv /\ [LimiterNext]_limiterVars => LimiterInv'
<1> SUFFICES ASSUME LimiterInv, [LimiterNext]_limiterVars
             PROVE  LimiterInv'
  OBVIOUS
<1>1. CASE LimiterTick
  BY <1>1, LimiterTickInv
<1>2. CASE LimiterRestart
  BY <1>2, LimiterRestartInv
<1>3. ASSUME NEW ip \in Ips, NEW k \in Kinds, CheckRate(ip, k)
      PROVE  LimiterInv'
  BY <1>3, RefusedInv, AdmittedInv
<1>4. CASE UNCHANGED limiterVars
  BY <1>4 DEF limiterVars, LimiterInv, LimiterTypeOK, FiniteHistory, Remembered, ShortestWindowIsEnforced,
              RefusalIsEarned, Recent, Passed, Shortest
<1> QED
  BY <1>1, <1>2, <1>3, <1>4 DEF LimiterNext

(* The limiter's state is well formed, and a list holds only timestamps of *)
(* attempts that were admitted.                                            *)
THEOREM LimiterTypeCorrect == LimiterSpec => []LimiterTypeOK
<1>1. LimiterInv => LimiterTypeOK
  BY DEF LimiterInv
<1> QED
  BY LimiterInitInv, LimiterNextInv, <1>1, PTL DEF LimiterSpec

(* The endpoint with the shortest window, the login in this program, keeps *)
(* its limit in every window, whatever the other endpoints do to the list. *)
THEOREM LoginsAreLimited == LimiterSpec => []ShortestWindowIsEnforced
<1>1. LimiterInv => ShortestWindowIsEnforced
  BY DEF LimiterInv
<1> QED
  BY LimiterInitInv, LimiterNextInv, <1>1, PTL DEF LimiterSpec

(* Every refusal, of any endpoint, is earned by attempts admitted from the *)
(* same address within that endpoint's window.                             *)
THEOREM RefusalsAreEarned == LimiterSpec => []RefusalIsEarned
<1>1. LimiterInv => RefusalIsEarned
  BY DEF LimiterInv
<1> QED
  BY LimiterInitInv, LimiterNextInv, <1>1, PTL DEF LimiterSpec
=============================================================================
