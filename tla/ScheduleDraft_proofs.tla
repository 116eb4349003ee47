------------------------ MODULE ScheduleDraft_proofs ------------------------
(***************************************************************************)
(* Proofs about ScheduleDraft for any members, roles, sessions and content *)
(* of the tables.                                                          *)
(***************************************************************************)
EXTENDS ScheduleDraft, TLAPS

(* What is not yet done is vacant, and `scheduled` holds who serves in the *)
(* current session.                                                        *)
Progress ==
    /\ \A s \in Sessions, r \in Roles : ~Done(s, r) => draft[s][r] = Vacant
    /\ \A r \in Roles, m \in Members :
         (session \in Sessions /\ Serves(m, session, r)) => m \in scheduled

(* Between two twins the one that already serves in the current session is *)
(* never behind: it was chosen as the least loaded of the two.             *)
TwinsInStep ==
    \A a, b \in Members : Twins(a, b) =>
        /\ counts[a] <= counts[b] + 1
        /\ (a \in scheduled /\ b \notin scheduled) => counts[b] <= counts[a]

IInv == TypeOK /\ Progress /\ NobodyTwice /\ ServesRightly /\ TwinsInStep

-----------------------------------------------------------------------------
(* What one choice does: the member is eligible, not yet in the session,   *)
(* and least loaded among the valid ones.                                  *)
LEMMA AssignEffect ==
    ASSUME TypeOK, Assign
    PROVE  \E m \in Members :
             /\ session \in Sessions /\ role \in Roles
             /\ m \in Eligible(session, role) /\ m \notin scheduled
             /\ \A n \in Eligible(session, role) \ scheduled : counts[m] <= counts[n]
             /\ scheduled' = scheduled \cup {m}
             /\ counts' = [counts EXCEPT ![m] = @ + 1]
             /\ draft' = [draft EXCEPT ![session][role] = m]
             /\ role' = role + 1 /\ session' = session
             /\ UNCHANGED inputs
<1>1. PICK m \in LeastLoaded(Valid) :
        /\ scheduled' = scheduled \cup {m}
        /\ counts' = [counts EXCEPT ![m] = @ + 1]
        /\ draft' = [draft EXCEPT ![session][role] = m]
  BY DEF Assign
<1>2. m \in Eligible(session, role) /\ m \notin scheduled
      /\ \A n \in Eligible(session, role) \ scheduled : counts[m] <= counts[n]
  BY DEF LeastLoaded, Valid
<1>3. m \in Members
  BY <1>2 DEF Eligible, Pool, MembersByRole, TypeOK
<1>4. role \in Roles
  <2>1. role \in SessionRoles(session) /\ session \in Sessions
    BY DEF Assign
  <2>2. role # None
    BY DraftAssumption DEF TypeOK, RoleName, Roles
  <2> QED BY <2>1, <2>2 DEF SessionRoles, TypeOK
<1> QED BY <1>1, <1>2, <1>3, <1>4 DEF Assign

LEMMA InitIInv == Init => IInv
<1> USE DraftAssumption
<1>1. Init => TypeOK
  <2> SUFFICES ASSUME Init PROVE TypeOK
    OBVIOUS
  <2>1. /\ holds \in [Members -> SUBSET RoleName] /\ active \subseteq Members
        /\ optOut \subseteq Members \X Sessions /\ dayOff \subseteq Members \X Days
        /\ required \subseteq Roles
        /\ override \in [Sessions -> (SUBSET Roles) \cup {{None}}]
    BY DEF Init
  <2>2. /\ session \in 1..(N + 1) /\ role \in 1..(K + 1) /\ scheduled \subseteq Members
    BY DEF Init
  <2>3. counts \in [Members -> Nat] /\ draft \in [Sessions -> [Roles -> Members \cup {Vacant}]]
    BY DEF Init
  <2> QED BY <2>1, <2>2, <2>3 DEF TypeOK
<1>2. Init => Progress /\ NobodyTwice /\ ServesRightly
  BY DEF Init, Progress, NobodyTwice, ServesRightly, Serves, Vacant, RoleName
<1>3. Init => TwinsInStep
  BY DEF Init, TwinsInStep
<1> QED BY <1>1, <1>2, <1>3 DEF IInv

LEMMA NextTypeOK == TypeOK /\ [Next]_vars => TypeOK'
<1> SUFFICES ASSUME TypeOK, [Next]_vars PROVE TypeOK'
  OBVIOUS
<1> USE DraftAssumption
<1>1. CASE Assign
  <2>1. PICK m \in Members :
             /\ session \in Sessions /\ role \in Roles
             /\ scheduled' = scheduled \cup {m}
             /\ counts' = [counts EXCEPT ![m] = @ + 1]
             /\ draft' = [draft EXCEPT ![session][role] = m]
             /\ role' = role + 1 /\ session' = session
             /\ UNCHANGED inputs
    BY <1>1, AssignEffect
  <2>2. draft' \in [Sessions -> [Roles -> Members \cup {Vacant}]]
    BY <2>1 DEF TypeOK
  <2>3. counts' \in [Members -> Nat]
    BY <2>1 DEF TypeOK
  <2>4. role' \in 1..(K + 1)
    BY <2>1 DEF Roles
  <2> QED BY <2>1, <2>2, <2>3, <2>4 DEF TypeOK, inputs
<1>2. CASE Skip
  <2>1. role' \in 1..(K + 1)
    BY <1>2 DEF Skip, Roles
  <2> QED BY <1>2, <2>1 DEF Skip, TypeOK, inputs
<1>3. CASE NextSession
  <2>1. session' \in 1..(N + 1) /\ role' \in 1..(K + 1) /\ scheduled' \subseteq Members
    BY <1>3 DEF NextSession, Sessions
  <2> QED BY <1>3, <2>1 DEF NextSession, TypeOK, inputs
<1>4. CASE UNCHANGED vars
  BY <1>4 DEF vars, inputs, TypeOK
<1> QED BY <1>1, <1>2, <1>3, <1>4 DEF Next

(* Steps that assign nobody leave the draft and the inputs as they are.    *)
LEMMA DraftUnchanged ==
    ASSUME UNCHANGED <<inputs, draft>>, NobodyTwice, ServesRightly
    PROVE  NobodyTwice' /\ ServesRightly'
BY DEF inputs, NobodyTwice, ServesRightly, Serves

LEMMA NextDraft ==
    TypeOK /\ Progress /\ NobodyTwice /\ ServesRightly /\ [Next]_vars
        => Progress' /\ NobodyTwice' /\ ServesRightly'
<1> SUFFICES ASSUME TypeOK, Progress, NobodyTwice, ServesRightly, [Next]_vars
             PROVE  Progress' /\ NobodyTwice' /\ ServesRightly'
  OBVIOUS
<1> USE DraftAssumption
<1>1. CASE Assign
  <2>1. PICK m \in Members :
             /\ session \in Sessions /\ role \in Roles
             /\ m \in Eligible(session, role) /\ m \notin scheduled
             /\ scheduled' = scheduled \cup {m}
             /\ draft' = [draft EXCEPT ![session][role] = m]
             /\ role' = role + 1 /\ session' = session
             /\ UNCHANGED inputs
    BY <1>1, AssignEffect
  <2>2. \A s \in Sessions, r \in Roles :
          draft'[s][r] = IF s = session /\ r = role THEN m ELSE draft[s][r]
    BY <2>1 DEF TypeOK
  <2>3. Progress'
    <3>1. \A s \in Sessions, r \in Roles : ~Done(s, r)' => draft'[s][r] = Vacant
      BY <2>1, <2>2 DEF Progress, Done, Roles, Sessions
    <3>2. \A r \in Roles, n \in Members : Serves(n, session, r)' => n \in scheduled'
      BY <2>1, <2>2 DEF Progress, Serves
    <3> QED BY <2>1, <3>1, <3>2 DEF Progress
  <2>4. NobodyTwice'
    <3>1. ASSUME NEW r \in Roles PROVE ~Serves(m, session, r)
      BY <2>1 DEF Progress
    <3> QED BY <2>1, <2>2, <3>1 DEF NobodyTwice, Serves
  <2>5. ServesRightly'
    <3>1. /\ m \in active /\ role \in holds[m]
          /\ (SundayFilter /\ Day[session] \in Sundays /\ Qualifier[role] # None)
                 => Qualifier[role] \in holds[m]
          /\ <<m, session>> \notin optOut
          /\ Day[session] \in MonthDays => <<m, Day[session]>> \notin dayOff
      BY <2>1 DEF Eligible, Pool, MembersByRole, Unavailable
    <3> SUFFICES ASSUME NEW s \in Sessions, NEW r \in Roles, NEW n \in Members,
                        Serves(n, s, r)'
                 PROVE  /\ n \in active /\ r \in holds[n]
                        /\ (SundayFilter /\ Day[s] \in Sundays /\ Qualifier[r] # None)
                               => Qualifier[r] \in holds[n]
                        /\ <<n, s>> \notin optOut
                        /\ Day[s] \in MonthDays => <<n, Day[s]>> \notin dayOff
      BY <2>1 DEF ServesRightly, inputs
    <3>2. CASE s = session /\ r = role
      BY <2>2, <3>1, <3>2 DEF Serves
    <3>3. CASE ~(s = session /\ r = role)
      BY <2>2, <3>3 DEF Serves, ServesRightly
    <3> QED BY <3>2, <3>3
  <2> QED BY <2>3, <2>4, <2>5
<1>2. CASE Skip
  <2>1. Progress'
    BY <1>2 DEF Skip, Progress, Done, Serves, TypeOK, Roles, Sessions
  <2> QED BY <1>2, <2>1, DraftUnchanged DEF Skip
<1>3. CASE NextSession
  <2>1. \A s \in Sessions, r \in Roles : ~Done(s, r)' => ~Done(s, r)
    BY <1>3 DEF NextSession, Done, TypeOK, Roles, Sessions
  <2>2. \A r \in Roles, s \in Sessions : s = session' => draft[s][r] = Vacant
    BY <1>3 DEF NextSession, Progress, Done, TypeOK, Roles, Sessions
  <2>3. Progress'
    BY <1>3, <2>1, <2>2 DEF NextSession, Progress, Serves, Vacant
  <2> QED BY <1>3, <2>3, DraftUnchanged DEF NextSession
<1>4. CASE UNCHANGED vars
  BY <1>4, DraftUnchanged DEF vars, Progress, Done, Serves
<1> QED BY <1>1, <1>2, <1>3, <1>4 DEF Next

LEMMA NextTwins == TypeOK /\ TwinsInStep /\ [Next]_vars => TwinsInStep'
<1> SUFFICES ASSUME TypeOK, TwinsInStep, [Next]_vars,
                    NEW a \in Members, NEW b \in Members, Twins(a, b)'
             PROVE  /\ counts'[a] <= counts'[b] + 1
                    /\ (a \in scheduled' /\ b \notin scheduled') => counts'[b] <= counts'[a]
  BY DEF TwinsInStep
<1>1. Twins(a, b) /\ Twins(b, a)
  <2>1. UNCHANGED inputs
    BY DEF Next, Assign, Skip, NextSession, vars
  <2> QED BY <2>1 DEF Twins, Eligible, Pool, MembersByRole, Unavailable, inputs
<1>2. /\ counts[a] \in Nat /\ counts[b] \in Nat
      /\ counts[a] <= counts[b] + 1 /\ counts[b] <= counts[a] + 1
      /\ (a \in scheduled /\ b \notin scheduled) => counts[b] <= counts[a]
      /\ (b \in scheduled /\ a \notin scheduled) => counts[a] <= counts[b]
  BY <1>1 DEF TwinsInStep, TypeOK
<1>3. CASE Assign
  <2>1. PICK m \in Members :
             /\ session \in Sessions /\ role \in Roles
             /\ m \in Eligible(session, role) /\ m \notin scheduled
             /\ \A n \in Eligible(session, role) \ scheduled : counts[m] <= counts[n]
             /\ scheduled' = scheduled \cup {m}
             /\ counts' = [counts EXCEPT ![m] = @ + 1]
    BY <1>3, AssignEffect
  <2>2. \A n \in Members : counts'[n] = IF n = m THEN counts[n] + 1 ELSE counts[n]
    BY <2>1 DEF TypeOK
  <2>3. a \in Eligible(session, role) <=> b \in Eligible(session, role)
    BY <1>1, <2>1 DEF Twins
  <2>4. CASE a = b
    BY <1>2, <2>2, <2>4
  <2>5. CASE a # b /\ m = a
    BY <1>2, <2>1, <2>2, <2>3, <2>5
  <2>6. CASE a # b /\ m = b
    BY <1>2, <2>1, <2>2, <2>3, <2>6
  <2>7. CASE m # a /\ m # b
    BY <1>2, <2>1, <2>2, <2>7
  <2> QED BY <2>4, <2>5, <2>6, <2>7
<1>4. CASE Skip \/ UNCHANGED vars
  BY <1>2, <1>4 DEF Skip, vars
<1>5. CASE NextSession
  BY <1>2, <1>5 DEF NextSession
<1> QED BY <1>3, <1>4, <1>5 DEF Next

LEMMA Inductive == Spec => []IInv
<1>1. IInv /\ [Next]_vars => IInv'
  BY NextTypeOK, NextDraft, NextTwins DEF IInv
<1> QED BY InitIInv, <1>1, PTL DEF Spec

(* Every reachable state of the loop has the shape TypeOK states.          *)
THEOREM DraftTypeCorrect == Spec => []TypeOK
BY Inductive, PTL DEF IInv

(* No draft, finished or not, gives a member two roles in one session.     *)
THEOREM NobodyServesTwice == Spec => []NobodyTwice
BY Inductive, PTL DEF IInv

(* Whoever a draft names is active, qualified and available.               *)
THEOREM OnlyRightfulService == Spec => []ServesRightly
BY Inductive, PTL DEF IInv

(* Members with the same choices are never two assignments apart: fair     *)
(* rotation, for any number of sessions, roles and other members.          *)
THEOREM FairRotation == Spec => []TwinsStayBalanced
<1>1. TwinsInStep => TwinsStayBalanced
  BY DEF TwinsInStep, TwinsStayBalanced
<1> QED BY Inductive, <1>1, PTL DEF IInv

-----------------------------------------------------------------------------
(* Vacancies. Whoever is scheduled serves in an earlier role of the        *)
(* current session.                                                        *)

ScheduledServe ==
    session \in Sessions => \A m \in scheduled : \E q \in 1..(role - 1) : Serves(m, session, q)

LEMMA NextVacant ==
    TypeOK /\ ScheduledServe /\ VacantOnlyIfNobodyLeft /\ [Next]_vars
        => ScheduledServe' /\ VacantOnlyIfNobodyLeft'
<1> SUFFICES ASSUME TypeOK, ScheduledServe, VacantOnlyIfNobodyLeft, [Next]_vars
             PROVE  ScheduledServe' /\ VacantOnlyIfNobodyLeft'
  OBVIOUS
<1> USE DraftAssumption
<1>1. UNCHANGED inputs
  BY DEF Next, Assign, Skip, NextSession, vars
<1>2. \A s \in Sessions, r \in Roles :
        /\ Eligible(s, r)' = Eligible(s, r)
        /\ SessionRoles(s)' = SessionRoles(s) /\ required' = required
  BY <1>1 DEF Eligible, Pool, MembersByRole, Unavailable, SessionRoles, inputs
<1>3. session \in 1..(N + 1) /\ role \in 1..(K + 1)
  BY DEF TypeOK
<1>4. CASE Assign
  <2>1. PICK m \in Members :
             /\ session \in Sessions /\ role \in Roles
             /\ scheduled' = scheduled \cup {m}
             /\ draft' = [draft EXCEPT ![session][role] = m]
             /\ role' = role + 1 /\ session' = session
    BY <1>4, AssignEffect
  <2>2. \A s \in Sessions, r \in Roles :
          draft'[s][r] = IF s = session /\ r = role THEN m ELSE draft[s][r]
    BY <2>1 DEF TypeOK
  <2>3. 1..(role - 1) \subseteq Roles /\ \A q \in 1..(role - 1) : q # role
    BY <1>3 DEF Roles
  <2>4. ScheduledServe'
    <3>1. SUFFICES ASSUME NEW n \in scheduled'
                   PROVE  \E q \in 1..role : draft'[session][q] = n
      BY <1>3, <2>1 DEF ScheduledServe, Serves
    <3>2. CASE n = m
      BY <1>3, <2>1, <2>2, <3>2 DEF Roles
    <3>3. CASE n # m
      <4>1. PICK q \in 1..(role - 1) : draft[session][q] = n
        BY <2>1, <3>1, <3>3 DEF ScheduledServe, Serves
      <4> QED
        BY <1>3, <2>1, <2>2, <2>3, <4>1
    <3> QED
      BY <3>2, <3>3
  <2>5. VacantOnlyIfNobodyLeft'
    <3>1. SUFFICES ASSUME NEW s \in Sessions, NEW r \in Roles, Done(s, r)',
                          r \in SessionRoles(s) \cap required, draft'[s][r] = Vacant,
                          NEW n \in Eligible(s, r)
                   PROVE  \E q \in 1..(r - 1) : draft'[s][q] = n
      BY <1>2 DEF VacantOnlyIfNobodyLeft, Serves
    <3>2. m # Vacant
      BY DEF Vacant
    <3>3. Done(s, r) /\ draft[s][r] = Vacant
      BY <1>3, <2>1, <2>2, <3>1, <3>2 DEF Done, Roles, Sessions
    <3>4. PICK q \in 1..(r - 1) : draft[s][q] = n
      BY <3>1, <3>3 DEF VacantOnlyIfNobodyLeft, Serves
    <3>5. q \in Roles /\ ~(s = session /\ q = role)
      BY <1>3, <2>1, <3>3, <3>4 DEF Roles, Done, Sessions
    <3> QED
      BY <2>2, <3>4, <3>5
  <2> QED
    BY <2>4, <2>5
<1>5. CASE Skip
  <2>1. /\ session \in Sessions /\ role \in Roles /\ role' = role + 1
        /\ UNCHANGED <<session, scheduled, draft>>
        /\ role \in SessionRoles(session) => Valid = {}
    BY <1>5 DEF Skip
  <2>2. ScheduledServe'
    BY <1>3, <2>1 DEF ScheduledServe, Serves
  <2>3. VacantOnlyIfNobodyLeft'
    <3>1. SUFFICES ASSUME NEW s \in Sessions, NEW r \in Roles, Done(s, r)',
                          r \in SessionRoles(s) \cap required, draft[s][r] = Vacant,
                          NEW n \in Eligible(s, r)
                   PROVE  \E q \in 1..(r - 1) : draft[s][q] = n
      BY <1>2, <2>1 DEF VacantOnlyIfNobodyLeft, Serves
    <3>2. Done(s, r) \/ (s = session /\ r = role)
      BY <1>3, <2>1, <3>1 DEF Done, Roles, Sessions
    <3>3. CASE Done(s, r)
      BY <3>1, <3>3 DEF VacantOnlyIfNobodyLeft, Serves
    <3>4. CASE s = session /\ r = role
      <4>1. n \in scheduled
        BY <2>1, <3>1, <3>4 DEF Valid
      <4> QED
        BY <2>1, <3>4, <4>1 DEF ScheduledServe, Serves
    <3> QED
      BY <3>2, <3>3, <3>4
  <2> QED
    BY <2>2, <2>3
<1>6. CASE NextSession
  <2>1. /\ session \in Sessions /\ role = K + 1 /\ session' = session + 1 /\ role' = 1
        /\ scheduled' = {} /\ UNCHANGED draft
    BY <1>6 DEF NextSession
  <2>2. \A s \in Sessions, r \in Roles : Done(s, r)' => Done(s, r)
    BY <1>3, <2>1 DEF Done, Roles, Sessions
  <2> QED
    BY <1>2, <2>1, <2>2 DEF ScheduledServe, VacantOnlyIfNobodyLeft, Serves
<1>7. CASE UNCHANGED vars
  BY <1>2, <1>7 DEF vars, ScheduledServe, VacantOnlyIfNobodyLeft, Serves, Done
<1> QED
  BY <1>4, <1>5, <1>6, <1>7 DEF Next

(* A role that is asked for stays vacant only if everybody who could take  *)
(* it serves in an earlier role of the session (the greedy choice of       *)
(* generate_schedule leaves nobody out).                                   *)
THEOREM VacanciesAreJustified == Spec => []VacantOnlyIfNobodyLeft
<1>1. Init => ScheduledServe /\ VacantOnlyIfNobodyLeft
  <2> SUFFICES ASSUME Init
               PROVE  ScheduledServe /\ VacantOnlyIfNobodyLeft
    OBVIOUS
  <2>1. \A s \in Sessions, r \in Roles : ~Done(s, r)
    BY DraftAssumption DEF Init, Done, Sessions, Roles
  <2> QED
    BY <2>1 DEF Init, ScheduledServe, VacantOnlyIfNobodyLeft
<1>2. TypeOK /\ ScheduledServe /\ VacantOnlyIfNobodyLeft /\ [Next]_vars
        => ScheduledServe' /\ VacantOnlyIfNobodyLeft'
  BY NextVacant
<1> QED
  BY <1>1, <1>2, DraftTypeCorrect, PTL DEF Spec
=============================================================================
