------------------------ MODULE LiveAttendance_proofs ------------------------
(***************************************************************************)
(* Proofs about LiveAttendance, for any members, sessions, devices,        *)
(* requests and sockets, and any numbers of threads and rows. The two      *)
(* halves share no variable: CheckInStep and WSStep say what a step of the *)
(* composition is for each of them.                                        *)
(***************************************************************************)
EXTENDS LiveAttendance, FiniteSetTheorems, TLAPS

WSStep == WSNext \/ \E i \in Casts, s \in Channels : Schedule(i, s)

LEMMA Halves ==
    ASSUME CheckInTypeOK, Next
    PROVE  /\ CheckInNext \/ UNCHANGED checkInVars
           /\ WSStep \/ UNCHANGED wsVars
<1>1. CASE \E t \in Threads : /\ CheckDevice(t) \/ CheckDuplicate(t)
                              /\ UNCHANGED wsVars
  BY <1>1 DEF CheckInNext
<1>2. ASSUME NEW t \in Threads, Mark(t)
      PROVE  CheckInNext /\ (WSStep \/ UNCHANGED wsVars)
  <2>1. Insert(t)
    BY <1>2 DEF Mark
  <2>2. CASE Announces(t)
    <3>1. nextId \in Casts
      BY <2>1, <2>2, LiveAssumption, CheckInAssumption DEF Announces, Insert, CheckInTypeOK, Ids
    <3>2. job[t].req.session \in Channels
      BY <2>2, LiveAssumption DEF Announces, Inserts, CheckInTypeOK
    <3> QED
      BY <1>2, <2>1, <2>2, <3>1, <3>2 DEF Mark, CheckInNext, WSStep
  <2>3. CASE ~Announces(t)
    BY <1>2, <2>1, <2>3 DEF Mark, CheckInNext
  <2> QED
    BY <2>2, <2>3
<1>3. CASE (DeleteAttendance \/ \E s \in Sessions : DeleteSession(s)) /\ UNCHANGED wsVars
  BY <1>3 DEF CheckInNext
<1>4. CASE WSNext /\ UNCHANGED checkInVars
  BY <1>4 DEF WSStep
<1> QED
  BY <1>1, <1>2, <1>3, <1>4 DEF Next

-----------------------------------------------------------------------------
(* Marking attendance. Rows carry ids below the sequence; requests for a   *)
(* session that was never raced run one at a time, and what a check found  *)
(* still holds when its request goes on.                                   *)

IdsInv == \A r \in attendance : r.id < nextId

AloneInv ==
    \A t, u \in Threads :
        (/\ t # u /\ job[t].stage # "idle" /\ job[u].stage # "idle"
         /\ job[t].req.session = job[u].req.session)
            => job[t].req.session \in raced

CheckedInv ==
    \A t \in Threads : job[t].stage # "idle" =>
        /\ ~OutOfFence(job[t].req)
        /\ \/ job[t].req.session \in raced
           \/ /\ ~DeviceLocked(job[t].req)
              /\ job[t].stage = "insert" => ~Duplicate(job[t].req)

CheckInInv == CheckInTypeOK /\ IdsInv /\ AloneInv /\ CheckedInv
              /\ DoubleOnlyIfRaced /\ SelfCheckInIsGenuine

LEMMA CheckInInitially == CheckInInit => CheckInInv
  BY CheckInAssumption DEF CheckInInit, CheckInInv, CheckInTypeOK, IdsInv, AloneInv, CheckedInv,
     DoubleOnlyIfRaced, SelfCheckInIsGenuine, NoJob

LEMMA CheckInTypes ==
    ASSUME CheckInTypeOK, CheckInNext
    PROVE  CheckInTypeOK'
<1>1. ASSUME NEW t \in Threads, CheckDevice(t)
      PROVE  CheckInTypeOK'
  <2>1. PICK q \in Asked :
          /\ job' = [job EXCEPT ![t] = [stage |-> "checked", req |-> q]]
          /\ q.session \in existing
          /\ raced' = IF Busy(q.session) = {} THEN raced ELSE raced \cup {q.session}
    BY <1>1 DEF CheckDevice
  <2> QED
    BY <1>1, <2>1 DEF CheckDevice, CheckInTypeOK
<1>2. ASSUME NEW t \in Threads, CheckDuplicate(t)
      PROVE  CheckInTypeOK'
  BY <1>2 DEF CheckDuplicate, CheckInTypeOK, NoJob
<1>3. ASSUME NEW t \in Threads, Insert(t)
      PROVE  CheckInTypeOK'
  <2>1. job' \in [Threads -> [stage : {"idle"}] \cup [stage : {"checked", "insert"}, req : Asked]]
    BY <1>3 DEF Insert, CheckInTypeOK, NoJob
  <2>2. job[t].req \in Asked
    BY <1>3 DEF Insert, CheckInTypeOK
  <2>3. Inserts(t) => nextId \in Ids
    BY <1>3, CheckInAssumption DEF Insert, CheckInTypeOK, Ids
  <2>4. attendance' \subseteq [id : Ids, req : Asked] /\ nextId' \in 1..(MaxMarks + 1)
    BY <1>3, <2>2, <2>3, CheckInAssumption DEF Insert, CheckInTypeOK, Ids
  <2> QED
    BY <1>3, <2>1, <2>4 DEF Insert, CheckInTypeOK
<1>4. CASE DeleteAttendance
  BY <1>4 DEF DeleteAttendance, CheckInTypeOK
<1>5. ASSUME NEW s \in Sessions, DeleteSession(s)
      PROVE  CheckInTypeOK'
  BY <1>5 DEF DeleteSession, CheckInTypeOK
<1> QED
  BY <1>1, <1>2, <1>3, <1>4, <1>5 DEF CheckInNext

(* Fewer rows, and nobody's request changed.                               *)
LEMMA FewerRows ==
    ASSUME CheckInInv, attendance' \subseteq attendance,
           UNCHANGED <<mode, nextId, job, raced>>
    PROVE  IdsInv' /\ AloneInv' /\ CheckedInv' /\ DoubleOnlyIfRaced' /\ SelfCheckInIsGenuine'
<1>1. IdsInv' /\ AloneInv' /\ DoubleOnlyIfRaced'
  BY DEF CheckInInv, IdsInv, AloneInv, DoubleOnlyIfRaced
<1>2. CheckedInv'
  BY DEF CheckInInv, CheckedInv, OutOfFence, DeviceLocked, Duplicate
<1>3. SelfCheckInIsGenuine'
  BY DEF CheckInInv, SelfCheckInIsGenuine
<1> QED
  BY <1>1, <1>2, <1>3

(* A request begins.                                                       *)
LEMMA CheckDeviceStep ==
    ASSUME CheckInInv, NEW t \in Threads, CheckDevice(t)
    PROVE  IdsInv' /\ AloneInv' /\ CheckedInv' /\ DoubleOnlyIfRaced' /\ SelfCheckInIsGenuine'
<1>1. PICK q \in Asked :
        /\ ~DeviceLocked(q) /\ ~OutOfFence(q)
        /\ job' = [job EXCEPT ![t] = [stage |-> "checked", req |-> q]]
        /\ raced' = IF Busy(q.session) = {} THEN raced ELSE raced \cup {q.session}
  BY DEF CheckDevice
<1>2. UNCHANGED <<mode, attendance, nextId, existing>> /\ raced \subseteq raced'
  BY <1>1 DEF CheckDevice
<1>3. job'[t] = [stage |-> "checked", req |-> q] /\ \A u \in Threads \ {t} : job'[u] = job[u]
  BY <1>1 DEF CheckInInv, CheckInTypeOK
<1>4. IdsInv' /\ DoubleOnlyIfRaced' /\ SelfCheckInIsGenuine'
  BY <1>2 DEF CheckInInv, IdsInv, DoubleOnlyIfRaced, SelfCheckInIsGenuine
<1>5. AloneInv'
  <2>1. \A u \in Threads \ {t} : (job[u].stage # "idle" /\ job[u].req.session = q.session)
                                     => q.session \in raced'
    BY <1>1 DEF Busy
  <2> QED
    BY <1>2, <1>3, <2>1 DEF CheckInInv, AloneInv
<1>6. CheckedInv'
  <2>1. ~OutOfFence(q)' /\ ~DeviceLocked(q)'
    BY <1>1, <1>2 DEF OutOfFence, DeviceLocked
  <2>2. SUFFICES ASSUME NEW u \in Threads, job'[u].stage # "idle"
                 PROVE  /\ ~OutOfFence(job[u].req)'
                        /\ \/ job'[u].req.session \in raced'
                           \/ /\ ~DeviceLocked(job[u].req)'
                              /\ job'[u].stage = "insert" => ~Duplicate(job[u].req)'
    BY DEF CheckedInv
  <2>3. CASE u = t
    BY <1>3, <2>1, <2>3 DEF OutOfFence, DeviceLocked
  <2>4. CASE u # t
    BY <1>2, <1>3, <2>2, <2>4 DEF CheckInInv, CheckedInv, OutOfFence, DeviceLocked, Duplicate
  <2> QED
    BY <2>3, <2>4
<1> QED
  BY <1>4, <1>5, <1>6

LEMMA CheckDuplicateStep ==
    ASSUME CheckInInv, NEW t \in Threads, CheckDuplicate(t)
    PROVE  IdsInv' /\ AloneInv' /\ CheckedInv' /\ DoubleOnlyIfRaced' /\ SelfCheckInIsGenuine'
<1>1. /\ job[t].stage = "checked"
      /\ job'[t] = IF Duplicate(job[t].req) THEN NoJob
                   ELSE [stage |-> "insert", req |-> job[t].req]
      /\ \A u \in Threads \ {t} : job'[u] = job[u]
      /\ UNCHANGED <<mode, attendance, nextId, existing, raced>>
  BY DEF CheckDuplicate, CheckInInv, CheckInTypeOK
<1>2. \A u \in Threads : job'[u].stage # "idle" =>
        job[u].stage # "idle" /\ job'[u].req = job[u].req
  BY <1>1 DEF NoJob
<1>3. IdsInv' /\ DoubleOnlyIfRaced' /\ SelfCheckInIsGenuine'
  BY <1>1 DEF CheckInInv, IdsInv, DoubleOnlyIfRaced, SelfCheckInIsGenuine
<1>4. AloneInv'
  BY <1>1, <1>2 DEF CheckInInv, AloneInv
<1>5. CheckedInv'
  <2>1. SUFFICES ASSUME NEW u \in Threads, job'[u].stage # "idle"
                 PROVE  /\ ~OutOfFence(job[u].req)'
                        /\ \/ job'[u].req.session \in raced'
                           \/ /\ ~DeviceLocked(job[u].req)'
                              /\ job'[u].stage = "insert" => ~Duplicate(job[u].req)'
    BY DEF CheckedInv
  <2>2. ~OutOfFence(job[u].req)' /\ (job[u].req.session \in raced \/ ~DeviceLocked(job[u].req)')
    BY <1>1, <1>2, <2>1 DEF CheckInInv, CheckedInv, OutOfFence, DeviceLocked
  <2>3. CASE u = t
    <3>1. ~Duplicate(job[t].req)
      BY <1>1, <2>1, <2>3 DEF NoJob
    <3>2. ~Duplicate(job[u].req)'
      BY <1>1, <1>2, <2>1, <2>3, <3>1 DEF Duplicate
    <3> QED
      BY <1>1, <1>2, <2>1, <2>2, <3>2
  <2>4. CASE u # t
    BY <1>1, <2>1, <2>4 DEF CheckInInv, CheckedInv, OutOfFence, DeviceLocked, Duplicate
  <2> QED
    BY <2>3, <2>4
<1> QED
  BY <1>3, <1>4, <1>5

(* The row is written: the only step that adds one.                        *)
LEMMA InsertStep ==
    ASSUME CheckInInv, NEW t \in Threads, Insert(t)
    PROVE  IdsInv' /\ AloneInv' /\ CheckedInv' /\ DoubleOnlyIfRaced' /\ SelfCheckInIsGenuine'
<1> DEFINE q == job[t].req
           new == [id |-> nextId, req |-> q]
<1>1. /\ job[t].stage = "insert" /\ job'[t] = NoJob
      /\ \A u \in Threads \ {t} : job'[u] = job[u]
      /\ UNCHANGED <<mode, existing, raced>>
  BY DEF Insert, CheckInInv, CheckInTypeOK
<1>2. CASE ~Inserts(t)
  <2>1. UNCHANGED <<attendance, nextId>>
    BY <1>2 DEF Insert
  <2>2. IdsInv' /\ DoubleOnlyIfRaced' /\ SelfCheckInIsGenuine'
    BY <1>1, <2>1 DEF CheckInInv, IdsInv, DoubleOnlyIfRaced, SelfCheckInIsGenuine
  <2>3. AloneInv' /\ CheckedInv'
    BY <1>1, <2>1 DEF CheckInInv, AloneInv, CheckedInv, OutOfFence, DeviceLocked, Duplicate, NoJob
  <2> QED
    BY <2>2, <2>3
<1>3. CASE Inserts(t)
  <2>1. attendance' = attendance \cup {new} /\ nextId' = nextId + 1 /\ nextId \in Nat
    BY <1>3 DEF Insert, CheckInInv, CheckInTypeOK
  <2>2. ~OutOfFence(q) /\ (q.session \in raced \/ (~DeviceLocked(q) /\ ~Duplicate(q)))
    BY <1>1 DEF CheckInInv, CheckedInv
  <2>3. \A r \in attendance : r.id \in Nat /\ r.id < nextId
    BY DEF CheckInInv, CheckInTypeOK, IdsInv, Ids
  <2>4. IdsInv'
    BY <2>1, <2>3 DEF IdsInv
  <2>5. AloneInv'
    BY <1>1 DEF CheckInInv, AloneInv, NoJob
  <2>6. CheckedInv'
    <3>1. SUFFICES ASSUME NEW u \in Threads, job'[u].stage # "idle"
                   PROVE  /\ ~OutOfFence(job[u].req)'
                          /\ \/ job'[u].req.session \in raced'
                             \/ /\ ~DeviceLocked(job[u].req)'
                                /\ job'[u].stage = "insert" => ~Duplicate(job[u].req)'
      BY DEF CheckedInv
    <3>2. u # t /\ job'[u] = job[u]
      BY <1>1, <3>1 DEF NoJob
    <3>3. ~OutOfFence(job[u].req)'
      BY <1>1, <3>1, <3>2 DEF CheckInInv, CheckedInv, OutOfFence
    <3>4. CASE job[u].req.session = q.session
      BY <1>1, <3>1, <3>2, <3>3, <3>4 DEF CheckInInv, AloneInv
    <3>5. CASE job[u].req.session # q.session
      BY <1>1, <2>1, <3>1, <3>2, <3>3, <3>5
         DEF CheckInInv, CheckedInv, DeviceLocked, Duplicate
    <3> QED
      BY <3>4, <3>5
  <2>7. DoubleOnlyIfRaced'
    BY <1>1, <2>1, <2>2 DEF CheckInInv, DoubleOnlyIfRaced, Duplicate
  <2>8. SelfCheckInIsGenuine'
    <3>1. ASSUME NEW r1 \in attendance', NEW r2 \in attendance',
                 mode' = "localStorage", r1.id < r2.id,
                 r1.req.session = r2.req.session, r1.req.member # r2.req.member,
                 r1.req.device = r2.req.device, r1.req.device # NoDevice
          PROVE  ~SelfCheckIn(r2.req) \/ r1.req.session \in raced'
      <4>1. r1 # new
        BY <2>1, <2>3, <3>1
      <4>2. CASE r2 = new
        BY <1>1, <2>1, <2>2, <3>1, <4>1, <4>2 DEF DeviceLocked
      <4>3. CASE r2 # new
        BY <1>1, <2>1, <3>1, <4>1, <4>3 DEF CheckInInv, SelfCheckInIsGenuine
      <4> QED
        BY <4>2, <4>3
    <3>2. ASSUME NEW r \in attendance', SelfCheckIn(r.req), r.req.session \in Fenced
          PROVE  r.req.near
      BY <2>1, <2>2, <3>2 DEF CheckInInv, SelfCheckInIsGenuine, OutOfFence
    <3> QED
      BY <3>1, <3>2 DEF SelfCheckInIsGenuine
  <2> QED
    BY <2>4, <2>5, <2>6, <2>7, <2>8
<1> QED
  BY <1>2, <1>3

LEMMA CheckInStep ==
    ASSUME CheckInInv, CheckInNext \/ UNCHANGED checkInVars
    PROVE  CheckInInv'
<1>1. CASE UNCHANGED checkInVars
  BY <1>1 DEF checkInVars, CheckInInv, CheckInTypeOK, IdsInv, AloneInv, CheckedInv, OutOfFence,
     DeviceLocked, Duplicate, DoubleOnlyIfRaced, SelfCheckInIsGenuine
<1>2. CASE CheckInNext
  <2>1. CheckInTypeOK'
    BY <1>2, CheckInTypes DEF CheckInInv
  <2>2. CASE DeleteAttendance
    <3>1. attendance' \subseteq attendance /\ UNCHANGED <<mode, nextId, job, raced>>
      BY <2>2 DEF DeleteAttendance
    <3> QED
      BY <2>1, <3>1, FewerRows DEF CheckInInv
  <2>3. ASSUME NEW s \in Sessions, DeleteSession(s)
        PROVE  CheckInInv'
    <3>1. attendance' \subseteq attendance /\ UNCHANGED <<mode, nextId, job, raced>>
      BY <2>3 DEF DeleteSession
    <3> QED
      BY <2>1, <3>1, FewerRows DEF CheckInInv
  <2> QED
    BY <1>2, <2>1, <2>2, <2>3, CheckDeviceStep, CheckDuplicateStep, InsertStep
       DEF CheckInNext, CheckInInv
<1> QED
  BY <1>1, <1>2

-----------------------------------------------------------------------------
(* Check-ins implement the register, step by step.                         *)

LEMMA RegisterInsert ==
    ASSUME CheckInInv, NEW t \in Threads, Insert(t)
    PROVE  Register!Next \/ UNCHANGED <<mode, attendance, nextId, existing, raced>>
<1> DEFINE q == job[t].req
<1>1. job[t].stage = "insert" /\ q \in Asked /\ UNCHANGED <<mode, existing, raced>>
  BY DEF Insert, CheckInInv, CheckInTypeOK
<1>2. CASE ~Inserts(t)
  BY <1>1, <1>2 DEF Insert
<1>3. CASE Inserts(t)
  <2>1. /\ attendance' = attendance \cup {[id |-> nextId, req |-> q]}
        /\ nextId' = nextId + 1 /\ q.session \in existing
    BY <1>3 DEF Insert, Inserts
  <2>2. ~OutOfFence(q) /\ (q.session \in raced \/ (~DeviceLocked(q) /\ ~Duplicate(q)))
    BY <1>1 DEF CheckInInv, CheckedInv
  <2>3. Register!InFence(q)
    BY <2>2 DEF OutOfFence, SelfCheckIn, Register!InFence, Register!InPerson
  <2>4. ~Duplicate(q) => Register!Unmarked(q)
    BY DEF Duplicate, Register!Unmarked
  <2>5. ~DeviceLocked(q) => Register!OwnDevice(q)
    BY DEF DeviceLocked, SelfCheckIn, Register!OwnDevice, Register!InPerson
  <2>6. Register!Mark(q)
    BY <1>1, <2>1, <2>2, <2>3, <2>4, <2>5 DEF Register!Mark
  <2> QED
    BY <1>1, <2>6 DEF Register!Next
<1> QED
  BY <1>2, <1>3

LEMMA RegisterStep ==
    ASSUME CheckInInv, CheckInNext \/ UNCHANGED checkInVars
    PROVE  Register!Next \/ UNCHANGED <<mode, attendance, nextId, existing, raced>>
<1>1. ASSUME NEW t \in Threads, CheckDevice(t)
      PROVE  Register!Next \/ UNCHANGED <<mode, attendance, nextId, existing, raced>>
  <2>1. PICK q \in Asked : raced' \in {raced, raced \cup {q.session}} /\ q.session \in existing
    BY <1>1 DEF CheckDevice
  <2>2. UNCHANGED <<mode, attendance, nextId, existing>> /\ q.session \in Sessions
    BY <1>1, <2>1 DEF CheckDevice, CheckInInv, CheckInTypeOK
  <2>3. raced' # raced => Register!Contend(q.session)
    BY <2>1, <2>2 DEF Register!Contend
  <2> QED
    BY <2>2, <2>3 DEF Register!Next
<1>2. ASSUME NEW t \in Threads, CheckDuplicate(t)
      PROVE  UNCHANGED <<mode, attendance, nextId, existing, raced>>
  BY <1>2 DEF CheckDuplicate
<1>3. CASE DeleteAttendance
  <2>1. Register!Erase
    BY <1>3 DEF DeleteAttendance, Register!Erase
  <2> QED
    BY <2>1 DEF Register!Next
<1>4. ASSUME NEW s \in Sessions, DeleteSession(s)
      PROVE  Register!Next
  <2>1. Register!Close(s)
    BY <1>4 DEF DeleteSession, Register!Close
  <2> QED
    BY <2>1 DEF Register!Next
<1>5. CASE UNCHANGED checkInVars
  BY <1>5 DEF checkInVars
<1> QED
  BY <1>1, <1>2, <1>3, <1>4, <1>5, RegisterInsert DEF CheckInNext

-----------------------------------------------------------------------------
(* The feed: types.                                                        *)

Fresh    == {"new", "accepting"}
Ready    == [stage : {"ready"}, channel : Channels]
Sending  == [stage : {"sending"}, channel : Channels, epoch : Nat, size : Nat,
             first : SUBSET Sockets, known : SUBSET Sockets, seen : SUBSET Sockets,
             to : SUBSET Sockets, dead : SUBSET Sockets]
Failed   == [stage : {"failed"}, joined : BOOLEAN, left : BOOLEAN]
Done     == [stage : {"done"}, first : SUBSET Sockets, joined : BOOLEAN]
CastRecs == [stage : {"none", "KeyError"}] \cup Ready \cup Sending \cup Failed \cup Done

FiniteInv == \A s \in Channels : IsFiniteSet(conns[s])

WSTypeInv ==
    /\ sock \in [Sockets -> {"new", "accepting", "open", "closed", "gone"}]
    /\ keys \subseteq Channels
    /\ conns \in [Channels -> SUBSET Sockets]
    /\ \A s \in Channels : \A c \in conns[s] : Watches[c] = s
    /\ \A s \in Channels \ keys : conns[s] = {}
    /\ FiniteInv
    /\ epoch \in [Channels -> Nat]
    /\ cast \in [Casts -> CastRecs]
    /\ got \in [Sockets -> SUBSET Casts]

LEMMA Stages ==
    ASSUME NEW b \in CastRecs
    PROVE  /\ b.stage \in {"none", "failed", "KeyError", "ready", "sending", "done"}
           /\ b.stage = "ready" => b \in Ready
           /\ b.stage = "sending" => b \in Sending
           /\ b.stage = "failed" => b \in Failed
           /\ b.stage = "done" => b \in Done
<1>1. CASE b \in [stage : {"none", "KeyError"}]
  BY <1>1
<1>2. CASE b \in Ready
  BY <1>2 DEF Ready
<1>3. CASE b \in Sending
  BY <1>3 DEF Sending
<1>4. CASE b \in Done
  BY <1>4 DEF Done
<1>5. CASE b \in Failed
  BY <1>5 DEF Failed
<1> QED
  BY <1>1, <1>2, <1>3, <1>4, <1>5 DEF CastRecs

LEMMA WSTypesImply == WSTypeInv => WSTypeOK
<1> SUFFICES ASSUME WSTypeInv
             PROVE  WSTypeOK
  OBVIOUS
<1>1. ASSUME NEW i \in Casts
      PROVE  \/ cast[i].stage \in {"none", "KeyError"}
             \/ cast[i].stage = "failed" /\ {cast[i].joined, cast[i].left} \subseteq BOOLEAN
             \/ cast[i].stage = "ready" /\ cast[i].channel \in Channels
             \/ /\ cast[i].stage = "done"
                /\ cast[i].first \subseteq Sockets /\ cast[i].joined \in BOOLEAN
             \/ /\ cast[i].stage = "sending" /\ cast[i].channel \in Channels
                /\ {cast[i].first, cast[i].known, cast[i].seen, cast[i].to, cast[i].dead} \subseteq SUBSET Sockets
                /\ cast[i].size \in Nat /\ cast[i].epoch \in Nat
  <2>1. cast[i] \in CastRecs
    BY DEF WSTypeInv
  <2>2. CASE cast[i] \in Ready
    BY <2>2 DEF Ready
  <2>3. CASE cast[i] \in Sending
    BY <2>3 DEF Sending
  <2>4. CASE cast[i] \in Done
    BY <2>4 DEF Done
  <2>5. CASE cast[i] \in Failed
    BY <2>5 DEF Failed
  <2> QED
    BY <2>1, <2>2, <2>3, <2>4, <2>5 DEF CastRecs
<1> QED
  BY <1>1 DEF WSTypeInv, WSTypeOK

-----------------------------------------------------------------------------
(* The feed: what a running broadcast can rely on. The sockets it began    *)
(* with are past accept(); one that is still open is in the set iterated   *)
(* over, and was told if its send is over; the dead ones are not open; and *)
(* the set was not empty. Hence a set that lost its key, and so became     *)
(* empty, is noticed by its size before the key is used. Until another     *)
(* socket joins, the set holds nobody else, so that another size means     *)
(* that somebody has left (Quiet).                                         *)

Quiet(b) ==
    /\ b.size = Cardinality(b.first)
    /\ b.known \subseteq Registered(b.channel)
    /\ ~Joined(b) => Iterated(b) \subseteq b.first

Waiting(i, b) ==
    /\ b.size > 0
    /\ Quiet(b)
    /\ \A c \in b.first : /\ sock[c] \notin Fresh
                          /\ sock[c] = "open" => c \in Iterated(b)
    /\ \A c \in b.to : sock[c] \notin Fresh
    /\ \A c \in b.dead : sock[c] \in {"closed", "gone"}
    /\ \A c \in (b.first \cap b.seen) \ b.to : sock[c] = "open" => i \in got[c]

Told(i, b) == \A c \in b.first : /\ sock[c] \notin Fresh
                                 /\ b.joined \/ (sock[c] = "open" => i \in got[c])

Sound(i, b) == /\ b.stage # "KeyError"
               /\ b.stage = "sending" => Waiting(i, b)
               /\ b.stage = "failed" => b.joined \/ b.left
               /\ b.stage = "done" => Told(i, b)

RegisteredInv == \A s \in Channels : \A c \in conns[s] : sock[c] \notin Fresh
WSInv == WSTypeInv /\ RegisteredInv /\ \A i \in Casts : Sound(i, cast[i])

(* What every step of the feed leaves to the broadcasts it does not run.   *)
Steady ==
    /\ \A c \in Sockets : /\ sock[c] \notin Fresh => sock'[c] \notin Fresh
                          /\ sock[c] \in {"closed", "gone"} => sock'[c] \in {"closed", "gone"}
                          /\ (sock[c] \notin Fresh /\ sock'[c] = "open") => sock[c] = "open"
                          /\ got[c] \subseteq got'[c]
    /\ \A s \in keys : \A c \in conns[s] : sock'[c] = "open" =>
          s \in keys' /\ epoch'[s] = epoch[s] /\ c \in conns'[s]
    /\ \A s \in Channels : Registered(s)' = Registered(s) =>
          /\ s \in keys' => s \in keys
          /\ epoch'[s] = epoch[s] /\ conns'[s] \subseteq conns[s]

LEMMA SteadyKeepsQuiet ==
    ASSUME WSTypeInv, Steady, NEW b \in Sending, Quiet(b)
    PROVE  Quiet(b)'
<1>1. b.channel \in Channels
  BY DEF Sending
<1>2. Registered(b.channel) \subseteq Registered(b.channel)'
  BY DEF Steady, Registered, Fresh
<1>3. b.known \subseteq Registered(b.channel)'
  BY <1>2 DEF Quiet
<1>4. ASSUME ~Joined(b)'
      PROVE  Iterated(b)' \subseteq b.first
  <2>1. Registered(b.channel)' = Registered(b.channel) /\ ~Joined(b)
    BY <1>2, <1>4 DEF Quiet, Joined
  <2>2. Iterated(b)' \subseteq Iterated(b)
    BY <1>1, <2>1 DEF Steady, Iterated
  <2> QED
    BY <2>1, <2>2 DEF Quiet
<1> QED
  BY <1>3, <1>4 DEF Quiet

LEMMA SteadyKeepsSound ==
    ASSUME WSTypeInv, Steady, NEW i \in Casts, NEW b \in CastRecs, Sound(i, b)
    PROVE  Sound(i, b)'
<1>1. CASE b.stage = "sending"
  <2>1. b \in Sending
    BY <1>1, Stages
  <2>2. /\ b.first \subseteq Sockets /\ b.to \subseteq Sockets /\ b.dead \subseteq Sockets
        /\ b.seen \subseteq Sockets /\ b.channel \in Channels
    BY <2>1 DEF Sending
  <2>3. Waiting(i, b)
    BY <1>1 DEF Sound
  <2>4. ASSUME NEW c \in b.first
        PROVE  sock'[c] \notin Fresh /\ (sock'[c] = "open" => c \in Iterated(b)')
    <3>1. sock'[c] \notin Fresh /\ (sock'[c] = "open" => sock[c] = "open")
      BY <2>2, <2>3 DEF Waiting, Steady
    <3>2. ASSUME sock'[c] = "open"
          PROVE  c \in Iterated(b)'
      <4>1. c \in Iterated(b)
        BY <2>3, <3>1, <3>2 DEF Waiting
      <4>2. b.channel \in keys /\ epoch[b.channel] = b.epoch /\ c \in conns[b.channel]
        BY <4>1 DEF Iterated
      <4>3. b.channel \in keys' /\ epoch'[b.channel] = b.epoch /\ c \in conns'[b.channel]
        BY <3>2, <4>2 DEF Steady
      <4> QED
        BY <4>3 DEF Iterated
    <3> QED
      BY <3>1, <3>2
  <2>5. \A c \in b.to : sock'[c] \notin Fresh
    BY <2>2, <2>3 DEF Waiting, Steady
  <2>6. \A c \in b.dead : sock'[c] \in {"closed", "gone"}
    BY <2>2, <2>3 DEF Waiting, Steady
  <2>7. \A c \in (b.first \cap b.seen) \ b.to : sock'[c] = "open" => i \in got'[c]
    BY <2>2, <2>3 DEF Waiting, Steady
  <2>8. Quiet(b)'
    BY <2>1, <2>3, SteadyKeepsQuiet DEF Waiting
  <2>9. Waiting(i, b)'
    BY <2>3, <2>4, <2>5, <2>6, <2>7, <2>8 DEF Waiting
  <2> QED
    BY <1>1, <2>9 DEF Sound
<1>2. CASE b.stage = "done"
  <2>1. b.first \subseteq Sockets
    BY <1>2, Stages DEF Done
  <2>2. Told(i, b)'
    BY <1>2, <2>1 DEF Sound, Told, Steady
  <2> QED
    BY <1>2, <2>2 DEF Sound
<1> QED
  BY <1>1, <1>2 DEF Sound

-----------------------------------------------------------------------------
(* The feed: connections.                                                  *)

LEMMA ConnectionStep ==
    ASSUME WSTypeInv, RegisteredInv, NEW c \in Sockets, Connection(c)
    PROVE  WSTypeInv' /\ RegisteredInv' /\ Steady /\ cast' = cast
<1>1. Watches[c] \in Channels
  BY WSAssumption
<1>2. CASE Connect(c)
  <2>1. WSTypeInv' /\ cast' = cast
    BY <1>2 DEF Connect, WSTypeInv, FiniteInv
  <2>2. RegisteredInv'
    BY <1>2 DEF Connect, WSTypeInv, RegisteredInv, Fresh
  <2>3. Steady
    BY <1>2 DEF Connect, WSTypeInv, Steady, Fresh
  <2> QED
    BY <2>1, <2>2, <2>3
<1>3. CASE Accepted(c)
  <2> DEFINE s == Watches[c]
  <2>1. /\ sock[c] = "accepting" /\ sock' = [sock EXCEPT ![c] = "open"]
        /\ keys' = keys \cup {s} /\ conns' = [conns EXCEPT ![s] = @ \cup {c}]
        /\ epoch' = IF s \in keys THEN epoch ELSE [epoch EXCEPT ![s] = @ + 1]
        /\ UNCHANGED <<cast, got>>
    BY <1>3 DEF Accepted
  <2>2. \A r \in Channels : conns'[r] = IF r = s THEN conns[r] \cup {c} ELSE conns[r]
    BY <2>1 DEF WSTypeInv
  <2>3. FiniteInv'
    <3>1. SUFFICES ASSUME NEW r \in Channels
                   PROVE  IsFiniteSet(conns'[r])
      BY DEF FiniteInv
    <3>2. IsFiniteSet(conns[r])
      BY Zenon DEF WSTypeInv, FiniteInv
    <3>3. IsFiniteSet(conns[r] \cup {c})
      BY <3>2, FS_AddElement, Zenon
    <3> QED
      BY <2>2, <3>2, <3>3, Zenon
  <2>4. /\ sock' \in [Sockets -> {"new", "accepting", "open", "closed", "gone"}]
        /\ keys' \subseteq Channels /\ conns' \in [Channels -> SUBSET Sockets]
        /\ epoch' \in [Channels -> Nat]
    BY <1>1, <2>1 DEF WSTypeInv
  <2>5. /\ \A r \in Channels : \A d \in conns'[r] : Watches[d] = r
        /\ \A r \in Channels \ keys' : conns'[r] = {}
    BY <2>1, <2>2 DEF WSTypeInv
  <2>6. WSTypeInv'
    BY <2>1, <2>3, <2>4, <2>5 DEF WSTypeInv
  <2>7. RegisteredInv'
    BY <2>1, <2>2 DEF WSTypeInv, RegisteredInv, Fresh
  <2>8. Steady
    <3>1. \A d \in Sockets : d # c => sock'[d] = sock[d]
      BY <2>1 DEF WSTypeInv
    <3>2. \A r \in keys : \A d \in conns[r] : r \in keys' /\ epoch'[r] = epoch[r] /\ d \in conns'[r]
      BY <1>1, <2>1, <2>2 DEF WSTypeInv
    <3>3. c \in Registered(s)' \ Registered(s)
      BY <2>1 DEF Registered, WSTypeInv
    <3>4. \A r \in Channels \ {s} : /\ r \in keys' => r \in keys
                                     /\ epoch'[r] = epoch[r] /\ conns'[r] = conns[r]
      BY <1>1, <2>1, <2>2 DEF WSTypeInv
    <3> QED
      BY <2>1, <3>1, <3>2, <3>3, <3>4 DEF Steady, Fresh
  <2> QED
    BY <2>1, <2>6, <2>7, <2>8
<1>4. CASE Close(c)
  <2>1. WSTypeInv' /\ cast' = cast
    BY <1>4 DEF Close, WSTypeInv, FiniteInv
  <2>2. RegisteredInv'
    BY <1>4 DEF Close, WSTypeInv, RegisteredInv, Fresh
  <2>3. Steady
    BY <1>4 DEF Close, WSTypeInv, Steady, Fresh
  <2> QED
    BY <2>1, <2>2, <2>3
<1>5. CASE Disconnect(c)
  <2> DEFINE s == Watches[c]
  <2>1. /\ sock[c] = "closed" /\ sock' = [sock EXCEPT ![c] = "gone"]
        /\ conns' = [conns EXCEPT ![s] = @ \ {c}]
        /\ keys' = IF conns[s] \ {c} = {} THEN keys \ {s} ELSE keys
        /\ UNCHANGED <<epoch, cast, got>>
    BY <1>5 DEF Disconnect
  <2>2. \A r \in Channels : conns'[r] = IF r = s THEN conns[r] \ {c} ELSE conns[r]
    BY <2>1 DEF WSTypeInv
  <2>3. FiniteInv'
    <3>1. SUFFICES ASSUME NEW r \in Channels
                   PROVE  IsFiniteSet(conns'[r])
      BY DEF FiniteInv
    <3>2. IsFiniteSet(conns[r])
      BY Zenon DEF WSTypeInv, FiniteInv
    <3>3. conns'[r] \subseteq conns[r]
      BY <2>2
    <3> QED
      BY <3>2, <3>3, FS_Subset, Zenon
  <2>4. /\ sock' \in [Sockets -> {"new", "accepting", "open", "closed", "gone"}]
        /\ keys' \subseteq Channels /\ conns' \in [Channels -> SUBSET Sockets]
    BY <1>1, <2>1 DEF WSTypeInv
  <2>5. /\ \A r \in Channels : \A d \in conns'[r] : Watches[d] = r
        /\ \A r \in Channels \ keys' : conns'[r] = {}
    BY <2>1, <2>2 DEF WSTypeInv
  <2>6. WSTypeInv'
    BY <2>1, <2>3, <2>4, <2>5 DEF WSTypeInv
  <2>7. RegisteredInv'
    BY <2>1, <2>2 DEF WSTypeInv, RegisteredInv, Fresh
  <2>8. Steady
    <3>1. \A d \in Sockets : d # c => sock'[d] = sock[d]
      BY <2>1 DEF WSTypeInv
    <3>2. ASSUME NEW r \in keys, NEW d \in conns[r], sock'[d] = "open"
          PROVE  r \in keys' /\ epoch'[r] = epoch[r] /\ d \in conns'[r]
      BY <2>1, <2>2, <3>2 DEF WSTypeInv
    <3>3. keys' \subseteq keys /\ \A r \in Channels : conns'[r] \subseteq conns[r]
      BY <2>1, <2>2
    <3> QED
      BY <2>1, <3>1, <3>2, <3>3 DEF Steady, Fresh
  <2> QED
    BY <2>1, <2>6, <2>7, <2>8
<1>6. CASE EndpointFails(c)
  <2>1. WSTypeInv' /\ cast' = cast
    BY <1>6 DEF EndpointFails, WSTypeInv, FiniteInv
  <2>2. RegisteredInv'
    BY <1>6 DEF EndpointFails, WSTypeInv, RegisteredInv, Fresh
  <2>3. Steady
    BY <1>6 DEF EndpointFails, WSTypeInv, Steady, Fresh
  <2> QED
    BY <2>1, <2>2, <2>3
<1> QED
  BY <1>2, <1>3, <1>4, <1>5, <1>6 DEF Connection

-----------------------------------------------------------------------------
(* The feed: what a broadcast needs to go on, when its last send is over.  *)
(* In its first round the set may be empty, but then nothing is dead.      *)

Fit(i, b, told) ==
    /\ b \in Sending
    /\ b.dead = {} \/ b.size > 0
    /\ Quiet(b)
    /\ \A c \in b.first : /\ sock[c] \notin Fresh
                          /\ sock[c] = "open" => c \in Iterated(b)
    /\ \A c \in b.dead : sock[c] \in {"closed", "gone"}
    /\ \A c \in b.first \cap b.seen : sock[c] = "open" => i \in told[c]

LEMMA IteratedFacts ==
    ASSUME WSTypeInv, RegisteredInv, NEW b \in Sending
    PROVE  /\ IsFiniteSet(Iterated(b)) /\ Iterated(b) \subseteq Sockets
           /\ Cardinality(Iterated(b)) \in Nat
           /\ b.channel \notin keys => Iterated(b) = {}
           /\ \A c \in Iterated(b) : sock[c] \notin Fresh
<1>1. b.channel \in Channels
  BY DEF Sending
<1>2. IsFiniteSet(conns[b.channel]) /\ IsFiniteSet({})
  BY <1>1, FS_EmptySet, Zenon DEF WSTypeInv, FiniteInv
<1>3. IsFiniteSet(Iterated(b))
  BY <1>2, Zenon DEF Iterated
<1>4. Cardinality(Iterated(b)) \in Nat
  BY <1>3, FS_CardinalityType
<1>5. Iterated(b) \subseteq Sockets /\ \A c \in Iterated(b) : sock[c] \notin Fresh
  BY <1>1 DEF Iterated, WSTypeInv, RegisteredInv
<1> QED
  BY <1>3, <1>4, <1>5 DEF Iterated

LEMMA AdvanceStep ==
    ASSUME WSInv, NEW i \in Casts, NEW b, Fit(i, b, got'), Advance(i, b),
           UNCHANGED <<sock, keys, epoch>>,
           got' \in [Sockets -> SUBSET Casts], \A c \in Sockets : got[c] \subseteq got'[c]
    PROVE  WSInv'
<1>1. /\ WSTypeInv /\ RegisteredInv /\ b \in Sending /\ b.channel \in Channels
      /\ b.first \subseteq Sockets /\ b.seen \subseteq Sockets /\ b.dead \subseteq Sockets
      /\ b.size \in Nat
  BY DEF WSInv, Fit, Sending
<1>2. /\ Iterated(b) \subseteq Sockets /\ IsFiniteSet(Iterated(b))
      /\ Cardinality(Iterated(b)) \in Nat /\ (b.channel \notin keys => Iterated(b) = {})
      /\ \A c \in Iterated(b) : sock[c] \notin Fresh
  BY <1>1, IteratedFacts
(* The result: a record and the sets left.                                 *)
<1>3. ASSUME NEW n \in CastRecs, cast' = [cast EXCEPT ![i] = n], Sound(i, n)',
             \/ UNCHANGED conns
             \/ conns' = [conns EXCEPT ![b.channel] = @ \ b.dead]
      PROVE  WSInv'
  <2>1. \A s \in Channels : /\ conns'[s] \subseteq conns[s]
                            /\ \A c \in conns[s] : c \notin b.dead => c \in conns'[s]
    BY <1>1, <1>3 DEF WSTypeInv
  <2>2. conns' \in [Channels -> SUBSET Sockets]
    BY <1>1, <1>3 DEF WSTypeInv
  <2>3. FiniteInv'
    <3>1. SUFFICES ASSUME NEW s \in Channels
                   PROVE  IsFiniteSet(conns'[s])
      BY DEF FiniteInv
    <3>2. IsFiniteSet(conns[s])
      BY <1>1, Zenon DEF WSTypeInv, FiniteInv
    <3>3. conns'[s] \subseteq conns[s]
      BY <2>1
    <3> QED
      BY <3>2, <3>3, FS_Subset, Zenon
  <2>4. cast' \in [Casts -> CastRecs]
    BY <1>1, <1>3 DEF WSTypeInv
  <2>5. /\ \A s \in Channels : \A d \in conns'[s] : Watches[d] = s
        /\ \A s \in Channels \ keys : conns'[s] = {}
    BY <1>1, <2>1 DEF WSTypeInv
  <2>6. WSTypeInv'
    BY <1>1, <2>2, <2>3, <2>4, <2>5 DEF WSTypeInv
  <2>7. RegisteredInv'
    BY <1>1, <2>1 DEF RegisteredInv
  <2>8. Steady
    <3>1. \A c \in b.dead : sock[c] # "open"
      BY DEF Fit
    <3>2. \A s \in keys : \A c \in conns[s] : sock'[c] = "open" =>
            s \in keys' /\ epoch'[s] = epoch[s] /\ c \in conns'[s]
      BY <1>1, <2>1, <3>1 DEF WSTypeInv
    <3>3. \A s \in Channels : /\ s \in keys' => s \in keys
                              /\ epoch'[s] = epoch[s] /\ conns'[s] \subseteq conns[s]
      BY <2>1
    <3> QED
      BY <3>2, <3>3 DEF Steady
  <2>9. ASSUME NEW j \in Casts
        PROVE  Sound(j, cast[j])'
    <3>1. CASE j = i
      <4>1. cast'[i] = n
        BY <1>1, <1>3 DEF WSTypeInv
      <4> QED
        BY <1>3, <3>1, <4>1 DEF Sound, Waiting, Told
    <3>2. CASE j # i
      <4>1. PICK m \in CastRecs : m = cast[j]
        BY <1>1 DEF WSTypeInv
      <4>2. cast'[j] = m
        BY <1>1, <1>3, <3>2, <4>1 DEF WSTypeInv
      <4>3. Sound(j, m)
        BY <4>1 DEF WSInv
      <4>4. Sound(j, m)'
        BY <1>1, <2>8, <4>3, SteadyKeepsSound
      <4> QED
        BY <4>2, <4>4 DEF Sound, Waiting, Told
    <3> QED
      BY <3>1, <3>2
  <2> QED
    BY <2>6, <2>7, <2>9 DEF WSInv
<1>4. CASE /\ SizeChanged(b)
           /\ cast' = [cast EXCEPT ![i] =
                          [stage |-> "failed", joined |-> Joined(b), left |-> Left(b)]]
           /\ UNCHANGED conns
  <2>1. PICK join \in BOOLEAN, leave \in BOOLEAN : join = Joined(b) /\ leave = Left(b)
    BY DEF Joined, Left
  <2> DEFINE n == [stage |-> "failed", joined |-> join, left |-> leave]
  <2>2. n \in CastRecs
    BY <2>1 DEF CastRecs, Failed
  <2>3. join \/ leave
    <3>1. SUFFICES ASSUME ~Joined(b), ~Left(b)
                   PROVE  FALSE
      BY <2>1
    <3>2. Iterated(b) = b.first
      BY <3>1 DEF Fit, Quiet, Left
    <3> QED
      BY <1>4, <3>2 DEF Fit, Quiet, SizeChanged
  <2>4. Sound(i, n)'
    BY <2>3 DEF Sound
  <2> QED
    BY <1>3, <1>4, <2>1, <2>2, <2>4
<1>5. CASE /\ ~SizeChanged(b) /\ {} \in Ahead(b)
           /\ IF b.dead # {} /\ b.channel \notin keys
              THEN cast' = [cast EXCEPT ![i] = [stage |-> "KeyError"]] /\ UNCHANGED conns
              ELSE /\ cast' = [cast EXCEPT ![i] =
                                  [stage |-> "done", first |-> b.first, joined |-> Joined(b)]]
                   /\ conns' = [conns EXCEPT ![b.channel] = @ \ b.dead]
  <2>1. b.dead = {} \/ b.channel \in keys
    <3>1. ASSUME b.dead # {}, b.channel \notin keys
          PROVE  FALSE
      <4>1. Cardinality(Iterated(b)) = 0
        BY <1>2, <3>1, FS_EmptySet
      <4> QED
        BY <1>5, <3>1, <4>1 DEF SizeChanged, Fit
    <3> QED
      BY <3>1
  <2>2. PICK join \in BOOLEAN : join = Joined(b)
    BY DEF Joined
  <2> DEFINE n == [stage |-> "done", first |-> b.first, joined |-> join]
  <2>3. cast' = [cast EXCEPT ![i] = n] /\ conns' = [conns EXCEPT ![b.channel] = @ \ b.dead]
    BY <1>5, <2>1, <2>2
  <2>4. n \in CastRecs
    BY <1>1 DEF CastRecs, Done
  <2>5. join \/ Iterated(b) \subseteq b.seen
    BY <1>5, <2>2 DEF Ahead
  <2>6. ASSUME NEW c \in b.first
        PROVE  sock'[c] \notin Fresh /\ (join \/ (sock'[c] = "open" => i \in got'[c]))
    BY <2>5 DEF Fit
  <2>7. Sound(i, n)'
    BY <2>6 DEF Sound, Told
  <2> QED
    BY <1>3, <2>3, <2>4, <2>7
<1>6. CASE /\ ~SizeChanged(b)
           /\ \E c \in UNION Ahead(b) :
                cast' = [cast EXCEPT ![i] = [b EXCEPT !.to = {c}, !.seen = @ \cup {c}]]
           /\ UNCHANGED conns
  <2>1. PICK c \in Iterated(b) :
          cast' = [cast EXCEPT ![i] = [b EXCEPT !.to = {c}, !.seen = @ \cup {c}]]
    BY <1>6 DEF Ahead
  <2> DEFINE n == [b EXCEPT !.to = {c}, !.seen = @ \cup {c}]
  <2>2. /\ n \in Sending /\ n.stage = "sending" /\ n.size = b.size /\ n.first = b.first
        /\ n.dead = b.dead /\ n.to = {c} /\ n.seen = b.seen \cup {c}
        /\ n.channel = b.channel /\ n.epoch = b.epoch /\ n.known = b.known
    BY <1>1, <1>2, <2>1 DEF Sending
  <2>3. b.size > 0
    <3>1. Cardinality(Iterated(b)) # 0
      BY <1>2, <2>1, FS_EmptySet
    <3> QED
      BY <1>1, <1>2, <1>6, <3>1 DEF SizeChanged
  <2>4. PICK x \in CastRecs : x = n
    BY <2>2 DEF CastRecs
  <2>5. Iterated(x)' = Iterated(b)
    BY <1>6, <2>2, <2>4 DEF Iterated
  <2>6. Waiting(i, x)'
    <3>1. \A d \in x.first : sock'[d] \notin Fresh /\ (sock'[d] = "open" => d \in Iterated(x)')
      BY <2>2, <2>4, <2>5 DEF Fit
    <3>2. \A d \in x.to : sock'[d] \notin Fresh
      BY <1>2, <2>2, <2>4
    <3>3. \A d \in x.dead : sock'[d] \in {"closed", "gone"}
      BY <2>2, <2>4 DEF Fit
    <3>4. \A d \in (x.first \cap x.seen) \ x.to : sock'[d] = "open" => i \in got'[d]
      BY <2>2, <2>4 DEF Fit
    <3>5. Quiet(x)'
      BY <2>2, <2>4, <2>5 DEF Fit, Quiet, Joined, Registered
    <3> QED
      BY <2>2, <2>3, <2>4, <3>1, <3>2, <3>3, <3>4, <3>5 DEF Waiting
  <2>7. Sound(i, x)'
    BY <2>2, <2>4, <2>6 DEF Sound
  <2> QED
    BY <1>3, <1>6, <2>1, <2>4, <2>7
<1> QED
  BY <1>4, <1>5, <1>6 DEF Advance

LEMMA StartStep ==
    ASSUME WSInv, NEW i \in Casts, Start(i)
    PROVE  WSInv'
<1> DEFINE s == cast[i].channel
<1>1. WSTypeInv /\ RegisteredInv /\ cast[i] \in CastRecs /\ cast[i].stage = "ready"
  BY DEF WSInv, WSTypeInv, Start
<1>2. s \in Channels
  BY <1>1, Stages DEF Ready
<1>3. UNCHANGED <<sock, keys, epoch, got>>
  BY DEF Start
<1>4. got' \in [Sockets -> SUBSET Casts] /\ \A c \in Sockets : got[c] \subseteq got'[c]
  BY <1>1, <1>3 DEF WSTypeInv
<1>5. CASE s \notin keys
  <2> DEFINE n == [stage |-> "done", first |-> {}, joined |-> FALSE]
  <2>1. cast' = [cast EXCEPT ![i] = n] /\ UNCHANGED conns
    BY <1>5 DEF Start
  <2>2. n \in CastRecs
    BY DEF CastRecs, Done
  <2>3. WSTypeInv'
    BY <1>1, <1>3, <2>1, <2>2 DEF WSTypeInv, FiniteInv
  <2>4. RegisteredInv'
    BY <1>1, <1>3, <2>1 DEF RegisteredInv
  <2>5. ASSUME NEW j \in Casts
        PROVE  Sound(j, cast[j])'
    <3>1. CASE j = i
      <4>1. cast'[j] = n
        BY <1>1, <2>1, <3>1 DEF WSTypeInv
      <4> QED
        BY <4>1 DEF Sound, Told
    <3>2. CASE j # i
      <4>1. cast'[j] = cast[j]
        BY <1>1, <2>1, <3>2 DEF WSTypeInv
      <4>2. Sound(j, cast[j])
        BY DEF WSInv
      <4> QED
        BY <1>3, <2>1, <4>1, <4>2 DEF Sound, Told, Waiting, Quiet, Joined, Registered, Iterated
    <3> QED
      BY <3>1, <3>2
  <2> QED
    BY <2>3, <2>4, <2>5 DEF WSInv
<1>6. CASE s \in keys
  <2> DEFINE n == [stage |-> "sending", channel |-> s, epoch |-> epoch[s],
                   size |-> Cardinality(conns[s]), first |-> conns[s],
                   known |-> Registered(s), seen |-> {}, to |-> {}, dead |-> {}]
  <2>1. Advance(i, n)
    BY <1>6 DEF Start
  <2>2. IsFiniteSet(conns[s])
    BY <1>1, <1>2, Zenon DEF WSTypeInv, FiniteInv
  <2>3. Cardinality(conns[s]) \in Nat
    BY <2>2, FS_CardinalityType
  <2>4. n \in Sending
    BY <1>1, <1>2, <2>3 DEF Sending, WSTypeInv, Registered
  <2>5. Iterated(n) = conns[s]
    BY <1>6 DEF Iterated
  <2>6. PICK b \in Sending : b = n
    BY <2>4
  <2>7. Fit(i, b, got')
    BY <1>1, <1>2, <2>5, <2>6 DEF Fit, Quiet, RegisteredInv
  <2>8. Advance(i, b)
    BY <2>1, <2>6
  <2> QED
    BY <1>3, <1>4, <2>7, <2>8, AdvanceStep
<1> QED
  BY <1>5, <1>6

LEMMA ResumeStep ==
    ASSUME WSInv, NEW i \in Casts, Resume(i)
    PROVE  WSInv'
<1>1. WSTypeInv /\ cast[i] \in CastRecs /\ cast[i].stage = "sending"
  BY DEF WSInv, WSTypeInv, Resume
<1>2. cast[i] \in Sending
  BY <1>1, Stages
<1>3. PICK b \in Sending : b = cast[i]
  BY <1>2
<1>4. Waiting(i, b)
  BY <1>1, <1>3 DEF WSInv, Sound
<1> DEFINE up == {c \in b.to : sock[c] = "open"}
<1>5. PICK raises \in BOOLEAN :
        /\ up # {} => ~raises
        /\ got' = [c \in Sockets |-> IF c \in up THEN got[c] \cup {i} ELSE got[c]]
        /\ Advance(i, [b EXCEPT !.dead = IF raises THEN @ \cup b.to ELSE @])
  BY <1>3 DEF Resume
<1>6. UNCHANGED <<sock, keys, epoch>>
  BY DEF Resume
<1>7. got' \in [Sockets -> SUBSET Casts] /\ \A c \in Sockets : got[c] \subseteq got'[c]
  BY <1>1, <1>5 DEF WSTypeInv
<1> DEFINE n == [b EXCEPT !.dead = IF raises THEN @ \cup b.to ELSE @]
<1>8. /\ b.first \subseteq Sockets /\ b.to \subseteq Sockets /\ b.dead \subseteq Sockets
      /\ n \in Sending /\ n.channel = b.channel /\ n.epoch = b.epoch /\ n.size = b.size
      /\ n.first = b.first /\ n.known = b.known /\ n.seen = b.seen /\ n.to = b.to
      /\ n.dead = IF raises THEN b.dead \cup b.to ELSE b.dead
  BY DEF Sending
<1>9. PICK m \in Sending : m = n
  BY <1>8
<1>10. Iterated(m) = Iterated(b)
  BY <1>8, <1>9 DEF Iterated
<1>11. \A c \in m.dead : sock[c] \in {"closed", "gone"}
  <2>1. raises => \A c \in b.to : sock[c] \in {"closed", "gone"}
    BY <1>1, <1>4, <1>5, <1>8 DEF Waiting, WSTypeInv, Fresh
  <2> QED
    BY <1>4, <1>8, <1>9, <2>1 DEF Waiting
<1>12. \A c \in m.first \cap m.seen : sock[c] = "open" => i \in got'[c]
  BY <1>4, <1>5, <1>8, <1>9 DEF Waiting
<1>13. Quiet(m)
  BY <1>4, <1>8, <1>9, <1>10 DEF Waiting, Quiet, Joined
<1>14. Fit(i, m, got')
  BY <1>4, <1>8, <1>9, <1>10, <1>11, <1>12, <1>13 DEF Fit, Waiting
<1>15. Advance(i, m)
  BY <1>5, <1>9
<1> QED
  BY <1>6, <1>7, <1>14, <1>15, AdvanceStep

LEMMA FeedStep ==
    ASSUME WSInv, WSStep \/ UNCHANGED wsVars
    PROVE  WSInv'
<1>1. WSTypeInv /\ RegisteredInv
  BY DEF WSInv
<1>2. ASSUME NEW c \in Sockets, Connection(c)
      PROVE  WSInv'
  <2>1. WSTypeInv' /\ RegisteredInv' /\ Steady /\ cast' = cast
    BY <1>1, <1>2, ConnectionStep
  <2>2. ASSUME NEW j \in Casts
        PROVE  Sound(j, cast[j])'
    <3>1. PICK m \in CastRecs : m = cast[j]
      BY <1>1 DEF WSTypeInv
    <3>2. Sound(j, m)
      BY <3>1 DEF WSInv
    <3>3. Sound(j, m)'
      BY <1>1, <2>1, <3>2, SteadyKeepsSound
    <3>4. cast'[j] = m
      BY <2>1, <3>1
    <3> QED
      BY <3>3, <3>4 DEF Sound, Waiting, Told
  <2> QED
    BY <2>1, <2>2 DEF WSInv
<1>3. ASSUME NEW i \in Casts, NEW s \in Channels, Schedule(i, s)
      PROVE  WSInv'
  <2> DEFINE n == [stage |-> "ready", channel |-> s]
  <2>1. cast' = [cast EXCEPT ![i] = n] /\ UNCHANGED <<sock, keys, conns, epoch, got>>
    BY <1>3 DEF Schedule
  <2>2. n \in CastRecs
    BY DEF CastRecs, Ready
  <2>3. WSTypeInv' /\ RegisteredInv'
    BY <1>1, <2>1, <2>2 DEF WSTypeInv, FiniteInv, RegisteredInv
  <2>4. ASSUME NEW j \in Casts
        PROVE  Sound(j, cast[j])'
    <3>1. CASE j = i
      <4>1. cast'[j] = n
        BY <1>1, <2>1, <3>1 DEF WSTypeInv
      <4> QED
        BY <4>1 DEF Sound
    <3>2. CASE j # i
      <4>1. cast'[j] = cast[j]
        BY <1>1, <2>1, <3>2 DEF WSTypeInv
      <4>2. Sound(j, cast[j])
        BY DEF WSInv
      <4> QED
        BY <2>1, <4>1, <4>2 DEF Sound, Told, Waiting, Quiet, Joined, Registered, Iterated
    <3> QED
      BY <3>1, <3>2
  <2> QED
    BY <2>3, <2>4 DEF WSInv
<1>4. CASE UNCHANGED wsVars
  BY <1>4 DEF wsVars, WSInv, WSTypeInv, FiniteInv, RegisteredInv, Sound, Told, Waiting, Quiet, Joined, Registered, Iterated
<1> QED
  BY <1>2, <1>3, <1>4, StartStep, ResumeStep DEF WSStep, WSNext, Broadcast

LEMMA FeedInitially == WSInit => WSInv
<1> SUFFICES ASSUME WSInit
             PROVE  WSInv
  OBVIOUS
<1>1. NoCast \in CastRecs
  BY DEF NoCast, CastRecs
<1>2. FiniteInv
  BY FS_EmptySet, Zenon DEF WSInit, FiniteInv
<1>3. WSTypeInv
  BY <1>1, <1>2 DEF WSInit, WSTypeInv
<1> QED
  BY <1>3 DEF WSInit, WSInv, RegisteredInv, Sound, NoCast

-----------------------------------------------------------------------------
(* The composition.                                                        *)

LEMMA Invariance == Spec => [](CheckInInv /\ WSInv)
<1>1. Init => CheckInInv /\ WSInv
  BY CheckInInitially, FeedInitially DEF Init
<1>2. CheckInInv /\ WSInv /\ [Next]_vars => (CheckInInv /\ WSInv)'
  <2> SUFFICES ASSUME CheckInInv, WSInv, [Next]_vars
               PROVE  (CheckInInv /\ WSInv)'
    OBVIOUS
  <2>1. CASE Next
    BY <2>1, Halves, CheckInStep, FeedStep DEF CheckInInv
  <2>2. CASE UNCHANGED vars
    BY <2>2, CheckInStep, FeedStep DEF vars
  <2> QED
    BY <2>1, <2>2
<1> QED
  BY <1>1, <1>2, PTL DEF Spec

(* Rows, requests, connections and broadcasts keep their types, a socket   *)
(* is registered for its own session, and only under a key.                *)
THEOREM LiveAttendanceTypeCorrect == Spec => []TypeOK
<1>1. CheckInInv /\ WSInv => TypeOK
  BY WSTypesImply DEF CheckInInv, WSInv, TypeOK
<1> QED
  BY <1>1, Invariance, PTL

(* Without overlapping requests for a session nobody is marked twice in    *)
(* it, although the table has no unique constraint.                        *)
THEOREM NobodyIsMarkedTwice == Spec => []DoubleOnlyIfRaced
<1>1. CheckInInv => DoubleOnlyIfRaced
  BY DEF CheckInInv
<1> QED
  BY <1>1, Invariance, PTL

(* The device lock and the geofence hold for the rows that are written,    *)
(* one and two queries after they were looked at.                          *)
THEOREM SelfCheckInsAreGenuine == Spec => []SelfCheckInIsGenuine
<1>1. CheckInInv => SelfCheckInIsGenuine
  BY DEF CheckInInv
<1> QED
  BY <1>1, Invariance, PTL

(* Marking attendance implements the register: unless requests for a       *)
(* session overlap, each is decided and entered at one instant.            *)
THEOREM CheckInsImplementTheRegister == Spec => CheckInsAreAtomic
<1>1. Init => Register!Init
  BY DEF Init, CheckInInit, Register!Init
<1>2. CheckInInv /\ [Next]_vars =>
          [Register!Next]_<<mode = "localStorage", attendance, nextId, existing, raced>>
  <2> SUFFICES ASSUME CheckInInv, [Next]_vars
               PROVE  [Register!Next]_<<mode = "localStorage", attendance, nextId, existing, raced>>
    OBVIOUS
  <2>1. CheckInNext \/ UNCHANGED checkInVars
    BY Halves DEF CheckInInv, vars
  <2> QED
    BY <2>1, RegisterStep
<1> QED
  BY <1>1, <1>2, Invariance, PTL DEF Spec, CheckInsAreAtomic, Register!Spec

(* Nobody is missed by a quiet feed: without another socket joining, a     *)
(* completed broadcast reached every socket it began with that is still    *)
(* connected, and none breaks off unless a socket joined or left.          *)
THEOREM QuietFeedsReachEveryone == Spec => []MissesHaveACause
<1>1. WSInv => MissesHaveACause
  BY DEF WSInv, Sound, Told, MissesHaveACause
<1> QED
  BY <1>1, Invariance, PTL

(* Discarding dead sockets never meets a deleted entry.                    *)
THEOREM DiscardFindsTheEntry == Spec => []NoKeyError
<1>1. WSInv => NoKeyError
  BY DEF WSInv, Sound, NoKeyError
<1> QED
  BY <1>1, Invariance, PTL

=============================================================================
