--------------------------- MODULE Directory_proofs ---------------------------
(***************************************************************************)
(* Proofs about Directory, for any members, grants, bodies and numbers of  *)
(* request threads. The invariant behind them: whatever has changed since  *)
(* a request under way read it is among the writes it has been told of, so *)
(* a request that was told of nothing it depends on acts on what is still  *)
(* so (Fresh). Every write tells of what it changes (Effect).              *)
(***************************************************************************)
EXTENDS Directory, FiniteSetTheorems, FunctionTheorems, TLAPS

-----------------------------------------------------------------------------
(* What a thread can be, and attendance rows.                              *)

Attendance == [no : Nat, member : Members \cup {None}, by : Members \cup {None}]

InsertJob == [op : {"insert"}, email : Emails, name : Names \cup {None},
              number : Numbers \cup {None}, new : SUBSET Grants, late : SUBSET Note]
UpdateJob == [op : {"update"}, who : Members, read : Row, email : Emails,
              name : Names \cup {None, Unset}, number : Numbers \cup {None, Unset},
              lists : SUBSET Lists, new : SUBSET Grants, late : SUBSET Note]
SaveJob   == [op : {"save"}, who : Members, read : Row, email : Emails,
              name : Names \cup {None, Unset}, number : Numbers \cup {None, Unset},
              lists : SUBSET Lists, old : SUBSET Grants, new : SUBSET Grants,
              late : SUBSET Note]
DeleteJob == [op : {"delete"}, who : Members, late : SUBSET Note]
RemoveJob == [op : {"remove"}, who : Members, old : SUBSET Grants, att : SUBSET Attendance,
              late : SUBSET Note]
Jobs == {Idle} \cup InsertJob \cup UpdateJob \cup SaveJob \cup DeleteJob \cup RemoveJob

Types == TypeOK /\ job \in [Threads -> Jobs] /\ att \subseteq Attendance

(* What a request relies on is so, or it has been told. A member it knows  *)
(* was there; the checks it passed and the collections it loaded still     *)
(* hold.                                                                   *)
FreshRow(j) == /\ rows[j.who] # Unborn
               /\ j.who \notin Present => <<"row", j.who>> \in j.late

FreshInsert(j) ==
    /\ EmailInUse(None, j.email) => <<"email", j.email>> \in j.late
    /\ NameTaken(None, j.name)   => <<"name", j.name>> \in j.late

FreshSave(j) ==
    /\ j.old \cup j.new \subseteq UNION j.lists
    /\ Readdress(j) /\ EmailInUse(j.who, j.email) => <<"email", j.email>> \in j.late
    /\ NameTaken(j.who, j.name) => <<"name", j.name>> \in j.late
    /\ j.who \in Present =>
          \A L \in j.lists : <<"list", j.who, L>> \notin j.late =>
                                 j.old \cap L = Loaded(j.who) \cap L

FreshRemove(j) ==
    <<"row", j.who>> \notin j.late =>
        /\ j.old = Loaded(j.who)
        /\ <<"marks", j.who>> \notin j.late => j.att = {a \in att : a.member = j.who}

Fresh(j) ==
    /\ j.op = "insert" => FreshInsert(j)
    /\ j.op \in {"update", "save", "delete", "remove"} => FreshRow(j)
    /\ j.op = "update" => j.new \subseteq UNION j.lists
    /\ j.op = "save"   => FreshSave(j)
    /\ j.op = "remove" => FreshRemove(j)

AllFresh == \A j \in {job[t] : t \in Threads} : Fresh(j)

Properties == NameClashOnlyIfRaced /\ GrantsAreAsAsked /\ ErrorsHaveACause

IInv == Types /\ AllFresh /\ Properties

-----------------------------------------------------------------------------
(* What a write changes and tells: nothing the notes `what` leave out.     *)
Effect(what) ==
    /\ \A m \in Members : rows[m] # Unborn => /\ rows'[m] # Unborn
                                              /\ m \notin Present => m \notin Present'
    /\ \A m \in Present' : /\ \/ m \in Present /\ rows'[m].email = rows[m].email
                              \/ <<"email", rows'[m].email>> \in what
                           /\ \/ m \in Present /\ rows'[m].name = rows[m].name
                              \/ <<"name", rows'[m].name>> \in what
    /\ \A m \in Present : \/ m \in Present' /\ held'[m] = held[m]
                          \/ <<"row", m>> \in what
    /\ \A m \in Present, L \in Lists :
          \/ m \notin Present'
          \/ \A g \in L : held'[m][g] = held[m][g]
          \/ <<"list", m, L>> \in what
    /\ \A m \in Members :
          \/ {a \in att' : a.member = m} = {a \in att : a.member = m}
          \/ {<<"row", m>>, <<"marks", m>>} \cap what # {}

(* A request that is told of a write.                                      *)
Told(j, what) == [j EXCEPT !.late = j.late \cup what]

LEMMA NotIdle ==
    /\ Idle.op = "idle"
    /\ Idle \notin InsertJob \cup UpdateJob \cup SaveJob \cup DeleteJob \cup RemoveJob
BY DEF Idle, InsertJob, UpdateJob, SaveJob, DeleteJob, RemoveJob

LEMMA ByOp ==
    ASSUME NEW j \in Jobs
    PROVE  /\ j = Idle => j.op = "idle"
           /\ j \in InsertJob => j.op = "insert"
           /\ j \in UpdateJob => j.op = "update"
           /\ j \in SaveJob   => j.op = "save"
           /\ j \in DeleteJob => j.op = "delete"
           /\ j \in RemoveJob => j.op = "remove"
           /\ j.op = "idle"   => j = Idle
           /\ j.op = "insert" => j \in InsertJob
           /\ j.op = "update" => j \in UpdateJob
           /\ j.op = "save"   => j \in SaveJob
           /\ j.op = "delete" => j \in DeleteJob
           /\ j.op = "remove" => j \in RemoveJob
BY DEF Jobs, Idle, InsertJob, UpdateJob, SaveJob, DeleteJob, RemoveJob

LEMMA ToldJob ==
    ASSUME NEW j \in Jobs, j # Idle, NEW what \in SUBSET Note
    PROVE  /\ Told(j, what) \in Jobs \ {Idle}
           /\ Told(j, what).op = j.op
           /\ Told(j, what).late = j.late \cup what
<1>1. CASE j \in InsertJob
  <2>1. Told(j, what) \in InsertJob /\ Told(j, what).late = j.late \cup what
    BY <1>1 DEF Told, InsertJob
  <2> QED
    BY <1>1, <2>1, ByOp, NotIdle DEF Jobs
<1>2. CASE j \in UpdateJob
  <2>1. Told(j, what) \in UpdateJob /\ Told(j, what).late = j.late \cup what
    BY <1>2 DEF Told, UpdateJob
  <2> QED
    BY <1>2, <2>1, ByOp, NotIdle DEF Jobs
<1>3. CASE j \in SaveJob
  <2>1. Told(j, what) \in SaveJob /\ Told(j, what).late = j.late \cup what
    BY <1>3 DEF Told, SaveJob
  <2> QED
    BY <1>3, <2>1, ByOp, NotIdle DEF Jobs
<1>4. CASE j \in DeleteJob
  <2>1. Told(j, what) \in DeleteJob /\ Told(j, what).late = j.late \cup what
    BY <1>4 DEF Told, DeleteJob
  <2> QED
    BY <1>4, <2>1, ByOp, NotIdle DEF Jobs
<1>5. CASE j \in RemoveJob
  <2>1. Told(j, what) \in RemoveJob /\ Told(j, what).late = j.late \cup what
    BY <1>5 DEF Told, RemoveJob
  <2> QED
    BY <1>5, <2>1, ByOp, NotIdle DEF Jobs
<1> QED
  BY <1>1, <1>2, <1>3, <1>4, <1>5 DEF Jobs

(* The conjuncts of Fresh survive a write that the request is told of.     *)
LEMMA RowKept ==
    ASSUME Types, NEW what \in SUBSET Note, Effect(what), NEW m \in Members,
           NEW late, rows[m] # Unborn, m \notin Present => <<"row", m>> \in late
    PROVE  rows'[m] # Unborn /\ (m \notin Present' => <<"row", m>> \in late \cup what)
BY DEF Effect

LEMMA EmailKept ==
    ASSUME Types, NEW what \in SUBSET Note, Effect(what), NEW m, NEW e,
           NEW late, EmailInUse(m, e) => <<"email", e>> \in late
    PROVE  EmailInUse(m, e)' => <<"email", e>> \in late \cup what
BY DEF Effect, EmailInUse

LEMMA NameKept ==
    ASSUME Types, NEW what \in SUBSET Note, Effect(what), NEW m, NEW n,
           NEW late, NameTaken(m, n) => <<"name", n>> \in late
    PROVE  NameTaken(m, n)' => <<"name", n>> \in late \cup what
BY DEF Effect, NameTaken

(* Grants of a list are the grants of some list.                           *)
LEMMA ListsOK == \A L \in Lists : L \subseteq Grants
BY DEF Lists, Grants

LEMMA ListsApart == \A L, M \in Lists : L # M => L \cap M = {}
BY DirectoryAssumption DEF Lists

LEMMA ListLoaded ==
    ASSUME Types, NEW what \in SUBSET Note, Effect(what), NEW m \in Present,
           m \in Present', NEW L \in Lists, <<"list", m, L>> \notin what
    PROVE  Loaded(m)' \cap L = Loaded(m) \cap L
<1>1. \A g \in L : held'[m][g] = held[m][g]
  BY DEF Effect
<1> QED
  BY <1>1, ListsOK DEF Loaded

LEMMA FreshRemoveKept ==
    ASSUME Types, NEW what \in SUBSET Note, Effect(what), NEW j \in RemoveJob,
           FreshRow(j), FreshRemove(j)
    PROVE  FreshRemove(Told(j, what))'
<1> DEFINE k == Told(j, what)
<1>1. k.late = j.late \cup what /\ k.who = j.who /\ k.old = j.old /\ k.att = j.att
  BY DEF Told, RemoveJob
<1> HIDE DEF k
<1> SUFFICES ASSUME <<"row", j.who>> \notin k.late
             PROVE  /\ j.old = Loaded(j.who)'
                    /\ <<"marks", j.who>> \notin k.late =>
                           j.att = {a \in att' : a.member = j.who}
  BY <1>1 DEF FreshRemove, k
<1>2. j.who \in Present /\ j.who \in Members
  BY <1>1 DEF FreshRow, RemoveJob
<1>3. held'[j.who] = held[j.who]
  BY <1>1, <1>2 DEF Effect
<1>4. j.old = Loaded(j.who)'
  BY <1>1, <1>3 DEF FreshRemove, Loaded
<1>5. ASSUME <<"marks", j.who>> \notin k.late
      PROVE  j.att = {a \in att' : a.member = j.who}
  <2>1. {a \in att' : a.member = j.who} = {a \in att : a.member = j.who}
    BY <1>1, <1>2, <1>5 DEF Effect
  <2>2. j.att = {a \in att : a.member = j.who}
    BY <1>1, <1>5 DEF FreshRemove
  <2> QED
    BY <2>1, <2>2
<1> QED
  BY <1>4, <1>5

LEMMA FreshSaveKept ==
    ASSUME Types, NEW what \in SUBSET Note, Effect(what), NEW j \in SaveJob,
           FreshRow(j), FreshSave(j)
    PROVE  FreshSave(Told(j, what))'
<1> DEFINE k == Told(j, what)
<1>1. /\ k.late = j.late \cup what /\ k.who = j.who /\ k.old = j.old /\ k.new = j.new
      /\ k.email = j.email /\ k.name = j.name /\ k.read = j.read /\ k.lists = j.lists
  BY DEF Told, SaveJob
<1> HIDE DEF k
<1>2. k.old \cup k.new \subseteq UNION k.lists
  BY <1>1 DEF FreshSave
<1>3. Readdress(k) /\ EmailInUse(k.who, k.email)' => <<"email", k.email>> \in k.late
  <2>1. CASE ~Readdress(j)
    BY <1>1, <2>1 DEF Readdress
  <2>2. CASE Readdress(j)
    <3>1. EmailInUse(j.who, j.email) => <<"email", j.email>> \in j.late
      BY <2>2 DEF FreshSave
    <3> QED
      BY <1>1, <3>1, EmailKept
  <2> QED
    BY <2>1, <2>2
<1>4. NameTaken(k.who, k.name)' => <<"name", k.name>> \in k.late
  <2>1. NameTaken(j.who, j.name) => <<"name", j.name>> \in j.late
    BY DEF FreshSave
  <2> QED
    BY <1>1, <2>1, NameKept
<1>5. ASSUME j.who \in Present', NEW L \in j.lists, <<"list", j.who, L>> \notin k.late
      PROVE  j.old \cap L = Loaded(j.who)' \cap L
  <2>1. j.who \in Members /\ L \in Lists
    BY DEF SaveJob
  <2>2. j.who \in Present
    BY <1>5, <2>1 DEF Effect, FreshRow
  <2>3. j.old \cap L = Loaded(j.who) \cap L
    BY <1>1, <1>5, <2>2 DEF FreshSave
  <2> QED
    BY <1>1, <1>5, <2>1, <2>2, <2>3, ListLoaded
<1>6. FreshSave(k)'
  BY <1>1, <1>2, <1>3, <1>4, <1>5 DEF FreshSave, Readdress
<1> QED
  BY <1>6 DEF k

LEMMA FreshKept ==
    ASSUME Types, NEW what \in SUBSET Note, Effect(what), NEW j \in Jobs \ {Idle}, Fresh(j)
    PROVE  Fresh(Told(j, what))'
<1> DEFINE k == Told(j, what)
<1>1. k.op = j.op /\ k.late = j.late \cup what
  BY ToldJob
<1>2. CASE j \in InsertJob
  <2>1. k.email = j.email /\ k.name = j.name /\ j.op = "insert" /\ FreshInsert(j)
    BY <1>2, ByOp DEF Told, InsertJob, Fresh
  <2> HIDE DEF k
  <2>2. FreshInsert(k)'
    BY <1>1, <2>1, EmailKept, NameKept DEF FreshInsert
  <2> QED
    BY <1>1, <2>1, <2>2 DEF Fresh, k
<1>3. ASSUME j.op \in {"update", "save", "delete", "remove"}
      PROVE  FreshRow(k)'
  <2>1. k.who = j.who /\ j.who \in Members /\ FreshRow(j)
    BY <1>3, ByOp DEF Told, UpdateJob, SaveJob, DeleteJob, RemoveJob, Fresh
  <2> HIDE DEF k
  <2> QED
    BY <1>1, <2>1, RowKept DEF FreshRow
<1>4. CASE j \in UpdateJob
  <2>1. k.lists = j.lists /\ k.new = j.new /\ j.op = "update" /\ j.new \subseteq UNION j.lists
    BY <1>4, ByOp DEF Told, UpdateJob, Fresh
  <2> HIDE DEF k
  <2> QED
    BY <1>1, <1>3, <2>1 DEF Fresh, k
<1>5. CASE j \in SaveJob
  <2>1. j.op = "save" /\ FreshRow(j) /\ FreshSave(j)
    BY <1>5, ByOp DEF Fresh
  <2>2. FreshSave(k)'
    BY <1>5, <2>1, FreshSaveKept
  <2> HIDE DEF k
  <2> QED
    BY <1>1, <1>3, <2>1, <2>2 DEF Fresh, k
<1>6. CASE j \in DeleteJob
  <2>1. j.op = "delete"
    BY <1>6, ByOp
  <2> HIDE DEF k
  <2> QED
    BY <1>1, <1>3, <2>1 DEF Fresh, k
<1>7. CASE j \in RemoveJob
  <2>1. j.op = "remove" /\ FreshRow(j) /\ FreshRemove(j)
    BY <1>7, ByOp DEF Fresh
  <2>2. FreshRemove(k)'
    BY <1>7, <2>1, FreshRemoveKept
  <2> HIDE DEF k
  <2> QED
    BY <1>1, <1>3, <2>1, <2>2 DEF Fresh, k
<1> QED
  BY <1>2, <1>4, <1>5, <1>6, <1>7 DEF Jobs

(* A write of thread t, or of nobody's, leaves the others fresh and t idle.*)
LEMMA TellKeeps ==
    ASSUME Types, AllFresh, NEW t, NEW what \in SUBSET Note, Effect(what), job' = Tell(t, what)
    PROVE  job' \in [Threads -> Jobs] /\ AllFresh'
<1>1. ASSUME NEW u \in Threads, NEW k, k = job'[u]
      PROVE  k \in Jobs /\ Fresh(k)'
  <2>1. CASE u = t \/ job[u] = Idle
    <3>1. k = Idle
      BY <1>1, <2>1 DEF Tell
    <3> QED
      BY <3>1, NotIdle DEF Fresh, Jobs
  <2>2. CASE u # t /\ job[u] # Idle
    <3>1. PICK j \in Jobs \ {Idle} : j = job[u]
      BY <2>2 DEF Types
    <3>2. k = Told(j, what)
      BY <1>1, <2>2, <3>1 DEF Tell, Told
    <3>3. Fresh(j)
      BY <3>1 DEF AllFresh
    <3>4. Fresh(Told(j, what))'
      BY <3>3, FreshKept
    <3> QED
      BY <3>2, <3>4, ToldJob
  <2> QED
    BY <2>1, <2>2
<1> QED
  BY <1>1 DEF Tell, AllFresh

-----------------------------------------------------------------------------
(* Requests that only read.                                                *)

LEMMA NothingWritten ==
    ASSUME UNCHANGED <<rows, held, att>>
    PROVE  Effect({}) /\ (\A j : Fresh(j) => Fresh(j)')
<1>1. Effect({})
  BY DEF Effect, Present
<1>2. ASSUME NEW j, Fresh(j)
      PROVE  Fresh(j)'
  BY <1>2 DEF Fresh, FreshRow, FreshInsert, FreshSave, FreshRemove, EmailInUse, NameTaken,
              Present, Loaded
<1> QED
  BY <1>1, <1>2

LEMMA ReadKeeps ==
    ASSUME IInv, UNCHANGED <<data, marks, raced, failed>>, reads' \in 0 .. MaxRequests,
           NEW t \in Threads, NEW j \in Jobs, Fresh(j), job' = [job EXCEPT ![t] = j]
    PROVE  IInv'
<1> USE DEF data
<1>1. job' \in [Threads -> Jobs]
  BY DEF IInv, Types
<1>2. TypeOK'
  <2>1. \A u \in Threads : \/ job'[u] = Idle
                           \/ /\ job'[u].op \in {"insert", "update", "save", "delete", "remove"}
                              /\ job'[u].late \subseteq Note
    BY <1>1 DEF Jobs, InsertJob, UpdateJob, SaveJob, DeleteJob, RemoveJob
  <2> QED
    BY <2>1 DEF IInv, Types, TypeOK, Present, Loaded
<1>3. Types'
  BY <1>1, <1>2 DEF IInv, Types
<1>4. AllFresh'
  <2>1. ASSUME NEW u \in Threads, NEW k, k = job'[u]
        PROVE  Fresh(k)'
    <3>1. k = j \/ k = job[u]
      BY <2>1 DEF IInv, Types
    <3>2. Fresh(k)
      BY <3>1 DEF IInv, AllFresh
    <3> QED
      BY <3>2, NothingWritten
  <2> QED
    BY <2>1 DEF AllFresh
<1>5. Properties'
  BY DEF IInv, Properties, NameClashOnlyIfRaced, GrantsAreAsAsked, ErrorsHaveACause, Present
<1> QED
  BY <1>3, <1>4, <1>5 DEF IInv

LEMMA BeginKeeps ==
    ASSUME IInv, NEW t \in Threads, NEW j \in Jobs, Fresh(j), Begin(t, j)
    PROVE  IInv'
<1>1. reads' \in 0 .. MaxRequests
  BY DirectoryAssumption DEF IInv, Types, TypeOK, Begin
<1>2. UNCHANGED <<data, marks, raced, failed>> /\ job' = [job EXCEPT ![t] = j]
  BY DEF Begin
<1> QED
  BY <1>1, <1>2, ReadKeeps

LEMMA CreateKeeps ==
    ASSUME IInv, NEW t \in Threads, Create(t)
    PROVE  IInv'
<1>1. PICK b \in Creations : /\ ~EmailTaken(None, b.email) /\ ~NameTaken(None, b.name)
                             /\ Begin(t, [op |-> "insert", email |-> b.email, name |-> b.name,
                                          number |-> b.number,
                                          new |-> IF b.grants \cap Permissions = {}
                                                  THEN b.grants \cup Default ELSE b.grants,
                                          late |-> {}])
  BY DEF Create
<1> DEFINE j == [op |-> "insert", email |-> b.email, name |-> b.name, number |-> b.number,
                 new |-> IF b.grants \cap Permissions = {}
                         THEN b.grants \cup Default ELSE b.grants,
                 late |-> {}]
<1>2. b \in MemberCreate
  BY DirectoryAssumption
<1>3. j \in InsertJob
  BY <1>2, DirectoryAssumption DEF InsertJob, MemberCreate, Grants
<1>4. Fresh(j)
  <2>1. j.op = "insert" /\ j.email = b.email /\ j.name = b.name
    OBVIOUS
  <2> HIDE DEF j
  <2> QED
    BY <1>1, <2>1 DEF Fresh, FreshInsert, EmailTaken
<1>5. Begin(t, j)
  BY <1>1
<1> HIDE DEF j
<1> QED
  BY <1>3, <1>4, <1>5, BeginKeeps DEF Jobs

LEMMA ChangeKeeps ==
    ASSUME IInv, NEW t \in Threads, NEW m \in Members,
           NEW b \in MemberUpdate \cup ProfileUpdate, Change(t, m, b)
    PROVE  IInv'
<1> DEFINE j == [op |-> "update", who |-> m, read |-> rows[m],
                 email |-> IF b.email = Unset THEN rows[m].email ELSE b.email,
                 name |-> b.name, number |-> b.number,
                 lists |-> b.lists, new |-> b.new, late |-> {}]
<1>1. /\ b.email \in Emails \cup {Unset} /\ b.name \in Names \cup {None, Unset}
      /\ b.number \in Numbers \cup {None, Unset}
      /\ b.lists \in SUBSET Lists /\ b.new \in SUBSET UNION b.lists
  BY DEF MemberUpdate, ProfileUpdate
<1>2. m \in Present /\ rows[m] \in Row /\ rows[m].email \in Emails /\ rows[m] # Unborn
  BY DirectoryAssumption DEF Change, Present, Row
<1>3. b.new \subseteq Grants
  BY <1>1, ListsOK
<1>a. j \in UpdateJob
  <2>1. j.email \in Emails
    BY <1>1, <1>2
  <2> QED
    BY <1>1, <1>2, <1>3, <2>1 DEF UpdateJob
<1>4. PICK k \in UpdateJob : k = j
  BY <1>a, Zenon
<1>5. k.op = "update" /\ k.who = m /\ k.lists = b.lists /\ k.new = b.new
  BY <1>4
<1>6. Fresh(k)
  BY <1>1, <1>2, <1>5 DEF Fresh, FreshRow
<1>7. Begin(t, k)
  BY <1>4 DEF Change
<1> QED
  BY <1>6, <1>7, BeginKeeps DEF Jobs

LEMMA DeleteKeeps ==
    ASSUME IInv, NEW t \in Threads, Delete(t)
    PROVE  IInv'
<1>1. PICK m \in Present : Begin(t, [op |-> "delete", who |-> m, late |-> {}])
  BY DEF Delete
<1>2. m \in Members /\ rows[m] # Unborn
  BY DirectoryAssumption DEF Present
<1> DEFINE j == [op |-> "delete", who |-> m, late |-> {}]
<1>3. j \in DeleteJob /\ j.op = "delete" /\ j.who = m
  BY <1>2 DEF DeleteJob
<1>4. Begin(t, j)
  BY <1>1
<1> HIDE DEF j
<1>5. Fresh(j)
  BY <1>2, <1>3 DEF Fresh, FreshRow
<1> QED
  BY <1>3, <1>4, <1>5, BeginKeeps DEF Jobs

LEMMA UpdateCheckKeeps ==
    ASSUME IInv, NEW t \in Threads, UpdateCheck(t)
    PROVE  IInv'
<1>1. PICK j : j = job[t]
  OBVIOUS
<1>2. j \in UpdateJob /\ Fresh(j) /\ j.op = "update"
  BY <1>1, ByOp DEF IInv, Types, AllFresh, UpdateCheck
<1>3. /\ j.who \in Members /\ j.read \in Row /\ j.email \in Emails
      /\ j.name \in Names \cup {None, Unset} /\ j.number \in Numbers \cup {None, Unset}
      /\ j.lists \in SUBSET Lists /\ j.new \in SUBSET Grants /\ j.late \in SUBSET Note
  BY <1>2 DEF UpdateJob
<1> DEFINE save == [op |-> "save", who |-> j.who, read |-> j.read, email |-> j.email,
                    name |-> j.name, number |-> j.number, lists |-> j.lists,
                    old |-> Loaded(j.who) \cap UNION j.lists, new |-> j.new, late |-> j.late]
           refused == \/ j.email # j.read.email /\ EmailTaken(j.who, j.email)
                      \/ NameTaken(j.who, j.name)
<1>4. /\ job' = [job EXCEPT ![t] = IF refused THEN Idle ELSE save]
      /\ UNCHANGED <<data, reads, marks, raced, failed>>
  BY <1>1 DEF UpdateCheck
<1>5. reads' \in 0 .. MaxRequests
  BY <1>4 DEF IInv, Types, TypeOK
<1>6. CASE refused
  <2>1. Idle \in Jobs /\ Fresh(Idle) /\ job' = [job EXCEPT ![t] = Idle]
    BY <1>4, <1>6, NotIdle DEF Jobs, Fresh
  <2> QED
    BY <1>4, <1>5, <2>1, ReadKeeps
<1>7. CASE ~refused
  <2>1. save \in SaveJob
    <3>1. Loaded(j.who) \cap UNION j.lists \in SUBSET Grants
      BY DEF Loaded
    <3> QED
      BY <1>3, <3>1 DEF SaveJob
  <2>2. PICK k \in SaveJob : k = save
    BY <2>1, Zenon
  <2>3. /\ k.op = "save" /\ k.who = j.who /\ k.read = j.read /\ k.email = j.email
        /\ k.name = j.name /\ k.lists = j.lists /\ k.new = j.new /\ k.late = j.late
        /\ k.old = Loaded(j.who) \cap UNION j.lists
    BY <2>2
  <2>4. FreshRow(k) /\ k.new \subseteq UNION k.lists
    BY <1>2, <2>3 DEF Fresh, FreshRow
  <2>5. FreshSave(k)
    <3>1. ~(Readdress(k) /\ EmailInUse(k.who, k.email)) /\ ~NameTaken(k.who, k.name)
      BY <1>7, <2>3 DEF Readdress, EmailTaken
    <3>2. \A L \in k.lists : k.old \cap L = Loaded(k.who) \cap L
      BY <2>3
    <3> QED
      BY <2>3, <2>4, <3>1, <3>2 DEF FreshSave
  <2>6. Fresh(k)
    BY <2>3, <2>4, <2>5 DEF Fresh
  <2>7. job' = [job EXCEPT ![t] = k] /\ k \in Jobs
    BY <1>4, <1>7, <2>2 DEF Jobs
  <2> QED
    BY <1>4, <1>5, <2>6, <2>7, ReadKeeps
<1> QED
  BY <1>6, <1>7

LEMMA DeleteLoadKeeps ==
    ASSUME IInv, NEW t \in Threads, DeleteLoad(t)
    PROVE  IInv'
<1>1. PICK j : j = job[t]
  OBVIOUS
<1>2. j \in DeleteJob /\ Fresh(j) /\ j.op = "delete"
  BY <1>1, ByOp DEF IInv, Types, AllFresh, DeleteLoad
<1>3. j.who \in Members /\ j.late \in SUBSET Note /\ FreshRow(j)
  BY <1>2 DEF DeleteJob, Fresh
<1> DEFINE remove == [op |-> "remove", who |-> j.who, old |-> Loaded(j.who),
                      att |-> {a \in att : a.member = j.who}, late |-> j.late]
<1>4. /\ job' = [job EXCEPT ![t] = remove]
      /\ UNCHANGED <<data, reads, marks, raced, failed>>
  BY <1>1 DEF DeleteLoad
<1>5. reads' \in 0 .. MaxRequests
  BY <1>4 DEF IInv, Types, TypeOK
<1>6. remove \in RemoveJob
  BY <1>3 DEF RemoveJob, Loaded, IInv, Types
<1>7. PICK k \in RemoveJob : k = remove
  BY <1>6, Zenon
<1>8. /\ k.op = "remove" /\ k.who = j.who /\ k.old = Loaded(j.who) /\ k.late = j.late
      /\ k.att = {a \in att : a.member = j.who}
  BY <1>7
<1>9. Fresh(k)
  BY <1>3, <1>8 DEF Fresh, FreshRow, FreshRemove
<1>10. job' = [job EXCEPT ![t] = k] /\ k \in Jobs
  BY <1>4, <1>7 DEF Jobs
<1> QED
  BY <1>4, <1>5, <1>9, <1>10, ReadKeeps

-----------------------------------------------------------------------------
(* Requests that write.                                                    *)

WriteJob == InsertJob \cup SaveJob \cup RemoveJob

LEMMA WritesOK ==
    ASSUME NEW j \in WriteJob
    PROVE  Writes(j) \subseteq Note /\ Crossed(j) \subseteq Note
<1>1. CASE j \in InsertJob
  <2>1. j.op = "insert" /\ j.email \in Emails /\ j.name \in Names \cup {None}
    BY <1>1 DEF InsertJob
  <2>2. Writes(j) = {<<"email", j.email>>, <<"name", j.name>>}
    BY <2>1 DEF Writes
  <2> QED
    BY <2>1, <2>2 DEF Note, Crossed
<1>2. CASE j \in SaveJob
  <2>1. /\ j.op = "save" /\ j.who \in Members /\ j.lists \subseteq Lists
        /\ j.email \in Emails /\ j.name \in Names \cup {None, Unset}
    BY <1>2 DEF SaveJob
  <2>2. Writes(j) = {<<"row", j.who>>} \cup {<<"list", j.who, L>> : L \in j.lists}
                    \cup (IF Renames(j) THEN {<<"name", j.name>>} ELSE {})
                    \cup (IF Readdress(j) THEN {<<"email", j.email>>} ELSE {})
    BY <2>1 DEF Writes
  <2>3. Renames(j) => j.name \in Names \cup {None}
    BY <2>1 DEF Renames
  <2> QED
    BY <2>1, <2>2, <2>3 DEF Note, Crossed
<1>3. CASE j \in RemoveJob
  <2>1. j.op = "remove" /\ j.who \in Members
    BY <1>3 DEF RemoveJob
  <2>2. Writes(j) = {<<"row", j.who>>, <<"marks", j.who>>}
    BY <2>1 DEF Writes
  <2> QED
    BY <2>1, <2>2 DEF Note, Crossed
<1> QED
  BY <1>1, <1>2, <1>3 DEF WriteJob

LEMMA LateOK ==
    ASSUME NEW f, f \in [Threads -> Jobs], NEW u \in Threads
    PROVE  \/ f[u] = Idle
           \/ /\ f[u].op \in {"insert", "update", "save", "delete", "remove"}
              /\ f[u].late \subseteq Note
BY DEF Jobs, InsertJob, UpdateJob, SaveJob, DeleteJob, RemoveJob

(* The end of a request that has written.                                  *)
LEMMA DoneOK ==
    ASSUME IInv, NEW t \in Threads, NEW j \in WriteJob, j = job[t], Done(t, TRUE),
           Effect(Writes(j))
    PROVE  /\ job' \in [Threads -> Jobs] /\ AllFresh'
           /\ raced' = raced \cup Crossed(j) /\ raced' \subseteq Note
           /\ reads' = reads /\ marks' = marks
<1>1. /\ job' = Tell(t, Writes(j)) /\ raced' = raced \cup Crossed(j)
      /\ reads' = reads /\ marks' = marks
  BY DEF Done
<1>2. job' \in [Threads -> Jobs] /\ AllFresh'
  BY <1>1, WritesOK, TellKeeps DEF IInv
<1> QED
  BY <1>1, <1>2, WritesOK DEF IInv, Types, TypeOK

LEMMA FailKeeps ==
    ASSUME IInv, NEW t \in Threads, NEW j \in WriteJob, j = job[t],
           NEW m \in Members \cup {None}, Fail(t, m),
           \/ Writes(j) \cap j.late # {}
           \/ NumberInUse(m, NewNumber(j))
           \/ j.op = "remove" /\ \E a \in att : a.by = m
           \/ m # None /\ \E g \in Grants : held[m][g] > 1
    PROVE  IInv'
<1> DEFINE f == [op |-> j.op, beside |-> Writes(j) \cap j.late # {},
                 number  |-> NumberInUse(m, NewNumber(j)),
                 marked  |-> j.op = "remove" /\ \E a \in att : a.by = m,
                 doubled |-> m # None /\ \E g \in Grants : held[m][g] > 1]
<1>1. /\ job' = Tell(t, {}) /\ raced' = raced /\ UNCHANGED <<reads, marks>>
      /\ failed' = failed \cup {f} /\ UNCHANGED <<rows, held, att, asked>>
  BY DEF Fail, Done, data
<1>2. job' \in [Threads -> Jobs] /\ AllFresh'
  BY <1>1, NothingWritten, TellKeeps DEF IInv
<1>3. /\ f \in [op : {"insert", "save", "remove"}, beside : BOOLEAN,
                number : BOOLEAN, marked : BOOLEAN, doubled : BOOLEAN]
      /\ f.beside \/ f.number \/ f.marked \/ f.doubled
  <2>1. j.op \in {"insert", "save", "remove"}
    BY DEF WriteJob, InsertJob, SaveJob, RemoveJob
  <2>2. NumberInUse(m, NewNumber(j)) \in BOOLEAN
    BY DEF NumberInUse
  <2> QED
    BY <2>1, <2>2
<1> HIDE DEF f
<1>4. TypeOK'
  BY <1>1, <1>2, <1>3, LateOK DEF IInv, Types, TypeOK, Present, Loaded
<1>5. Properties'
  <2>1. NameClashOnlyIfRaced' /\ GrantsAreAsAsked'
    BY <1>1 DEF IInv, Properties, NameClashOnlyIfRaced, GrantsAreAsAsked, Present
  <2>2. ErrorsHaveACause'
    BY <1>1, <1>3 DEF IInv, Properties, ErrorsHaveACause
  <2> QED
    BY <2>1, <2>2 DEF Properties
<1> QED
  BY <1>1, <1>2, <1>4, <1>5 DEF IInv, Types

(* Rows one by one match.                                                  *)
LEMMA OnceEach ==
    ASSUME Types, NEW m \in Members, NEW gone \in SUBSET Grants, \A g \in gone : held[m][g] = 1
    PROVE  CountsMatch(m, gone)
<1> SUFFICES ASSUME NEW L \in Lists
             PROVE  Cardinality(Associations(m, gone \cap L)) = Cardinality(gone \cap L)
  BY DEF CountsMatch
<1> DEFINE S == gone \cap L
           A == Associations(m, S)
           f == [g \in S |-> <<g, 1>>]
<1>1. IsFiniteSet(S)
  BY FS_Subset, DirectoryAssumption
<1>2. A = {<<g, 1>> : g \in S}
  <2>1. \A g \in S : {g} \X (1 .. held[m][g]) = {<<g, 1>>}
    OBVIOUS
  <2> QED
    BY <2>1 DEF Associations
<1>3. f \in Bijection(S, A)
  <2>1. f \in [S -> A]
    BY <1>2
  <2>2. \A x, y \in S : f[x] = f[y] => x = y
    OBVIOUS
  <2>3. \A p \in A : \E x \in S : f[x] = p
    BY <1>2
  <2> QED
    BY <2>1, <2>2, <2>3, Fun_IsBij
<1>4. ExistsBijection(S, A)
  BY <1>3 DEF ExistsBijection
<1> QED
  BY <1>1, <1>4, FS_Bijection

LEMMA InsertKeeps ==
    ASSUME IInv, NEW t \in Threads, Insert(t)
    PROVE  IInv'
<1>1. PICK j : j = job[t]
  OBVIOUS
<1>2. j \in InsertJob /\ j \in WriteJob /\ FreshInsert(j)
  BY <1>1, ByOp DEF IInv, Types, AllFresh, Insert, Fresh, WriteJob
<1>3. /\ j.op = "insert" /\ j.email \in Emails /\ j.name \in Names \cup {None}
      /\ j.number \in Numbers \cup {None} /\ j.new \subseteq Grants
  BY <1>2 DEF InsertJob
<1>4. Writes(j) = {<<"email", j.email>>, <<"name", j.name>>}
  BY <1>3 DEF Writes
<1>5. CASE EmailInUse(None, j.email)
  <2>1. Fail(t, None)
    BY <1>1, <1>5 DEF Insert
  <2>2. <<"email", j.email>> \in Writes(j) \cap j.late
    BY <1>2, <1>4, <1>5 DEF FreshInsert
  <2>3. Writes(j) \cap j.late # {}
    BY <2>2
  <2> QED
    BY <1>1, <1>2, <2>1, <2>3, FailKeeps
<1>6. CASE NumberInUse(None, j.number)
  <2>1. Fail(t, None)
    BY <1>1, <1>6 DEF Insert
  <2>2. NumberInUse(None, NewNumber(j))
    BY <1>3, <1>6 DEF NewNumber
  <2> QED
    BY <1>1, <1>2, <2>1, <2>2, FailKeeps
<1>7. CASE ~EmailInUse(None, j.email) /\ ~NumberInUse(None, j.number)
  <2>1. PICK m \in Members :
            /\ rows[m] = Unborn
            /\ rows' = [rows EXCEPT ![m] =
                   [email |-> j.email, name |-> j.name, number |-> j.number]]
            /\ held' = [held EXCEPT ![m] = [g \in Grants |-> IF g \in j.new THEN 1 ELSE 0]]
            /\ asked' = [asked EXCEPT ![m] = j.new]
            /\ UNCHANGED <<att, failed>>
            /\ Done(t, TRUE)
    BY <1>1, <1>7 DEF Insert
  <2>2. /\ rows'[m] \in Row /\ rows'[m].email = j.email /\ rows'[m].name = j.name
        /\ held'[m] = [g \in Grants |-> IF g \in j.new THEN 1 ELSE 0]
        /\ asked'[m] = j.new
        /\ \A n \in Members \ {m} : /\ rows'[n] = rows[n] /\ held'[n] = held[n]
                                    /\ asked'[n] = asked[n]
    BY <1>3, <2>1 DEF IInv, Types, TypeOK, Row
  <2>3. m \notin Present /\ Present' = Present \cup {m} /\ Unborn \notin Row
    BY <2>1, <2>2, DirectoryAssumption DEF Present
  <2>4. Effect(Writes(j))
    BY <1>4, <2>1, <2>2, <2>3 DEF Effect
  <2>5. /\ job' \in [Threads -> Jobs] /\ AllFresh'
        /\ raced' = raced \cup Crossed(j) /\ raced' \subseteq Note
        /\ reads' = reads /\ marks' = marks
    BY <1>1, <1>2, <2>1, <2>4, DoneOK
  <2>6. TypeOK'
    <3>1. rows' \in [Members -> Row \cup {Unborn, Gone}] /\ held' \in [Members -> [Grants -> Nat]]
      BY <2>1, <2>2 DEF IInv, Types, TypeOK
    <3>2. \A n \in Members \ Present' : Loaded(n)' = {}
      BY <2>2, <2>3 DEF IInv, Types, TypeOK, Loaded
    <3>3. asked' \in [Members -> SUBSET Grants]
      BY <1>3, <2>1 DEF IInv, Types, TypeOK
    <3> QED
      BY <2>1, <2>3, <2>5, <3>1, <3>2, <3>3, LateOK DEF IInv, Types, TypeOK
  <2>7. NameClashOnlyIfRaced'
    <3>1. ASSUME NEW o \in Present, rows[o].name = j.name, j.name # None
          PROVE  <<"name", j.name>> \in raced'
      <4>1. NameTaken(None, j.name)
        BY <1>3, <3>1, DirectoryAssumption DEF NameTaken, Present
      <4>2. <<"name", j.name>> \in Writes(j) \cap j.late
        BY <1>2, <1>4, <4>1 DEF FreshInsert
      <4> QED
        BY <2>5, <3>1, <4>2 DEF Crossed
    <3>2. ASSUME NEW n \in Present, NEW o \in Present, n # o, rows[n].name = rows[o].name,
                 rows[n].name # None
          PROVE  <<"name", rows[n].name>> \in raced'
      BY <2>5, <3>2 DEF IInv, Properties, NameClashOnlyIfRaced
    <3> QED
      BY <2>2, <2>3, <3>1, <3>2 DEF NameClashOnlyIfRaced, Present
  <2>8. GrantsAreAsAsked'
    <3> SUFFICES ASSUME NEW n \in Present', NEW L \in Lists, <<"list", n, L>> \notin raced',
                        NEW g \in L
                 PROVE  held'[n][g] = IF g \in asked'[n] THEN 1 ELSE 0
      BY DEF GrantsAreAsAsked
    <3>1. CASE n = m
      BY <2>2, <3>1, ListsOK
    <3>2. CASE n # m
      BY <2>2, <2>3, <2>5, <3>2 DEF IInv, Properties, GrantsAreAsAsked, Present
    <3> QED
      BY <3>1, <3>2
  <2>9. ErrorsHaveACause'
    BY <2>1 DEF IInv, Properties, ErrorsHaveACause
  <2> QED
    BY <2>1, <2>5, <2>6, <2>7, <2>8, <2>9 DEF IInv, Types, Properties
<1> QED
  BY <1>5, <1>6, <1>7

(* Attendance marked and unmarked.                                         *)
LEMMA AttendanceKeeps ==
    ASSUME IInv, UNCHANGED <<rows, held, reads, asked, raced, failed>>, NEW what \in SUBSET Note,
           Effect(what), job' = Tell(None, what), marks' \in 0 .. MaxMarks,
           att' \subseteq Attendance,
           \A a \in att' : a.no \in 0 .. (marks' - 1) /\ {a.member, a.by} \subseteq Present \cup {None}
    PROVE  IInv'
<1>1. job' \in [Threads -> Jobs] /\ AllFresh'
  BY TellKeeps DEF IInv
<1>2. TypeOK'
  BY <1>1, LateOK DEF IInv, Types, TypeOK, Present, Loaded
<1>3. Properties'
  BY DEF IInv, Properties, NameClashOnlyIfRaced, GrantsAreAsAsked, ErrorsHaveACause, Present
<1> QED
  BY <1>1, <1>2, <1>3 DEF IInv, Types

LEMMA MarkKeeps ==
    ASSUME IInv, Mark
    PROVE  IInv'
<1>1. PICK m \in Present, by \in Present \cup {None} :
          /\ att' = att \cup {[no |-> marks, member |-> m, by |-> by]}
          /\ job' = Tell(None, {<<"marks", m>>, <<"marks", by>>})
  BY DEF Mark
<1>2. /\ marks' = marks + 1 /\ marks < MaxMarks
      /\ UNCHANGED <<rows, held, reads, asked, raced, failed>>
  BY DEF Mark
<1> DEFINE what == {<<"marks", m>>, <<"marks", by>>}
           a == [no |-> marks, member |-> m, by |-> by]
<1>3. what \in SUBSET Note /\ m \in Members
  BY DEF Note, Present
<1>4. a \in Attendance /\ a.no = marks /\ a.member = m /\ a.by = by
  BY DEF Attendance, IInv, Types, TypeOK, Present
<1>5. att' = att \cup {a}
  BY <1>1
<1> HIDE DEF a
<1>6. Effect(what)
  <2>1. \A n \in Members \ {m} : {b \in att' : b.member = n} = {b \in att : b.member = n}
    BY <1>4, <1>5
  <2> QED
    BY <1>2, <2>1 DEF Effect, Present
<1>7. marks \in Nat /\ MaxMarks \in Nat /\ marks' \in 0 .. MaxMarks
  BY <1>2, DirectoryAssumption DEF IInv, Types, TypeOK
<1>8. att' \subseteq Attendance
  BY <1>4, <1>5 DEF IInv, Types
<1>9. \A b \in att' : b.no \in 0 .. (marks' - 1) /\ {b.member, b.by} \subseteq Present \cup {None}
  BY <1>2, <1>4, <1>5, <1>7 DEF IInv, Types, TypeOK
<1> HIDE DEF what
<1> QED
  BY <1>1, <1>2, <1>3, <1>6, <1>7, <1>8, <1>9, AttendanceKeeps DEF what

LEMMA UnmarkKeeps ==
    ASSUME IInv, Unmark
    PROVE  IInv'
<1>1. PICK a \in att :
          /\ att' = att \ {a}
          /\ job' = Tell(None, {<<"marks", a.member>>, <<"marks", a.by>>})
          /\ UNCHANGED <<rows, held, reads, marks, asked, raced, failed>>
  BY DEF Unmark
<1> DEFINE what == {<<"marks", a.member>>, <<"marks", a.by>>}
<1>2. a.member \in Members \cup {None} /\ a.by \in Members \cup {None}
  BY DEF IInv, Types, Attendance
<1>3. what \in SUBSET Note
  BY <1>2 DEF Note
<1>4. Effect(what)
  <2>1. \A n \in Members \ {a.member} : {b \in att' : b.member = n} = {b \in att : b.member = n}
    BY <1>1
  <2> QED
    BY <1>1, <2>1 DEF Effect, Present
<1>5. /\ marks' \in 0 .. MaxMarks /\ att' \subseteq Attendance
      /\ \A b \in att' : /\ b.no \in 0 .. (marks' - 1)
                         /\ {b.member, b.by} \subseteq Present \cup {None}
  BY <1>1 DEF IInv, Types, TypeOK
<1> HIDE DEF what
<1> QED
  BY <1>1, <1>3, <1>4, <1>5, AttendanceKeeps DEF what

-----------------------------------------------------------------------------
(* The update of a member, and the deletion.                               *)

LEMMA SaveWrites ==
    ASSUME NEW j \in SaveJob
    PROVE  Writes(j) = {<<"row", j.who>>} \cup {<<"list", j.who, L>> : L \in j.lists}
                       \cup (IF Renames(j) THEN {<<"name", j.name>>} ELSE {})
                       \cup (IF Readdress(j) THEN {<<"email", j.email>>} ELSE {})
<1>1. j.op = "save"
  BY DEF SaveJob
<1> QED
  BY <1>1 DEF Writes

(* A grant that is loaded once, and not more, is held once.                *)
LEMMA LoadedOnce ==
    ASSUME Types, NEW m \in Members, NEW g \in Loaded(m), ~(held[m][g] > 1)
    PROVE  held[m][g] = 1
BY DEF Types, TypeOK, Loaded

LEMMA SaveRefused ==
    ASSUME Types, NEW j \in SaveJob, FreshRow(j), FreshSave(j),
           ~(/\ j.who \in Present
             /\ Readdress(j) => ~EmailInUse(j.who, j.email)
             /\ ~NumberInUse(j.who, NewNumber(j))
             /\ CountsMatch(j.who, j.old \ j.new))
    PROVE  \/ Writes(j) \cap j.late # {}
           \/ NumberInUse(j.who, NewNumber(j))
           \/ \E g \in Grants : held[j.who][g] > 1
<1>0. j.who \in Members /\ j.old \subseteq Grants /\ j.lists \subseteq Lists
  BY DEF SaveJob
<1>1. CASE j.who \notin Present
  BY <1>1, SaveWrites DEF FreshRow
<1>2. CASE Readdress(j) /\ EmailInUse(j.who, j.email)
  BY <1>2, SaveWrites DEF FreshSave
<1>3. CASE j.who \in Present /\ ~CountsMatch(j.who, j.old \ j.new)
  <2>1. PICK g \in j.old \ j.new : held[j.who][g] # 1
    BY <1>0, <1>3, OnceEach
  <2>2. PICK L \in j.lists : g \in L
    BY <2>1 DEF FreshSave
  <2>3. CASE <<"list", j.who, L>> \in j.late
    BY <2>2, <2>3, SaveWrites
  <2>4. CASE <<"list", j.who, L>> \notin j.late
    <3>1. g \in Loaded(j.who)
      BY <1>3, <2>1, <2>2, <2>4 DEF FreshSave
    <3> QED
      BY <1>0, <2>1, <3>1, LoadedOnce DEF Loaded
  <2> QED
    BY <2>3, <2>4
<1> QED
  BY <1>1, <1>2, <1>3

LEMMA SaveKeeps ==
    ASSUME IInv, NEW t \in Threads, Save(t)
    PROVE  IInv'
<1>1. PICK j : j = job[t]
  OBVIOUS
<1>2. j \in SaveJob /\ j \in WriteJob /\ FreshRow(j) /\ FreshSave(j)
  BY <1>1, ByOp DEF IInv, Types, AllFresh, Save, Fresh, WriteJob
<1>3. /\ j.op = "save" /\ j.who \in Members /\ j.read \in Row /\ j.email \in Emails
      /\ j.name \in Names \cup {None, Unset} /\ j.lists \subseteq Lists
      /\ j.number \in Numbers \cup {None, Unset}
      /\ j.old \subseteq Grants /\ j.new \subseteq Grants
  BY <1>2 DEF SaveJob
<1> DEFINE ok == /\ j.who \in Present
                 /\ Readdress(j) => ~EmailInUse(j.who, j.email)
                 /\ ~NumberInUse(j.who, NewNumber(j))
                 /\ CountsMatch(j.who, j.old \ j.new)
<1>4. CASE ~ok
  <2>1. Fail(t, j.who)
    BY <1>1, <1>4 DEF Save
  <2>2. \/ Writes(j) \cap j.late # {}
        \/ NumberInUse(j.who, NewNumber(j))
        \/ \E g \in Grants : held[j.who][g] > 1
    BY <1>2, <1>4, SaveRefused DEF IInv
  <2>3. j.who # None
    BY <1>3, DirectoryAssumption
  <2> QED
    BY <1>1, <1>2, <1>3, <2>1, <2>2, <2>3, FailKeeps
<1>5. CASE ok
  <2>1. /\ rows' = [rows EXCEPT ![j.who] =
                       [email  |-> IF Readdress(j) THEN j.email ELSE rows[j.who].email,
                        name   |-> IF Renames(j) THEN j.name ELSE rows[j.who].name,
                        number |-> IF Renumbers(j) THEN j.number ELSE rows[j.who].number]]
        /\ held' = [held EXCEPT ![j.who] = [g \in Grants |-> Granted(j, g)]]
        /\ asked' = [asked EXCEPT ![j.who] = (asked[j.who] \ UNION j.lists) \cup j.new]
        /\ UNCHANGED <<att, failed>>
        /\ Done(t, TRUE)
    BY <1>1, <1>5 DEF Save, IInv, Types, TypeOK
  <2>w. j.who \in Present /\ rows[j.who] \in Row
    BY <1>5 DEF Present
  <2>2. /\ rows'[j.who].email = IF Readdress(j) THEN j.email ELSE rows[j.who].email
        /\ rows'[j.who].name = IF Renames(j) THEN j.name ELSE rows[j.who].name
        /\ rows'[j.who] \in Row
        /\ \A n \in Members \ {j.who} : rows'[n] = rows[n]
    <3>1. /\ rows[j.who].email \in Emails /\ rows[j.who].name \in Names \cup {None}
          /\ rows[j.who].number \in Numbers \cup {None}
      BY <2>w DEF Row
    <3>2. /\ Renames(j) => j.name \in Names \cup {None}
          /\ Renumbers(j) => j.number \in Numbers \cup {None}
      BY <1>3 DEF Renames, Renumbers
    <3> QED
      BY <1>3, <2>1, <3>1, <3>2 DEF IInv, Types, TypeOK, Row
  <2>3. /\ \A g \in Grants : held'[j.who][g] = Granted(j, g)
        /\ asked'[j.who] = (asked[j.who] \ UNION j.lists) \cup j.new
        /\ \A n \in Members \ {j.who} : held'[n] = held[n] /\ asked'[n] = asked[n]
    BY <1>3, <2>1 DEF IInv, Types, TypeOK
  <2>4. Present' = Present /\ Unborn \notin Row
    BY <2>w, <2>2, DirectoryAssumption DEF Present
  <2>5. \A L \in Lists : \A g \in L : L \notin j.lists =>
            held'[j.who][g] = held[j.who][g] /\ g \notin UNION j.lists
    <3> SUFFICES ASSUME NEW L \in Lists, NEW g \in L, L \notin j.lists
                 PROVE  held'[j.who][g] = held[j.who][g] /\ g \notin UNION j.lists
      OBVIOUS
    <3>1. g \in Grants /\ g \notin UNION j.lists
      BY <1>3, ListsOK, ListsApart
    <3>2. g \notin j.old \cup j.new
      BY <1>2, <3>1 DEF FreshSave
    <3> QED
      BY <2>3, <3>1, <3>2 DEF Granted
  <2>6. Effect(Writes(j))
    <3>1. <<"row", j.who>> \in Writes(j) /\ \A L \in j.lists : <<"list", j.who, L>> \in Writes(j)
      BY <1>2, SaveWrites
    <3>2. Readdress(j) => <<"email", j.email>> \in Writes(j)
      BY <1>2, SaveWrites
    <3>3. Renames(j) => <<"name", j.name>> \in Writes(j)
      BY <1>2, SaveWrites
    <3>4. \A m \in Members : rows[m] # Unborn => /\ rows'[m] # Unborn
                                                 /\ m \notin Present => m \notin Present'
      BY <2>2, <2>4
    <3>5. \A m \in Present' : /\ \/ m \in Present /\ rows'[m].email = rows[m].email
                                 \/ <<"email", rows'[m].email>> \in Writes(j)
                              /\ \/ m \in Present /\ rows'[m].name = rows[m].name
                                 \/ <<"name", rows'[m].name>> \in Writes(j)
      BY <2>2, <2>4, <3>2, <3>3 DEF Present
    <3>6. \A m \in Present : \/ m \in Present' /\ held'[m] = held[m]
                             \/ <<"row", m>> \in Writes(j)
      BY <2>3, <2>4, <3>1 DEF Present
    <3>7. \A m \in Present, L \in Lists : \/ m \notin Present'
                                          \/ \A g \in L : held'[m][g] = held[m][g]
                                          \/ <<"list", m, L>> \in Writes(j)
      BY <2>3, <2>5, <3>1 DEF Present
    <3> QED
      BY <2>1, <3>4, <3>5, <3>6, <3>7 DEF Effect
  <2>7. /\ job' \in [Threads -> Jobs] /\ AllFresh'
        /\ raced' = raced \cup Crossed(j) /\ raced' \subseteq Note
        /\ reads' = reads /\ marks' = marks
    BY <1>1, <1>2, <2>1, <2>6, DoneOK
  <2>8. TypeOK'
    <3>1. rows' \in [Members -> Row \cup {Unborn, Gone}]
      BY <1>3, <2>1, <2>2 DEF IInv, Types, TypeOK
    <3>2. held' \in [Members -> [Grants -> Nat]]
      <4>1. \A g \in Grants : Granted(j, g) \in Nat
        BY <1>3 DEF IInv, Types, TypeOK, Granted
      <4> QED
        BY <2>1, <4>1 DEF IInv, Types, TypeOK
    <3>3. \A n \in Members \ Present' : Loaded(n)' = {}
      BY <2>w, <2>3, <2>4 DEF IInv, Types, TypeOK, Loaded
    <3>4. asked' \in [Members -> SUBSET Grants]
      BY <1>3, <2>1 DEF IInv, Types, TypeOK
    <3> QED
      BY <2>1, <2>4, <2>7, <3>1, <3>2, <3>3, <3>4, LateOK DEF IInv, Types, TypeOK
  <2>9. NameClashOnlyIfRaced'
    <3>1. ASSUME NEW o \in Present, o # j.who, rows[o].name = rows'[j.who].name,
                 rows'[j.who].name # None
          PROVE  <<"name", rows[o].name>> \in raced'
      <4>1. CASE Renames(j)
        <5>1. rows[o].name = j.name /\ j.name # None /\ j.name \in Names
          BY <1>3, <2>2, <3>1, <4>1 DEF Renames
        <5>2. NameTaken(j.who, j.name)
          BY <3>1, <5>1 DEF NameTaken
        <5>3. <<"name", j.name>> \in Writes(j) \cap j.late
          BY <1>2, <4>1, <5>2, SaveWrites DEF FreshSave
        <5> QED
          BY <2>7, <5>1, <5>3 DEF Crossed
      <4>2. CASE ~Renames(j)
        BY <2>w, <2>2, <2>7, <3>1, <4>2 DEF IInv, Properties, NameClashOnlyIfRaced
      <4> QED
        BY <4>1, <4>2
    <3>2. ASSUME NEW n \in Present, NEW o \in Present, n # o, rows[n].name = rows[o].name,
                 rows[n].name # None
          PROVE  <<"name", rows[n].name>> \in raced'
      BY <2>7, <3>2 DEF IInv, Properties, NameClashOnlyIfRaced
    <3>3. \A n \in Present : n # j.who => rows'[n] = rows[n]
      BY <2>2 DEF Present
    <3> SUFFICES ASSUME NEW n \in Present, NEW o \in Present, n # o,
                        rows'[n].name = rows'[o].name, rows'[n].name # None
                 PROVE  <<"name", rows'[n].name>> \in raced'
      BY <2>4 DEF NameClashOnlyIfRaced
    <3> QED
      BY <3>1, <3>2, <3>3
  <2>10. GrantsAreAsAsked'
    <3> SUFFICES ASSUME NEW n \in Present, NEW L \in Lists, <<"list", n, L>> \notin raced',
                        NEW g \in L
                 PROVE  held'[n][g] = IF g \in asked'[n] THEN 1 ELSE 0
      BY <2>4 DEF GrantsAreAsAsked
    <3>0. n \in Members /\ g \in Grants
      BY ListsOK DEF Present
    <3>1. held[n][g] = IF g \in asked[n] THEN 1 ELSE 0
      BY <2>7 DEF IInv, Properties, GrantsAreAsAsked
    <3>2. CASE n # j.who
      BY <2>3, <3>0, <3>1, <3>2
    <3>3. CASE n = j.who /\ L \notin j.lists
      <4>1. g \notin UNION j.lists /\ held'[n][g] = held[n][g]
        BY <2>5, <3>3
      <4>2. g \notin j.new
        BY <1>2, <4>1 DEF FreshSave
      <4> QED
        BY <2>3, <3>1, <3>3, <4>1, <4>2
    <3>4. CASE n = j.who /\ L \in j.lists
      <4>1. <<"list", n, L>> \in Writes(j)
        BY <1>2, <3>4, SaveWrites
      <4>2. <<"list", n, L>> \notin j.late
        <5>1. n # None
          BY <3>0, DirectoryAssumption
        <5> QED
          BY <2>7, <4>1, <5>1 DEF Crossed
      <4>3. g \in j.old <=> g \in Loaded(n)
        BY <1>2, <2>w, <3>4, <4>2 DEF FreshSave
      <4>4. g \in j.old <=> held[n][g] = 1
        BY <3>0, <3>1, <4>3 DEF Loaded
      <4>5. g \in asked'[n] <=> g \in j.new
        BY <2>3, <3>4
      <4> QED
        BY <2>3, <3>0, <3>1, <3>4, <4>4, <4>5 DEF Granted
    <3> QED
      BY <3>2, <3>3, <3>4
  <2>11. ErrorsHaveACause'
    BY <2>1 DEF IInv, Properties, ErrorsHaveACause
  <2> QED
    BY <2>1, <2>7, <2>8, <2>9, <2>10, <2>11 DEF IInv, Types, Properties
<1> QED
  BY <1>4, <1>5

LEMMA RemoveWrites ==
    ASSUME NEW j \in RemoveJob
    PROVE  j.op = "remove" /\ Writes(j) = {<<"row", j.who>>, <<"marks", j.who>>}
<1>1. j.op = "remove"
  BY DEF RemoveJob
<1> QED
  BY <1>1 DEF Writes

LEMMA RemoveRefused ==
    ASSUME Types, NEW j \in RemoveJob, FreshRemove(j),
           ~(/\ \A a \in j.att : \E b \in att : b.no = a.no
             /\ CountsMatch(j.who, j.old)
             /\ Loaded(j.who) \subseteq j.old
             /\ \A a \in att : a.by # j.who /\ (a.member = j.who => a \in j.att))
    PROVE  \/ Writes(j) \cap j.late # {}
           \/ \E a \in att : a.by = j.who
           \/ \E g \in Grants : held[j.who][g] > 1
<1>0. j.who \in Members /\ j.old \subseteq Grants
  BY DEF RemoveJob
<1> SUFFICES ASSUME Writes(j) \cap j.late = {}, \A a \in att : a.by # j.who
             PROVE  \E g \in Grants : held[j.who][g] > 1
  OBVIOUS
<1>1. <<"row", j.who>> \notin j.late /\ <<"marks", j.who>> \notin j.late
  BY RemoveWrites
<1>2. j.old = Loaded(j.who) /\ j.att = {a \in att : a.member = j.who}
  BY <1>1 DEF FreshRemove
<1>3. ~CountsMatch(j.who, j.old)
  BY <1>2
<1>4. PICK g \in j.old : held[j.who][g] # 1
  BY <1>0, <1>3, OnceEach
<1> QED
  BY <1>0, <1>2, <1>4, LoadedOnce

LEMMA RemoveKeeps ==
    ASSUME IInv, NEW t \in Threads, Remove(t)
    PROVE  IInv'
<1>1. PICK j : j = job[t]
  OBVIOUS
<1>2. j \in RemoveJob /\ j \in WriteJob /\ FreshRow(j) /\ FreshRemove(j)
  BY <1>1, ByOp DEF IInv, Types, AllFresh, Remove, Fresh, WriteJob
<1>3. /\ j.op = "remove" /\ j.who \in Members /\ j.who # None
      /\ Writes(j) = {<<"row", j.who>>, <<"marks", j.who>>}
  BY <1>2, RemoveWrites, DirectoryAssumption DEF RemoveJob
<1> DEFINE ok == /\ \A a \in j.att : \E b \in att : b.no = a.no
                 /\ CountsMatch(j.who, j.old)
                 /\ Loaded(j.who) \subseteq j.old
                 /\ \A a \in att : a.by # j.who /\ (a.member = j.who => a \in j.att)
<1>4. CASE ~ok
  <2>1. Fail(t, j.who)
    BY <1>1, <1>4 DEF Remove
  <2>2. \/ Writes(j) \cap j.late # {}
        \/ \E a \in att : a.by = j.who
        \/ \E g \in Grants : held[j.who][g] > 1
    BY <1>2, <1>4, RemoveRefused DEF IInv
  <2> QED
    BY <1>1, <1>2, <1>3, <2>1, <2>2, FailKeeps
<1>5. CASE ok
  <2>1. /\ rows' = [rows EXCEPT ![j.who] = Gone]
        /\ held' = [held EXCEPT ![j.who] = [g \in Grants |-> 0]]
        /\ asked' = [asked EXCEPT ![j.who] = {}]
        /\ att' = Orphaned(j)
        /\ UNCHANGED failed
        /\ Done(t, TRUE)
    BY <1>1, <1>5 DEF Remove
  <2>2. /\ rows'[j.who] = Gone /\ held'[j.who] = [g \in Grants |-> 0]
        /\ \A n \in Members \ {j.who} : /\ rows'[n] = rows[n] /\ held'[n] = held[n]
                                        /\ asked'[n] = asked[n]
    BY <1>3, <2>1 DEF IInv, Types, TypeOK
  <2>3. Present' = Present \ {j.who} /\ Gone # Unborn /\ Gone \notin Row
    BY <2>2, DirectoryAssumption DEF Present
  <2>4. \A b \in att' : \/ b \in att /\ b.member # j.who
                        \/ \E a \in att : b = [no |-> a.no, member |-> None, by |-> a.by]
    BY <2>1 DEF Orphaned, IInv, Types, Attendance
  <2>5. \A a \in att : a.member # j.who => a \in att'
    BY <2>1 DEF Orphaned
  <2>6. Effect(Writes(j))
    <3>1. \A m \in Members : m # j.who =>
              {a \in att' : a.member = m} = {a \in att : a.member = m}
      <4> SUFFICES ASSUME NEW m \in Members, m # j.who
                   PROVE  {a \in att' : a.member = m} = {a \in att : a.member = m}
        OBVIOUS
      <4>1. m # None
        BY DirectoryAssumption
      <4> QED
        BY <2>4, <2>5, <4>1
    <3> QED
      BY <1>2, <1>3, <2>2, <2>3, <3>1 DEF Effect, Present
  <2>7. /\ job' \in [Threads -> Jobs] /\ AllFresh'
        /\ raced' = raced \cup Crossed(j) /\ raced' \subseteq Note
        /\ reads' = reads /\ marks' = marks
    BY <1>1, <1>2, <2>1, <2>6, DoneOK
  <2>8. att' \subseteq Attendance
    BY <2>4 DEF IInv, Types, Attendance
  <2>9. TypeOK'
    <3>1. rows' \in [Members -> Row \cup {Unborn, Gone}] /\ held' \in [Members -> [Grants -> Nat]]
      BY <2>1 DEF IInv, Types, TypeOK
    <3>2. \A n \in Members \ Present' : Loaded(n)' = {}
      BY <2>2, <2>3 DEF IInv, Types, TypeOK, Loaded
    <3>3. asked' \in [Members -> SUBSET Grants]
      BY <2>1 DEF IInv, Types, TypeOK
    <3>4. \A b \in att' : /\ b.no \in 0 .. (marks' - 1)
                          /\ {b.member, b.by} \subseteq Present' \cup {None}
      <4> SUFFICES ASSUME NEW b \in att'
                   PROVE  /\ b.no \in 0 .. (marks - 1)
                          /\ {b.member, b.by} \subseteq Present' \cup {None}
        BY <2>7
      <4>1. \A a \in att : /\ a.no \in 0 .. (marks - 1) /\ a.by # j.who
                           /\ {a.member, a.by} \subseteq Present \cup {None}
        BY <1>5 DEF IInv, Types, TypeOK
      <4>2. CASE b \in att /\ b.member # j.who
        BY <2>3, <4>1, <4>2
      <4>3. ASSUME NEW a \in att, b = [no |-> a.no, member |-> None, by |-> a.by]
            PROVE  /\ b.no \in 0 .. (marks - 1)
                   /\ {b.member, b.by} \subseteq Present' \cup {None}
        BY <2>3, <4>1, <4>3
      <4> QED
        BY <2>4, <4>2, <4>3
    <3> QED
      BY <2>1, <2>7, <3>1, <3>2, <3>3, <3>4, LateOK DEF IInv, Types, TypeOK
  <2>10. NameClashOnlyIfRaced' /\ GrantsAreAsAsked' /\ ErrorsHaveACause'
    <3>1. \A n \in Present' : /\ n \in Present /\ rows'[n] = rows[n]
                              /\ held'[n] = held[n] /\ asked'[n] = asked[n]
      BY <2>2, <2>3 DEF Present
    <3>2. NameClashOnlyIfRaced'
      BY <2>7, <3>1 DEF IInv, Properties, NameClashOnlyIfRaced
    <3>3. GrantsAreAsAsked'
      BY <2>7, <3>1 DEF IInv, Properties, GrantsAreAsAsked
    <3>4. ErrorsHaveACause'
      BY <2>1 DEF IInv, Properties, ErrorsHaveACause
    <3> QED
      BY <3>2, <3>3, <3>4
  <2> QED
    BY <2>7, <2>8, <2>9, <2>10 DEF IInv, Types, Properties
<1> QED
  BY <1>4, <1>5

-----------------------------------------------------------------------------
LEMMA InitIInv == Init => IInv
<1> SUFFICES ASSUME Init
             PROVE  IInv
  OBVIOUS
<1>1. job \in [Threads -> Jobs] /\ AllFresh
  BY NotIdle DEF Init, Jobs, AllFresh, Fresh
<1>2. /\ rows \in [Members -> Row \cup {Unborn}] /\ rows = FirstRows
      /\ held \in [Members -> [Grants -> {0, 1}]]
      /\ \A m \in Members, g \in Grants : held[m][g] = IF g \in FirstGrants[m] THEN 1 ELSE 0
  BY DirectoryAssumption DEF Init
<1>3. TypeOK
  <2>1. \A m \in Members \ Present : Loaded(m) = {}
    BY <1>2, DirectoryAssumption DEF Present, Loaded
  <2>2. \A t \in Threads : job[t] = Idle
    BY DEF Init
  <2>3. held \in [Members -> [Grants -> Nat]]
    BY <1>2
  <2> QED
    BY <1>2, <2>1, <2>2, <2>3, DirectoryAssumption DEF Init, TypeOK
<1>4. NameClashOnlyIfRaced
  BY <1>2, DirectoryAssumption DEF NameClashOnlyIfRaced, Present
<1>5. GrantsAreAsAsked
  BY <1>2, ListsOK, DirectoryAssumption DEF Init, GrantsAreAsAsked, Present
<1>6. ErrorsHaveACause
  BY DEF Init, ErrorsHaveACause
<1> QED
  BY <1>1, <1>3, <1>4, <1>5, <1>6 DEF Init, IInv, Types, Properties

LEMMA NextIInv == IInv /\ [Next]_vars => IInv'
<1> SUFFICES ASSUME IInv, [Next]_vars
             PROVE  IInv'
  OBVIOUS
<1>1. ASSUME NEW t \in Threads, Update(t)
      PROVE  IInv'
  BY <1>1, ChangeKeeps, DirectoryAssumption DEF Update
<1>2. ASSUME NEW t \in Threads, Profile(t)
      PROVE  IInv'
  BY <1>2, ChangeKeeps DEF Profile
<1>3. ASSUME NEW t \in Threads, Handler(t)
      PROVE  IInv'
  BY <1>1, <1>2, <1>3, CreateKeeps, InsertKeeps, UpdateCheckKeeps, SaveKeeps, DeleteKeeps,
     DeleteLoadKeeps, RemoveKeeps DEF Handler
<1>4. CASE UNCHANGED vars
  <2>1. UNCHANGED <<rows, held, att, job, reads, marks, asked, raced, failed>>
    BY <1>4 DEF vars
  <2>2. AllFresh'
    BY <2>1, NothingWritten DEF IInv, AllFresh
  <2> QED
    BY <2>1, <2>2 DEF IInv, Types, TypeOK, Present, Loaded, Properties, NameClashOnlyIfRaced,
                      GrantsAreAsAsked, ErrorsHaveACause
<1> QED
  BY <1>3, <1>4, MarkKeeps, UnmarkKeeps DEF Next

(* References stay whole: whatever requests overlap, association and       *)
(* attendance rows name members that exist.                                *)
THEOREM DirectoryTypeCorrect == Spec => []TypeOK
<1>1. IInv => TypeOK
  BY DEF IInv, Types
<1> QED
  BY InitIInv, NextIInv, <1>1, PTL DEF Spec

(* Two members have the same preferred first name only if two requests     *)
(* that wrote it overlapped.                                               *)
THEOREM NamesClashOnlyIfRaced == Spec => []NameClashOnlyIfRaced
<1>1. IInv => NameClashOnlyIfRaced
  BY DEF IInv, Properties
<1> QED
  BY InitIInv, NextIInv, <1>1, PTL DEF Spec

(* Members hold what was last asked for, once, unless two requests that    *)
(* replace the same list overlapped.                                       *)
THEOREM GrantsFollowTheRequests == Spec => []GrantsAreAsAsked
<1>1. IInv => GrantsAreAsAsked
  BY DEF IInv, Properties
<1> QED
  BY InitIInv, NextIInv, <1>1, PTL DEF Spec

(* A database error meets a request only beside another write to what it   *)
(* depends on, over a doubled row, for a member who marked somebody, or    *)
(* over a phone or NFC number in use, which no request looks up.           *)
THEOREM DatabaseErrorsAreCaused == Spec => []ErrorsHaveACause
<1>1. IInv => ErrorsHaveACause
  BY DEF IInv, Properties
<1> QED
  BY InitIInv, NextIInv, <1>1, PTL DEF Spec
=============================================================================
