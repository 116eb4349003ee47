# A verification project for Attendance-Server

TLA+ modules that model the core of the attendance server, TLC configurations that
check them on small instances, and TLAPS proofs of the properties that matter most.
`PROJECT.json` holds the same information in machine-readable form: the components,
the runs, a mutant of the code for every property, the map from each definition to
the lines it models, the hazards and the findings.

    tlc -workers 2 -config Lifecycle.cfg MCSessionLifecycle      # any run below
    tlapm SessionLifecycle_proofs.tla                            # any proof module

## 1. The system

A FastAPI server over PostgreSQL (SQLAlchemy sessions at READ COMMITTED, autoflush
off, `app/core/database.py`) for a choir: members check in to sessions, mark their
availability, are scheduled for roles, and are reminded. Synchronous handlers run in a
thread pool, so any two requests interleave between their statements; WebSocket code
runs on one event loop and interleaves at its `await`s; periodic work is done by an
in-process APScheduler or, when a cron secret is set, by HTTP calls to `/cron/...`.

| component | state | operations | what is hard |
|---|---|---|---|
| status sweep, session endpoints | `sessions` rows | sweep of three queries and one flush; POST, PATCH, DELETE | stale objects written back, overlapping sweeps, lost updates, NULL end time |
| 24-hour reminders | `reminder_sent_at`, assignments | scan, targeted run, mark | send before commit, overlapping scans, window against period, one failure ends the scan |
| availability reminders | none | monthly e-mail run | local dates in a month of UTC sessions, one failure ends the run |
| automatic schedule | none (reads everything) | `generate_schedule` | greedy choice, random ties, month boundaries, overrides |
| availability, locks, schedules | `availability`, `day_off`, `month_lock`, `assignments` | mark session, mark day, save, announce, lock | check then act, UTC against local dates, insert races, two tables to keep in step |
| attendance | `attendance` rows, device mode | self, QR and admin check-in, deletions | checks without a constraint behind them |
| live feed | `_connections` | connect, disconnect, broadcast | the live set is iterated across awaits |
| rate limiter | timestamps per address | two checks | one list for two windows |
| one-time codes, login, reset | in-memory store, password, phone | send, verify, reset, login | codes consumed before later checks, restarts |
| members, roles | `members`, association rows, references | create, edit, delete, change phone | names checked but not unique, association rows without a key, references that block deletion |
| session templates | `session_templates`, `sessions` | generate a month | recurrences, deduplication |
| calendar reads, exports | none | screens, CSV, PDF, feed, announcement | seven queries that combine the same rows, by local and by UTC dates |
| statistics | none | one query | - |
| Google sign-in, reCAPTCHA, providers, settings, logging, migrations | none of their own | I/O | - |

Interactions: the sweep, the session endpoints and the reminders share the `sessions`
rows; saving a schedule locks the month that marking availability consults, and its
assignments are what reminders are sent for; a QR check-in's commit queues the
broadcast of the live feed; the cron endpoints and the scheduler run the same
functions, possibly at the same time. Deleting a member reaches into every other
component: availability, days off and assignments go with the row, attendance stays
behind without a member, and a reminder run that holds the member's session may fail.

## 2. Modules

Each component is one module, with a mutant operator next to the definition it
changes (`X_Something` before `X`), an `MC...` module that gives the constants their
values, and one `.cfg` per run. Handlers are split into actions at the statements
between which another transaction can commit and be seen, and nowhere else. A request
that is refused before it writes is not a step.

**SessionLifecycle** (`scheduler.py` `update_session_statuses`, `routers/sessions.py`).
`table` is the committed content of `sessions`; `sweep[w]` the objects sweeper `w` has
loaded (`read`) and the status it gave them (`plan`). `SweepScheduled`, `SweepActive`,
`SweepConcluded` are the three queries, `SweepCommit` the flush; because autoflush is
off a query never sees the changes of the one before, so a session whose end is already
past is marked active by one sweep and concluded by the next. A PATCH is `PatchBegin`
(the SELECT) and `PatchCommit` (an UPDATE of the columns that differ from what was
read); a POST of an active session is `CreateBegin` (the snapshot of the bulk UPDATE)
and `CreateCommit`. `touched` and `overlap` are history variables: which rows another
transaction changed during a sweep, and whether one committed during a POST.

**Reminders** (`dispatch_24hr_reminders`). One tick is the cron period. `run[d]` is
where dispatcher `d` is: `ScanBegin` selects, `Pick` takes the next session and reads
its assignments, `Send` reaches one member, `Summary` the leaders, `Mark` commits
`reminder_sent_at`. `Fault` is an exception or the end of the process at any point;
deleted sessions raise where SQLAlchemy would (`Pick` after the first commit, `Mark`).
A provider that fails answers False, which the code does not look at (`Refuse`): the
session is marked all the same, and `refused` remembers it. A run writes about a
session as it read it: the objects of a scan are those of its query until the first
commit expires them (`Read`). `told` holds the starts that were announced, `moved` the
sessions rescheduled behind the back of the run that wrote about them.

**ScheduleDraft** (`generate_schedule`). Everything is read before the loop, so a
behaviour is one request over any content of the tables: `Init` chooses it, `Assign`,
`Skip` and `NextSession` are the loop, and `LeastLoaded` the sort after the shuffle.

**Calendar** (`routers/calendar.py`, the writing endpoints). `MarkBegin` is the lock
check, `MarkRead` one SELECT each, `MarkCommit` the flush with the unique constraint;
`SaveBegin`, `SaveReadLocks`, `SaveCommit`; `NotifyBegin`, `NotifyCommit`;
`SetMonthLock`; `NextMonth` is the clock, `Abort` any failure. A session has a UTC and a
local date, as the code uses both. An assignment row is a member, a role and the save
that wrote it (`by`, history); a save stores whatever roster the client sends, whoever
the members are and whether or not they hold the roles.

**CalendarViews** (the reading endpoints of `routers/calendar.py`, the leaders' summary
and the monthly availability reminder of `core/scheduler.py`). One operator per query
over the rows of `Calendar`, with the date each of them goes by: the matrix, the team's
and the member's own days, the draft's unavailable members, the CSV and PDF exports, the
month's schedule, announcement and feed, the summary. Each has its own filters: the
exports have a column for roles with a `display_order` only and leave rehearsals out, the
announcement goes to active members with such a role and an e-mail address, the feed
holds all rows of its member; `Drawable` is what `generate_schedule` could have proposed.
It has no steps of its own; its
properties are checked in every state of `Calendar`. `Reminded` is whom the monthly run
is sure to reach: the reminder's calendar prints a day of the month by its number, which
raises if the month has no such day, and the exception ends the loop over the members.

**Directory** (`routers/members.py`, `models/associations.py`). `rows` are the members,
`held` counts the association rows of each member and grant (the tables have no key, so
there may be two), `att` the attendance rows, which refer to a member twice. `number`
stands for `phone_number` and `nfc_id`, unique columns that no handler of this router
looks up before it writes them. A request
is `Create`, `Update`, `Profile` or `Delete` (what it reads first), `UpdateCheck` or
`DeleteLoad` (the later reads), and `Insert`, `Save` or `Remove` (flush and commit).
What a commit writes is told to the requests under way (`late`), from which `raced` and
`failed` are drawn. `Fail` is a database error: a unique or foreign key, or an UPDATE or
DELETE that meets another number of rows than the session expects.

**CheckIn**, **AttendanceRegister**, **AttendanceWS**, **LiveAttendance**. `CheckIn` has
one action per query of a marking request (`CheckDevice`, `CheckDuplicate`, `Insert`).
`AttendanceRegister` is what it implements: marks that are decided and entered at one
instant, unless requests for the session have overlapped (`raced`). `AttendanceWS` is the
connection manager with CPython's rule that a set must not change size under an
iterator, and no more than that: the iterator walks the slots of the set's table, and an
add may lay the table out anew, so once a socket has joined (`Joined`) what lies ahead of
the iterator (`Ahead`) is any part of the set. A broadcast's step runs from one `await`
to the next. `LiveAttendance`
composes them: the insert of a QR check-in schedules a broadcast.

**RateLimiter** (`services/rate_limiter.py`). `CheckRate(ip, k)` is the whole locked
section; `hits` is the code's list, `admitted` the history the properties speak of. Its
names differ from those of `Accounts`, whose endpoints it stands before, so that one
module can hold the proofs about both.

**Accounts**, **OneTimeCodes** (`services/local_otp.py`, `routers/auth.py`, the phone
and administrator endpoints of `routers/members.py`). `store` is `_otp_store`;
`StoreOtp` and `Check` are its two locked sections, and the handlers around them are
split where another can come between: `Ask`/`AskPhone`, `StoreOtp`, `Deliver`;
`Verify`, `Lookup`, `Commit`; `PhoneBegin` (the member is read first), `PhoneCheck`,
`Commit`, which writes the columns that differ from what was read (`Written`). `OneTimeCodes` is the abstract promise (a contact's newest code, once, until
it is lost); `Promise` is the refinement mapping, in which an expired entry that is
still in the dictionary is already gone.

**Templates** (`routers/session_templates.py`). `ValidDates` is the date computation of
the four frequencies, `Generate` the one read of the templates, `Take` the next of them,
`Lookup` the SELECT before each insert and `Commit` the flush. Autoflush is off, so a
lookup sees the committed sessions only. The calendar is a constant (`First`, the day
each month begins). `OnCadence` says independently of a range when a recurrence is due.

## 3. Runs

| run | distinct states | shows |
|---|---|---|
| `Lifecycle.cfg` | 790 k | a sweep's stale plan never harms an untouched row; every session is archived in the end |
| `Reminders.cfg` | 7.2 M | a marker means that the present time was announced, duplicates have a cause, no settled session is missed |
| `Draft.cfg` | 35 k | nobody twice, nobody unrightfully, vacancies justified, fair rotation |
| `Calendar.cfg` | 4.2 M | days and sessions agree and every view shows them alike, saves mix only if raced, what is saved is locked and told, locks are only bypassed by requests under way |
| `LiveAttendance.cfg` | 1.9 M | check-ins are atomic unless they overlap (refinement), self check-ins are genuine, broadcasts reach everybody unless others come and go, no KeyError |
| `Limiter.cfg` | 770 k | the short window is enforced, refusals are earned |
| `Accounts.cfg` | 2.4 M | codes are one-time (refinement), flags and passwords are backed by codes, refusals have a cause |
| `Directory.cfg` | 1.4 M | references stay whole, names clash and role rows double only by an overlap, database errors have a cause |
| `Templates.cfg` | 790 k | generated sessions are exactly the recurrences' days, a double has a cause |
| `ReminderLost.cfg` | violated | the monthly reminder stops at a member whose opt-out falls on a day the month lacks |
| `AttendanceUnreadable.cfg` | violated | deleting a member makes a session's attendance unreadable for everybody |
| `LimiterForgot.cfg` | violated | more than the forgot-password limit in its window (comment) |

Bounds. Two threads of each kind are enough for every overlap the properties mention,
which are all about pairs of transactions; `MaxRequests` lets a session be created,
edited or deleted around two sweeps, or two handlers be followed by two more in
`Calendar`. Two requests in `Lifecycle` are one less than it takes to have a sweep lose
the changes of another session (two POSTs and a DELETE); a third makes the liveness check
too long, so there a failed sweep is one that loses its only session. Time bounds cover a session's whole life (`Lifecycle`), the window's
passage over a start time with one period skipped (`Reminders`), and a long window that
holds a short one three times (`Limiter`, the code's own proportion). `Calendar` has the
last day of a month and the first of the next, and an evening session whose dates
straddle them; both are upcoming, the evening one is a rehearsal, and the months have 31
and 30 days, so a day number can be missing. One member marks (`Markers`), and a save
stores a row that could have been drawn, one of a role without a column and one of an
inactive member (`Rosters`). `Draft` has a Sunday, an ordinary day and a session outside the requested
month, with every combination of a set of opt-outs, days off, role sets and overrides.
`LiveAttendance` needs three sockets for a set that keeps its size while its members
change; a constraint lets the third connect only before a second row exists.
`Accounts` has two members, one of whom may take over or give up a number, and two
codes that may be equal or differ; `Expiry` is 0, so one tick expires a code. Threads
and codes are interchangeable (symmetry); a constraint keeps edits, the tick and
restarts out of each other's behaviours. `Templates` is set in January to March 2026: a
recurrence on the fifth Thursday, which February lacks, a fortnightly one whose anchor
lies behind two of the ranges and before the third, recurrences without a reference date,
whose anchor lies in the range, two templates of one title and start, and ranges that
overlap and cross months.

`Directory` has a member with a role and one without, a key for a third, one name to
compete for, one number and a free e-mail; three requests are two that overlap and one
before or after. A body changes one thing at a time (`MCUpdates`), and attendance is marked in
behaviours where lists are set or members deleted.

The three violated runs each refute one sentence of the repository, quoted in
`PROJECT.json`: `scheduler.py:192`, `attendance.py:85` and `rate_limiter.py:55`.

Fairness. Only `Lifecycle` has a liveness property. It assumes that the clock runs,
that a sweep that has begun ends and that sweeps recur (interval trigger or cron,
`scheduler.py:391-398`), and that a handler that began returns. Clients are not fair:
nothing obliges a request to come.

Deadlock checking is off where the bounds end every behaviour (the draft, the served
requests, the rows), and on in `Lifecycle` and `Reminders`, where sweeps and scans recur.

## 4. Proofs

TLAPS proves the following for every value of the constants that satisfies the modules'
assumptions, without the bounds of the runs.

- `SessionLifecycle_proofs`: `TypeCorrect`, `PlansStayCurrent`, `SweepsAdvanceOneStep`,
  `UndisturbedCreationsAreExclusive`.
  `PlanIsCurrent` is not inductive: the second query may re-plan a row the first one
  planned. What rules that out is that a loaded, untouched object equals the table and
  that each phase has only given certain statuses; the invariant adds both, and the
  action property follows from it at `SweepCommit`. For creations, an undisturbed POST has
  seen every active session (`SeenInv`), and there is an id left for every POST under way
  (`CountInv`, by counting them).
- `ScheduleDraft_proofs`: `DraftTypeCorrect`, `NobodyServesTwice`,
  `OnlyRightfulService`, `FairRotation`, `VacanciesAreJustified`. `scheduled` must be the set of those who serve
  in the current session, in a role already passed, and roles not yet reached must be
  vacant. Fair rotation needs
  that twins which differ by one have not both been passed over: if the one with more is
  chosen, the other was valid and had no fewer, or serves in this session already.
- `Templates_proofs`: `RecurrencesAreRight`, that the date loops yield the cadence for
  every calendar and range (a remainder argument for the fortnights; for the months,
  that a day lies in one month only and weeks are counted from its first day); and from
  it `TemplatesTypeCorrect`, `CadenceHolds`, `DoublesAreCaused`. The invariant says of a
  request under way that each day it calls for is still to be found, still to be looked
  up, or there, and that what it is about to add clashes only with overlapping requests.
- `Reminders_proofs`: `RemindersTypeCorrect`, `MarkersAreTruthful`, `DuplicatesHaveACause`,
  `NoSessionIsMissed`. What a run knows of its session is the row, or the PATCH was
  noted; past its summary it has told that, or met a refusal (`MarkerInv`). Without an
  overlap or a failed run, at most one run holds a session, and what it has still to send
  was never sent (`OnceInv`). The last theorem assumes `Window >= 2`, two cron periods:
  `SeenInv` follows a settled session through the two ticks in which the window covers
  it, one of which has a scan.
- `Calendar_proofs`, which also covers `CalendarViews`: `CalendarTypeCorrect`,
  `SavesDoNotMix`, `NobodyElseUnlocks`, `SavedSchedulesAreLocked`, `DaysAndSessionsAgree`,
  `MarksAreShown`, `LateMarksAreExcused`. The long argument is for days and sessions: a
  request that has read its rows and whose member has no other request under way still
  knows them (`FreshInv`), and what it is about to write covers the sessions of its day
  (`CoverInv`). `LateInv` remembers that a request past its lock check was there when the
  month was locked. For saved schedules, a save that read its month's row as locked is in a
  month that still is or that the administrator has opened since (`LockInv`); the rest is
  that the filters of the views let every `Drawable` row pass.
- `LiveAttendance_proofs`, about the composition: `LiveAttendanceTypeCorrect`,
  `CheckInsImplementTheRegister` (a refinement), `NobodyIsMarkedTwice`,
  `SelfCheckInsAreGenuine`, `QuietFeedsReachEveryone`, `DiscardFindsTheEntry`. Of the
  check-ins, a request alone in its session has seen every row of it (`AloneInv`), so
  what its checks found holds at its insert (`CheckedInv`), which is the register's step;
  the first query of an overlapping request is the register's `Contend`. Of the sockets,
  a broadcast in which nobody joined has the sockets of its set it did not visit still
  ahead of it and has told all the others that are open (`Quiet`, `Told`), and a set whose
  size differs has lost or gained one (`Failed`); while dead sockets wait to be discarded the
  session's entry exists (`Sound`, `Waiting`).
- `Accounts_proofs`: `AccountsTypeCorrect`, `RefusalsHaveACause`,
  `CodesImplementTheirPromise` (the refinement, `Spec => Promise!Spec`, step by step),
  `VerificationIsBackedByACode`. The last needs to know of a request that committed over
  a row it read long before: the row still has its e-mail, no flag was reset, and if the
  number is another one then its flag is set too (`ReadGood`); what the request will
  write is backed by its code (`WriteGood`); and the code of a password belongs to one
  thread or one row only (`NumberInv`, `PasswordInv`).
  The module's last part is about the limiter before these endpoints:
  `LimiterTypeCorrect`, `LoginsAreLimited`, `RefusalsAreEarned`. The list of an address
  is a finite subset of what was admitted, and holds everything admitted within the
  shortest window, because no check prunes more than that.
- `Directory_proofs`: `DirectoryTypeCorrect`, `NamesClashOnlyIfRaced`,
  `GrantsFollowTheRequests`, `DatabaseErrorsAreCaused`. The four stand on one invariant:
  whatever a request read, looked up or loaded is still so, or the request has been told
  of the write that changed it (`Fresh`). It is preserved because every commit tells of
  all that it changes (`Effect`), and at a commit it turns a name, a doubled row or a
  row too few into a note. An error over a number of rows needs the counting lemma
  `OnceEach`: a DELETE meets as many association rows as it names if there is one of
  each. A taken number needs no note: `failed` says so itself. The table to start with is
  assumed to have no clashes (`DirectoryAssumption`).

Assumptions are the named `ASSUME`s of the modules; TLC evaluates them in every run. One
of them the code documents and does not enforce: a template's `day_of_week` is 0 to 6
(`schemas/session_template.py:10`), on which all theorems of `Templates_proofs` rest.

So every invariant and action property that a passing run checks is a theorem. Only
model-checked is liveness, `EventuallyArchived`, which is out of the prover's reach; the
refutations are TLC's counterexamples.

## 5. Observations without a run

Met while modelling, and left to the reader because no sentence of the repository says
otherwise, or because the model has them as the excuse of a property.

- A per-session override may name roles the draft never built pools for; such a role
  stays vacant (`calendar.py:502` against the schema's "per-session role overrides",
  `schemas/calendar.py:13`). `VacantOnlyIfNobodyLeft` excludes them.
- Attendance has no unique constraint: two overlapping requests mark a member twice,
  although "a member cannot mark attendance twice for the same session" (the
  repository's README.md:242). `CheckInsAreAtomic` and the theorem
  `NobodyIsMarkedTwice` are what holds.
- The month lock is looked up by a session's UTC month (`calendar.py:92-94`) and written
  by its local one: an evening session on a month's last day stays open when its month
  is locked, and its marks reach the locked day. The pages and announcements of a month
  go by UTC months.
- The CSV and PDF exports look up days off by a session's UTC date, so an evening
  session shows the next day's.
- Rescheduling a session keeps `reminder_sent_at`: the new date is never announced
  (`MarkedIsAnnounced` has these sessions in `moved`).
- Whoever marked attendance, which includes every member by their own QR check-in,
  cannot be deleted: `marked_by_id` still refers to them (`ErrorsHaveACause`).
- A phone or NFC number somebody else has is refused by the database only
  (`members.py:61-74`, `226-230`), so the client gets a 500 where a taken e-mail is a 400
  (`ErrorsHaveACause` has it as `number`).
- `save_schedule` takes any member and role: a row of a role without `display_order` is
  missing from both exports, one of an inactive member or of one without an assignable
  role is announced to nobody. `SavedIsShownLocked` speaks of what the automatic schedule
  may have drawn.
- A broadcast iterates over the live set: whoever joins or leaves during its sends breaks
  it off for the sockets still ahead, and a leave followed by a join may make it pass over
  a connected socket without an error (`MissesHaveACause` has both as causes).
- A template whose `day_of_week` is not a weekday sends the search for its anchor beyond
  the last date (`session_templates.py:85-86`), and the generation fails.

## 6. Plan

Done in the order given by the first plan. What remains worth adding: liveness of the
reminders under a provider that recovers.

## 7. Not modelled

- Read-only or pure text: statistics (arithmetic over one query's result), the wording
  and layout of messages, ICS, PDF and HTML, the calendar feed's key. Which members and
  days the views hold is modelled (`CalendarViews`).
- External services: e-mail, SMS and push providers beyond "sent" and "refused", Twilio's
  own codes, Google sign-in, reCAPTCHA, hashing and JWT signing.
- Permission checks: a refused request changes nothing. Settings are constants of the
  modules that read them; the secret of the cron endpoints is left out, their functions
  are the runs of `SessionLifecycle` and `Reminders`.
- Of modelled components: the distance formula of the geofence (`near`); birthdays
  and addresses of members; titles and places of sessions, ends and geofences of generated
  ones; the monthly reminder for chosen members; the limiter's `remaining`, which nothing calls.
- Of the platform: deadlocks between the row locks of concurrent flushes, which
  PostgreSQL resolves by failing one of the two (the models have that outcome as an
  abort); connection-pool exhaustion; a clock that runs backwards; migrations and
  one-off scripts.
