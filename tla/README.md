# A model of sajni-api

sajni-api is the Go backend of a personal organiser: tasks, reminders, habits,
money, media, notes and an assistant that works on all of them, over one
PostgreSQL database, on Cloud Run (60 s requests, at most two instances), with
Cloud Tasks and Cloud Scheduler calling back over HTTP. This directory holds
TLA+ modules of its control logic, the TLC configurations that check them on
small instances, and TLAPS proofs about the core.

## 1. Inventory

Everything below is under `src/internal`. All state is in PostgreSQL rows that
belong to one user; of what is in memory only the assistant's hourly budget and the
enrichment of thinking cards outlive a request. Concurrency therefore
means: two requests, or a request and a scheduled job, whose SQL statements
interleave; READ COMMITTED everywhere but in identity linking (SERIALIZABLE).

| Component | State | Operations | Hard behaviour | What makes it correct |
|---|---|---|---|---|
| Standalone reminders (`reminder`, `reminderqueue`, `api/standalone_reminders.go`) | series, occurrences, leases, queued fires | create, edit, snooze, skip, delete, fire, sweep, send, complete | user edits while a send is in flight, at-least-once fires, lost enqueues, crashes between notifying and completing | one pending occurrence per active series; never stuck; duplicates only after a loss |
| Repeat rules (`reminder/recurrence.go`, `taskrepeat`, `habitperiod`) | pure date arithmetic | normalise, next, advance, skip, streaks | month ends, leap days, DST gaps, late sweeps | the dates the owner asked for, no drift, no skip |
| Habits (`api/habits.go`) | check-ins by day or period | toggle, log, edit | toggle is a read and a write; offline clients resend | a resend does not flip; streaks are the runs of logged periods |
| Tasks: links (`api/tasks.go`, `ai/tools.go`) | status, blocker, parent, goals | create, patch, complete, block, scratch, restore, delete, repeat sweep | checks before writes, other requests in between | no circle of blockers, nothing waits for a closed task, nothing done over open subtasks |
| Tasks: schedule and reminders | due/week/month scope, time, reminder stamps, claims, rule | patch, reschedule, assistant tools, delivery, repeat sweep | delivery against reschedule; rule against scope | a future time is always announced; a rule always fits its scope |
| Plans, digests | occurrences, stamps | save, advance, alert, weekly and monthly mail | read-then-update, no claim | an alert per occurrence, no stale overwrite |
| Idempotent writes (`api/idempotency.go`) | key, status, stored reply | claim, replay, take over, release | a retry racing the original; a reply lost after the write | one effect per key |
| Sign-in and sessions (`auth`) | identities, codes, refresh tokens | sign in, link, exchange, refresh, sign out | rotation against retries, codes used twice, linking races | a token is honoured once, an identity has one owner |
| MCP authorization (`mcp`) | clients, codes, grants | register, authorize, token, refresh, revoke | code and refresh replays, grace period, pruning | a code yields one grant |
| Export, deletion, purge (`api/takeout.go`) | deletion stamp | delete, restore, purge | purge against restore | a restored account keeps its data |
| Ledger and budgets (`api/finance.go`, `api/slates.go`) | accounts, transactions, slates, card statements, budgets | record, transfer, edit, move, delete, close a cycle, mark paid, plan | a transfer is two rows; a check before a lock; lists replaced by deleting and inserting | legs agree, one message is one row, a statement adds up, a budget holds one edit |
| Lends, bills, investments (`lends*`, `billers.go`, `investments*`) | lends, splits, settlements, cycles, contributions | split, settle, forgive, pay, auto-pay | amounts kept beside rows; catch-up of missed dates | the balance equals its transactions; a date is paid once |
| Assistant (`ai`, `api/ai.go`, `api/ailimit.go`) | sessions with their history, budget of an instance | chat, tools, trimming, saving | a history read before and written after 50 s of talk; silent rounds, round limits, cuts | calls keep their answers; an exchange is lost only to a crossing one |
| Media (`api/media*.go`) | titles, watch history, release dates | save, edit, log progress, refresh, graduate, announce | snapshot, write and reread apart; jobs of two instances | history says what happened; a release is told once |
| Journal, memos, notes (`api/journal.go`, `memos.go`, `notes.go`, `note`) | rows, objects, tags, backlinks, folders | save, move, rename, delete | row, object, tags and links written one by one | no row without its text, tags of the text it has |
| Attachments (`api/uploads.go`, `task_attachments.go`) | rows and objects | add, remove, cascade | objects deleted apart from rows | no row without its object |
| Events (`api/events.go`) | variables, entries, values | record, edit, page | edits that delete and insert side by side | an entry holds one edit; pages neither skip nor repeat |
| Thinking (`api/thinking.go`, `thinking`) | cards, threads, enrichments, brief | add, close, comment, enrich, synthesise | the brief is read seconds before it is stamped | a brief nobody overlapped asks for a new one when it leaves something out |
| Bookmarks, links, themes, task lists | rows of one user | CRUD by one statement each | none | - |

## 2. Plan

The order is by what would hurt most: notices that must not be lost, then the
rows that hold each other (tasks, money), then access, then content.

| Step | Modules | Composition | State |
|---|---|---|---|
| 1 | `StandaloneReminders`, `ReminderPromise`, `StandaloneRemindersProofs` | implements `ReminderPromise` | checked, proved |
| 2 | `CivilCalendar`, `Recurrence`, `TaskRepeat`, `HabitPeriod`, `Repeats`, `Habits` | `MCCalendar` | checked; resent check-ins proved |
| 3 | `TaskLinks` | `MCTaskLinks` | checked |
| 4 | `Delivery`, `TaskSchedule`, `PlanAlerts`, `Digests` | `MCPlanner`, with 3 | checked, proved |
| 5 | `Lends`, `Billers`, `Investments`, `Ledger`, `Budgets` | `MCMoney` | checked, proved |
| 6 | `Sessions`, `EmailCodes`, `McpGrants`, `Idempotency` | `MCAccount` | checked, proved |
| 7 | `Releases` | `MCCalendar` | checked; safety proved |
| 8 | `WatchHistory`, `Documents`, `NoteFolders`, `TaskFiles`, `Events`, `Chats` | `MCAccount`, with 6 | checked; proved but for `Chats` |
| 9 | `Thinking` | `MCPlanner`, with 4 | checked; the brief proved |
| 10 | `SetLemmas`, `AccessProofs`, `StorageProofs`, `MoneyProofs`, `LendsProofs`, `PlannerProofs`, `CalendarProofs` | one proof module per area | proved |

Abstract specifications: `ReminderPromise` (here); a register that is written
once per key (for `Idempotency`); a session that is one line of tokens (for
`Sessions` and `McpGrants`). What is left without a theorem, and why, is at the end
of section 6. Components that do not interact are
checked in one run whose initial states pick one of them, the others at rest: a
composite adds no interleaving, only room.

## 3. Modules

### StandaloneReminders

One series: the `reminders` row is `rem`, its `reminder_occurrences` rows `occ`
(status, sequence, scheduled and fire time, `claimed_until`, and of `created_at`
whether it is after the scheduled time), the Cloud Tasks
queue `tasks`. Requests are single steps, since each is one transaction
(`Create`, `Replace` for an edit, `Snooze`, `Skip`, `Delete`,
`DeleteOccurrence`), and the enqueue after the commit may fail. Delivery is
`Fire` or `Sweep` (the claim, with the guards of its WHERE clause), `Attempt`
(the send over the owner's channel, and the release of the claim when it
fails) and `Complete` (the UPDATE and the next occurrence), with `Abort` for a
request that dies anywhere. The recurrence is an abstract step, count and end
date; `Recurrence` models the real one. `ReminderPromise` is what the owner
sees: one open occurrence at a time, closed once, followed by the next or the
end.

### Dates

`CivilCalendar` is the proleptic Gregorian calendar on day numbers (what
`time.Date` and `AddDate` do, overflow into the next month included).
`Recurrence` is `reminder/recurrence.go` (`Normalize`, `Next`), with local hours
and the hours that daylight saving skips; `TaskRepeat` is `taskrepeat` (fit,
step, advance); `HabitPeriod` is `habitperiod` and the streaks. `Repeats` drives
them as state machines of one series or one task through occurrences, skips and
late sweeps, against the dates counted from the first one. `Habits` has the
rows of one habit and the check-in handlers, which read in one statement and
write in the next.

### TaskLinks

Rows hold status, parent and blocker; a row in flight is in `request`. The
stages of a request are the statements between which others commit: check,
lock, commit, link, close, unblock, finish the goal, release, delete. `PatchTask`
is `updateTask`, `Complete`, `Scratch` and `Block` the assistant's tools,
`AdvanceTask` the repeat sweep. `in_progress` counts as `todo`: no statement of this part tells
them apart.

### TaskSchedule, PlanAlerts, Digests

They share `Delivery`: handlers, a small calendar, grace and lease.
`TaskSchedule` has the scope columns, the repeat rule, the task's own reminder and
one row of `task_reminders`, under every request that writes them (REST patch
and reschedule, the assistant's `update_task`, `reschedule_task` and skip, a
plan's `AddTask`, the repeat sweep) and two handlers. `PlanAlerts` has the plan
row, the fires, and `Advance` split into its SELECT and its UPDATE. `Digests` has
the 10:00 window, the selection, the notice and the stamp the weekly and monthly
digest share.

### Lends, Billers, Investments

`Lends` holds one account's plain transactions, lends, settlements and the
derived repayments in `book`. What is one locked transaction is one step; where
a request reads without a lock (`MarkPaidFor`, `checkPin`, `SetSettlementLend`,
`Forgive`, `EditAdjustment`, the PATCH of a transaction) the read and the write
are two steps and anything commits in between. `Rebalanced` is
`RebalanceLends`, which recomputes the repayments of a person, and `Commits` the
check that no payment precedes its lend. `Billers` has one biller, what is
recorded for each cycle, its alerts and tasks; `Investments` one investment, its
payments, `invested_amount` beside them and the automatic debit.

### Sessions, EmailCodes, McpGrants, Idempotency

`Sessions` has one email address and one cookie jar. A tab's request goes
through the statements of its handler: `ResolveOrLink` is the SERIALIZABLE
transaction of `resolveOrLinkIdentity`; `VerifyLogin`, `FindByEmail`,
`RestoreByEmail` or `CreateByEmail`, `Identify` are `handleEmailVerify`;
an UPDATE of `deleted_at` that fails unnoticed lets the sign-in go on with the
account in its grace (`unrestored` remembers the account). `IssueSession` inserts the refresh token and `Reply` sets the cookie; `Present`,
`Consume` and `Logout` are refresh and logout, which work with the cookie as it
was when they were sent. `IssueNative` and `ExchangeNative` hand a sign-in over
to the app. `SoftDelete`, `CancelDelete` and `Purge` are `api/takeout.go`.
Foreign keys decide what an insert does once the account is gone. `EmailCodes`
splits a send into count and insert, and a check into the choice of a row and
the look at it under its lock, as READ COMMITTED does; `CountFails` is the send whose
count failed, which goes on (`uncounted`). `McpGrants` follows the
secrets one approved client is given; a spent refresh token stays for the grace.
`Idempotency` runs the copies of one keyed change around any handler.

### Ledger, Budgets

`Ledger` has two accounts, their rows, two slates and the statements of the card;
`desk` holds what an open request has read. `CheckDuplicate` and `Record` are the
create lock and the insert under it; the assistant's creations and forced ones go
from `ResolveSlate` to `Record` unchecked. `Edit` moves both legs of a transfer,
`EditByAssistant` one. A statement is computed in `ReadCharges` and `ReadBalance`
and written in `CloseCycle`; paying it is `ReadUnpaid`, `MarkPaid`, `PostPayment`.
`MCMoney` takes it in two parts, slates and card. `Budgets` is the transaction of
`updateBudget` statement by statement, under READ COMMITTED: a DELETE waits for
another's, and does not see what that one inserted.

### Releases, WatchHistory

`Releases` is one title's date and status, the sweep that graduates it and the
notice of the day before under a claim. `WatchHistory` is one show: an edit is
`ReadShow`, `WriteShow` and `CompareShow`, as the handler snapshots, writes and
rereads; `ReadRun`, `MergeRun` and `BeginRun` merge entries within half an hour, the
look at the latest one apart from what is written to it; `LookStale` and
`ApplyRefresh` are the weekly look for new seasons.

### Documents, NoteFolders, TaskFiles

A request of `Documents` is the list of statements it still has to run over one
row, its stored text and its tags. The four kinds of page differ in that list. Failures
are of four kinds, as the handlers treat them: `Refuse` is a statement whose error
ends the request with an answer that says so, `Withdraw` a note whose commit failed,
`Overlook` a statement whose error nobody looks at, after which the request goes
on (a failed look for the row counts as no row, so that emptying a day deletes the
object of a row that stays), `Halt` an instance that stops. `strained` names what went
on or broke off: "mixed", "torn" for a removal, "late", "untagged". `NoteFolders` has notes, folder rows and paths with letters
that LIKE and SUBSTRING treat specially; a deletion lists objects, deletes rows
and then objects. `TaskFiles` has a task, its subtask and their attachments; a listing
of files may fail or break off, each delete of an object may fail, and so may the
delete of the task, and the request goes on and answers ok. `upsets` remembers which:
"twin" (two uploads of one name), "late" (an image attached during a deletion),
"left" (an object not found or not deleted), "kept" (a task not deleted after its
objects were).

### Events, Chats

`Events` has a transaction of `updateEventEntry` in three steps, `MoveEntry` for an edit
that brings no values and so leaves them, and a reader who
pages through the list. `Chats` plays a conversation round by round: `StreamRound`
(the model may speak, call tools, repeat a call or fall silent), `RunTools`,
`WrapUp`, `SaveChat`, with the validation and trimming of histories written out.

### Thinking

One project. A change of a card is a transaction with its beginning (NOW()), its
lock and its commit; creating a card is the insert and, apart from it, the stamp
of the project. `ReadProject` and `Synthesize` are the two ends of writing a
brief. `ReadSiblings` and `Enriched` are an enrichment in the background.

Histories (variables marked as such) remember what the code does not store: who
was told of what, which row was written on the strength of a read that was
overtaken. Properties use them to say when a promise may fail, so that each
exception is a named event of the code.

Where one idea has several statements, a run checks their conjunction under one
name: `SeriesInOrder` is `SequenceOrder` and `OnGrid`; `FollowsRule` is
`OnCadence`, `EndsByRule` and `KeepsClock`; `ReleaseToldOnce` is `HeardOnce` and
`ReleasedOnce`; `WaitsInOrder` is `CircleNeedsRace` and `WaitsForOpen`;
`ClosesInOrder` is `DoneOverOpenNeedsGoalOrRace` and `GoalFollows`;
`ToldOfItsTime` is `StampTold` and `ToldOnce`; `KeepsReminding` is
`MissedOnlyExcused` and `RuleFits`; `AlertsInStep` is `AlertFollowsPlan`,
`AlertedOnce` and `LapsedIsRearmed`; `CardsHold` is `TrailTellsState` and
`LinksLead`; `BillAddsUp` is `ChargeWhole` and `LendsMatchRows`; `PaidInOrder` is
`CoversCurrent` and `PaidAfterLent`; `CyclesTold` is `CyclesAccounted` and `Told`;
`InvestedAddsUp` is `InvestedInStep` and `DebitsAccounted`; `RowsHold` is
`LegsMatch` and `NoEcho`; `StatementsHold` is `StatementsAddUp` and
`PaidOnceUnlessReopened`; `SignInsHold` is `OneTokenPerSignIn` and `StaysSignedIn`;
`WatchedAsTold` is `HistoryIsTrue` and `AnnouncedOneTime`; `PageWhole` is
`RowHasText` and `TagsTellText`; `NotesKept` is `TextKept` and `FiledAsAsked`;
`EventsHold` is `OneEditHolds` and `PagesShowAll`; `HistoryTellsAll` is
`AllPaired` and `TellsEveryRun`; `ChatsHold` is `ExchangesKept` and
`CapPassedTogether`.

## 4. Runs

| Run | Question | Instance |
|---|---|---|
| `reminder_series` | Do edits, snoozes, skips, deletions and a delivery keep the series whole, and implement `ReminderPromise`? | one handler, a rule of two occurrences and one with an end date, 7 rows, clock 4, 2 edits, account deleted once |
| `reminder_delivery` | Is a time told twice, or an occurrence out of reach of the sweep? | two handlers, one-time rule, one each of a failed send, a failed enqueue and a dead request, one snooze, clock 7 |
| `calendar` | Do rules, tasks, streaks and releases stay on the right dates, and does a title leave Upcoming? | 14 rules from 31 Jan and 29 Feb 2024 and 17 Aug 2026 to 2029, four skipped hours, late sweeps; a habit with 5 past days, 2 more, 3 writes, 2 requests; a title over 3 days, 2 edits, 2 runs of the job |
| `planner` | Which rules on blockers, subtasks and goals survive two requests? Is a reminder, alert or digest told twice, never, or of an old date? Does a brief that no change overlapped know when it leaves something out, and does a card's trail tell its state? | every orderly board of a goal and two tasks with at most one that waits, two requests, either may die; two handlers, one to three mishaps and edits per behaviour; clocks 4 and 5 (tasks), 10 (plans, of three ticks a day), 5 days (digests); a project of two cards, three requests, two at a time |
| `money` | Do amounts and dates kept in two places agree? | two people, amounts to 2, 2 days, three requests (two behind a bill already lent and repaid), two open; 3 months and 3 cycles, payments to 2; two accounts, four rows, three requests; a budget over one named slate and one category, two requests |
| `account` | Is a cookie, code, app token or keyed change used once, and does it survive the retries it is meant to? Do pages, files, folders, entries, watch history and conversations stay whole? | two requests of each kind; 2 sign-ins, 3 tokens, 2 accounts, 3 days, one lost request; 4 mails, 2 an hour, 3 ticks; 3 app secrets, one grant, grace 2 of 3 ticks; one cut copy, 6 ticks; 2 seasons, 3 views, one less behind a saved show; 4 writings of 2 texts; one note, 5 folders, 3 errands; 4 uploads; 2 variables, 3 entries, 2 instants, pages of one; 2 chats of 3 rounds, a window of 8 |
| `reminder_snoozed_past` | expected violation: a snooze past the next date of the series | one handler, a snooze, no failure, sweep every tick, grace 2 |
| `reminder_snooze_lost` | expected violation: a snooze under a delivery | one snooze, no failure |
| `task_blocker_circle` | expected violation: a circle of blockers | two requests |
| `task_goal_over_open` | expected violation: a goal done over an open subtask | one request, a goal and three tasks |
| `biller_quarterly` | expected violation: two payments within one quarter | one request at a time, no crash, no edit |
| `chat_dangling_call` | expected violation: the model is handed a call without its answer | one session, no parallel chats |

Why the bounds are enough. The statements relate one row to at most two others
(a task, its blocker, its parent; a lend, its bill, its payment), and every race
in the code is between one read and one write of another request, so two
requests on three rows reach each of them; the longest chains (three rows for a
circle through two links, a grandchild under a scratched child) are there.
Clocks are long enough for one lease to run out and one more delivery to begin,
and longer than grace. Three days are one of grace and the one that purges; three app
secrets are a code, a token and its retry or successor; six ticks let a claim go stale, be
taken over and be pruned. Amounts to 2 tell whole, part and nothing apart. Dates
include short months, a leap day, both sides of a year and late sweeps longer
than a period. `reminder_delivery`, `planner`, `money` and `account` reduce
handlers, requests or people by symmetry; no property names one of them and none
is a liveness property, so this is sound; `calendar`, which has one, uses none. Deadlock is checked for the two passing
reminder runs, where an idle handler can always run the sweep once more; the
other runs switch it off because their bounds (requests, days) are used up.

What the six violations show:

- `reminder_snoozed_past`: `advanceTx` opens the next occurrence at the rule's date
  after `scheduled_at`, whatever the clock says, and a snooze may be of up to 30
  days. Delivered after the next date has passed by more than the grace, a
  daily reminder is followed by an occurrence no fire and no sweep takes: the series
  stays active and silent until its owner skips or edits it, against
  `reminder/recurrence.go:104` and `reminder/store.go:62`.
- `reminder_snooze_lost`: `Complete` updates by id and status. A snooze during
  the send clears the claim and moves the time, then the occurrence is marked
  delivered all the same.
- `task_blocker_circle`: `block_task` and `updateTask` read the chain before they
  write and lock only their own row; two links side by side close a circle, on
  which the recursive query of the next check does not end.
- `task_goal_over_open`: a month goal finishes when its direct children are
  closed; a scratched child over an open grandchild lets it.
- `biller_quarterly`: `pay_biller` knows no quarterly frequency and moves the due
  date one month. The statement counts payments and nothing else: two cycles that
  were paid lie a period apart. The trace has a biller of every three months paid for
  the cycle of month 2, then for that of month 3. `CyclesAccounted`, which asks
  whether a cycle was passed over, starts its count again at such a date.
- `chat_dangling_call`: `ai/sessions.go:128-131` promises a history that never
  ends with a dangling call. A chat that used up its rounds and was not summed up
  is saved with one; loading and trimming cut an answer off another pair, and the
  next question follows a call that has no answer.

## 5. Fairness and time

One property is a liveness property: `LeavesUpcoming`, that a title whose release
date is reached leaves the Upcoming status. It assumes weak fairness of `Graduate`
alone, the sweep over rows whose date has come. The code provides it by itself:
`cmd/main.go:119-165` runs the release job at boot and every hour while an
instance lives, and reading the library runs the same UPDATE. Nothing is assumed
of the announcing run, of edits or of the clock.

For everything else the scheduler's ticks and the retries of Cloud Tasks are
promises of the platform, not of this code, so what must happen in the end is an
invariant: `StillComes`, `MissedOnlyExcused`, `LapsedIsRearmed`, `Told` and
`DebitsAccounted` say that whatever is still owed is within reach of a handler or
a run, or name what went wrong. Time is bounded where the deployment bounds it: `Tick` lets no request
outlive `MaxRun` (60 s against a lease of 5 minutes; `CopyRun` against the two
minutes after which a claim is stale), no due fire wait longer than
`QueueDelay`, no `SweepPeriod` pass without a sweep.

## 6. Proofs

`StandaloneRemindersProofs`, for any number of handlers, rows, rules and ticks:

- `TypeCorrect`: `Spec => []TypeOK`. Inductive: `TInv`, which adds `SeqBound` (no
  sequence exceeds the last id), because the next sequence is read off the rows.
- `SeriesAlwaysRuns`: `Spec => []SeriesRuns`. Inductive: `SInv`, `TInv` with
  `Fresh`, that ids not yet drawn have no row. Only then is the row an advance
  opens the one pending row.
- `ImplementsPromise`: `Spec => KeepsPromise`. Each step is a step of
  `ReminderPromise` or a stutter (`StepPromise`): claims, sends and crashes
  stutter, and every statement that closes a row opens the next.
- `DuplicatesOnlyAfterLoss`: `Spec => []DupsOnlyAfterLoss`. Inductive: `LInv`,
  which says why a lease works without a version column: a request dies before
  its lease (`Alive`), the row still carries that lease unless a snooze moved it
  beyond the request's life (`Leased`), so no two requests hold the same time
  (`Apart`), and a time that was notified is past and is either no longer on the
  row, or its request is about to complete, or that request died (`Notified`,
  `Repeats`).
- `SeriesStillComes`: `Spec => []StillComes`. Inductive: `RInv` beside `SInv` and
  `LInv`. While nobody is at the occurrence, neither its claim nor the last sweep is
  later than its time and what the setbacks cost, a lease and a sweep each
  (`InReach`); so the next sweep comes within the grace, and whoever takes the
  occurrence took it by then. A sweep that finds nothing finds the occurrence still
  to come or claimed, since it cannot be over. Fires play no part in it: they may
  all be lost. The proviso on `Grace` is what the deployment has to provide: a
  sweep every 5 minutes in 30 minutes of grace allows two setbacks, with leases of
  5; the once-daily sweep `DEPLOY.md:249-258` offers allows none, and there
  `reminder/store.go:23-25`, by which the sweep picks up what was not queued, does
  not hold. `Ahead` leaves out the occurrences `reminder_snoozed_past` shows.

- `SeriesStaysInOrder`: `Spec => []SeriesInOrder`. Inductive: `OInv`, the property
  with `Unused` (a series that was never created has no rows), beside `SInv`, which
  gives the one pending row; the grid half needs that a step of the rule stays on
  it (`StepOnGrid`).

They use `RulesAssumption` and `TimesAssumption` (constants are what they are
declared to be) and, for `DuplicatesOnlyAfterLoss`, `TimeoutAssumption`: a request ends
within the lease and before the least snooze, which is what Cloud Run's 60 s
against 5 minutes and 1 minute give. It is needed: with a longer request, two
handlers hold one time.

Each theorem below is `Spec => []P` for the `P` a run checks, for every value of
the constants, from an inductive invariant that begins with what the variables
hold (`...Types`). Its second half is what makes the property stay.

`AccessProofs` (assumptions: what the constants are, a lifetime of codes shorter
than the hour they are counted in):

- `ChangeAppliedOnce` (`AppliedOnce`). `Alone`: at most one copy is between its
  claim and its end, and the claim is its own. A stale claim may be taken over
  only because a run is shorter than the time after which a claim is stale.
- `CodesStayBounded` (`CodesBounded`). `SendsBounded`: the codes of an hour and the
  senders who have counted but not inserted together stay below the limit plus
  the senders there are and the sends that nobody counted. `CodeUses`: a code that is used has opened one sign-in.
- `GrantsGraceHolds` (`GraceHolds`). `RowsTell` and `RowsKept`: a row says when its
  token was first used, and a token that works by its dates has its row;
  `OneLine`: of one code and its tokens one is fresh. `Unused` and `UnderGrant`
  are why a new secret is new.
- `SessionsHoldSignIns` (`SignInsHold`) and `ReturnersKeepTheirAccount`
  (`ReturnKeepsAccount`). `TabMoves`, `TokenMoves` and `AccountMoves` say what one
  statement changes; the rest follows per statement. `OneCarrier`: a sign-in is a challenge, a code, a token or
  a request, and only one of them. `Fresh`: a token on its way to the browser has
  been nowhere else, so nobody can have spent it. `Knows` and `Hanging`: everything
  hangs on the account there is, and a request that will stay has it undeleted or
  unrestored; `Gentle`: an account leaves `unrestored` only by a restore that
  worked; the foreign keys do the rest. So a sign-in by mail that completed keeps its
  account unless its own UPDATE of `deleted_at` failed unnoticed.

`StorageProofs`:

- `ImagesMatchTheirRows` (`FilesMatchRows`), in two halves with their own exceptions.
  `ShownInv`: without twins and kept tasks, a name is one row's or one request's
  (`OneName`), and a row has its object or a deletion that will take the row
  (`RowsOpen`), whatever other statement fails. `LeftInv`: with nothing late and nothing
  left, an object is `Claimed` by a row no deletion takes without it, or by a request
  that will write its row or erase it. `Opened` says what an open request knows.
- `NotesStayFiled` (`NotesKept`). `Listed`: a note on a deletion's list is in the
  folder, gone, or known to have left; `Tidy` with `Owed`: what is not yet where
  the owner put it is what an open request has still to do. The path lemmas
  (`LikeIsBelow`, `CarriedIsRehung`) say when LIKE and SUBSTRING do what was meant:
  for names without wildcards and wide letters.
- `PagesStayWhole` (`PageWhole`). `TextStage` and `TagStage`: what a request that runs
  alone, and whose statements have not failed unnoticed, has found or done, statement by
  statement; `Routes` says which statements can
  be left, so that the argument goes by statement and not by list.

`MoneyProofs`:

- `BudgetKeepsOneEdit` (`HoldsOneEdit`). `OneEdit`: an edit that runs alone has the
  rows it deleted, and those it wrote, as the only ones.
- `RowsStayInStep` (`RowsHold`). `AtDesk`: one draft at a time holds the create lock,
  and no row that stands as it was sent in the last minutes says what the draft
  says; `NoDraftGiven`: numbers given are new, so that the legs of two transfers
  never name each other.
- `StatementsAreTrue` (`StatementsHold`). `InFigures`: while nothing is written late,
  what a request has read for a cycle starts at the last statement before it and is
  what the rows of the period say, so the statement before and the period join
  (`PeriodsJoin`, `BalanceIsSaid`) to the whole history of the card. A step keeps the
  figures if the card's rows stay as they are up to the days somebody has used
  (`SameUpTo`, `FiguresStay`); a step that does not is one `quiet` remembers.
  `PaidInTurn`: while nothing opens a statement again, one request is paying it and
  none that has marked it finds it unpaid.
- `InvestmentAddsUp` (`InvestedAddsUp`). `RunsInOrder`: what a run of the debit has
  passed is posted, and it goes by the maturity that stands, unless the owner edited
  the debit under it; `PayedMore` and `PayedEdited` say what one payment, and one
  edit of it, does to the total.
  The assumptions say that dates and amounts are naturals.
- `BillersTellCycles` (`CyclesTold`). `Fits`: a date is on the biller's grid and every
  cycle before it is paid; `Follows`: so is each date an open payment or job run is
  about to write, which is why writes out of order pass nothing over. `AlertTells`:
  what is not yet told has a run that will tell it. `BillersAssumption` is needed
  for the grid: periods are 1 to 3 months, as `api/billers.go` has no longer one.

`LendsProofs`, for any number of people, amounts, days and open requests. The three
rest on one inductive invariant, `LendsInv`: the tables are `Sound` and `PaidUp`, and
an open edit of a forgiven amount still has the payer it read (`Asked`).

- `BillsAddUp` (`BillAddsUp`). `Sound` says what each kind of row goes with, in parts:
  `ShareRows` (a split row is there exactly while a lend sits on it), `CashRow`,
  `PaidRows` (what settles is there and, but for a stale edit, a repayment) and, while
  no stale edit or mark hit the bill, `BillRow` (a lend and its row agree, and a bill
  that is one person's lend is shared with nobody else). `Priced` is the sum: `Charged`
  counts an absent row as nothing, so a split, a mark and its undo move an amount from
  one slot to another (`TradesCharged`, `SplitCharged`).
- `PaymentsStayInOrder` (`PaidInOrder`). `PaidUp`: each person's repayments are
  `Current` and come `After` the lends they pay. A request `Touches` the lends and
  payments of the people it rebalances, and `Rebalances` recomputes theirs; of
  everybody else it has to leave rows, pins and dates as they are, which is shown
  change by change. That a lend is never covered beyond its principal is `CoverSum`, by
  the last payment in order (`LastPayment`).
- `ForgivenStaysOwed` (`ForgivenIsOwed`, an action property). `OwedBut`: one payment
  changes what a person owes by its own amount, whatever else they have.

`LendsAssumption` says that `People` is finite, that prices and days are naturals and
that a missing row is no row. The proof attempt of `PaidUp` met a guard the model
had missed: a transaction that already settles a lend is refused by the unique key of
`fin_lend_settlements`, also when a stale edit has made it an income again;
`SettleWith` now has it.

`PlannerProofs`:

- `DigestsNudgeOnce` (`NudgedOnce`). `CalmDay`: without failure one run is at work,
  and what it has told is what it has stamped and what it is about to stamp.
- `BriefsAreFlagged` (`BriefFlagged`). It speaks of the briefs that no change
  overlapped and of no others: a change that is under way while the brief is
  written is hidden by the stamp, and that case is neither checked nor proved.
  `Flagged`: what a brief written alone leaves out
  is flagged, or a request that is younger than the brief is about to flag it;
  `WritesAlone`: a brief nobody interferes with tells all. Every change of a card
  blinds or outdates the briefs under way (`InterferesBlinds`, `OutdatesPast`).
- `AlertsStayInStep` (`AlertsInStep`). `ReadsTell`: what a handler has read for its
  `Advance` is the plan as it is, unless a save came between; `WorksAlone`: without a
  save that meets a handler, one handler is at work, under the claim and on the
  alert the row has, since a claim outlasts its request; `ToldBehind`: what was told
  lies behind the next alert. `LapseTold`, for the lapse, needs no such exception:
  whatever is armed is younger than a request and the grace, and a sweep that finds
  the alert claimed is paid for by the end of that claim, by the handler that holds
  it or by a setback. The bound this gives is two requests and the grace more than
  the sweeps; with a request and no grace TLC finds a save that overtakes a handler,
  whose `Advance` then arms a moment already over. `PlanAssumption` is needed: a claim
  is shorter than a day.
- `RemindersKeepComing` (`KeepsReminding`). `WillRing`: a bell that is obliged to ring
  (open, on, armed, not stamped, with nothing that excuses it) is in a handler's
  hands, or its time is not over, no claim covers it and a fire is queued within the
  window; `FireIsHeld`: a fire in the hands of a handler is of the bell the handler
  is at. `FitsScope`, for the rule: `Fit` gives one that fits, and every other
  request keeps the scope or is the one that marks the task `unfitted`. The proof
  needs that NULL is no number.
- `RemindersToldOnce` (`ToldOfItsTime`). `AtHand`: a handler nobody disturbed holds
  the claim of the arming it is at for as long as it may run, so a second one has
  to wait until it is gone (`OneAtHand`); what was told of the arming a bell has is
  stamped, or its teller is about to stamp it, or died (`HeardOf`). Each edit keeps
  this because it stamps nothing and a stamp survives only where time and switch
  do (`Spares`, `EditTells`). `DeliveryAssumption` is needed: a request ends within
  its lease. `ScheduleAssumption` has it that a field not sent is no time.

`CalendarProofs`:

- `ReleaseIsToldOnce` (`ReleaseToldOnce`). `HeardOf`: one announcer at a time, who
  holds the claim, and the owner has heard only of a date that is stamped or about
  to be; `ResolvedWell`: what an edit resolved agrees with its date unless it was
  overtaken; `InTime`: a logged release is of a date that has come.
- `ResendsDoNoHarm` (`ResendHarmless`, an action property of `Habits`).
  `WantedOtherwise`: a request between its read and its write has seen the day
  other than it is wanted, so its write can only go the wanted way.
- `HistoryStaysTrue` (`WatchedAsTold`). `EntriesTell`: an undisturbed edit that has made
  the show complete owes the one entry that is missing; `OneViews`: what an edit alone
  compares with is the row it read; `LooksUpAlone`: the row never has fewer seasons
  than were told, so neither has what a lone refresh looked up. `RunsMerge`: who
  has read the latest entry alone goes on with that entry and nobody else has one in
  hand, and who found no open run adds one where none is; so a sitting is split only
  where two requests were open together, a cut notwithstanding.
  `WatchAssumption`: the mark of a missing row is not a row.
- `EventsStayTogether` (`EventsHold`). `Counted`: without two additions at once, whoever
  is about to add a variable still has room for it; `CutsAll`: an edit that crosses no
  other has cut every value its entry has, so that what it inserts is all there is;
  `Parted`: what has been shown lies at or above the cursor and, while no page ended
  within an instant, all that stood above it has been shown. `PageIs`: the latest
  rows up to the page's size have nothing later left out. `EventsAssumption` is
  needed: a page is not empty, no instant is the cursor's 0, and the two variables
  an event may start with are within the limit.

`SetLemmas` has the facts about naturals and finite sets the others cite: a set
of naturals has a least member, a bounded one a greatest, and a set of
cardinality at most one has no two members. It also has the sums of `MoneyProofs`
and `LendsProofs`. The library's sum is a recursive function over subsets that takes
members in an order of its own choice; `TotalOf` and `TotalUnion` show that the order
does not matter, from the smallest set for which it would.

Model-checked and not proved:

- Liveness: `LeavesUpcoming`.
- What folds or recursive functions compute, which needs induction over data:
  `FollowsRule`, `StreaksAreRuns`, `WaitsInOrder` and `ClosesInOrder` (chains and trees
  of any depth), `CardsHold`, `HistoryTellsAll`, `ChatsHold`.

## 7. Not modelled

Out of scope: read-only views and statistics, bookmarks, links, themes and task
lists (one statement per request, nothing shared but the row), export and import,
routing, mail and push payloads, telemetry, configuration, the storage backends.
The assistant's tools are actions of the modules they write to. Within the
modelled parts:

- A change of the owner's time zone, and clocks of database and instance that
  disagree.
- Loops of parents: the code refuses a task as its own parent and no longer
  loop; `NoLoop` leaves these boards out, since every walk down the tree would
  have to be cut off.
- Identity providers, OAuth state, PKCE, redirect rules, scopes and metadata
  documents; access and media tokens, which are signed and not stored.
- Wording, positions, steps of a task, seen flags, due dates of lends, categories
  of transactions, refunds' link to their purchase; names, units, colours, places,
  ratings, pins.
- Dropped errors elsewhere. Failing statements are modelled where a property depends on
  them (pages, attachments, sign-in, mailed codes). In `NoteFolders` a statement of
  `renameFolder` or of a folder's deletion works or the request ends, though the
  code goes on after some failures. Everywhere, a commit or an INSERT ... RETURNING
  whose answer is lost is taken as not done, and so is a write to the object store
  that reports an error.
- The cap of tokens beside the assistant's cap of requests, which refuses more
  chats and changes nothing else.
- What the model answers: any sequence of speech, calls and silence; reading a
  bank message, guessing a kind and titles of chats are left out.

What reading the code for these models showed and no run states:

- Edits during a delivery. A reschedule or patch can be stamped as sent though
  only the old time was told; a PATCH of `scheduled_at` leaves
  `reminder_claimed_until`. A time set while a task is closed has no fire after
  it is reopened. A plan saved between the two statements of `Advance` is
  overwritten. A lend reminder stamps the due date as it is by then.
- Scopes. A patch of `scheduled_at` on a week or month task, or a creation with
  `week_of` and `month_of`, leaves two scopes, which `db/db.go:275-277` excludes.
  `reschedule_task` and a plan's `AddTask` turn a repeating week or month task
  into a day task without `taskrepeat.Fit`: it stops repeating.
- Rules. Weekdays more than 522 weeks apart end a series silently; daily and
  monthly series keep the hour they slipped to in a daylight-saving gap; a yearly
  task of 29 Feb stays on 28 Feb; a monthly rule whose day comes later in the
  start's own month skips that month.
- Access. Answering a link challenge signs in without clearing `deleted_at`, so
  an account in its grace is purged in spite of that sign-in (AUTH.md:340 lists
  the grace as ended by signing in); `ReturnKeepsAccount` leaves it out. So is one
  whose UPDATE of `deleted_at` failed at a sign-in by mail, since its error is
  dropped (`auth/linking.go:146`); `ReturnKeepsAccount` names it. A logout
  whose cookie a concurrent refresh has just spent ends nothing, and the reply of
  that refresh sets a live cookie afterwards. A mailed code that was superseded
  opens a sign-in again once the newer one is used, within its ten minutes. The
  limit of three codes an hour is passed by requests that count together, and by every
  send whose count fails (`auth/email.go:52-54`). A
  change whose handler fails with 5xx after its commit runs again on retry.
  AUTH.md:479 calls the purge not implemented; `cmd/main.go` runs it hourly.
- Money. A bill keeps `auto_renew` when its kind and the flag are edited at once.
  A PATCH reads a transaction's type without a lock and can write over a
  row that became a lend. The assistant's `update_transaction` moves one leg of a
  transfer where the API moves both. `auto_renew` without an account is neither
  charged nor alerted. The job writes `next_due_date` on every pass, over an edit
  made meanwhile. Two edits of one investment payment at once shift
  `invested_amount` twice. Billers the assistant creates have no anchor day and
  drift from 31 to 3.
- Ledger. A row or payment dated into a closed cycle enters no later statement. An
  opening credit is not carried. A statement unmarked and marked again posts a
  second payment, and so do two requests that find it unpaid together. Editing a
  leg's account may put both legs on one account. The assistant's
  `create_transaction` has no duplicate check; its `move_to_slate` also moves
  lends, which the API leaves. Two crossing budget edits merge their lists; a
  budget whose only named slate is deleted counts Plain.
- Media. `createMedia` does not check that what was watched is at most what there
  is; every PATCH after is refused. Two creations side by side make a double. An
  edit across midnight may write Upcoming back, and `released` is logged twice.
  `add_media` writes back a date it read before.
- Pages. Emptying a day deletes the stored text and answers `deleted: true` also when the
  look for the row or its delete failed (`api/journal.go:266-271`): the row stays
  without text. A PATCH of a deleted memo answers ok and leaves tags behind;
  `create_journal` replaces the text and keeps the old tags; a save crossing a
  deletion leaves a row without text.
- Folders. A `_` in a name makes LIKE match others; `len(from)+2` counts bytes where
  SUBSTRING counts characters, so names with wide letters lose one; a folder renamed
  into itself moves its notes twice; a note moved out while its old folder is being
  deleted loses its text. "next note save will rewrite under the new key" is not
  what a save does.
- Files. `DeleteTaskFiles` returns silently when its listing fails and looks at no
  delete's error, and the caller deletes the rows: the objects stay. `deleteTask`
  answers ok when the task's own delete failed, after its images are gone. Two uploads of one image in one millisecond share an object; an upload
  between list and delete leaves an orphan; `delete_task` leaves tags and backlinks.
- Events. Two additions counted together make a seventh variable; entries that
  share an instant across a page's end are skipped.
- Chats. Overlapping chats of one session lose an exchange. Tools' effects stay
  when the exchange is dropped on an error. The budget is per instance, forgotten
  at a restart, and a client that leaves is not charged.
- Thinking. A change under way while a brief is written is hidden by its stamp: the
  project does not ask for a new brief though it misses the change (`BriefFlagged`
  names the case). A background enrichment writes over what the owner made of one.
