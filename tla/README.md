# Attendio backend: verification project

TLA+ models of the Attendio back end, the TLC runs that check them on small
instances, and TLAPS proofs of their safety properties for every instance.
Paths below are relative to the repository; `X.py:n` is a line of it.

Contents: 1 the system, 2 the hard parts, 3 how code becomes model, 4 the modules,
5 the runs, 6 bounds, 7 fairness and deadlock, 8 proofs, 9 disagreements with the
code's own tests, 10 what is not modelled, 11 plan.

Run `tlc -config <Run>.cfg <Module>.tla` and `tlapm <Module>Proofs.tla` in this
directory; three of the proof modules cover two components (section 4).

## 1. The system

Attendio is a set of FastAPI services, each with its own PostgreSQL database,
behind an nginx gateway. Services know each other by JWTs, by HTTP calls with an
internal token, and by events on a Redis or RabbitMQ channel.

| Component | State it keeps | Operations | Talks to | Module |
|---|---|---|---|---|
| attendance-service | entries, breaks, correction requests, approvals, period locks; shifts, kiosks, holidays, geofences, policy | check in and out, start and end a break, manual entry (single, by CSV, by the employee), reset of a day, request and review a correction, lock and unlock a period | auth (profiles), leave (holidays are served to it) | Attendance, AttendanceHistory |
| leave-service | requests with one approval per level, grants, entitlement policies, leave types, company policy | submit, cancel, review, balance, grant, configure; consumer of `auth.employee.registered` | attendance (holidays, fails open), auth | Leave, LeaveHistory, LeaveLifecycle |
| billing-service | one subscription and one licence per company, invoices, events received | status, checkout, plan change, licence activation and rotation, entitlements, Stripe webhook | Stripe; auth asks it for limits | Billing |
| auth-service: accounts | users, refresh sessions, verification and reset tokens, MFA secret and recovery codes, API keys, login history | login, refresh, logout, revocation, password reset and change, e-mail verification, MFA, impersonation, kiosk login | notifications by event | Accounts |
| auth-service: directory | company with a JSON document (branches, projects, settings, security policy, owner, integrations), employees, employee codes | settings, branches, projects, registration, import, update, status, removal | billing (limits), leave (event) | Directory |
| auth-service: rights and chart | roles and their permissions, overrides, the owner, managers, access tokens | create and assign roles, overrides, normalise the owner, issue a token, change a manager, list teams | every service reads the token | Organization |
| auth-service: sign-on | session cookie, the calendar's tokens in the company's document, accounts linked to Microsoft | connect, sign in, their callbacks, settings, token renewal | Microsoft, browser | Connections |
| auth-service: meetings | meetings, the ids of their calendar events | save with conflict test, cancel, synchronise | Microsoft Graph | Meetings |
| auth-service: scheduling | shift templates with codes, assignments, rosters | save with conflict test, delete | none | Scheduling |
| notification-service | notifications, deliveries, clear marks | create, retry, read, clear | SMTP, events, shared fallback | Notifications |
| storage-service | stored objects and their rows | upload, read, link, delete | MinIO or local disk | Storage |
| shared | none | publish an event, HTTP fallback for notifications | broker | Notifications |
| docs-gateway, nginx, scripts, migrations, generator | none at run time | proxying, documentation, deployment | all | none |

What makes each of the components correct:

* attendance: one open session per user, one running break per session, one
  pending correction per entry; stored minutes that belong to the stored times;
  a locked period that stays as it was, but for what was under way when it was locked; approvals that follow their requests;
* leave: a day is claimed once; a balance is not overdrawn; levels are signed in
  order and an approval needs all of them; only who found a request pending decides
  it; an administrator's entitlement is not replaced by a computed one;
* billing: who pays is served, and who is served has paid or has been promised a
  trial, whatever Stripe's reports go through on their way;
* accounts: a revoked session stays revoked, a one-time secret is used once,
  MFA that is on has a secret, failed logins are counted;
* directory: no writer of the company's document loses another's change, codes
  are unique, there is one owner, references name what exists;
* rights: nobody becomes owner who was not made it, the company has an owner, a
  user has the rights one administrator gave, a token says what was true;
* sign-on: the connection is up or down as last decided, the newest token is kept,
  nobody is refused without a reason, a sign-in ends in the company it named;
* meetings: calendar and rows agree, nobody is in two meetings at once;
* scheduling: codes are unique, nobody is twice in a shift;
* notifications: what is accepted is eventually sent or given up, and not twice;
* storage: an active row has its object, an object has a row, a read finds it.

## 2. The hard parts

FastAPI runs a synchronous handler in a thread pool, several at once, and several
processes may serve one database. No handler locks a row (`FOR UPDATE` does not
occur), the isolation is PostgreSQL's READ COMMITTED, and hardly any rule is
backed by a unique index. So every rule of the form "look whether there is one,
then insert one" can be overtaken, and every handler that writes what it read may
undo a commit made since. Many handlers also commit more than once, and a request
cut off in between leaves the first half. Sessions of the attendance service keep
their copies after a commit (`expire_on_commit=False`), so later reads in the same
request may be old. Stripe redelivers and reorders reports. Events are delivered
at most once, after the commit they tell of; a notification may also be asked for
again. Two stores and one calendar outside the database are changed before or
after the row that speaks of them, never with it. A browser's two tabs share one
session cookie, which every answer replaces.

`PROJECT.json` lists these hazards at their lines, with the properties that guard
against each.

## 3. How code becomes model

* **A handler is two actions.** `XRead(w, ...)` is everything up to the first write: the
  early returns are its conjuncts, and `op[w]` remembers what the handler will
  use later. `XCommit(w)` writes from `op[w]`. Between them other workers may do
  anything. A handler that refuses changes nothing, so it has no action. A handler
  with a second transaction gets a second commit (`RebuildCommit`,
  `WebhookCreatesLicence`).
* **Workers** are the threads a handler can run in. Two give every interleaving of two
  requests at commit granularity; the proofs are for any number.
* **`Abort(w)`**, `Cut(w)`, `Crash` are the ways a request can end early: an
  integrity error, an UPDATE of a row that is gone, a lost connection, a crash. What
  was committed stays, and so does what was done outside the database.
* **A service outside** (MinIO, Microsoft, the mail server, Stripe) does what it is
  asked, refuses, or does it and the answer is lost.
* **History variables** name the causes a property admits: `raced`, `cut`, `lost`,
  `excused` and the like are set by the step that is the cause and never read by
  an action. "X holds unless h" then says that h is the only way to lose X, among all
  orders of calls; section 8 proves it for each. In Leave and Attendance the history
  has a module of its own, which adds variables to every step of the detailed module
  and constrains none.
* **`Written(...)`** is SQLAlchemy's unit of work: a column is written only if the
  new value differs from the one the session loaded. A stale copy therefore
  does not overwrite a column its handler leaves alone. This matters for
  several properties.
* **Rows** are functions over ids, handed out in order and never reused; rows that
  do not exist have status "absent".
* **One company.** Every query is scoped by `company_id`, and no operation touches
  two companies.
* Short operations that read nothing they depend on afterwards (locking a period,
  configuring a policy) are one action.

## 4. The modules

### Attendance (attendance-service/app/services/attendance_service.py) and AttendanceHistory

State: entries (`status`, `owner`, `date`, `checkIn`, `checkOut`), their breaks
(`running`, `ended`), corrections (`corrStatus`, `ask`) with the approval row
inserted for each (`approval`), locks (`lock`), and `basis`: not the minutes
themselves, but the times and breaks the stored minutes were computed from, which is
all a property can ask of them. `unsettled` is history: entries whose last commit
of times was not followed by the commit of their minutes.

| Code | Actions |
|---|---|
| `check_in`, kiosk check-in | `CheckInRead`, `CheckInCommit` (a kiosk commits its minutes as well) |
| `check_out`, `rebuild_entry_metrics` | `CheckOutRead`, `CheckOutCommit`, `RebuildCommit` |
| `start_break`, `end_break` | `StartBreakRead/Commit`, `EndBreakRead/Commit` |
| `create_manual_entry`, `submit_self_entry`, CSV import (row after row) | `ManualRead`, `ManualCommit` |
| `reset_self_date` | `ResetRead`, `ResetCommit` |
| `request_correction`, `review_correction`, bulk review (one after another) | `CorrectRead/Commit`, `ReviewRead/Commit` with `Apply` |
| `lock_period`, `unlock_period` | `LockPeriod`, `UnlockPeriod` |

`review_submission` is left out: it needs an entry that is 'submitted', which no
code produces.

AttendanceHistory tells the requests that were overtaken from those that were not.
`newer[w]` are the locks inserted since w's request began, `behind[w]` the entries
whose row, breaks, pending corrections or approvals others have changed since, and
`crossed` the entries that such a request wrote to all the same. A request that
goes on to a second transaction keeps what it is behind of: its session is not
refreshed by the commit.

### Leave (leave-service/app/services/leave_service.py), LeaveHistory and LeaveLifecycle

State: policy, types, entitlement policies, grants, requests with four approval
slots. Amounts are in half days. `employment_type` and the other profile fields a
policy may match on are one field, `contract`. Priority and name, the order in
which policies are tried, are one rank.

| Code | Actions |
|---|---|
| `create_request` with the grants it materializes and the holidays it fetches | `CreateRead`, `CreateCommit` |
| `cancel_request`, `review_request` | `CancelRead/Commit`, `ReviewRead/Commit` |
| `ensure_policy_grants` (balance, company list user by user, event consumer) | `EnsureRead/Commit` |
| `upsert_grant`, `delete_grant` | `UpsertGrant`, `MoveGrant`, `DeleteGrant` |
| policy, types, entitlement policies | `UpdatePolicy`, `UpsertType`, `ArchiveType`, `UpsertRule`, `ArchiveRule` |

As in the code: holidays that cannot be fetched count as none; a half day counts
as half a day on a day off too, and whether half days are enabled is not asked; an
entitlement once set on a type cannot be unset.

LeaveLifecycle is the abstract specification of a request, for any number of callers
at work on it. It is submitted once with a number of endorsements to collect. A
caller takes it up only while it is pending and decides it later from what was seen
then: approved by the last endorsement seen missing, rejected, or cancelled; callers
who saw the same endorsement missing give one together; none becomes pending again.
Leave implements it under the mapping `state <- req[r].status`, `left <-` the number
of pending levels, `hand <-` what a review or a cancellation in progress has found
(`Found`). What it does not promise, because the code does not keep it, is that the
first decision is final: of two that found the request pending, the last stands.

LeaveHistory keeps, for each call that tests a balance or looks for a grant, the
accounts (a user and a type) that other calls have changed since: `moved[w]`. An
account is what a balance is computed from: the grant, the type's entitlement,
whether the policy allows a negative balance, and what is taken and pending.

### Billing (billing-service/app/api/v1/billing.py)

State: the company's subscription `sub`, its licence `lic`, Stripe's own
subscription `stripe`, the reports it has not seen acknowledged (`mail`), the clock
in days, and `promised`, the history of what the company was promised.

| Code | Actions |
|---|---|
| `get_or_create_subscription`, `get_or_create_license` | `CreateSubscription`, `CreateLicence` |
| checkout of the free plan, `change_plan`, `activate_license`, `rotate_license` | `SelectFree…`, `ChangePlan…`, `Activate…`, `Rotate` |
| `stripe_webhook`, `apply_stripe_event` | `WebhookRead`, `WebhookCreatesLicence`, `WebhookCommit` with `Applied` |
| `serialize_subscription`, `serialize_license`, `entitlements_for` | `WorkspaceLocked`, `LicenceActive`, `StandardActive` |
| Stripe (external) | `Subscribe`, `Renew`, `Recover`, `Cancel`, which append to `mail` |

The webhook is an `async def` without an `await` after its body is read, so the
event loop, `Loop`, runs one at a time; administrators' calls run in `Threads`.
`Threads = {loop}` makes every call wait for the other. A report may be delivered
again (not acknowledged) and up to `Reach` places before its turn.

### Directory (auth-service/app/services/auth.py, api/routes/employees.py and admin.py)

State: the company's code sequence `seq`, its metadata document `doc` (the ids of
branches and projects; the other keys change nothing that is modelled, but their
writers put the whole document back), and `people`: of each employee the status
(`deleted`, or anything else as `live`), the code and the branch and projects named.
History: `revived` (back by a change of status, past the limit), `reused` (a number
was given up or handed out twice), `raced` (a commit went by a document, or by a list
of rows, that had changed since it was read).

| Code | Actions |
|---|---|
| `create_employee`, `create_bulk`, `import_employees`: the limit | `RegisterCheck` with `RoomFor` |
| a row of them, `register_employee` | `RegisterNewRead/Commit`; for a removed employee `RegisterAgainRead/Commit` |
| a row of a file that names an employee | `ImportUpdateRead/Commit` |
| a row refused or rolled back, the call goes on | `RowFails` |
| `update_employee`, `update_employee_status`, `delete_employee` | `UpdateRead/Commit`, `UpdateStatus`, `DeleteEmployee` |
| `upsert_branch`, `upsert_project`, settings, security policy | `UpsertBranchRead`, `UpsertProjectRead`, `SettingsRead`, then `WriteCommit` |
| `delete_branch`, `delete_project` | `DeleteBranchRead`, `DeleteProjectRead`, then `ClearCommit` |

Sessions of this service expire at a commit, so the company is read anew for each
row of a list (`loaded`). A code from the sequence is a number; codes made up by an
administrator are other values (`OwnCodes`). An administrator's code in the
sequence's own format is left out: it makes the next allocations fail by intent
of the unique constraint.

### Accounts (auth-service/app/services/auth.py, mfa.py, routes/auth.py, routes/kiosk.py)

One user's account. State: the row `user` (`status`, `attempts`, `until`, whether
the address is verified, whether the second factor is on and has a secret, the
recovery codes), refresh `sessions` with the token whose hash they hold, and `mails`,
the one-time tokens for verification and reset. History: `issued`, `spent`, `uses`,
`handed`, `exchanged`, and `raced` (a commit changed a user row that had changed
since it was read).

| Code | Actions |
|---|---|
| `resolve_local_user_for_login` refusing a password | `FailedLoginRead/Commit` with `LockEnd` |
| `login`, `issue_login_tokens` | `LoginRead`, or `SpendRead/Commit` and `AdmittedRead` with a recovery code, then `LoginCommit` |
| `sso_login` of a known user | `SsoLoginRead`, `LoginCommit` |
| `kiosk_login`, `impersonate` | `GuestRead/Commit` |
| `refresh` | `RefreshRead/Commit` with `Refreshed` |
| `logout`, `revoke_session`, `revoke_all_sessions`, `change_password` | `RevokeSession`, `RevokeAllRead`, `ChangePasswordRead`, `EndSessionsCommit` |
| `forgot_password`, `send_email_verification` | `SendMail` |
| `verify_email`, `reset_password` | `VerifyEmailRead`, `ResetPasswordRead`, `RedeemCommit` |
| `resend_email_verification_from_token` | `ResendRead`, `ResendCommit`, `ResendSends` |
| `generate_setup`, `verify_setup`, `regenerate_recovery_codes`, `disable` | `SetupMfa`, `VerifySetupRead`, `RegenerateRead`, `DisableRead`, then `RowCommit`; with a recovery code `SpendRead/Commit`, `AdmittedRead` |
| `update_profile`, `set_kiosk_pin`, `update_employee`: the metadata as they were read | `WriteMetadataRead`, `RowCommit` |
| `register_employee` of a removed employee, `update_employee_status`, `delete_employee` | `RestoreRead`, `RowCommit`, `SetStatus` |

A password, a code or a token that is wrong, expired or unknown is a call that is
refused, so it is no action, except that a wrong password is counted. A refresh
token is a signed payload with the second it expires and no id: two tokens of one
payload issued in one second are the same string. `Token` is therefore a payload
and a tick, and `ExchangedIsDead` exempts a string handed out twice.

What the code does here that a reader may not expect, and the model has: failures
go on being counted during a lock, each prolonging it; a login that succeeds makes
the user 'active' whatever the status was, while `sso_login` refuses an inactive
user and ignores the lock's end; `change_password` ends the lock and leaves the
status 'locked'; `generate_setup` replaces the secret of a factor that is on;
restoring a removed employee drops the recovery codes and leaves the factor on;
two sessions opened in one second are one to `logout` and to `refresh`, which
find one of them by the hash.

### Organization (auth-service/app/services/auth.py, api/routes/admin.py, deps/auth.py)

State: of each user the status (`active` is every status but `deleted`), manager,
role rows and overrides; the company's own role rows, what each row permits, and the
owner its document names; the access token each user was issued last. History:
`given` (what the last request gave), `raced`, `unseated`, `founders`.

| Code | Actions |
|---|---|
| `assign_user_roles`, `update_employee` with roles, `resolve_role` | `AssignRead`, `AssignCommit` |
| `register_employee` of a removed employee | `RestoreRead`, `AssignCommit` |
| `create_role`, `update_role` | `RoleRead/Commit` |
| `set_user_permission_overrides` | `OverrideRead/Commit` |
| `normalize_company_owner_role`, `issue_payload`, in a login (which makes its user active), a refresh, an impersonation or a kiosk's login (which settle no owner) | `SignRead`, `SignCommit` |
| every other writer of the company's document: it puts back the owner that it read | `DocumentRead/Commit` |
| `delete_employee` | `Delete` |
| `update_employee_status`, `update_employee`, `reset_password` of a removed employee | `Revive` |
| `resolve_manager`, `update_employee` | `ManageRead/Commit` |
| `direct_and_indirect_report_ids`, `list_organization_people` | `Team`, `Above` (recursive functions) |

An association table is flushed as a difference: rows that were read and are not
wanted are deleted, those wanted and not read are inserted, and a request that finds
one of the former gone or one of the latter there fails as a whole (`Fits`,
`Fails`). Overrides are all deleted and inserted anew, so of two such requests both
may apply in part.

### Connections (auth-service/app/api/routes/auth.py, services/auth.py, microsoft_graph.py)

State: each journey of a browser to Microsoft and back (`flows`), the session
`cookie` two tabs share, codes redeemed, the person's accounts, the connection in
the company's document (`doc`) and as an open settings page shows it (`page`), and
the number of tokens issued for the calendar.

| Code | Actions |
|---|---|
| `connect_integration`, `start_sso` | `Start` |
| the session middleware, the browser | `Browse`, `Reply` |
| `integration_callback`, `sso_callback` up to the exchange | `Return`, or `Repeat` when the page is loaded again |
| `exchange_microsoft_code`, `is_oauth_code_replay_error` | `Redeem`, `Replayed` |
| `save_microsoft_integration`, the failure that is stored | `LinkSave`, `Fail` |
| `sso_login` | `SsoLogin` with `SignInTo` |
| `get_company_settings`, `update_company_settings` | `OpenSettings`, `SaveSettings` |
| every other writer of the document | `WriteRead/Commit` |
| `list_meetings`, `upsert_meeting`, `delete_meeting` with `refresh_microsoft_token` | `GraphRead`, `GraphServed`, `GraphRefresh`, `GraphWrite` |

A callback is a coroutine: it can be overtaken while it awaits Microsoft and not
afterwards (`LoopFree`), but threads that serve other requests go on meanwhile.

### Meetings (auth-service/app/services/meetings.py, api/routes/meetings.py)

State: meetings with the id of their event, the calendar's events (external), what
each worker is doing. Time is a slot of a day, which may end on the next. History:
`excused`, `raced`, `behind`, `saved`, `lost`, `edited`.

| Code | Actions |
|---|---|
| `upsert_event`: conflict test, commit of the row | `SaveRead`, `SaveCommit` |
| `upsert_meeting`: the row again, and whether a calendar is connected | `Look` |
| `create_calendar_event`, `update_calendar_event` | `CreateEvent`, `UpdateEvent` |
| `update_external_metadata` | `Link` |
| `delete_event`, `delete_meeting`, `delete_calendar_event` | `Cancel`, `LookAgain`, `Remove` |
| a request cut off; a user of Outlook, the endpoints for its own events | `Cut`, `Outlook` |

### Scheduling (auth-service/app/services/scheduling.py, api/routes/scheduling.py)

State: shift templates with their codes, assignments. History: `given`, `hurried`,
`cropped`, `edited`, `excused`.

| Code | Actions |
|---|---|
| `upsert_shift` with the code it generates | `ShiftRead` with `Generated`, `ShiftCommit` |
| `delete_shift` | `DeleteShift` |
| `upsert_assignment`, `_schedule_conflict`, `_assignment_entry_kind` | `AssignRead` with `Conflicts`, `AssignCommit` |
| `delete_assignment` | `DeleteAssignment` |

A code is a prefix and a number of two digits in base `Radix` (10 in the code); a
third digit is cut off (`Cropped`), as `code[:6]` does.

### Notifications (notification-service/app, shared events.py, auth-service/app/integrations/events.py)

State: where each request's publisher stands, the broker's queue, notifications,
deliveries (`rows`), what each thread of the service is doing and which threads run.
History: `mails` (taken by the mail server), `raced`, `unrecorded`, `unanswered`.

| Code | Actions |
|---|---|
| `publish_event` | `Publish` |
| `_publish_http_fallback`, and the auth service's own second attempt | `Post`, `PostFails`, `TimesOut` with `NextAttempt` |
| `start_consumer`, `handle_event` | `Take` |
| `create` | `Create`, `Skip`, `CreateFails` |
| `retry_pending`, begun by a creation, the loop or an operator | `Select` or `NothingDue`, `Send` and `Postpone` for each delivery, `Commit` or `PassFails` |
| the process, its container, the broker | `Crash`, `Restart`, `BrokerRestart` |

A call ends with what its publisher hears (`Succeeds`, `Fails`), and an exception
ends the retry loop and a RabbitMQ consumer for good. A delivery in the application
is written once and not followed.

### Storage (storage-service/app/services/storage.py, api/routes.py)

State: the mode, whether MinIO can be reached and has its bucket, the objects in
each of the two stores, the rows, what each thread is doing. Uploads run on the
event loop and do not overlap each other; all other calls run in the pool.

| Code | Actions |
|---|---|
| `upload` | `BeginUpload`, then `PutObject` or `PutLost`, then `Insert` |
| `get`, `download`, `presigned_download` | `BeginOther`, `Fetch` |
| `delete` | `BeginOther`, `Remove` or `RemoveLost`, `Unlink`, `MarkDeleted` |
| `_use_local_backend`, `ensure_bucket` | `Probe`, `Make` |
| a failed commit, a crash, MinIO going and coming | `CommitFails`, `Crash`, `MinioDown`, `MinioUp` |

### MC modules and proof modules

`MC<Module>` gives values to the constants of a module that a `.cfg` cannot write,
its symmetry, and for Attendance, Leave, Directory and Accounts the constraint of
section 6.

The proofs (section 8) are in eight modules. LeaveProofs, AttendanceProofs,
MeetingsProofs, ConnectionsProofs and NotificationsProofs are each about the module
they are named after. AccountsProofs also has those of Storage, OrganizationProofs
those of Billing, and DirectoryProofs those of Scheduling. Such a pair shares no
state and no operator; it is extended together so that the theorems of both can be
stated in one place. That is why some names of Storage, Billing and Scheduling
carry the component's name (`StorageSpec`, `BillingTypeOK`).

### How the modules fit together

Where one component only needs an answer of another, the answer is a choice of the
environment: the plan's limit in Directory (Billing decides it), the holidays in
Leave, the profile a policy matches. Where two share state, the sharing is
modelled from the side that can be hurt: the company's document in Directory for
its references and in Connections for its tokens, in both with "any other writer"
as an action; the user row in Accounts, its roles in Organization. Notifications
composes the publisher of the auth service, the shared package, the broker and the
notification service in one module, because the guarantees are end to end.

## 5. The runs

| Run | Question | Result |
|---|---|---|
| attendance | Two requests interleaved, cut off anywhere | `InsertsBounded`: open sessions, running breaks and pending corrections, each at most as many as workers; `NoStrayApproval` and `MinutesCurrent` hold of every entry that no overtaken request has written to; `LockedDaysFrozen`: a locked day is changed only by a request older than all its locks; `LockedHasLock` |
| leave_overtaken | Two calls interleaved while configuration, grants and rules of two types change | `NoOverdraft`, `OverridesKept` hold of every call whose account no other call has changed since it was tested |
| leave_concurrent | Two calls interleaved: submissions, reviews, cancellations | `DayClaimsBounded` (at most as many live requests for a day as workers) and `LevelsSigned` hold; `LifecycleKept`: Leave implements LeaveLifecycle |
| billing | Stripe's reports in order, repeated at will, one call at a time | `PaidIsServed`: once everything sent has been served, a paid company has the standard plan until the end of the period, unless it selected another; `StandardIsPromised`: nobody uses it after the last day promised |
| directory | Two calls interleaved: employees registered, imported, restored, renamed, removed, while branches and projects come and go | `SequenceNeverBehind` holds unless a number was reused; `LimitOvershootBounded`: overlapping calls exceed the limit by no more than the rows they were let through with; `ReferencesExist` holds unless a commit went by what had changed since |
| accounts | Two calls interleaved on one account | `RevokedStaysRevoked` and `TokensWearOut` hold; `UserRowSound` holds unless a commit changed a user row that had changed since it was read |
| organization | Two workers, three users | `OwnershipNeverSpreads`; `OwnerRemains` unless the last owner was deleted, or lost the role to an administrator, or a sign-in settled on one lost meanwhile; `RightsAsGiven` unless two requests overlapped; `TokenEarned` but for what was denied at the first query and no role gave any more at the second; `SeenFromBothEnds`: the chart is the same from above and below, circles and gaps included |
| connections | Two journeys of one browser, two workers | `DecisionHolds` and `LatestTokenKept` unless an older document was written back (or the request that got the token ended); `RefusalExplained`; `SignedInWhereAsked` |
| meetings | Two requests about two meetings, with calls cut off and Outlook | `EventsAccounted`, `CalendarFollows`, `BookingsExplained`: every stray event, stale event and double booking has one of the causes the properties name |
| scheduling | Two requests, templates until their numbers run out | `CodesExplained`, `AssignmentsExplained` |
| notifications | One request over RabbitMQ with both fallbacks, three threads, one fault (Redis below) | `DuplicateMailExplained`, `CopiesExplained`, `DeliveryKept` hold, and the liveness property `EverythingSettles`: everything is sent or given up, again and again, unless the retry loop has ended |
| storage | Uploads, reads and deletes over both stores, two faults | `RowsMatchObjects`: a row without object, an object without row and a read that misses have one of the causes named |

`PaidIsServed` is about a service that takes one call at a time and reports in order,
because with a thread beside the webhook, or a report before its turn, TLC finds that
the code does not keep it: a paid invoice that is served before the subscription's
report of the same renewal extends the licence to the end of the old period, and a
late report replaces a later one's status. All other properties are checked with two
requests at once or more, and section 8 proves them for every number.

What requests do to each other in Attendance and Leave is said by the history, not
excluded. Of five rules the code keeps only what is left of them when a request that
was overtaken is excused: a balance (two submissions may each fit), an override
(set between the look for a grant and the write; section 9), a lock (inserted between
`is_locked` and the write), an approval (two reviews may decide one), stored minutes
(a copy that is not refreshed is rebuilt). Each property says exactly which request is
excused and for which row: a call of the same user and type whose own account moved, a
request older than the lock, an entry that was written to by a request which others
had overtaken on that entry. Drop the exemption and TLC has the race at once. Every other
order of any number of requests, cut off anywhere, is covered.

With the shipped default, Redis, the run notifications has a smaller space and the
same result (`Backend = "redis"`): a message may be taken by either broker and the
publisher told that it failed, and only RabbitMQ keeps one while the service is down.

The histories mark what the code does not keep, and TLC finds each quickly when the
exemption is dropped. Directory's `reused`: two calls that restore the same removed
employee, who has no code, both allocate a number; the later one finds its number
in the very row it writes, so no constraint stops it, and it sets the sequence back.
From then on every registration without a code computes a number somebody has, and
fails. Its `raced`: every writer of the metadata document puts back the whole of it,
so a change of the settings may bring a deleted branch back or remove a new one that
employees already name. `revived` marks the employees that a change of status brings
back without a look at the limit. `raced` in Accounts is the same idea for the
user's row: `verify_setup` beside `disable` leaves the factor on without a secret,
so that no login passes and `disable` itself is refused; any writer of the metadata
puts back a recovery code that was spent meanwhile; a login that overlaps the last
failure leaves the full count without its lock. In Meetings, an event whose id was
never committed stays in the calendar for good and the next save makes another
(`lost`). In Storage, what was stored while MinIO was away is invisible once it is
back, and deleting it marks the row and leaves the file (`strayed`). In
Notifications, an e-mail is sent twice when two passes overlap or when a pass is
lost between sending and its single commit (`unrecorded`), and a request becomes
two notifications when the fallback times out behind a slow pass (`unanswered`).

`EverythingSettles` also shows what it must exempt: the loop's task has no handler
for exceptions (notification-service/app/main.py:15), so one database error ends
it while the process goes on, and what is then failed waits for the next creation.

The bounds by the number of workers are what remains of "at most one" under
concurrency. They are not obvious: a worker may insert more than once before
another does, but only after testing again.

The runs leave_overtaken, directory and meetings also check `TypeOK`.

Each property has a mutant in `PROJECT.json`: a definition changed as a
plausible bug would change it (a status left out of a query, a guard dropped, a
level chosen from the wrong end), under which the same run finds it violated. The
mutated forms stand beside the originals, introduced by "Wrong:".

## 6. Bounds

| Run | Bounds | Why they are enough for the question |
|---|---|---|
| attendance | 1 user, 2 workers, 1 day, 2 instants, 3 entries, 3 breaks, 3 corrections, 2 locks; any one of six slices in one behaviour (`Explored`) | three sessions, three breaks or three corrections of one kind, one more than the workers; two requests about one entry with two locks of its day, with two corrections, or with a correction and a break; one at a time, a reset day entered anew, with a break and a correction |
| leave_overtaken | 1 user, 2 types, 2 days of which one is a day off, 2 workers, 2 requests, 3 ranked rules, a strict and a lenient policy; either nobody asks for leave and all of two types' entitlements change, or requests for one type with all that happens to it, two calls at once as long as one of them submits the first or the second | two submissions against one balance; a submission against a grant, a rule or a policy that changes; a query that materializes the grants of two types against an administrator who sets, moves or deletes one |
| leave_concurrent | 2 workers, 3 requests, 1 or 2 levels; an entitlement policy and its grants until the first request | two live requests and a third that must be refused; reviews of the same level, of the next one, and a cancellation beside them |
| billing | trial 1, grace 1, period 2, clock to 6, 3 reports under way, delivered in order and repeatedly | a trial, two renewals, a failed and a recovered payment, a cancellation and a new checkout |
| directory | 2 workers, limit 2, 1 row per call; four employees and three numbers while there are no places, two employees with a branch and a project; states past `reused` and `raced` are not explored further | the owner and two more fill the plan, the fourth exceeds it; two calls compute one number; two kinds of reference, each deleted and created again, beside one employee removed and reinstated |
| accounts | 2 workers, lock at 2 of 3 failures for 1 tick, 2 sessions, 2 mails, 2 recovery codes, clock to 1; any two of five parts of an account (session, second session, mails, second factor, lock) in one behaviour; states past `raced`, or with a call bound to set it, are not explored further | the hazards pair a call with another on the same part or on the user's row, which all parts but sessions and mails share; same second or next for tokens; a code, its replacement |
| organization | 3 users, 1 permission, 2 workers, 3 requests | two administrators and a sign-in; a removal, a login that undoes it and a third request; a circle of managers and one below it; a permission allowed, denied or granted by a role |
| connections | 2 flows, 2 companies, 2 workers, 2 tokens, 2 other requests, 1 fault | two journeys of every two kinds; the token of a connection and its renewal; a reader and a writer of the document beside a journey |
| meetings | 2 meetings, 2 events, 2 slots that overlap, one over midnight, 2 workers, 3 requests, 1 fault | two requests about one meeting, or about two in conflict, and a third that meets what they left |
| scheduling | 4 templates, 2 assignments, 1 employee, 1 day, radix 2 (three numbers), 5 requests, 2 workers | three numbers are taken and a fourth template comes; two assignments meet, by name or time, and a template changes |
| notifications | 1 request, 1 handler besides loop and consumer, 2 attempts, 2 notifications, 1 fault | two passes over one delivery, a copy by fallback, a crash anywhere; with two notifications the half "never more than three" of `CopiesExplained` cannot fail in the run, and `CopiesAreExplained` proves it |
| storage | 2 keys, 1 user, 2 threads of the pool and the loop, 2 faults | two calls about one object, MinIO away between them and back |

Sessions and mails beyond the bound of Accounts exist and are not followed: the
call goes on and its row is nobody's concern.

Ids, the clock, requests, faults and Stripe's mail are the only unbounded
quantities; each bound is a constant in a guard (`MaxEntries`, `MaxBreaks`,
`MaxCorrections`, `MaxLocks`, `MaxRequests`, `MaxTime`, `MaxMail`, `MaxUsers`,
`MaxCode`, `MaxRows`, `MaxFailures`, `MaxSessions`, `MaxMails`, `MaxCodes`,
`MaxNotes`, `MaxTokens`, `MaxFaults`). Symmetry is used for workers and
interchangeable ids, never in a run that checks liveness.

## 7. Fairness and deadlock

One property is a liveness property, `EverythingSettles` in Notifications, under
`FairSpec == Spec /\ WF_vars(ServiceStep)`. The code justifies it: a pass goes on
until its commit, for each e-mail is waited for twenty seconds at most and a
failure is caught and counted; the retry loop wakes every minute as long as its
task lives; a container that went down is started again. Which thread goes on is
left open (one weak fairness of the whole, not one of each thread), and nothing is
assumed of publishers, operators, the mail server's answers or faults. The
refinement `LifecycleKept` is a safety property. All other properties are
invariants or action properties: a handler may be cut off anywhere, and a client
need not call again.

Deadlock is checked where the service can always serve another call: attendance,
leave, billing, directory, accounts. In the other runs the number of requests,
keys or notifications is bounded, so that the instance stops when all are used
up and no call is under way; there `CHECK_DEADLOCK FALSE` says so.

## 8. Proofs

All theorems are about the specifications the runs check, with no instance fixed
and no constraint. Every component also has its type correctness: `TypeCorrect`,
`Spec => []TypeOK`; and `StorageTypeCorrect`, `BillingTypeCorrect` and
`SchedulingTypeCorrect` for those that share a module.

One theorem has a hypothesis beside the module's assumption, because the property is
false without it (section 5): `PaidGetsServed` assumes `InTurn` (Billing), no thread
beside the event loop, which runs the webhook, and Stripe's first report is the one
that is delivered. It is `Billing.cfg`, with any length of trial, grace and period and
any bounds. All others are about any number of workers and any order of their steps.

**AttendanceProofs**. `TypeCorrect` is inductive with `EntriesNamed`: corrections,
and requests about to make one, name an entry that is an id.
* `LockedOnlyWhileLocked`: `[]LockedHasLock`. Given types, inductive as it
  stands. The argument is in the two directions of `status`: only `LockPeriod`
  marks, under the lock it inserts; only `UnlockPeriod` ends a lock, and it unmarks
  every entry of its period. No other commit writes 'locked', and none gives a row
  that is marked another date.
* `OpenSessionsBound`, `RunningBreaksBound`, `PendingCorrectionsBound`, together
  `InsertsBound`: never more than there are workers. The rows alone are not
  inductive. What is: rows **plus** workers that have passed the test and not yet
  inserted are at most the workers. The sum grows only when a worker passes the
  test; then there are no rows, and the worker was idle. `Budget` is that step.
* `NoApprovalStrays`, `MinutesStayCurrent` and the action property
  `LockedDaysAreFrozen`, of `HistorySpec`: `[]NoStrayApproval`, `[]MinutesCurrent` and
  `LockedDaysFrozen`. One invariant carries the three, `HistoryInv`, in three parts.
  `RowsInv` is about the rows: one not inserted yet has its defaults, no break is
  running and over, only a correction that was asked for has an approval. `InOrder`,
  for each worker, is about what its call has read: it still holds of every entry the
  worker is not behind of (the copy it will write back is the row, no correction is
  pending where it will insert one), and a day that it found unlocked has only locks
  that are `newer`. `EntryInv`, for each entry that is not `crossed`, is what is
  claimed of it, strengthened: at most one pending approval, and with it a pending
  correction, and current minutes unless `unsettled`. A step of a worker that is not
  behind on the entry keeps `EntryInv`, by `InOrder`; a step of one that is makes the
  entry `crossed`; and a step of any worker puts all others behind on what it touched,
  so `InOrder` survives it.

**LeaveProofs**
* `DayClaimsAreBounded`: `[]DayClaimsBounded`, any number of calls at once. The
  counting of Attendance (`ClaimsInv`): live requests for the day and calls about to
  insert one are together at most the workers.
* `LevelsAreSigned`: `[]LevelsSigned`, any number of reviews at once. `LevelsInv` adds
  what a review in progress remembers: a level it read as decided is decided, and it
  knows which levels there are (`Current`). So the level it signs, the first one its
  copy has pending, comes after decided ones only.
* `LifecycleIsKept`: `Spec => LifecycleKept`, the refinement, for any number of calls
  at once. `Init` maps to the initial states of LeaveLifecycle, and each step to a
  step of it or to none. The levels of the detailed module become a number of
  signatures still needed, so every step comes with a lemma on the cardinality of
  pending levels; the crucial one is that a review which others have overtaken takes
  away one level if it saw as many pending as there are, and none otherwise.
* `OverridesAreKept` and `NothingIsOverdrawn`, of `HistorySpec`: the action properties
  `OverridesKept` and `NoOverdraft`. The invariants say of every call what it tested,
  for every account that has not `moved` under it: the type it materializes has no
  grant (`ChosenFree`), the request about to be inserted still fits (`FitsInv`). The balance is a sum over all
  requests of a user and a type, so the second rests on lemmas about such sums
  (`SumsAdd` and its neighbours): one row changed changes the sum by the difference.

**OrganizationProofs**, Billing's part
* `StandardOnlyWhilePromised`: `[]StandardIsPromised`. The licence decides, its
  end is copied from the subscription, and that from Stripe's reports, through
  the copies calls hold. The inductive invariant `Covered` says of each place
  an end can be in that it was promised. It holds for any number of threads, any
  `Reach`, any repetition of reports and any time.
* `PaidGetsServed` (`InTurn`): `[]PaidIsServed`. While a company's subscription is
  active at Stripe (`Paid`), either the report and the invoice are still to come; or
  the period is copied and the invoice is to come; or nothing is to come and the
  licence lasts as long as the period. Beside it, `HoldsRows`: the call in progress
  has the rows as they are; and `NoRowNoSale`: nobody pays who has no subscription
  row.

**AccountsProofs**: every property the run accounts checks, the raced behaviours
included.
* `FactorHasSecret`, `LockComesWithCount`, `SpentStaysGone`, together
  `UserRowHolds`. The first two are facts about one row (`Coherent`) that no
  handler breaks when it writes the row it read. So the inductive invariant `RowInv`
  says it of the calls: the columns a call will write make a user of any user, and a
  coherent one of a coherent user that is its `basis`. A commit whose basis is not
  the row sets `raced`. For the third, a code in a call's hands was on the list it
  read, or was made by it and is nowhere else (`CodesInv`); the second half is
  needed because a row may return to an earlier value.
* `RevocationIsFinal`: `Spec => RevokedStaysRevoked`, from `RowInv`.
* `ExchangedStaysDead`, `UsesBound`, together `TokensAreSpent`. A token that is
  anywhere has been handed out, one in two places twice; a call that goes by a
  token its session has lost since is a place too (`HandedInv`). Redemptions are
  counted as in Attendance.

**OrganizationProofs**
* `OwnershipStays`, `OwnerStays`: `[]OwnershipNeverSpreads`, `[]OwnerRemains`, from
  `OwnersInv`: who is about to be given the owner's role, kept as the owner or named by
  a document about to be put back is a founder, a sign-in keeps nobody it strips, and
  strips only if it read of somebody to keep. `OwnerRemains` admits three causes:
  somebody deleted the last owner, took the role from the last, or signed in while
  the one to be kept was lost.
* `GivenStays`, `TokensAreEarned`: `[]RightsAsGiven`, `[]TokenEarned`, each inductive
  given types: the difference a request writes is the whole if nobody wrote in
  between; a claim that fits neither of the two queries was given by a role and denied
  at the first and, at the second, neither denied nor given.
* `ChartIsOne`: `[]SeenFromBothEnds`, a fact about every chart (`TypeOK` is all it
  needs), for companies of any size. Both walks are recursive, the team by rounds
  from the manager down (`Team`) and the line of managers upwards (`Above`); the
  proof names the rounds of each as a function (`TeamGrows`, `AboveClimbs`). Whoever is
  met on the way up has the user in the team (`MetHasInTeam`). For the converse: each
  step up meets somebody new, so after as many steps as there are users the way has
  ended (`WayEnds`), those met have all their live managers among them, and everybody
  whose team has the user is one of them (`TeamIsMet`).

**ConnectionsProofs**
* `DecisionStands`: `[]DecisionHolds`, inductive given types.
* `TokensAreKept`: `[]LatestTokenKept`, with `TokensInv`: no copy has a token newer
  than the newest, and a call about to store one stores a newer one than it read.
* `RefusalsHaveReasons`, `SignInsLandRight`: `[]RefusalExplained`,
  `[]SignedInWhereAsked`. `CallsInv` ties the cookie each call carries to its flow:
  whoever holds a flow's state holds the company it named. `BrowserInv` says of a
  flow that nothing crossed that the browser's cookie, and every answer under way,
  still has its state; so it is not refused for the cookie. `OutcomeInv` adds that
  an account a flow has named or entered stays.

**DirectoryProofs**: every property of the run directory, for any number of calls at
once.
* `SequenceIsNeverBehind`: `[]SequenceNeverBehind`. `SequenceInv`: unless a number was
  used again, all numbers up to the sequence are somebody's and none is above it, and
  no call is ahead of the sequence by more than the number it is about to take.
* `ReferencesAlwaysExist`: `[]ReferencesExist`. `ReferencesInv`: unless a commit went by
  something stale, what each row names is listed, and each call abides by the
  document it read: what it will write in a row is listed there, what it will write
  as the document keeps what was listed.
* `OvershootIsBounded`: `[]LimitOvershootBounded`. `LimitInv`: employees that were not
  brought back without a test, plus the rows that calls let through may still add,
  are at most the limit plus the rows of all calls but one. The sum grows only when
  a call passes the test, and then the employees are below the limit.

**DirectoryProofs**, Scheduling's part
* `CodesHold`: `[]CodesExplained`. The code a call is about to give is as good as
  one it has given (`PendingCodes`), because saves that overlap are noted both
  (`SavesNoted`); `CounterFree` says that a number found free is free unless it
  had three digits.
* `AssignmentsHold`: `[]AssignmentsExplained`, the same for assignments, with
  `ReadCurrent`: an assignment changed since a call read it is one of two saves at
  once.

**NotificationsProofs**
* `MailsAreExplained`, `DeliveriesStay`: `[]DuplicateMailExplained` and the action
  property `DeliveryKept`, from `DeliveriesInv`: of a delivery that no two passes
  have held at once, one pass at most holds it, and its copy is the row; what the
  mail server took once is in the row or in the hands of that pass.
* `CopiesAreExplained`: `[]CopiesExplained`. A request's notifications, calls about to
  make one, its message in the queue and the attempts its publisher has left are at
  most three together; without the attempts and as long as the publisher knows how
  each attempt ended, at most one (`Budget`). A failed creation takes away as much
  as it gives the publisher back; `Awaited` ties the two together.

**MeetingsProofs**: every property of the run meetings, for any number of requests at
once.
* `CalendarAlwaysFollows`: `[]CalendarFollows`, from `FollowInv`: a meeting that no two
  requests have been about at once has one call at most, that call goes by the row
  as it is (`CurrentInv`), and the calendar is as the row is unless that call has
  just changed the row (`FollowsInv`).
* `EventsAlwaysAccounted`: `[]EventsAccounted`. A live event is named by its meeting's
  row or by the call that created it and is about to write its id.
* `BookingsHold`: `[]BookingsExplained`, from `BookingsInv`: of two saves in progress
  each is noted as excused (`SavesMeet`); one that is not has found no conflict, and
  there still is none (`SavesFree`); so its commit makes none (`RowsFree`).

**AccountsProofs**, Storage's part
* `RowsHaveObjects`: `[]RowsMatchObjects`. Inductive with what each call knows: an
  upload about to insert its row has its object in the store it chose, a delete
  about to mark the row has none there, and an object is in no store but the one it
  was put into (`OneHome`).

Assumptions: the constants are of their types (one named `ASSUME` per module, which
TLC evaluates in every run), and workers and handlers are finitely many. Leave also
assumes that two entitlement policies of a type do not share a rank, that is their
place in the order of priority and name; Organization, that users are
finitely many and numbered.

On induction. The recursive definitions are functions (`Used`, which sums the days of
requests; `Team` and `Above`, the walks of the chart), and what is said of them is
proved for every length. The library's induction theorems cannot be used, since they
take an operator; `UpTo` stands in for them: a set of numbers that has 0 and with
each k below n the next one, has all of 0 .. n. It follows from the well-foundedness
of < on Nat, which the library does state of sets. What is proved by it is made a
set of numbers first.

Model-checked only: `EverythingSettles`, the one liveness property (fairness and
ENABLED are out of the prover's reach). Every other property of every run is stated
by a theorem.

## 9. Disagreements with the code's own tests

Both need two requests at once, which the tests do not make. No listed run shows them
as a violation; the models have the steps.

* A day entered by hand twice. `create_manual_entry` looks for an entry of the day
  (attendance_service.py:288) and inserts afterwards; two overlapping requests both
  find none. test_manual_entry.py:220 expects the second to be refused with 409. In
  the model: two workers, `ManualRead` by both, then `ManualCommit` by both, in
  `Attendance.cfg` without its constraint.
* An override replaced. `ensure_policy_grants` decides which types have no grant
  (leave_service.py:174) and then calls `upsert_grant`, which overwrites whatever it
  finds by then. test_leave_service.py:108 expects an override to survive. In the
  model: `EnsureRead`, `UpsertGrant`, `EnsureCommit` with two workers violate
  `OverridesKept` once its last line, which excuses an account that moved, is dropped.

## 10. What is not modelled

* Of attendance: shifts, kiosk devices, holidays, geofences and the attendance
  policy (single rows without a protocol), reports and exports (queries), and the
  arithmetic of minutes.
* Of leave: attachments and their links, presentation of requests.
* Of billing: the customer and payment-method rows, invoices, the event log (none is
  read by a decision), seat counts, the development status endpoint, the
  providers other than Stripe, and billing switched off.
* Of the directory: the limits on branches and projects (the same test), profile
  fields, a project's own branch (`delete_branch` leaves it), files other than CSV
  (their rows are counted in compressed bytes, so the limit test says little); and
  the employees that a sign-on adds. With `SSO_AUTO_PROVISION` (off by default, in
  `.env.example` and in production, auth-service/app/core/config.py:64) `sso_login`
  adds an employee it does not know (auth-service/app/services/auth.py:654) without
  asking for the plan's limit: `LimitOvershootBounded` is about companies without it.
* Of accounts: API keys (created and revoked, read by nothing), the deadline after
  which the policy demands a second factor, access tokens (valid until they expire,
  whatever is revoked; their contents are in Organization), login history, the
  password itself.
* Of sign-on: Google's flows (the same way, with a state kept by Authlib), the
  discovery of a company's provider, the accounts' statuses (Accounts).
* Of meetings and scheduling: listing, rosters (nothing reads them), titles,
  attendees, places, breaks and colours.
* Of rights: two statuses other than 'deleted' are one, whom a request for a token is
  let through for is Accounts', and the document's other keys are Directory's.
* Of notifications: read and clear marks, preferences beyond the channels they
  leave, templates and texts. The run takes
  RabbitMQ, the broker with more behaviours; the shipped default is Redis (section 5).
  Of the events: the envelope's fields, and the loss of
  `auth.employee.registered`, which is published once after the commit; leave's
  handler of it only fills in what the next balance query fills in as well.
* Of storage: contents, names, image conversion.
* Tenant resolution, e-mail text, audit log, seed data, docs gateway, migrations,
  generator, scripts and infrastructure: no state machine, or none at run time.

## 11. Plan

Done: every component with a protocol of its own has a module, a run and its proofs;
every safety property a run checks is a theorem.

1. **Abstract specifications** in the manner of LeaveLifecycle for Storage (a map from
   rows to objects), Notifications (a delivery as a counter of attempts with one
   end) and the sessions of Accounts, each with its refinement.
2. **Scheduling and Meetings together**: `AssignmentsExplained` takes meetings as given;
   with both modules composed, the conflict test could be stated from either side.
