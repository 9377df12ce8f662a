# DSForms in TLA+

DSForms is a self-hosted form backend: one Go process, one SQLite database, a public submit
endpoint, an admin UI, an MCP server for AI clients and a few background goroutines. This
directory holds TLA+ models of the parts where the *order* of things matters, TLC
configurations that check them on small instances, and TLAPS proofs that the main properties
hold for every value of the constants. Paths below are relative to `src/`.

1. [The system](#the-system)
2. [Modules](#modules)
3. [Runs](#runs)
4. [Fairness](#fairness)
5. [Proofs](#proofs)
6. [Where the code and its comments disagree](#where-the-code-and-its-comments-disagree)
7. [Not modelled](#not-modelled)
8. [Plan](#plan)

## The system

All durable state is in SQLite, reached through `internal/store`. A statement, or a
transaction, is atomic; a handler that issues several is not, and another request, a background
sweep, a restore of the whole file or a crash can come between any two. That is the granularity
of every model here: **one step per statement, transaction, mail or file operation**.

| component | state | operations | what is hard | what makes it correct |
|---|---|---|---|---|
| submissions and quarantine (`store/quarantine.go`, `store/store.go`) | a row per submission: held or not, read, notified, held_at, created_at; its spam signals | create, hold, restore, mark as spam, mark notified, read, delete, counted clear, retention sweep | the same row is restored, marked, purged and deleted concurrently, while a goroutine still sends for it | told at most once per restore; nothing told while held; the sweep and the clears take exactly what they may |
| submit handler, delivery (`handler/submit.go`, `handler/delivery.go`) | a request and its goroutine | store, then email, then webhook | the goroutine outlives the answer; each channel fails, panics or is absent by itself | an accepted submission is delivered at most once per channel |
| quarantine pages, MCP tools (`handler/quarantine.go`, `internal/mcpserver`) | ids and counts seen earlier | restore, delete, empty; mark_spam, empty_quarantine | they act on pages and counts that are stale | never an inbox row by mistake; a clear takes what was counted |
| broadcast worker (`internal/broadcaster`) | deliveries, their attempts, a one-slot wakeup channel, a per-pass cache | fetch a batch, send, record, finalize | crash between send and record; a failing write; deletion mid-pass; lost wakeup | each recipient settled; duplicates bounded by faults; a broadcast ends |
| waitlists (`handler/waitlist_admin.go`) | lists, signups, broadcasts | sign up, broadcast, delete | recipients and positions are read outside the transaction | one confirmation per joining; a place that stands; a broadcast reaches the list |
| OAuth server (`handler/oauth.go`, `store/oauth.go`) | clients, codes, grants, access and refresh tokens | register, consent, redeem, rotate, revoke, clean up | retries and replays are indistinguishable; cleanup and eviction race with everything | a code and a token are worth one thing once; a replay kills what was issued; nothing outlives its grant |
| backup and restore (`internal/backup`, `handler/backup.go`, `store.Reopen`) | the database file, its write-ahead log, the parked original, staged uploads, the open handle | import: validate, strip, flush, close, park, swap, reopen, roll back | any file operation fails; crash between any two; requests still writing | the last copy survives; every answer is true |
| users, sessions, login guard (`handler/auth.go`, `handler/users.go`) | password hashes, sessions, failure counts | log in, change password, delete user | check-then-act over three statements | a changed password ends every earlier session; guesses are bounded |
| rate limiter (`internal/ratelimit`) | a float bucket per key | allow, clean up | refill and clean-up at the boundary | never more than burst + rate × time |
| spam screen and rules (`internal/screen`, `store/filterrules.go`) | rules and their hits, a repeat tally, thresholds | decide, add, remove, audit | precedence of allow, block and score; field names and spellings the submitter chooses; thresholds out of range; a bounded tally | held if and only if the score reaches the recorded bar; nothing but the sender excuses |
| API tokens, MCP server (`store/apitokens.go`, `store/formscope.go`, `internal/mcpserver`) | tokens, their scopes and bound on forms; a call in progress | mint, verify, fourteen tools | a tool is several statements, each bounded by hand; tokens, forms and rows change in between | a token does what was asked for and no more; an answer tells of nothing else |
| redaction (`internal/redact`) | none of its own | clean a value, say what was removed | one pass can make what the other removes | nothing is left, and the report names the lines |
| search index (`store/search.go`) | the FTS table and its triggers | sync on open, search | compares counts, not contents | the index is apart from the rows in no more than a replaced file brought |
| statistics, pages, templates, configuration, command line | none of their own | rendering and parsing | — | — |

How they interact: the submit handler passes the limiter, asks the screen and writes a submission
row, then hands a goroutine the form value it read earlier. Admin pages and MCP tools act on the same rows;
what a tool answers goes through redaction. The
retention, session and OAuth sweeps are goroutines of `main.go`. The waitlist pages create
deliveries and poke the worker through its channel. A restore swaps the file under all of them.

## Modules

| module | models |
|---|---|
| `Quarantine` | submissions, quarantine, submit, restore, delivery goroutines, MCP clears, retention sweep, form update and deletion |
| `BroadcastPromise` | what a broadcast promises its operator, with no worker in sight |
| `Broadcaster` | the worker, its wakeup, `CreateBroadcast` and `DeleteWaitlist`; implements `BroadcastPromise` |
| `Connection` | what consent promises an operator, with no endpoint in sight |
| `OAuth` | the authorization server's tables and all statements that change them; implements `Connection` |
| `Restore` | `backup.Import`, its rollback, start-up, requests that write meanwhile, crashes, the operator's recovery |
| `SignIn` | users, sessions, `LoginGuard`, logging in, changing passwords, deleting users |
| `Limiter` | the token bucket of the public endpoints, its refill and sweep |
| `Screen` | extends `Limiter`: a form submission from the limiter to its row, the rules, the score, the tally, thresholds |
| `Waitlist` | signups, positions, confirmations, editing, paging, and a broadcast up to the copy of its recipients |
| `Redact` | the two passes of redaction, as operators on texts, and their hits |
| `Access` | extends `Redact`: the token form, form scope, the fourteen MCP tools statement by statement, what their answers hold, the search index |
| `QuarantineProofs`, `OAuthProofs`, `SignInProofs`, `BroadcasterProofs`, `RestoreProofs`, `WaitlistProofs` | theorems about the module of that name |
| `ScreenProofs` | theorems about `Screen` and `Limiter` |
| `AccessProofs` | theorems about `Access` and `Redact` |
| `MC*` | the instances TLC checks |

Operators named `X_Something` that follow a comment starting "Mutant:" are deliberate bugs: each
replaces the definition `X` and makes a property fail. They are used by no specification.

### Quarantine

`status` merges the existence of the row and `is_held`: `new`, `inbox`, `held`, `gone`. `read`,
`notified`, `heldAge` and `age` are the columns; the two timestamps are ages in ticks, capped one
past the retention window because only "older than n, n at most the window" is ever asked, and
`heldAge = Unset` is the empty `held_at` that older databases left behind (`Init` starts from any
set of such rows). A worker is a request and its goroutine: `pc` names the statement it is about
to issue, `chans` the channels of the form value it read (so a form edited meanwhile is not seen,
as in the code).

* Submit: `SubmitStart` (GetForm), `SubmitAccept` or `SubmitHold` (one insert). The form's
  deletion in between makes the insert fail on the foreign key.
* Restore: `RestoreLoad`, `RestoreForm`, `RestoreMove` / `RestoreMiss` (the guarded
  `UPDATE … RETURNING`), `RestoreGone` / `RestoreAlready` (`classifyMissingHeld`).
* deliver: `SendEmail` / `SkipEmail`, `SendWebhook` / `SkipWebhook`, `DeliverPanics`, then
  `MarkNotified`. A send that errs, or a channel that is not configured, is a skip.
* Everything else is one statement each: `MarkSpam`, `SetRead`, `MarkAllRead`,
  `DeleteSubmissions`, `DeleteHeld`, `DeleteAllHeld`, `PurgeHeldOlderThan`, `ListHeld` and
  `ClearHeld` (the count a client took, and the clear that recounts it), `UpdateForm`,
  `DeleteForm`. `DeleteHeld` splits long id lists into statements of 500; each is one step here.
* `StoreFails` and `Crash` end a worker at any of its statements.

Whether a submission is held is a free choice here; `Screen` models how it is made.

### Broadcaster

`dstate`, `bstate` and `attempts` are the columns, a delivery is named by its rowid and a
broadcast by its order. The worker's `pc` walks through `RunOnce` (`fetch`, `load`, `send`,
`sent`, `fail`, `unsaved`), `finalize` (`list`, `close`, `done`) and `Start`'s loop (`wait`,
`pause`). `cache` is `bcache` and `batch` the slice it fetched: deleting a waitlist does not stop
the mails of a batch in flight, and the model says so. `mailer` is whether this process was
started with SMTP; a restart may change it. An erring mail is free; failing writes, panics,
crashes and mails that left and erred all the same are bounded by `MaxFaults`. Throttling only
sleeps and is left out. The recipients of a broadcast are a constant: how they are read, before the
transaction that copies them, is in `Waitlist`.

`BroadcastPromise` says: one delivery per recipient, settled once, as sent only if its mail left;
a broadcast reads as done when every delivery is settled, and in the end it does. `Broadcaster`
refines it under `mailed <- {d : mails[d] > 0}` (`KeepsPromise`), liveness included.

### OAuth

One variable per column that any property tells apart, per code (`code`, `codeClient`, …), grant
and token pair. `fresh` and `spent` are `used_at` unset and set. Presentations are anyone's, any
number of times: a lost answer that is retried, a double click and a stolen copy are the same
event. A failed transaction changes nothing and is a stuttering step. The client is looked up
before the transaction, so `Known(cl)` lets a client that has been deleted in between go on, as
the code does. The checks of `accept` other than the client (redirect, PKCE, resource) and the
client's metadata are a free choice between accepted and refused. The hourly `CleanExpiredOAuth`
is four statements and four steps; other requests come between them, the clock does not, a sweep
being short against a tick.

`Connection` says: an approval is worth one connection to the client it was given to; an operator and
a client have one connection at a time, a new one taking the place of the old and of everything that
worked for it; a connection goes on from one refresh token to the next, and only from the latest;
anything may be lost, nothing comes back. `OAuth` refines it (`KeepsConnections`): approvals are the
fresh codes, connections the live grants, what a connection goes on with is its fresh refresh token,
what works is its live access tokens. Consent is `Approve`, a redemption `Connect`, a rotation `GoOn`;
revoking, replays, eviction, expiry, the sweep and the deletion of clients and operators are all
`Lose`, and what leaves those sets as they are is a stutter.

### Restore

A database is what it descends from (the original, an upload, or the empty one start-up creates
where it finds none), which writes reached its file, and whether it carries credentials. Its
write-ahead log is a file of its own: the writes in it and whose they are. `Import` is one step
per file operation. The parts that are SQLite or `database/sql` are modelled from how the code
uses them:

* opening a database takes the log beside it for its own (`Opened`), whoever wrote it;
* a checkpoint answers with a row (`Checkpoints`): where readers hold some frames back it counts what is
  left, and Import refuses; where it is refused the lock (`busy = 1`, `-1`, `-1`), which takes a
  connection in use, it counts nothing, and Import, which never looks at `busy`, goes on with the log
  as it was;
* a connection in use when the pool is closed stays in use; if the log is removed under it, its
  writes are lost with it (`orphan`);
* the last connection to close writes the log back and removes it.

`exposed` is history: the writes a restore went on without, because its checkpoint could not run or
because they came after it. `LastCopySurvives` is about all other answered writes.

`Start` is `store.New` and `SweepStagedUploads`. `PutBack` is the operator doing what the error
message asks. Removing a staged upload is taken to succeed; what `Validate` accepts and how an
error is blamed are free choices; exports only read.

### SignIn

A row of the sessions table is a slot that holds one token at a time, a request is a slot that
issues one store or guard call per step. Nobody's password is spelled out: a check succeeds or
fails, and a password is known by how often it was changed. The guard is in memory and
starts empty after a crash; its failures are capped at `MaxFails`, past which nothing asks.

* Log in: `LoginStart` (past `IsLocked`), `LoginRight` or `LoginWrong` (`CheckPassword`; an error
  of the database counts as a failure, as in `LoginSubmit`), then `RecordFailure`, or
  `RecordSuccess` and `LoggedIn` (the insert). A failure after a lock has run out locks again at
  once, since nothing resets the count.
* Change the password: `GetSession`, `GetUserByID` (`RequireAuth`), `CheckCurrent`,
  `UpdatePassword`, `DeleteUserSessions`, `Renewed`. `SetPassword` is the command-line one, which
  is a single statement.
* `DeleteUser` (a transaction, sessions go by cascade), `CreateUser`, `Logout`,
  `CleanExpiredSessions`, `GuardCleanup`: one step each. `RequestFails` and `Crash` end a request
  at its store calls, or anywhere.

Left out: a restore that replaces the users table (it ends every session), pages that `RequireAuth`
guards other than the account page, and MCP's token check, which shares the guard.

### Limiter and Screen

A tick is the time in which one unit of a token comes back and a request costs `cost` units, so a
fraction of a token counts as in the code's floating point, whose rounding is left out. `Allow`,
`Throttle` and `Cleanup` are the methods under their mutex. `debt` is history: what an address got
through less what time gave back.

`Screen` extends it: `Receive` and `TooMany` are the limiter and `GetForm` with the effective
threshold; `ListFilterRules` has the exits that store nothing (honeypot, no data, no one valid
sender) and the read of the rules, which may fail and leave the content to decide; `Screened` is the
tally under its mutex and the pure decision; then `CountRuleHit` and `Store`. `UpdateForm`,
`AddFilterRule`, `DeleteFilterRule`, `Restart` and the clock come in between. A name is written in
one of three spellings (as stored, one that normalising gives, one it must not), which is all that
`Canonical`, `Validate` and `Matches` tell apart; a text is what the scorer counts in it: markup,
listed words, links, gibberish. Of several rules that match, the newest decides and creation times
may tie, so any does. `OnlyTheSenderExcuses` and `ProblemsAreInert` are about the operators, and
stated once a row is excused and once a rule is stored: they range over all contents of the
instance, all rules that can be stored and pairs of them. `Legacy` is what a version before this one
may have stored, in any spelling; a run begins with those of it in `Found`. `ProblemsAreInert` says of
each rule whether the audit's word on it is true, and names where it is not: what is `Reread` (a word,
a network, a host without a dot) may be reported and work, and a word that `Repeats` the built-in list
is not reported and does nothing. What happens to the row afterwards is `Quarantine`.

### Waitlist

A signup is `GetWaitlist`, `CreateEntry` (the upsert and its `RowsAffected`), `Position` (counted in
a second statement) and `SendConfirmation`, and may fail at each. An entry has a `rowid`, which
SQLite takes as one more than the largest there is, so a removal at the end frees it; a position is
a rank by it. `UpdateWaitlist` switches the confirmation on and off. A broadcast is the page load,
the read of the recipients and the transaction that copies them. Paging is `Open`, and for each page
the two statements of `WaitlistDetail`, until `HasNext` says no.

### Redact and Access

`Redact` is operators only: `StripInvisible` and `StripForgedTurn` as `Value` composes them, `Fields`
with the field names, `CapHits`. A text is a sequence over an alphabet (`Characters`) with one
representative per class of character the code distinguishes, incomplete UTF-8 and escape sequences
among them. The decoder's loop is a recursive function: `Places[i]` is whether the loop stops to look
at position `i`, which depends on where it stopped before and how far it went on from there; what is
written is what stands at such places and is neither invisible nor malformed, taken in order (`Pick`).

`Access` describes each tool by the store statements it runs (`Statements`), and a statement by what
it reads of the rows under a bound. `ChooseAccess` and `CreateAPIToken` are the token form's
validation and its insert, with anything in between; `Verify` is the middleware and the tool's own
gate. `call.reach` is the bound the request carries, `call.filter` what a `form_id` narrowed it to,
`call.todo` the statements left. `row`, `form` and `index` are shared with the admin, the public,
restarts and a replaced file: `SyncedIndex` is the comparison of counts that start-up makes, `Write`
the triggers. A replaced file brings any index; `astray` remembers in what it was wrong when it had
indexed as many documents as it had rows, which is when start-up keeps it. A search is given the
submissions its query `matches` and a `limit`; which matches come first is free, because FTS ranks them
by the words of every form. `ToSubmission` and `ToSignal` are what an answer holds of a row, `ToRule`
what a listing holds of a rule: it withholds by the rule's type, and a keyword that is an address shows. Only tokens
made by hand are minted here; those of OAuth carry the scopes and forms of their grant in the same
columns.

## Runs

| run | instance | shows |
|---|---|---|
| `quarantine_notify` | 1 submission, 1 form, both channels, 2 workers, held up to twice | who is told, and how often: `AcceptedIsDeliveredOnce`, `OneReleasePerHold`, `NotifiedMeansEmailed` |
| `quarantine_queue` | 2 submissions of 2 forms, no channels, 1 worker | `NoEarlyPurge`, `QuarantineNeverTakesInbox`, `ClearDeletesWhatWasCounted`, and that everything held leaves (`HeldEventuallyLeaves`) |
| `broadcaster` | 2 broadcasts on 2 lists with 2 and 1 recipients, batch 2, 2 attempts, 2 faults | `DoneMeansSettled`, `OneMailPerFault`, `DuplicatesCapped`, `NoLostWakeup`, refinement `KeepsPromise` |
| `oauth` | 2 clients (one may refresh), 2 operators, 2 codes, 2 grants, 3 token pairs | `NothingOutlivesItsGrant`, `ReplayEndsTheGrant`, `SpentIsRemembered`, refinement `KeepsConnections` |
| `oauth_cleanup` | 2 clients, 1 code, 2 pairs, fair | unapproved clients and spent codes are removed in the end (`NothingLingers`) |
| `restore` | 2 restores, 2 writing requests, 2 crashes | `LastCopySurvives`, `ServesOrSaysSo`, `AnswersAreTrue`, `CredentialsStayBehind` |
| `signin` | 2 users, 2 session rows, 2 requests, 1 address, lock after 2 failures, 2 changes per user | `AlwaysAnOperator`, `GuessesCapped`, `ChangeEndsEarlierSessions` |
| `access` | 2 forms, 2 submissions, 1 token with no scope, to read, to write and delete, or to read and administer, any call of any tool, any change in between; the texts of up to 4 pieces of 11 | bounds: `NeverMoreThanAsked`, `BoundedStaysInside`, `AsIfOnlyItsForms`; answers: `AnswersAreFiltered`, `RedactionIsClean`, `RedactionSaysWhat`; the index: `OnlyTheFileErrs` |
| `screen` | 4 submissions of 2 forms from 1 address, 2 at once, 1 rule in force; every content against every pair of rules, in every type, of words built in and not, and in old spellings | `StoredAddsUp`, `ThirdIsHeld`, `NeverMoreThanItsRate`, `OnlyTheSenderExcuses`, `ProblemsAreInert` |
| `waitlist` | 2 lists, 3 signups of 2 addresses, 1 removal, 1 broadcast or look through the pages | `OneConfirmation`, `PositionStands`, `ReachesTheList`, `PagingMissesNobody` |
| `quarantine_twice`, `restore_unchanged` | smallest instance that shows it | the two disagreements listed first below |

The type invariants, and the properties of `Quarantine`, `OAuth`, `SignIn` and `Waitlist` that the
table does not name (`HeldIsSilent`, `OneSignalPerMark`, `SettledStaysSettled`, `Accounts`,
`OneGrantPerConnection`, `OneGrantPerCode`, `OneFreshRefresh`, `TokensReachTheirClient`,
`ConnectionsEndOnPurpose`, `SessionsBelong`, `NobodyIsOvertaken`), are proved, so no run repeats them.

Why the bounds are enough. In `quarantine_notify` every race is about one row, so one row is
enough; two workers give every pair of concurrent requests; two holds give the mark / restore /
mark again cycle in which `notified` could go wrong. Symmetry over workers is sound: they are
interchangeable, and the run has no liveness property. `quarantine_queue` needs two forms for
filters to differ, and two rows for a count to stay the same while the rows change;
`Retention = 1` still separates younger, at and past the window, which is why ages run to 2. With
`MaxHolds = 1` a row enters quarantine once there, whatever way it came; re-entry after a long
life is covered by the proof of `PurgeWaits`. In `broadcaster` a batch smaller than the queue makes
passes overlap broadcasts, two attempts make a retry and an exhaustion distinct, and two faults
suffice for a lost record followed by a crash. In `oauth` two codes give concurrent redemptions
for one operator and client, three pairs give issue, rotation and a second rotation;
`MaxPending = 2` lets one registration evict. In `restore` the second restore meets whatever the
first, or a crash, left behind. In `signin` two users can delete each other, two requests guess in
parallel or race a change, two changes overlap, and an old session can stand beside a renewed one; the bound of
`GuessesCapped` counts the requests, whose number the server does not limit. Its symmetry is sound,
no property being temporal.

In `access` one call at a time is enough, because a call shares no state with another but the
database, which everybody else changes between its statements; the second form is the one a bound
must hide, and either of two submissions can be on it, and an index of one that is not the row there is
has the right count. The texts put every pair of passes in every
order: a marker in pieces, around an invisible character, after an escape sequence, at a line's end.
In `screen` three submissions of one pair reach the repeat threshold and the fourth, of another form,
makes a tally of one pair evict; two at once make the verdict of one fall between the decision and
the row of the other. Thresholds 0 and 100 are the two ways out of the range, 0 also being "use the
instance's". A token there is a single unit (`burst = cost = 1`, `maxAge = 1`): the boundary of an
empty and a full bucket at the sweep is in it, fractions of a token are not. In `waitlist` two signups
of one address race, the third is of another address or another list; pages of one entry give the most
shifts, and the one removal comes anywhere.

`CHECK_DEADLOCK FALSE` is said where things do run out: uploads and crashes in the two restore runs,
signups and ticks in `screen` and `waitlist`.

Bounds in guards: `MaxHolds` (`MarkSpam`), `MaxFaults` (`Fault`), `MaxCrashes` (`Crash`), `MaxChanges` (`UpdatePassword`, `SetPassword`), `maxNow` (`Tick`), `maxBusy` (`Receive`),
`maxRemoved` (`DeleteEntry`), `maxTasks` (`BeginBroadcast`, `Open`), `Edited` (`UpdateWaitlist`, `DeleteWaitlist`);
ids, codes, grants, pairs and uploads are finite sets that run out. `AgeCap`, `CodeTTL +
SpentRetention`, `PairCap` and `ClientTTL + 1` cap ages where nothing distinguishes them.

## Fairness

* `Quarantine!FairSpec`: weak fairness of `Tick` (time passes) and of `PurgeHeldOlderThan` (the
  goroutine in `main.go` sweeps at start-up and daily). Nothing is assumed of operators or
  requests, so `HeldEventuallyLeaves` rests on the sweep alone.
* `Broadcaster!Spec`: weak fairness of the worker's own steps, a goroutine that always has one to
  take. No fairness of requests. That `Notify` may never come is why the idle poll matters: drop it
  and `KeepsPromise` fails.
* `OAuth!FairSpec`: `SF(Tick)`, because a sweep disables it for a moment; `WF(Sweep)`; and `SF` of
  each of the four statements, which says that the same statement does not fail every hour for ever.
* `Restore`, `SignIn`, `Access`, `Screen` and `Waitlist` have no liveness property: a request answers
  one step at a time, may fail at each, and holds no resource but, in a restore, its lock.

## Proofs

Everything in the eight proof modules holds for sets of any size and any windows and limits, from the
assumptions that the modelled module states about its constants. Most of them say what kind of thing
a constant is, that what is counted is finite, and that `None` is not one of the values it stands
beside. Five say more: `Broadcasts` and `Deliveries` are row numbers, so that there is a first one;
`RefillAssumption` (`maxAge >= Full`) is the setting under which the limiter's rate holds at all (see
below); `TypedAssumption` and `TextsAssumption` say that what was typed is text over `Characters`;
and `DataAssumption` that what is posted is a form's fields. One theorem has a hypothesis of its own,
`Telling` for `ProblemsTold`, explained there; `MCScreen` assumes that its instance meets it, which
TLC evaluates.

In most of them `Invariance` (`Inductive` for `OAuth`, `Accounted` for `Quarantine`) proves one
inductive invariant `IInv`; in `SignIn` it is built up property by property. The properties of the runs
are read off it, the action properties from it and the step.

**Quarantine.** `TypeCorrect` first. The row properties need an invariant that remembers how each
worker got where it is, `IInv`: `RowHistory` (counts agree with where the row is: a held row has
entered quarantine once more than it was restored), `WorkerHistory` (a worker about to send for a
submit sends for an accepted row to which nothing was sent; about to send for a restore, for a row
that arrived held and was restored), `OneSubmitter`. Without them "emails ≤ 1" is not inductive:
the state in which two goroutines are both about to send satisfies it. `Accounted` proves `IInv`;
`HeldSilence`, `AcceptedOnce`, `NotifiedTruth` and `SignalPerMark` are read off it.
"At most one delivery per restore" relates a counter to a *number of workers*, so it needs
`ReleaseAccount`: sent plus still owed never exceeds restores. Its proof (`Released`) counts the
owing workers with the finite-set theorems (`OwedPaid`, `OwedGrows`); `OneRelease` follows.
`SettledForGood`, `PurgeWaits` (from `HeldSince`: the age the sweep reads is the time since the
row last entered), `InboxSafe` and `ClearAsCounted` are action properties.

**OAuth.** `IInv == TypeOK /\ Unique /\ Linked`. `Unique` is the three "only one" properties.
`Linked` is what hangs on what: codes on their client and operator, a grant's code is spent
(`IssuedForSpent`, so a fresh code has issued nothing), a spent code names a grant that was issued
(`CodesNameIssued`), what was burned is gone (`BurnedIsGone`), and tokens on live grants. The last
two are what makes `ReplayEndsTheGrant` inductive: a burned grant id cannot be issued again, and no
new pair can be minted for it because its refresh tokens are gone with it. `Inductive` proves it,
one lemma per action; the rest are corollaries, and `SpentRemembered` and `EndsOnPurpose` are
action properties over every statement that deletes rows.
`TablesKeepConnections` is the refinement. Three kinds of step gain something: `Approves`; `Connects`,
where the connections `Connection` says are between the two (`Between`) are the grants the transaction
replaces; and `GoesOn`, where the pair presented is the latest of its grant. All others only lose
(`Losing`): if no code, grant or pair is new and none changes whose it is, the step is a `Lose` of the
grants that went, because by `NothingOutlivesItsGrant` in the next state no token is left that works
for one of them.

**SignIn.** `SessionsBelong` and `AlwaysAnOperator` are inductive given the types.
`ChangeEndsEarlierSessions` is not: between the statements of a change nothing is reported yet.
`ChangeHistory` adds what a change under way knows: what it has set is not past the password there
is, and once its sessions were deleted every session of that user was opened since
(`EndedByChange`). `GuessesCapped` relates a counter to a number of requests, so `GuessAccount`
says where each guess is: without a lock it is on the guard's count or in a request about to report
it (`Failing`); under a lock only the requests already past `IsLocked` (`Guessing`) can add one.
The two sets share the requests, which is where `Cardinality(Requests) - 1` comes from.
TLC agrees with both strengthenings on the instance of `signin`.

**Broadcaster.** `PassInv` says what the worker's local variables hold at each of its statements
(the batch is empty outside the deliveries of a pass; what is about to close is finished), `RowsInv`
that a delivery comes and goes with its broadcast and that what was fetched is as it was, or deleted.
`NoLostWakeup` speaks of a worker asleep; what makes it inductive is `WakeupInv`, from the fetch that
found nothing onwards: what is open came in since, so its request is still about to notify.
`DuplicatesCapped` bounds mails by attempts and faults, which is not inductive because a mail leaves
before it is counted. `AttemptsInv` says where each one is: it is an attempt in the row, or was lost
with a fault, or is in flight (`InFlight`), and only the first of the batch can be. `WorkerKeepsPromise`
is the safety half of the refinement: the initial state is one of `BroadcastPromise`, and each step
under `IInv` is one of its steps or stutters.

**Restore.** `LockInv`: a restore past the lock holds it. `FileInv`: the database in place, the one set
aside and the staged ones are told apart, and an empty one was made only where another is set aside.
`ConnInv`: a connection in use is to the database in place. `StepInv` is one clause per file operation
(`StagedOf`, `StepOf`, `AnswerOf`): at `close` to `park` all that was answered and is not `exposed` is in the file itself,
at `swap` to `back` it is the one set aside, at `rmpark` the restored one is in place and serves.
`LastCopySurvives` is part of the invariant, because a crash leaves only it: what start-up and the
operator's recovery find is what it allows. `AnswersTrue` and `ServesOrSays` follow from `AnswerOf`.
`NoCredentials` (`CredentialsStayBehind`) rests on `StagedOf`, that an upload at its swap has been
stripped, and needs no more, because a crash and whatever is parked or put back after it only move
files: the next start finds in place what a restore put there.

**Waitlist.** `RowsInv` is about the table: one row per address and list, one per signup, none of a
list that is gone. `SignupInv` relates what a signup was told to the rows and to what was removed:
its address is on the list, by its own doing if and only if it was not told "already", at the place
it was told or a better one (`Told`), unless it was taken off. That gives `ConfirmedOnce` and
`PlaceStands`. `CastInv` carries who was on the list when a broadcast was asked for through the read
and the copy. `ViewInv` is why paging misses nobody as long as nobody is removed: an entry not shown
yet is on a page to come, since a signup only pushes it further back (`ToCome`). A place is a
cardinality, so these rest on lemmas about ranks. `NoOvertaking` (`NobodyIsOvertaken`) is the action
property behind them: ranks are ordered as row numbers are (`RankOrder`), and no step changes a row's
number or gives a new row one that is not the largest of all (`RowsMove`), so a place only gets better
although numbers are used again.

**Limiter and Screen.** `NeverMoreThanItsRate` bounds a debt; its inductive form is about the bucket
too (`CreditInv`): what is in the bucket, refilled up to now, and what is left of the debt never
exceed a full bucket together. Forgetting a bucket keeps that only when it had time to fill, which is
`RefillAssumption`. `VerdictInv` takes `StoredAddsUp` from the decision to the row. `ThirdIsHeld` needs
what the tally counts: its order lists each tracked pair once (`OrderInv`, without which an eviction
could drop the wrong one), and until a pair was forgotten it has counted exactly what was decided
(`CountInv`), each submission once (`OnceInv`). A score is a sum over a set of signals, which
`MapThenSumSet` takes in an order of its own: that the sum exists, and that it does not depend on the
order, is shown by looking at a smallest set for which it would fail. `SenderExcuses` needs no
reachable state beyond that a row is excused: it is about the rules' operators, for every content and
every pair of rules. `ReportedIsInert` says for any contents that a rule that is reported, and not
`Reread`, changes no verdict, whatever other rules there are. `ProblemsTold` (`ProblemsAreInert`) adds
what is true of a rule not reported: it changes a verdict, unless it `Repeats` a word the scorer lists
anyway, and then it changes none. That takes a submission to show it, so it is a theorem about instances
that have one: `Telling` asks that every name have a mailbox, every network an address in it and every
word a text it occurs in, and nothing of the rules. An allow or block rule that matches shows in the
verdict as the rule that decided it, which is what its hit is counted by; a keyword shows as a signal
more.

**Access.** `MintInv`: a token's column holds only forms that were ticked, and is empty only when all
were asked for. `CallInv`: a call runs the statements of its tool and no others; its filter is the
token's bound or one form within it; and the submission or form that a tool looks up first is within
the bound *from then on*, which is what the statements after it rely on. `IndexInv`: the index is
apart from the rows in no more than what is `astray`, or, before a start, its count is wrong too, and
start-up will build it anew (`IndexErrs`). `BoundHolds` is the action property that no statement of a
bounded token's call changes anything past its bound. `TellsNothing` compares a result with the one
in a database that holds only the bound's forms, statement by statement: sets by `OnlyRows` and
`HeldOnly`, the counts and statistics by lemmas of their own.

**Redact.** That the decoder's function exists is itself to be proved: a smallest position at which
every attempt fails does not exist (`First`, `PlacesIs`). Then:

* *nothing is left* (`Redacted`): a place the decoder does not stop at is inside a sequence that began
  earlier on the same line (`WidthIs`, `SkippedIs`), so what is kept has no escape, invisible or
  incomplete byte; keeping is done in order (`PickIs`, `PickPick`); the cut for a forged turn comes
  before the line of the first marker (`TurnIs`, `LineBefore`), so no marker is left, and cutting
  leaves a prefix of a clean text, which is clean (`CleanStays`);
* *the report says what* (`Reported`): both passes keep the newlines up to the cut (`LinesKept`), so
  their line numbers are those of the original; every line that lost something has a hit
  (`LinesAccounted`), and when there are too many the last one stands for the rest, which is right
  because they are sorted (`CapCovers`);
* *answers* (`AnswersFiltered`): each value an answer holds of a row is such a value, or an address the
  code prints itself.

**Only model-checked**: liveness (`HeldEventuallyLeaves`, `NothingLingers`, and the liveness in
`KeepsPromise`), which needs fairness and ENABLED. Every other property of the runs is a theorem,
except the two that the code violates.

## Where the code and its comments disagree

* **`quarantine_twice`** — `MarkNotified` (`store/quarantine.go:453`) is said to make sure "a
  second restore cannot send it twice", but it runs only if the *email* went
  (`handler/quarantine.go:310`). A form with only a webhook sends it again after mark as spam and
  restore.
* **`restore_unchanged`** — `rollBack` (`backup.go:515`) puts the previous database back without
  removing the log a half-opened replacement may have left, and SQLite replays it; the answer is
  "Your existing database is unchanged". The run uses no requests, so nothing else is in play. With
  requests the statement fails in a second way, on writes answered between the flush and the close, or
  not flushed at all (below).

Seen while modelling, without a run of their own:

* `Import` says it will "refuse the restore if it cannot be flushed completely" (`backup.go:465`), but of
  the checkpoint's row it tests the two counts and not `busy` (`backup.go:485`). A checkpoint refused the
  lock counts `-1`, `-1` without an error, which passes as a database that is not in WAL mode. If the
  connection that held the lock is still in use at the close, nothing writes the log back, and removing it
  loses writes that were answered before the restore, should it be rolled back or the process die.
  `Checkpoints` has that row, and `LastCopySurvives` does not claim those writes (`exposed`).
* `syncSearchIndex` (`search.go:81`) compares counts, so a restored file that "arrives with whatever index
  that file carried" keeps an index of as many other documents, and searches miss rows until the counts
  differ at a start. `OnlyTheFileErrs` claims that nothing else makes it err.
* A bounded token's search (`search.go:111`) is ordered by a rank over the words of every form's rows, so
  which of its own matches a limit cuts off depends on forms it cannot see. `AsIfOnlyItsForms` claims
  which answers are possible, not which comes.
* `toRule` withholds the value of ip and cidr rules (`tools.go:221`). A keyword rule whose value is an
  address is listed without `MCP_INCLUDE_IPS`, though `looksLikeAddress` withholds the same value in the
  breakdown of a row.
* `classifyMissingHeld` (`store/quarantine.go:56`) reads `is_held` and ignores it; overtaken by
  mark_spam, Restore says the submission is in the inbox when it is held.
* `MakeRoomForOAuthClient` and `CreateOAuthClient` are two statements, so concurrent registrations
  exceed the cap of `handler/oauth.go:107`.
* `README.md:132` and `docs/operations.md:6` say that changing a password ends every session.
  `dsforms user set-password` (`main.go:635`) changes the hash and leaves the sessions; and a login
  that checked the old password before any change opens its session after it. What the account page
  promises, that every *earlier* session is over, holds.
* The limiter's sweep forgets a bucket after 30 minutes whatever its size: with `RATE_BURST` above
  thirty times `RATE_PER_MINUTE` it hands out tokens that had not come back (`RefillAssumption` states
  the condition, which the defaults meet by far).
* `CheckRules` is said to report "stored rules that can never match anything" (`screen.go:115`). It also
  reports, of rules that an older version stored: a network in another spelling, though `rules.Match`
  parses it again; a keyword in another, though the scorer lower-cases it; a domain without a dot, though
  it matches every host that ends in it. `AddFilterRule` stores none of these. And it is silent on a block
  keyword of the built-in list, which `AddFilterRule` accepts and `DetailWith` drops as a duplicate
  (`detail.go:145`): the rule does nothing.
* The comment that a keyword rule never holds a submission by itself (`rules.go:133`) is true of
  thresholds above its weight of 5, and an operator may set lower ones.
* A rule's hit is counted before the row is stored, and stays when storing fails.
* Two waitlist addresses that differ in case are two entries, each confirmed.
* A signup whose second statement fails is answered with an error; its retry is told it had joined
  already, and no confirmation is ever sent.

## Not modelled

Left out for good: the regular expressions that find markup, links and gibberish, and the wording of
signals, hits and answers; the read-only side of statistics, the overview and its charts, CSV export,
pages and templates; the parsing of configuration, URLs and request bodies; OAuth's consent page, PKCE
and redirect matching (free choices in `OAuth`); the command line, which is wiring over store
operations; and the wire formats of SMTP, webhooks and MCP. What FTS considers a match, and how it
ranks matches, is free in `Access`. A value that only the shape test of `addr.Canonical` takes for an
address, and the mail parser does not, is prose in `Screen`.

## Plan

1. What an acknowledged write is worth across a restore, stated abstractly (a database that is one of
   two, with a log), and `Restore` shown to implement it, as `Broadcaster` and `OAuth` do theirs.
2. The lemmas on numbers in order, sums and smallest counterexamples are stated where they were first
   needed; the ones that two proof modules share could move to a module of their own.
3. Liveness by hand: the leads-to chains behind `HeldEventuallyLeaves` and `NothingLingers`, once the
   prover handles ENABLED.
