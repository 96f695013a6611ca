# ChatBucket B2B backend: formal specifications

TLA+ models of the backend in `src/app`, TLC configurations that check them on
small instances, and TLAPS proofs of what matters most for every instance.

The program is a FastAPI service over MongoDB, run by two or more workers. It
uses no transactions. **The unit of atomicity is one MongoDB operation on one
document**; between two of them (every `await`) any other handler of any worker
may run, and any of them may be the last thing a handler does. That is what the
models keep: one action per database operation, one process per handler, and
failures between any two steps. Formatting, wording, logging and rendering are
left out; amounts are small integers of credit units.

## The system

| Component | State | Operations | Talks to |
|---|---|---|---|
| Credit store, `credits.py` | `credit_accounts` (balance, lifetime purchased), `credit_ledger` | `grant`, `try_debit`, `debit_allowing_negative`, `get_account` | called by metering, settlement, sign-up, closure |
| Usage metering, `routers/usage.py` | `usage` records with an optional idempotency key and a billed flag | `POST /usage`; read-only overview, time series, export, summary | plan limits, pricing, credit store |
| Top-ups and settlement, `routers/billing.py`, `payments.py` | `payments` (status, order id, gateway payment id, invoice number) | `create_top_up`, `payment_webhook`, `verify_checkout`, `confirm_payment`, `_settle` | the payment gateway, credit store, invoices, users, mail |
| Invoices, `invoices.py` | `counters.invoice_number`, `invoices` | `next_invoice_number`, `issue_for_payment` | called by settlement |
| Account closure, `routers/account.py` | user document, keys, sessions, balance | `delete_account`, export | sessions, keys, credit store |
| Sessions and tokens, `sessions.py`, `routers/auth.py`, `deps.py`, `security.py` | `refresh_tokens` in families, `users.token_version` | login, refresh with rotation and reuse detection, logout, password reset, guards of every request | users |
| Registration and verification, `routers/auth.py`, `verification.py` | users, pending phone verifications, codes, tokens, attempt counters | register, verify by link, code or SMS, resend | mail, SMS, credit store (sign-up bonus) |
| API keys and projects, `routers/api_keys.py`, `routers/projects.py` | `api_keys`, `projects` | create, rename, move, revoke; create, rename, delete project | metering reads both, closure revokes keys |
| Service status, `status.py` | current status and one rollup per service and day | heartbeats, probes, manual reports, staleness on read | the status page |
| Notifications and scheduler, `notifications.py`, `routers/notifications.py` | `notifications`, `job_runs` | send-once claims, batched broadcasts, periodic jobs claimed by one worker, the same jobs started by an operator | mail, users, reports |
| Rate limits and plan limits, `ratelimit.py`, `plans.py` | one counter per bucket and window | `hit`, `enforce` | auth routes, metering |
| Money, pricing, analytics, reports | none | rounding, rate cards, buckets, period comparisons | metering, billing, reports |
| Indexes and start-up, `database.py`, `main.py` | which unique indexes exist, `indexes_ready()` per worker | `ensure_indexes` retried for ever, probes, scheduler start | everything that relies on a `DuplicateKeyError` |

### Behaviours that are hard

* **Interleaving.** Two calls race for one balance; webhook, browser callback and
  operator report one payment at the same time; a key or a session is created
  by a request that authenticated before everything was revoked.
* **Partial failure.** Charging a call is four writes, settling a payment seven,
  closing an account four. Nothing rolls back and nothing resumes.
* **Unreliable delivery.** Clients retry after a timeout, possibly while the
  first call is running; the gateway delivers until it is answered with 200.
* **Stale reads.** The idempotency index may be missing while a worker serves;
  `indexes_ready()` lags behind it; attempts are read, compared, then counted.
* **Sequences.** Invoice numbers are drawn by one operation and used by another;
  a proof that a number is somebody's is written by one request and spent by the
  next; a claim outlives the process that took it.
* **Boundaries.** Windows, days, months and ranges meet at instants that belong to
  one side only, and each call is rounded by itself.

`PROJECT.json` lists each hazard at its line, with the properties that cover it.

### What makes each component correct

* Credit store and metering: an enforced balance is never overdrawn; an event is
  charged at most once; a refused call costs nothing; flag, ledger and balance
  tell the same story.
* Settlement and invoices: a top-up is credited once, by a payment of its own,
  and what is paid is credited; receipts and invoices follow at most once.
* Closure: no money appears or disappears unaccounted for; nothing that was
  revoked works again.
* Sessions: a refresh token is used once, a replay revokes its family, and no
  session outlives a password change.
* Keys and projects: a key and the usage made with it never get into another
  customer's project, and a project that is gone has no keys.
* Verification: behind a verified mark there is a code that was texted to that very
  number; a proof opens one account; guesses and rates are bounded.
* Status: the page is never green from silence, and a day keeps its worst status.
* Notifications: what is sent once is sent once, nobody is left out unnoticed, and
  what falls due is run in the end.
* Money, pricing, analytics: rounding drifts by half a unit a call at most, every
  view shows every record once, and the summary's figures reconcile.

## Modules

| Module | What it is |
|---|---|
| `Credits` | the credit store; each operation a single-document update |
| `CreditAccount` | what a customer is promised of it: an abstract specification with indivisible movements, no handlers, no failures |
| `Metering` | `POST /usage`, extends `Credits` |
| `Settlement` | top-ups, the gateway, `_settle` and invoices, extends `Credits` |
| `Settlement_proofs` | its theorems |
| `Billing` | both on one credit store, with closing an account; extends `Metering` |
| `Billing_proofs` | theorems about `Metering`, alone and as a part of `Billing` |
| `Sessions` | refresh tokens, `token_version`, and every handler that issues or ends sessions |
| `Sessions_proofs` | its theorems |
| `Accounts` | keys, projects, the usage recorded under them, its summary, and closing the account |
| `Accounts_proofs` | theorems about `Accounts`, `Pricing` and `UsageViews` |
| `Pricing`, `UsageViews` | what a call costs; what is read out of the usage. Operators, used by `Accounts` |
| `Verification` | registration, codes, guesses, proofs of a number, the profile's number; extends `RateLimit` |
| `RateLimit` | the fixed-window limiter |
| `Verification_proofs` | theorems about `Verification` and `RateLimit` |
| `ServiceStatus` | heartbeats, probes, reports by hand, the day's rollup, the page |
| `ServiceStatus_proofs` | its theorems |
| `Scheduler` | the scheduler loop of each worker, jobs by hand, claims of runs and messages |
| `Scheduler_proofs` | its theorems |
| `Sums` | theorems about sums over finite sets, used by the proofs |
| `MC...` | the instances TLC checks, one for each module above |

Definitions are named after the code. `map` in `PROJECT.json` gives the lines of
each. Definitions with a comment that starts with *Mistake* are not part of the
model: each is a plausible bug of one definition, which the named property must
catch when it replaces that definition.

### Credits and CreditAccount

`balance`, `purchased` and `ledger` are the stored fields. `moves`, `forfeited`
and `failures` are history: every movement the balance really made, what closing
an account wrote off, and how many operations have failed. `grant` and
`try_debit` are two database operations in a row, so `Grant` and `TryDebit` stop
before the ledger append and the caller's module takes `AppendLedger` as a step of
its own. `Failure` is the one way anything fails, and `MaxFailures` bounds it for
TLC; the theorems hold for every bound.

`CreditAccount` says: each movement is for something that had not moved the
balance before, is recorded with the balance it left, and never takes an enforced
balance below zero. `Metering`, `Settlement` and `Billing` all implement it
(`ImplementsCreditAccount`, the identity mapping on `balance` and `moves`).

### Metering

A call (`Calls`, also the ids of the records) carries a user, a key or none, and a
price. Its handler goes through `pc`: *idle*, *precheck* (the look-up when
`indexes_ready()` is false), *insert*, *find* (the look-up after a
`DuplicateKeyError`), *debit*, *append*, *flag*, *done*, or *failed* wherever it
died. A retry is another call with the same key, so any number of retries overlap
in any way. `indexed` says whether the unique `(user_id, idempotency_key)` index
exists; it appears at any time (`BuildIndex`), if the stored records allow it, and
a worker may or may not know yet. `enforced` is `ENFORCE_CREDIT_BALANCE`.
Authentication, the plan limit and pricing precede the first write and change
nothing here, so `Receive` stands for a call that has passed them.

### Settlement

`stage` follows `create_top_up` (recorded, order created at the gateway, order id
stored and answered, or abandoned), `payment` is the document, and `attempt` is what
happened at the gateway: which order each gateway payment pays. Handlers are
slots: `job[h]` is idle or a settlement at some position, so redeliveries and
repeated callbacks are unlimited and only what runs at the same time is bounded.
`Webhook`, `Callback` and `Confirm` are the three entry points with their checks;
the signatures are abstracted to "the gateway really signed this payment of this
order". The steps of `_settle` follow in the order of the code: claim, grant,
ledger row, plan, invoice number, invoice, its number on the payment, receipt,
answer. `acked` is what the gateway has been told. `via` is history.

### Billing

`Billing` extends `Metering` and takes `Settlement` as an instance on the same credit
store, and an account is closed beside them: keys revoked, sessions revoked, user
anonymised (`token_version` moves on), balance zeroed. Webhooks and handlers in flight
go on. What starts a call, a top-up or a callback after the third step is a session
that was renewed across it (`NoRenewalSurvives`): `get_current_user` compares versions
and never asks for `deleted_at`. `tokens` are the users with a token of their version,
`Anonymise` keeps the user in it or not, and whoever is left in it may close the account
again, since the password hash stays. One closure of an account runs at a time here;
overlapping ones are in `Accounts` and `Sessions`.

### Sessions

One account. `refresh` holds the documents of `refresh_tokens`; a family is named by
its first token, as in the code. `version` is `token_version` and `access` the access
tokens that have it: versions only grow, so one that is retired stays retired and
is forgotten. `link` says whether a password-reset link is outstanding. Each slot
runs one handler, position by position in the order of the code:

* `login`: `LoginRead`, `Issue`; `refresh`: `Claim`, `FindUser`, `Issue`, or
  `ClaimFails`, `Look`, `RevokeFamily`;
* `logout` of one: `LogoutOne`, `RevokeOne`; of all: `LogoutAll`, `SweepLogout`, `Bump`;
* `change_password`: `ChangePassword`, `WriteChange` (which bumps), `SweepChange`,
  `Reread`; `forgot_password`: `ForgotPassword`, `SaveLink`; `reset_password`:
  `ResetPassword`, `WriteReset` (which bumps), `SweepReset`;
* `delete_account`, as far as sessions go: `CloseAccount`, `SweepClose`, `Anonymise`
  (which bumps).

`Die` ends any of them anywhere. Time is `Expire` and `LinkExpires`, the TTL index
`Remove`. What a claim or a sweep does to a document is one database operation, so
these actions are the code's atomic steps.

`origin` and `overlap` are history. `origin` numbers the sweep after which a family
signed in, and `overlap` marks what a handler issued that ran beside an operation
ending the session: it was about to mint when the sweep came, or read the user
between the bump of a password and its sweep. The marks are what makes the
promise of the code precise: everything unmarked has really ended, and what is
marked is the whole extent of the gap described below. A gap elsewhere (a reset that
does not bump, a sweep that misses a token) leaves a token that is not marked.

### Accounts, Pricing, UsageViews

Each slot runs one request; `job[p].at` is the position in its handler, and the
actions are the database operations in the code's order: `CreateKey` (the project is
resolved) then `InsertKey`; `MoveKey` (both are looked up) then `StoreMove`;
`DeleteProject`, `Detach` (keys forget the project), `Drop`; `UseKey` or `UseSession`
(authentication), `Record`, `Charge`; `Summarise`, `ReadUnbilled`, `Answer` (three
reads of the summary); `CloseAccount`, `RevokeKeys`, `Anonymise`, `ZeroBalance`. `Die`
ends any of them. `get_current_user` lets in whoever has a token of the user's
`token_version` (`SignedIn`) and never asks for `deleted_at`; `get_api_user` asks only
whether the key is revoked. Closing an account retires its tokens (`retired`) or leaves
a session that was renewed beside it: which, `Sessions` decides, and here it is a choice
of `Anonymise`. `shut`, `late`, `outlived`, `adrift` and `cut` are history and name exactly
what may slip through: a key stored after the closure revoked what there was, a
session that outlived a closure, a key stored with a project under deletion, a closure
that stopped before the balance was zeroed.

`Pricing` computes in whole units of the fourth decimal: rate cards, models' prices
that replace them, rounding half-up once. A call reports one quantity, priced at the
flat rate (`calculate_cost`), or two sides apart, each at its own rate even when the
other is zero (`calculate_split_cost`). `UsageViews` has the chart's
buckets, the overview's two periods, month windows and the engine totals, over a
log of records; `ViewsLoseNothing` and `SpendIsFair` compare all of them with the
records at every state of `accounts`.

### Verification and RateLimit

An account is its address. `boxes` are the places a code is kept in: with the
account (phone, mail, link) or, before there is one, with the number
(`phone_verifications`). `proofs` is `verified_at` with the code behind it. Handlers
are slots again: `Register`, `ReadProof`, `InsertUser`, `GrantBonus`, `Channel`;
`ResendPhone` or `ResendEmail` and `IssueCode`; `VerifyPhone`, `FindPending`,
`VerifyEmailOtp` and `OpenLink`, which compare with what was read, and `CountWrong` or
`Honour`, which write; `UpdateProfile` and `SaveProfile`. Hashes are abstracted to
"right or wrong", so a guess is a choice. `codes` is history: each code, whom it
went to, how many wrong guesses it was compared with and how many of those
overlapped. `raced` and `shared` mark accounts and proofs that two requests had in
hand at once.

`RateLimit` is `hit()`: one counter per key and window, an atomic upsert, and a store
that lets everything pass when it fails. `Verification` takes `Admit` as part of the
request it admits.

### ServiceStatus

A reporter is a request, a prober the loop of a worker that goes through `Probed`.
`record()` is `Begin` (the clock), `Store`, `ReadDay`, `WriteDay`; any step may fail and a
worker may restart. A page is `ReadDocs` or `ReadDoc`, then `Answer`, which judges what
was read by the clock of that moment. `stored`, `rolled` and `raced` are history.

### Scheduler

A worker goes `Wake` (what is due is computed once), `ClaimRun`, `Recipients`,
`StartBatch` and the handlers of a batch side by side, `FinishRun`, and on to the next
job. Each customer of a run has a stage of her own (`look`, `claim`, `send`, `release`,
`done`), since `asyncio.gather` interleaves the handlers of a batch. Operators take
the same steps without the claim of the run (`RunByHand`). `Filtered` are the jobs whose
query leaves out whoever needs no message (verification reminders); the others look at
each customer first. `Unreported` are those that stop at the cap and do not say so
(free-credit reminders). What fails is told apart
by where the code catches it: `SendFails` (the send; the message may have gone out
all the same), `Blip` (a handler; counted by the batch), `RunRaises` (before there are
recipients; the run is released), `TickFails` (outside `run`; the claim stays) and
`Die`. `mail`, `confirmed`, `failures`, `lost` and `clean` are history. The clock is in
hours from the start of a month of the display time zone, and its units are
constants.

## Runs

| Run | Question | Instance |
|---|---|---|
| `metering` | Do retries, races and dying handlers ever charge twice, overspend, or leave flag, answer, ledger and balance in disagreement? | three calls, two customers, one key or none, two prices, one failure |
| `settlement` | Can reports in any order and number credit twice, credit the wrong top-up, lose an invoice, waste a number or send two receipts? | two top-ups, two gateway payments, two handlers at once, operator included, a pack or an amount that is no credit unit, gateway configured or not, one failure |
| `settlement_live` | Is what was paid credited, although the browser is gone and a delivery may die? | one top-up, two gateway payments, two handlers, one failure |
| `settlement_acked` | Does a 200 to the gateway mean the credits are there? (No.) | two top-ups, one failure |
| `billing` | Do calls, a settlement and a closure, all at once on one balance, still move it as promised, and does the ledger explain it? | two calls, one top-up, closures of one account, one failure |
| `sessions` | Does a session ever fork, survive a detected replay, end for one that did not happen, or come back once it has ended, and what survives a logout of all, a password change, a reset or a closure? | two refresh tokens, two handlers at once, two handlers that end sessions, any handler dying |
| `sessions_end` | Does nothing at all survive it? (No.) | as above, one handler that ends sessions |
| `accounts` | Can overlapping requests put a key or usage where it does not belong, or spend for a closed account; do summary, prices and views agree with the records? | two requests at a time, two customers, keys and projects, two kinds of calls, two instants at the ends of a month, four requests |
| `verification` | Can a number count as verified that was not proven, a proof open two accounts, a code be guessed at or a limit be passed without bound? | two requests at a time, two addresses, a number that gets texts and one that does not, two codes, five requests, limits and attempts of one, a window of two instants, one outage |
| `status` | Can the page be green from silence, or a day forget its worst status? | one reporter, one probe loop, one reader, two systems, two days, three reports |
| `scheduler` | Is a period worked on twice, a customer told twice or left out unnoticed, and is what falls due finished although workers die? | two workers, an operator, one customer, two jobs of one day, two failures |
| `scheduler_blip` | Is a report repeated when the database fails during it? (No.) | two workers, an operator, two customers, a whole month of two days, two failures |

**Why these bounds are enough to be interesting.** Three calls are a call, its
retry and a rival for the same credits; the opening balance covers one of them at
the dearer price and not two. Two top-ups and two gateway payments let every
payment be reported for the wrong top-up, and a top-up be paid twice; two handlers
let every two steps of two settlements interleave, and since a slot is reused,
deliveries are unlimited. One failure may happen at any step of any handler; every
hazard found needs one. In `billing` the balance covers one of two calls until the
top-up arrives. Users, calls, payments and slots are symmetric wherever `SYMMETRY`
is used, and only safety is checked under it. In `sessions` two tokens are two
sign-ins, or one and its renewal; two handlers at once are enough for every hazard
listed, each of which is a step of one handler between two of another, and slots
are reused, so refreshes, replays and logouts are unlimited. Two that end sessions
(`MaxRevocations`) let each kind overlap with itself and with each other kind.

In `accounts` four requests are enough for a key to be created, moved, used and
revoked, or for three of these beside a closure or a deletion; the instants are
midnight of the first of March and the first minute of April, 31 days and a minute
later, so that what was recorded at the one falls into the month and the period before
the other's.
The call that is priced for its two sides comes to 4.25, which is 4 rounded once and 5
rounded side by side. In `verification` a second code is what makes the first one old,
a second address what makes a number somebody else's; attempts and limits of one
bring the limit, and what passes it, within two requests. In `status` the three
reports are two that overlap and one on another day; a day is an instant and
nothing older than the instant is fresh, so every report gets stale. In `scheduler`
two failures are one that leaves something behind and one that meets it; one of
the daily jobs asks of each customer whether to write, the other lets its query do so
and is also started by hand, which is what makes two senders of one message.
`scheduler_blip` has the report, the cap, batches of two and a broadcast by hand; in
the passing run everybody fits under the cap, so that a cut run is never taken for a
clean one rests on the theorem.

**Deadlock** is checked wherever the instance lets the program go on. `Terminated`
lets `Metering`, `Settlement` and `Billing` stop exactly where the program has nothing
left to do; `Sessions`, `ServiceStatus` and `Scheduler` can always take another step.
Only `accounts` and `verification` turn the check off: the number of requests is
bounded there, and after the last one there is nothing more to ask.

**Fairness.** `settlement_live`: a worker runs the handlers it has started, weak
fairness of each slot's `Settle`; the gateway redelivers a webhook until it is
answered with 200, strong fairness of `Redeliver`, strong because a delivery may
find every slot taken again and again. Nothing is assumed of customers, of the
callback, or of handlers not failing. `scheduler`: weak fairness of each worker's
`WorkerStep`. The event loop runs what is ready, and `scheduler_loop` never exits on an
error, so a worker that is between ticks wakes again. Nothing is assumed of
operators, of the clock (the property speaks of what is due when it stops), or of
failures, which may come at any step until their number is used up. In
`DueRunsFinish` a run may also end in `lost`: a worker that died with its claim
leaves the period claimed, and nobody runs it.

### What the code does that its documents deny

* **A redelivered webhook can be answered with 200 while the credits never come**
  (`README.md:705`, `routers/billing.py:565`): a handler that dies between the claim
  and the grant leaves a paid top-up which every later report reads as a replay
  (`settlement_acked`).
* **A session can survive the end of all sessions** (`README.md:570-573`,
  `sessions.py:6`, `routers/auth.py:577`): a refresh that has claimed its token stores the
  successor after the sweep has run. `OnlyOverlapSurvives` shows that nothing but
  such an overlap survives (`sessions_end`).
* **A database blip can leave everybody without a report for the month**
  (`notifications.py:486-487`: "a Mongo blip during the monthly run must not mean nobody
  gets a report this month"): what a handler raises is returned by `gather` and
  counted (`notifications.py:124`), so the run that failed for everybody is finished,
  not released (`scheduler_blip`).

Seen while modelling, and not runs of their own - each follows from a few lines of
the code:

* `unbilled_total` ("never charged", `README.md:690`) may have been charged
  (`routers/usage.py:356`): a handler that dies between the debit and the flag;
* invoice numbers have gaps (`README.md:715`, `invoices.py:7`): the number is drawn
  first, and an insert that fails is swallowed. `GapsAreFailures` shows that a gap
  takes a failure, one for each;
* a sign-out can leave its session (`README.md:570`, `sessions.py:94`): when a refresh
  has just spent the token that is presented, `RevokeOne` marks the spent one, and the
  successor goes on behind a 200;
* "a human saying this is down stands until a human says otherwise"
  (`status.py:16-17`): the next heartbeat or probe overwrites it (`Store`);
* while the idempotency index is missing (`routers/usage.py:284`) two overlapping
  retries can both find nothing and both charge, which is why
  `ChargedOncePerEvent` starts at `indexed`;
* a custom top-up is credited from the amount before it is rounded to what can be
  charged (`routers/billing.py:244-252`);
* a payment reported after its account was closed is credited to the closed
  account (`routers/account.py:161`); `forfeited` does not cover it;
* `README.md:699` calls `POST /billing/payments/{id}/confirm` the only way to be
  granted credits; the webhook and the callback are two more;
* neither `get_api_user` nor `get_current_user` asks for `deleted_at`: a key that outlives
  a closure works (`late` in `Accounts`), and so does a session that does (`outlived`),
  with which usage is reported and keys are made - "revoked, so nothing stays signed
  in" (`account.py:15`);
* in the summary `billed_total` can fall short of what was charged, and
  `unattributed_cost` ("non-zero here means a service is metering without sending
  `model`", `routers/usage.py:813`) be off zero or negative, when calls are recorded
  between its reads: `SummaryNeverOverstates` says by how much;
* "the bucket containing `to` is included" (`analytics.py:90`): its label is, and what
  was recorded in it after `to` is not;
* a number saved in the profile is compared with the one read at authentication
  (`routers/profile.py:44`), so of two saves at once one can keep the mark for a
  number nobody proved, and a code that was being checked is honoured for whatever
  number the account has by then: `raced` in `Verification`;
* a worker that dies with a claimed run leaves the period claimed for ever (`lost` in
  `Scheduler`), and a run that was cut by `BROADCAST_MAX_RECIPIENTS` is finished all the
  same: its period is not run again;
* "True means the run stopped at BROADCAST_MAX_RECIPIENTS" (`notifications.py:71`):
  free-credit reminders stop there too (`notifications.py:400`) and never set it, so
  `NobodyLeftOutSilently` cannot be asked of them;
* an operator may run the report of a month that is not over (`RunByHand`), after
  which those it told get no complete one;
* the comment on rounding says that 30 hours are "expires in 1 day"
  (`notifications.py:414`); the expression under it makes them 2;
* "single use: without this the same proof could be replayed to create several
  accounts" (`verification.py:267`): two checks of one code at once, the second
  overtaken by the registration, the freeing of the number and a newer code, make the
  proof good again, since the mark is set by number alone (`verification.py:237`);
  `shared` in `Verification`.

### What the properties leave unchecked

Some properties exempt the overlap they found, and say nothing of it beyond naming it:

* `StripKeepsTheWorst` exempts the reports of `raced`, which another overtook between
  reading the day and writing it: that race of `status.py:136` is a fact of the
  code, and the property says that nothing else loses a day's worst status;
* `VerifiedMeansProven` exempts the accounts of `raced`, whose number changed under a
  request that had read it (`routers/profile.py:44`); the same holds of that race;
* `ReplayIsTheOriginal` and `ChargedOncePerEvent` say nothing of two charges of one event
  while the idempotency index is missing;
* `PaymentsMatchOrders` is about which payment settles which top-up. How a custom amount
  is rounded (`routers/billing.py:245`) is not modelled: credits and charge may differ
  by the fraction that cannot be charged;
* the sum in `LedgerMatchesBalance` is one of runs in which nothing failed. What a failure
  leaves is said by `BilledMeansPaid` for a call and by the finding on `_settle` for a top-up;
* `NobodyLeftOutSilently` speaks of jobs that report their cuts.

## Proofs

TLAPS proves for every number of users, calls, keys, prices, top-ups, gateway
payments and handlers, every opening balance and every bound on failures what the
runs show on small ones. The assumptions are those on the constants
that each module names (`CreditsAssumption`, `MeteringAssumption`,
`SettlementAssumption`, `BillingAssumption`, `SessionsAssumption`, `AccountsAssumption`,
`ViewsAssumption`, `CalendarAssumption`, `PricingAssumption`,
`VerificationAssumption`, `RateLimitAssumption`, `StatusAssumption`,
`SchedulerAssumption`): amounts, instants and bounds are natural
numbers, ids of records and payments are ids of movements, the values that stand
for "none" are no ids, different kinds of processes are different, and the requests
in flight at once are finitely many. A month has 28 to 31 days, the calendar goes on
for a month after the last instant, and there are finitely many providers.

**`Sums`.** What a ledger, a log or a customer's records come to is
`SumFunctionOnSet`, a fold that takes out one chosen element after another.
`IterExists` shows that this recursion defines a function, `SumRemove` that the choice
does not matter, and from that come the facts the other modules cite: adding an
element (`SumAdd`), splitting a set (`SumSplit`), summing by kind (`SumByKind`), sums that
only grow (`SumGrows`) and sums of rounded terms (`SumOff`). The library's induction
theorems cannot be instantiated here; `Induction` and `SubsetInduction` are the same
principles said of sets instead of predicates, and rest on `WFMin`, which says so of a
well-founded order.

**`Billing_proofs`, metering.** The safety properties are not inductive: they say nothing of
a handler that is half way. `IInv` adds what each position knows (`BeforeInsert`,
`BeforeDebit`, `AfterDebit`, `AfterAppend`), that every movement is the one its
handler remembers (`MovesAreTaken`), that records of one event are unique once the
index exists (`UniqueRecords`), and that a charged record is stored. `StepIInv`
goes through the actions; only `Insert` and `Debit` take more than a few lines, for
they use the index and the conditional update. From it follow
`BalanceNeverOverdrawn`, `ChargedAtMostOnce`, `FlagMatchesLedger`,
`RefusedIsNeverCharged` and `MeteringImplementsAccount`; `TypeCorrect` comes first.
`ReplayAlwaysTheOriginal` needs one thing more, `FindFinds`: while a call looks for the
original, the record that collided with it is there.

**`Settlement_proofs`.** Everything rests on the claim. `Owners` says that a handler
past its claim works on a paid top-up and is alone on it; it is proved first. Then
`Grants` (the owner at *grant* has granted nothing, later it has), `Receipts` (the
owner has no receipt sent yet, and past *append* the ledger row is there), `Ids`
(which payment settles what) and `Numbers` (numbers in hand and on invoices differ
and never exceed the counter) are each inductive given those before. The frame
lemmas (`TopUpFrame`, `ReportFrame`, `SettleFrame`) and effect lemmas
(`SettleEffect` and its like) state once what each step touches. From them follow
`CreditedAtMostOnce`, `PaymentSettlesItsOrder`, `InvoicesStayInSequence`,
`ReceiptSentAtMostOnce` and `SettlementImplementsAccount`. `GapsNeedFailures` counts:
drawing a number puts it into a handler's hands, storing the invoice puts it on paper
(`Numbers` says that nothing is in the way), and only a failure drops one, which
is one gap more at the most for one failure more (`NoNewGap`, `OneNewGap`).

**`Billing_proofs`, the composition.** What each half proves of itself does not hold beside the other:
the invariants above say that *every* movement is one of their own. `IInv` keeps the
part that survives composition. A call before its debit has moved nothing
(`Unmoved`), and neither has a top-up that is not paid or is with the one handler
about to grant it (`Ungranted`). Since no id is both a call and a payment, neither half
disturbs the other's part (`MeteringKeeps`, `SettlementKeeps`), and closing an account
makes no movement (`ClosureKeeps`). So the only steps that change a balance are a debit
and a grant, each a movement for something not moved before, and zeroing it:
`BillingImplementsAccount`.

**`Billing_proofs`, the ledger.** The sum in `LedgerMatchesBalance` is one of accounts with nothing in
flight, which is no invariant of a step. `Books` is, and it keeps two accounts of each
balance. `Balanced` holds whatever fails: a balance is the opening one, less what
was written off, plus what the account's movements add up to; a debit or a grant
adds its movement to both sides (`TotalAdd`), and zeroing moves the balance to what
was written off. `NothingLost` holds while nothing has failed: a movement is in the
ledger or at hand, with the call that has debited or the settlement that has
granted and is about to append its row. With nothing in flight nothing is at hand, so
the ledger is the movements: `LedgerAgreesWithBalance`.

**`Sessions_proofs`.** Every step is first reduced to its effect on documents and
handlers: most only make tokens harder to claim (`DocsFade`) and leave or mark the
other handlers (`JobsKept`). Three invariants follow. `TypeInv` adds to the types that
documents, handlers and alarms name families that exist (`Named`), so a sign-in
starts a family nobody is in. `RenewInv` is about renewals: a family has one live
token or one handler renewing it (`One`); claiming turns the first into the second
and storing the successor turns it back. `SurviveInv` counts sweeps: what is live or
about to be minted comes from after the last sweep or is marked (`SweptOrMarked`),
and no access token is ahead of `version` (`Counted`), so that a bump retires them
all. A bump that comes *before* its sweep leaves a window in which tokens of the new
version may belong to old sessions; `Windowed` says they are marked, which is what
makes `SweepReset` and `SweepChange` preserve `Retired`. From these follow
`OneContinuationAlways`, `ReuseDetectionAlways` and
`OnlyOverlapSurvivesAlways`, for any number of tokens, handlers and revocations.
For `EndedForGoodAlways`, a token is only ever stored by a handler that was renewing
its family, or starts a family of its own that `Named` says nobody was in
(`SessionsAssumption`: the value that stands for "none" is no token).

**`Accounts_proofs`.** `Holds` says of each position of a handler what it has looked up
and may rely on, although anything may have happened since: the caller exists, the
key was issued to the caller, the project was the caller's. Owners and the customer
of a key never change, so these facts survive every step of every other request.
From them and the types follows `Theirs` (whose project, whose usage). A deletion is
harder: `Detaching` and `Attached` say that a key still with a project that is gone, or
about to go, was stored after `Detach` and is `adrift`. For a closure `KeysShut` says that
of those `shut` only `late` keys work, `OutlivedOnly` that usage begun after the closure is
under such a key or in a session that outlived it (the types say that a closed customer
is signed in with no other), and `ClosureEnds` that a closed account is zeroed, about to
be, or was cut. The theorems are `TypeCorrect`, `KeysStayTheirOwners` and `ClosedStaysClosed`.

The rest is about sums over the usage. Usage is only added to, and what is billed
stays billed (`UsageGrows`), so what a customer spent, paid, and has attributed or not
never falls: each is a sum over a part that only grows (`PartsSpent`, `FiguresGrow`), and
no part grows by more than the whole. `Summaries` says of a request what it has read
against what there is now and what was spent since it began, and survives every step
of the others (`ReadsStay`): `SummaryIsNeverAbove`. A record's cost is the
price of its call (`CostsFollow`), half-up rounding is off by half the denominator at
most (`QuantizeIsNear`), and calls of one service and model share the denominator:
`ChargesStayFair`, for every price list. For the views `FirstDays` shows that the
recursion of the calendar is one, `MonthIs` and `MonthExists` that each instant is in
one month, `MonthsFollow` that the jump of 32 days from the first of a month always
lands in the next; `TruncateIsLabelled` does the same for buckets and `EnginesAddUp` for
the groups of an engine: `ViewsAreWhole`.

**`Verification_proofs`.** Lemmas named `...Effect` first say what each action does. Then
there are six invariants. `TypeInv` gives the types and, in `InHand`, what a request at
each position may rely on; it is the base of the other five, which are independent.
`NumberInv`: what a request has read of an account's number still holds, or the request
is stale; so a mark set by a request that is not rests on a code for the number.
`LatestInv`: codes kept with a number, and those compared with it, are its latest,
unless replaced since. `ProofInv`: a code that is not shared is in one registrar's hands
at most, and once it has opened an account it is with that registrar or `Spent` - in no
document, and in the hands of a request only if that one will find the number `Gone` or
is stale. `WelcomeInv`: an account about to be welcomed has not been. `GuessInv`: wrong
guesses are counted with the code, under way or lost, and those under way overlap.
`RateInv`: what any two windows admitted is counted in them or passed in an outage; an
interval as long as a window meets two at most (`NextWindow`). From these follow
`VerifiedAlwaysProven`, `OneAccountPerProof`, `GuessesAlwaysBounded` and
`RatesAlwaysCapped`. `ProofInv` could not be proved of an earlier form of
`ProofOpensOneAccount`, and the step where the proof got stuck is a behaviour of the
code: a check overtaken by all of a registration makes its proof good again. The
property now names that case (`Reopens`).

**`ServiceStatus_proofs`.** `InHand` is what a report in hand means at each position: at
*write* its rollup is at least as bad as it and as everything folded into the day
when it was read, unless another that was then at *write* has overtaken it. Documents
and what pages have read are reports that were `stored`. This gives
`NeverGreenFromSilence` and `TheStripKeepsTheWorst`; that `Worst` returns a member no
better than any is a lemma, since severities are numbers.

**`Scheduler_proofs`.** Everything rests on the two unique indexes. `RunsHeld` and
`ClaimsHeld` say that a row is held by one process, finished (confirmed), or left
behind, and is there in each case; they are kept by four kinds of steps - a row is
claimed, let go, left by a process that dies, or untouched - each a lemma
(`RunsClaimed`, `RunsLetGo`, `RunsLeft`, `RunsFrame` and the like for claims). `MailOnce` adds
that a message not counted as failed went out once at most and not before its send,
`Handled` that whom a run is done with was passed over, told or counted, and whom it never
considered was passed over, too, or the run was cut; a claim that
is given back is counted (`ToldOrCounted`), so that stays so. The sums in
`OneRunPerPeriod` and `ToldOnce` are then sums of sets with one member at most
(`OneWorkerPerRun`, `ToldOnceAlways`), and `NobodyIsLeftOut` is inductive given `Handled`.

**Only model-checked:** `PaidOrdersAreCredited` and `DueRunsFinish` (liveness under
fairness is out of the prover's reach), and the three runs that end in a violation.
Every invariant, action property and refinement of a passing run is also a theorem.

## Plan

Done: every module of the table above, with runs for each, and proofs for all of
them. What is left: the other late indexes of start-up
besides the idempotency index.

## Not modelled

* Mail and SMS rendering and transport: input and output. That a send may fail, or
  fail after the message went out, belongs to the modules that send.
* Configuration: settings are CONSTANTS or chosen initially. Serialisation, logging,
  validators of single requests, previews.
* The lead forms, newsletter, contest and blog routes: independent single inserts and
  reads.
* Views that only read one collection and do not combine figures: lists, the CSV
  export, the export of an account, `GET /limits`.
* Billing details and auto-recharge settings: single writes of fields nothing else
  reads while it runs.
* Unique indexes other than the one on idempotency keys are taken as built: start-up
  retries until they are, and what a duplicate would do before that is left to the
  database.
* Tokens, password hashes and signatures are taken to work; `last_used_at` of a key
  is written and shown, and nothing depends on it.
* The scripts, which run against a live service and are read as statements of intent.
