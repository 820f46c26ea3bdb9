# ProxiaPay, specified

TLA+ models of ProxiaPay (`src/apps/api`, `src/apps/console`), a payment platform: projects collect from payers
and pay out to recipients through mobile-money providers; a double-entry ledger in PostgreSQL says whose money is
where; a background worker asks the providers what became of the requests; administrators configure, approve,
reconcile and correct through a console.

## 1. The system

Everything is a stateless process over one PostgreSQL store, read at READ COMMITTED. Several API processes answer
projects and administrators; several background processes poll the `job` table; the console is a React client of
the API. Correctness rests on row locks (`FOR UPDATE`), advisory locks (`db/database.ts:33`), unique indexes and the
order of statements; between two database transactions a process may die, and a provider call lasts as long as it
likes.

| Component | State | Operations | Interacts with |
|---|---|---|---|
| Transactions (`transactions/transaction.service.ts`) | `transaction`, `transaction_event` | confirm, finalizeSuccess/Failure, markUndetermined, submitCode, forceRecheck, applyCorrection | ledger, treasury, jobs, notifications, in one database transaction |
| Submission, status (`providers/`) | `transaction_attempt`, `next_status_check_at` | prepareAttempt, call, recordOutcome, fallback; check, sweep, onProviderNotification | transaction row lock, adapters, breaker, jobs |
| Ledger (`ledger/ledger.service.ts`) | accounts, entries, postings, checkpoints | post and its recipes, reserve, balance, checkpoint, verifyCheckpoints | advisory lock per account |
| Previews, routes, money | `preview`, `route_version`, `entitlement_version` | raise, expire; resolve, availableBindings, checkVelocity; fees and amounts to send | confirmations, submission |
| Treasury (`treasury/`) | floats, `float_transfer`, `cashout`, `capital_funding` | checkLiquidity, transfers, cash-outs, fundings, cover and drift | confirmations, ledger, approvals, alerts |
| Reconciliation (`reconciliation/`) | runs, imports, discrepancies | start, execute, compare, record, decide, executeApproved | applyCorrection, adjustments, approvals |
| Job queue, worker (`jobs/`) | `job` | enqueue, claim, complete, fail, reschedule, recoverStale | every service with deferred work |
| Notifications | `notification_delivery` | enqueue, deliver, replay | jobs, alerts |
| Breaker, alerts, health | `circuit_breaker`, account status, `alert` | recordFailure/Success, allowProbe; raise, clear, acknowledge, escalate; evaluate | submission, status, route resolution |
| Confirmed operations, approvals, roles | `operation_confirmation`, `approval`, `role*` | request, consume, recordFailedAttempt; propose, decide, apply | every administrative operation |
| Administrator sessions | `administrator`, `admin_session`, `authentication_event` | sign-in, enrolment, second factor, lockout, disabling | session guard |
| Project access | `project_credential`, `project_token`, rate windows | issue, promote, delete, revoke, exchange, authenticate | request handlers |
| Route, grant, alert configuration | versions, policies, groups | open versions, change sets, grants; policies and groups | route resolution, alerts |
| Console | URL, table, form and board state in the browser | fetch, show, retry; request and present a code; draw | console API |
| Deployment | `schema_migration`, privileges, sealed credentials | migrate, grant, synchronise | all |

`PROJECT.json` lists every component with its status, those that stay out of the models with the reason.

### What is hard here, and what makes each part correct

- **Races between database transactions.** A transaction is worked on at once by its request, its submit job, the
  sweep, status jobs, code entry, provider notifications and reconciliation; a float by confirmations, transfers and
  cash-outs; a credential, a role, a version by administrators at once. Correct: paid once, within what covers it,
  and what was decided last holds.
- **Reads of several statements.** Each statement has its own snapshot: a checkpoint, the free liquidity of a float, a
  page with its count and the home board are several reads each. Correct: nothing counted twice or shown of one moment
  as if of another.
- **Death and slowness.** A process may die between any two database transactions; a job that runs too long is handed
  to a second worker while the first goes on. Correct: what was begun is concluded or held for a person.
- **Providers.** An answer may be lost, late, wrong, or unclear, and a request reported as unavailable or rejected may
  have been carried out. Correct: sent once but for such a fallback, and never given up while it may still be carried out.
- **Corrections and approvals** act on what was observed long before, while other steps go on.
- **Errors inside a database transaction** undo what was written before them, including what was written because of the
  error.

## 2. The modules

| Module | Models | Run |
|---|---|---|
| `PaymentContract` | What a project is promised: accepted once, money in one place that the status explains, conclusions final. Abstract specification. | `lifecycle_collection` |
| `TransactionLifecycle` | `transaction.service.ts`, `submission.service.ts`, `status.service.ts`, their jobs and process death | `lifecycle_*` |
| `TransactionCorrection` | extends it with comparison, decision and `applyCorrection` | `correction` |
| `LedgerCheckpoint` | one ledger account: lock, reservations, checkpoints, statement by statement | `checkpoint_account` |
| `SpendingContract` | What confirming promises: each request is accepted at one instant, on an offer not taken, beside no like payment, within cap and balance. Abstract specification. | `confirmation_guards` |
| `Confirmation` | `confirm` lock by lock: preview, entitlement, project balance, floats; registered transfers | `confirmation_*` |
| `Nullable`, `Money`, `Pricing` | fees, terms, limits, bindings, the preview's figures and the amount a binding is sent | `confirmation_guards` |
| `PreviewReferences` | `preview.service.ts` read by read, under the project's own references | `confirmation_guards` |
| `LedgerRecipes` | every entry of `ledger.service.ts` as postings | `treasury_office` |
| `Treasury` | `treasury.service.ts`, `treasury.controller.ts`: a provider's floats beside its wallets | `treasury_office` |
| `ReconciliationRuns` | `reconciliation.service.ts`, `statement.service.ts`, `discrepancy.service.ts` | `treasury_office` |
| `ConfirmedOperations` | `confirmation.service.ts`, `confirmed-operation.ts`: one-time codes and the row locks around them | `treasury_office` |
| `JobQueue`, `NotificationDelivery` | `job-queue.ts`, `worker.ts`; on it, `notification.service.ts` | `background_work` |
| `ProviderHealth` | `circuit-breaker.ts`, `alert.service.ts`, `health.service.ts`, account status | `background_work` |
| `ProjectAccess` | `credential.service.ts`, `project-auth.service.ts`, guard and rate limiter | `console_access`, `credential_revocation` |
| `AdminSessions` | `admin-auth.service.ts`, `auth.controller.ts`, `session.guard.ts` | `console_access` |
| `RoleChanges` | `role.service.ts`, approvals of role changes | `console_access` |
| `RouteTerms` | `route.service.ts`, `entitlement.service.ts`, rate change sets | `console_access` |
| `AlertRouting` | alert policies and groups of `oversight.controller.ts` | `console_access` |
| `Provisioning` | `migrator.ts`, `app-role.ts`, `provider-credentials.ts` in overlapping deployments | `console_access` |
| `CursorPages` | the project API's cursor listing | `console_access` |
| `ConsoleLists` | `DataTable.tsx`, `table-state.ts`, `session.tsx` with `pagination.ts` behind them | `console_access` |
| `HomeBoard` | `home.service.ts`, `home.logic.ts`, `RouteChart.tsx`, `routeChart.ts` | `console_access` |
| `Orders` | a finite set put in order: `ORDER BY`, `sort` | `console_access` |
| `ConfirmedForms` | `ConfirmedAction` of `common.tsx` with the treasury's forms | `console_access` |
| `*Proofs` | theorems (section 5) | |
| `MC*` | instances for TLC | |

The atomicity of a step is that of the code. Where the code holds one row lock from the first statement to the commit
(the lifecycle), a database transaction is one step. Where the interleaving of statements matters, a statement is one
step: a read sees what is committed, a lock is taken by a step that is enabled when it is free, what is written
becomes visible at the commit. Steps between which nothing another process could see happens are merged, and each
module's head comment says which.

### Payments

*TransactionLifecycle.* `txn[t]` is the row of `transaction` with its attempts and the sum of its postings per account;
`proc[p]` where a request handler or worker slot is; `submitJob`, `statusJob` its jobs; `money[t][q]` what became of the
request at provider `q`, which the code cannot see; `late` the deadlines that passed. `Confirm` is `confirm`;
`PrepareAttempt`, `CallProvider`, `RecordOutcome` the loop of `submit`; `SweepSelect`, `SweepDefer`, `Look`, `AskStatus`,
`ApplyStatus` the sweep and the two transactions of `check`; `SubmitCode`, `AskCode`, `ApplyCode` are `submitCode`;
`ClaimSubmit`, `ClaimStatus`, `FinishJob` the worker. A preparation that throws (`PrepareThrows`: no amount can be sent to the
account) and a handler that throws elsewhere return their job to the queue, or leave it dead once its attempts (`tries`) are spent (`JobFails`);
a job whose process dies is always returned (`Die`). `Answers` says what a provider may do and what the adapter makes of it: an
`unavailable` or `rejected` request may have been carried out. `FinalizeSuccess`, `FinalizeFailure`, `MarkUndetermined` and
`StatusOutcome` are functions from row to row, so that each service method is one operator whoever calls it.

*TransactionCorrection.* `disputed` and `resolved` are the discrepancies of each transaction, `reversed` counts reversal
entries; `Raise` is comparison and record, `Correct` a decision with `applyCorrection`, `Dismiss` one without.

*LedgerCheckpoint.* `credits`, `debits`, `reservations` are committed postings by kind, `session` what each database
transaction has done, `checkpoints` the rows with the history variable `counted`. Postings are of one unit, so that a
balance is a difference of two cardinalities. Ids are handed out at insert and become visible at commit;
`SumPostings` and `RecordCheckpoint` are the two reads of `checkpoint`.

*Confirmation.* A confirmation takes its preview, its entitlement, its project and the floats in the preview's order,
keeping them to its end; `RegisterTransfer` takes the source float, and the destination receives the amount less the provider's fee; `Submit`, `FallBack`, `Settle`, `Fail` are the lifecycle as the floats
see it and take none of these locks. `blind` is a history variable: floats that something drew on behind a check.
`Spending` reads the contract off this state: a request is judged while its database transaction is open (`Judged`), its offer
is the preview (`OfferStatus`), and `created` and `submitted` are one (`PaymentStatus`).

*Pricing.* `offer` is the configuration of a route, its bindings and a grant; `payment` goes from asked to refused, told
of another amount, quoted and sent; `down` are the bindings unavailable at each moment. `Preview` computes the gates,
terms, limits and figures (`Figures`, `Limits`, `AvailableBindings`), `SubmitTo` the amount for the binding it goes to
(`ProviderAmountWithin`, `ProviderAmountDelivering`), unless the provider takes all of it (`TakesWhole`), and `does` what
the provider makes of it.

*PreviewReferences.* `caller[c]` is a call between its reads, `offered[c]` the preview it inserted, `payments` the
transactions. Each read of `preview` is a step; the two unique indexes refuse what the reads could not see.

### Treasury, reconciliation, operations

*LedgerRecipes* has one operator per method that builds an entry, from a payment's fees to postings; `Written` says whether
`post` accepts it. *Treasury* has `books` beside `wallet`, what the provider really holds: a payment, transfer or cash-out
is recorded and made by separate steps, in either order. A cash-out and a confirmation by balances are two steps, what
they read and what they commit. `EvaluateCover` and `CheckFloatDrift` are the worker's jobs.

*ReconciliationRuns.* `ours` and `report` are what the platform and the provider say of each transaction, `held` the
conditions that findings of other kinds are about; `run` the rows of runs, each with the job that carries it, `import`, `discrepancy`,
`request` the other rows; `work[w]` what worker `w` is executing; `picked` what a reviewer has read and not yet decided; `covered` a
history variable: transactions that a run which completed has compared. A request starts a run and enqueues its job by two statements, between
which it may die (`StarterDies`); `ClaimRun` is the first statement of `execute`, which takes up any run still running;
`RecoverJob` is `recoverStale`, which gives the job of a dead or slow worker to another, so that two may execute one run. A weekly run has no
job (`ScheduleWeekly`). What is executed may throw anywhere (`FailRun`), and the store may refuse to record that (`AbandonRun`).
A transaction's end is stamped with the start of its database transaction: `Concluded` takes any instant since its creation, however late the
end is seen, and a period may be declared to end in the future (`Ahead`). *ConfirmedOperations* has `code` and `locked`, the row of each code and who holds it; a nested operation
waits for its own call's lock.

### Work unattended

*JobQueue* has `job`, the table, and `slot`, a slot of a worker process. A worker that comes up enqueues each recurring
job by a statement of its own (`Seed`), beside others that come up, and polls once it has (`Start`). `RecoverLost` and `TakeFromSlow` are one code path,
`recoverStale`: it cannot tell a dead worker from a slow one. *NotificationDelivery* adds `delivery`, `handler` (what it has
read and not yet written) and the history variable `posts`. *ProviderHealth* has `breaker`, `account`, `alert` and, per process,
`work`: looking for an alert, writing it and telling of it are steps between which the process may die.

### Access and configuration

*ProjectAccess*: each operation on credentials (`issue`, `promote`, `delete`, `revoke`) goes through read, lock, lock of rows
and write; a call of the project reads token and credential, then judges. `usable` is a history variable. *AdminSessions*:
sign-in, second factor, enrolment and password change read, verify and write by separate steps; the lock of an account
is recorded, counted, set. *RoleChanges*: a proposal judges, reads what is there and applies, or is queued and
approved later. *RouteTerms*: `holder` has the open row of each route and grant; a version closes and opens at the moment
its transaction began. *AlertRouting*: a policy is checked, upserted, its groups deleted and inserted. *Provisioning*: a
deployment migrates file by file, drafts and commits its grants, synchronises credentials, and may die anywhere.

### What is shown

*CursorPages*: instants of half a millisecond; a row is seen when its transaction commits. *ConsoleLists*: `wanted` is the URL,
`call` the fetches under way, `current` the one whose answer is taken. *HomeBoard*: `load` is the answer being put together
from its statements, with the history `late`, which routes' hours changed since they were read; a transaction ends in any hour up to the current
one (`TransactionEnds`: `terminal_at` is the start of its database transaction), and a correction moves one to another (`CorrectionApplies`); the chart's operators (`Lines`, `Band`, `CountryChips`, `SpreadLabels`) are functions of it.
*ConfirmedForms*: `form` is what each form shows, `calls` what was sent, `codes` and `written` the server's side, one
step per call.

## 3. The runs

`tlc -workers 2 -config <run>.cfg <module>`; the module of each run is in `PROJECT.json`. Components that share no
state are checked in one run as *scenes*: `scene` is chosen in the initial state, the scene's component takes all the
steps, and the others keep their initial state or have no value. The states are the sum of the scenes' states.

| Run | Question | Answer |
|---|---|---|
| `lifecycle` | A payout with fallback, one without and a collection, two providers, two worker slots, the confirming request, a death or a handler that throws: is anything sent twice but after an unavailable or rejected call, do books and state part, is what may still be paid given up, does a conclusion change? | No |
| `lifecycle_collection` | Payer codes, checks, jobs that throw and a death, with fairness: concluded once acknowledged, tried once queued; does it implement `PaymentContract`? | Yes, unless the preparation threw at the job's last attempt |
| `correction` | Two payouts with money for one at a time, or a collection while code entry, checks and jobs go on, corrected both ways: do the books follow, is the second payout refused, is a terminal state left otherwise? | Yes; yes; no |
| `checkpoint_account` | Two creditors, an unlocked debtor, two reservations, two checkpoints: is anything counted twice, lost where verification looks away, or overspent? | No |
| `confirmation_guards` | *confirmations*: one preview twice, two like payments, a cap for two of three, another route on the same balance, floats in opposite orders; do they implement `SpendingContract`? *prices*: every offer of a table, every amount, the binding changing meanwhile. *references*: three calls, two references, two intents, the sweep. | Guards hold, and as at one instant; both sides get what was quoted; a reference has one payment |
| `background_work` | *deliveries*: a notification and a recurring job on two slots with one loss. *health*: failures, probes, an operator, an evaluation and two handlers of which one may die. | Deliveries are carried by one, tried as often as promised, concluded; orders stand; alerts are told |
| `treasury_office` | *treasury*: payments, a transfer, two cash-outs, fundings and an adjustment around two wallets. *runs*: two runs, by listing, by statement and weekly, two workers, a death, a recovery or a refusal, two reviewers. *codes*: three calls on two codes. | Books balance and agree with the wallets; a cash-out or adjustment happens once, approved when large; codes serve once; alerts and runs conclude, no transaction falls between two runs, but for what section 4 lists |
| `console_access` | Ten scenes: access, sessions, roles, terms, routing, provisioning, pages, lists, board, forms. | What is served, decided, deployed, shown and performed is what it should be |
| `lifecycle_fallback` | Does fallback proceed only where no money moved? | No, both providers pay: finding |
| `lifecycle_submitted_swept` | Does the sweep find a transaction whose process died during the call? | No: finding |
| `confirmation_float` | Do simultaneous payouts stay within a float? | Not while a settlement commits: finding |
| `credential_revocation` | Does a revoked credential stay revoked? | Not beside a promotion: finding |

The composite properties of the scenes (`BooksAgree`, `CashoutsHold`, `ServedIsUsable`, `ShownIsHeld`, ...) are conjunctions of the
components' named parts, in the `MC` modules or beside the component. Every part has at least one mutant, defined beside the
operator it breaks and commented `Mutant:`, that TLC finds violated; `PROJECT.json` lists one per property.

### Bounds, and why they are enough

- *Transactions.* Everything a lifecycle step reads, but for the project's balance, is its own transaction's row, so one
  transaction shows every interleaving of one (`Together` says which previews one behaviour confirms: each by itself in the lifecycle runs); balances are
  shared, and have two payouts at once in `correction` and two reservations in `checkpoint_account`. In `correction` the worker serves the collection only
  (`MCSpec`): the payouts contend for the balance through confirmations and corrections.
- *Processes.* `lifecycle` has three (a request and two slots): each of the ways into submission at once, or two
  checks beside one. The liveness run has one slot and one request: more slots only help progress.
- *Providers.* Two, so that one fallback happens and a third submission finds nobody; `MaxHops` is 5 as in the code except
  in `lifecycle_collection`, where 1 makes a call end with a provider untried, as 5 does with six.
- *Deaths, losses* (`MaxDeaths`, `MaxLosses`). One: a second starts from a state the first may leave as well. Preparations that throw are not
  bounded but by `JobAttempts`, which is 1 in `lifecycle`, so that a job dies, and 2 in `lifecycle_collection`, so that one is queued again first (10 in the code).
- *Amounts.* Payouts of 2 and 3 with funds of 4: one at a time, and different amounts so that one recipe cannot stand in
  for another. In the treasury fees of 1 on either side and a debit below the quote.
- *Postings, jobs.* `MaxPostings = 5`, one per session; `MaxJobs = 4`: the recurring job, two attempts and one more for a
  duplicate carrier after a loss (a fifth row is never used: the states are the same with `MaxJobs = 5`); `MaxTries = 2`: one retry.
- *Confirmations.* `MaxInFlight = 2` database transactions at a time of six: guards compare a transaction with what others
  committed or hold, pairwise. One preview may close (`Closing`). Two routes with a lock each draw on one balance, which does not
  cover all they may confirm.
- *Prices.* `Amounts` lie on both sides of every limit and rounding of the table; the three bindings differ in fee, limit,
  rounding and payout mode, one with a fee as large as the amount.
- *Runs.* `MaxRuns = 2` from the start, with `Ahead = {1}`: every period is declared to end in the future, a weekly run's alone now, so that a
  transaction ends inside, after and before a period in every order with the runs. Two workers (`Executors`) and one loss: a job requeued while its worker goes on, or whose worker died. Or
  after a completed run, while a worker records one more finding of the next and the first one's adjustment is queued; `MaxDecisions = 3` admits a second approval of the same discrepancy with both decisions (none is taken in the first case, nothing is lost in the second).
- *Operations at once.* Two in `ProjectAccess`, `RouteTerms`, `AlertRouting`, `Provisioning`, two browsers, three people in
  `RoleChanges`: every property there relates what one read to what another wrote. `MaxOps`, `MaxTries`, `MaxAsked`, `MaxBegun`,
  `MaxRoutings`, `MaxCalls`, `MaxFetches` let each operation follow or overlap each other one.
- *Board.* Three routes, three hours, a window of two (`Shown`, 24 in the code), so that the hour turns and a route is
  set apart; two labels closer than the gap. `MaxMoves = 2` things happen while an answer is put together, so that a
  transaction ends and the hour turns, or one ends and is corrected; either the histories or the alerts and accounts vary at first (`FewBoards`), and
  ends and corrections are of the first route (`FirstRouteEnds`): routes share nothing but the verdict.
- *Symmetry* only where nothing tells the elements apart: providers and workers in `lifecycle`, sessions of a kind
  in `checkpoint_account`, the two requests for one preview, the two forms. No liveness is checked with it. In `treasury_office` the first of the idle workers and reviewers is the one to begin (`FirstIdle`), and an account without a listing has runs of statements only, as any other fails when it reads (`Readable`).
- `CHECK_DEADLOCK FALSE` where each request is made once or bounded and nothing is left to do.

### Fairness, and why the code justifies it

`lifecycle_collection` assumes that a running process goes on (every await returns: provider calls have a timeout,
`adapter.ts`), that the worker, which polls for ever, claims queued jobs by `run_at` and sweeps due checks by
`next_status_check_at`, so none is passed over for ever (strong fairness, because a slot is free only now and then), and
that the ceiling passes. A job that throws every time spends its attempts and dies; only a status job's death is bounded by `MaxDeaths`, and the
sweep does not need status jobs. Nothing obliges a payer, project, administrator or provider to do anything.

`background_work` assumes in the same way that workers are restarted and get through their seeding, handlers end, back-off passes, lost jobs are recovered
and due jobs are claimed, and that the evaluation, a recurring job, runs again. It does not assume that a statement ever
succeeds: the loss is bounded, an error of the handler is not. `treasury_office` assumes that the worker's cover and drift
jobs are run, that a request alive enqueues its run's job, that queued runs are claimed and stale ones recovered, and that a worker which lives goes on. Each fairness condition is conjoined with its scene.

### Assumptions about the environment

- A provider executes a request at most once. Whether it executes one that was answered as unavailable or rejected is its choice:
  `adapter.ts:134-135`, `ejara.adapter.ts:81,87-94` do not tell (`Answers`).
- An account is tried at most once per transaction (`submission.service.ts:60-64`), so an account names an attempt.
- PostgreSQL at READ COMMITTED: a statement sees what committed before it; `FOR UPDATE` and updates wait for the row's lock
  and look again at the row's newest version; advisory locks end with their transaction.
- A code in a mail is read by its addressee only; a hash is not inverted.

## 4. What the code does otherwise than it says

With a run (`findings` in `PROJECT.json`): the fallback that pays a second time; the submitted transaction nobody sweeps; the float exceeded by a settlement
between two reads; the revocation a promotion overwrites.

### Statements the code does not keep

Each is a definition beside its module's properties, commented `What the code does not keep`. Given to TLC with the
component's constants of section 3 (with the change noted), it is violated. The checked properties except exactly these cases.

| Statement | What happens |
|---|---|
| `TransactionLifecycle!CodeLimitHolds` (`MaxWrong` above `CodeAttempts`) | A refused code is counted and the error after it undoes the count (`transaction.service.ts:366-373`), though "Exhausting them ends the transaction" (`api-reference.md:392`). |
| `TransactionCorrection!ReservedNeverNegative` | A payout settled from suspense and corrected to failed is released from `reserved`, which never held it again (`transaction.service.ts:320-321`). |
| `LedgerCheckpoint!CheckpointExact` | A posting with a lower id commits after the checkpoint that reads past it and is never counted (`ledger.service.ts:156-158`, `functional-specification.md:227`). |
| `ConfirmedOperations!CallsConclude` (`Nested = {"approve"}`) | Approving, deciding a discrepancy and changing a role open a transaction of their own inside the one that holds the code's row; its audit record refers to that row and waits for ever (`home.controller.ts:77`, `reconciliation.controller.ts:146`, `oversight.controller.ts:307`; `approval.service.ts:13`). |
| `ProviderHealth!RecoveredIsActive` | A failure in a fresh window, alone below the limit, closes a half-open breaker without giving its account back, and a success then finds it closed: the account stays degraded (`circuit-breaker.ts:25,52`; "one success closes it", `:10`). |
| `AdminSessions!EnrolledStays` | An enrolment that looked before another was completed then replaces the enrolled secret (`admin-auth.service.ts:91`, against `:86`). |
| `RoleChanges!RoleIsAsDecided` | Two changes of one role at once delete what each saw and insert both (`role.service.ts:95`). |
| `AlertRouting!CategoryKeepsGroup` | Two administrators each take the other's last group (`oversight.controller.ts:135`; "No category may be left without an active group", `functional-specification.md:839`). Alerts then go to the fallback address. |
| `CursorPages!CursorResumes` | The cursor keeps milliseconds of an instant in microseconds and may pass over rows of one millisecond (`transaction-list.ts:55`, against `:21`). |

### Met while modelling

Payments:

- A transaction that fell back to `created` after its submit job was done, and whose process then died, is not submitted by
  anybody; five providers refused leave it the same way (`submission.service.ts:35,155`). A provider fee that consumes the
  quote throws at submission, at each of the job's ten attempts, and leaves it so (`money.ts:128`, `job-queue.ts:71-74`).
- A 2xx answer without a reference counts as a rejection (`ejara.adapter.ts:87-94`) and falls back.
- The entries a correction reverses are selected reversed or not (`transaction.service.ts:317`): a third finding reverses the
  first settlement twice. One discrepancy may have several approvals queued.
- At submission a payout may move to another account of the route whose float nobody examines. Floats are locked in the
  order of each preview, so two confirmations may deadlock, one being aborted.
- The mark `expired` of a preview or `abandoned` of a code is undone by the error that follows it. A preview expired and not yet
  swept makes a retry of its reference fail with `REFERENCE_CONFLICT`.
- A forced check is dropped where a check runs already, having read the row before (`status:` dedupe key).
- `simulator.adapter.ts:63` does not remember that a code succeeded, against `:11`.

Treasury and reconciliation:

- Cash-outs lock their own float and check the currency's solvency without a common lock; an approved one is executed
  without checking again; a declined one stays `pending_approval` (`treasury.service.ts:214-267`).
- Two opposite transfers, neither of which the provider made, are confirmed because the wallets equal the ledger
  (`treasury.service.ts:194-196`). A funding is refused for a degraded account (`treasury.controller.ts:210-215`).
- Three ways leave a run running for ever, which blocks the account's next ones: its request dies before the job is enqueued
  (`reconciliation.controller.ts:65-66`), the weekly run's worker dies (`reconciliation.service.ts:307-325`, a run without a job of its own), or the store refuses to
  record that it failed (`:98`; the job has one attempt). A run whose worker is only slow is executed by a second one as well, and whichever ends last says how it ended.
- A transaction that ends inside a period declared to end in the future is left out by the next run (`statement.service.ts:18`, `reconciliation.service.ts:120-129`);
  one that a run compared while it was open, and whose end is stamped within that run's period but committed after the comparison, is not compared again in its final
  state. Two requests for a run of one statement race. An executed approval with an adjustment never sets `examined`.
- The coverage ratio is rounded to three decimals before it is compared (`money.ts:191`, `treasury.service.ts:161`).

Background work:

- A delivery job that throws is dead at once and its delivery stays pending (`notification.service.ts:47-62`); a slow handler may
  overwrite `delivered` (`:96-110`).
- A failed mail is recorded as told until the quiet period ends (`alert.service.ts:131-139`); a raise that meets the unique index
  goes on inside an aborted transaction when it was given one (`:76`); an alert opened again is not escalated again
  (`:102`); the alert of a breaker is lost if the process dies after the breaker's commit (`circuit-breaker.ts:39`).
- Half-open excludes nothing: every payment passes until one is reported (`circuit-breaker.ts:62-72`).

Access and operations:

- Refused codes are counted in a transaction of their own, so parallel ones pass the limit. A form whose answer was lost may
  ask for another code and perform the operation twice (`common.tsx:109-112`); it stays at the code entry for a dead code.
- Four operations of the console can never complete: `administrator.create` (the values include a password the handler takes
  apart, `Oversight.tsx:235`), `administrator.amend` (sent by POST to a PATCH handler, `common.tsx:115`), `credential.delete` (POST to
  DELETE, `projects.controller.ts:135`), `provider_account.credentials` (POST to PUT, `configuration.controller.ts:210`). Values the server
  trims (`validation.ts:18`) never match the padded ones a code was asked for.
- A token stored by an exchange under way is not marked revoked (`project-auth.service.ts:80`); its credential refuses it.
- `revokeAllSessions` is outside the disabling transaction (`oversight.controller.ts:271`). A death between recording a failure and
  counting leaves the account unlocked; completing a second factor lifts a lock.
- Who approves a role change may approve one to their own assignments (`role.service.ts:24`, `functional-specification.md:778`).
- A route's `effective_at` is recorded and its version opens at once (`configuration.controller.ts:151-153`,
  `functional-specification.md:211`); the permission to change a fee and the shortfall of a grant are judged on reads outside the
  transaction; two change sets in opposite orders deadlock.
- The console accepts half a set of provider credentials (`configuration.controller.ts:19`); the migrations' lock is released
  before the grants, which collide when two deployments reach them.
- Re-seeding adds again role permissions, the default group and an address that administrators removed (`seed.ts:44,56,65`).

Console:

- `useLoad` (`common.tsx:7`) and `Previews.tsx:50` take whichever answer comes last; two `setParams` in one tick lose one
  (`DataTable.tsx:104`); pages by offset repeat or miss rows that move (`pagination.ts:29`).
- An hour drawable on its own draws nothing (`RouteChart.tsx:17`); labels may be pushed below the chart; verdict and chart read the
  alerts in separate statements; hours are the store's on one side and the API's clock on the other.

## 5. The proofs

Eight modules hold theorems, for every value of the constants: of one component, or of those that one run checks as scenes
(`ConsoleProofs` with `ShownProofs` under it, `OfficeProofs`, `BackgroundProofs`, `ConfirmationProofs`); `SumTheorems` is the lemmas that
several share. Every conjunct of their inductive invariants was checked by TLC too, on instances like those of section 3. Constants are assumed no more than the code gives: the sets that money or rows are counted over are finite
(`Txns`, `Requests`, `1..MaxJobs`, `Rows`, `Alerts`), as any table is, and `None` is none of the values it stands beside (credentials, desks,
writers, deployments, what a call answers, cursors, rates).

### TransactionLifecycleProofs

`tlapm TransactionLifecycleProofs.tla` proves, from `ConstantsOK` alone (any number of transactions, providers,
processes, deaths, attempts of a job, any amounts, fallback on or off for each payout, whatever a provider does with what it refused or was unavailable for):

| Theorem | Says |
|---|---|
| `TypeCorrect` | `Spec => []TypeOK` |
| `BooksAlwaysFollowState` | `Spec => []BooksFollowState`: postings and settlement entries are what the state says |
| `BalanceNeverOverdrawn` | `Spec => []AvailableNeverNegative`: a sum over all transactions of the project |
| `TerminalFinality` | `Spec => TerminalIsFinal`: no step changes state, attempts or postings of a concluded transaction |
| `LifecycleImplementsContract` | `Spec => ImplementsContract`: the lifecycle refines `PaymentContract` |

`BooksFollowState` is not inductive: nothing in it says that the transaction a process works on exists. The
inductive invariant is `IInv == TypeOK /\ Rows /\ Busy /\ Known`:

- `Rows`: every row is `Absent` or good, that is, it has started and one that is checked knows its provider;
- `Busy`: a process that is not idle works on a transaction that has started, and one that calls or records
  knows its provider;
- `Known`: jobs and requests at providers exist for started transactions only.

Without `Busy` a process could record an outcome on an absent row, whose failure would be a state with no
reservation behind it; without `Known` a job could be claimed, or a notification arrive, for one. `IInv` says nothing of
postings, so that it holds with corrections on top as well. The proof has a lemma per row function (`SuccessIsGood`,
`FailureIsGood`, ...: a good row stays good), a lemma per action, and `NextIInv` that puts them together.

The books, the finality and the balance rest on `RowMoves`: a step changes one row at most, and `Outcome` says from what to
what and what that posts (`Begins`, `Advances`, `Suspends`, `Succeeds`, `Fails`). Given the books of the old row, each of
these leaves the books of the new one (`BooksInductive`). The balance is a sum, which changes by what that row
changes (`BalanceStep`): the only outcome that lowers it is a payout beginning, and `Confirm` compares with the sum
itself. The refinement mapping reads the status from the state (`PublicStatus`) and the place of the money
from the postings alone (`FundsOf`); that two different states never map to one place wrongly is where
`BooksFollowState` and the positive amounts are needed.

On top of `IInv`, from `ConstantsOK` alone as well:

| Theorem | Says |
|---|---|
| `AlwaysSentOnce` | `Spec => []SentOnce`: requests answered as unavailable or rejected apart, at most one may move money; without fallback, one of all |
| `OutcomeIsTheProviders` | `Spec => []OutcomeFollowsMoney`: a success was paid by the current provider, a failure leaves no live request but those |

Neither is inductive: both speak of the row and the providers, and what breaks them is done by a process that acts on
what it read before. `PaidInv == RowsAgree /\ ProcsAgree /\ OneSender` says what such a process still knows:

- `RowsAgree`: every request but the current attempt's is gone, all of them while the transaction is created or
  failed, where gone is dead, or marked failed without ever having been acknowledged; an attempt is acknowledged only if it is current, and
  a payout without fallback has no other;
- `ProcsAgree`: a process between `PrepareAttempt` and `RecordOutcome` holds the current attempt, which nobody acknowledged;
  a process between a status request and its recording asks after an
  acknowledged attempt, and the answer it carries is what the provider did;
- `OneSender`: at most one process is between `PrepareAttempt` and `RecordOutcome` of a transaction. The row's state excludes
  the others: `prepareAttempt` wants it created, and only the sender, falling back, makes it so again.

The last sections are about corrections on top of the lifecycle, from `ConstantsOK` and `KindsOK` alone for the first, with a condition for the others:

| Theorem | Says |
|---|---|
| `OnlyCorrectionsReopen` | `CorrectionSpec => LeftByCorrectionOnly`: only resolving a finding leaves a terminal state, for another one |
| `CorrectionsKeepBooks` | `OneUndoing => (CorrectionSpec => []CorrectionsBalance)` |
| `CorrectionsNeverOverdraw` | `NothingTakenBack => (CorrectionSpec => []AvailableNeverNegative)` |

The conditions are where the code itself stops: `OneUndoing`, that of the two findings which undo a success, "failed" and
"absent", only one occurs; with both an entry already reversed is reversed again (section 4). `NothingTakenBack`,
that all transactions are payouts or no finding undoes one; a collection found missing is taken back whatever is
left of it. The run `correction` satisfies the first, and its payouts the second: its collection stands alone beside
funds of its own. `CInv == IInv /\ CorrectionTypeOK /\ Findings`: `IInv` goes on holding because a correction leaves a good row
(`CorrectedRow`), and `Findings` says that no finding is both open and resolved and that what was reversed was reversed by a
resolved one. That is what makes `CorrectedBooks` inductive: a success about to be reversed was settled once more
than it was reversed, and its one undoing finding, still open, has reversed nothing yet.

### SumTheorems

`SumFunctionOnSet` of the community modules is a function defined by recursion over subsets, with `CHOOSE` for the order
of summation. The library's induction rules cannot be instantiated here, so the induction is by a smallest
counterexample: among the finite subsets for which something fails there is one none of whose proper subsets fails
(`SmallestSubset`, from `WFMin` and the well-foundedness of strict inclusion). `TableExists` and `TablesAgree` say that the
recursion has one solution; from it follow that the order does not matter (`SumRemove`, `SumAdd`), that a sum
changes by what one summand changes (`SumChange`), that it is monotonic (`SumMonotonic`, `SumOfPart`), that sums add
(`SumPlus`), that a table has the same sum by rows and by columns (`SumSwap`), and what a sequence of two, three or five comes to.

### LedgerCheckpointProofs

From `SessionsOK` alone (any number of credits, debits, reservations and checkpoints, in any interleaving of
their statements):

| Theorem | Says |
|---|---|
| `AccountTypeCorrect` | `Spec => []TypeOK` |
| `CheckpointsCountOnce` | `Spec => []CountedOnce`: a checkpoint is the sum of distinct committed postings up to its mark |
| `CheckpointTiesAgree` | `Spec => []TiesAgree`: checkpoints with one mark hold one balance |
| `LossesStayVisible` | `Spec => []LatestShowsEveryLoss`: what one checkpoint missed, the latest one misses too |
| `ReservationsAlwaysSeen` | `Spec => []ReservationsAreSeen` |
| `SolvencyKept` | `Spec => []NeverOverspent` |

None of the five is inductive: each says something of recorded checkpoints only. What makes them so is the
account's lock. `LockOrder` says that who reserves or checkpoints holds it from its first read to its commit,
hence the latest checkpoint is still the latest one when the next is recorded. `Reading` says what a
checkpoint in the making has: the latest one's postings, every reservation, and nothing twice. `Spending` says
that a reservation to be committed is beyond every mark and covered. `IdsApart` and `Marks` keep ids distinct
and the greatest mark defined, `Chain` relates checkpoints to each other (`TiesAgree` and
`LatestShowsEveryLoss` follow from it). The proof also shows why `CheckpointExact` cannot be one of
them: credits and debits take no lock, so nothing bounds their ids from below as `Spending` does for reservations,
as section 4 says.

### ConfirmationProofs

From `ConfirmationOK` alone (any number of requests, previews, projects, floats and transfers, any amounts and
any order of floats):

| Theorem | Says |
|---|---|
| `ConfirmationTypeCorrect` | `Spec => []TypeOK` |
| `EachConfirmedOnce` | `Spec => []ConfirmedOnce`: one transaction of a confirmed preview, none of another |
| `LikePaymentsExcluded` | `Spec => []NoSimilarPending`: like payments are never both open |
| `VelocityNeverExceeded` | `Spec => []VelocityHolds`: the sum on an entitlement stays within its cap |
| `FloatsCoverWhatIsOpen` | `Spec => []FloatCoversOpen`: the sum open against a float is within it, floats drawn on behind a check excepted |
| `ConfirmationImplementsSpending` | `Spec => ImplementsSpending`: confirmations refine `SpendingContract` |

The invariant is `IInv == TypeOK /\ Exclusive /\ Guarded /\ Marked /\ NoSimilarPending`. `Exclusive` says that no lock is held
twice; `Guarded` that a confirmation past a guard holds the lock it was evaluated under, and that what the
guard found is still so: its preview is not confirmed, no like payment is open. `Marked` says which request made
something of a preview, and gives the cardinality in `ConfirmedOnce`. The step that matters is `Confirm`: the others
that passed the same guard would hold the same lock, which `Exclusive` excludes. What concludes a
transaction takes no lock and never makes a guard false (`OthersConclude`).

The two sums need more. `VelocityInv` adds `CapKept`: a confirmation that has passed the cap still fits under it with its
own amount, because whoever else adds to the sum would hold the same lock (`ConfirmVelocity`), and what concludes
only takes from it (`OthersVelocity`). `FloatInv` adds `Standing`, that exactly the open requests are counted against a
float, and `Examined`, that who examines a float holds it and has seen no more on it than there is, unless the
float is `blind`: a settlement that commits between the two reads is the finding of `confirmation_float`.

The refinement says the same of everything at once. Between its first lock and its commit a confirmation looks at four things by
four statements, of which each sees what is committed by then; `ConfirmAccepts` shows that at the commit all four are
true together, which is the one instant of `SpendingContract!Accept`. The first three are `Guarded` and `CapKept`; the balance needs
`BalanceKept`, that a confirmation past `Reserve` holds the project's lock and its amount is still there: whoever else lowers the
balance would hold the lock, and failures, which take none, raise it. Every other step of a confirmation asks, is turned
down or does not show (`LockPreviewAsks`, `EndsTurnedDown`, `LooksUnseen`). A window may close between the question and the
acceptance, in the code as in the contract. The mutant that reads the balance without its lock overdraws it by way of two routes.

From no assumption (any number of calls, references and intents): `ReferencesAlwaysHold`,
`ReferencesSpec => []ReferencesHold`. The reads of `PreviewService.create` decide nothing: whatever another call writes between them
and the insertion, `Indexed` is kept by the unique indexes, under which a call that loses starts over. `Answered` says that
a preview exists only of a call that was answered, and was made of what that call asked; `ConfirmedIsPaid` that a preview is
confirmed exactly when it has its payment, which is how the index on transactions comes to speak of previews.

From `PricingOK`, what the store's checks say of fees, limits and bearers: `PaidAlwaysAsQuoted`,
`FeesTakeAPart => (SceneSpec => []PaidAsQuoted)`, for any offers and amounts. The searches of `money.ts` are recursive functions, whose
values no induction theorem reaches here; instead `WalkExists` shows that the equation of such a loop has a solution where
every walk comes to an end, and `WalkEnds` that a solution leads to where the walk first stops, both by a smallest
counterexample. `SentWithin` then knows of the amount sent that its debit is within the quote and that of one unit more is
not; as `DebitStep` bounds what one unit more adds by two, the debit is the quote or one less. `SentDelivers` needs no walk: the
starting point delivers exactly what was promised, and both loops leave it alone. `RefusalIsUsable` holds because the amount a
refusal names was tried, `ListedIsPayable` by cases of the gates.

The hypothesis `FeesTakeAPart` says that a provider which adds its fee to a collection takes at most 10000 basis points. The
code admits more (`route.service.ts:29`): one unit more could then add three to the debit, and the search end two under the quote.

### ConsoleProofs

For any number of whatever a scene has (administrators, browsers, credentials, calls, operators, titles, releases,
deployments, forms, codes):

| Theorem | From | Says |
|---|---|---|
| `ServedToTheActive`, `LockoutAlwaysHolds` | `SessionsOK` | `SessionsSpec => []ServedIsActive`, `[]LockoutHolds` |
| `AdmittedToTheUsable`, `RotationAlwaysWorks` | `AccessOK` | `AccessSpec => []AdmittedIsUsable`, `[]RotationWorks` |
| `RolesNeedTwo` | `RolesOK` | `RolesSpec => []RolesAreAgreed` |
| `TermsAlwaysInForce` | `TermsOK` | `TermsSpec => []TermsInForce` |
| `RoutedAsDecided` | | `RoutingSpec => []RoutingAsDecided` |
| `SchemaAlwaysHolds`, `SealedAlwaysWhole` | `ProvisioningOK` | `ProvisioningSpec => []SchemaHolds`, `[]SealedIsWhole` |
| `FormsAlwaysServe` | `FormsOK` | `ConsoleSpec => []FormsServe` |
| `ShownAlwaysHeld` | `PagesOK`, `ListsOK`, `NoListPage`, `BoardOK` | `ConsoleSpec => []ShownIsHeld` |
| `ServedAlwaysUsable`, `OperatorsAlwaysAgree`, `DeploymentsAlwaysHold` | the above | the properties of `console_access`, `ConsoleSpec => []...` |

`ConsoleSpec` plays one scene from its beginning (`SceneStays`, `SceneStarts`, `SceneSteps`), so what holds of a component
holds in its scene. What makes each of them inductive:

- *Sessions.* The guard reads session and administrator in one statement, but a call waits for it while sign-ins, disablings
  and second factors go on; a sign-in under way when `revokeAllSessions` runs stores a session that survives it.
  `GuardedServed`: while a call waits, a session that is complete has had its moment since the call came in. Only an
  administrator becoming active again could make one complete meanwhile, and that is such a moment; a second factor is
  completed by a call of the browser's own. `InCall` says that every call but a sign-in has a session, of `SessionRecord`.
  The lockout is `LockInv`: an account whose failures reached the limit is locked, or a call that failed is still to count
  or to lock it, since failures are counted from the rows only after one's own was stored.
- *Access.* `MomentSeen`: a call that waits has had its moment if its credential is usable now or its token was found
  live. What could break it, a credential becoming active while the call waits, is again such a moment. `DeskStands` says
  what an operation that has judged a credential still knows because it holds its row, `PrimaryStays` that a
  primary credential which an issue found remains there, that one or another; from both `HasPrimary` follows.
- *Roles.* `needsApproval` is judged before the transaction that applies the change, so a role judged harmless may have been
  given a sensitive permission when it is assigned. `AloneIsHarmless` is why that does no harm: what is applied without a
  second person was harmless when judged, and stays harmless or agreed to, since whatever the role is given meanwhile two people
  agreed to (`Vetted`). `RolesThere`: roles are not deleted, so those asked for are there.
- *Terms.* Whoever has opened a version of a title holds its row until the transaction ends, so that the draft follows what is
  committed (`Follows`) and tiles as it does (`Tiles`); `OpenedSoFar` says that the draft of a set has, of every route come
  past, the version of the set. When it is committed, all of them are.
- *Routing.* `HoldersApart`: two transactions past their upsert never set the same policy or group. So what one of them found
  to delete is still all there is when it inserts (`DeletedAll`).
- *Deployments.* Who migrates holds the advisory lock, so what it found applied is what is applied (`DeployStands`), and
  files are applied in name order with none skipped. One transaction grants at a time (`OneGrants`); its draft reaches
  what the application reached before and every table of its release, which is why a deployment of an older release takes
  nothing from a newer one.

### ShownProofs

The lemmas behind `ShownAlwaysHeld` and `FormsAlwaysServe`. What is sorted is sorted by `InOrder`, one order of a finite set among those that agree with the
comparison; `OrderExists` and `OrderIsOnto` show that there is one, and that it has every member once, by a smallest counterexample over
the subsets put in order.

- *Pages.* `PagesInv`. `WalkStands`: a row that was there when the walk began, is still there and was not listed yet lies beyond the cursor, or
  shares its millisecond with the last row of some page (`PassedOver`); `ListedIsBehind`, that what is listed does not lie beyond it,
  is why nothing is listed twice. The step that matters is `ListStep`: a page takes the first rows of the order, and everything
  after its last row is beyond the cursor made of that row, unless cutting the instant to milliseconds put it on the other side.
  Rows that commit late only add to what the walk does not know (`WalkUndisturbed`).
- *Lists.* `AwaitsWanted`: the call whose answer is taken asks for what the URL says, and the URL is only changed together
  with a fetch (`FetchStep`), so whatever an older call brings is not taken. `Clamped` is the arithmetic of the page past the end.
- *Board.* `HeldTold` says, from the statement that reads the verdict on, that each alert live all along is told there,
  and from the one that reads the alerted routes on, that its route is marked; `HoursStand` that what was read of an hour
  is what the hour still holds, unless a transaction ended in it, or was moved there or away, since (`late`); `SeriesStands` what the answer was put together
  from. What is drawn needs no invariant of its own: `BandIs` and `ChartWhole` are about least and greatest rates
  (`ExtremesExist`), `LabelsSpread` about the heights. The loop of `spreadLabels` is a recursive function over the places in
  the order; `PushedExists` shows that its equation has a solution, by the shortest prefix for which it had none, and `PushedApart` that a
  solution keeps order and distance.
- *Forms.* Calls overtake each other and their answers may be lost, so `CodesBindForms` and `FormsTellTruth` depend on
  what is still under way. `CodesOffered`: the code that a form offers to enter again was used by nobody, and no call that
  may still use it is unanswered (`Untried`); a form that awaits a call holds the code it posted (`CodeHeld`). After a
  lost answer the form does not offer its code again, which the mutant `StageAfterKept` shows to be needed.
  `PendingIsLast` and `WrittenAsIssued`: a code performs while it is pending, and only the last one issued is.

### OfficeProofs

*Treasury.* From `FloatsOK` and `TreasuryOK` (finitely many floats, payments, transfers, cash-outs and adjustments of any amounts;
a preview settles no less than nothing, which the store checks: `migrations/0001_foundations.sql:497`), `BooksAlwaysAgree` and
`CashoutsAlwaysHold`.

- What an entry adds to an account is computed for every recipe (`SettlementAdds`, `CollectionAdds`, `TransferAdds`, ...) from the
  sums of `SumTheorems`. That the two sides stay equal (`BooksEven`) follows for any entry with equal sides, adjustments
  included, by summing its postings by account and by posting (`SumSwap`, `BothSides`). That an entry that comes due is never refused
  (`DueIsWritten`) is the arithmetic of X and Y: together they are the two fees, whoever bears which.
- `DriftIsTiming` is inductive beside `PeopleInv`: a payment, a transfer, a cash-out or an adjustment changes one summand of what is on
  its way, by as much as the step changes books less wallet (`PaymentShifts`, `TransferKeepsDrift`, `CashoutShifts`, `AdjustmentShifts`).
- `CashoutsHold` is not inductive. `LiquidityCovered` adds that a float also keeps the cash-out an administrator has read it for
  and not yet committed: it was within what the float had free (`WithdrawableIsFree`), and the float is locked since, so that no confirmation or
  transfer may draw on it in between. `PeopleInv` adds that one float is on one desk at most, that a cash-out on a desk is not recorded yet
  (`DeskWaits`), that each cash-out stands as its approval does (`ApprovedAsDecided`), and that an adjustment waiting for approval was not
  posted (`AdjustedOnce`). `SettledSum` then counts each cash-out once.

*Reconciliation.* From `ReconciliationOK` alone (any transactions, conditions, workers, reviewers, statements and bounds): `DiscrepanciesAlwaysHold`,
`ReconciliationSpec => []DiscrepanciesHold`. The invariant is `RunsInv /\ DecisionsInv`. `RunsInv` says that one run at most is running, that what a worker
executes was started, and that a manual run has its statement; two workers may have the same run, one that was completed or failed by another too. `DecisionsInv` adds to the property that what waits for approval is about a discrepancy that was
raised and would post something (`Queued`), and that a discrepancy which is not resolved has posted nothing
(`UnresolvedIsUnposted`): two approvals of one discrepancy may be queued, and the second finds it resolved. A run may raise again a
finding that was resolved, which neither reopens it nor forgets what it posted.

*One-time codes.* From `ConfirmedOK` alone (any number of calls and codes): `CodeUsedOnce`, `ConfirmedSpec => []CodesServe`. A code is
used by one operation at most, the one it was issued for, and no wrong attempt on a pending code is lost. In `CodeInv`,
`OperatingHolds` is what makes it inductive: a call that operates holds the lock of its code's row, and the row is pending as
long as it is held, so that the second to operate would hold a lock the first one holds. A wrong attempt is added by an update that
counts from the row, which is why `NoneLost` holds although the verdict uses a count read earlier.

### BackgroundProofs

From `QueueOK` and `DeliveryOK` alone (any number of slots, recurring kinds, rows, deliveries, tries and losses):

| Theorem | Says |
|---|---|
| `DeliveryTypeCorrect` | `DeliverySpec => []DeliveryTypeOK` |
| `RecurringJobsKept` | `DeliverySpec => []RecurringKept`: once a worker polls, each recurring job is live, once |
| `PendingAlwaysCarried` | `DeliverySpec => []PendingIsCarried` |
| `RetriesAsPromised` | `DeliverySpec => []RetriesHold` |

The invariant is `DeliveryInv /\ (lost = 0 => Lossless)`, in three layers:

- `QueueInv`: a row is unused, a recurring job, live for ever, or a delivery's (`RowOK`); there is one row of a recurring kind;
  a slot that seeded a kind, or polls, finds its row. Statements address rows by id, so each step fills an unused row
  or moves one on without changing what it is (`TableStep`), and what a slot knows of the table stays true
  although the row may be anybody's by now. That a recurring row never dies is `Return` and `Fail`: its handler asks
  to be run again or throws, and its attempts are never used up.
- `DeliveryInv` adds that a pending delivery has a job no slot is about to finish (`Carries`), which `PendingIsCarried` alone
  does not say: between the handler's last statement and `Record` the job would still be running. The retry is
  enqueued before its handler returns, which keeps it so through every death between. `DeliveryCounted` and `HandlerOK` say
  that a count of attempts, in the row or in a handler that read it long ago, is of posts that were made.
- `Lossless` holds until a first loss: a slot holds a running job of its own (`HeldOnce`), one job carries a delivery
  (`OneCarrier`), and the row knows every post but the one its handler has just made (`Tallied`, `HandlerTallies`).

TLC checked this invariant with two losses before it was proved.

From `HealthOK` alone (any accounts, conditions, processes and deaths): `OrdersAlwaysStand`, `HealthSpec => []OrdersStand`. An
account an operator suspended stays so whatever the breaker sees, because a recovery asks for the status `degraded` in the
statement that writes. `HealthInv` adds `Sound`: who is to write an alert row has found it, and rows are never taken away; without it
the types are not inductive, as an alert is found in one transaction and written in another.

### Only model-checked

Liveness (`AcknowledgedIsConcluded`, `QueuedIsSubmitted`, `DeliveryConcludes`, `AlertsAreTold`, `OfficeConcludes`) is out of the
prover's reach, as is ENABLED. Every invariant of a passing run is stated by a theorem, and every action property but `ScopeReaches`.
`CorrectionsBalance` and `AvailableNeverNegative` without their conditions fail, as said above.
`ScopeReaches`, `RunsConclude` and `AlertsSettle`, the parts of `OfficeConcludes`, rest with TLC.

## 6. What is not modelled

Each component in `PROJECT.json` has its status and reason. In short: request formats, signatures, sealing of secrets, the
parsing of statement files, single reads, exports and texts are conversion or I/O; settings are cached for five seconds
(`settings.service.ts:35`) and constant here; seeds, backups and release scripts run once or outside the system. Left out
of modelled components: payloads and secrets of notifications, scopes of administrators by country and project,
invitations and password resets by mail, velocity windows that move, the connection pool that nested transactions
may exhaust, several currencies in one treasury.

Scenes are not composed with each other where the code composes them by calls without shared rows: a confirmed
operation is a step of the treasury whose code has been accepted, and the other way round. Where components share
rows they are in one module or one extends the other (corrections and the lifecycle, deliveries and the queue,
breakers and alerts, confirmations and transfers).

## 7. Plan

What remains, in order: the treasury with confirmations of two currencies, for the solvency that cash-outs of
different floats check without a common lock; liveness of confirmations under the store's deadlock detection; a fault
model of the mail gateway.
