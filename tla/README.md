# Saukele backend: a TLA+ verification project

Saukele is a wedding registry: couples open *gift pools*, guests contribute to
them in any currency, the gift is bought and delivered, and the family tree of
the couple decides who owes what. The backend is an Express API over PostgreSQL
(through Prisma) with Bull queues on Redis and a worker process.

This directory models the parts of it that keep state, checks them with TLC on
small instances and proves some of the results with TLAPS for every size.
Source paths below are relative to `src/` of the backend repository.

## 1. The system

| Component | State | Operations | Hard behaviour |
|---|---|---|---|
| Gift pools (`controller/poolController.js`) | `gift_pools`: status, targetKzt, totalFunded, remainingTarget | create, update, delete, set status, purchase, deliver | every handler reads in one statement and writes in another |
| Contributions (`controller/contributionController.js`) | `contributions`, and the totals of their pool | contribute, refund | transactions at READ COMMITTED that write absolute values from an unlocked read; idempotency keys |
| Payment service (`service/paymentService.js`) | a `Map` in the process | processPayment | forgotten on a restart |
| Exchange rates (`service/exchangeService.js`) | `exchange_rates`, `exchange_rate_snapshots` | look up, record, convert, close and create | close and create are two statements |
| Logistics (`service/logisticsService.js`) | `logistics_tracking`, and the status of its pool | create, assign carrier, update status | an e-mail between a read and a write; two updates where one is meant |
| Family tree (`controller/familyController.js`) | `family_trees` | add, remove, views | checks and walks on a tree that changes before the write; recursion without a guard |
| Worker jobs (`queue/worker.js`) | the tables above | decay, rate update, reminders, cart recovery | run beside the API |
| Queues (`queue/*.js`), cultural timing (`utils/culturalTiming.js`) | Bull jobs in Redis | schedule, retry, delay, repeat, trigger, remove | a job that runs twice; a job that reschedules itself around quiet hours and Sundays |
| Accounts (`controller/authController.js`) | `users`: codes, links, flags | register, verify, resend, forgot, reset, profile | delete and create apart; a secret compared in one statement and spent in another |
| Sessions (`controller/authController.js`, `middleware/auth.js`, `frontend/js/api.js`) | `users.refreshTokenHash`, the tokens in a browser | login, refresh, logout, every authenticated call | one hash overwritten by every login and refresh; a client that refreshes and repeats |
| Administration (`controller/adminController.js`, `moderatorController.js`) | `users`, rates | delete a user, block, promote, set a rate | leaves the totals of the pools and the rows below the children; toggles computed from a stale read |
| Weddings (`controller/weddingController.js`, `service/registryService.js`) | `weddings`, `registries` | create, update, delete | a wedding, its registry and its pools in separate steps |
| Privacy and roles (`middleware/privacyGuard.js`, `roleCheck.js`) | none | access decisions | three functions that should agree |
| Audit trail, e-mail, middleware, routes, frontend | logs, counters | | I/O and wiring |

How they interact: everything meets in the database. The API and the worker are
separate processes; inside the API a handler runs alone between two `await`s and
other handlers run at each of them. Pools are written by contributions, by
refunds, by their owners, by logistics (`DELIVERED`) and by the worker
(`PENDING`). A failure at an `await` leaves what was already written
(`utils/asyncHandler.js` answers the request with an error), except inside the two
`prisma.$transaction` blocks, which roll back.

What makes each part correct:

- pools: what a pool shows as collected is what its contributions say, a target
  is not exceeded, and the status follows the money;
- contributions: one per idempotency key, paid, never without their pool, and given
  back once (the last is not so: `RefundedOnce`, section 3);
- logistics: the records about warnings and deliveries are true, and the pool
  follows the delivery;
- family tree: it is a forest inside one wedding, and stored distances are true;
- rates: quotes are of the newest rate, a currency is without one only for a known
  reason, and what was answered for the past stays;
- reminders: they reach exactly those who owe, at allowed hours, and no job is tried
  for ever or forgotten;
- accounts: a secret works for the account it was drawn for, a link that changed a
  password is kept by no row, and a person can always finish a registration;
- sessions: a signed-in account never loses the hash its refreshes compare with, and a
  browser catches up with its account;
- weddings: a couple that was told its wedding exists has the whole registry, and
  removing accounts takes away only what it says.

## 2. Modules

| Module | Models |
|---|---|
| `EscrowLedger` | abstract specification: what an escrow pool promises, without code |
| `PoolFunding` | the pool and contribution handlers, payments, snapshots, row locks, the decay job, failures and restarts |
| `MCPoolFunding` | its instances for TLC |
| `PoolFundingProofs` | theorems about it, among them that it implements `EscrowLedger` |
| `DeliveryTracking`, `MCDeliveryTracking`, `DeliveryTrackingProofs` | logistics, with the statuses other handlers give the pool and `updatePool`'s edits of `isFragile` |
| `FamilyTree`, `MCFamilyTree`, `FamilyTreeProofs` | adding and removing members, the deletion of users, and what the views compute |
| `ReminderJobs`, `MCReminderJobs`, `ReminderJobsProofs` | Bull's queues as far as reminders use them, the worker's reminder jobs, quiet hours, the reminder and queue endpoints |
| `Registration`, `MCRegistration`, `RegistrationProofs` | accounts and the secrets mailed for them |
| `Sessions`, `MCSessions`, `SessionsProofs` | token pairs, the guard, the browser client, block, promote and delete |
| `ExchangeRates`, `MCExchangeRates`, `ExchangeRatesProofs` | the rows of rates, how they are replaced, snapshots and quotes |
| `WeddingRegistry`, `MCWeddingRegistry`, `WeddingRegistryProofs` | weddings with registry, pools, family and audit rows; deletion of accounts; who sees what |

`PoolFunding` implements `EscrowLedger` through `INSTANCE ... WITH` (`Ledger`): the
goal is `targetKzt`, what is held is `totalFunded`, and the gifts are the
contributions. `DeliveryTracking` does not include `PoolFunding`; its `PoolMove`
takes over the status changes that `PoolFunding` models in detail. In the same way
`WeddingRegistry` takes a pool change, a refund and a family row in one step each and a
contribution in two (the access check, then the row after the payment), because what
matters there is which rows refer to which; totals are `PoolFunding`'s. `deleteUser` is a
transaction and appears as one step in each of the four modules whose rows it removes. The
currency a contribution is locked at is read in `ExchangeRates` and is a constant of
the request in `PoolFunding`.

In each module a request of a client is a record `req[s]`: `at` is the await its
handler has reached and the other fields are the handler's local variables. One
action is one stretch of code between two awaits; its guards are the code's
conditions, and its early returns end the request. Definitions marked `mutated`
are plausible bugs that the checked properties must and do notice; nothing
refers to them.

### Correspondence

| Code | Actions |
|---|---|
| `createContribution` | `ReadPoolForContribution`, `TxReadRemaining`, `TxLookupAndPay`, `TxUpdatePool`, `TxCommitContribution` |
| `deleteContribution` (refund) | `ReadContribution`, `ReadPoolOfContribution`, `RefundUpdatePool`, `RefundCommit` |
| `createPool` | `CreatePool` |
| `updatePool`, `updatePoolStatus`, `purchasePool`, `deliverPool`, `deletePool` | `ReadFor...` and `Write...` |
| `handleDeadStockDecay` | `DecayList`, `DecayWrite` |
| `createLogisticsTracking` | `ReadForTracking`, `ReadNoTracking`, `InsertTracking` |
| `assignCarrier` | `ReadForCarrier`, `ReadPrepared`, `WarnCarrier`, `WriteCarrier` |
| `updateDeliveryStatus` | `ReadForStatusChange`, `ReadPoolOfRow`, `WriteDeliveryStatus`, `ConfirmPool` |
| `updatePool`, as far as `isFragile` goes | `BeginEdit`, `Edit` of `DeliveryTracking` |
| `addFamilyMember` | `SendAdd`, `ReadMember`, `ReadAncestor`, `WalkUp`, `InsertMember` |
| `removeFamilyMember` | `SendRemoval`, `ReadForRemoval`, `ReadDescendant`, `DeleteMember` |
| `getFamilyTreeRecursive`, `buildTree`, `buildDepthMap` | `Paths` and `OnLevel`, `Depth`, `OwnAncestor` |
| `registerCronJobs`, Bull's repeat, retry and stall | `RegisterCronJobs`, `Repeat`, `AfterFailure`, `RecoverStalled`, `AfterStall` |
| `isSendingAllowed`, `getDelayUntilAllowed` | `IsSendingAllowed`, `DelayUntilAllowed` |
| `handleGentleObligationReminders` | `TakeCron`, `Postpone`, `ListDebtors`, `QueueGentleReminder`, `EndRun` |
| `handleDailyObligationReminders` | `TakeCron`, `ListDebtors`, `SendDailyReminder`, `EndRun` |
| e-mail jobs | `TakeEmail`, `SendEmail`, `FailEmail`, `CompleteEmail` |
| `sendObligationReminders`, `triggerCronTask`, `retryJob`, `removeJob` | `RequestReminders` and `QueueObligationReminder`, and actions of the same names |
| `register` | `AskRegister`, `RegisterRead`, `RegisterDelete`, `RegisterCreate`, `SendMail` |
| `resendVerification`, `forgotPassword` | `ResendRead`, `ResendStore`, `ForgotRead`, `ForgotStore`, `SendMail` |
| `verifyEmail`, `resetPassword`, `updateProfile` | `VerifyRead` / `VerifyStore`, `ResetRead` / `ResetStore`, `ProfileRead` / `ProfileStore` |
| `verifyByToken` | `AskToken`, `TokenRead`, `TokenStore` |
| `auth` | `Verdict`, `Authenticate` |
| `request` of api.js | `Get`, `Load`, `StartRefresh`, `Refused`, `Refreshed`, `NotRefreshed` |
| `login`, `refresh`, `logout` | `LoginRead` / `LoginStore`, `RefreshRead` / `RefreshStore`, `LogoutStore` |
| `blockUser`, `promoteModerator` | `ReadUser`, `UpdateUser` |
| `deleteUser` | `DeleteUser` of `WeddingRegistry`, `FamilyTree`, `Sessions` and `Registration` |
| `getExchangeRate`, `getExchangeRateAt` | `Quotes`, `QuotesAt` |
| `updateExchangeRate`, `handleRateUpdate` | `UpdateExchangeRate` or `HandleRateUpdate` and `ReadRate`, then `TakeDate`, `CloseCurrent`, `CreateRate` |
| `recordExchangeRateSnapshot` | `ReadQuote`, `TakeLockDate`, `RecordSnapshot` |
| `createWedding`, `createRegistryWithGifts` | `CreateWedding`, `LogCreation`, `CreateRegistry`, `CreateGift`, `AnswerCreation` |
| `updateWedding`, `deleteWedding` | `UpdateWedding`, `DeleteWedding`, `RemoveWedding`, `Log` |
| contributions and refunds, as far as their rows go | `BeginContribution`, `InsertContribution`, `Refund` of `WeddingRegistry` |
| `canAccessPool`, `buildPrivacyFilter`, `canEditPool` | `CanAccess`, `Listed`, `CanEdit` |
| `listPools` with and without `weddingId` | `Listed`, `ListedUnfiltered` |
| a rejected await, a dead process | `Fail`, `Crash`, `WorkerCrash`; `FailRun`, `Lose`, `GiveUp` |

### Abstractions

- Amounts are whole KZT: the conversion `Math.round(originalAmount * rate)` happens
  before anything that is checked here, so a request carries its result, and amounts
  that round to 0 are among the inputs of the sequential run.
- PostgreSQL: a statement sees committed data; an `UPDATE` waits for the row of an open
  transaction (`lock`); what a transaction wrote appears at its commit. Prisma answers a
  `findUnique` with `include` by two SELECTs, and other requests can commit between
  them: the refund reads its contribution and then the pool, logistics the tracking or
  the pool and then the other. Where nothing that is kept depends on the included row
  (the wedding in `createContribution`), the read is one step.
- "No activity for 30 days" is a free choice among the pools that satisfy the other
  conditions of the query.
- The payment is the repository's mock and never declines.
- Ids come from sequences and are not reused: a deleted pool stays `DELETED`.
- Notes of a carrier are one of three kinds: empty, a client's, or with the warning in
  them.
- In `PoolFunding`, `DeliveryTracking` and `FamilyTree`, privacy and ownership checks,
  audit logging, `estimatedDelivery` and gift obligations are left out: they only refuse
  requests or write what no modelled handler reads. The contributions that `deleteUser`
  takes away are in `WeddingRegistry`: what `PoolFunding` says relates totals to
  contributions as long as no contributor's account is deleted.
- Family tree: a walk is the set of the members it visits, and the views are those of
  the whole tree (no `memberId`, no `includeCouple`, which adds a root for the couple).
- Reminders: time is counted in whole hours of Astana; the worker's container runs in
  UTC, five hours behind, so cron's 09:00 is 14:00 there. A retry's backoff is less than
  an hour. Obligations and the wedding's open pool stay, while contributions complete
  and are refunded. A job removed after completion (`removeOnComplete`) stays as
  `completed`. The queue endpoints find only jobs with a numeric id, as `Number(jobId)`
  does.
- Registration: a code or a link is a number never drawn before; a link's hour of
  validity is a free choice to refuse it; passwords and names are left out. A token that
  login signs names the address in its `email` field, the one field `verifyByToken`
  reads, so it accepts the tokens of that address whichever account they were made for.
- Sessions: bcrypt reads 72 bytes, and of a token these hold the id and the start of the
  address, so a stored hash is modelled as the address it was made with, and `Start`
  says which addresses start alike. A refresh token's own expiry is left out. The keys
  written to Redis are never read, and the blacklist write is in a form the client
  rejects.
- Rates: a rate is named by its row, which tells apart all that the properties do. All
  pairs are of a currency and KZT. A date that ends up in a row (`validUntil`,
  `validFrom`, `lockedAt`) is taken by the process before the statement that stores it
  runs, and time may pass between. The Redis cache asks for a property the client does
  not have and is never used.
- Weddings: of contributions the rows are kept, with who gave and to which pool; sums
  are in `PoolFunding`. Names, dates and venues are left out.

## 3. Runs

| Run (configuration) | Checks | Shows |
|---|---|---|
| `PoolFundingConcurrent` | `TypeOK`, `PoolBalance`, `FundedMeansFull`, `DoubleSubmitSafe`, `BackedByPayment`, `NoOrphanContribution`, `ContributionLifecycle` | two clients and two keys on one pool, beside the worker, with failures and restarts anywhere |
| `PoolFundingOneKey` | `RemainingNonNegative`, `EveryRequestAnswered` | one contribution submitted and refunded by two clients while its target changes; every request ends |
| `PoolFundingSequential` | `LedgerExact`, `ImplementsLedger` | without overlapping requests all handlers together implement the ledger |
| `PoolFundingOversell` | `NoOverselling` | *violated*: two concurrent contributions both pass the guard |
| `DeliveryConcurrent` | `TypeOK`, `WarningWasSent`, `LastMileWarned`, `NothingForgotten` | two clients on one gift, fragile or not, and every change of its pool |
| `DeliveryLost` | `DeliveryReachesPool` | *violated*: a failure between two updates |
| `FamilyAdds` | `TypeOK`, `TreeAnswers`, `HierarchyComplete`, `DistanceCurrent` | two clients grow one tree of up to four members; members are removed and users deleted while nothing else is in flight |
| `ReminderJobs` | `TypeOK`, `GentleDueInAllowedHours`, `AttemptsLimited`, `RunRemindsDebtors`, `JobsSettle` | a weekend of both reminders with crashes, stalls, failed sends, payments and refunds inside a run, and an administrator at the queues |
| `Registration` | `TypeOK`, `OwnSecrets`, `SpentLinks`, `NobodyStranded` | two requests at a time about two addresses, by code, link or token, with deletions, lost mails and restarts |
| `Sessions` | `TypeOK`, `SessionKept`, `BrowserCatchesUp` | one account in two browsers, two calls in flight, staff beside them; answers are lost and pages reloaded |
| `ExchangeRates` | `TypeOK`, `QuoteIsNewest`, `GapOnlyInUpdates`, `HistoryFixed` | an administrator and the worker replace rates at once, with dates taken before their statements, while two contributions lock theirs |
| `WeddingRegistry` | `TypeOK`, `RegistryComplete`, `ListedOpens` | accounts of every role around one wedding, two requests at once, with restarts between any two statements |

Each violated property quotes the repository's own documents; PROJECT.json gives the
lines under `findings`, and more disagreements follow at the end of this section.

**Conditions.** Some properties hold only for part of the clients' behaviour, and the
configuration says which: `PoolBalance` without `updatePool` (a target change that
overlaps a contribution breaks the sum), `FundedMeansFull` also without statuses set by
hand (`updatePoolStatus` may set `FUNDED` on any pool that is `FUNDING`), `LedgerExact`
and the refinement without overlapping requests, and `TreeAnswers`, `HierarchyComplete`
and `DistanceCurrent` where clients send no rank of their own, members are removed and
users deleted only while no other request is in flight (`RemovalsAlone`), and no user is
deleted who has grandchildren in a tree (`Detaching` is FALSE). A removal that overlaps
an addition, or a deleted grandparent (`FamilyDetached`), can leave a child whose
ancestor is gone, and after the ancestor is added again below the child, a cycle that
`computeDepth` never leaves. `DistanceCurrent` is about the distance only; what rank
belongs to a distance is `RankAtThree`'s question. `DoubleSubmitSafe` says of a pool
whose only contribution was refunded that it shows *at most* nothing of it, because
overlapping refunds take it below zero (`RefundedOnce`). `LastMileWarned` excepts a gift
that `updatePool` marked fragile after its tracking had begun (`late`): a refund returns
a purchased pool to `FUNDING`, where it may be edited. `SpentLinks` says that no row
holds a link that changed a password, not that the link changed only one: two resets
that both read it before either wrote both succeed. `HistoryFixed` is about dates that a
snapshot covers, once no snapshot dated up to that moment is still being written.
`AttemptsLimited` counts every run of a job, and allows one more for each stall and each
retry. In `RunRemindsDebtors`, a daily mail whose sending failed (`unsent`) is no
reminder, but the run goes on without trying again, as the code only logs it; every
other debtor was sent or queued one. `GentleDueInAllowedHours` is about the hour a job
is *due*; a retry, or a worker that was down, can make a mail leave later. `ListedOpens`
is about the page of one wedding, and asks of a moderator only that what opens is
listed: pages list `PRIVATE` pools to moderators that `canAccessPool` refuses them.
`SessionKept` says of an account whose address changed only that a hash is stored, which
may be one of the other address until its next login.

**Bounds.** One pool is enough for every pool property, because no handler touches
two; two clients give every order of two requests and of the worker's steps; two
keys give two different contributions and the two submissions of one. Amounts 1
and 2 against a target of 2 include a contribution that fills the pool, one that
leaves room, and two that together do not fit. `charges` counts to "more than
one". The tree has four users and four insertions (`MaxId`), so that a line of four
and a removal followed by another insertion both occur. The gift of the delivery run
becomes fragile and stops being so at any time its pool may be edited.

`MaxEvents` bounds what comes from outside, requests and faults together, and every
handler that has begun can still go through all its steps:

- reminders: the hours Saturday 22:00, Sunday 15:00 and Monday 09:00 in Astana lie on
  each side of what the quiet hours tell apart (a postponement that meets a Sunday,
  a Sunday, the first allowed hour). One member is enough because a run treats
  members alike and independently; two events allow a crash with a retry, a
  payment and its refund, or a manual run beside the scheduled ones. A server that
  refused a mail may go on refusing it without a further event, so that every attempt is
  used up, with a stall or an administrator's retry beside.
- registration: five requests and faults are enough for register, resend, register
  again and two verifications; two in flight give every overlap of two handlers.
- sessions: two browsers of one account, two calls and three events include two
  overlapping refreshes, a sign-in elsewhere between them, and a promotion or a block
  that overlaps a refresh. Accounts do not interact except for a unique address.
- rates: four updates, contributions and crashes over three moments include two updates
  that close before either creates, a row inserted between the date of a close and its
  statement, and two snapshots of different rates, in the order of their dates or not.
  An administrator and the worker send the same statements, so one of each is enough.
- weddings: five events on top of the whole chain of `createWedding` include a
  contribution, its refund or the removal of the contributor, the deletion of the pool and
  an attempt to delete the wedding, in any order and beside the chain.

Symmetry is used for sessions in `PoolFundingConcurrent` and `DeliveryConcurrent`, in the
first also for keys, all of which are foreign there; for users and sessions in
`FamilyAdds`, for addresses and requests in `Registration`, and for contributions in
`ExchangeRates`; in no liveness run.

**Fairness.** `EveryRequestAnswered` is checked under `FairSpec`: weak fairness of
the steps that wait for nothing, since Node's event loop resumes a handler whose
await is settled, and strong fairness of the steps that need a row, since
PostgreSQL queues the waiters of a row lock and grants it in turn. `JobsSettle` assumes
that time passes, that a dead worker is started again (the container's restart
policy), that a handler which began goes on, and that Bull runs due jobs; requests,
payments, failures and crashes are under no fairness. `BrowserCatchesUp` assumes that
calls and staff requests which began go on, that access tokens expire, and that who is
signed in goes on using the site (strong fairness of `Use`, because two browsers share
the call slots of the model); nobody is assumed to sign in or out or to reload. The
other runs check safety only.

**Deadlock** is checked in the runs of the pool, delivery and family modules, where a
client can always send something. In the others the bounds on events and time
stop the model when everything is done, and `CHECK_DEADLOCK` is off; there, the
liveness properties and `NobodyStranded` say what must not be left undone.

### Further counterexamples, outside the run list

These configurations are kept because TLC finds each property violated at once, and each
is a disagreement between the code and a document of the repository:

| Configuration | Property | Document | What the code does |
|---|---|---|---|
| `PoolFundingDoubleRefund` | `RefundedOnce` | openapi.yaml:1454 "Refunds the contribution amount to the pool." | of two overlapping refunds, the second reads the contribution before the first committed and its pool after, and subtracts again: the pool of one refunded contribution ends with a negative total (contributionController.js:202, :229) |
| `PoolFundingRetry` | `RetryReturnsContribution` | README.md:39 "Idempotency key support for safe retries" | the guards on status and remaining target come before the lookup by key, so the retry of a contribution that filled the pool is answered 400 |
| `PoolFundingReopen` | `DeliveredIsFinal` | tests/unit/poolService.test.js:30 'should not allow DELIVERED to transition anywhere' | a refund sets `FUNDING` whatever the status was |
| `PoolFundingDecay` | `DecaySparesFundedPools` | README.md:85 "FUNDING with 30d no activity" | the worker updates by id what its query listed earlier, so a pool funded meanwhile is put back to `PENDING` with its money |
| `FamilyAncestor` | `AncestorInTree` | CHECKLIST.txt:70 "Ancestor validation, duplicate prevention" | a rank in the request skips the lookup of the ancestor |
| `FamilyDetached` | `TreeAnswers` | src/routes/family.routes.js:71 "Get full family tree hierarchy with recursive structure" | `deleteUser` removes the rows of the user and of its children (adminController.js:56-57); a grandchild keeps an ancestor without a row, who can be added again below it, and then `computeDepth` never returns |
| `FamilyRank` | `RankAtThree` | tests/unit/familyLogic.test.js:23 'should return ZHIEN_ZHARAP when distance is 3' (as kinshipService.js:5) | `addFamilyMember` stores `SHAKYRT` at distance 3 (familyController.js:405-411); the test is of a copy of the other thresholds |
| `SessionsRotation` | `OldTokenRevoked` | src/routes/auth.routes.js:102 "revokes the old token ... The old refresh token cannot be reused." (also :123; README.md:28, :190 and CHECKLIST.txt:33, :111 say rotation) | `refresh` compares with bcrypt, which reads 72 bytes (authController.js:128); the tokens of an account are alike there, so a replaced token is accepted again, and the key that :133 deletes is read by nobody |
| `SessionsLogout` | `LogoutRevokes` | src/routes/auth.routes.js:135 "Deletes the stored refresh token hash from DB" | a refresh that compared its token before a logout stores a new hash after it (authController.js:146) |
| `ReminderQuiet` | `RemindersInAllowedHours` | CHECKLIST.txt:87 "Cultural timing (09:00-21:00 Astana, skip Sunday)" | the daily reminder runs on Sundays too and sends by itself (worker.js:234-281) |
| `WeddingList` | `GuestListOpens` | README.md:308 of GUEST "View public pools, contribute" | without a `weddingId`, `listPools` uses no filter (poolController.js:94-96) and lists every pool of every level to every role, also those that `canAccessPool` does not open |
| `WeddingDelete` | `EmptyWeddingDeleted` | README.md:205 `DELETE /weddings/:id`, src/routes/wedding.routes.js:141 "Wedding deleted", CHECKLIST.txt:45 | `deleteWedding` deletes the wedding row alone (weddingController.js:210), and the registry and pools that `createWedding` made refer to it: once its creation was answered a wedding cannot be deleted, contributions or not |
| `WeddingMoney` | `MoneyKeepsPool` | src/routes/pool.routes.js:144 "Cannot delete pool with contributions or non-PENDING status" | `deletePool` counts contributions; after `deleteUser` removed them (adminController.js:59, where README.md:248 says "anonymizes contributions") a pool goes with the money in its total |

`SessionKept` of the run list is therefore not rotation: it says only that the stored hash
does not get lost or go to another address, in whatever order refreshes run. And
`TreeAnswers` of the run list is stated where no deleted user has grandchildren.

One more disagreement needs no run: `createContribution` and `updateProfile` write no
audit row (README.md:31 says "Full audit logging for all mutations").

## 4. Proofs

Every safety invariant, every action property and the refinement that the runs check
are proved, for sets of pools, keys, clients, users, jobs, hours and weddings of any
size (finite where a table is counted). The proofs assume what the named assumptions on
the constants say (sets of naturals for amounts and targets, `None` outside the other
sets, finite sets of clients), and, where a property holds only for part of the clients'
behaviour, that condition in the theorem itself:

| Condition | Theorems |
|---|---|
| no `updatePool` | `BalanceKept` |
| no `updatePool`, no `updatePoolStatus` | `FundedIsFull` |
| one session at a time (`Sequential`) | `LedgerImplemented`, `CountedExactly` |
| no ranks sent, removals and deletions of users alone, no grandchildren detached (`Orderly`) | `WalksEnd`, `NobodyMissing`, `DistancesStay` |

These are the conditions of the runs; without them TLC has counterexamples (section 3,
"Conditions"). All other theorems are about `Spec` as it stands.

The proof modules are laid out alike. Lemmas about *outcomes* say, field by field, what
each kind of step can come to; every part of the invariant is then shown to survive each
kind of step; a theorem combines the parts. Overlapping requests make almost no property
inductive: what a handler writes was computed from an older read, so the invariants are
mostly about what a request in flight *carries*.

**`PoolFundingProofs`**

- `TypeCorrect` (`TypeOK`). `TypeInv` adds that a running request is about a pool, one
  about a contribution has its key, and a refund's contribution exists and is in that pool.
- `NeverNegative` (`RemainingNonNegative`). `GuardInv`: the guard a request passed still
  holds *of the row it carries*; each write stores a value computed from that copy, so it
  is never negative, however stale the copy is. The same argument shows why the guard
  does not prevent overselling: it bounds the copy, not the sum.
- `NoOrphans` (`NoOrphanContribution`). `LockInv`: a request between its update and its
  commit holds the row of a pool that exists, and `deletePool`, which waits for that row,
  counts contributions in the step that deletes.
- `AlwaysPaid` (`BackedByPayment`). `PayInv`: who is past the payment was charged, and
  what the process remembers as paid was charged, so that a remembered payment counts too.
- `LifecycleKept` (`ContributionLifecycle`): a commit stores only under an unused key, and
  a refund that races another writes `REFUNDED` over `REFUNDED`, with the pool and the
  amount as they are.
- `DoubleSubmit` (`DoubleSubmitSafe`). `SingleInv` relates the row each request carries to
  the contributions stored now: one about to be stored in an empty pool starts from a
  total of 0, and a refund of a pool's only contribution from a total of at most that
  contribution. It is not exactly that, because the refund may have read the contribution
  before another refund committed and the pool after it.
- `BalanceKept` (`PoolBalance`) and `FundedIsFull` (`FundedMeansFull`). `BalanceInv`: the
  row a request carries is balanced and for the same target; a write of it, however old,
  is balanced too.
- `LedgerImplemented` (`ImplementsLedger`). `SeqInv`: with one session the row carried is
  the row stored, up to its status. Each step is then an `Accept`, `GiveBack`, `SetGoal`
  or `Withdraw` of `EscrowLedger`, or a stutter.
- `CountedExactly` (`LedgerExact`), from the refinement: `CountInv` counts the gifts of a
  pool tenge by tenge (`Tenge`), a disjoint union that grows by a gift accepted and
  shrinks by one given back. The sum is stated as a cardinality for this reason.

**`DeliveryTrackingProofs`**

- `TypeCorrect`, with running requests about a pool and a status.
- `WarningSound` (`WarningWasSent`). Inductive together with `FlagsBacked`: the flag a
  running request carries from its read or its e-mail is backed by an e-mail that was
  sent. Concurrent assignments may clear a true flag, and never set an untrue one.
- `RowsGrow` (`NothingForgotten`), from `RowInv`: a row with a carrier or a delivery time
  exists, so a second `create` fails on the unique key.
- `LastMile` (`LastMileWarned`). Each write sets status and notes together, so what
  counts is the mark it read. `MileInv`: a status change reads the row before the pool, so
  that one about to write, of a gift marked before its tracking began, read the mark.

**`RegistrationProofs`**: `TypeCorrect`, `OwnSecretsOnly` (`OwnSecrets`), `LinksSpent`
(`SpentLinks`), `NobodyIsStranded` (`NobodyStranded`). Ids and secrets are drawn in
order and bounded (`Bound`), so none is drawn twice. `IssueInv`: what a row or a request
holds was drawn for the id it is held for, which survives a deletion and a new
registration because ids are not reused. `LinkInv`: a link about to be stored is nowhere
else, and codes and links do not mix. `verifyByToken` writes by id and compares no
secret, so it can confirm an account and disturbs none of this. `StrandInv`: the code an
unverified account waits for is in its mailbox, lost, or in the hands of a request that
will mail it.

**`SessionsProofs`**: `TypeCorrect`, `SessionsKept` (`SessionKept`). A token in a call, an
answer or a browser names the address of its account unless that address changed or the
account is gone (`CallInv`, `BrowserInv`); so what any refresh stores is a hash of the
account's address, and an account that signed in and was not signed out has one
(`HashInv`), in whatever order refreshes compare and store. `Start` is arbitrary: it does
not depend on how much of an address bcrypt reads.

**`ExchangeRatesProofs`**: `TypeCorrect`, `NewestQuoted` (`QuoteIsNewest`), `GapsHaveACause`
(`GapOnlyInUpdates`), `HistoryKept` (`HistoryFixed`). Rows are not in the order of their
dates, and a row may be closed with a date before its own. `Shape` has that the rows of a
currency start at different moments, so that one is newest; `Gaps`, that every closed row
has a reason (`Replaced`): a newer row, a failure between the statements of an update, or
an update that still has to make its row, with a date not before it (`Cause`). A row that
is newest and closed therefore means an update in between or one that failed there.
Snapshots carry a date already taken, so the past is settled once none is on its way.

**`WeddingRegistryProofs`**: `TypeCorrect` (no row refers to one that is gone),
`RegistriesComplete` (`RegistryComplete`), `ListsOpen` (`ListedOpens`). `CreateInv` says how
far each `createWedding` has come: one request makes a wedding, the gifts left to make have
no pool, the others have one or had it dropped by the couple or an administrator.

**`ReminderJobsProofs`**: `TypeCorrect`, `GentleKeepsHours` (`GentleDueInAllowedHours`),
`AttemptsAreLimited` (`AttemptsLimited`), `DebtorsReminded` (`RunRemindsDebtors`). Each
job is in order by itself (`JobOK`): one that waits has a run left, every run but the
last is accounted for by a failure, a stall or a retry (`RunsOK`), and what the gentle
reminder added is due in allowed hours until retried. The lemma `DelayEndsAllowed` shows
for every hour that `getDelayUntilAllowed` ends in one where sending is allowed, Sundays
included. `DebtInv`: who owed at all times of a run was sent or queued a mail, is one
whose mail could not be sent, or is still on its list, and nobody among these never
owed.

**`FamilyTreeProofs`**: `TypeCorrect`, `WalksEnd` (`TreeAnswers`), `NobodyMissing`
(`HierarchyComplete`), `DistancesStay` (`DistanceCurrent`). The walks are least sets closed
under going to the ancestor (`Line`) and paths from a root (`Paths`), so that no recursion
has to be unfolded. The invariant `GrowthInv`: the row of an ancestor is older than that of
its child, hence nobody is its own ancestor; the line of a member is one longer than that
of its ancestor; the distance in each row is that of its line; and the distance an
addition carries from its walk stays true while others insert, because a new row is in
nobody else's line. A removal takes a row without children, which is in nobody else's
line either; the deletion of a user takes its row and those of its children, and when there
are no grandchildren these are in nobody else's line.

**Only model-checked**: liveness under fairness (`EveryRequestAnswered`, `JobsSettle`,
`BrowserCatchesUp`), which the provers do not reach, and the violated properties and
the further counterexamples of section 3, which are false. That the bounds `MaxEvents`
and `MaxId` end the model is part of the specifications; the theorems hold for every
value of them.

## 5. Plan

All subsystems of the first plan are modelled, and what the runs check is proved but for
liveness. What is left:

1. Properties for the hazards that have none yet: the status checked outside the
   contribution's transaction, the decay job beside a contribution, a carrier handed over
   by a status update, a user in two trees. Each needs either a property that the code
   keeps or a document to compare it with.
2. Weaker conditions for the conditional theorems: that `PoolBalance` can only be lost to
   a pool whose target was changed while a request of it was in flight, and likewise for
   `FundedMeansFull`.
3. `FamilyTree` with overlapping removals: which members can be in a cycle.

## 6. Not modelled

- Reading handlers: lists, pages and cursors, progress views, obligations and ranks of
  one's own, the monitor's statistics. They change nothing, and what they compute is a
  projection. Where two of them should agree (`ListedOpens`, the tree's views) the
  computation is modelled.
- `kinshipService.js`: called by nothing. Cart recovery only logs; no code adds a
  webhook job.
- The e-mail templates, configuration, route tables with their API documentation, the
  queue dashboard, and rendering in the browser: wording and wiring without state.
- The rate limiter counts requests per window and refuses; a refused request changes
  nothing.
- Audit rows' contents: no handler that changes state reads them.
