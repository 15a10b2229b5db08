# TLA+ models of the hotel management system

The repository is a hotel management system: an Express backend over PostgreSQL
(`Backend-H/src`), a Nuxt frontend (`Frontend-H/app`), the database schema,
migrations and backup scripts (`database`). The modules here model the backend where
concurrent requests meet in the database, the jobs and scripts around it, and the
pages of the frontend that ask the server while their user goes on. TLC checks them
on small instances; TLAPS proves, for hotels of any size, every safety property that the
runs check of the server: stays, billing, online payments, the back office and who is
let in.

Paths below are relative to the repository.

## 1. Inventory

| Component | State | Operations | What is hard | What makes it correct |
|---|---|---|---|---|
| Reservations and stays (`reservationService`, `reservationLock`, `reservationController`, `checkInController`) | `reservation`, `check_in_log` | book, update, cancel, check-in, check-out | two desks and the portal on one room; the room to lock comes from an unlocked read | no night promised twice; a stay only moves confirmed → checked in → checked out, or → cancelled |
| Rooms (`roomController`, `Room`, trigger `hotel_room_ready`) | `room.status` | edit, change status, recalculation | status validated on a stale read; `CURRENT_DATE` fixed at the start of a transaction | status follows the stays and the tasks |
| Housekeeping (`operationsService`) | `housekeeping_task` | create, update, complete; created by check-out | last task of several employees frees the room | no room offered or entered with an unfinished task |
| Guest portal (`portalBookingService`) | `reservation` | availability, book | stricter availability than the staff's, same lock order | as for reservations |
| Payments (`paymentService`, `Payment`) | `payment` | create, edit, complete, refund, fail | two payments of one reservation; price changes and cancellations meanwhile | never more than the price collected; collected is final but for a refund |
| Cash shifts (`operationsService`, trigger `hotel_payment_event`) | `cash_shift`, `cash_movement`, `payment_receipt` | open, close, movement and receipt of a payment | closing computes two sums while payments commit | a payment is in the closing or refused; books and payments agree |
| Online payments (`onlinePaymentService`) | `online_payment`, `payment_webhook`, the gateway | checkout, settle, refund, webhook, reconcile | webhooks lost, repeated, reordered; answers lost; crashes between gateway and commit | paid at most once, late money returned, a refund ends unless its notice came too early |
| Settings (`operationsService`) | `hotel_settings` | save with version | currency check against rows created without a lock | currency fixed once there is money in it |
| Guest requests (`reservationRequestService`) | `reservation_request` | create, review | reads online payments unlocked | reviewed once; approval never strands a payment |
| Sessions (`auth`, `sessionService`, `userController`) | `web_session`, `user.auth_version` | log in, resolve, revoke, change password | login racing a change of password or role | nothing issued before the change works after it |
| User administration (`userAdministrationService`, `customerAccountService`) | `user` | edit role, activate | two administrators demoted at once | there is always an active administrator |
| MFA (`mfaService`) | `user_mfa`, `mfa_challenge`, `mfa_recovery_code` | challenge, enrol, verify, renew, disable | attempt budgets over concurrent challenges | a code is accepted once; budgets hold |
| Invitations and recovery (`invitations`, `passwordRecovery`) | `user_invitation`, `password_reset` | create, accept, reset | lock order against advisory locks | a link works once |
| Mail outbox (`mailService`, `securityRetentionService`) | `email_outbox` | enqueue, deliver, retry, scrub | crash between sending and commit | delivered at least once or given up after eight attempts |
| Lifecycle (`periodicWorker`, `shutdown`, `config/database`) | timers, pool, `isConnected` | tick, stop, drain, close | timeout against a job that does not end; handlers whose client hung up | no overlapping jobs; database closed under no job and no transaction |
| Migrations (`database/migrations.js`) | `schema_migrations` | migrate | two runners, crash between files | each file once and in order |
| Backups (`database/backup`) | sets, `latest.json`, `status.json` | dump, verify, copy, prune | failure at any command | a good set is never pruned for a bad one |
| Guests, room types, rooms (`clientController`, `roomTypeController`, `customerAccountService`) | `client`, `room_type`, `room`, `user` | create, edit, deactivate, open an account | most calls read in one statement and write in another | what is deactivated stays so; the portal only for active guests |
| Configuration and start (`environment`, `runtimeSettings`, `server`, `app`) | the exported configuration | read, check, override, start | two modules with their own defaults and parsers | a process that listens does what its environment asks for |
| Frontend lists and reports (`useTableList`, `reports`, `dashboard`) | rows, page, version | load, filter, export | answers out of order, pages read at different moments | what is shown answers the last question, whole |
| Frontend session (`stores/auth`, `services/api`, route guards, login) | user and CSRF token of each tab | sign in, restore, sign out, expire | tabs share a cookie, late answers | nothing is done in another's name |
| Desk pages (reservation, payment, guest, rooms, settings, team, requests) | the stores' current record, drafts, dialogs | open, edit, confirm, retry | lost answers, repeated requests, late reads, others' changes | told as done means done once; what is done is what was shown |
| Guest booking page (`portal/book.vue`) | dates, quote | search, choose, confirm | prices and rooms change after the quote | the guest is charged what was shown |

Rate limiting, the API description, the audit log and the presentation keep no state
another component depends on; section 14 says why they are left out.

On the server the components meet in the database only. A request is one transaction
(`config/database.js`, `transaction`), at PostgreSQL's default isolation READ
COMMITTED: each statement sees what has committed when it starts, and a row read
`FOR UPDATE` makes the others wait until COMMIT or ROLLBACK. Stays and rooms share
rows with billing: both lock `reservation`, and only stays lock `room` before it.

## 2. Plan

Written, in this order:

1. `Stays`, its abstract specification `BookingLedger`, and `StaysProofs`.
2. `Billing` and `BillingProofs`.
3. `OnlinePayments`, its abstract specification `CardLedger`, and
   `OnlinePaymentsProofs`.
4. What else the server does with shared rows: `Settings`, `GuestRequests`,
   `Catalogue`, `Sessions`, `Mfa`, `Invitations`, `PasswordResets`, `Outbox`.
5. The process and its surroundings: `Configuration`, `Connection`, `Lifecycle`,
   `Migrations`, `Backups`.
6. The screens: `TableList`, `ListBoard`, `BookingForm`, `PaymentForm`, `GuestBooking`,
   `Reports`, `Occupancy`, `Dashboard`.
7. The pages that change something: `PaymentDesk`, `ClientFile`, `FrontSession`,
   `StayDesk`, `RoomsDesk`, `SettingsPage`, `TeamPage`, `RequestsDesk`.

8. `OfficeProofs` and `AccountsProofs`, about the modules of steps 4 and 5.
9. `ScreensProofs`, about the modules of step 6.
10. `PagesProofs` and `DesksProofs`, about the modules of step 7.

No module declares a RECURSIVE operator. Compositions declare as constants whatever
their parts take, so that the theorems are about all values of them; only the instances
for what must end, and for the reservations and the exports below, are fixed.

## 3. Stays

`Stays.tla` models the transactions on `reservation`, `room`, `check_in_log` and
`housekeeping_task`.

**State.** `stay`, `status`, `log`, `task` are the tables; `day` is `CURRENT_DATE`
in the hotel's zone; `tx[w]` is the request worker `w` is serving: how far it is
(`step`), the room and row it is about, and *what it has read* (`saw`: room status
when the room was locked; `was`: status of the reservation when it was locked;
`today`: date at BEGIN). The code decides on those copies, and so does the model,
so a missing lock would show as a stale value. `edited` is a history variable: the
rooms an employee's hand edit has written.

**Steps.** A transaction is split where it can wait or where it uses something
read earlier: the unlocked snapshot (`Begin`), the room lock (`LockRoom`), the
reservation lock (`LockStay`), the availability check (`CheckBook`, `CheckUpdate`),
and the writes with COMMIT (`CreateStay`, `UpdateStay`, `CancelStay`, `CheckIn`,
`CheckOut`, `CreateTask`, `CompleteTask`, `EditRoom`). The writes of a transaction
become visible together, so they are one step, `syncReservationStatus` and the
triggers included. `Rollback` may happen at any point: a refused guard, a failed
statement, a lost connection, a crash of the process. `Midnight` moves the date.

| Action | Code |
|---|---|
| `BeginBook`, `CheckBook`, `CreateStay` | `reservationController.create`, `portalBookingService.create` |
| `BeginStay`, `LockRoom`, `LockStay` | `reservationLock` |
| `CheckUpdate`, `UpdateStay` / `CancelStay` | `reservationService.update` / `cancel` |
| `CheckIn`, `CheckOut` | `checkInController` |
| `CreateTask`, `CompleteTask` | `operationsService.createTask`, `updateTask` |
| `BeginEdit`, `EditRoom` | `roomController.update`, `updateStatus` |
| `SetRoomStatus` | every write of `room.status`, with trigger `hotel_room_ready` |
| `SyncedStatus` | `Room.syncReservationStatus` |
| `ExclusionHolds` | constraint `reservation_no_room_overlap` |

**Left out.** Amounts (in `Billing`), guests and their data, room types (an inactive
type only refuses a booking), updates of a task that leave it open, creation of
rooms (all start `available`).

**What is checked.**

| Run | Hotel | Shows |
|---|---|---|
| `stays_nights` | 1 room, 2 stays, 1 staff task, days 0 to 2 (two possible nights) | the inductive invariant `IInv`, which contains `TypeOK`; `NoSharedNight`; `ExclusionNeverFires`: the lock alone suffices, the constraint is only a second net; `ReadyRoomHasNoOpenTask`, also under stale hand edits; `NoArrivalBeforeCleaning`; `ImplementsLedger`: the split transactions implement `BookingLedger` |
| `stays_edit` | 1 room, 1 stay | *violated*: see Findings |

Bounds. Two workers give every pair of requests in every interleaving; a third
would have to wait for a lock that the second already waits for. One room is
enough for the safety of a room, since no statement of these transactions reads
two rooms; the proofs cover any number. `MaxDay` bounds the dates: two nights let
stays be apart, adjacent, nested and overlapping. The constraint `ShortOrUndisturbed`
keeps two questions apart: many nights, or staff tasks and hand edits with all stays
within the first night; the tasks of check-outs always exist. Workers and
reservations are interchangeable and used as symmetry sets. Deadlock is checked in
both runs: a transaction never waits for one that waits for it (room before
reservation).

**Fairness.** None is assumed: the properties are safety properties, and
`BookingLedger` promises no progress. The code promises no answer under an endless
queue for a row.

## 4. Billing

`Billing.tla` models the transactions on `payment`, `cash_shift`, `cash_movement`,
`payment_receipt`, and the two fields of `reservation` they depend on: whether it is
cancelled, and `total_price`. Amounts are whole cents, and what has been paid is the
number of cents collected: a set of pairs of a payment and a cent of it, so that a sum
is a cardinality and needs no recursion.

**State.** The tables, with in `shift[s]` also the two sets of movements that the two
sums of `closeShift` were computed from (`totals`, grouped by method, is an earlier
statement than `counted`, which gives `expected_amount`); `tx[w]` as in `Stays`, with
the reservation (`row`) and the payment (`paid`) as they were when locked.

**Steps.** `withPayment`: snapshot (`BeginPayment`), reservation (`LockStay`), payment
(`LockPayment`), the checks of `paymentService` (`Check`), then, for a completion or
a refund, the employee's open shift inside the trigger (`LockOwnShift`), and the
write (`AmendPayment`, `MarkPayment`, `CompletePayment`, `RefundPayment`). `create`
and the changes of price and cancellation of `reservationService` lock only the
reservation here. `closeShift` is `LockShift`, `ShiftTotals`, `CloseShift`.

**Left out.** The room lock of `reservationService` (in `Stays`); payments owned by
the gateway, which `withPayment` refuses (in `OnlinePayments`); currency and
payment method; which employee may close another's shift; the sign of a refund's
movement, which its kind says. A reservation is "confirmed" here as long as it is
not cancelled.

| Run | Hotel | Shows |
|---|---|---|
| `billing_shifts` | 2 employees, 2 shifts, 1 reservation of at most 2 cents, 2 payments | `NeverOvercharged`, `BooksMatch`, `ClosedShiftComplete`, and the inductive invariant `BalanceInv`: `IInv`, which contains `TypeOK` and that a cancelled stay has no live charge, and that what a request compared with the price stays enough until it commits |

Bounds. Two payments are the least that can overcharge, and a price of two cents
lets them fit together, fit alone, or not fit. Two shifts let one be closed while
the other is opened by the same or another employee. The constraint `OneShiftOrOnes`
keeps the two questions apart: either at most one shift is ever opened, or there is
at most one payment and every amount is one cent. The ids a sequence hands out
are finite; when they are used up nothing more is created.

## 5. Online payments

`OnlinePayments.tla` models `onlinePaymentService` with the Stripe provider: the
hotel's tables, the gateway, and the messages between them. `CardLedger.tla` says
what it promises: the money of a checkout is in one place (unpaid, held, booked,
owed, returned), moves only forward, and is neither undecided nor owed for ever.

**State.** `stay` is the reservation: cancelled or not, price, and what the desk has
collected (module `Billing`, here one number). `online` is `online_payment` joined to
the payment it created; `refund` says that `provider_refund` is saved, `due` that
`expires_at` has passed. `gateway` is the session and the refund of each checkout at
Stripe, with what the first `refunds.create` was answered (`answer`). `event` holds the events sent so far and never shrinks: each may be
delivered at any time, any number of times, in any order, or never. `seen` is
`payment_webhook`. `tx[w]` is the request a worker serves, `job` the pass of
`reconcile`, whose worker is `Job`.

**Steps.** The code is a chain of short transactions and gateway calls, and a step
ends where one of them does:

| Action | Code |
|---|---|
| `BeginCreate`, `LockStay`, `OpenSession`, `SaveCheckout` | `create`: row lock, gateway session, commit |
| `LockStay`, `SettleBook`, `SettleLate`, `SettleAgain` | `settle`: booked; late, to be refunded; settled before |
| `BeginRefund`, `CallRefund`, `SaveRefund` | `refund`: committed as pending, `refunds.create`, id saved |
| `LockStay`, `FinishRefund`, `FinishAgain` | `finishRefund` |
| `ReceiveEvent`, `HandlePaid`, `HandleExpired`, `HandleRefunded`, `RecordEvent` | `handleEvent`: check, effect, record, each on its own |
| `JobStart`, `JobRefund`, `JobSessions`, `JobRetrieve`, `JobEnd` | `reconcile`, which calls `refund` and `settle` |
| `Fail` | any exception, lost answer or crash; the pass of the job ends with it |
| `GuestPays`, `SessionExpires`, `RefundSucceeds`, `BecomesDue` | the gateway and the clock (external) |
| `DeskStep` | `paymentService`, `reservationService`: each locks the reservation throughout, so it is one step that waits for the lock |

`LockStay` keeps the row of the reservation as read under the lock; the balance and
the row of the checkout are read later, within the step that uses them, as in the code.

**Left out.** The demo provider; currencies and amounts that do not match (refused);
refunds made outside the hotel; the mail of a refund; `LIMIT 10` of the job; a stay
that is checked out.

**The gateway's keys.** Every `refunds.create` of a checkout carries the same
idempotency key (`onlinePaymentService.js:76`), and the gateway replays the answer it
gave first. A refund answered "succeeded" is finished by whoever calls again. One
answered "pending" is answered so for ever: the job calls in vain, and only
`refund.updated` can finish it. If that is handled before the refund's id is saved
(`provider_refund`), it finds no row, is recorded, and the checkout stays
`refund_pending` although the money was returned. `RefundsEnd` says that this is the
only way a refund stays so (`HandledEarly`); section 13 lists it. That the gateway keeps a key
for as long as the refund is pending is assumed: Stripe drops it after a day or more, and
refuses a second refund of the same money, which is then the case of `online_refused`.

| Run | Instance | Shows |
|---|---|---|
| `online_gateway` | 2 workers and the job, 1 reservation at 1 or 2 cents, 2 checkouts | `MoneyAccounted`, `RecordedMeansSettled`, `NeverOvercharged`, and the inductive invariant `IInv`, which contains `TypeOK`, one pending checkout and one booking of each |
| `online_ends` | 1 worker and the job, 1 checkout, price of 1 cent, fairness | `RefundsEnd`: by the job alone unless the gateway's answer was "pending", else by `refund.updated`; `ImplementsCardLedger`, its liveness included |
| `online_refused` | 2 checkouts, one whose refund the gateway refuses | *violated*: see Findings |

Bounds. Two checkouts are the least that can be pending together or collect too much;
what happens after a refund concerns one checkout. The constraint `OneCheckoutOrGuests`
of `online_gateway` says so: the second checkout is unused, or the job is idle and
nothing is refunded. Two workers and the job give any two deliveries, or a delivery and
an employee, against the job. The amounts distinguish deposit, balance and nothing left.
A checkout's id is used once, so creation ends when the ids do. Where a lost session
makes that happen the hotel simply has none to offer; deadlock is still checked, for
the job always goes on.

**Fairness** (`FairSpec`). A request ends, well or badly (`WF` of `Goes \/ Fail`):
statements and gateway calls have timeouts or break. The job is started again by
`periodicWorker` (`server.js:16`). A step of the job that is tried again and again
works in the end (`SF`): it may fail any number of times, but not always; for the
wait on the reservation's row this is `GetsLock`, since PostgreSQL queues row locks
and `config/database.js` sets no `lock_timeout`. `RefundSucceeds` and `BecomesDue`
are the gateway's and the clock's. Nothing is assumed of webhooks, of employees, or
of guests: what ends, ends because of the job alone. Only the second part of
`RefundsEnd` has a premise of its own (`Redelivered`): Stripe sends `refund.updated`
again until it is answered (`app.js:52-58` answers an exception with an error), and from
some time on no delivery is cut short. `online_refused` keeps the
fairness of the job, drops nothing from it, and restricts the behaviours to those
where no webhook comes and the job fails only at the refused call (`Undelivered`).

## 6. Runs of several components

The components below do not share rows with each other, so one run checks several of
them: a behaviour begins with the choice of a *part*, sets that part's variables by the
component's `Init`, and then takes only that component's steps; the variables of the
others stay `None`. Each property says for each part what it means there
(`part = "mail" => O!DuplicatesExplained`), and each component's `TypeOK` is among
them. TLC thus explores the union of the parts' state spaces, not their product. What
belongs together is composed in one module: `GuestRequests` has the review, the desk,
the portal and the payments on the same stays; `PaymentDesk` and the other pages of
section 10 have the page, its store, the API client and the endpoint.

| Run | Parts | States | Minutes |
|---|---|---|---|
| `office` (`MCOffice`) | settings, reviews, nights, mail, migrations, backups, catalogue, start | 1.8 million | 2.5 |
| `accounts` (`MCAccounts`) | accounts, passwords, first, codes, factors, invitations, resets | 1.2 million | 2.5 |
| `ends` (`MCAccounts`) | invitations, resets, mail, shutdown, connection | 50 thousand | 2 |
| `screens` (`MCScreens`) | list, booking, payment, report, board, guest, occupancy, dashboard | 0.6 million | 2.5 |
| `desks` (`MCDesks`) | payment, file, tabs, factor, stays, rooms, settings, team, requests, and smaller instances "... ends" of five of them | 0.8 million | 2.5 |

A run with liveness uses no symmetry and checks smaller instances for it. The constraint
`Narrow` of `MCOffice` and of `MCAccounts` bounds the parts that share constants: a
component may be explored several times, each time with one of its dimensions narrow.
`MCAccounts` adds the mail, the shutdown and the connection only to `FairSpec`. `office`,
`ends`, `screens` and `desks` do not check deadlock: the process exits, a migration is
done, a page is left, a bound is reached.

Steps are split as in the first three modules: where a transaction can wait, where it
commits, where a request is answered. A crash, a failed statement or a lost connection
is the action that drops what a request had not committed.

## 7. The back office (`office`)

| Module, part | State and steps | Checked | Bounds |
|---|---|---|---|
| `Settings`, "settings" | the row with its version; pages opened before; bookings with the currency of their price (a ghost) | `PortalCurrencyKept`, `CheckoutInHotelCurrency`, `NoLostUpdate` | 2 administrators, 2 currencies, 2 texts, 1 reservation, 1 employee, 3 versions |
| `GuestRequests`, "reviews" and "nights" | requests, stays, payments; `review` at each lock, after its checks and at COMMIT; who takes the same locks to its end is one step | `PriceCoversPayments`, `OneDecision`, `ArrivedKeepsStay`; `NightsApart` | by `Narrow`: 2 reviewers, 1 stay, 2 requests; or 1 review at a time, 2 stays, 1 request; 2 nights |
| `Outbox`, "mail" | `email_outbox`, each worker's claim; sending inside the transaction; crash, failed commit, lost SMTP answer (counted in `faults`, as is a rejection of a mail that can be sent); retry; retention | `DuplicatesExplained`, `SentMeansDelivered`, `RedactedStays` | 2 processes, 2 mails, 2 attempts instead of 8, 1 fault, 1 retry |
| `Migrations`, "migrations" | `schema_migrations` and, as a ghost, what was executed; runners with directories of their own, the session lock, a crash at any step | `ExecutedOnce`, `OrderOfNames`, `NothingOnMismatch` | 2 runners, 3 files, 2 contents |
| `Backups`, "backups" | the sets here and on the external disk, `latest.json`, `status.json`, the lock; failure, signal and kill at any command; damage of a set | `LatestIsThere`, `OnlyFinishedRunsPrune`, `DamagedKept` | 2 shells, 3 runs |
| `Catalogue`, "catalogue" | guests, room types, rooms, guests' accounts, portal bookings; reads and writes of a call apart | `DeactivatedStays`, `PortalForActiveGuests` | 2 requests, 2 keys, 2 values, 2 rows, 3 calls |
| `Configuration`, "start" | the environment, what both modules read from it, what the process exports and uses | `RunsAsConfigured` | the default environment with `NODE_ENV` and the variables of one group changed; 0, 1, 4 and 101 stand for the numbers |

Two of everything that competes is enough for each of these: a lock or a check is
between two requests, and what a third would add is another wait for the same row.
Three migrations let a runner stop between two of them; three backups let one be
pruned while another is written.

`Configuration` models the two modules as they are: `config/environment.js` and
`config/runtimeSettings.js` have parsers and defaults of their own, and part of the
program reads `process.env` directly. `RunsAsConfigured` says what a process that
listens uses. The numbers of the pool stand for all the numbers, which are read and
checked alike.

## 8. Who is let in (`accounts`)

| Module, part | State and steps | Checked | Bounds |
|---|---|---|---|
| `Sessions`, "accounts", "passwords", "first" | `user` with `auth_version`, `web_session`; a login reads the account, compares, and inserts the session later; a request resolves the session, reads the account, compares, and acts later; edits under the advisory lock 724001; `create-admin` | `AcceptedSessionIsCurrent`, `AdministratorRemains`, `DeactivationEndsSessions`; `FirstAdministratorOnce` | 2 sessions, 2 passwords; by `Narrow`: 2 browsers and 2 accounts changed once, or 1 account with 3 versions, or 3 accounts with 1 browser and 2 scripts |
| `Mfa`, "codes" and "factors" | `user_mfa`, `mfa_challenge`, recovery codes of one account; opening and trying split between checks and COMMIT; a code is a secret, a kind and a number | `BudgetKept`, `CodeOnce`; `EnrolledMeansVerified`, `ChangeNeedsProof` | by `Narrow`: 3 challenges with 2 attempts each, 3 in all, 2 pending, 1 secret; or 1 challenge over 2 secrets and 2 time steps |
| `Invitations`, "invitations" | `user_invitation`, `user`, the guest's file; row locks and the advisory lock of the address in the code's two orders, with PostgreSQL's deadlock detection (`Abort`) | `LinkOpensOne`, `OnlyNewestLink`, `NoAccountForInactive` | 2 requests, 2 addresses, each account in either spelling, 1 guest, 2 invitations |
| `PasswordResets`, "resets" | `password_reset`, the account's lock; `now()` as of BEGIN | `LinkUsedOnce`, `OneLinkAMinute`, `OnlyNewestResets` | 2 requests, 1 account, 3 links |

Deadlock is checked in this run. What the properties rest on is not a single guard: an
accepted session is current because the version is compared after the session is
resolved and every change raises it; an administrator remains because the count is
made under the lock that every edit takes first; a code works once because the
attempt, its count and the mark of its use are one transaction under the account's
lock.

## 9. What must end (`ends`)

| Property | Part | Fairness, and why |
|---|---|---|
| `RequestsEnd` | invitations, resets | `SF` of a request's steps: row and advisory locks are queued by PostgreSQL; `WF` of `Abort`, which is `deadlock_timeout`: a creation and an acceptance of one address take their locks in opposite orders, and PostgreSQL aborts one of them. No other requests wait for each other. `PasswordResets` has no `Abort`: asking for a link and using one both lock the account first, and a request that took the link first would make the property false |
| `MailsSettle` | mail | `WF` of `Deliver` and `BecomeDue`: the worker ticks, and time passes; the faults of `Outbox` are bounded |
| `ShutdownEnds` | shutdown | `WF` of `Timeout` alone: nothing is assumed of requests or jobs |
| `ConnectionRecovers` | connection | `WF` of the probes (`Health`), of the periodic check and of the statements of requests in progress, which are assumed to end |

`Lifecycle` is the process: the jobs start after the server listens, run one at a time,
and on a signal are stopped and waited for before the pool is closed. `server.close`
(`shutdown.js:9`) waits for connections, not for handlers, so the handler of a request
whose client has hung up (`HangUp`) goes on. `pool.end` gives no client any more and
waits for those in use. `PoolOutlivesUse` says what follows: the pool does not close
under a job or under a request whose client waits, and an orderly exit cuts no
transaction short. It does not say that every handler comes to its end: without a
client of the pool, the one of a client that hung up is refused the next or is cut by the
exit between two transactions, which for a payment is the crash of `OnlinePayments`
(`Fail`). After the timeout everything is cut. `StoppedStaysStopped` and
`PoolOutlivesUse` are checked with `ShutdownEnds`; three jobs and two requests give
each order of ends, and the timeout may come at any moment.

`Connection` is the flag `isConnected`, the checks that write it late, and the clients
of the pool. `ConnectionRecovers` says two things of it: once the database stays
reachable, the API is available again and again; and it *stays* available if from some
time on a client is spare. The second needs its condition: with every client of the
pool in use a check waits for one, times out after `connectionTimeoutMillis`, and
lowers the flag although the database answers; queries fail at once until the next
check. The client of a check is taken and given back in one step. One client
(`PoolMax`) is the least that can be exhausted, and two requests the least that wait.

## 10. The frontend (`screens` and `desks`)

In all of these a request and its answer are two steps, answers come in any order, an
answer may be lost, and the API client (`services/api.ts`, `$fetch` with `retry: 1`)
sends every request that does not say `retry: 0`, a POST too, once more when its answer
is lost or is one of the statuses `ofetch` repeats, a conflict among them. A watcher's
callback runs in the flush that follows the change, before the browser handles anything
else: the change and its callback are one step. `WF` of `Handled(k)` is the only fairness: every request is answered or fails, and the callback
runs; nothing is assumed of the user.

`screens`, what is shown and what is sent:

| Module, part | What is hard | Checked | Bounds |
|---|---|---|---|
| `TableList`, "list" | the version counter against answers out of order; the number of pages changes on the server | `ShowsWhatIsAsked`, `RestsOnAPage`, `NothingAfterUnmount` | 2 filters, 2 pages, 4 events |
| `ListBoard`, "board" | a list that loads behind a dialog that saves | `ShowsWhatWasSaved`, `SavesWhatIsOpen` | 2 filters, 1 record, 2 saves |
| `BookingForm`, "booking" | free rooms of dates that have changed; a booking sent twice | `OfferedOnly`, `BookedOnce` | 2 stays, 2 rooms, 2 edits, 2 submissions |
| `PaymentForm`, "payment" | the balance of another reservation; an amount typed before it is known | `WithinBalanceRead`, `RecordedTwiceAtMost` | 2 reservations with 2 to pay, 3 choices, 2 submissions |
| `GuestBooking`, "guest" | the price, the currency or the room change after the quote; the page's initialisation runs twice | `QuoteIsForTheseDates`, `BookedAsShown` | 2 stays, 2 rooms, 2 prices, 2 currencies |
| `Reports`, "report" | three questions at once, and an export page by page while payments change | `ShowsWhatIsAsked`, `Coherent`, `FiguresAgree`, `NothingSkipped` | 2 methods, 2 payments, pages of 1 |
| `Occupancy`, "occupancy" | the rooms page after page beside a summary counted at another moment; the table, its filter and the file made of it | `EveryRoomThere`, `FiguresAgree`, `NoEmptyPage` | 3 rooms, pages of 2 |
| `Dashboard`, "dashboard" | five loads into stores that outlive the page | `FiguresOfThisVisit` | one of the shared loads and the visit's own, 2 visits |

`ScreensSettle`: no spinner stays, in the list, the board, the booking form, the guest's
page, the occupancy report and the dashboard. The payment form and the payments report
are left out of it: their state spaces are too large for the liveness check.
`RecordedTwiceAtMost` and not "once": POST of a payment has no key, so a click whose
answer is lost is recorded twice, both pending, and the balance check of `Billing`
stops the second from being collected in excess.

`desks`, the pages that act on a record:

| Module, part | What is hard | Bounds |
|---|---|---|
| `PaymentDesk`, "payment" | the store's current payment replaced by a read an earlier page began | 2 payments, 2 visits, 2 clicks, 1 change by others |
| `ClientFile`, "file" | the route's guest and the store's; the draft and its guards | 2 guests, 1 draft, 2 visits |
| `ClientFile`, "history" | the guest's reservations, read page after page while others are made and moved | 2 guests, 3 reservations, pages of 1, 1 moved |
| `StayDesk`, "stays" | a click is a chain of requests, each repeated once | 2 reservations, 2 clicks, 1 change by others |
| `RoomsDesk`, "rooms" | PUT reads the room, fills in what was not sent, writes all | 1 room, 2 numbers, 1 change by others |
| `SettingsPage`, "settings" | two drafts, versions, late loads | 2 texts, 2 visits, 2 loads, 1 save by others |
| `SettingsPage`, "exports" | exports kept in the browser, the oldest dropped; the tab is left while one is made | 2 exports, 1 kept (10 in the code), 2 visits |
| `TeamPage`, "team" | one dialog for every save; a question that outlives its answer | 2 users, 2 calls, 1 change by others |
| `RequestsDesk`, "requests" | one flag guards a page whose helper is no lock | 2 requests, 2 prices, 3 acts |
| `FrontSession`, "tabs" | tabs share the cookie but not the user and the CSRF token; a late 401 | 2 tabs, 2 users, 2 sessions, 3 calls |
| `FrontSession`, "factor" | the second factor and addresses typed by hand; also for what must end | 1 tab, 2 users, one with a second factor, 4 calls |

`ToldIsDone`: a success is told only for what this click changed, once, and the lists
read after it are no older. `ActsAsShown`: what is changed is what was on the screen, by
the user on the screen. Where the code does not promise that (the file of a guest and
the page of a reservation act on the route's id while the record shown may still be the
previous one) the property is not claimed, and section 13 says so. `DraftsKept`: what
was typed goes only when the user agrees or it is saved. `DesksSettle`: every click is
answered, checked on the smaller "... ends" instances and the small parts. It also holds
`ExportsKept` (an export told as made stays in the list of the browser until it is
deleted or pushed out) and `HistoryWhole` (the page of a guest shows every reservation
there was when it was opened, and of nobody else, or tells that it does not; one moved
to other days meanwhile can make another one be skipped, and one made meanwhile can be
shown twice), and checks the claims of the tabs on the instance with a second factor, which
the theorems cover for any number of tabs.

## 11. Proofs

TLAPS proves the following for every value of the constants; the assumptions are only
the named ones of the modules, which TLC evaluates on the instances of the runs. They
say that absent values differ from present ones (`NoneAssumption`, `NamesAssumption`),
that bounds, prices and versions are numbers, that the job is not a request, that the
sets whose elements are counted (payments, checkouts, challenges, accounts) are finite,
and that what the database starts with is one of its values (`FirstAssumption`).
`MCDesks` asks the same of its constants (`PaymentAssumption` and the seven like it).

| Module | Component | Theorems | Inductive invariant |
|---|---|---|---|
| `StaysProofs` | `Stays` | `Invariant`, `TypeCorrect`, `NightsUnique`, `LockMakesCheckConclusive`, `ReadyRooms`, `OneGuest`, `AvailableRooms`, `CleanArrivals`, `Refinement` | `IInv` |
| `BillingProofs` | `Billing` | `Invariant`, `TypeCorrect`, `Books`, `ClosedShifts`, `LiveCharges`, `Settled`, `Balance`, `Overcharge` | `IInv`, `BalanceInv` |
| `OnlinePaymentsProofs` | `OnlinePayments` | `Invariant`, `Accounted`, `OnePending`, `Recorded`, `Booked`, `Refinement`, `Overcharge` | `IInv` |
| `OfficeProofs` | `Settings` | `SettingsCurrency`, `SettingsSeen`, `Currency` | `SInv` |
| | `GuestRequests` | `RequestsHold`, `RequestsDecided`, `Approved` | `RInv` |
| | `Migrations`, `Configuration` | `Deployed`, `DeployedMatched`, `Started`, `InOrder` | `DInv`, `GInv` |
| | `Outbox` | `Delivered`, `Redactions`, `Mail` | `OInv` |
| | `Backups`, `Catalogue` | `BackedUp`, `BackupsPruned`, `Catalogued`, `Latest` | `BInv`, `CInv` |
| | all of them | `Kept` | |
| `AccountsProofs` | `Sessions` | `SessionsAreCurrent`, `Current`, `Administrators` | `UInv` |
| | `Mfa` | `Verified`, `Budget`, `Codes` | `MInv` |
| | `Invitations` | `InvitedOnce`, `InvitedCurrently` | `IInv` |
| | `PasswordResets` | `ResetsHold`, `ResetsNewest` | `PInv` |
| | both of these | `Links`, `NewestLinks` | `LinksInv` |
| `ScreensProofs` | `TableList`, `ListBoard`, `BookingForm`, `PaymentForm`, `GuestBooking`, `Reports`, `Dashboard` | `Shown`, `Sent`, `LateAnswers` | `ListInv`, `BoardInv`, `BookingInv`, `PaymentInv`, `GuestInv`, `ReportInv`, `DashboardInv` |
| `PagesProofs` | `PaymentDesk`, `StayDesk`, `RoomsDesk`, `TeamPage` | the lemmas for `DesksProofs` | `PayInv`, `StayInv`, `RoomInv`, `TeamInv` |
| `DesksProofs` | `RequestsDesk`, `SettingsPage`, `FrontSession`, `ClientFile`, and all of these | `Told`, `Acts`, `Typed` | `RequestInv`, `SettingsInv`, `FrontInv`, `FileInv`, `DesksInv` |

### The argument

The properties speak of committed rows, but a step writes what a request decided
earlier, so they are not inductive. Every inductive invariant adds what ties a request
to the tables, in the same four parts:

- the *shape* of what a request carries at each of its steps (`RequestShape`,
  `ReviewKnown`, `PostKnown`, `CallKnown`, `RequestsKnown`, `StepOK`);
- *alone*: no two requests hold one row, and every writer holds the rows it writes
  (`LocksExclusive`, `WriterAlone`, `ReviewAlone`, `AccountAlone`, `RowAlone`,
  `EditAlone`, `LoginAlone`);
- *fresh*: what was read under a lock is still so;
- *conclusive*: so what a check established still holds when the request writes
  (`CheckConclusive`, `SaveConclusive`, `ReviewConclusive`, `ResetConclusive`,
  `GuestConclusive`, `BalanceConclusive`);

and facts about the rows alone that the writes need (`StayOK`, `RoomOK`, `Disjoint`,
`PendingNewest`, `OpenedOnce`, `MadeOnce`).

`Stays`: the hand edit holds no lock before its write, which is why `RoomOK` claims
occupancy and availability only for rooms outside `edited`, while the claim about
unfinished tasks needs no such exception: the trigger enforces it on every write. The
refinement maps the book to `stay`: only commits change it, and each commit is one
action of the ledger, whose `Taken` is empty on the promised nights by
`CheckConclusive`.

`Billing`: the price is about a sum over a set of payments. What has been collected is
the cardinality of a set of cents (`Cents`), so that adding a payment adds a finite set
disjoint from the others, which the theorems about finite sets cover; no induction is
needed. `BalanceConclusive` says that the sum a request has compared with the price
stays enough until it commits, because only it may change the payments of a reservation
it has locked. `OnlinePayments` has the same argument for `Overcharge`.

`OnlinePayments`: most rows are written without the reservation's lock, and what a
request in progress relies on is what no step takes back: a session that is paid stays
paid, a checkout owed stays owed, a refund that succeeded stays so (`Grows`).
`RequestOK` says, for each step of a request, which of these it has established; only
what is read under the lock needs `StayUnlocked`. The lemmas are one for the rows of
`online_payment` (`RowStep`), one for the rows of the gateway (`GatewayStep`), and one
for each part of a request's life. For the refinement, a step changes one checkout on
one side only (`OneRow`), and with the invariant before and after it that leaves only
the ledger's moves (`MoneyMoves`).

`Settings`: whoever is about to write the row is alone with it, and a currency that is
about to change finds nothing priced in the portal (`SaveConclusive`); a booking of the
portal has compared its currency under the same lock (`PricesConclusive`). Bookings by
the staff hold no lock, and nothing is claimed of their currency.

`GuestRequests`: `ReviewConclusive` is what the review read under its three locks. A
refund may still begin meanwhile (Findings), and the proof shows why that does no harm
to the price: what was booked stays counted in `paid` until the refund is finished,
which needs the reservation's lock (`BookedPaid`).

`Migrations`: whatever was executed is the history, file by file (`schema = history`),
its names increase, and a runner about to apply a file holds the lock and has seen the
history end before it (`RunHolds`). `Configuration`: what was checked is what is
exported; the environments tried are the default with one group of variables changed.

`Outbox`: the number of copies is bounded by the faults. `HeldOK` says it for a mail in
a worker's transaction, where the copy may be out and the row not yet marked, and
`FreeOK` for the others. `Backups`: `latest.json` names a set that is there, and a run
in the phases that remove old sets is the one it names (`Late`); `PhaseOK` says for each
phase of a run what is already on both disks. `Catalogue`: `StepOK` says what a call
has read that is still so: the rows that matter are locked (the guest's while an account
is made, the guest's and the type's while the portal books), and ids only grow.

`Invitations`: a link opens one account because `RowAlone`, because an invitation that
was accepted, replaced or revoked never becomes pending again, and because the pending
one of an address is the newest (`PendingNewest`). The two lock orders may deadlock,
which `Abort` ends; safety does not depend on it. `PasswordResets`: the open link is the
newest of its account (`OpenNewest`).

`Sessions`: a session remembers the version of its account, and equal versions mean the
same password and role (`SessionsSeen`); an edit is alone (`EditAlone`) and its count of
administrators holds until it commits (`CheckConclusive`). `Mfa`: a login holds the
account's lock from its checks to its commit (`LoginAlone`), and the budget is over all
live challenges, so the proof counts the attempts as a set (`AttemptsOf`), as above.

The screens hold no locks, and their invariants say instead what is *on its way*. Of the
questions that carry the current version each asks for what the controls show, so an
answer that is taken shows it, and every older one is dropped (`NewestAsks` of the list,
`RoomsAwaited`, `ReportAsks`); after a list is gone its version has moved on and no timer
is left (`GoneIsQuiet`), which is `LateAnswers`. `BookingForm`: once a submission is
booked its room is no longer free for those dates, so the repetition of the POST books
nothing. `PaymentForm`: what was recorded for a submission and the repetitions it has
left add up to two at most (`RecordedSoFar`). `ListBoard`: what the newest load has read
is no older than the last save that was told (`ReadsAreLate`), since telling it begins
another load. `GuestBooking`: a search that is still the newest is of the dates on the
screen (`SearchFits`), and the summary on its way to the server is one that was
confirmed, which the server compares with its own before it books. `Reports`: a load on
the screen has its own version, and the export, a record of its own, has one question at
most. `Dashboard`: the stores outlive the page, and a figure is of this visit only while
no other visit's answers are out (`alone`); `FiguresArrived` says so for each part that
is no longer waited for.

The pages hold no locks either, and their invariants say what each click on its way has
done. A click that has changed its record finds it changed when the request is sent
again, so it changes it once and its repetition is refused (`PayDone`, `DeskDone`,
`FileDone`); what an answer says has been reached and is not taken back
(`PaySeen`, `DeskSeen`). Where a page has one save at a time, the flag that waits is set
for as long as the save is out (`RoomOne`, `TeamOne`, `SettingsFlow`, `FileFlow`), and
the list awaited after a success was asked for later than it (`RoomFresh`, `TeamFine`).
Together they give `ToldIsDone`. `ActsAsShown` is about the tabs of one browser: a tab
shows only the user of its own session, a request carries whom its tab showed, and a
session keeps its owner (`ShowsOwn`, `SentAs`, `AnsweredAs`, `OwnersKept`). `DraftsKept`
is an action property and needs only the flags. The pages are proved one by one in
`PagesProofs` and `DesksProofs`, and `DesksApart` composes them: a step of the run is a
step of the page it began with.

Each proof has a frame lemma (what a step leaves of the others), a lemma per action or
per kind of action, and the theorems by temporal logic. The theorems about the
compositions `MCOffice`, `MCAccounts`, `MCScreens` and `MCDesks` state the properties
that the runs check: a behaviour starts in one part, stays in it (`SOnly` and the like),
and takes that part's steps, which the component's own theorem covers.

### What stays with TLC

All liveness (`RefundsEnd`, the liveness of `CardLedger`, the run `ends`,
`ScreensSettle`, `DesksSettle`) depends on fairness, and ENABLED is beyond the prover.
`ReportsWhole` is about rows sorted and cut into pages, their sums, and an export that
appends page to page: induction over the length of a sequence, which is induction over
data; so are `HistoryWhole` and `ExportsKept`, which `DesksSettle` holds with the
liveness of its run. The three violations in Findings are TLC's counterexamples.

Some theorems state an invariant no run names (`OneGuest`, `AvailableRooms`,
`LiveCharges`, `Settled`, `OnePending`, `Booked`): they follow from the inductive
invariants, which the runs check.

## 12. Findings

`stays_edit`: `EditKeepsGuestIn` is violated. `roomController.update` and
`updateStatus` read the room without a lock, validate the transition on that row and
then write the new status unconditionally; an edit that names no status writes back
the one it read. A check-in that commits in between is overwritten, and an occupied
room becomes `available`, or `reserved` as in TLC's trace, which the controller's own table (`occupied: ['occupied',
'maintenance']`, `roomController.js:170`) forbids. The trigger stops this only when
the room has unfinished tasks. Nights stay safe (availability is decided on
reservations), but the room is shown free and its guest can share it with an early
arrival.

`online_refused`: `DueSessionsReconciled` is violated. `docs/servicios-huesped.md:34`
says that the worker reconciles sessions past their time and retries pending refunds.
`reconcile` tries the refunds first, oldest first, and a refund that throws ends the
pass (`onlinePaymentService.js:105`): while the gateway refuses one refund, no session
past its time is looked at, and a payment whose webhook was lost stays unsettled; the
refunds behind it wait too. `RefundsEnd` is claimed of a gateway that refuses no refund
for ever (`Refused` is empty in `online_ends`); what one that does holds up is this
finding.

`requests_refund`: `NoApprovalDuringCharge` is violated. `docs/servicios-huesped.md:13`
says "No se aprueba mientras exista un checkout o reembolso pendiente." `review` holds
the room, the reservation and the request, and reads `online_payment` without a lock
(`reservationRequestService.js:29`); the first transaction of `refund()` locks only the
online payment and may make it `refund_pending` between that read and the COMMIT of the
review. The price agreed still covers what was paid (`ApprovedStaysHold` in `office`).

## 13. Smaller divergences

Met while modelling, and kept in the models as the code has them. They contradict no
sentence a run could quote, or they concern what the models leave out.

Server:

- `saveSettings` checks that nothing is priced before it changes the currency, but
  bookings by the staff and `openShift` lock nothing it reads: one that commits after
  the check keeps the old currency. `PortalCurrencyKept` is about the portal, which
  compares the currency under the lock.
- `clientController` and `roomTypeController` read a row and update it in another
  statement: an update after a deactivation is told as success, without data. A room may
  be created for a type that was deactivated meanwhile, and the presentation of a type
  is written whether it is active or not.
- A guest's account stays active when the guest is deactivated; `auth` refuses it
  because it also checks `client_active`.
- `POST /users` inserts an account without the advisory lock that accepting an
  invitation takes; the UNIQUE constraint decides.
- `CORS_ORIGIN` has different defaults in `environment.js` (`*` in development) and in
  `runtimeSettings.js` (`*` everywhere but in production).
- With every client of the pool in use a health check times out and lowers
  `isConnected` although the database answers (section 9).
- A refund the gateway answered "pending" and whose `refund.updated` is handled before
  its id is saved stays `refund_pending` (section 5): the event is recorded without
  effect (`onlinePaymentService.js:94-97`), and every later call gets the first answer.
- On a shutdown the request of a client that hung up may be refused a connection or cut
  between two transactions (section 9).
- A killed backup leaves `status.json` at its last state.
- Availability in the portal reads the currency and the rooms in separate statements.

Frontend:

- The edit form of a guest sends the document, which the schema of PUT refuses: the
  edit never succeeds. `ClientFile` has it so.
- `unsavedChanges.ts:3` says that accepting discards the changes; closing the guest's
  dialog by its cross keeps the draft, and leaving the page asks again.
- `clients/[id]` and `reservations/[id]` act on the route's id while they may still show
  the previous record; the guest's access card and the notes box of the arrival keep
  what belonged to the previous guest.
- The stores have no version counter: the last answer wins, not the last question.
- A change whose refresh fails is told as a failure (arrivals, closing a shift), and a
  completion repeated after a lost answer is told as one.
- Arrivals, the dashboard's counts and the pending amount look at the first 100 rows.
  The total spent by a guest includes cancelled reservations.
- The payments report shows answers of three moments. An export filtered by method may
  skip a row when payments change meanwhile; so may the occupancy report when a room
  changes its place.
- `TeamPage`: a save that ends closes the dialog that is open then, and its message
  names the form of that moment; an edit sends `is_active` as when the dialog was opened.
- A 401 that answers a request of an old session signs out the new one.
- `requests.vue` keeps the first price of a request (`??=`), and after a failed load
  under another filter, opening and closing a dialog clears the error while the old
  rows stay.
- If the first load of the settings fails, the disabled fieldset also disables the
  button that would load them again.
- Each tab keeps its own list of exports and writes all of it: of two tabs the last one
  that exports wins.
- `checkin/pending.vue` says "hace más de 2 horas" of every departure whose hour has come.
- `useRooms.createRoom` and `updateRoom` throw the computed error, not the exception.

## 14. Not modelled

- Rate limiting: counters of a library, kept in each process; nothing depends on them.
- The API description, `utils/response`, `utils/helpers`: documents and formatting.
- The audit log: written by triggers in the transaction of the change, and only read.
- Parsing and validation of bodies: a refused request is one that does not begin.
- Reassigning and starting a task: neither changes what a property looks at.
- `restore.sh`, run by hand on a hotel that is down; `Backups` covers that a published
  set can be restored.
- The demo provider of online payments, currencies and amounts that do not match, the
  mail of a refund.
- Lists and searches of users, and statistics: they only read.
- Pages that only show (portal index, help, calendar), notifications, presentation, and
  changing the own password on the page of the settings (`Sessions` has its server side).
- SQL grants, containers and the proxy; the check of the runtime role at the start is in
  `Configuration`.

## 15. Mutants

Every property of a passing run has a mutated definition, marked "Mutant" in the
module and standing before the one it replaces, under which TLC finds the property
violated: a lock not taken, a check dropped, a guest forgotten, a stale answer
accepted, a timer not started. They are not part of any specification. Where a property
of a run with parts is a conjunction over them, the mutant breaks one conjunct.

## 16. Running

    tlc -workers 2 -config Stays_nights.cfg Stays.tla
    tlapm StaysProofs.tla

| cfg | module | about |
|---|---|---|
| `Stays_nights`, `_edit` | `Stays` | a minute; seconds |
| `Billing_shifts` | `Billing` | two minutes |
| `OnlinePayments_gateway`, `_ends`, `_refused` | `OnlinePayments` | seconds to two minutes |
| `GuestRequests_refund` | `GuestRequests` | seconds |
| `MCOffice_parts`, `MCAccounts_parts`, `MCAccounts_ends`, `MCScreens_parts`, `MCDesks_parts` | of the same names | two to three minutes |

The first six proof modules take one to seven minutes each, `PagesProofs` and
`DesksProofs` about twenty minutes each.
