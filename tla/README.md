# A verification of management-os: bookings, money and messages

management-os is a Next.js application over one PostgreSQL database (Drizzle
ORM) for running rental villas and the property business around them. It runs as
serverless invocations: HTTP endpoints, server actions of staff, and cron jobs.
There is no process that owns the data; what keeps it right is the order in which
each handler reads and writes rows. Almost no handler opens a transaction, so
every awaited statement commits on its own and any two handlers interleave at
statement granularity. That is what this project models.

## 1. Inventory

| Component | State it keeps | Operations | Interacts with |
|---|---|---|---|
| **Direct booking: holds and calendar** (`features/direct-booking/public-api.ts`, `availability.ts`, `operator-create.ts`, `services.ts`) | `direct_booking_holds` (status, expires_at, converted_booking_id), `villa_calendar_blocks` (one block per hold, one per booking) | create a hold (guest, operator), cancel (guest, staff), mirror the hold in the calendar | requests, bookings, sweeps: through the tables |
| **Direct booking: requests and conversion** (`public-api.ts`, `actions.ts`) | `direct_booking_requests`, `bookings` | submit, mark under review, approve, reject, convert to a booking | reads holds and deposits, writes holds, blocks, bookings |
| **Direct booking: deposits** (`deposits.ts`, `deposit-actions.ts`) | `direct_booking_deposits` | ensure a deposit, recreate its session, mark paid or failed, cancel, refund | payment provider (external), conversion reads it |
| **Direct booking: expiry sweeps** (`expiry.ts`, `deposit-expiry.ts`) | none of its own | expire overdue holds, expire overdue deposits, each with its cascade | all of the above, started by jobs |
| **Job locks** (`features/jobs/locks.ts`, `lock-actions.ts`, `executeJob`) | `job_locks` | acquire, take over, release, expire stale, force release | every cron job |
| **Deposit to ledger bridge** (`finance-reconciliation.ts`, `reconcile-actions.ts`) | `direct_booking_finance_links`, `revenue_lines`, `finance_bridge_status` of a request | post a converted request's revenue, post all that is unposted, reverse | reads requests, deposits and bookings; statement periods lock it out |
| **Subscriptions and billing** (`lib/billing`, `lib/subscription-os`, the advance, archive, purge and poller jobs) | `org_subscriptions`, `payment_webhook_events` | claim and apply a Stripe event, check and make a transition, suspend, close, archive, purge, reconcile with Stripe, cancel, assign a plan | Stripe (external); every other feature asks for the status |
| **Notification queue** (`features/notifications`) | `notification_queue` | queue under a dedupe key, claim a batch, deliver a row, retry, declare sent, failed or cancelled | mail provider (external), the delivery job, staff |
| **Outbound webhooks** (`lib/development/server/webhooks`, `webhook-delivery-job.ts`) | `webhook_delivery_log`, `webhook_subscriptions` (switch, failure counter) | emit, test, unsubscribe, select what is due, dispatch, retry, switch off | runs as a job under a job lock; endpoints (external) |
| **Owner statements and payouts** (`features/finance`, `features/owner-statements`, `owner-portal/dispute-actions.ts`, the monthly cron) | `owner_statements` with their lines, `payout_lines`, payout batches | generate, approve, send, ask for changes, view, acknowledge, dispute, reissue, pay a line or a batch | reads the ledger; staff, owners and two crons move the same row |
| Hold rate limiter (`services.ts`, `hold-pure.ts`) | `direct_booking_hold_rate_limits` | decide and record | create a hold |
| Guest status and messages | tokens, queued messages | a read-only projection for the guest page | reads all of the above |
| Everything else: availability sync and channels, bookings, pricing, front office, fulfilment, ledger entry, owners, procurement, the property-development product, auth, AI, the web interface | | | see section 7; listed one by one in `PROJECT.json` with the reason |

Hard behaviours, and what makes each component correct:

- **Check, then act.** Availability is checked in two SELECTs, then the hold and
  its block are inserted in two more statements. *Correct*: no two live holds or
  bookings share a night; the calendar blocks mirror the holds; a dead hold gives
  its nights back.
- **Long chains of writes.** Conversion writes bookings, requests, holds, blocks,
  in that order; rejection, cancellation and sweeps write subsets of the same
  rows by id alone. *Correct*: references never dangle or cross; converted is
  final for the sweeps; the deposit gate cannot be bypassed.
- **Several requests per hold, several deposits per request.** *Correct*: at most
  one open session per request; recorded money is not lost.
- **Crashes.** An invocation can die between any two statements. *Correct*: what
  was promised in one row is picked up by a sweep.
- **The cron.** Overdue holds return only through a sweep, and each job runs under
  a lock row that outlives a crashed run. *Correct*: one run at a time; the row
  does not shut the job out.
- **Three rows that tell one story.** A posting writes a ledger line, a link and the
  request, a reversal the same three, each in its own statement, and staff repeat
  both. *Correct*: revenue counts once; ledger, link and request agree at rest; a
  closed period is not touched.

- **A provider that repeats itself.** Stripe sends an event any number of times, in any
  order, twice at once; a request that dies keeps its claim, and loses the event. *Correct*:
  an event counts once, and is marked as processed only if it was heeded.
- **Four jobs, a poller and an operator on one row.** The status of a subscription is
  tested and then written by id, in a transaction that locks nothing. *Correct*: whatever
  overtakes what, a grace period ends.
- **A queue with claims.** A batch marks its rows in a transaction and delivers them one by
  one; staff deliver a row without a claim. *Correct*: nobody gets copies that nobody asked
  for; no row is lost between claim and verdict; the queue empties.
- **A job that leans on its lock.** Webhooks are dispatched by what a run selected earlier,
  and only the job lock keeps two runs from posting the same event. *Correct*: one post per
  attempt; what is settled stays so.
- **Documents that money rests on.** A statement is rewritten in four statements while it
  is a draft, superseded by a revision when disputed, and paid line by line. *Correct*: what
  an owner saw does not change; one revision is live; no money moves under a dispute.

`PROJECT.json` lists 40 hazards at their lines with the properties that watch each.

## 2. Modules

| Module | Models |
|---|---|
| `DirectBookingDb` | the tables, their rows and CHECKs, handlers in flight, the single statements |
| `HoldHandlers` | create (guest and operator), cancel (guest and staff) |
| `RequestHandlers` | submit, review, reject, convert |
| `DepositHandlers` | ensure, recreate, the decisions of staff |
| `ExpiryHandlers` | the two sweeps |
| `DirectBooking` | composition: Init, crash, Next, fairness, the properties, the refinement mapping to `StayInventory` |
| `StayInventory` | the abstract promise: a stay is held, then booked or freed |
| `MCDirectBooking` | instances for TLC |
| `DirectBookingProofs` | proofs about `DirectBooking` that hold of every interleaving |
| `OverlapProofs` | which overlaps of its handlers matter: what `DirectBooking` achieves while named pairs of statements stay apart, among it that it implements `StayInventory` |
| `JobLock` | the lock row, runs that use it, staff, time |
| `JobLockProofs` | proofs about `JobLock` |
| `FinanceBridge` | links, ledger lines, postings, batches, reversals, the statement period, the refinement mapping to `RevenueLedger` |
| `RevenueLedger` | the abstract promise of the bridge: revenue counts, is reported, is taken back |
| `MCFinanceBridge` | its instance for TLC |
| `FinanceBridgeProofs` | proofs about `FinanceBridge`, among them that it implements `RevenueLedger` |
| `SubscriptionBilling` | a subscription: webhook requests, jobs, poller, operators, Stripe, time |
| `SubscriptionBillingProofs` | proofs about `SubscriptionBilling` |
| `NotificationOutbox` | the queue: batches, recipients, verdicts, retries by staff |
| `MCNotificationOutbox` | its instances for TLC |
| `NotificationOutboxProofs` | proofs about `NotificationOutbox` |
| `WebhookDelivery` | the delivery job inside `JobLock`, which it extends: rows, endpoint, dispatches |
| `MCWebhookDelivery` | its instance for TLC |
| `WebhookDeliveryProofs` | proofs about `WebhookDelivery`, among them that it implements `JobLock` |
| `OwnerStatements` | statements with their lines, revisions, payout lines and their batch |
| `MCOwnerStatements` | its instance for TLC |
| `OwnerStatementsProofs` | proofs about `OwnerStatements` |

### State and code

A **table** is the sequence of its rows in creation order; a row is named by its
position and 0 is NULL. Columns that no decision reads (names, prices, notes) are
left out. `late` stands for `expires_at < now`, and flips in an action of its own
(`HoldDeadlinePasses`, `DepositDeadlinePasses`). `holdBlock[h]` and
`bookingBlock[b]` are the status of the calendar block that belongs to the row,
`absent` before its insert; blocks are never deleted.

A **handler in flight** is the record `call[w]` of its worker: `at` names the
statement it runs next, the other fields are what it has read. Each action is one
statement with the local code up to the next await; the first one of a handler
begins only if its guards (early returns) pass, because a refused call changes
nothing. An exception out of a handler is `Return`, which leaves what was written.
`ReleaseThen` is `releaseInternalHoldBlockForDirectHold` with its caller: the
status it writes must be in `BlockStatuses`, the set the CHECK of the table admits.

One handler, `convertDirectBookingRequestToBookingAction` (`actions.ts:175-331`),
reads: `ConvertRead` (request and its status), `ConvertReadHold`,
`ConvertReadDeposit` (the gate), `ConvertPickCode`, `ConvertInsertBooking` (UNIQUE
code), `ConvertMarkRequest`, `ConvertMarkHold`, `ConvertRelease`,
`ConvertSyncBlock`. `approve` and `mark_under_review` are a single UPDATE and a
single action.

In `JobLock` the row is `status`, `left` (expires_at minus now) and the history
variable `owner`; each run has its place in the code and its `age`, the time since
it read its clock. `Tick` moves both. Three switches name what the code leaves to chance
(`AcquisitionsOverlap`, `JobsOverrun`, `HastyStaff`), a fourth what its driver says of a
UNIQUE violation. `DriverNamesUnique` is FALSE of the program as it is built: `locks.ts:81`
looks for the word "unique" in the message, and drizzle-orm 0.45.2, which the lockfile pins,
has "Failed query" there. Then a job runs once, and no question of mutual exclusion arises.

In `FinanceBridge` an invocation is a record of `call` again. A posting
(`finance-reconciliation.ts:368-660`) runs through `context`, `link`, `period`,
`line`, then the upsert (`find`, `update` or `insert`), `mirror` and `notify`; `status`
is what the link is going to get, so that the paths that only record a refusal share the
upsert with the one that posts. `Catch` is the catch clause, which upserts once more. A
batch is a posting with a non-empty `todo`. What the rest of the program decides is an
input: a request may be converted at any time (`Convert`), the deposit be paid or not
when it is read (`Gate`), the period be opened and closed (`SetPeriodStatus`), a link be
found by organisation or not (`ReverseRead`). The trigger
`fn_prevent_locked_period_mutation` is the guard of `InsertLine` and `ReverseLine`. All
service dates lie in one period and all links are made on one day; the two reads of
`upsertLink` are one step. Between the SELECT and the UPDATE of an upsert nobody can take
a line from the row, so the two values of `revenueLineId` that `??` chooses from are the
ones the model has. `mishap` is a history variable: the request was touched by two
invocations at once, one died on it, or a statement raised after its line was written.

In `SubscriptionBilling` the row is `status`, `linked` (a Stripe id is stored) and two
dates, each none, ahead or past (`Elapse`); `live` is what Stripe would answer, `kind` what
each event says, `claim` its row in `payment_webhook_events`. Every actor, a webhook
request, a job or an operator, has its place in `work`. `transitionSubscription` is `Select`
and `Update`, whoever calls it, because its transaction runs at READ COMMITTED and locks
nothing; where its caller continues is `Returned` or `Thrown`. `Send` produces only
sequences of events that Stripe's own life of a subscription allows (`Emits`), and
`Claim` may take any event that was sent, in any order, any number of times.

In `NotificationOutbox` a row is `status`, `key`, `attempts` and `due`; `work[w]` holds the
rows a worker took, the one it delivers, the recipients left and what the others came to.
`ClaimBatch` is the one transaction, in a table whose CHECK admits `processing`; where it
does not, the UPDATE raises, the transaction is rolled back and the job fails, which is
`ClaimRaises`. `admits` is what the CHECK admits, chosen among `Checks` and never changed:
`Migrated` is the one of `drizzle/0008_background_jobs_notifications.sql:92-93`, which no
later migration alters, `Widened` the one the code needs. `OpenNote`, `Treat` (one provider call) and `Close`
(the verdict, by id) follow row by row. The partial unique index on dedupe keys is `Clashes`:
a write it refuses raises, which ends the batch (`Throw`). Which branch the verdict takes is
`Verdict`; two branches write no status, so that the value it has stays. Quiet hours and
preferences are inputs of `Treat`.

`WebhookDelivery` extends `JobLock`: between acquiring and releasing, a run selects what is
due (`Scan`), dispatches row by row, and ends (`JobEnds` is `Finish` of the lock). A dispatch
is `Read`, then `Refuse` or `Post`, `WriteRow` and `WriteEndpoint`; the reads of row and
subscription are one step. A test by staff is the same dispatch outside the lock.

In `OwnerStatements` a subject is an owner's villa or his share of a pool in one month; a
statement is its row, with `lines` the sequence of what was inserted, each element the
version of the ledger (`ledger`) it was computed from, as `totals` is. So a statement whose
lines are not `<<totals>>` is one that does not add up, or shows lines twice. `UNIQUE` and
`CHECK` are `InsertRefused` and `Admitted`. Paying a batch locks its row, so the steps that
write the batch wait (`BatchIsLocked`). `mishap` marks a subject on which two invocations met
or one died, or whose dispute was wiped out by a first send (the finding of section 5).

Simplifications that a reader should know: one villa; one organisation; permission
checks have passed; `getDb()` is never null; amounts are not modelled; the
provider is the manual stub, or refuses when `"provider_failure"` is among the
endpoints; booking codes differ by request, with or without a suffix, and random
suffixes do not collide; bookings entered outside this feature are not in the
tables (they would only refuse more holds).

## 3. Runs

With two TLC workers each run takes a few minutes at most.

| Run | Instance | Shows |
|---|---|---|
| `serial_calendar` | one worker, 3 holds, 2 requests, 1 deposit, 2 bookings, two overlapping stays | `TypeOK`, `HeldDatesExclusive`, `LiveHoldsAreBlocked`, `DeadHoldFreesDates`, `DeadHoldStaysDead`, and that the tables implement `StayInventory` |
| `serial_deposits` | one worker, 1 hold, 2 requests, 2 deposits, 1 booking, 1 crash | `OneOpenDeposit`, `PaidMoneyIsKept` |
| `liveness` | two workers, 2 holds in turn, 2 requests, 1 deposit, 2 bookings, no crash, under `FairSpec` | `ConfirmedBookingHasPaidDeposit`, `ConversionLinks`, `LiveHoldsAreBlocked`, `AbandonedDatesReturn` |
| `finance_bridge` | two workers, 2 requests, 2 lines, 3 invocations, 1 fault | `TypeOK`, `LinkOwnsLine`, `LedgerAgrees`, `ClosedPeriodFrozen`, and that ledger and links implement `RevenueLedger` (`LedgerSpec`) |
| `subscriptions` | 2 webhook requests, 2 events, 2 actors at work at once, poller on, 1 fault, under `FairSpec` | `TypeOK`, `EventMovesOnce`, `ProcessedWasHeeded`, `ClaimHasHandler`, `GraceEnds` |
| `notifications` | 2 notifications, one to two recipients and one to nobody, 2 batches, 1 desk, 2 attempts, 2 faults or interventions, the migrated CHECK and the widened one | `TypeOK`, `NoExtraCopies`, `ProcessingIsHeld`, `SentReachedSomeone` |
| `webhooks` | 3 runs, TTL 2, grace 1, 1 delivery, 1 desk, 2 attempts, switched off after 2 failures, 2 runs that die or fail | of the lock `TypeOK`, `WorkingRunHoldsLock`; `HooksTypeOK`, `OnePostPerAttempt`, `SettledStays` |
| `statements` | one worker, a pool, 2 statements, 1 payout line, 1 change of the ledger, 1 fault | `TypeOK`, `LinesTellTotals`, `OneLiveRevision`, `ApprovedIsFrozen`, `PausedWhileDisputed` |
| `deployed_release` | violation | with the CHECK as migrated, a cancelled hold keeps its block |
| `notifications_deployed` | violation, the migrated CHECK, no faults, no staff, under `FairSpec` | every claim raises, and what is queued stays queued |
| `job_lock` | violation, 3 runs, TTL 3, grace 1, no crash, the pinned driver, under `FairSpec` | a job runs once and never again |
| `statements_dispute` | violation, one worker, one villa | money is paid out while the owner's dispute is open |

**One worker or two.** The properties of the calendar and of single deposits are
what the handlers achieve one at a time; interleaved they fail, and section 5 says how.
`ConfirmedBookingHasPaidDeposit` and `ConversionLinks`, in the run `liveness`, hold in every
interleaving, and section 4 proves them for every instance; so does `LiveHoldsAreBlocked`
there, where nobody is killed. The run has two requests of one hold, so that two conversions
of it race each other and the sweep. Saying which is which
is the point: the first group needs a transaction or a constraint in the database
to hold in production. One worker is more than that group needs: section 4 proves
each of its properties for any number of workers, and names the few pairs of statements
that must not meet on the same rows.

**Bounds.** Two stays that share a night are all the availability check can tell
apart; a third hold is needed for one that dies, one that follows it on the same
nights and one that was booked. Two requests of one hold, and two deposits of one
request (the second after the first was cancelled, failed or settled), are the
cases that cross references. A single crash suffices since every step of a handler
can be its last. In the job lock TTL 2 lets a tick pass while a run works, so that it may
end in time, late within its TTL, or be taken over after a crash, and leaves room for the
grace; a third run is one that acquires while a second finishes and a first has crashed; the
runs are symmetric. TTL 3 with the same faults was run as well, and differs in nothing but
the time it takes. In the bridge, three invocations are a
posting, its reversal and a second posting, or two postings with a batch across them;
two lines are the ones that could count twice; two requests are what a batch goes through
and what two link codes can clash between; one fault hits any step of any of them. Bounds are guards of the first step of a
handler (`Room`), counted with rows other handlers are about to insert, so they never
strand one half-way; deadlock checking is off where the bounds stop the system.

In billing two requests and two events are one event that is repeated while another passes
it; `MaxBusy` 2 lets any two actors interleave statement by statement. In the outbox the
second notification shares the first one's key, has none, or resolves to nobody; the third
chance of a copy needs a batch, the cron and a desk, which are there. Batches, and the two
recipients of one notification, are symmetric. One delivery is enough
for webhooks, since the rows of one endpoint meet only in its counter and its switch, and
`Unsubscribe` turns the switch at any time. The lock is checked in this run, with its only
user that has a model, under a driver that names the constraint, for otherwise there is but
one run to speak of; the theorems hold for either. In the statements run the subject is a pool, because a reissue about a villa is
always refused by the index; two statements are one reissue. `Wishes` leaves out
`viewed`, from which an owner may do what he may from `pending`, and the ways back of payout
lines and batches (`pending`, `draft`, `cancelled`), to keep the run small; the theorems are
for all of them. Its CONSTRAINT `Untroubled` drops the
states after a mishap, of which nothing but the type is claimed. What several workers do at
once to different subjects is left to the theorems, which hold for any number.

**`BlockStatuses`.** Every run but `deployed_release` uses `Intended`, the CHECK
with `released` added. Under the migrated one no hold ever gives its dates back,
and the other properties would only restate that. `Checks` does the same for the outbox,
except that the passing run has both tables: in the migrated one staff still deliver by
retrying, and what is claimed of copies and of `sent` is claimed of them too. What
`ProcessingIsHeld` says is empty there, since no row is ever in `processing`.

**Fairness.** `FairSpec` assumes that an invocation that is not killed runs on, and
that the sweep is started again and again while it has work: strong fairness, since
a server invocation is not shut out by others. The second rests on
`docs/VERCEL-CRON-CHECKLIST.md:39` (every five minutes); the `vercel.json` in the
repository does not schedule it, which `PROJECT.json` lists as a hazard. It also needs a job
lock that can be taken a second time, which the run `job_lock` refutes for the pinned driver:
`AbandonedDatesReturn` and `GraceEnds` say what the sweep and the daily job achieve when they
are run, and not that they are. In
`JobLock` time passes, runs that are not killed run on, the cron comes round. Staff
are never counted on. No crash occurs in the `liveness` run: a handler that dies
between writing a hold's status and releasing its block leaves the block active for
ever, because no sweep looks at dead holds.

In billing `FairSpec` lets a request that is not killed run on, the daily job fire and time
pass; the start of the job has strong fairness, as its turn comes between other actors.
In the outbox the batches go on while they can, also with claims that raise, and the clock
goes on. Both violation runs under fairness end with nothing but fair steps that change
nothing: a batch whose claim raised has done all it can, and so has a run whose INSERT failed.
Faults are bounded: a process that fails for ever does nothing.
`GraceEnds` asks for a deadline: only a failed invoice sets one, so a subscription that the
poller puts into grace stays there until something else moves it.

In `FinanceBridge` `LedgerSpec` and `LedgerAgrees` speak of requests without
`mishap` (`RevenueLedger` gives the others up), which is weaker than "one worker": other requests may be raced and interrupted
at the same time, and the properties say that this does not spread. `LinkOwnsLine` and
`ClosedPeriodFrozen` have no such premise.

## 4. Proofs

The proofs hold for every value of the constants allowed by the named assumptions
(`StaysAssumption`, `BoundsAssumption`; in `JobLock` the TTL and grace are numbers and
the TTL is positive; in `FinanceBridge` the requests are finitely many and none is the
word that stands for no request; in the other modules the bounds are numbers, names of
different kinds differ, and the notifications and workers of the outbox are finitely many).

**`DirectBookingProofs`** proves, for any number of workers in any interleaving
with any crashes,

- `TypeCorrect`: `Spec => []TypeOK`;
- `DepositGate`: `Spec => []ConfirmedBookingHasPaidDeposit`;
- `LinksNeverCross`: `Spec => []ConversionLinks`.

None of the three is inductive: a step writes by ids it read some statements ago.
The invariant `Inv` therefore adds, for each handler in flight, what it has read and
still relies on (`Knows`): past the gate a confirmed conversion has a deposit of its
request with `paid_at`; the hold and the stay it read are the request's; the booking
it is about to link was issued from its request for its stay. What makes `Knows` last
while others move is `RowsKept`: no statement of the feature changes the hold of a
request, the stay of a hold, the request of a deposit or any column of a booking, or
clears a `paid_at` or a `booking_id`. So the argument has three layers: one lemma per
kind of statement (it keeps the tables and satisfies `RowsKept`), one lemma on calls
(`KnowledgeLasts`, `CallStep`), and per action of `Next` one step that combines them
and shows what the action newly relies on. `PaidHasPaidAt`, which ties the status the
gate tests to the column the property speaks of, is the other strengthening.

What the proof says of the code: these properties need no transaction, because the
columns they depend on are written once. The properties of section 3 that fail when
interleaved depend on the two columns that every handler overwrites, `status` of a
hold and of a deposit.

**`OverlapProofs`** takes the properties that fail when handlers interleave freely and
asks how much of the interleaving has to go. Each theorem is of `Spec`, for any number of
workers, stays and endpoints and tables of any size; what it excludes is a premise of two
kinds. An overlap premise says of every state that two invocations are not at two given
statements on the same rows; `Unbroken(steps)` says that nobody dies at these steps.

| Theorem | Property | Overlaps excluded | Crashes excluded |
|---|---|---|---|
| `MoneyIsKept` | `PaidMoneyIsKept` | `PaymentsApart`: a payment is about to be recorded while another handler is about to write the status of that deposit, which it read as unpaid | none |
| `AtMostOneOpenDeposit` | `OneOpenDeposit` | `OpeningsApart`: two invocations are opening a deposit of one request | none |
| `ConvertedStays` | `ConvertedNeverExpires` (no run) | `MarksApart`: a hold or request is about to be marked converted while it is on the list of what another handler will expire | none |
| `DeadStaysDead` | `DeadHoldStaysDead` | `ConversionsApart`: a handler is about to end a hold that another has read and is converting | none |
| `HeldDatesAreExclusive` | `HeldDatesExclusive` | `DatesApart`: `ConversionsApart`; a creator looks for blocks while a hold on its dates has none yet, or inserts a hold together with another on its dates; a booking is about to be inserted between its two queries | between a hold and its block |
| `TablesImplementInventory` | `InventorySpec` | the same | the same |
| `LiveHoldsStayBlocked` | `LiveHoldsAreBlocked` | **none** | between a hold and its block, or between a booking and its block |
| `DeadHoldsAreFreed` | `DeadHoldFreesDates` | `CancellationsApart`: staff cancel a hold before it has a block, or bring the calendar in line with it just when it is marked converted | between ending a hold and releasing its block |

The last two assume that the table admits `released` (`Admits`), without which no hold is
ever freed and a conversion stops before it blocks the booking. `TurnsSuffice` shows that
all the overlap premises are met while no two invocations overlap, so the theorems contain
what the runs with one worker check, and no premise is out of reach.

The invariants all say that what a handler in flight has read is still so when it acts on
it; the statement that would make it untrue is the one the premise names. They are
`UnpaidInv` (what is about to be overwritten is not paid), `OpenInv` (an open deposit is
the latest of its request, and who is about to insert one knows there is none), `ExpiryInv`
(what a handler will expire is not converted), `ConversionInv` (a hold that a conversion has
read is not abandoned), `RefInv` (every hold a handler names exists), `EndedInv` (who
releases a block does so for a hold that is over), `Blocked` (a live hold has its block or a
handler about to insert it), `BookingStays` (a booking has the stay of its hold),
`CheckedInv` (past its queries a creator is right about bookings and live holds on its
dates), `BookingsBlocked`, `PlacedInv` (nobody else can name a hold that has no block yet),
`SyncedInv` and `Freed` (a hold that is over has no active block or a handler about to
release it). `DatesInv` puts those about dates together.

Sixty actions times ten invariants is too much to read. `CalendarWork` therefore sorts the
statements by what they do to holds, bookings and blocks, into nine kinds: one that passes
by, one that ends a hold, frees its block, reactivates it, inserts a booking, and the four
that insert a hold, insert its block, mark it converted and block the booking's dates.
`OneStatement` collects what is true of any single statement, and each invariant is shown
to survive the nine kinds, a crash, and time. For the refinement, `PlacingHolds` is the step
that holds nights in `StayInventory`, `BookingBooks` the one that books them, `DroppingFrees`
the one that gives them back; `MarkingUnseen` and `SeenStutters` show that the rest is not
seen from outside (`InventoryStep`).

What the proofs say of the code. That live holds and bookings have their blocks depends on
no timing at all, only on handlers that finish: a transaction from the row to its block is
all it needs. Paid money can only be lost to five UPDATEs by id of one table, each of which
could name in its WHERE clause the status that was read; then `PaymentsApart` would not be
needed. The same goes for `MarksApart` and the sweeps. `ConversionsApart` asks for more: a
conversion relies on the hold it read until it has marked it, across several statements, so
it has to lock that row. Double booking is the one that conditions on rows cannot rule out:
the check looks for rows that do not exist yet, so `CreationsApart` and `ChecksApart` need a
lock on the villa or an exclusion constraint on its nights.

**`JobLockProofs`** proves `TypeCorrect`, then `LockIsKept` and `MutualExclusion`
under the premise `Orderly`: acquisitions are serial, a run ends within its TTL, and
staff do not force-release a lock whose run is at work. None of the
three is idle (section 5 shows it for acquisitions). The invariant says that at most one run
is between reading and writing the row, that a run at work is inside its TTL, that the
row then shows it as the owner of an unexpired lock, and that a take-over decided upon
is still safe when it is written.

**`FinanceBridgeProofs`** proves `BridgeTypes`, `LinksOwnLines`, `BridgeAgrees`,
`ClosedStaysClosed` and `BridgeImplementsLedger`, one for each property of the run, and
`CountsOnce`, which says what the last of them means for a single request. The invariant
has two layers. `Tidy` holds whatever happens: an invocation knows the line it wrote and
that the link it updates exists (`Knows`), and UNIQUE(link_code) does the rest. `Orderly`
holds of a request without mishap: at most one worker is at work on it, and the step it is
at says exactly how far ledger, link and request have come apart (`OnTrack`): after the
line is written, the ledger has that one line and the link does not say posted yet; after
the link is written, link and ledger agree and only the request lags; a reversal takes
them apart and together in the same order. `OrderKept` shows that a step on one request
leaves every other one as it was, so each action needs only its own request. The proof
says of the code that duplicates have two causes only, overlap and interruption: no
sequence of repetitions, refusals, closed periods or reversals makes one.

That it implements `RevenueLedger` needs one more invariant, `Gated`: past the gate a posting
is one of a booked request. Of all the statements five are seen from outside: the insert of a
line counts (`InsertingCounts`), its reversal takes back (`ReversingTakesBack`), the three
that write a link report what counts (`WritingLinksShows`). Every other one is a stutter, or
gives one request up (`OthersAreUnseen`). Here `OnTrack` does the work: at the insert nothing
counts or is reported yet, at the reversal exactly what is reported counts.

**`SubscriptionBillingProofs`** proves `BillingTypes`, `EventsMoveOnce`,
`ProcessedIsHeeded` and `ClaimsHaveHandlers`. The argument follows an event through the one
request that may carry it: a claim in processing admits no second handler (`Holding`); how
far the handler is tells whether the event has moved the row (`Progress`); an event nobody
has claimed has done nothing (`Untouched`). A released claim is therefore one of an event
without effect, which is why a repetition is harmless. Checkouts are the exception the
property names: they are applied again. A request that dies is not one: its claim stays in
processing, so its event never counts as processed, and nothing delivers it.

**`NotificationOutboxProofs`** proves `OutboxTypes`, `CopiesAreBounded`,
`ProcessingRowsAreHeld` and `SentRowsWereDelivered`, for the migrated CHECK and for the
widened one. `OutboxTypes` says that a row has a status its CHECK admits, so that the migrated
table never has one in `processing`. The invariant behind `CopiesAreBounded` is a budget:
copies a recipient has, workers that may still write to him, and, where a batch can claim it,
one more if the row is queued. In the migrated table that is at most `retries`, in the
widened one `1 + 2 * retries` (`Granted`). Claiming turns the queued row into a chance, a
provider call turns a chance into a copy, a requeue happens only if all failed and so gives
back what was not used; only a retry by staff adds: one chance for the desk, and one for the
batch that claims the row it put back.

**`WebhookDeliveryProofs`** proves first that `HookSpec` implements the specification of
`JobLock` (`HooksImplementLock`: every step is a step of the lock or leaves it alone), so that
`HookRunHoldsLock` and mutual exclusion follow from the theorems about the lock. On them rest
`EventsArePostedOnce` and `SettledEventsStay`: what a run has read of a row is still true when it
writes (`RunReads`), because no other run is between its acquisition and its end, and the
requests sent for a row are its attempts, plus one in flight, plus the faults (`Counted`).
`HookTypes` needs no premise.

**`OwnerStatementsProofs`** proves `TypeCorrect`, `LinesTellTheTotals`, `OneRevisionLives`,
`ApprovedStaysAsItIs` and `DisputesPausePayouts` for any subjects and any number of workers. As
in the bridge there are two layers. `Knows` holds of every invocation: what it names exists and
is about the subjects it is on, since rows never vanish or change subject (`RowsKept`). `Orderly`
holds of a subject without mishap: one worker is on it, `OnTrack` says how far its statements have
come apart at the step it is at, and at rest (`Rest`) they form one chain of revisions whose
lines are their totals; `Linked` ties the three columns that tell of a dispute. Each
action only shows that it leaves the subjects it was on in order (`LeftInOrder`), and
`StepKeepsInv` does the rest. The two action properties are shown of single steps under the
invariant (`Frozen`, `Held`).

Out of the prover's reach, and left to TLC: liveness and everything under fairness
(`AbandonedDatesReturn` and `GraceEnds`, which hold, `JobRunsAgain` and `QueueEmpties`, which
the code as built refutes). Every safety property of a passing run is stated by
a theorem. That each premise of `OverlapProofs` is needed, and not only enough, is no theorem.
Each came out of a counterexample that TLC found on a small instance with two workers; these
variants are not kept as runs, but section 5 describes the overlaps.

## 5. Disagreements met on the way

The findings of `PROJECT.json`, one per violation run:

- `deployed_release`: the status `released` that the code writes to a block is refused by the
  CHECK of the table, so a dead hold keeps its dates.
- `notifications_deployed`: the delivery job "walks queued notifications and dispatches"
  (`jobs/definitions.ts:93`); the status its claim writes is refused by the CHECK of the table,
  so every run raises and the queue stays as it is.
- `job_lock`: a run that finds the row of the lock is meant to read it and maybe take it over
  (`locks.ts:56-58`); the message of the pinned driver is not the one it looks for, so it raises.
- `statements_dispute`: the code says payouts pause under a dispute; the first send of a
  statement sets the owner back to pending and the payout goes through.

Met as well, and without a run of their own. In direct booking:

- two creators both pass the availability check (`public-api.ts:164`); a conversion while
  the sweep runs is overwritten with expired (`expiry.ts:57`).
- `deposits.ts:323` promises idempotence; two interleaved calls insert two deposits.
- `deposit-actions.ts:239` refuses to cancel a paid deposit; one that is paid between
  the read and the write is cancelled.
- `deposit-expiry.ts:26-28` spares requests whose hold is converted; the code does not
  look at the hold (a sibling request may have converted it).
- `availability.ts:29` speaks of half-open windows; blocks are compared closed.
- a hold that staff cancel between its insert and its block's keeps the block.

In jobs and the bridge:

- two runs that both read an expired lock both take it over, the UPDATE being by id alone
  (`locks.ts:104-116`).
- `docs/ADR-0030-DIRECT_BOOKING_FINANCE_RECONCILIATION.md:292-294` calls the bridge fully
  idempotent; two postings of one request at once, or one that died after its line, count
  the revenue twice (`finance-reconciliation.ts:557`).
- `finance-reconciliation.ts:44-46` and `:686` promise a compensating line with a negative
  amount; the reversal only sets the line's status to reversed. ADR-0030 has the reversal set
  `archivedAt` on the line; there is no such column.
- `upsertLink` stores no `organization_id`, but `reverseDirectBookingFinanceLink` finds
  links by it: what was posted since the backfill of `drizzle/0153` cannot be reversed.

In billing and messages:

- `stripe-subscription-bridge.ts:235-237` says a crash leaves a reclaimable row; the claim is
  ON CONFLICT DO NOTHING and nothing reclaims it, so the event is lost. `ClaimHasHandler`
  excepts these claims and `ProcessedWasHeeded` does not speak of them.
- `delivery.ts:422-424` promises that a notification put off by quiet hours is requeued; the
  verdict writes no status, so with a CHECK that admits it the row stays in `processing`.
- `stripe-event-poller-job.ts:124` forces a subscription an operator is cancelling back to
  active, although `:125-127` would surface such a thing and not force it.
- `lifecycle.ts:94` tests a transition and writes it in one transaction, but at READ COMMITTED
  and without a lock: two movers may both pass the test.
- the header of `deliverNotification` counts skipped recipients as delivered; the code does not.

In statements and payouts:

- reissuing a disputed statement about a villa always raises, because the revision has the
  same organization, owner, villa and month as its predecessor; only pools can be reissued.
- `statement-actions.ts:25-31` lets an operator re-open a disputed status; no path does.
- the transitions of a statement name `paid` and `voided`, which CHECK 0104 refuses.
- the owner's list shows issued, approved and paid (`owner-portal-queries.ts:167`): a
  statement disappears from it when it is sent.
- a paid batch "is terminal, so a re-run lands here and is rejected", but a status may be set to
  what it is (`actions.ts:83`), and lines may be added to a paid batch.
- statements the cron sends get no acknowledgement timer, so they are never acknowledged
  automatically.

## 6. Plan

Done in this order: the tables and hold handlers; requests and conversion; deposits;
sweeps; composition, abstract promise and runs; the job lock; the first proofs; the
ledger bridge and its proofs; subscriptions; the notification queue; outbound webhooks as a
composition with the job lock; owner statements and payouts; their proofs; the overlaps of
direct booking and the refinement of `StayInventory`; `RevenueLedger` and its refinement.

Next, most important first:

1. Guest stays: check-in, folio and check-out of the front office, whose writers are
   several members of staff at once.
2. `HoldRateLimit`: `decideRateLimit` with its window and block, concurrent callers.
3. What a statement promises its owner (issued, answered, paid or replaced) as a
   specification of its own that `OwnerStatements` implements, as `RevenueLedger` is for the
   bridge; the invariants `Rest` and `Linked` are there for it.

## 7. Not modelled

- **Most of the repository by lines** is not protocol: pages and components, read-only
  queries, seeds and scripts, adapters, translations. A TLA+ model of them would restate
  them. The share of lines the map covers is small for that reason.
- **Channel manager.** Its import of reservations does not get as far as its state machine: the
  raw payload it stores carries a BigInt, and without a `toJSON` for BigInt every
  such insert of `channel_reservations` raises; the conflict column has a foreign key to
  reservations, and the code writes ids of bookings to it. A model of what should happen
  behind these inserts would have no source.
- **Hold rate limiter, guest status.** The first refuses holds and can do no more; the
  second only reads.
- **Front office, fulfilment, operations, maintenance, procurement, payroll.** Status columns
  edited by one person at a time; a candidate is in the plan. The other job bodies are
  read-only reports or single UPDATEs by a condition.
- **Ledger entry, prices, allocations, taxes.** Arithmetic over rows: data in all the modules.
- **Permissions, tenancy, security.** The models start after these checks, inside one
  organization.
- **AI agents, messaging adapters, the property-development product** beyond its jobs and
  webhooks: calls to services, and forms over tables of their own.
