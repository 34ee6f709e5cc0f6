# OutInvoice: a TLA+ verification project

OutInvoice (`src/`) is an Express and TypeScript API on PostgreSQL (through Prisma), with a
BullMQ worker on Redis, Stripe and PayPal as payment gateways, Resend for mail and R2 for files.
Every HTTP handler is an `async` function that reads the database, decides, calls outside services
and writes again; whatever happens between the read and the write is another handler's turn. That
is where this program can go wrong and where its tests, which call one handler after another, do not
look. The modules here model the handlers at that grain: **one step per database statement,
transaction or outside call, and another handler may run in between**. What lists, dashboards and
reports make of the records is modelled as sets of rows, over books whose steps are the writes of all operations,
each as late as the code lets it come.

## 1. Inventory

| Component (source) | State it keeps | Operations | Interacts with | Hard behaviour | What makes it correct |
|---|---|---|---|---|---|
| Settlement (`repositories/payment.repository.ts`, `services/payment.service.ts`) | `payments`, `payment_transactions`, `invoices.amountPaid/status` | record manual payment, complete a provider payment, apply a refund, mark a row FAILED, retire PENDING rows | checkout, webhooks, cancellation, public view | two settlements at once; refund against settlement (lock order); plain writes over newer ones | never above the total; one log entry per capture; status agrees with amount; nothing lost |
| Invoice status (`lib/invoice-status.ts`) | none | derived status, operation guards | everybody | order of the tests at zero and at the total | the guard asked is the guard meant |
| Stripe checkout (`services/stripe-checkout.service.ts`) | session at Stripe, PENDING row | create, confirm on the return page | settlement, Stripe | balance read long before the row is written; sessions retired in the database, not at Stripe | credits are backed by money |
| PayPal checkout (`services/paypal-checkout.service.ts`) | order at PayPal, PENDING row | create (withdrawn), capture | settlement, PayPal | capture of a held, captured or refunded order | as settlement |
| Webhooks (`services/stripe-webhook.service.ts`, `paypal-webhook.service.ts`) | `payment_webhooks` | receive, lock, process, mark, answer | settlement, Redis lock | duplicates, reordering, failure after effect, an acknowledgement beside a holder that fails | each event takes effect once; none is acknowledged and forgotten |
| Receipts (`services/paypal-receipt.service.ts`) | `payments.receiptSentAt` | claim, send, give the claim back | webhooks, capture, mail | crash between claim and mail | at most one receipt |
| Email outbox and worker (`services/invoice-email-job.service.ts`, `repositories/outbox.repository.ts`, `queues/`, `workers/`, `worker.ts`) | `outbox_events`, BullMQ jobs, Redis lock | send, enqueue, process, retry, recover | lifecycle, mail, PDF | crash anywhere, lease expiry, lost jobs, recovery racing the worker | a queued mail goes out, once at a time |
| Invoice lifecycle (`services/invoice.service.ts`) | `invoices`, `invoice_items` | create, number, edit, delete, send, share, view, duplicate, cancel | outbox, settlement | check-then-write on the status; latest+1 numbering | totals have lines; a paid invoice stays |
| Gateway connection (`services/stripe-connect.service.ts`, `paypal-connect.service.ts`) | `payment_gateway_configs`, `payment_oauth_states` | start, callback, test, disconnect | Stripe, PayPal, accounts | callback replayed; test racing reconnection | a state is used once; a row is of one account |
| PayPal's application token (`integrations/payments/paypal/client.ts`) | a variable of the process | use, fetch, keep, clear | PayPal | slow answers, fetches that overlap, short lives | a cached token outlasts the call |
| Accounts and sessions (`services/auth.service.ts`, `admin.service.ts`, `member.service.ts`, `organization.service.ts`) | `users`, `sessions`, `organizations.status` | login, logout, change or reset password, create, edit, move, deactivate, bootstrap | every request | status written before sessions are deleted; actors read before they are used | revoked sessions end; members with their administrator |
| Tenant scope (`config/permissions.ts`, `lib/admin-scope.ts`, `lib/invoice-access.ts`, `utils/organization-scope.ts`) | none | who may see and do what | every request | role, organization and assignment combined | lists and single reads agree; no foreign rows |
| Invoice lists and views (`repositories/invoice.repository.ts`, `lib/invoice-view.ts`) | none | list, board, summary cards, payments, view | tenant scope | filters combined by spreading objects | a list shows what may be opened, all of it, once |
| Dashboards, reports, forecasts (`repositories/dashboard*.ts`, `report.repository.ts`, services) | a cache of a minute | figures, series, groups, presets of dates | tenant scope | a dozen queries that each select for themselves; empty filters; periods | figures agree with each other and with the books |
| Files (`services/organization-logo.service.ts`, `branding.service.ts`, `auth.service.ts`, `invoice-pdf.service.ts`) | object keys, R2 objects | upload, presign, confirm, replace, remove; store and fetch a PDF | mail, PDF | row and object change separately | a row names an object that exists; the mail shows the invoice |
| Catalogue, customers, expenses (`services/product.service.ts`, `customer.service.ts`, `expense.service.ts`) | `products`, `customers`, `expense_categories` | create, update, delete | lifecycle | check-then-write on SKUs, uses and documents | documents refer to rows that exist |
| Arithmetic (`lib/invoice-calc.ts`, `lib/money.ts`) | none | lines and totals (discount and tax are always 0) | lifecycle | rounding per line | lines add up |
| Settings, HTTP surface, rendering, audit log, seeds | their tables | single writes, routing, layout | | none shared by concurrent steps | |

`PROJECT.json` lists all of them under `components`, and under `hazards` the places, by file and
line, where this code can go wrong and a test would hardly notice.

## 2. Modules

| Module | What it is | Extends / instantiates |
|---|---|---|
| `InvoiceStatus` | the status vocabulary and derived statuses (`lib/invoice-status.ts`) | |
| `UnitSums` | sums of payments, as a cardinality, so that they can be reasoned about without induction | |
| `Settlement` | **money against one invoice**: manual payments, Stripe checkout and return page, PayPal capture, both webhooks, refunds, cancellation, public view | `InvoiceStatus`, `UnitSums` |
| `InvoiceLedger` | abstract specification of settlement: atomic credits that fit the balance, taken back whole | `UnitSums` |
| `SettlementLedger` | the refinement mapping from `Settlement` to `InvoiceLedger` | `Settlement`, `InvoiceLedger` |
| `SettlementInvariant` | the inductive invariants of settlement: of the handlers, and of what backs a credit | `Settlement` |
| `RedisLock` | the lock handlers take in Redis: a lease, or none when Redis is out of reach (`lib/redis-lock.ts`) | |
| `InvoiceOutbox` | **mailing one invoice**: send request, outbox row, BullMQ job, worker, recovery, faults | `RedisLock` |
| `OutboxInvariant` | its inductive invariant, and the one for reliable locks | `InvoiceOutbox` |
| `InvoiceLifecycle` | **the invoices of one organization**: numbering, creating, editing, issuing, cancelling, deleting | |
| `LifecycleInvariant` | its inductive invariant | `InvoiceLifecycle` |
| `TenantAccess` | permissions of the roles and every scoping decision, as functions of the directory and an actor | |
| `Accounts` | **users, sessions and the requests that open, use and end them** | `TenantAccess` |
| `AccountsInvariant` | its inductive invariant | `Accounts` |
| `Calendar` | days, months, presets and periods of a range | `UnitSums` |
| `InvoiceBooks` | the invoices and payments that readers see; each write of the modules above is one step, which may come late | `TenantAccess`, `InvoiceStatus`, `Calendar` |
| `InvoiceLists` | lists, board, summary cards and views | `InvoiceBooks` |
| `Reporting` | dashboard, reports, forecast, customer lists, organization overview | `InvoiceLists` |
| `ReportingInvariant` | what the books keep, on which all figures rest: their inductive invariant | `Reporting` |
| `WebhookDelivery` | one provider event, delivered again and again, and the receipt of its payment | `RedisLock` |
| `GatewayConnection` | **connecting, testing and disconnecting the two gateways** | |
| `GatewayInvariant` | its inductive invariant | `GatewayConnection` |
| `PayPalAppToken` | the cached application token | |
| `StoredLogos` | logos, avatars and branding images in the object store | |
| `InvoicePdf` | the stored PDF of an invoice, deliveries and downloads | |
| `Catalogue` | products, customers, categories and the invoices that refer to them | |
| `Platform` | these five and the gateways as one specification, with the properties of each under one name | `GatewayInvariant`, `StoredLogos`, `InvoicePdf`, `PayPalAppToken`, `Catalogue`, `WebhookDelivery` |
| `MCSettlement`, `MCInvoiceOutbox`, `MCInvoiceLifecycle`, `MCAccounts`, `MCReporting`, `MCPlatform` | the instances TLC checks; one `.cfg` per run | |
| `UnitSumsProofs`, `SettlementProofs`, `OutboxProofs`, `LifecycleProofs`, `AccountsProofs`, `GatewayProofs`, `PlatformProofs`, `ReportingProofs` | the theorems and their proofs | |

`Platform` puts six parts that share no state into one specification: a behaviour belongs to one of
them while the others rest, so that its instance `MCPlatform` has the sum of their states and not the
product. `StoredLogos`, `InvoicePdf`, `PayPalAppToken`, `Catalogue` and `WebhookDelivery` end with an inductive
invariant of their own (`IInv`); that of the gateways is in `GatewayInvariant`.

Where components meet, each module carries as actions of its own what the others do to the state it
shares: `Settlement` and `InvoiceOutbox` have cancellation and view, `InvoiceLifecycle` has
`ReadToSend`/`Issue` for a delivery and `InsertPayment`/`Settle` for a settlement, `Catalogue` has
the creation and deletion of invoices, `WebhookDelivery` the capture of the return page,
`GatewayConnection` the deactivation of administrators. `InvoiceBooks` has the writes of all of them to
invoices and payments (creation, duplication, edit, deletion, mail and repeated mail, view, cancellation, payment,
refusal, refund, repeated completion), because that is what its readers see; what precedes a write it keeps only
as far as the check may be older than the write. Definitions that begin with the comment "Slip:" are
not used by any specification: each is the form a definition would have with a plausible mistake in
the code, and a property of the project is known to notice it (`mutants` in `PROJECT.json`).

## 3. How state and actions correspond to the code

`PROJECT.json` maps every definition to its lines. The conventions:

- A **handler in progress** is a record in `req` (or `task`, `hook`, `hand`, `job`, `call`): the step
  it is at, and what it has read so far, which may be stale. Finishing or throwing returns it to
  idle; every catch and `finally` that changes state is a step.
- A **step** ends where the handler awaits the database, Redis, the object store or a provider. Two
  adjacent statements are one step only when nothing between them can be disturbed (several reads at
  the start of a handler whose answers are independent; an update and an insert of a transaction
  that already holds the row).
- A **transaction** is split where another transaction can slip in: before it has its row lock, and
  while it waits for another row. PostgreSQL runs it at its default isolation, READ COMMITTED.
- **Crash / Fail** ends any handler at any step and rolls its open transaction back.

*Settlement.* One invoice, issued, with a total that no longer changes (an edit racing the issue is
in `InvoiceLifecycle`). `pay` holds the `payments` row of each transaction id, `entries` the
`payment_transactions`, `processed` the `payment_webhooks` that say processed, `invLock` who holds
`SELECT ... FOR UPDATE` on the invoice, `session`/`order` what the providers know. `RecordManualPayment`,
`BeginSettlement`, `CommitSettlement`, `AbortSettlement` are `recordPayment` and
`completeProviderPayment`; `ReadForRefund`, `CommitRefund`, `AbortRefund` are `applyProviderRefund`,
which takes its row locks in the other order, hence the deadlock actions. Choices:

- Amounts are units; the tolerance of 0.05 when a capture is compared with its row is equality of units.
- The webhook's Redis lock is left out here: whatever it excludes is allowed, so a property that holds
  here holds with it. `WebhookDelivery` has the lock. Duplicates are recognized by `processed`, read at
  receipt, as in the code.
- The gateway counts as connected. A disconnected one makes a handler throw before it changes anything,
  which `Crash` covers.
- New PayPal orders cannot be created any more (`getPublicPayPalOptions` always answers that PayPal is not
  available), but orders from before can be captured and refunded: they start as PENDING rows for the
  full total.
- Stripe answers "paid" for `payment_status` paid or status complete; a session has one
  `payment_intent.payment_failed` event.

*Outbox.* One invoice and the queued delivery of production (delivery without Redis, for development, is
not modelled). `outbox` is the `outbox_events` row of each event id, `job` its BullMQ job, `lock` the
invoice-send lock, `main` the worker process with its start-up recovery, `mails` what the provider
accepted (saturating at 2, which tells "twice" apart), `done` a history variable. A job's `EndJob`
merges the release of the lock with BullMQ's hearing of the end. An event is never stored as FAILED, for every
caller of `markOutboxFailed` passes a retry time. "VIEWED" stands for every status after SENT.
`Faults` selects what may go wrong, so that a run can say under which faults its property holds.

*Lifecycle.* The line items one edit writes are one element of `Lines` (ids are fresh, so a set is
recognized wherever it is), and `row.totals` names the line set the totals were computed from. `FindLines` and
`LockLines` are one `deleteMany`: READ COMMITTED finds the rows at the start of the statement, then
waits for those another transaction deletes, and skips them when they are gone. Number 0 stands for "not given";
the automatic number is one of the free ones. SENT stands for VIEWED and OVERDUE, PAID for PARTIALLY_PAID.
A deletion locks its row, meets the payments' RESTRICT, cascades to the items and commits; `Fail` is every rollback (unique
or foreign key violation, missing row, deadlock victim, lost connection).

*Accounts.* Authentication reads the session, then the user, then the organization; the handler works
with the actor it found. Passwords are not modelled: a login succeeds only with the password its read
found. The address of a bootstrap is its own, as each process reads it from its environment, so that two bootstraps that
overlap may make two super administrators; the directories a run starts from also have a member without administrator.
`revoked` counts how often a user's sessions were to end, a session's `born` is that count when it is created (`OpenSession`), and `spared` and `moved` record a deletion that failed and an administrator who was
moved. These only record.

*Books.* An action of `InvoiceBooks` is a write. The check before it may have been made as soon as the invoice had once been
what it asks for: `viewable` and `payable` hold the invoices a request may have found SENT, or open to payments; every invoice was
once a draft, which may be edited and cancelled. A write over another status than the one checked is late: it may replace the status
or the contents (`restated`), or part the stored amount from the rows (`parted`), and `disturbances` counts late writes, failed
mails, refusals, refunds and moved administrators. A property that such a write can break names the mark and holds of all other
invoices. Choices:

- Who asks (permission and access) is checked with the write, although the code checks it before. No figure depends on who wrote a row.
- A settlement is one step, since its transaction locks the invoice, sums the rows and compares the total again. A payment has the
  currency the invoice has at that moment; a request may bring an older one, but only when an edit came late, which parts the two anyway.
- Payments are dated on the day they are recorded. Any payment may be a provider's. Sessions that no money came in on are no rows, as nothing adds them up.
- A refund takes no lock before it sums: it may miss payments completed meanwhile (which are newer) or count some undone
  meanwhile, and then it stores an old sum under an old status, which was that of a paid invoice.
- A repeated mail may fail, and then writes FAILED over SENT; only a cancelled invoice is refused, and only when the request is made.

*Readers.* A scope is what the services pass to the repositories: an organization or none,
and the users whose invoices are meant. A figure is the set of rows it is counted or summed from. The
months of `Calendar` have lengths of their own, so that a year of a few dozen days has every boundary
of a real one. The queries of one answer read one state; the program's read one after the other. A list of the best rows
(`take: 8`) is any `TopRows` of the groups that no other group surpasses, since the code does not say which of equal ones it takes.

*Webhook delivery.* `row` is the event in `payment_webhooks`, `claimed` the receipt's `receiptSentAt`,
`settled` whether the payment is COMPLETED. `answer` and `mail` record what was acknowledged, refused
and mailed. A delivery that cannot reach Redis goes on without the lock, as the code does.

*Gateways.* One row per provider, written by the callback, by "test connection" and by "disconnect",
without a lock. A token is named by the account it was issued for, and `connections` records what each
callback wrote and whether it was vouched for; nothing asks for it. The provider's answer is taken
together with the write after it: whatever happens while the provider is asked comes before. A state
whose row was deleted stays in `state` with `stored` false.

*Files.* `StoredLogos`: `key[s]` is what each row names (an organization's logo, a user's avatar, an
administrator's branding logo), `object` what the store holds, `offered` how many requests set out to
name a key. `InvoicePdf`: a page is the version of the lines and the logo it was rendered with; the
stored object is overwritten in place. An edit is two steps, `EditReads` (which asks for a draft) and `EditWrites` (which does not),
and `late` records one that was written over an invoice that was no draft.

*Catalogue.* `crossed` records the pairs whose check and write overlapped.

## 4. Runs

Passing runs:

| Run | Instance | Shows |
|---|---|---|
| `settlement_stripe` | 2 handlers, 1 manual id, 2 sessions, total 2 | no overpayment, one log entry per capture, Stripe credits backed by Stripe payments, no settlement lost |
| `settlement_paypal` | 2 handlers, 1 manual id, 1 PayPal order, total 2, with fairness | status against amount, the inductive invariant (types included), that the handlers implement the ledger, and that every handler ends: lock waits and deadlocks are broken |
| `outbox_lease` | 1 event, 1 request, 2 job slots, 1 attempt; crashes, stalled jobs, refused mails, failing statements, with fairness | nothing is reported as sent that was not mailed; with locks that last one delivery at a time; completed jobs are done; a waiting job completes or uses up its attempts |
| `outbox_faults` | 2 events, 1 request, 1 job slot, 2 attempts; leases that end, a Redis that refuses or restarts empty, jobs that are forgotten | the inductive invariant: jobs within their attempts, one active event, mails before SENT |
| `lifecycle` | 3 requests, 2 invoices, 3 line sets, 2 numbers | totals keep their lines, no orphans, a paid invoice stays, the inductive invariant (numbers differ included) |
| `accounts` | 3 users, 2 organizations, 3 addresses, 2 tokens, 2 requests at a time, 4 in all; from an empty directory, or one of each role with a member that has an administrator, has none or does not exist | revoked sessions end, members with their administrator, lists agree with single reads, the inductive invariant |
| `reporting` | 2 invoices of 2 kinds (and duplicates), 4 users (one a member without administrator, one deactivated), 2 organizations, 2 currencies, 2 payments, 2 days across the end of a month, 1 disturbance, lists of the best 1 | seven statements about what readers show: below |
| `platform` | 2 handlers in each of six parts; 2 states and 2 accounts; 2 object keys; 2 versions of an invoice; tokens of two lives; 2 products with one SKU; 1 event | below |

`reporting` asks that lists and payments show exactly what may be opened (`ListAgreesWithAccess`); that
every invoice is in one column, every card counts its column, and list and detail show the same unless a late write
parted row and payments, in keeping with the column unless one replaced the status (`BoardAgrees`); that no figure of a dashboard, report or forecast rests on a row its reader
may not open (`FiguresWithinAccess`); that revenue is what the invoices say was paid, also after refusals, refunds and
repeated completions, as long as no late write parted them (`RevenueIsPaid`); that the counts of four places agree whatever comes late,
and customers are new or old (`CountsMakeUp`); that what is owed and late is
the same in five places (`OpenBalancesAgree`); and that periods add up to their range and quarters, months,
weeks and presets fit every day of a year (`PeriodsHold`). Where the code differs by design or by mistake the
property says so: a failed repetition of a mail makes a customer new again, a report on nobody shows everybody's payments (`report.repository.ts:651`), an invoice of
nothing is shown as paid.

`platform` asks, part by part: an OAuth state is spent once (`StateSpentOnce`), connections are vouched for
(`ConnectionsAreVouched`), and a gateway row is of one account (`RowIsOneConnection`); a row names an image that is there, a
branding logo always (`LogosAreThere`); a linked PDF is there, and the first mail shows the lines its delivery
read, unless the invoice was cancelled while the mail was queued and an edit was written over it then (`FirstMailIsExact`); a token from the cache outlasts the margin (`CachedTokenLasts`); documents refer to
rows, shared SKUs and lost products come only from requests that overlapped, one category per name
(`CatalogueHolds`); an event is acknowledged unsettled only beside another delivery
(`AcknowledgedIsSettled`); one receipt per payment, and one that counts as sent was mailed (`OneReceipt`).

Runs that find a violation; each is a finding, a place where the code does something else than its tests,
comments or messages say:

| Run | Refuted | How |
|---|---|---|
| `settlement_balance` | the stored balance is that of the payment records | a webhook that read PENDING writes FAILED over COMPLETED |
| `outbox_queued` | "already queued" means that a job will mail | the attempts are used up, the event stays PENDING |
| `lifecycle_edits` | an invoice's totals are those of its lines | the second of two edits does not see the first one's items |
| `reporting_summary` | summary cards count only what the user can access | a second OR replaces the access filter of the overview count |

**Known deviations without a run.** The modules state four more properties that do not hold; each names its place
in the code, and adding it to the configuration shows the behaviour: `Settlement!PaidNeverCancelled`
(`MCSettlementStripe.cfg`; a cancellation's check is older than the payment), `InvoiceOutbox!NoMailAfterCompletion`
(`MCOutboxLease.cfg`; of two runs of a job the second looks at the event before it has the lock),
`Catalogue!SkusAreUnique` (two creations check before either writes) and `InvoicePdf!StoredPdfIsStable` (two
handlers that both saw no PDF each store one).

**Why these bounds.** Every race of settlement known from the code is between two handlers over one invoice, and each
handler can run any number of times one after another. Two units let a payment cover half, all or (amount 3) more than
the total. Two sessions let one supersede the other and let an intent meet a row that is not its own. In the outbox
two events are needed for recovery and requests to compete over which one is active, two job slots for a job that is
given out twice. With one attempt a job can still run several times, since a stalled job is given out again without
counting an attempt; the retries after a failed attempt are in `outbox_faults`, and the instance of `outbox_lease` with
two attempts (618,208 states) passes as well but takes too long for a routine run. Three requests on two invoices let
two edits overlap while a third deletes, issues or takes the number. Three accounts are one of each role, and four requests
let a login, a change of status, an edit and a deletion of sessions overlap in every order. Two invoices let one be counted
where the other is not; two days across a month's end meet every boundary of a period. One disturbance, before or after any other step, shows what each kind
of late write does to every figure by itself; the proofs have any number of them together. In the parts of `platform` every race known
from the code is between two handlers over one row. What the bounds cannot show the theorems do: safety properties marked in
section 5 hold for every value of the constants. That includes Stripe and PayPal on the same invoice, which is not a run.

**Bounds that only limit the instance**: `MaxBegun` and `MaxRevoked` (requests begun, revocations counted) in `Accounts`,
`MaxPayments`, `MaxDisturbances` and `LastDay` in `InvoiceBooks` (`TopRows` is 8 in the code and 1 in the instance), `MaxTime` in `GatewayConnection` and `PayPalAppToken`, `MaxOffers` in
`StoredLogos`, `MaxVersion` and `MaxMails` in `InvoicePdf`, `MaxSends` in `WebhookDelivery`, `MaxNumber` in
`InvoiceLifecycle`. `MaxAttempts` is 5 in the code and 1 or 2 in the instances.

**Symmetry** is over ids that no definition names (handlers, manual ids, sessions, events, job slots, invoices, lines, tokens,
OAuth states, accounts), and never in a liveness run. **Deadlock** is checked in `lifecycle` and `platform`. In `Settlement`, `InvoiceOutbox`,
`Accounts` and `Reporting` the system really may stop: all ids used, all events delivered, all attempts used up, the last day over.

**Fairness.** `Settlement`: strong fairness for the next step of each handler in progress. Node's event loop runs an
awaited continuation once its answer is there, and PostgreSQL queues the waiters of a row lock and breaks deadlocks,
so a handler that can go on again and again does. Nothing is assumed of customers, providers and browsers.
`InvoiceOutbox`: weak fairness for steps of handlers, for the supervisor that starts the worker, for BullMQ's backoff and its
detection of a job whose worker is gone; strong fairness for taking a waiting job, since a worker that dies and restarts disables
that again and again. No fault is assumed to happen or to stop. The other modules state safety only: their handlers wait for
nobody, so that ending is only a matter of each being continued.

## 5. Proofs

All theorems are about the specification for arbitrary constants, under the assumptions the modules name:
`TotalAssumption`, `TxnsAssumption`, `NilAssumption` (a positive total, finitely many transaction ids, the three kinds disjoint),
`OutboxAssumption`, `LifecycleAssumption` (ids are distinct from `Nil`, at least one attempt), `AccessAssumption`,
`AccountsAssumption` (ids are distinct from `None`; in the directories it starts from addresses differ and a member's administrator, if it has one, is an administrator of its organization), `GatewayAssumption` (ids are
distinct from `Nothing`, super administrators are not other users), and those of the parts of `Platform` (ids are distinct from
`Nothing`, the clock's margin and the lives of tokens are numbers), and those of the books: `CalendarAssumption` (a month has a day at least),
`BooksAssumption` (customers, drafts and users are rows; administrators and members have an organization; an invoice is not due before its date),
`ExpensesAssumption`, `DatesAssumption` (no draft is due more than two weeks after the last day; it only names a range, `Ever`, that holds all dates)
and `YearsAssumption` (whole years, with one before and one after those that are asked about; real calendars go on in both directions).

- **`UnitSumsProofs`** - what a sum is when a payment is added, removed or shrunk, and that the sums of groups add up to the
  sum of all (`SumOfGroups`: the units of a group are numbered, and that numbers the units of the sum of sums). A sum is the
  cardinality of a set of units, so these follow from the library's facts about cardinality; a fold would have needed an induction.
- **`SettlementProofs`** - `IInv` is inductive; from it `TypeOK`, `NoOverpayment`, `StatusMatchesAmount`, `OneEntryPerCapture`.
  `NoOverpayment` is not inductive by itself: a handler about to commit credits its amount on the strength of a sum it
  took earlier. The invariant says (`LockedSumOK`) that whoever is at `commit` holds the invoice row and that its sum still covers
  the other COMPLETED rows. Only the lock's holder adds to them. Everybody else (refunds, FAILED writes, supersession) goes without the
  lock, but only takes away, so the sum can only be too large (`NoCreditShrinks`, `NoCreditFits`).
  A second invariant, `BackingInv`, is why `StripeCreditsBacked` holds although a payment intent may complete the row of another
  session: each row of a provider asks for all that manual payments leave open, so only one can be COMPLETED at a time and then the
  invoice is paid; and the row that an intent completes is of the amount that was paid. It needs that a session not yet offered
  belongs to one checkout (`CheckoutsApart`). The statement has no assumption on the providers: it also covers Stripe and PayPal on
  one invoice (TLC agreed on 2 handlers, 1 manual id, 1 session and 1 order: 2,489,987 states, too long for a routine run).
  `StoredAmountCoversRows` holds as long as no refund commits (`StoredCoversUntilRefund`), hence always where there are no orders of
  PayPal (`StoredCoversRows`): only the commit of a settlement raises what is paid, and it stores at least that much.
  `SettlementRefinesLedger`: under the first invariant every step of `Settlement` is a `Credit`, a `TakeBack` or a stutter of
  `InvoiceLedger`, so `Spec => ImplementsLedger`.
- **`OutboxProofs`** - `IInv` is inductive under every fault; from it `TypeOK`, `SentMeansMailed` and `CompletedJobIsDone`. The
  strengthening is that a job at `issue` or `complete` has mailed, also when its event was meanwhile recovered or given out again, and
  that only a job with attempts left is waiting or running. `DeliversAlone` assumes `Reliable` and shows that a handler that
  was granted the lock still has it (`LockKept`).
- **`LifecycleProofs`** - `IInv` is inductive; from it `TypeOK`, `TotalsHaveLines`, `NoOrphanLines`, `PaidInvoiceStays` and
  `NumbersDiffer`. The strengthening (`DeletesAlone`): a deletion that has its row keeps it, the items it found cover all there are, and no payment
  appears; both hold because every writer of a row that refers to the invoice waits for that lock.
- **`AccountsProofs`** - `IInv` is inductive; from it `TypeOK`, `RevokedSessionsEnd`,
  `MembersWithAdministrator` and `MemberListAgrees`. The strengthening says what an actor read long ago may still rely on (its role,
  and its organization unless it was moved), and that a session older than its user's last revocation has a deletion coming or was spared.
- **`GatewayProofs`** - `IInv` is inductive; from it `TypeOK`, `StateSpentOnce`, `ConnectionsAreVouched` and
  `RowIsOneConnection`. The strengthening says what each step of a callback has established (`RequestOK`) and that this survives all
  others: a known state keeps its provider, its starter and its expiry, and connections are only added (`StillOK`). A test that writes back
  an old row writes one that some callback made whole.

- **`PlatformProofs`** - the invariant `EveryPart` of `PlatformSpec` is the conjunction of those of the parts; a step of one part leaves the
  variables of the others. Part by part: *logos* - a key that one request alone set out to name is in the store from its upload
  until its row stops naming it, and nobody else erases it (`KeyOK`); only keys that were offered repeatedly are excepted. *PDF* - a job that saw
  the invoice issued or cancelled keeps reading the same lines until an edit comes late, and whatever is stored before the first mail shows
  those (`PdfIsOfIssue`, `FirstOK`).
  *Token* - a fetch remembers a moment before the token was issued, so that the cache never believes longer than the token lives, unless the
  life is below the floor. *Catalogue* - a request that found no row is wrong only about what was written since it looked (`SinceOK`,
  `LineOK`), and whoever wrote that overlapped with it. *Delivery* - an event is marked only when it was dealt with, and whoever holds its lock is at
  work or has failed (`EventOK`); one claimant at a time has the receipt (`ReceiptOK`).
- **`ReportingProofs`** - all seven properties of `reporting`, for any number of users, organizations, invoices, customers, currencies and
  expenses, months of any lengths and any number of late writes. `IInv` of the books is inductive (`BooksInvariance`): every row carries
  copies of what others say, and the invariant says how long the copies stay true - a payment always has the organization of its invoice; unless the
  invoice is `parted`, its `paid` is the sum of its completed payments, all in its currency; unless it is `restated`, its status says how much that is and
  its total covers it; what is open was mailed, the last time without success at worst; no date is later than `Ever`; the payments of an invoice are
  numbered, so that those a refund misses are told from those it counts. Without these no two figures would agree: revenue
  is selected by the payment's copy of the organization, the groups by the invoice's. On top of it the properties hold in every
  state: a scope selects only what its reader opens (`WithinIsOpened`), the groups by any key add up (`SumOfGroups`), and what is open is late or
  awaited (`OpenIsLateOrAwaited`). For the periods, months are sums of their days: months start in order (`MonthsInOrder`), every day is
  in exactly one (`DayHasMonth`: as many months have started as there are before it), and the months of the days of a range
  are all those from its first to its last (`PeriodsOfDays`), so that no row falls between two buckets.
**Only model-checked**: the liveness properties (`EveryRequestEnds` of `settlement_paypal` and `JobEnds` of `outbox_lease`; fairness is out of the prover's
reach), and the violations. Every safety property of the passing runs is stated by a theorem.

## 6. What is left

In the order of what it would add:

| | What | Statement |
|---|---|---|
| 1 | `InvoiceLifecycle` with share tokens | the address handed out first keeps opening the invoice, which two requests at once refute |
| 2 | Arithmetic of lines | bounds of rounding against a reference definition |

## 7. What is not modelled, and why

- **HTTP surface, rendering, templates**: parsing, layout and formatting. Inputs of the models are those the validators let through.
- **Share tokens** (`invoice.service.ts`): a token is written by whoever finds none, and two requests at once each write one; nothing else
  reads it in a handler. A duplicate is an insert with another invoice's contents: an action of `InvoiceBooks`, and a creation in `InvoiceLifecycle`.
- **Delivery without a queue** (no Redis configured): development and tests only.
- **Provider clients** beyond tokens: what they answer is modelled in `Settlement`; how requests are signed and encoded is not.
- **The dashboard's cache** of a minute and the moments at which the queries of one answer read: figures are compared in one state.
- **Names, addresses, slugs, settings, the audit log, seeds**: single writes that no other step reads.
- **Pages and sorting** of lists, wording of insights, the tax report (tax is always zero) and the collection target.
- Hazards of modelled parts that no property covers, or that a property excepts, say why in their note in `PROJECT.json`.
