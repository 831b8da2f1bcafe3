# hushd: TLA+ models, checks and proofs

This directory holds TLA+ modules of the hushd API and worker (`src/apps/api`,
`src/apps/worker`, `src/packages/*`), TLC configurations that check them on
small instances, and TLAPS proofs that hold for every value of the constants.
`PROJECT.json` lists the runs, what each one checks, the source lines every
definition stands for, the hazards the properties are aimed at and the findings.

    tlc -workers 2 -config BillingWebhook.cfg MCBillingWebhook
    tlapm BillingWebhookProofs.tla

## 1. The system

hushd is a subscription platform for creators: a NestJS API over PostgreSQL
(Prisma), a BullMQ queue in Redis, a worker that scans and promotes uploads,
payment processors that call webhooks, and an identity vendor that does the
same. The code opens a database transaction in exactly one place
(`processEvent`); everywhere else a request is a sequence of single statements
between which any other request may run, and after any of which it may end.
That, rather than any single function, is what is hard to test here.

| Component | State it keeps | Operations | Interacts with |
|---|---|---|---|
| Billing webhook (`billing/billing-webhook.service.ts`, `webhooks/`) | `processor_events`, `transactions`, `ledger_entries` | `ingestWebhook`, `processEvent` | processors (deliveries, retries, replays), database constraints |
| Sessions (`auth/auth.service.ts`) | `users`, `sessions` | `register`, `login`, `refresh`, `logout`, `revokeAllSessionsForUser`, TOTP | clients holding tokens |
| Media (`media/`, `queue/`, `apps/worker`) | `media`, the queue, `moderation_queue_items`, object store | `initUpload`, `completeUpload`, the job handler, `promoteIfClean` | BullMQ, scanner |
| Verification (`verification/`) | `age_verifications`, `id_verifications` | start, admin decision, vendor decision, the policy guard | vendor, compliance, creator tools |
| Compliance (`compliance/`) | `compliance_events` | `emit` | every component that must leave a trace |
| Creator tools (`creator/`) | `posts`, `subscription_tiers` | `createPost`, tiers, dashboard | guard, media, compliance |
| Subscriptions (`billing/billing.service.ts`) | `subscriptions`, `audit_logs` | `checkout`, `cancelSubscription` | processor adapter, feed |
| Messaging (`messaging/`) | `conversations`, `messages`, `tips`, `transactions` | send, `unlockPpv`, `sendTip` | processor adapter, feed entitlement |
| Feed (`feed/`) | none | entitlement, listing | subscriptions, posts |
| Moderation, admin, payouts (`moderation/`, `admin/`) | `content_reports`, `moderation_queue_items`, `payouts` | `createReport`, `triageReport`, `moderationQueue`, `resolveModeration`, `approvePayout`, `markPayoutPaid` | media worker |
| Risk (`risk/`), analytics | none | counts over `transactions` | webhook, messaging |
| Adapters and registry (`integrations/`), webhook signatures | none | `getById`, `verifyWebhook`, `parseWebhookPayload` | webhook, processors |
| Money, jurisdiction (`packages/shared`) | none | pure functions | webhook; nobody calls the jurisdiction policy |
| Sealing, guards, request context, reconciliation job | none or a stub | cryptography, filters, logging | auth |
| Web and admin front ends, infrastructure | none | static pages, deployment skeleton | - |

What makes each of them correct:

- *Webhook*: a payment is booked once and completely, the ledger balances, the
  book only grows, what the processor is told to stop retrying left a trace,
  and every well-formed payload is answered in the end.
- *Sessions*: rotation spends the presented session, a spent one is never
  honoured by a later request, reuse ends the sessions of its user and of
  nobody else.
- *Media*: only an object the scanner called clean becomes public, a job that
  completed did its work, every job settles, and no completed upload is
  forgotten while its row says PENDING.
- *Verification*: who publishes is approved of age and identity at that
  moment, every post leaves its media and its evidence once, the compliance
  trail tells only decisions that were made, leaves none out, and its end is the
  decision that stands.
- *Purchases* (subscriptions, messaging, feed): a message is unlocked by its own
  payment and a tip exists with its own, a charge is delivered or its request
  died, a request after another never charges again, what a fan sees or may
  write was paid for, a cancellation is audited.
- *Back office*: every report comes before a moderator, what a moderator is
  shown is not pushed off the page, a recommended hold is justified although
  the counts behind it are of three moments, a decision about a payout is in the
  audit log, and a second factor in force is one whose owner proved to have it.
- *Adapters*: only what the processor itself signed is parsed, and what is
  parsed is an event the webhook can work on.

## 2. Modules

| Module | Models | Used by |
|---|---|---|
| `Money` | cents, basis points, `platformFeeCents`, `netAfterFeeCents`, messaging's 15 percent | `BillingWebhook`, `Purchases` |
| `GeneralLedger` | abstract: an append-only double-entry book | `BillingWebhook` |
| `BillingWebhook` | `ingestWebhook` and `processEvent` with database, crashes and retries | `MCBillingWebhook`, `BillingWebhookProofs` |
| `AuthSessions` | registration, login, refresh, logout, reuse detection | `MCAuthSessions`, `AuthSessionsProofs` |
| `Outbox` | abstract: what a request records in one statement it tells of once in a second one, or loses | `Verification`, `Purchases`, `BackOffice`, `OutboxProofs` |
| `ScanGate` | abstract: public only after a clean verdict | `MediaPipeline` |
| `MediaPipeline` | `completeUpload`, BullMQ, the worker's handler, promotion | `MCMediaPipeline`, `MediaPipelineProofs` |
| `Adapters` | registry, signature check and parsers of the shipped processors | `MCBillingWebhook`, `AdaptersProofs` |
| `Verification` | verification requests, guard, `createPost`, compliance events | `MCVerification`, `VerificationProofs` |
| `Purchases` | checkout and cancellation, messages, unlocks, tips, feeds | `MCPurchases`, `PurchasesProofs` |
| `BackOffice` | reports, moderation queue, payouts, risk score, TOTP enrolment | `MCBackOffice`, `BackOfficeProofs` |

Each component module declares its `CONSTANTS` with a named assumption, has one
action per statement, or group of statements nothing can come between, that
changes or reads shared state, and ends with its properties. `MC...` modules
give the constants their values for TLC and `...Proofs` modules hold the
theorems. Definitions marked `(* mutant: ... *)` are not part of a
specification: each is the definition after it with a plausible bug, and
`PROJECT.json` names the property that notices it (`VendorApplySilent` goes with
`VerificationLive.cfg`).

### Outbox

Three components record a fact in one statement and tell of it in another, with
no transaction around the two: `createReport` and the moderators' queue item,
`createPost` and its compliance event, a charge and the tip it pays. `Outbox` says
what that can promise: a recorded fact is on its way (`untold`) until it is told,
once and unaltered, or lost with its request. Each component maps its tables and
handlers to it (`Box == INSTANCE Outbox WITH ...`):

| Component | `recorded` | `untold` | `told` |
|---|---|---|---|
| `BackOffice` | reports with their target | reports a handler is about to queue | queue items that came from a report, by item |
| `Verification` | posts with their author | posts whose request is attaching media or about to emit | events that name a post whose media are there, by position |
| `Purchases` | charges for tips with amount and parties | charges whose request is about to write the tip | tips |

The steps of the other requests, of the media worker, of moderators and vendors
must all map to stuttering: none of them may add, repeat or withdraw what is told.

### BillingWebhook

A handler's `pc` says where `ingestWebhook` is: `lookup` (before `findUnique`,
or with no event left before the response), `book` (in the `$transaction`),
`catch` (in the catch block). `Receive` starts a request on any payload, also
one that is being handled or was answered: processors retry and operators
replay. `AnswerDuplicate`, `LookupMiss`, `RejectAmount` are the outcomes of the
lookup; `Book` and `BookAborted` those of the transaction (`Insertable` gathers
the unique indexes, foreign keys and the Int range); `RecordFailure` is the
upsert of the catch block; `Respond` is the 2xx. The failures are actions of
their own: the lookup fails (`LookupError`), the transaction fails before its
commit (`BookError`) or its acknowledgement is lost after it
(`BookReplyLost`), the upsert fails (`RecordFailureError`), the process dies or
the answer is lost (`Crash`).
The interactive transaction is one step: at read-committed isolation others see
none of its rows before the commit, it reads nothing, and a unique index makes
a second insert of one key wait for the first and then fail.

### Adapters

`Adapters` extends `BillingWebhook` with what happens before the loop of
`ingestWebhook`. `Accepted` is `getById` and `verifyWebhook`: the processor of
the URL is enabled, has a secret, and that secret signed the body as it is
serialised again (`canonical` is false for a body the processor laid out in
another way: it is refused on every retry). `Parsed` is `parseWebhookPayload`
of either adapter: each has its own field names, falls back from the event id
to the transaction's reference, takes a missing type for a charge and a missing
amount for zero, and gives no event for a body without the reference. Neither
ever names a payer, so `processEvent` marks their events PROCESSED and books
nothing: `StubsBookNothing` proves it of every delivery and retry. The model of
`BillingWebhook` therefore also has events with payers, which a real adapter
behind the same interface gives. `MCBillingWebhook` is the composition: it adds
`StubDeliveries`, what four requests come to, to the payloads of the run.

### AuthSessions

`refresh` is `RefreshLookup` (or `ReuseDetected`), `RevokePresented`,
`IssueTokens`; reuse detection ends with `RevokeAll`; `register` is
`RegisterLookup`, `CreateUser` (or `CreateConflict`), `IssueTokens`. `IssueLost`
is an insert whose answer is lost, `Abort` a request that ends at any point.
A session's `parent` and `by`, and `cutoff`, are history for the properties: no
guard reads them. Clients present only tokens that were handed out. No code
removes a session (a logout only sets `revokedAt`): `TypeOK` says that the
sessions issued so far are the rows there are.

### MediaPipeline

`CompleteUpload` updates the row, `Enqueue` adds the job, and the request may
end between the two (`UploadAborted`). A worker runs `Take`, `Scan`, `Record`,
`Promote` or `Moderate`, `Finish`; `Throw` ends an attempt at any statement, at
`finish` because the database made the last change and its answer was lost;
`Die` the worker, and `Stall` is BullMQ putting a job back whose lock expired,
whether its worker is dead or merely slow. The first worker then goes on beside
the second. `unqueued` is history: the media whose request ended between update
and enqueueing, the one exception of `PendingIsOnItsWay`.

### Verification

The two tables are one sequence of rows with a `kind`. A request writes its row
(`Start`, `AdminSet`, `VendorApply`) and then emits its event (`Emit`); a vendor
decision looks its row up first (`VendorLookup`); a post passes the guard's two
queries (`GuardAge`, `GuardId` or `GuardRefuses`), is created and public at once
(`CreatePost`), gets its media if it has any (`AttachMedia`) and emits; `Fail`
ends a request anywhere. An event names what its payload names: the row, for
the start of a verification and an administrator's decision; only the vendor's
session, for the vendor's (`ToEmitVendor`), which two rows of a user may share;
the post, for `createPost`. `approved`, `decisions`, `last`, `overtaken` and
`dropped` are history.

Three properties quote `docs/runbooks/2257-records-program.md`, and the code
keeps none of them (findings 5 to 7): `PublishedWhileVerified`,
`DecisionsAreTracked` and `TimelineEndsWithDecision`. What it does keep is
checked and proved beside them. `PublishesVerified` excepts only a request whose
creator lost an approval after the guard's first query (`overtaken`).
`TrailIsFaithful` says that what the trail tells was so, of the row an event
names, or of some row of the session it names.

### Purchases

| Method | Actions, one per statement |
|---|---|
| `createSubscriptionCheckout` | `Checkout`, `UpsertSubscription` |
| `cancelSubscription` | `CancelLookup`, `CancelRemote` (if there is a subscriptionRef), `CancelRow`, `AuditCancel` |
| `sendMessage` | `SendLookup`, `UpsertConversation`, `CreateMessage`, `CreatePpv` (if a price is asked) |
| `unlockPpv` | `UnlockLookup`, `ChargeUnlock` or `ChargeRefused`, `SetUnlock` |
| `sendTip` | `ChargeTip`, `CreateTip` |
| `fanFeed`, `creatorFeed`, `isEntitled` | operators over `subscriptions` |

`Fail` ends a request at any statement. `now` is `Date.now()`: the key of a
charge is the message (or the user, for a tip) and the millisecond, and the
unique index of `transactions` refuses a key that is taken (`KeyTaken`).
`Checkout` opens a session of the processor (`opened`), `UpsertSubscription`
writes it into the row, over the one before. `Activate` is the processor's
integration, which alone makes a row ACTIVE: the session the row names is paid,
for the first time or again, whatever became of the row since. `PayUnknown` is
the payment of a session that no row names: one whose checkout has not got to
its upsert, or died before it, or whose place in the row a later checkout took.
The integration is assumed to find the row by that session, so it changes
nothing. `activated`, `lostCharges`, `lostCancels` and a charge's `by` are
history. `SecondChargeNeedsLoss` is about the charges of one handler, which
serves one request after the other: two requests at once do charge a message
twice, a millisecond apart, since nothing between `unlockPpv`'s query and its
update keeps them from it. The same holds of `SpentOncePerHandler` in
`AuthSessions`.

### BackOffice

`createReport` is `CreateReport` and `Enqueue`; `QueueScanned` is the media
worker's `moderationQueueItem.create`. `Page` is the query of `moderationQueue`:
the first `PageSize` pending items by priority and age. `payoutRiskScore` sends
its three counts at once: `RiskBegin`, one `Count` per query in any order,
`RiskAnswer`, while `Book` books transactions. `RiskScore` is the rounded and
capped percentage as doubles give it: a percentage at a half is rounded up,
except 14.5, 28.5, 56.5 and 57.5 (`RoundsDown`), of which the double is a little
less (114/400 scores 28, not 29). `enableTotp` is `EnableLookup` and `EnableTotp`,
between which `SetupTotp` may replace the secret; `raced` remembers exactly
those secrets and `proved` the ones of which a code was shown. `ApprovePayout`
and `MarkPayoutPaid` have no precondition and leave `audit`, the payouts with an
entry in `audit_logs`, alone, as in the code. Requests of one
statement, or of a lookup by id followed by an unconditional write, are one
action without handler. `lost`, `proved`, `raced` and `began` are history.

## 3. Runs

| Run | Instance | What it shows |
|---|---|---|
| `billing_webhook` | 2 handlers, 2 faults, the payloads: a charge; an amount beyond the Int range before a second report of the charge's transaction; a malformed amount before a good event; what the adapters parse of four requests (a payer-less event with a negative amount, and nothing) | `TypeOK`, `BookedOnce`, `BookingsAreRecorded`, `LedgerBalanced`, `ProcessedIsBooked`, `AckedIsRecorded`; the ledger refines `GeneralLedger`; `EventuallyAcked` |
| `billing_duplicate` | 2 handlers, one charge, no fault | finding: the loser of the race marks a booked event FAILED |
| `billing_replay` | one charge, one fault | finding: an event that failed once is a "duplicate" for ever and is never booked |
| `auth_sessions` | 2 users, 2 handlers, 3 sessions | `RotationSpendsParent`, `SpentOncePerHandler`, `ReuseEndsEarlierSessions`, `MassRevocationNeedsReuse` |
| `auth_family` | 1 user | finding: a refresh in flight survives reuse detection |
| `media_pipeline` | 1 media, 2 staging objects, 2 workers, 2 jobs, 1 attempt, 1 stall | the pipeline refines `ScanGate`; `CompletedJobsAreCarriedOut`, `OkWasCleared`, `PendingIsOnItsWay` |
| `media_live` | 1 job, 2 workers, 5 attempts, 1 stall | `JobsSettle` |
| `media_blocked` | 2 staging objects, 1 worker | finding: a media that is public stays so when it is blocked |
| `verification` | 1 creator, 2 handlers, 2 rows, 6 requests, 1 failure | `PublishesVerified`, `PostsAreEvidencedOnce` (posts implement `Outbox`), `ApprovalsInTrailAreTrue`, `TrailIsFaithful` |
| `verification_timeline` | 3 requests, no failure | finding: the trail ends with a decision that was overwritten |
| `purchases` | 1 fan, 1 creator, 2 tiers, 4 posts, 2 handlers, 1 message, 2 charges, 2 milliseconds | `UnlocksArePaid`, `TipsArePaidOnce` (tips implement `Outbox`), `SecondChargeNeedsLoss`, `MessagesWerePaidFor`, `OneFeeSchedule`, `FanFeedIsPaidFor`, `ChargesAreDelivered` |
| `back_office` | 2 handlers, 2 creators, 2 targets, a page of 1 item, a hold threshold of 29, 2 reports, 3 items, 2 secrets, 5 requests, 1 failure | `ReportsAreQueuedOnce` (reports implement `Outbox`), `PageIsStable`, `HoldIsBracketed`, `EnabledSecretWasProved` |

`PROJECT.json` lists these twelve runs, with a mutant of the code for each
property of a passing one. Six further configurations of the same modules are
run by hand: five more findings, each a shortest counterexample, and a liveness
property.

| Configuration | Module | Instance | What it shows |
|---|---|---|---|
| `VerificationPublish.cfg` | `MCVerification` | 6 requests, no failure | finding: `PublishedWhileVerified` is violated, an approval withdrawn between guard and `createPost` is overlooked |
| `VerificationUntracked.cfg` | `MCVerification` | 3 requests, 1 failure | finding: `DecisionsAreTracked` is violated, a decision whose request died is in force and not in the trail |
| `PurchasesUnaudited.cfg` | `MCPurchases` | as `purchases` | finding: `CancellationsAreAudited` is violated, a cancellation whose request died is not in the audit log |
| `PurchasesEntitlement.cfg` | `MCPurchases` | as `purchases` | finding: `CreatorFeedIsPaidFor` is violated, a checkout nobody paid opens the creator's feed |
| `BackOfficeAudit.cfg` | `MCBackOffice` | as `back_office` | finding: `PayoutDecisionsAreAudited` is violated, payouts are approved and paid without an audit entry |
| `VerificationLive.cfg` | `MCVerification` | 4 requests, 1 failure | passes: `DecisionsAreRecorded`, which `VendorApplySilent` breaks |

### Bounds

- `MaxInt = 1000` stands for 2^31 - 1: the payloads have an amount below it
  whose fee is rounded (999), one above it (1001) and a negative one (-7). The
  proofs are for every `MaxInt`.
- `MaxFaults = 2` allows a failure in the transaction followed by one in the
  catch block or a crash, and a failure in each of two deliveries of a payload.
- `MaxSessions = 3` allows a session, its two concurrent successors, and reuse
  of the first while another refresh is in flight. When the table is full
  handlers can still `Abort`, so nothing hangs on the bound.
- Media: two jobs for one media, of which each may run on two workers at once
  through a stall. `MaxAttempts = 1` keeps the safety run small, since a job
  that stalled is run again anyway; the liveness run has the five attempts of
  `queue.module.ts:29` and BullMQ's single stall, with one job.
- Verification: five requests are the shortest way to a post (start and approve
  both kinds, publish); the sixth lets a decision, another start or a second
  post fall between the guard's queries and the statements of `createPost`. Six
  requests without a failure give the finding of `VerificationPublish.cfg`,
  whose trace uses all of them. The liveness run has four: two decisions that
  overlap, or one decision by the vendor and what may overtake it. Behaviours
  end when the requests are used up, which is why deadlock is not checked there.
- Purchases: two tiers of one creator let a fan pay for one and check out the
  other; two charges and two milliseconds allow a second charge of one message
  and a refused key; one message suffices, as only charges of the same message
  and writes to the same row interact. The price, 107, is no multiple of 20, so
  the fee is rounded. The proofs are for any of these.
- Back office: a page of one item is full with the first, so a second report and
  an item of the worker both compete for it. The threshold is 29, where doubles
  matter, and the past of a creator is 28 chargebacks in 399 transactions: a
  refund more makes 114/400, 28.5 percent and rounded down, below it; a second
  refund makes 116/401, 28.9, above it only by rounding; a chargeback more makes
  116/400, 29, so bookings between the counts matter.
  Two secrets are one set up and one that replaces it while the first is
  being enabled. Proved for every threshold, page size and past.
- Symmetry (`MCAuthSessions`, `MCMediaPipeline`, `MCVerification`, `MCPurchases`,
  `MCBackOffice`) is
  declared over sets whose members are only compared for equality, and only in
  runs without liveness properties.

### Fairness

- `BillingWebhook`: a handler that can go on does (weak fairness of `Process`),
  and a processor delivers a payload again until it is answered 2xx (strong
  fairness of `Retry`, because a free handler is not always there). The first
  is Node's event loop with database calls that return or throw; the second is
  what processors promise and the response codes of the controller rely on.
  Crashes need no fairness and are finitely many.
- `MediaPipeline`: workers that run go on, a waiting job is taken, and BullMQ's
  stalled check finds a job nobody runs. Throwing, dying and stalling under a
  live worker are never forced and never excluded.
- `Verification` (`VerificationLive.cfg`): a request that was begun goes on.
- `AuthSessions`, `Purchases` and `BackOffice` are checked for safety only:
  nothing there retries, a request that dies is over.

## 4. Proofs

All theorems hold for any number of handlers, workers, users, payloads, keys
and faults, from the assumptions named in the modules (bounds are naturals, the
"no such value" constants are not members of the sets they complement, events
have the fields the adapter interface gives them).

- `BillingWebhookProofs`. `BookInv` strengthens the book's invariants: ids in
  use lie below `nextTxnId` (otherwise a new row could share its id, and its
  postings, with an old one), every transaction adds up, and the ledger is
  exactly the union of the postings of the transactions. The lemma `TableSteps`
  reduces all actions to three effects on the tables: one booking of an
  insertable event, one row set to FAILED, or nothing; each invariant is then
  shown against those three. That fee and net add up to gross for every amount
  (a floor and a clamp at zero) is a lemma about `PlatformFeeCents`. `WorkInv`
  says that what a handler has taken off its list has a row, which is what
  makes `AckedIsRecorded` inductive. `WebhookImplementsLedger` proves the
  refinement of `GeneralLedger`, under which a booking is one step and all else
  stutters.
- `AuthSessionsProofs`. `SessionInv` adds that ids are used in order, and what a
  handler between two statements may rely on: the session it is about to revoke
  exists and belongs to its user, and the session it is about to issue a
  successor for is revoked already and has none by this handler yet. With
  `RotationSpendsParent` it gives `SpentOncePerHandler`, and
  `MassRevocationNeedsReuse` follows from the same invariant as an action
  property.
- `MediaPipelineProofs`. `WorkInv` says what a worker has behind it at each
  statement, including a worker whose job was meanwhile given away: it holds a
  verdict on the very object the job names, and at `finish` that verdict has
  been carried out. `JobInv` ties owners, states and attempts of jobs.
  `PipelineImplementsGate` proves the refinement of `ScanGate`. `PendingInv`
  strengthens `PendingIsOnItsWay`: an active job keeps a PENDING row from being
  forgotten only as long as its owner has not written the row yet (`Unrecorded`);
  afterwards the row is PENDING through a later completion, which has a request
  or a job of its own.
- `VerificationProofs`. `VerificationInv` says, per handler, what its pending
  row and event refer to, and that an approval that was read or is about to be
  emitted is in the history; `TrueEvent` is what an event tells of the row, or
  of the session, it names. `GuardInv` gives `OnlyVerifiedPublish`: past its
  first or second query a request still has the approvals it found, or is
  `overtaken` (`DecideGuard` is the step that matters: a decision takes away an
  approval only from those it puts into `overtaken`). `TrackedInv` keeps every
  decision in the trail or in hand, and `TimelineInv`, for one handler, the end
  of the trail at the last decision. `EvidenceInv` says of every handler that
  holds a post that the post exists, has the author the event will name, and has
  its media once only the event is left; `EvidenceStays` reduces all actions to
  what they do to the posts of one handler.
- `PurchasesProofs`. `PurchaseInv` says, per statement, what a request may rely
  on although others ran since it looked: its message keeps pair and price, the
  charge it holds is its own, nobody else waits to price its message. Every
  charge is accounted for by the handler that made it, delivered or lost
  (`ChargesInv`), from which `SecondChargeNeedsLoss` follows at the next
  lookup. The relation `Grows` (rows, charges, tips and payments are never taken
  back) carries what the other handlers have behind them over every step.
  `FeesAgree` proves `floor(cents * 15 / 100)` and the 1500 basis points equal
  for every amount, `SubscriptionsInv` that an ACTIVE row names a tier that
  was paid for.
- `BackOfficeProofs`. `BackOfficeInv` has a part for reports (each is queued, held
  by a handler, or lost), one for scores (what has been read lies between the
  counts at the beginning and those by now) and one for secrets (while a handler
  is about to enable, the secret of its creator is the one a code was shown of,
  or is in `raced`). `HoldBracketed` combines the second with `HoldIsRounded`, the
  arithmetic of rounding and cap at any threshold, with the halves that doubles
  round down, and `RiskyMonotone`, through `QuotientAtLeast`, a
  lemma about integer division. `PageStable` counts, for a pending item, the
  more urgent ones (`MoreUrgent`): no step but the arrival of a more urgent item
  adds to them.
- `AdaptersProofs`. `ParsedIsEvent` shows that whatever is parsed satisfies the
  assumption `BillingWebhook` makes on its events. `StubsBookNothing` is an
  invariant proof over all of `BillingWebhook` with `NoPayers` as strengthening.

- `OutboxProofs`. `KeepsAccount` proves of the abstract module that every fact is
  told, on its way or lost, and that none is told twice or told and lost.
  `ReportsKeepOutbox`, `PostsKeepOutbox` and `TipsKeepOutbox` prove the three
  refinements, step by step: recording maps to `Record`, the second statement to
  `Tell`, the end of a request that had not got that far to `Lose`, everything
  else to stuttering. `...AreAccountedFor` instantiate `KeepsAccount` along them.
  Each refinement needs a `BoxInv` beyond the invariants above: a fact is in the
  hands of one handler only, and what is lost was recorded.

### What the findings need

The ten properties of the findings do not hold. The theorems below say
under which conditions nine of them do, and so prove that the cause given in
section 5 is the only one the models have. Their hypotheses and antecedents are
conditions of operation, not facts about hushd.

| Finding | Theorem | It cannot happen |
|---|---|---|
| 1 | `ProcessedStaysInOrder` | where requests are handled one at a time and nothing failed |
| 2 | `ReplayBooksWithoutFaults` | where nothing failed, and an event id stands for one event |
| 3 | `ReuseEndsFamilyInOrder` | where requests are handled one at a time, whatever is lost or aborted |
| 4 | `BlockedPublicRescanned` | to a media uploaded once whose job was never found stalled and never threw |
| 5 | `OnlyVerifiedPublish` | where no approval is withdrawn after the guard's first query |
| 6 | `TimelineTrueInOrder` | where requests are handled one at a time and none died |
| 7 | `DecisionsNotForgotten` | where no request died |
| 8 | `CancellationsAudited` | where no cancellation died between its update and its entry |
| 9 | `ActiveFeedPaid` | behind a subscription that is ACTIVE |

Finding 10 has no such condition: every decision about a payout is without entry.

`BlockedPublicRescanned` needs the most: `RescanInv` says that a job never found
stalled and never retried has at most one worker (`OneRunner`), and that, being
the only job of its media, it makes the media public as its last act
(`LastAct`): nothing is left that could scan the object again. The run that
shows finding 4 has no stalls and takes a second upload; without one a stalled
job suffices, or a job that is retried after a promotion whose answer was lost,
when the scanner answers differently the second time.

### What liveness rests on

The liveness properties themselves are checked by TLC only, but what they need
besides fairness is proved. `RequestsEnd`: every step of a request leaves less of
it to do, three statements per event and one (`Left`), so a webhook request ends
however it fares. `JobsEnd`: whatever happens to a job lowers its `Rank`, at most
`2 * (MaxAttempts + MaxStalls) + 2`, and a settled job never changes.
`DecisionsNotForgotten`: until a request dies, a decision is in the trail or in
the hands of a handler about to emit it, however often the row was decided again;
with fairness that handler emits it.

Three more invariants follow from the same inductive ones: `AnswersTrue` (the
status a payload is answered with is true of every event in it),
`SessionsComeFromAccounts` (every session has an account behind it and a
predecessor issued earlier, so families are trees), and `RejectedSeen` (what the
scanner rejected is before a moderator, or in a job that is not completed, or
the scanner contradicted itself). `PublicIsCleared` is proved of `ScanGate`
alone and carried over by the refinement.

Only model-checked: the liveness properties `EventuallyAcked`, `JobsSettle` and
`DecisionsAreRecorded`, because fairness and ENABLED are out of TLAPS' reach here.
Every other property of the passing runs is a theorem.

## 5. Findings

1. `billing-webhook.service.ts:171`: when two deliveries of one event race, the
   loser's upsert turns the PROCESSED row of a booked payment into FAILED
   (`billing_duplicate`).
2. `billing-webhook.service.ts:61`: a FAILED row left by a transient error makes
   every replay a duplicate, although
   `docs/runbooks/processor-outage-playbook.md:12` prescribes replays
   (`billing_replay`).
3. `auth.service.ts:227`: a refresh that spent its session before reuse was
   detected inserts its new session after all were revoked (`auth_family`).
4. `apps/worker/src/main.ts:61`: a second upload for a published media that
   fails its scan sets BLOCKED and leaves the public key (`media_blocked`).
5. `creator.service.ts:33`: the guard reads two approvals, `createPost` runs later
   and does not ask again, so a creator rejected in between publishes without
   the approval `docs/runbooks/2257-records-program.md:15` requires
   (`VerificationPublish.cfg`).
6. `verification.service.ts:105`: two decisions on one verification reach the row
   in one order and the trail in the other; the "decision timeline" of
   `2257-records-program.md:21` then ends with the decision that does not stand
   (`verification_timeline`).
7. `verification.service.ts:160`: a request that dies between decision and event
   leaves a decision that is never "tracked as immutable compliance event", as
   `2257-records-program.md:16` asks (`VerificationUntracked.cfg`).
8. `billing.service.ts:84`: the same of a cancellation and its audit entry,
   where `docs/architecture.md:69` says the `AuditLog` "records every mutation
   that affects earnings" (`PurchasesUnaudited.cfg`).
9. `feed.service.ts:53`: the feed of a creator asks for a subscription row, not
   for an ACTIVE one; an unpaid checkout or a cancelled subscription will do,
   where `fanFeed` and `sendMessage` ask for ACTIVE (`PurchasesEntitlement.cfg`).
10. `admin.service.ts:28`: `approvePayout` and `markPayoutPaid` make no audit
    entry,
    which the same sentence of `docs/architecture.md:69` promises of payouts
    (`BackOfficeAudit.cfg`).

## 6. What is left out

Within the modelled parts: the cryptography of tokens, signatures and TOTP codes
(what a check tells apart is modelled, how it computes it is not), token expiry,
password checks, the delay of retries, the contents of events and posts, slugs
and referral codes; a processor that refuses a checkout (nothing changes then),
the period of a subscription and `cancelAtPeriodEnd`, which nothing reads; who
moderated or approved, which nothing reads either. The processor, the identity
vendor, the scanner, BullMQ, the object store, an operator who activates
accounts and whoever requests payouts are external.

What is assumed where the repository leaves it open:

- The processor's integration finds a subscription by the session in
  `processorRefs`, the only reference a checkout leaves. One that looked the row
  up by fan and creator alone could make a row ACTIVE at a tier nobody paid for,
  since a later checkout overwrites the tier.
- The identity vendor never gives one session to two users.
- `Math.floor(cents * 0.15)` is the exact floor. The double 0.15 is less than
  0.15 by a relative 3.7e-17, under 2^-54, so the product for a multiple of 20
  cents is rounded to the integer it should be; any other product is 0.05 or
  more away from one.
- `PAYOUT_HOLD_SCORE_THRESHOLD`, 30 unless set, is a whole number from 1 to 100.
  `RoundsDown` lists the halves that doubles round down; that the list is complete
  is arithmetic outside TLA+: every quotient equal to (2n+1)/200 is one double,
  so there are a hundred products to look at, and a percentage that is not at a
  half is at least 1/(2 * volume) away from it, far above the error of two
  roundings for volumes below 2^40.
- Items of the moderation queue have the order of their insertion. In the
  database `createdAt` is in milliseconds and is set before the commit: two items
  of one millisecond have no fixed order, and one may appear before an older one
  is committed.
- `CancellationsAreAudited` is per subscription: an entry of an earlier
  cancellation counts for a later one.

Three properties make an exception of a behaviour the code has and no document
of the repository speaks of, and catch every other way to the same end:
`EnabledSecretWasProved` of a secret set up while `enableTotp` runs,
`SecondChargeNeedsLoss` of two unlocks at once, `MessagesWerePaidFor` of a
subscription that is checked out again while a message is on its way.

Hazards without a property, and why: a malformed amount stops the events behind
it in its payload, a refund is posted like a charge, an adapter drops a body it
cannot parse, a refund without event id is a duplicate of its charge, a checkout
loses the reference of the running subscription; payouts are approved and paid
in any order. The models have all of these behaviours; no document of the
repository says what should happen instead, so there is nothing to check them
against. Others have a document against them and no
property that holds: findings 8 to 10, shown by the further configurations of
section 3. The body that is signed in another layout and refused (see Adapters)
depends on processors outside the repository.

### Not modelled

- *Analytics and the creator's dashboard* only read.
- *Jurisdiction policy*: a pure function that no service calls; nothing it
  decides takes effect yet.
- *`createTier`*: one insert behind a guard.
- *Settlement reconciliation*: a stub that logs.
- *Secret sealing*: AES-GCM without state.
- *Role guards and request context*: stateless filters; the models start at a
  request they let through.
- *Front ends and infrastructure*: static pages and a deployment skeleton.

## 7. Plan

Done, in the order of importance: `BillingWebhook` over `GeneralLedger`,
`AuthSessions`, `MediaPipeline` over `ScanGate`, `Verification` with the
evidence and the timeline of its trail, `Purchases`, `BackOffice`, `Adapters` in
front of the webhook, and `Outbox` under the three components that tell of what
they recorded.

What would come next:

1. The order in which requests end: a bound on the steps of one request for
   `Verification` and `Purchases`, as `RequestsEnd` gives it for the webhook.
2. Webhook and purchases over one `transactions` table, with the risk score
   reading it: `BackOffice` stands in for both writers with `Book`.
3. A payout specification ("approved, then paid once"), as soon as the code or a
   document states one, and code that requests payouts.
4. The jurisdiction policy, once a service calls it.
5. Order-independence of the book: two interleavings of the same deliveries book
   the same payments.
