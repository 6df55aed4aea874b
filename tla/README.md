# A TLA+ model of the DocuMate server

DocuMate keeps documents and receipts for its users: they upload images, a
worker reads them with OCR and a language model, alerts remind of expiry dates,
and a monthly subscription (DocuMate PRO, paid through KakaoPay) raises the
limits. This directory holds TLA+ modules of its server, TLC configurations that
check them on small instances, and proofs that TLAPS checks for instances of any
size.

## 1. The system

Three programs share one Postgres database, one Redis and one S3 bucket:

- the **API server** (`src/src`, NestJS and TypeORM): HTTP handlers and cron jobs,
  all `async`, so that everything may interleave at every `await`;
- the **OCR server** (`src/ocr-server`, Python): a pool of threads that consumes
  the Redis list `ocr:queue`;
- the **card server** (`src/card-server`, Python): a crawler, and a worker that
  consumes `card:queue`.

Three habits of the code cause most of what is hard about it:

- *find, change, save*: a repository loads an entity, an `Object.assign` changes
  it, and `save` writes it in a later round trip. What others wrote in between
  is overwritten where the copy differs.
- *check, then act*: guards read a row several awaits before the write that they
  guard. Only the handlers marked `@Transactional()` run in a transaction, with
  Postgres's READ COMMITTED isolation, which does not close that gap either.
- *two stores*: a row and what it stands for (an image in S3, a job in Redis, a
  charge at KakaoPay, a push) are written one after the other, and a failure or
  a restart in between leaves one of them.

### Components

| Component | State | Operations | Hard because | Correct when |
|---|---|---|---|---|
| Checkout and subscriptions (`payments`, `subscriptions`) | `payments`, `payment_methods`, `subscriptions`, `users.plan` | ready, approve, change of method, cancel and fail redirects, cancel, undo | approvals overlap; transactions roll back what the provider captured; stale saves | an approval is backed by money; subscribers keep a default method; entitlement is bounded |
| Monthly billing (`payments`, cron) | the same, and a run's copies | nightly run, manual run | a run works for long through copies; runs overlap; crashes between charge and renewal | due subscriptions settle; a paid period is not charged; only enough failures expire |
| Temporary uploads (`uploads`) | `temp_documents`, `temp_files`, S3, `storage_used_bytes` | start, upload, reorder, request analysis, three deletions, nightly cleanup | check-then-act; rows and images in different order; clamped counter | rows have their images; usage is not above what is stored; stale documents go |
| OCR worker | queue, threads, `documents`, `receipts` | pop, analyse, save, mark | jobs are lost on a crash, duplicated by requests; threads overwrite each other's status | one result per request at most; DONE has a result; what is accepted is decided |
| Alerts (`notifications`, `documents`) | `document_alerts`, feed | create, update, delete, daily run, immediate dispatch | three dispatchers with copies, several channels, late `is_sent` | sent was announced; announcements are bounded; what is due is sent |
| Sessions (`auth`) | `auth_tokens`, `user_security`, `email_verifications`, `biometric_challenges` | login, PIN and biometric login, refresh, verification, reset | delete-and-insert of sessions, counts read before they are raised | limits hold up to what overlaps; a login leaves a session |
| Users, settings, consents, devices (`users`, `notifications`) | `users`, `user_settings`, `user_consents`, `device_tokens` | sign-up, changes, withdrawal, settings, consents, registration, logout | stale saves of whole rows; sets of rows written one by one | no two users share an address; consents are complete; devices stay reachable |
| Documents (`documents`) | `documents`, `document_files`, tags, unlock tokens | create, edit, favourite, lock, unlock, read, download, tag, delete | three handlers save the whole row they found | content of a locked document is shown after the PIN; files and tags have a document |
| Receipts (`receipts`) | `receipts`, S3, `storage_used_bytes` | add, change, remove, list | upload, row, counter and bucket are four writes | a receipt has its image; usage is what is stored |
| Card recommendations (`cards`, `card-server`) | `card:queue`, `card_recommendations` | request, pop, rank, replace | duplicate jobs, replacement of a set | the rows of one run, which has seen the receipts |
| Reports (`reports`) | none | queries over receipts | boundaries of pages, months and years | groups add up to the total; pages to the list |
| Admin, crawler, classifier, configuration, filters, mail and push providers | own tables or none | single-row writes, I/O | – | not modelled (section 8) |

The components interact through the database (a deleted document takes the S3
objects that temp files use; a withdrawn user stops billing; a plan change
writes the user row that every other update of the user writes), through the two
queues (API server to workers), and through direct calls (`createAlert` calls
the scheduler, billing calls `users`).

## 2. The plan

| | Modules | State |
|---|---|---|
| 1 | `BillingStore`, `Checkout`, `RecurringBilling`, `Billing` | done: checked; invariant, five safety properties and an action property proved |
| 2 | `UploadStore`, `TempUploads`, `AnalysisWorker`, `OcrPipeline`, abstract `AnalysisQueue` | done: checked; invariant, four safety properties and the refinement proved |
| 3 | `AlertStore`, `AlertDispatch`, `AlertRequests`, `Alerts` | done: checked; invariant and four safety properties proved (`AlertProofs`) |
| 4 | `AccountStore`, `Sessions`, `Profiles`, `Accounts` | done: checked; types and eight safety properties proved (`AccountProofs`) |
| 5 | `LibraryStore`, `Documents`, `Receipts`, `CardJobs`, `Reports`, `Library` | done: checked; types and foreign keys, five safety properties and an action property proved (`LibraryProofs`, `ReportProofs`, with the lemmas about sums and sorted lists in `FoldLemmas`) |

Each component is a store module (constants with their assumptions, tables,
queries), one module for each kind of actor that EXTENDS the store, and a module that
composes them with `Init`, `Next`, the fairness and the properties; `AnalysisQueue`
is the abstract specification of what the OCR queue promises. The five groups
share no variable: what one needs of another is in its own tables (the usage
counter is in both `UploadStore` and `LibraryStore`, a withdrawal in both
`BillingStore` and `AccountStore`). None of the modules uses RECURSIVE.

Every invariant and every action property of the runs that pass is stated by a
theorem, some under hypotheses that their section names. What the runs check and
no theorem states is liveness; each section ends with the list of it.

## 3. Billing

### The modules and the code

`BillingStore` holds the tables as functions from ids to rows (a status of
`"NONE"` is a row that is not there yet), the provider's ledger `captured`, the clock,
and the repository queries. `Checkout` models the HTTP handlers of
`payments.service.ts` and `subscriptions.service.ts` and the withdrawal of a
user; `RecurringBilling` models `runMonthlySubscriptionBilling`. `Billing`
composes them with the clock and with restarts. A request or a run is a record
whose `pc` names the `await` it has reached; local variables of the handler that
are used after an `await` are fields of that record.

- A handler with `@Transactional()` is a sequence of reads followed by one step
  that makes all its writes visible (`CommitApproval`, `CommitMethodChange`), and
  any end before that step leaves the tables alone (`RollBackApproval`,
  `ProviderRefuses`, `Restart`). Its `UPDATE` and `DELETE` reach the rows that
  it could see (`WithDefault`, `WithOnly`).
- `updateSubscription` and `updatePayment` are a load step and a save step.
- The approval redirect of a payment goes to the endpoint that its ready call
  registered at KakaoPay; the cancel and fail redirects are requests of a browser
  that learned the URL from the ready answer, so the payment has a `tid`.
- KakaoPay may refuse, may answer, or may capture and lose the answer. It
  accepts one `tid` once.
- A database error that ends a run is the same as a restart of it, as far as
  the tables go.
- The clock counts abstract units, `Month` of them in a period. What
  `addOneMonth` does at the end of a month is left to the runtime's `Date`.

### The runs

| Run | Instance | Shows |
|---|---|---|
| `billing` | 1 user without a subscription, 1 request of every kind, 1 run, 1 restart | `TypeOK`, `ApprovedIsBacked`, `SubscriberHasDefaultMethod`, `ProWasPaid` for the whole composition |
| `overlap` | 2 runs, 1 request (reserve a cancellation, or withdraw) | `ExpiredOnlyAfterMaxFailures`, `PeriodBounded`, `DowngradeIsAtomic` for the cron's and the manual run together |
| `nightly` | 1 run at a time, 1 request (reserve a cancellation), 3 charges, 1 restart, clock to 4, fair | `DueIsSettled`, `NoSecondChargeInPaidPeriod` |
| `consecutive` | 1 run, 1 checkout | violated: expired without consecutive failures |

The bounds are on the rows of a table, on the clock and on restarts; they stop
the model and not the system, which is why these runs do not check for deadlock.
A request overlaps a run in `billing` and `nightly`, and two runs overlap in
`overlap` as the cron does with the manual endpoint; that two
checkouts overlap is not in a run of its own: `ApprovedIsBacked` and
`SubscriberHasDefaultMethod` are proved for any number of requests. Three
payments allow an approval, a change of method and a renewal in one behaviour.

`NoSecondChargeInPaidPeriod` holds of one run at a time that no restart has cut
off. The code gives no more: two overlapping runs hold copies of the same row and
both charge it; a restart between the capture and the renewal leaves the
subscription due; a checkout by hand may be approved while the run has already
picked the subscription; and a request that takes a cancellation back with a row
that it read before the renewal saves the old end of the period over it, so that
the next run charges the period again. (A change of method captures nothing,
hence the condition on the amount.) What bounds the damage in those cases,
and is checked under them, is `PeriodBounded`, `ApprovedIsBacked` and
`ExpiredOnlyAfterMaxFailures`.

**Fairness.** `FairSpec` has weak fairness for starting a run and for the steps
of a run: the cron fires every night and node runs what was started. Users, the
clock, refusals and restarts owe nothing. `DueIsSettled` excludes users who
withdrew: the downgrade of such a user throws, every run ends there, and the
model shows that nothing behind that target is ever billed.

### What is proved

`BillingProofs` proves, for every value of the constants that
satisfies `BillingAssumption`:

- `InductiveInvariant`: `Spec => []IInv`
- `TypeCorrect`: `Spec => []TypeOK`
- `ApprovalsAreBacked`: `Spec => []ApprovedIsBacked`
- `SubscribersKeepDefault`: `Spec => []SubscriberHasDefaultMethod`
- `ProIsPaid`: `Spec => []ProWasPaid`
- `PeriodsAreBounded`: `Spec => []PeriodBounded`
- `ExpiryIsDeserved`: `Spec => []ExpiredOnlyAfterMaxFailures`
- `DowngradesAreAtomic`: `Spec => DowngradeIsAtomic`
- `NoDoubleCharge`: `Spec => NoSecondChargeInPaidPeriod`, if `Batches` has one
  element and neither `"approve"` nor `"undoCancel"` is in `Ops` (`NoRevivals`).
  Any number of users, subscriptions and requests, and every other operation,
  remain; each operation excluded breaks the property, as described above.

`TypeOK` is not inductive by itself: `CommitApproval` and the saves write rows
from the records of requests, which must then be known to be about rows that
exist and belong to the same user; and two commits that overlap preserve a
default method only because of what each of them has seen. `IInv` (module
`BillingInvariant`) adds `Consistent`: for every request and every run, what it
has read about ownership is still so. The argument is one sentence: *no step
ever removes a row or changes its owner* (`SubsKept`, `MethodsKept`,
`PaymentsKept`, `RowsKept`). So whatever a request knows about ownership stays
true while it waits, and each step only has to justify the row it writes
itself. A payment that a run has inserted and not yet charged is known to that
run only (`Private`), which is why a captured charge and its approval cannot be
torn apart by others. The proofs have one lemma for each action; those
about types come first.

The other properties each have an invariant of their own, on top of `IInv`:

- `PaidInv`: a user who is PRO has a captured PRO fee. What a redirect is about to
  save over a payment has the amount of that payment, so that a stale save never
  turns a fee into something else.
- `PeriodInv`: what a request or run may still write ends at most a month after
  now. A run renews from the end of a period that was over when it picked the
  subscription, and the clock never goes back.
- `FailInv`: a count of failures is not above the failed charges of that
  subscription, in the row, in every copy, and for a run that has a charge in
  progress without counting that charge (`LossesBut`). Only charges that no
  redirect can change are counted (`Settled`), and no two runs share one
  (`OwnPayments`). Stale saves may lose a count; they never add one.
- `ChargeInv`: the period of a subscription that is `ACTIVE` and not about to be
  canceled ends no sooner than the periods of its approved fees (`Covers`), except
  for the fee that the run has in hand and has not renewed for (`Unrenewed`). The
  run's list has every subscription once, and what it holds was over for all of
  them when the run read it (`OverBy`). It remains so because only that run
  approves fees; it is why a copy of a row that is old when it is saved does no
  harm: what the run saves after a failure covers what was approved before.

`DowngradeIsAtomic` has an exception, `CopiesExpiry`. A save of a whole row that
was read when the subscription had expired writes that expiry back over a
renewal that came in between, without a downgrade. It takes an expiry, a copy
of it, a save that revives the row and the save of the copy, which is more than
the bounds of the run `overlap` allow; the proof needs the exception.

Only model-checked: `DueIsSettled`, which is liveness, and what the run
`consecutive` refutes.

## 4. Uploads and their analysis

### The modules and the code

`UploadStore` holds the tables, the bucket, the queue and the usage counter.
`TempUploads` models `uploads.service.ts`, the deletions of
`documents.service.ts` and `receipts.service.ts`, and the nightly cleanup;
`AnalysisWorker` models `worker.py` and `analysis.py`; `OcrPipeline` composes
them, adds age, and states the properties.

- The queue is kept as everything ever pushed (`jobs`) and how much of it was
  popped (`taken`), so that a job keeps its number for good.
- A row is `NONE` before and `DELETED` after its life; ids are not used again.
  An upload `f` stands for the image, its key, and its row. The key contains a
  time and a random number; two uploads with one key are left out.
- Only the uploads of one user are modelled: requests of another user fail an
  ownership check before they write. Images have size one.
- The reads that a handler makes before its first write are one step. A request
  that its guards refuse has no step. From then on each `await` is a step, except
  that the images of an analysis are downloaded in one.
- `setPageOrders` is one transaction; the unique index on document and page
  makes it commit or roll back, and makes an insert fail. A file row refers to its
  document, so a document with files cannot be deleted.
- What OCR, the language model and the five attempts at validation answer is a
  choice between `Recognise` and `Reject`.
- `Abort` ends a request at any await (an exception, or a restart of the API
  server); `DeleteImageFails` and `SubtractUsageFails` are the failures that the
  code only logs; `StatementFails` is an exception in the worker, which leads to
  `MarkFailed`, and `MarkFailedFails` the one after that. `WorkerRestart` loses
  the jobs in the threads. Two bounds, `MaxFaults` and `MaxCrashes`, count them.
- The usage counter is clamped at zero, so an addition and a subtraction do not
  commute. `NoPhantomUsage` is therefore stated of instances whose requests come
  one at a time; the workers interleave with them.

### The runs

| Run | Instance | Shows |
|---|---|---|
| `analysis` | 1 document, 2 files, 1 page at a time, 1 request, 2 threads, 2 jobs, 1 restart, 1 failure | `TypeOK`, `DoneIsSaved`, `InProgressIsOwned`, `NoPhantomUsage`, and that the pipeline implements `AnalysisQueue` |
| `temp` | 2 requests of every kind for temp documents, 2 files, 1 thread | `TempFilesStored` |
| `progress` | 2 documents, 1 request, 2 threads, 2 jobs, 1 failure, fair | `AcceptedIsDecided`, `StaleIsRemoved` |
| `lost_image` | a temp file deleted during its analysis | violated: `SavedImagesKept` |

One document is enough for the races that the code has, since nothing but the
user's usage counter and the cleanup's batch couples two documents; `progress`
has two for the latter. Its one failure is as bad as a restart: a request that
ends before its push, or a thread that cannot mark its document, leaves a
document in progress that nobody works on. Two pages (in `temp`) let files be
reordered; one page at a time (in `analysis`) still lets a file be deleted and
replaced while its document is analysed, and its saved document be deleted
before or after the file that it was made from. That a receipt keeps only the
first of several images is in `PickImage` and not in the bounds of these runs. Two jobs are a duplicate. `AnalysisQueue` is the
promise to the API server: requests are numbered as they are accepted, each
yields at most one result, and a request may be dropped. `OpenJobs` maps it: a
request is open while it is queued or in a thread that has not saved.

`InProgressIsOwned` is conditional on no crash and no failure, because the code
has no recovery of its own: the job of a killed worker is gone and its document
stays in progress. What remains for such a document is `StaleIsRemoved`, the
nightly cleanup of documents older than three days, which spares FAILED ones.

**Fairness.** Weak fairness of the steps of each request, of popping and of the
steps of each thread, and of the cleanup: node and Python run what they have
started, a free thread takes what is queued, the cron fires nightly. Requests,
time, failures and restarts are not fair.

### What is proved

`OcrInvariant` states the inductive invariant; `OcrProofs` and `OcrRefinement`
prove, for every value of the constants that satisfies
`UploadAssumption`:

- `OcrInductiveInvariant`: `Spec => []IInv`
- `OcrTypeCorrect`: `Spec => []TypeOK`
- `DoneHasResult`: `Spec => []DoneIsSaved`
- `NoOrphans`: `Spec => []InProgressIsOwned`
- `PipelineServesAtMostOnce`: `Spec => ServedAtMostOnce`, the refinement of
  `AnalysisQueue`
- `TempFilesAreStored`: `Spec => []TempFilesStored`, if `"deleteSaved"` is not among
  the operations
- `UsageIsNoPhantom`: `Spec => []NoPhantomUsage`, if `Requests` has one element

None of the properties is inductive by itself. That a thread saves at most one
result for its job needs to be known of all threads at once: `JobsApart` (no two
threads have a job in common), `ResultsApart` (no two results do), and, in
`WorkerOK`, that nobody has saved for the job of a thread that has not. They rest
on one fact about the queue: a popped job has a number above all that were popped
before it. `DoneIsSaved` follows from `WorkerOK` because a thread about to write DONE
remembers the row that it inserted for its job, and rows are never removed for
good (`ResultsKept`). `InProgressIsOwned` needs that a document in progress was
started before anybody refers to it (`Started`), so that the PENDING of a new
document is not mistaken for a request; each writer of PENDING or PROCESSING is
then an owner in the next state, and an owner that leaves hands over (`Push`, `Pop`)
or writes a final status (`MarkDone`, `MarkFailed`). `JobsBounded` and `RequestOK` are
there for the types. The refinement has one lemma for each kind of abstract step:
`PushAsks`, `SaveServes`, `GivingUpDrops`, `RestartDrops`, and `QuietQueue` for the
steps that change nothing.

The hypotheses of the last two are those of their runs, and the code gives no
more: the deletion of a saved document takes images that temp files still use,
and the clamp of the counter at zero makes two requests that overlap lose a
subtraction. `StoredInv` says which images a request still has to delete and that they
are of no row: an upload stores its image before the row, a deletion drops the row
before the image, and no upload has an image that somebody deletes
(`UploadsApart`). `UsageInv` says how far the counter may be ahead of the bucket at
each await of a request: an upload adds after it has stored, a deletion has as
many bytes to subtract as images are left to delete. `SizesCover` relates that to
what the worker wrote: a saved result has the size of all images that it was
made from, although a receipt keeps only one of them.

Only model-checked: the liveness properties `AcceptedIsDecided` and
`StaleIsRemoved`.

## 5. Alerts

### The modules and the code

`AlertStore` holds the table `document_alerts`, the settings and devices of the
user, and the feed as what was announced (`said`) and how often (`count`).
`AlertRequests` models the alert handlers of `documents.service.ts` and the
deletion of a document; `AlertDispatch` models `notification.scheduler.ts`, that is
a run (the 9 o'clock cron, the start-up hook, the manual trigger) and the
immediate dispatch at the end of a request, which share `processAlert`;
`Alerts` composes them with days, failures and restarts.

- A run works on copies: the rows as the query gave them, and the settings
  as loaded before the first alert. `MarkSent` updates by id and so reaches
  whatever the row is by then.
- `updateAlert` decides whether the date moves on the row it read first, loads
  the row again, and saves all of it, which inserts the row again when it was
  deleted meanwhile.
- Whether firebase was initialised is chosen once (`fcm`): without it a push to a
  device throws (`PushImpossible`), and the loop goes on with the next alert. A mail
  that the server refuses is only logged.
- One user is modelled, since a run shares nothing between users but its loop.
  A PATCH may change the date and the offset; a change of channels only, reading the
  feed and its read flags are left out. `armed`, `count`, `said` and `raced` are
  history: no guard reads them.

### The run

| Run | Instance | Shows |
|---|---|---|
| `alerts` | 1 document, 2 alerts, 2 offsets, 2 days, push or mail, 6 scenarios of two actors, 1 failure or restart, fair | `TypeOK`, `SentWasAnnounced`, `AnnouncementsBounded`, `OffsetsBounded`, `NoAlertWithoutDocument`, `DueIsSent` |

A scenario is a set of operations with the slots that may be used: two requests
of different kinds, a run and a request, or two runs while the user changes his
settings. Every pair that shares an alert is in one of them; three actors at
once add no new kind of overlap and are left to the proofs. Two days are enough
to move a date forth and back.

What the properties leave open is what the code leaves open: two dispatches
that find an alert both announce it (`AnnouncementsBounded` counts them), and an
update that is not alone may leave a date that was marked by a dispatch which
saw another one (`raced`). Two overlapping creations leave two alerts of one offset.

**Fairness.** Weak fairness for starting a run, since the cron fires daily, and
for the steps of dispatching, since node goes on with what it started. Requests,
days, failures and restarts are not fair. `DueIsSent` excludes alerts that need
a push while firebase is missing: they are announced in the feed by every run and
never marked.

### What is proved

`AlertProofs` proves, for every value of the constants that satisfies
`AlertAssumption`, hence for any number of runs, requests, alerts and days:

- `AlertsInductive`: `Spec => []AlertInv`
- `AlertsTypeCorrect`: `Spec => []TypeOK`
- `AlertsHaveDocuments`: `Spec => []NoAlertWithoutDocument`
- `SentIsAnnounced`: `Spec => []SentWasAnnounced`
- `OffsetsAreBounded`: `Spec => []OffsetsBounded`
- `AnnouncementsAreBounded`: `Spec => []AnnouncementsBounded`

Neither safety property is inductive by itself, because the rows are written
from what jobs remember. `AlertInv` says what that is worth. An insertion is
about a document that is looked up in the step that inserts. An update holds an
alert whose row exists (an id is never used again, a deleted row keeps its document)
and whose document is the one that the save looks up; so no row can come
back without one (`InsertKeeps`, `SaveKeeps`). A dispatch between the feed and
the mark has announced the date of its copy, and that date, like the date that an
update has read, is still the one of the row unless the alert is `raced`: the
only step that moves a date is a save, and it marks the alert as raced when anybody
else works on it. Hence a mark and an update that does not move the date both leave an
announced one. `Undisturbed` says which changes of rows a job does not notice;
there is one lemma for each action.

The two bounds compare cardinalities with the jobs that a scenario lets run
together. For `OffsetsBounded`, `OffsetInv` counts with the alerts of an offset the
requests that are about to insert one and the alerts that an update is about to move
there: a request counts once, before its write or by its row. For
`AnnouncementsBounded`, `AnnounceInv` counts with the feed entries of an alert the
jobs that will write one, and, as long as it is unsent, all jobs that have nothing to
do with it yet. A mark spends the latter at once; whatever makes the alert unsent again
raises `armed` and so pays for every job once more, and so does a failure.

Only model-checked: `DueIsSent`, which is liveness.

## 6. Accounts

### The modules and the code

`AccountStore` holds the tables of `auth`, `users` and the devices of
`notifications`. `Sessions` models login by password, PIN and biometrics, the
refresh of an expired token in the guard, the count of wrong PINs, and the
registration, takeover and deactivation of devices. `Profiles` models e-mail
verification, sign-up, password reset, and the changes of user, PIN, settings,
biometrics and consents. `Accounts` composes them with expiry and failures.

- A password, PIN, token or signature is right or wrong; a hash stands for what
  was hashed. Requests whose guards refuse have no step unless they have written.
- `@Transactional()` handlers are reads followed by one visible step. The others
  are one step for each await, and a `save` writes every column as it was found.
- The check that an address is free uses `ILIKE '%...%'`, so `Within[e]` are the
  addresses in which `e` is found; the unique index compares exactly, and includes
  users who have withdrawn.
- `signUp` takes any unused verification: the code does not compare its
  address, purpose or expiry. Logout ends the device's tokens by its FCM
  token, and clears the cookie; the row of the session stays (the service method
  that would delete it has no caller).
- Plan and quota of a user are written by `Billing` and left out here; verifying a
  code or a password alone changes nothing.

### The run

| Run | Instance | Shows |
|---|---|---|
| `accounts` | 2 users, 2 addresses of which one contains the other, 2 secrets, 2 requests at once, 10 scenarios, 1 failure | `TypeOK`, `AccountsConsistent`, `VerificationUsesBounded`, `ChallengeUsesBounded`, `SessionsBounded`, `LoginKeepsSession`, `LockoutBounded`, `ConsentsComplete`, `DeviceStaysReachable` |

A scenario is a set of requests that write the same tables; requests of different
sets commute. Requests repeat without bound within the bounds on rows. The
bounds that the properties state are those of the code: a limit is read long
before it is written, so that as many requests pass it as are in progress together.
`LockoutBounded` excludes changes of the biometric setting, whose save
writes back the count (and the PIN) that it had read; `AccountsConsistent` does not
say that a withdrawal lasts, since a save of a user row that was read before it
undoes it. Users, secrets and requests are symmetric; addresses are not, because
one contains the other. All properties are invariants, for which this is sound.

### What is proved

`AccountProofs` proves every property of the run for every value of the constants
that satisfies `AccountAssumption`, hence for any number of users, rows, requests and
failures. Of the constants it needs that the bounds are naturals, that sets are
finite and that there is a default consent.

- `AccountTypes`: `Spec => []TypeOK`
- `AccountsStayConsistent`: `Spec => []AccountsConsistent`
- `VerificationUses`: `Spec => []VerificationUsesBounded`
- `ChallengeUses`: `Spec => []ChallengeUsesBounded`
- `SessionsAreBounded`: `Spec => []SessionsBounded`
- `LoginsKeepSessions`: `Spec => []LoginKeepsSession`
- `LockoutHolds`: `Spec => []LockoutBounded`
- `ConsentsAreComplete`: `Spec => []ConsentsComplete`
- `DevicesStayReachable`: `Spec => []DeviceStaysReachable`

`TypeInv` adds to the types what a request holds at each of its awaits
(`SessionsOf`, `ProfileOf`): a save knows an existing row, an insertion a free number.
On it rest seven invariants, one for each property or two. Those about limits have
one shape: *what was done, plus the requests that have passed the check and not
written yet, is bounded*. A request enters the second set only while the check
passes, when the first is small (for a verification or a challenge that is not
marked: none, or as many as have not marked theirs), and moves from the second set to the
first. So `VerificationInv` and `ChallengeInv` count `Holders`, `Markers` and
`Openers`, `SessionInv` counts `Pending`, and `LockoutInv` counts `Counters`. The other shape
is *somebody goes on*: a user without a live session has a request that will
insert one (`LoginInv`), one of the requests that fill in the consents will not meet
a row (`ConsentInv`: of those, the one that is furthest), a device without an
active row has a registration that will insert one (`DeviceInv`).

Nothing is left to model checking alone.

## 7. Documents, receipts, recommendations and reports

### The modules and the code

`LibraryStore` holds the tables of one user. `Documents` models creation, edits,
favourite, locks and unlock tokens, what a read shows, download, deletion and tags
(`documents.service.ts`); `Receipts` models `receipts.service.ts` with
`uploadFile`; `CardJobs` models the request for recommendations, `card:queue`, the
threads of the card server, the ranking and the replacement of the rows;
`Reports` has the queries over receipts (`reports.service.ts`, the list of
receipts, the pages of both lists) as operators. `Library` composes them.

- Edit, favourite and lock find a row and save all of it in a later step, which
  takes back what others wrote in between, and inserts a deleted row again.
- A deletion of a document is a transaction that subtracts its bytes without
  looking whether the row was still there; two of them subtract twice. The bytes
  that a client states when it creates a document itself are subtracted, but were
  never added. `UsageAccounts` excludes both.
- A live token is for one document (`cookie`); `proven` remembers for which
  documents the PIN was entered within the life of a token, independently of it.
- `replace_recommendations` is a transaction: its DELETE sees what is committed when
  it starts, and takes effect with the INSERTs. Scores are compared by the sums,
  because the total that they are divided by is the same for all cards.
- Left out: the answers of requests that write, filters of the list other than its
  pages and dates, `reorderDocumentFiles` (its route is commented out), a
  `fileUrl` that the client gives without an upload, the sentences of the language
  model. Receipts that compare equal keep one order for all pages.

### The runs

| Run | Instance | Shows |
|---|---|---|
| `library` | 2 documents, 2 pages, 2 tags, 3 receipts, 3 images, 4 cards, 2 requests or 1 and up to 2 threads, 1 failure, 9 scenarios | `TypeOK` with the foreign keys, `ReceiptImageStored`, `UsageAccounts`, `RecommendationsBounded`, `ReportsAgree`, `PagesAgree`, `ShownWhenUnlocked`, `RequestIsServed` |
| `lock` | a lock and a favourite overlap | violated: `LockChangesByLockRequest` |

The receipts have a leap day, the last day of a year, no category, and two years:
the boundaries of the reports. `ReportsAgree` and `PagesAgree` are evaluated in every
reachable state without a request in progress, for the years, pages and sort orders
of `MCLibrary`. Three requests are enough for a creation, an unlock and a read, or a
job that is requested while another one runs.

`ReceiptImageStored` excludes receipts that an edit without image saved while another
request was changing them (`raced`): the save writes the old image name back, which
the other request deletes. `RequestIsServed` is stated of one thread and no lost
job; with two threads (`LLM_CONCURRENCY` above one) two jobs of one user may both
insert, and the user has two lists: hence the bound of `RecommendationsBounded`.

**Fairness.** Weak fairness for the threads: the worker's loop goes on and pops what
waits. Requests and failures are not fair.

### What is proved

`LibraryProofs` and `ReportProofs` prove, for every value of the constants that
satisfies `LibraryAssumption`, `CardAssumption` and `ReportAssumption`, hence for any
number of documents, receipts, images, cards, categories, stores, requests, threads
and failures, and any receipts to begin with that keep their own images and say
something (`GivenReceipts`):

- `TablesStayTyped`: `Spec => []TablesOK`, the types and foreign keys of `TypeOK`
- `LockedStaysHidden`: `Spec => ShownWhenUnlocked`
- `ReceiptImagesAreStored`: `Spec => []ReceiptImageStored`
- `UsageIsAccounted`: `Spec => []UsageAccounts`
- `FewJobsHaveRows`: `Spec => []JobsBounded`, the first part of
  `RecommendationsBounded`
- `LibraryTypeCorrect`: `Spec => []TypeOK`
- `RecommendationsAreBounded`: `Spec => []RecommendationsBounded`
- `ReportsAreConsistent`: `Spec => []ReportsAgree`
- `PagesAreComplete`: `Spec => []PagesAgree`

The assumptions are what the code guarantees of its data: an amount is not negative
(`@Min(0)` in the DTOs) and has no decimals (`numeric(12, 0)`), a purchase
date is one of the calendar (a `date` column; stated without `LastDay`, so that the proof
shows that no day is missing in the reports), a category is a foreign key or null, a
page has at least one row (`@Min(1)`), and the cards, the categories and the stores (names
of bounded length) are finitely many.

The invariants are in `LibraryInvariant`:

- `TypeInv`: what a request holds at each await. A document that a save writes
  back has existed, with the bytes that the copy has; a tag that was found is still
  there.
- `CookieInv`: a token is for a document whose PIN was entered. An unlock sets both in one
  step and a token expires with its proof.
- `ImageInv`: every image has one receipt for good (`ImagesOwned`: there is a
  function `owner`, which the proof extends when an image is saved), no two
  requests upload the same image (`ImagesApart`), and an image that a request is about to
  delete is of no receipt that is kept (`Unwanted`), unless an edit wrote it back
  (`raced`). The owner is what makes `Unwanted` inductive: only a request for the
  same receipt could bring the image back, and only by a save that marks it as raced.
- `UsageInv`: the usage is at most the images that are counted, that is those in
  the bucket except what a request has uploaded and not added yet, or has subtracted and
  not deleted yet.
- `AloneInv`: for a request that is alone, the usage is exactly what the tables
  add up to, and one more where it has added an image and not written its row, or
  written the row and not subtracted the old image (`Ahead`).
- `JobInv`: there is a function `author` from jobs to threads such that no two jobs
  with rows have one author. A thread that is about to insert has deleted, or will
  delete, the rows of its earlier job, since it committed them itself.
- `BillInv`: a receipt that is kept, and a request that is going to write one, says
  something that the DTO has let pass. `ReportsAgree` and `PagesAgree` follow from it.
- `RankInv`: what the worker holds has its types, and a thread that is about to write
  rows holds the first cards of the order that it computed from the totals it read,
  although receipts have changed since.

The sums, sorted lists and pages are folds over finite sets (`SumOf`, `InOrder`), and the
provers cannot instantiate a schema of induction. `FoldLemmas` does without one:
strict inclusion is well-founded on the subsets of a finite set, and `<` on the
naturals, both as sets of pairs, so that a set of counterexamples that is not empty has a smallest
one (`SmallestSet`, `SmallestNat`), and each proof takes an element away from that one to
find a smaller. In this way it shows

- that the recursive function in a fold exists and agrees with that of every subset
  (`SumsExist`, `SumsSame`, `ListsExist`, `ListsSame`), which is what makes
  the `CHOOSE` of the library's definition mean anything;
- what a sum is: of any element and the rest (`SumRemove`), of the sums of groups that
  a key divides the set in (`SumGroups`), of the rows of a table (`SumTo`), of rounded
  shares (`SumShares`);
- that sorting by an order with ties lists every element once and none
  after one that it should precede (`InOrderSorts`).

`ReportProofs` applies them. A report is a sum of groups by a key, and what has to be
shown is that the key of every receipt is one of the groups that the report shows: for
the days that `LastDay` agrees with the calendar, for the weekdays that the count of
days is an integer, for the stores that a limit of as many as there are leaves none
out. The sizes of the pages telescope, whatever the size of a page. That the ranking
leaves out no better card is `InOrderSorts` for the order `Better` of scores and fees.
`InOrder` chooses one of the lists when elements compare equal, as a stable sort of
rows without an order of their own does.

Only model-checked: `RequestIsServed`, which is liveness.

## 8. Not modelled

- *Card crawler*: scraping, text extraction and upserts of one writer.
- *Classifier*: its outcome is a choice in `AnalysisWorker`; the normalisation of
  the model's answer changes text, no state.
- *Admin, spend categories*: single-row writes and queries.
- *Push and mail providers*: external; what they may do to a dispatch is in
  `AlertDispatch`. Broadcasts and topics keep no state.
- *Presigned links, configuration, filters, interceptors, DTO validation*: wiring and
  formatting.
- *The end of a month* in `addOneMonth`, which is a matter of the runtime's `Date`.

## 9. Where the code and its documentation differ

Every run marked *violated* checks one statement of a comment or a message of the
repository, and TLC shows a behaviour of the code that breaks it. `PROJECT.json`
quotes each under `findings`:

1. `consecutive`: "ended after N consecutive failures", but a payment in between
   does not reset the count.
2. `lost_image`: S3 objects of saved records are said to be spared; the check
   races with the worker.
3. `lock`: changing the lock alone, around its verification, is said to be
   impossible; a favourite that read the row before saves it over the lock.

Other differences are plain in the modules and have no run of their own:

- PENDING is said to mean that work was requested, but it is the default of a new
  document (`StartUpload`), which can then not be deleted; PENDING, PROCESSING,
  then DONE or FAILED is said to be the order, but duplicate requests take DONE back
  to PROCESSING (`RequestAi`, `Begin`).
- The sources of an analysis are said to be kept, but deleting the saved document
  deletes their images (`PickImage`); documents under analysis are said not to be
  deletable, but the guard is read long before the deletion (`DeleteDoc`, `DropDoc`);
  a document has at most ten images, but the count is read before the upload
  (`Upload`, `InsertFile`).
- The atomic increment of the usage is said to avoid races, but the clamp at zero
  makes an addition and a subtraction not commute (`UsageLess`).
- A moved date is said to be announced again (documents.service.ts, at
  `updateAlert`), but a dispatch that had the old row marks the new date (`MarkSent`).
- A verification is for one address and one purpose, but `signUp` looks at neither.
- Required consents cannot be withdrawn, but the insertion of defaults by an
  overlapping request writes what it had decided before (`WriteConsent`).
- A device belongs to the user who registered it last, but two registrations leave
  two active rows (`FindDevice`, `InsertDevice`).

## 10. Reading the checks

A definition `Mut_X` next to `X` is `X` with a seeded bug: a dropped guard, a
missing write, a lost clamp. For every property of every passing run, replacing
one such `X` by `Mut_X` makes TLC report a violation of the property, which shows that
the instance is large enough for the property to matter. `PROJECT.json` lists
the pairs under `mutants`.

Out of reach of the prover, and left to TLC: liveness (`DueIsSettled`,
`AcceptedIsDecided`, `StaleIsRemoved`, `DueIsSent`, `RequestIsServed`) and what the three
runs refute. No module has a RECURSIVE operator; what folds compute is proved from
smallest counterexamples, as section 7 describes.

To run: `tlc -config MCAnalysis.cfg MCOcr.tla` (and the other pairs of
`PROJECT.json`), `tlapm` on
`BillingProofs.tla`, `OcrProofs.tla`, `OcrRefinement.tla`, `AlertProofs.tla`,
`AccountProofs.tla`, `LibraryProofs.tla`, `FoldLemmas.tla` and `ReportProofs.tla`
(some take several minutes).
