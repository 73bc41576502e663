# GALLO CRM: TLA+ models and proofs

This directory holds a verification project for the CRM: TLA+ modules that
model its asynchronous core, its documents, its sessions, its optimistic
locking, its bulk imports and the screens of its front end, TLC configurations
that check them on small instances, and theorems about them that TLAPS checks
for every instance.
Source paths below are relative to `src/backend/app/`, or to
`src/frontend/src/` when they end in `.tsx` or start with `lib/` or
`components/`, unless they start with `src/`.

Sections: [The system](#the-system) · [Modules](#modules) · [Runs](#runs) ·
[Fairness](#fairness) · [Proofs](#proofs) ·
[Where code and words disagree](#where-code-and-words-disagree) ·
[What is not modelled](#what-is-not-modelled) · [Plan](#plan)

## The system

A Next.js front end talks to a FastAPI service; a worker process runs arq jobs
and cron jobs; both share one PostgreSQL and one Redis.

    request ──▶ route handler ──(one DB transaction)──▶ domain rows + outbox_events
                     │                                          │
                     │ enqueue (Redis, arq)                     │ cron, every 5 s
                     ▼                                          ▼
                 arq jobs ◀──────────── _fanout_to_webhooks ◀ drain_outbox
          (email, PDF, scoring,          run_event_automations ◀──┘
           deliver_webhook, ...)

The front end is a set of pages and cards, each with state of its own. All of
them reach the API through `lib/api.ts`, which puts the cookies on, refreshes
the session when an answer is 401 and repeats the call; some go through
TanStack Query's cache, most keep what they list in a `useState` and list again
after every operation. Several calls of one screen may be in flight, and their
answers come back in any order.

Nothing holds a lock across these parts. What coordinates them is: row locks of
single statements (`FOR UPDATE SKIP LOCKED` in the sweep, foreign-key locks),
unique indexes, `SET NX` keys and transactional pipelines in Redis, and the
retry rules of arq. Most route handlers read a row, check its status, write it
and commit, without a lock or a version check in between.

| Component | State | Operations | Hard because | Correct when |
|---|---|---|---|---|
| Transactional outbox (`events.py`, `worker/jobs.py`, `events_dispatcher.py`) | `outbox_events` | `record_event`, `drain_outbox`, `dispatch_event` | sweeps overlap, one commit per batch, side effects before the commit | committed events reach every subscriber or a visible dead letter; verdicts are final |
| Outgoing webhooks (`worker/jobs.py`, `api/webhooks.py`) | `webhook_endpoints`, `webhook_deliveries`, arq's queue | `deliver_webhook`, create / update / delete | the transaction spans the HTTP request, counters are written back stale, arq has limits of its own | the log is true, jobs end, the health counter is backed by failures |
| Fan-out (`events_dispatcher.py`) | none of its own | `_fanout_to_webhooks` | pushes to Redis before the sweep commits | no endpoint is missed; duplicates are bounded |
| Job queue (`worker/queue.py`, `worker/dlq.py`, `worker/settings.py`) | `job:dedupe:*`, `arq:dead` | `enqueue`, `dlq_wrap`, arq's runs | key before push; arq re-queues only `Retry` and cancellation | one job per key and window; terminal failures are kept |
| Automations (`automations.py`) | rules, runs, idempotency keys | `run_event_automations`, `scan_org_stale_leads` | events repeat; a failing rule rolls back a shared session | a rule acts once per event |
| Task reminders (`worker/jobs.py`) | tasks, outbox rows | `scan_overdue_tasks` | dedupe by reading earlier rows | one reminder per task and due date |
| Quotes, contracts, signatures (`api/quotes.py`, `api/contracts.py`, `api/signatures.py`) | status columns, versions, signature requests | send, accept, decline, resend, sign, cancel, provider webhook | unlocked read-check-write by several actors | timestamps tell a legal path; a signature has evidence and decides its document |
| Sessions (`redis_client.py`, `api/auth.py`, `deps.py`, `lib/api.ts`, `lib/auth.ts`, `auth-guard.tsx`) | `refresh:*`, `session:*`, `user_sessions:*`, tombstones; the cookies of a browser; `refreshInFlight` of a tab | login, refresh, logout, revoke, password reset; a 401, its refresh and the repeated call | several Redis calls per operation, tabs that refresh together, answers that are lost | no false theft alarm; a logout ends its session; nobody waits for ever |
| MFA (`mfa.py`, `api/auth.py`) | secret, backup codes | setup, enable, verify, disable | a code checked and then consumed | a code is used once |
| WhatsApp (`whatsapp.py`, `whatsapp_inbox.py`, `api/whatsapp.py`) | conversations, messages, counters | send job, status webhook, inbound webhook | statuses repeated and out of order | a message's status only advances |
| Imports (`api/imports.py`, `imports/`, `worker/jobs.py`) | import job, the queued run, an index of emails and phones, the rows | `create_import`, `process_import`; people who edit meanwhile | dies half way; check then commit; an index read once and used for every row | rows are imported once; imports are serial unless they raced; duplicates and failed runs are accounted for |
| Billing and seats (`api/billing.py`, `services/stripe_service.py`, `api/invites.py`) | plan, subscription, Stripe event ids, members | Stripe webhook, checkout, invite, accept | events out of order, seats counted before they are taken | the plan follows Stripe; seats are not exceeded |
| Sales records (`api/leads.py`, `api/deals.py`, `api/_concurrency.py`, `api/lead_convert.py`, ...; the edit pages, the board, the task lists) | rows with a version; what each page holds of them | update with `If-Match`, convert, move | check then write; pages that send again after a conflict; guesses before the answer | a version names one content; no overwrite goes unaccounted |
| Screens (`components/*-card.tsx`, `app/[locale]/`) | what is shown, busy flags, a filter, a secret shown once | list, load more, filter, poll, create, change, remove | answers out of order, answers for an old filter, flags shared by rows | a screen at rest is true to its filter and its own changes; nothing is sent twice or disabled for ever |
| Duplicates and merge (`services/duplicates.py`) | records and their children | merge | two merges cross | no child is lost |
| Tenant isolation (`database.py`, `deps.py`) | the `app.current_org_id` setting of a transaction | begin hook, request end | pooled connections, commits inside a request | a statement sees its own tenant |
| GDPR, retention, trash (`api/gdpr.py`, `api/trash.py`, `worker/jobs.py`) | soft-deleted and anonymized rows | forget, retention sweep, restore | sweep against edits | an anonymized row stays so |
| AI scoring, assistant, credits (`services/`) | credit counter, usage rows | score, chat | count then charge | credits are not overspent |
| Everything else | | CRUD, formatting, exports, search, dashboards, marketing pages | | |

`PROJECT.json` lists the components with their status and every hazard with the
line where it bites.

## Modules

| Module | Models | Role |
|---|---|---|
| `EventDelivery` | what the outbox promises (`models.py` 1976-1990) | abstract specification |
| `Outbox` | `events.py`, `drain_outbox`, `dispatch_event` | component; implements `EventDelivery` |
| `Webhooks` | `deliver_webhook`, `api/webhooks.py`, arq's rules for it | component |
| `EventPipeline` | `_fanout_to_webhooks` between the two | composition: `INSTANCE Outbox`, `INSTANCE Webhooks` |
| `Documents` | `api/quotes.py`, `api/contracts.py`, their numbering | component |
| `Signatures` | `api/signatures.py`, `signing/service.py` | `EXTENDS Documents`: the requests and the documents they sign |
| `Records` | the routes that take `If-Match`, the ten pages that call them, automations and imports | front end and back end of optimistic locking |
| `Sessions` | `lib/api.ts`'s refresh, `AuthGuard`, `api/auth.py`, `redis_client.py` | tabs, cookies and Redis |
| `Imports` | `create_import`, `process_import`, the routes that change one row, arq's rules | component |
| `ScreenShapes` | | the vocabulary screens are described in: operations and pages as records |
| `SettingsScreens`, `PanelScreens`, `WorkScreens`, `PublicScreens` | the cards of the settings, the panels and the inbox, the pages of records, documents and tools, the pages before a login | one record per screen, one per operation |
| `Screens` | how any of them works, and a server of rows | the behaviour of an open screen, `Pages` being a constant |
| `MCOutbox`, `MCWebhooks`, `MCPipeline`, `MCDocuments`, `MCSignatures`, `MCRecords`, `MCSessions`, `MCImports`, `MCScreens` | | sets, constraints and symmetry for TLC |
| `MCWebhooksDocs`, `MCDocumentsDocs`, `MCSignaturesDocs` | | statements of docstrings and comments, with history variables |
| `Outbox_proofs`, `Webhooks_proofs`, `EventPipeline_proofs`, `Signatures_proofs` (and of `Documents`), `Records_proofs`, `Sessions_proofs`, `Imports_proofs`, `Screens_proofs` | | theorems |

**Outbox.** A row is `absent`, `open` (flushed by `record_event`, its transaction
not ended), `aborted`, `pending` or `processed`; with its `occurred_at` and
`attempt_count`. A member of `Workers` is a sweep. `Claim` is the claim
statement with its WHERE, ORDER BY, LIMIT and SKIP LOCKED; `RejectPayload`,
`RejectType` and `StartDispatch` are the three ways the loop takes a row;
`HandlerReturns` and `HandlerRaises` are one subscriber each. A sweep keeps what
it wrote in `verdict` until `CommitSweep` makes it visible, and `LoseSweep`
drops it (worker death, `job_timeout`, a failing statement). Such a sweep counts no
attempt; one that had not taken up a row yet (`Idle`) may be lost any number of times. `handled`,
`dispatches` and `lost` are history variables that the properties use. Time is
counted in units of the first second of the backoff.

**Webhooks.** An endpoint row exists or not, is paused or not and has a failure
counter. A job goes from `queued` through `loaded`, `posting` and `answered` to
one of `Ended`, or back to `queued`. Its run keeps in `snapshot` the counter
value that the ORM object read; `CommitFailure` writes that value plus one,
`CommitSuccess` writes zero only when the value read was not zero, because the
ORM emits changed columns only. `Holds` is the KEY SHARE lock that the inserted
delivery row takes on its endpoint: `CommitDelete` waits for it, the UPDATEs do
not. An admin's request is read (`ReadEndpoint`) and committed in two steps.
arq is external: `StartRun`'s cap, `Expire` and `WorkerDies` are modelled from
`WorkerSettings` and from how the jobs rely on it: an exception other than
`Retry` ends a job, and `job_timeout` ends it unseen by `dlq_wrap`.

**EventPipeline.** The subscriber at position `FanoutAt` reads the endpoints in
a session of its own (`ReadEndpoints`) and pushes one job per match
(`EnqueueOne`); the jobs stay in Redis whatever becomes of the sweep. Every
other step is a step of one of the two modules with the other's variables
unchanged. Retry delays are left out of `Webhooks`: a job that waits is queued,
and no property depends on how long.

**Documents.** A row of `quotes` or `contracts` is `absent` or has a status, the
set `reached` of the statuses whose timestamp column is set, `deleted_at`, a
number, a version and `superseded_by`. A route is a transaction without locks:
`ReadForMove`, `ReadForUpdate`, `ReadForResend` and `ReadForContract` are its
SELECT and its checks, `CommitMove`, `CommitUpdate`, `CommitResend` and
`CommitCreate` are its UPDATE or INSERT, which name the row by its key only and
check nothing again. `handler` holds what a request has read. Creating a row
takes the advisory lock and the next number in one step (`TakeNumber`;
`LockHolders` keep it to their end), re-issuing one reads the highest version
without a lock (`TakeVersion`), and both are subject to the partial unique index
(`IndexAdmits`), which ignores deleted rows. `amended`, `undone` and `origin` are history:
edits that took effect after the row left draft, sends that overwrote a decision
of the row, and the quote whose terms
`create_contract_from_quote` copied (the column `quote_id` is no evidence of
that: POST and PATCH accept any quote). `ReadForMove` merges the routes by their
effect: each (from, to) pair of `QuoteMoves` and `ContractMoves` is one route.
`expired` is declared and reached by nothing.

**Signatures.** A signature request has a status (`envelope`), the timestamp
columns that are set (`marks`) and a document (`subject`). `clerk` is a request
on signatures in progress, staff's, the signer's or the vendor's: the webhook
has the guards and effects of the signer's routes, so it shares their actions.
Signing takes three steps after its check: the audit trail is put into S3
(`StoreArtifact`), the document is read, which flushes the new status and so
locks the request's row (`FlushSignature`, `RowLocked`), and both rows are
committed (`CommitSignature`). `Withdraw` ends a request at any point; S3 keeps
what it has. All steps of `Documents` may come in between.

**Records.** A page is a record of `Protocol`: whether it lists rows or shows
one, which columns its saves send, whether its control is disabled meanwhile,
whether it sends `If-Match`, what it does on 412 and on another error, whether
it shows a change before the answer, and where a success leads. One set of
actions runs every page from its record. A row has two columns, the stage and
the rest, and a value is the number of the call that wrote it, so that two
writers never write the same by chance. The server reads and checks in `Open`
(404, 428 without a version, 412 for another one) and updates in `Commit`:
the UPDATE names the columns that differ from the row read and the version
read plus one, because that is what the ORM emits; between the two nothing is
locked. `Background` is a `change_stage` automation, which writes a version, or
a row of an upsert import, which writes none. Detail pages share the query
cache of their tab: what they asked for lands there wherever the tab is by
then, while the answers of other pages are lost with them. `forked`, `silent`
and `blind` are history: rows on which two transactions overlapped, rows an
import changed, and saves that overwrote a value their page never showed.

**Sessions.** The tabs of a browser share a jar of two cookies; tokens are
numbers in the order of their minting, and an access token has the number of
the refresh token it came with. A call is sent, worked on in as many steps as
the server has commands that others can see in between (`ResolveRefresh` then
`Rotate`; a revocation lists the sessions and `RevokeNext` takes them one by
one), answered, and heard by its tab. `Unauthorized` is the 401 branch of
`request()`: join the tab's refresh, or start it, or use the one that has just
settled; `Settled` sends the waiting calls once more or fails them; `Forget` is
the timer that clears `refreshInFlight`. `Reload` throws away what a tab waited
for (its calls go on with the sender `Gone`). `Expire` is an access token or a
tombstone that runs out, or an account that is disabled. `history` records what
the properties are about: which tokens set off the alarm, which were sent by two
tabs or lost with their answer, which sessions were cut.

**Imports.** An upload is `checked` (both guards of `create_import` passed),
`stored` in S3, `committed` as a job row, and only then pushed. The run claims
the row (`Claim`), reads the file and an index of the emails and phones in the
table (`ReadTable`), and in one transaction writes every row and stamps the job
(`WriteRows`). What a row does depends on the index as it was read and as the
rows before it changed it (`Match`, `Learn`), and on the table as it is when
the statement runs: a created or overwritten email that a live record has breaks
the unique index, and the run raises (`Collide`). `Outcomes` folds the rows into
the table they leave. A row is its two keys: nothing else decides anything.
People add, edit and trash records at any time. `Raise` and `Crash` end a run
between any two steps: the first for good, because arq re-queues only `Retry`
and cancellation, the second until `max_tries`. An edit marks its record as
`moved` when it gives it another phone. `stale` (who changed the table
since a run read it), `raced`, `wrote`, `dropped` and `collided` are history.

**Screens.** The front end's cards and pages differ in data and in a few
choices, and those choices are what can go wrong: which flag a control sets,
which flags disable it, whether the flag is the id of one row, when it is
cleared, whether the list is read again or the answer put into it, whether a
late answer is ignored. So a screen is a record with a set of operations, an
operation a record (`ScreenShapes`, whose comment explains every field), and
four modules hold the records, each mapped to the lines of its screen.
`Screens` gives them their behaviour once: `Start` is a click on an enabled
control, `Filter`, `More` and `Poll` are the other ways to send a call,
`Listed`, `Done` and `Failed` are the handlers of the answers. `PutAway` is the
"clear selection" of the bar that tags the chosen rows: it is never disabled, and
the bar's flag goes with it while its call goes on. `LookAgain` is the poll for a
rendered PDF, whose files are a list of their own beside the document
(`QuoteFiles`, `ContractFiles`); the code gives up after twenty listings, which
is here a listing accepted without the file. The bell lists when it is opened,
until a list or an error has come, and its timer asks for the unread count only,
which is not modelled; marking all read changes every row at once. A card that
lists empties itself, keeps what it has, or does either depending on the error
(`Refusable`: the cards that empty on "insufficient role"). The server is
generic: rows with a version each change raises and a secret some operations
set. A secret is worthless once its key is revoked or its row is gone
(`server.ended`); the cards leave such a one on the screen (`Ending`) until it is
dismissed (`Hide`). A call is served, refused or lost. TanStack Query's rules (one listing per
key, `fetchNextPage` and `invalidateQueries` cancel or restart it, a mutation
whose handler returns the promise is pending until the listing is back) are
external and modelled from how the hooks use them. Where two operations of a
screen have the same record, they are one.

## Runs

| Run | Instance | Shows |
|---|---|---|
| `outbox` | 3 events (one of an unknown type, one that does not parse), 2 sweeps, 2 subscribers, 2 attempts, batches of 2, 1 lost sweep | processed rows were handled by all subscribers; dispatches are accounted for; settled rows are final; `EventDelivery` is implemented; every committed event settles once sweeps are no longer lost |
| `webhooks` | 1 endpoint, 2 jobs, one admin who pauses and unpauses and one who deletes (`Roles`) with 2 requests, 2 tries, threshold 2, 1 crash | deletes wait for runs in flight; the log is sound; the counter is backed; every job ends |
| `pipeline` | 1 event, 1 sweep, 2 subscribers, 2 attempts, 1 lost sweep, 1 endpoint, 3 jobs | duplicate jobs are accounted for; nothing uncommitted is posted; a fit endpoint hears once sweeps are no longer lost |
| `documents` | 3 quote rows, 2 contract rows, 2 handlers, 7 requests; symmetric | timestamps tell a legal path; numbers are not reused; versions are dense and revisions point forward; contracts come from accepted quotes; edits after draft are bounded |
| `signatures` | 1 quote, 1 contract, 2 handlers with 3 requests; 2 signature requests, 2 clerks with 6 visits; symmetric | envelopes' timestamps tell legal paths; a signature has its audit trail; a signature decides its document, in the status that is read, unless a racing send overwrote it |
| `records` | 1 row; one tab on any of ten pages, or two tabs on the form of a product; 5 calls, automations and imports included, 1 lost | a version names one content; every blind overwrite is of a known kind; the board's guesses end |
| `sessions` | 1 browser, 2 tabs, 2 user actions, 1 lost call or answer, 1 expiry | the theft alarm is accounted for; a logout ends its session; signing out the others keeps one's own; no caller waits for ever |
| `screens` | every screen with one or two of its controls, 2 rows, 2 filters, 3 acts of the user, the timers and the network; rows symmetric | what a screen at rest shows; flags keep calls apart and are released; a form is sent once; a secret on show is current or was ended |
| `imports` | 2 uploads of any of 3 files (create, upsert, unreadable; up to 4 rows), 1 record, 2 emails, 2 phones, 2 starts, 2 faults, 1 change by hand | no job in flight is stranded; rows are imported once; imports meet only when they raced; twins and collisions are accounted for; every job ends |
| `webhooks_streak`, `documents_machine`, `signatures_terminal` | 1-2 jobs or documents | disagreements, see below |

Type invariants are theorems (`TypeCorrect`, `DocTypeCorrect`).

The bounds are the smallest that let the hazards happen. Two sweeps and a batch
of two let a sweep hold one row while another claims the next. Two attempts give
a retry after a failure and a dead letter, one lost sweep gives a dispatch that
nothing records. Two jobs on one endpoint give stale counters, two tries a retry
and the limit, and two admins a commit whose endpoint the other has deleted. In
the real configuration the three limits on tries are 5 (arq), 8 (job) and 8
(wrapper); the instances keep their order with 2, 3 and 3. Three rows of quotes
hold a number and its re-issue next to another number, or two racing re-issues
of one row; seven requests are create, send, two racing resends, and three more.
Two signature requests on one document give a signature that finds it decided,
and two clerks race on one request. Five calls on a row are a load, two saves
with a background writer between them, and the version or the listing fetched
after a refusal; a second tab adds nothing on other pages that a background
writer does not, except on a form both have open. Two tabs with two actions give
two refreshes with one token, a logout beside a refresh, and two calls that wait for one; one expiry is what makes a
call be answered 401. Two uploads race past
the guard; the files hold an email on two rows, a phone on two rows and a row
that is refused, next to a record with a phone; two starts let a crash be
followed by a run that succeeds, and two crashes by giving up; one change by
hand makes an index stale. The session theorems hold for any number of browsers,
tabs, calls and faults, and those about screens for any number of controls, rows,
filters and acts. A screen with three acts has two operations and a
filter, a poll, a Load more or a lost answer between them; three or more
controls of one screen interact only through flags, two at a time. `Named` in
`MCScreens` gives screens with one flag the same name for it, so that equal
screens are one. The constraint `WorthIt` stops a screen that also filters,
polls or loads more after two acts when two of its controls are in use, and
starts with a row missing only where one can be created.
`LastRecord`, `MaxTime`, `MaxLost`, `MaxCrashes`, `MaxRequests`, `MaxVisits`,
`MaxCalls`, `MaxFaults`, `MaxHand`, `MaxTicks` and `MaxActs` only bound the state space;
every one is a guard, and the theorems hold for every value. `MaxTries` and
`DailyCap` are settings of the program. The set of `Handlers` is finite and not
empty (`DocumentsAssumption`): `AmendmentsBounded` counts them.
Deadlock is not checked: when the clock stops and all rows are settled the
bounded system has nothing left to do; nor have handlers, clerks, tabs and
screens once all requests are served and uploads and runs once all have ended.

## Fairness

`Outbox` assumes weak fairness of the clock, of the end of a request's
transaction (`get_db` closes the session, so it commits or rolls back) and of
each sweep (cron starts one every five seconds and HTTP, handler and job
timeouts end it). `Webhooks` assumes it of each job's next step (arq polls, and
every run ends by an answer, an error or `job_timeout`) and of an admin's commit.
`Sessions` assumes it of the server (a request is answered), of each tab's
handling of an answer or of the error of a lost call (a promise settles: a
request that hears nothing is ended by the browser as an error, which is
`Lose`), and of the timer that clears `refreshInFlight`. `Imports` assumes that
while a request or a run is under way one of them goes on (the server and the
worker run; which goes first is open). `Documents`,
`Signatures`, `Records` and `Screens` state safety only and assume nothing.
Nothing is assumed of crashes, users' and admins' decisions or the outcome of a
POST: a subscriber or a job that fails again and again is a fair behaviour, and
there liveness follows from the attempt limits.

Lost sweeps are different, because a lost sweep counts no attempt: a batch that
outlasts `job_timeout` on every tick is rolled back and claimed again for ever,
and the code has nothing that ends this. So `EventuallySettled` and
`EveryFitEndpointHears` have a premise, `SweepsSurvive`: from some time on no sweep
is lost. Without it they are false of the model too, since a sweep that has
not taken up a row yet is lost without a bound; `MaxLost` limits only the losses
that `lost` counts, those of sweeps that had.

## Proofs

TLAPS checks every statement below for all values of the constants that satisfy
the modules' `ASSUME`s.

*Outbox.* `TypeCorrect`, `ProcessedRowsAreHandled`, `DispatchesAreAccounted`,
`OnlyCommittedIsHandled`, `SettledRowsAreFinal` and `OutboxRefinesDelivery`. All
rest on one inductive invariant `IInv`. That a processed row was handled says
nothing about a row in the hands of a sweep, so `IInv` adds that claims are
disjoint and of pending rows below the cap (`ClaimsInv`: the row locks), that a
sweep judges only rows it holds (`SweepInv`), that an `ok` verdict stands for a
full set of subscribers and the current row for all before its position
(`HandledInv`), and that the dispatches of a row are at most its counted
failures, the lost sweeps, and one for the attempt in progress (`DispatchInv`).
The refinement maps a row to its phase; one `CommitSweep` is one `Settle`.

*Webhooks.* `TypeCorrect`, `InFlightEndpointsExist`, `DeliveryLogIsSound` and
`CounterIsBacked`. The counter needs that every value read in a run, and every
counter an admin holds, was backed when it was read, since `failed` never falls.

*EventPipeline.* `ImplementsOutbox` and `ImplementsWebhooks`: every behaviour of
the composition is one of each component, so its theorems carry over.
`OnlyCommittedIsPosted` joins the two: a sweep works on committed rows only, and
a job carries the event of a row some sweep held. `DuplicatesAreAccounted` bounds
the jobs of one endpoint for one event by the failed attempts, the lost sweeps
and one. It takes the invariant of `Outbox_proofs` through the instance, and
adds `PushInv`: a dispatch has pushed at most one job for an endpoint, and while
its sweep still owes that job the jobs are fewer than the dispatches.
`PipelineRefinesDelivery`: what the outbox promises alone (`EventDelivery`) it
promises with the webhooks behind it. `FitEndpointsAreFed` is the safety half of
`EveryFitEndpointHears`, for any number of sweeps, endpoints and jobs: a row
that reads processed has left a job for every matching endpoint that was fit
when the row was written and stayed so. Its invariant `FedInv` has a dispatch
that is past the fan-out, or whose sweep holds an `ok` verdict, already backed
by a job; what remains for TLC is that the row is settled and the job ends.

*Documents* (in `Signatures_proofs`). `DocTypeCorrect`, `PathsTold`,
`NumbersUnique`, `RevisionsSound` and `ContractsBacked`, from
`DocInv`, and `UpdatesBounded`. A commit does not check, so the invariant says
what a request may still rely on: the row it read is there, some status it has
reached allows the move (`MoveOK`), the version it took is above that of the row
it re-issues and all versions below are taken (`ResendOK`), and the one creator
that holds the lock has a number above every row (`CreateOK`, `OneCreator`).
These survive other requests because rows, numbers and versions never change and
timestamps are never cleared (`RowsKept`). `AmendInv` bounds the edits that take
effect after a document left draft and the sends that overwrite its decision:
those made and those still to come, one per handler that read the draft, are
fewer than the handlers, because the handler that moved the document was not one
of them, and nothing that reads a draft starts any more.

*Signatures.* `TypeCorrect`, `EnvelopesTold`, `SignaturesEvidenced`,
`SignaturesDecide` and `SignedPathsTold`, from `IInv`, which contains `DocInv`:
the steps of `Documents` keep it by the lemma of that module, and a signature's
write to a document is a move from `sent`. It adds that nothing leads back to
draft (`DraftFresh`), so a sent document that is not waiting is decided or
deleted, and that a visit which found its document so still does when it
commits (`SignVisitOK`), because deletions last and a decision does not go back
to `sent` except by a send that `undone` counts (`DocsAge`).

*Records.* `TypeCorrect`, `OneContentPerVersion`, `LossesAreKnown` and
`GuessesAnswered`. What a
page holds says nothing by itself about what a later save overwrites, so the
invariant `IInv` ties all copies together: on a row no import touched and no two
transactions overlapped on (`Clean`), every call (`CallOK`) and every tab
(`TabOK`), whatever it carries, agrees with the row: an older version, or the
row's version and its content. A transaction that is open has read the row as
it is (`NoOverlap` makes it the only one), so its commit raises the version and
leaves every older pair older; the If-Match check then makes a save that passed
carry the row's content as its base, unless the form was rebased. Versions are
positive, which keeps the empty copies (version 0) from agreeing by accident.
`GuessesAnswered` rests on `GuessInv` besides: only the board guesses, and a card
it moved ahead has its move or a listing under way, or a listing failed since the
latest that came (`stuck`); for that, a page hears only what it asked for
(`CallsOfPage`), a refused move lists again, and a listing replaces every guess.

*Sessions.* `TypeCorrect`, `ReusesAreAccounted`, `LogoutsEnd` and
`OwnSessionsKept`. `TypeInv` adds to `TypeOK` that the calls are finitely many,
so that a new one finds an id, and which state a call of each kind can be in.
`TokenInv` is the argument for the alarm: a tab has one refresh under way
(`OneRefresh`), a token whose answer is under way is nowhere else (`NewTokens`),
browsers hold different tokens (`BrowsersApart`), and a token that is rotated
and still in a jar or in a request is on its way to be replaced, or was shared
or lost (`JarsAccounted`, `RefreshesAccounted`). `EndInv` is the argument for
logouts and revocations: a logout or revocation that nothing raced carries the
token of its jar, and its browser renews nothing (`EndingsApart`); a browser
that is out holds nothing and refreshes with nothing (`SignedOut`); a
revocation never lists the token it spares (`Legal`). `CallersAreAttended` is
the safety half of `CallsSettle`: a caller waits only while its own tab takes a
refresh to be in flight (`NobodyForgotten`), and then there is one (`OneRefresh`),
so what remains for TLC is that a refresh is answered.

*Screens.* `TypeCorrect`, `ControlsComeBack`, `NeverSentTwice`, `SavedIsSaved`,
`SecretIsCurrent`, `OwnChangesAreShown` and `FilterIsShown`: every property of
the run `screens`. They hold for every set of screens that fits
`ScreensAssumption`, which TLC evaluates on the real ones: what a record may say
of flags (`FlagsFit`), of a list and the operations on it (`ListFits`), and of
filters and the query cache (`CacheFits`). A new card that fits needs no new
proof; one that does not fit fails that assumption first.

The handlers of answers differ in where they list again and which flags they
clear, and the proofs see all of them as one step: some calls go, those that
stay are marked, at most one listing comes (`HeardAs`). A click is `StartedAs`,
a replaced listing `SwapAs`, an answer of the server `ServedAs`. On these rest
four invariants besides `TypeInv`:

- `FlagInv`: a hold has one call (`HoldsApart`), and what a call holds and has
  not lost is what the flag says (`FlagsHeld`), so whoever clears the flag is
  whoever holds it, and a form that saved leaves its flag set (`FormsLeft`). On
  the query cache a filter has one listing under way (`OneListing`).
- `SecretInv`: unless two calls overlapped, the latest secret of a row that has
  not been ended is with the server and in the only call that may have brought it. Creations stay out
  of the way because a row that anything names exists (`RowsExist`).
- `ListInv`: the server is ahead of all the screen was told of (`AheadInv`), a
  call that no answer has passed carries what it was told of (`Fresh`), and
  what is in use is up to date, says it is not, or a listing for its place is
  coming (`Settled`). A guess has a call under way that ends it, or a listing
  (`GuessesOwned`). On screens with one filter nothing is for another
  (`FixedInv`).
- `FilterInv`: a cached answer is for its own filter (`KeyedInv`); a screen with
  a clean-up has listings for its filter only (`FlagPageInv`); on the others, a
  listing for an older filter was passed or has a later one for the filter
  behind it, after which it counts as passed (`FreeInv`).

*Imports.* `TypeCorrect`, `RowsImportedOnce`, `TableSettled`, `TwinsAreAccounted`,
`CollisionsAreAccounted` and `JobsAreCarried`, from `IInv`. `StageInv` ties the request, the job
row and the run together: nothing is written twice because a completed job is
not claimed and every other end of a run leaves no row. `EntriesRaced` says that
two uploads past the guard, or in flight, at once were both past it before
either had its row; it leaves out unreadable files, whose failed job arq may
start again beside a new one. `IndexInv` says what an index still knows: every
phone that a record had when it was read and has not been given since
(`PhonesKnown`), and every email as long as nobody has changed the table
(`EmailsKnown`). The rows of a file keep `WorkInv`, the same facts about the
table and the index in the middle of the loop: a record is created only for
keys the index lacks, so its phone is nobody's, and its email neither in create
mode on a table at rest; in upsert mode an overwritten email is not entered in
the index, and `EmailsKnown` is lost. Files have any length, so this is an
induction over rows. The library's induction theorem takes an operator the
provers cannot instantiate; `Induction` states it for sets instead, from the
well-foundedness of `<` (`LeastNat`), and `LoopDefined` shows by it that the
recursion in `Outcomes` defines a function. `JobsAreCarried` is the safety half
of `ImportsEnd`: a job in flight has a request or a run that is still to end it,
or was dropped, or its run raised.

Only model-checked: liveness (`EventuallySettled`, `JobsEnd`,
`EveryFitEndpointHears`, `CallsSettle`, `ImportsEnd`), which is out of the
prover's reach; for the last three a theorem says that whoever is to make the
progress is there. Every safety property that a passing run checks is a theorem.

## Where code and words disagree

Each of these has a run that violates what the words say.

- `webhooks_streak`: ten failures in a row are said to pause an endpoint;
  concurrent runs write back the counter they read and lose increments.
- `documents_machine`: `quotes.py` lists "the ONLY legal transitions" and calls
  `accepted` terminal; two sends of one draft both pass their check, and the one
  that commits after the acceptance puts the quote back to `sent`. The theorem
  `PathsTold` says what survives: the timestamps.
- `signatures_terminal`: `signatures.py` calls `cancelled` terminal; a send that
  read the draft before the cancel commits after it and sends the request.

Seen while modelling, without a run.

In the back end: the docstring of `drain_outbox` promises a wait after each
failure, but the claim measures from `occurred_at`, so a row first claimed late
is retried at the next sweep; `deliver_webhook` documents eight attempts, but
arq's `max_tries = 5` drops the job before the sixth, so that the wrapper's
limit of 8 (`worker/settings.py` 113) is never reached and a job that fails for
good does not reach `arq:dead`; unpausing resets the counter "so the auto-pause
threshold doesn't fire again on the very next failure", but a run that read the
counter before writes it back; the diagram of `signatures.py` goes from
`sent` through `viewed` to `signed`, while a request may be signed from `sent`;
`resend` promises never to reuse a version "another revision held", while one
that reads the highest version, and inserts after another re-issue was inserted
and deleted, takes the version of that one, since the index ignores deleted
rows; `dispatch_event` says that an unknown type
is marked as a permanent error, while its row is retried up to the cap; and a
batch that outlasts `job_timeout` is rolled back with no attempt counted, so the
same batch is claimed again.

Between the pages and the API: the stage buttons of a lead's page
(`useUpdateLead`) pass no version, so the server answers 428 and the buttons
never work; the edit pages of leads, customers and companies replace
their form by the error on a 412, while those of products and deals keep it,
take the new version and so overwrite, on the second attempt, what the user
never saw (`LossAccounted` names this case); an import overwrites columns
without a new version; `auth.py` 626-633 says that the front end's single
flight mitigates two refreshes with one token, but `refreshInFlight` is a
tab's own, and two tabs set off the alarm (`ReuseAccounted` names this case);
`uploadAttachment`, `uploadAvatar`, `createImport` and the CSV export use `fetch` directly and
fail on an expired access token instead of refreshing it.

In imports: guard 1 says it keeps imports serial, but two uploads pass it before
either commits (`SettledTable` names them); an upsert file whose first row gives
a record an email and whose next row, matched by nothing, has that email breaks
the unique index, since the index of phase 3 does not learn what it overwrites
(`CollisionsAccounted`), and `process_import` handles that error nowhere: arq
does not run the job again, the row stays `processing`, and guard 1 refuses
every later import of the organization with 409. An error of S3 or `job_timeout` in the
run ends the same way, although `models.py` says `failed` covers a "fatal parse/read
error"; a push lost after the commit leaves `pending` for ever (`ImportsEnd`
names all of them).

On the screens: `lib/use-leads.ts` 71 says a deleted lead drops out of every
list; Load more, pressed before the listing the deletion asked for is back,
cancels that listing, and the lead stays; a custom field created while the
entity is switched lists under the old entity (`FilterShown` names it for the screens without a clean-up); the
second button of the billing page that opens the portal is disabled by nothing
(`billing/page.tsx` 318, named in `NeverTwice`); the message of an operation on
one inbox thread is appended to whatever thread is open by then; the poll for a
rendered PDF is outside any `try`, so that its failure leaves the spinner on
(named in `LocksEnd`); the bar that tags the chosen rows can be put away while its
call is under way, and the next one sends beside it (named in `NeverTwice`); the
banner of a new API key, webhook secret or invitation link stays after that key
is revoked, that endpoint deleted or that invitation withdrawn, although the
server no longer accepts it (named in `SecretCurrent`).

## What is not modelled

`PROJECT.json` gives every component that is not modelled with the reason. In
short:

- *Webhooks*: `rotate_secret` and `/test` touch neither the counter nor the
  jobs (the card that calls them is in `SettingsScreens`); pruning deletes
  delivery rows older than 90 days.
- *Documents*: line items and totals, which are arithmetic on one row, PDF jobs.
- *Sessions*: revoking one session by its id and a password reset, which
  revokes all in the same way as the alarm; MFA (`mfa_verify` ends like a login).
- *Records*: creating and converting a lead (their forms are in `WorkScreens`,
  where the conversion's page is left at the end).
- *Screens*: the text on them, streaming, scrolling, charts and shortcuts; the
  pages `verify-email` and `mfa-setup`, which make one call when they open; a
  support dialog closes by a timer after its success, taken as leaving; in the
  model a list can always load more, and a screen is opened once.
- *Imports*: restoring from the trash (`api/trash.py` 162), at any time: a record
  that is trashed stays so, and a restored one could be a twin no property
  accounts for; merging and converting (the routes that add, edit and trash
  stand for people); other
  tables, which share the guard; the list and template routes, which only read.
- *Job queue, automations, task reminders, WhatsApp, billing and
  seats, duplicates, tenant isolation, GDPR and retention, AI credits*: the back
  end of these is not modelled. Their hazards that no property covers: the
  dedupe key set before the push, Stripe's webhooks out of order (in
  `PROJECT.json`); `send_email` retried although arq re-queues only `Retry`; a rule's actions and its run record under an
  idempotency key; several valid password-reset links; the maximum of document
  numbers being one of strings; status webhooks of WhatsApp out of order and the
  unread counter written back by concurrent messages; seats counted before they
  are taken; the overdue sweep deduped by reading earlier rows.
- `lib/api-types.ts` is generated; marketing and legal pages, UI primitives,
  PDF and email rendering, exports, search, dashboards, translations and
  configuration are text, formatting or I/O.

## Plan

Done, most important first: `Outbox`, `Webhooks`, `EventPipeline`; `Documents`,
`Signatures`; `Records` and `Sessions`, front end and back end together;
`Screens` over all pages and cards; `Imports`; the theorems listed above.

Next, in this order:

1. `JobQueue` and `Automations`: the dedupe key, runs of the other jobs,
   idempotency keys of rules, the overdue sweep.
2. `Billing`: Stripe's events and seats; `WhatsApp`: sends, status and inbound
   webhooks.
3. Totals of documents as a pure function against a reference.
