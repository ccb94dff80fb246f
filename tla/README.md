# A verification project for SupportOS

SupportOS answers customers from knowledge it copies from a company's website,
hands conversations over to operators, and learns from what came of them.
This directory holds TLA+ models of that program, TLC configurations that check
them on small instances, and proofs, checked by TLAPS, that some results hold
for instances of every size.  Every definition is translated from the code under
`src/`; `PROJECT.json` names the lines each one stands for.

## 1. Inventory

| Part | Where | State it keeps | Operations | Hard because |
|---|---|---|---|---|
| Website synchronization job | `app/integrations/postgres/web_sync_jobs.py`, `app/domain/models/web_sync_job.py` | one row per job (status, phase, lease, counters, publication status, retention), one row per page | enqueue, prepare, claim, heartbeat, complete or fail a page, promote, requeue, block, retry, reconcile, cancel, finish | many workers, leases that expire under a live worker, retries, counters kept by increments |
| Job worker | `app/knowledge/web/job_worker.py` | local variables of one `run_once` call | claims a job and drives it | reads before an await and acts after it, exception handler, timeouts, crash at any point |
| Staged publication | `app/knowledge/web/sync_service.py`, `app/integrations/postgres/knowledge.py`, `product_catalog.py`, `app/integrations/qdrant/adapter.py` | inactive versions, Qdrant points, product snapshot, the site's publication state | begin, stage, publish (switch and rollback), abort | three stores, no common transaction |
| Operator service | `app/application/services/web_sync_jobs.py` | none | enqueue, cancel, retry, reconcile | races with the workers |
| Coordinator and budgets | `app/knowledge/web/worker_coordinator.py`, `execution_budget.py` | turns, schedule, page slots | tick, reap, back off, acquire | fairness between tenants |
| Worker registry | `app/integrations/postgres/web_sync_workers.py` | one row per worker and tenant | heartbeat, coverage | reordered heartbeats of two generations |
| Crawler, preflight | `app/knowledge/web/crawler.py`, `app/application/services/web_crawl_preflight.py` | immutable manifest | preflight | I/O |
| Vault synchronization | `app/knowledge/sync.py`, `app/integrations/redis_knowledge_lease.py` | lease in Redis, versions | sync | lease and fencing |
| Conversation pipeline | `app/graphs/`, `app/application/services/chat.py`, `app/integrations/postgres/conversations.py` | conversation, message and run rows | one turn: read the routing, run the agent, persist the exchange | a row read without a lock and written much later |
| Handoff and operations inbox | `app/application/services/handoff.py`, `operations.py`, `app/integrations/postgres/operations.py` | status, owner, agent and routing version of a conversation, handoff rows, used keys | take over, release, resolve, mark read, reply, route, hand off | operators race each other, the turns and the auto-resolution |
| Presence, realtime hubs | `app/application/services/presence.py`, `app/realtime/` | sessions in memory or Redis, sockets | connect, heartbeat, publish | best effort by design |
| Widget configuration and its cache | `app/integrations/postgres/customer_experience.py`, `app/integrations/cache/public_widget.py` | versions of a configuration, the cached site | save, publish, roll back, read through | an invalidation and a slow reader |
| Outbox | `app/integrations/postgres/outbox.py`, `scripts/run_outbox_worker.py` | event rows with leases | claim, invalidate, announce, mark | at-least-once delivery, unfenced marks |
| Self-service enrollment | `app/application/services/self_service_onboarding.py`, `app/integrations/postgres/self_service_onboarding.py` | codes, enrollments, links, emails, an authority's counters | start, resend, expire, revoke, complete, mail | one-time codes and links, counters kept apart from what they count |
| Tenant experience | `app/application/services/experience.py`, `app/integrations/postgres/experience.py` | issues, case memories, evaluations, one release row, usages | learning cycle, activate, pause, roll back, retrieve | a cycle of many transactions against operators and turns |
| Identity, invitations, sessions | `app/application/services/*identity*.py`, `app/integrations/postgres/workforce_identity.py` | accounts, memberships, invitations, sessions | invite, accept, log in, revoke | one-time tokens, version checks |
| Governance, retention, analytics, API, dashboard, connectors | `app/application/services/`, `app/api`, `dashboard` | - | reports, batch deletions, transport | - |

The core is the synchronization of a website: a job is enqueued by an operator,
copied from its manifest page by page, claimed by one worker after another under
a lease, filled with pages, and published as one snapshot that visitors are then
answered from.  Workers talk to each other only through the rows: a claim writes
`lease_owner` (a token that is fresh for each claim) and `lease_expires_at`, and
every later store call of the run is refused unless the row still carries its
token.  The stages outside PostgreSQL (Qdrant, the product snapshot) carry no
such fence.

What makes each part correct: *jobs* - one worker at a time, completed pages are
never lost, counters tell the truth, every job ends and frees its site;
*publication* - all or nothing, not after a cancel, irreversible once visitors
see it; *coordinator* - no tenant starves, limits hold; *registry* - an older
generation never overwrites a newer one; *conversations* - none is closed over a
waiting customer;
*outbox and cache* - every audited write is announced or given up for good, and
the cache comes to hold what is published; *enrollment* - a code buys one
workspace, no more places are promised than there are, a good link is mailed;
*experience* - customers are given approved guidance only, none after a
rollback, and an outcome is learned unless something else dated its memory
after it.
`PROJECT.json` lists under `hazards` the places where these could go wrong.

## 2. Modules

| Module | Content |
|---|---|
| `WebSyncJob` | the job, its pages, the workers' runs, the operator, the staged snapshot as one status per job, time |
| `MCWebSyncJob` | constants for TLC: one or two jobs of one site, one or two pages, a product family, two workers |
| `WebSyncJobProofs` | types; waiting jobs hold no lease; the counters are the page rows; finished shadow jobs and completed shadow pages are final; shadow jobs share no site |
| `WebSyncJobPublicationProofs` | production jobs: one run drives a job, pages are fetched once, one unfinished job per site, what goes live is complete, not canceled, of one page per family, stays live, and is what the row says |
| `SitePublication` | the switch of one site from one publication to the next over Qdrant, PostgreSQL and the site row, its rollback, required recovery, and the abort of a staged publication |
| `AtomicPublication` | what that promises a visitor: whole publications or nothing, never one given up |
| `MCSitePublication` | the symmetry of the publications for TLC |
| `SitePublicationProofs` | the three publication properties for every instance, the refinement of `AtomicPublication` included |
| `WorkerCoordination` | one worker process: discovery, the queue of tenants, their runs, the page slots the runs share, the watchdog |
| `WorkerCoordinationProofs` | types, no slot is lost, nobody is overtaken in the queue |
| `ConversationOwnership` | one conversation: chat turns, operators, automation rules, the offline form, the auto-resolution |
| `MCConversationOwnership` | its symmetry |
| `ConversationOwnershipProofs` | types; operators and inactivity close no conversation over a waiting handoff |
| `WidgetPublication` | the configuration of one site, the outbox of its writes, the outbox workers, the access cache and the replicas that fill it |
| `WidgetPublicationProofs` | one version is served; announced means invalidated |
| `Enrollment` | codes, enrollments, links, an authority's counters, accounts, mail workers |
| `MCEnrollment` | two codes of one address |
| `EnrollmentProofs` | the three safety properties of enrollment |
| `ExperienceRelease` | issues, case memories, one release, the learning cycle, the operator, turns that ask for guidance |
| `ExperienceReleaseProofs` | approved guidance only, none after a rollback, a stopped release stays stopped |

`WebSyncJob` takes the switch as one step and `SitePublication` opens it up;
`SitePublication` in turn takes from `WebSyncJob` that a site has one unfinished
job and that job one run, which are the theorems `UnfinishedJobsShareNoSite` and
`OneRunDrivesAJob`.  The two are not composed: their product adds states
and no property that talks about both a page lease and a store of the switch.
`WorkerCoordination` sees a run of `WebSyncJob` as batches of pages that ask for
slots.  The other modules compose what meets at one row: `ConversationOwnership`
the chat service, the inbox, the automation and the auto-resolution at a
conversation; `WidgetPublication` the configuration store, the outbox, Redis and
the cache at a published site; `Enrollment` the onboarding store and its mail
worker; `ExperienceRelease` the learning worker, its operator and the turns.

### How WebSyncJob corresponds to the code

* `job[j]` and `item[j][i]` are the rows.  `report` keeps of the report what a
  retry looks at, `later` stands for an `available_at` in the future, `waiting`
  for a `next_attempt_at` in the future, `elected` for the decisions of
  the duplicate policy.
* `snapshot[j]` is the staged snapshot of a production job across the three
  stores: `staging`, `active` (what visitors are answered from), `superseded`,
  `failed` (aborted), `broken` (aborted after it went live: the pages are gone,
  the product snapshot is not).
* `run[w]` is one `run_once` call: where it stands (`pc`), its job, the slots of
  the current batch, the pages it fetches, whether its heartbeat has ended
  (`lost`), whether it is inside the finalization timeout (`timed`).
* Every store method is a transaction under the job's row lock, so each is one
  action; the steps of `run_once` between two calls are the moves of `pc`.
  `Holds` is the fence all store methods share.  A refused call raises, and
  `Raise` goes where the exception handler goes: to the staging abort, then to
  `fail`, for a production job.
* `ClaimNext` is all of `claim_next`: the two sweeps over every job, the
  choice, and the effects on the chosen row.
* `HeartbeatStops`, `LeaveLost`, `Fault`, `FinalizationTimeout` and `Crash` can
  hit a run between any two steps.  `LeaseExpires` and the other actions of
  `TimePasses` are the clock.

Abstractions, each of which adds behaviours or removes detail no property
distinguishes: a lease or delay is live or expired; a batch of rows is one row
at a time; product families have at most two pages; the quantum may end
anywhere after one step of work; which candidate `claim_next` picks is open
(the code takes the oldest); `attempt_count` saturates one above its limit;
`retry_blocked` does not look for pages that failed with a product identity
conflict, so it is allowed more often than in the code; `abort_staged_sync` is
one step and touches only the pages of its own job; `publish_staged_sync`
commits in one step or fails and leaves the live snapshot in place.  Left out:
the source configuration version checked by `enqueue`, the extraction of missing
identities, audit rows, error texts, tenants (a job never leaves its tenant).

### How SitePublication corresponds to the code

* `job`, `target`, `site` are the job of each publication, its manifest as a set
  of versions, and the site row (`state`, `active`, `pending`, and the state the
  switch came from).  `points`, `versions`, `product` are the three stores.
  `run` holds the local variables of `_switch_site_publication`.
* Each call to a store is one action, in the order of the code: `BeginSwitch`,
  `LoadContext`, then the Qdrant activation in its two requests (`RaiseTarget`,
  `LowerOthers`), `Commit`, `Finish`.  `_rollback_site_publication` is
  `RollbackRaise` to `RollbackProduct`, then `RestoreSite` or `RequireRecovery`;
  an error is remembered (`failed`) and the next store is tried all the same.
* A store that refuses a call and a store that fails look the same to the
  caller: `SwitchRaises`, `RollbackRaises`, `ReleaseRaises`, `AbortRaises`.
  `Accepted` says when a store refuses.
* An abort discards in the three stores and then ends the job (`EndJob`), also
  when a store raised (`AbortRaises`).  A cancel or a cleanup stands on the row
  (`aborting`) and is claimed again until it is done.  An abort by the exception
  handler does not: cut off, it leaves an `open` job whose draft is gone, and
  the next claim stages the pages afresh (`Restage`).
* `CutOff` is a crash or the finalization timeout (a `CancelledError`, which the
  handler of the switch does not catch): nothing is rolled back.
* `GateOpen` is the condition of `publication_gate.py`.

Abstractions: a publication stages one new version, which is named like it, and
keeps versions of the live one; the points of a version come and go together,
so the count check of the activation compares versions; a refused
`begin_site_publication_switch` changes nothing and is not a step; the gate
and the search behind it are one request.  The legacy `sync()`, which stages
and switches in one call without a job, is left out.

### How the other modules correspond to the code

*WorkerCoordination.*  `cached`, `queue`, `resting` are the coordinator's
`_cached_tenant_ids`, `_queue` and the schedules whose `next_run_at` is in the
future; `task` holds the tasks and what they returned.  `Tick` is all of a tick
up to its wait (cancel, reconcile, select, start), `Reap` the rest; `phase` says
which is next, because a batch may start and a page end between them.  The queue
is a line: the set of pairs of which the first is not behind the second.
`Reconciled` and `Rotated` then are unions and intersections, and a tick need not
be followed turn by turn: `Passed` are the tenants the loop of
`_select_ready_tenants` takes from the front, those with fewer ready tenants
before them than may start.  A page is its tenant and its number in the batch;
`line` holds the waiters of the page semaphore, served in order, `free` its
value, `held` the pages with a slot and `hung` those of them that never end.  A
run has up to `Quantum` batches of `Concurrency`
pages.  In `BatchFails` a page raises: `run_once` fails its job, which counts as
progress, so the tenant does not rest.  `CutOff` is the watchdog of `_run_tenant`
or a run that raises itself, after which the tenant rests.  Both cancel the rest
of the batch, whose leases are released on the way out.

*ConversationOwnership.*  `conv` is the row without what is not about ownership
(queue, priority, tags); `due` says that `auto_resolution_eligible_at` is set,
its time may be over at any moment.  A turn is four steps: `RouteTurn` (the
routing read), `RunAgent` (which may open a handoff in a transaction of its own),
`LoadConversation` and `PersistExchange` (the SELECT and the UPDATE of
`persist_exchange`, which takes no row lock).  `Written` is the unit of work of
the mapper: only columns whose value differs from the loaded one are in the
UPDATE.  An operator's request is two steps, `ReadWorkspace` (the service, with
the checks it makes) and the write of the adapter under the row lock; `version`
is the `expected_routing_version`.  `MarkRead` has no such version: it writes the
status, owner and agent back that `ReadWorkspace` read.  `closer`, a history
variable, says whose write made the conversation resolved: a confirming customer,
an operator, inactivity, or a mark that wrote an older resolution back.

*WidgetPublication.*  `versions` are the rows of the site, `published` numbers
its publications.  The database trigger makes an outbox event of each audit row
(`Enqueue`).  An outbox worker claims a batch, then invalidates, announces and
marks each event: one action per call.  The marks do not ask whose lease the row
carries.  A replica reads the site on a miss and stores it in a later step;
`overtaken` remembers an invalidation in between.

*Enrollment.*  A row per code, enrollment and link.  `late`, `lapsed` and `over`
say that an `expires_at` or `reserved_until` has passed; the code looks at them
only when somebody asks, so there is no action of the system in an expiry.
`reserved` and `active` are the counters of the authority, changed by the same
increments as in the code, `Less` being the one that stops at zero.  The mail
worker claims any batch of the mails that may be claimed (those whose lease and
delay are over, up to a limit), sends and marks in three steps; `link[i].n` tells
a link from the ones it replaced.

*ExperienceRelease.*  `rev` is the revision of an issue and the one a memory was
built from; `approved` is the manifest with the revision each memory had when it
was activated.  An evaluation names memories by id only, and its ids are what the
operator sends: nothing compares them, or the contents, with what was evaluated.
`behind` is the comparison of the two `updated_at`.  The date of an issue's change
is taken before its transaction (`DateChange`) and committed later
(`IssueChanges`); `change` holds it in between, with how it compares to the memory
and to the running cycle.  What a cycle writes carries the moment the cycle began,
so an issue that changes during it stays `behind` (`late`, `Dated`,
`DatedByCycle`); what an operator or an invalidation writes is dated as it is
written, after every change that already has a date (`DatedNow`).  The changes of
one issue follow one another.  A deletion takes the issue, the memory it saw, that
memory's usages and those of the conversation's own turns.  Each method of a
cycle is one transaction and one action, the build two: it holds the rows of
its issues while it computes embeddings.  A turn reads the policy, then the
store, then records its usages.

Abstractions: of the guardrails and the quarantine, which failures are enough is
open, but there is at least one; the verdict on an evaluation is the verdict of
its run; expiry dates of memories, the ranking of candidates, the holdout group
and patterns are left out - a turn is given any subset of what it may be given.
In all these modules a replay of an idempotency key and a refused call change
nothing and are not steps.

### Bounds and environment assumptions

`MaxInterruptions` (crashes and heartbeats that stop), `MaxFaults` (unexpected
exceptions), `MaxRetries` (operator commands that reopen a job) and
`MaxPageFailures` (retryable page failures) bound events of the environment and
occur in guards only.  `MaxFailures`, `MaxItemAttempts` and `Concurrency` are the
code's own limits.  Three constants say what the environment may do:

* `PromptHeartbeats` - no run is paused for longer than its own lease.  The code
  does not guarantee it (an event loop can stall), so `shadow` and
  `families` drop it; the other production runs need it (see the stale abort
  below).
* `SlowPages` - a page may take longer than its own lease, which nobody renews.
  `OneFetchPerPage` needs it false: such a page is claimed a second time, by the
  very run that still fetches it.
* `LateFailures` - a run may fail or time out although its snapshot went live.
  `PublishedIsNeverDiscarded` needs it false: see the late failures below.

In `SitePublication`, `MaxFaults` (store calls that raise) and `MaxCrashes`
(calls cut off) bound the environment, again in guards only.  Three constants
switch on behaviour that breaks the properties, so that each exception has a name:

* `MaxLostAcks` - commits that take effect but raise.
* `LateAborts` - a job is aborted although its publication is live (in
  `WebSyncJob` the late failures).
* `FailingResumes` - the reads at the start of a resumed switch raise (see the
  resumed switch below).

In the other modules `MaxFaults`, `MaxCrashes`, `MaxWrites`, `MaxVersions`,
`MaxIntents`, `MaxResends`, `MaxChanges` and `MaxEvals` bound what people and the
environment do, `BatchSize`, `MaxAttempts`, `MaxActiveTenants`, `PageSlots`,
`Concurrency`, `Quantum` and `MaxTenants` are limits of the code.  `Key` bounds
the writes of operators, `Turn` the customer's messages.

## 3. Runs

The runs of `WebSyncJob` use at most two workers, two jobs and two pages.  That
is enough for every interleaving the properties talk about: a run and the run
that replaces it, a page that is finished and one that is not, a winner and a
loser, two jobs for one site.  `switch` uses three publications: one that is
live, one that fails, one that comes after.  Its three faults are enough for a
switch that fails, a rollback that fails too and a release that fails; with two
calls cut off, a switch and its resumption can both be lost.  Larger instances
are the subject of the proofs.

`production` lets two jobs of one site, two runs with two slots each and two lost
leases meet; that a manifest of several pages goes live only as a whole needs two
pages and is a matter of `progress_production`.

`inbox` uses an operator and a manager, two turns and two writes of operators:
enough for a turn, an operator and a stale mark to meet in any order at one
conversation.  `widget` has two outbox workers, so that a claim can outlive its
lease, two writes, and an attempt more than the one that fails.  `turns` has one
tenant more than turns and two batches that together ask for twice the slots.
`signup` gives two codes to one address and one place to the authority, so that
they compete for both and the limit refuses, with one resend, one mail worker and
one failure; the lease of a claim may end at any time.  `learning` has one issue
with an outcome and its revision: the properties relate an issue, its memory and
the release, and the second issue, which does not fit into the time limit, is
left to the proofs.

Deadlock is checked in `learning` only.  In the other runs the system may stop
when the bounded events are spent; the liveness properties check what must
happen before.

| Run | What it shows |
|---|---|
| `shadow` | a paused worker that wakes up after its job was reclaimed cannot change completed pages or a finished job; idle jobs are unleased |
| `production` | two jobs of one site, two runs with two slots, two lost leases, a fault and cancels: a publication was not canceled, stays live and is what the row says; one unfinished job per site; no job is driven by two runs that do more than clean it up; one fetch per page |
| `families` | with paused workers and late failures: never two pages of one product family in a publication, promotion and retry included; the counters are the page rows |
| `progress_production` | every production job ends, by success, cancel, remediation or retention; with a dead worker, a failed page and a retry, what goes live is complete and is what the row says |
| `switch` | with failing stores, runs cut off and aborts left unfinished: whenever the gate is open all stores show one whole publication; the previous one can always be restored; the switch implements `AtomicPublication` |
| `inbox` | operators and the auto-resolution close no conversation over an open handoff that no turn is about to report, whatever turns and stale marks run next to it |
| `widget` | announced publications were invalidated; every event is announced or a dead letter; the cache comes to hold the last publication or nothing |
| `turns` | slots are conserved through every end of a run; who is due is started or comes closer to the front; no active tenant starves; no batch waits for ever for slots another one holds |
| `signup` | the counters cover what they count; an open enrollment can be completed; a used or revoked code completes nothing; every good link is mailed |
| `learning` | guidance is what was approved; none after a rollback; a release that was stopped stays so; an outcome is learned unless its memory was dated after it |

Fairness (`FairSpec`): every step a run or an idle worker can take is taken
eventually (the worker process polls for ever and restarts after a crash), and
time passes (a lease that is not renewed expires, delays and retentions end).
Nothing forces an operator to act, a crash or a fault.  A crash frees the worker
slot at once: the slot stands for the next `run_once` call.  The
run allows four attempts per page so that it does not meet the stuck
page described below: aborted pages keep their attempts.  `FairSpec` of
`SitePublication` says that a run goes on, that an open publication is claimed
again until it is published or given up, and that an abort that began is tried
again; nothing forces an abort to begin.

`WidgetPublication`: the worker's loop claims and works (`WF`), leases and cache
entries end, a replica that has read the site answers.  `WorkerCoordination`: the
loop ticks, rests end, free slots go to the line, and of each tenant's pages
that do not hang one ends after another.
`Discover` needs strong fairness, because the discovery interval decides at each
tick which of `Discover` and `ReuseDiscovery` runs and ends again and again.  The
watchdog is fair for hung runs only: it must not be what gives tenants their
turns.  `Enrollment`: mail workers poll and work; nothing forces a click or a
clean-up.  `ExperienceRelease`: the cycle goes on; a worker that died is started
again.  In all of them crashes and faults are bounded, never fair.
Changes, deletions and turns may stop where they are.
`ConversationOwnership` has no liveness property and no fairness: every actor may
stop where it is.

### Disagreements between the code and its documents

Two runs end with a counterexample; `PROJECT.json` quotes what the repository
says instead.  In `finalizing_exhausted` a finalization that loses its lease once
too often after its commit is cleaned up, and the published snapshot is discarded.
In `lost_revision` an issue gets an outcome that is learned, then a revised one
(a late rating); between the date of the revision and its commit the memory is
invalidated, which dates it anew.  The revision then counts as learned
(`experience.py:878`), no later cycle builds it, and the memory keeps what was
revised.  `EveryOutcomeIsLearned` says that this does not happen;
`OutcomesAreLearnedOrOvertaken`, in the run `learning`, is what remains true.

More situations were met while modelling and have no run of their own.  The
constants given lead TLC to them; `PROJECT.json` lists the weightier ones as
hazards.  Website synchronization:

* Stale abort: a paused production run that lost its claim aborts the staging
  anyway and reopens pages of the new claim.  One production job, one page, two
  workers, `PromptHeartbeats = FALSE` violate `NobodyUndoesALiveClaim`.
* Stuck page: a worker that dies in the last attempt of the last open page leaves
  a job nobody can claim.  `WebSyncJob_progress_production.cfg` with
  `MaxItemAttempts = 1` violates `EveryJobFinishes`.
* Late failure: a finalization that times out after its commit is blocked, and
  discarded when its retention ends.  `WebSyncJob_production.cfg` with
  `LateFailures = TRUE` violates `PublishedIsNeverDiscarded`.
* Late promotion: the step that promotes a fallback is skipped when the quantum
  ends with the last page (`job_worker.py:156`).  If the first finalization then
  publishes and crashes, the next claim promotes the fallback of a family whose
  winner failed, over a live snapshot; if that page fails as well, the job is
  blocked and its abort takes the snapshot away, against the comment at
  `job_worker.py:481`.  `WebSyncJob_families.cfg` with
  `PromptHeartbeats = TRUE`, `LateFailures = FALSE`, `MaxInterruptions = 1`
  violates `PublicationStatusIsTrue`.
* Double cleanup: a cleanup under a live lease is claimed a second time.
  `production` reaches it; `OneRunPerJob` allows two runs that both clean up.
* Stranded preparation: a preparation that yields after its last allowed
  failure is neither claimed nor swept.
* Stuck cleanup: a production job that never staged anything is cleaned up for
  ever (`MaxFailures = 1`, `MaxInterruptions = 2` in a production progress run).
* Double fetch: a page that outlives its lease is fetched twice by one run.
  `WebSyncJob_production.cfg` with `SlowPages = TRUE` violates `OneFetchPerPage`.
* Cancel leftovers: cancelling a queued production job leaves its staged snapshot
  behind.  `WebSyncJob_production.cfg` violates `CanceledJobsAreCleaned`.
* Endless retries: retryable page failures are not bounded by the attempt limit.
  `WebSyncJob_progress_production.cfg` with `MaxItemAttempts = 1` violates
  `PageAttemptsAreBounded`.
* Resumed switch: a switch is cut off after Qdrant marked the new points active;
  resumed, it fails to read its rollback context and reopens the gate over a
  mixture of two publications.  `SitePublication_switch.cfg` with
  `FailingResumes = TRUE` violates `OpenGateShowsOnePublication`.
* Stranded switch: a switch is cut off and its job aborted; the site stays
  switching, its gate closed, and refuses every later publication.  `FairSpec`
  with two publications, no fault and one crash violates `SwitchesEnd`.
* Lost acknowledgement: a commit that takes effect but raises is rolled back
  under an open gate.  `SitePublication_switch.cfg` with `MaxLostAcks = 1`
  violates `OpenGateShowsOnePublication`.

Conversations (`ConversationOwnership`):

* Stale mark: `mark_read` writes back the status, owner and agent it read, and
  undoes what happened meanwhile: an operator who opens a conversation can give it
  back to the agent a manager took it from.  `ConversationOwnership_inbox.cfg`
  violates `ReadingChangesNoOwnership`.
* Stale exchange: a turn that loaded the row before a takeover, a resolution or
  the auto-resolution writes its columns over theirs, or leaves them: a customer
  message may then fail to reopen a conversation that inactivity closed.
* A conversation that reopens keeps the agent it was resolved by; one whose
  routing is cleared while it is human belongs to nobody and only a manager can
  take it; after a release to the AI its handoff is still open, so a manual
  handoff changes nothing; an operator's resolution keeps an older source.
* A handoff is opened but its exchange never persisted when the deadline of the
  chat route passes (`app/api/routes/public_widget.py:193`).

Enrollment: a link that is clicked too late ends its enrollment without giving
back the code's reservation or the place (`docs/self-service-onboarding.md:24`
says the next signup does), and the loop of the mail worker ends on an exception
that is no delivery error.

Experience (`ExperienceRelease`):

* The gates of the next cycle write their verdict over the status `active`: the
  release works in shadow from then on and its guardrails return at once.
* A conversation that is deleted while the build holds its issue leaves its
  memory behind (`docs/support-operations.md:210`).
* A stale memory whose issue changes is built again and is current, though the
  knowledge it depends on is gone; invalidated patterns are not
  (`docs/support-operations.md:213`).
* A memory that was quarantined comes back as a shadow when its issue changes;
  turns that read the policy before a guardrail paused it apply their guidance.
* A release that was rolled back before it was ever activated can be activated.

## 4. Proofs

Every invariant and every action property a passing run checks is stated by a
theorem.  The theorems are about `Spec`, the specification without fairness.

### Website synchronization jobs

For every number of jobs, sites, pages and workers and every value of the
limits, from `ConstantsAssumption` and `FinitePages` (pages are finite because
counters are cardinalities).  `WebSyncJobProofs` holds what is true however long
a worker is paused:

* `TypeCorrect`: `TypeOK`.  The invariant `TypeInv` adds that a run that is not
  idle has a job; without it the rows a step updates would not be known to
  exist.  Each action has its own lemma.
* `WaitingJobsStayUnleased`: a queued, blocked or ended job has no lease.  Every
  action that leaves the leased states also clears the lease, except
  `request_cancel`, which is why canceled jobs are excepted.
* `CountersAreExact`: `CountersMatchPages`.  `CountInv` spells it out per
  counter; an action moves one page, and two cardinalities by one, or a set of
  pages (the sweep, the abort, the retry), and the counters by its size.  The
  facts about pages that enter or leave a class are `PagesAdded` and
  `PagesRemoved`.
* `ShadowJobsStayFinished`, `ShadowPagesStayCompleted`, `ShadowJobsShareNoSite`:
  the action properties of the run `shadow`, and `OneUnfinishedJobPerSite` where
  all jobs are shadow jobs.  `ShadowInv` says that no run with a shadow job
  stands at a point that aborts a staging, that an unfinished shadow job holds its
  site, and that a shadow job is never blocked or cleaned up; then the fence of
  the store methods is enough, and a paused run is harmless.

`WebSyncJobPublicationProofs` is about production jobs, whose stages outside
PostgreSQL carry no fence.  Its theorems assume `Prompt`
(`PromptHeartbeats = TRUE`).  The invariants build on each other:

* `ClaimInv`, for `OneRunDrivesAJob`: a run is idle, or the row of its job carries
  its token and has a status that fits where the run stands, or the run cleans up a
  job that is being given up.  Two runs of a job cannot both carry the token.
* `HandInv`, for `PagesAreFetchedOnce`: a page in the hands of a run is a page of
  its job, being fetched, under its token and a live lease.  Needs also
  `QuickPages` (`SlowPages = FALSE`).
* `SiteInv`, for `UnfinishedJobsShareNoSite`: a row holds the key of its site
  exactly while it is unfinished, and no two rows of a site hold it.
* `FinalInv`, for `PublicationsAreComplete`, `PublicationsShowOnePagePerFamily`
  and `CanceledJobsDoNotPublish`: between its check and its commit a finalization
  finds the job finalizing, not canceled, with no open or failed page and no
  family shown twice.  Nothing of the check is fenced; but what could undo it is
  a step of another run, which `ClaimInv` excludes, or of an operator, whom
  the phase excludes.
* `LiveInv`, for `PublicationStatusIsReliable`: the status of the snapshot, the
  publication status and the row agree; a run records only what is live, and
  cleans up only what is not.  A finalization that starts again after its commit
  reads the counters, and `CountersAreExact` says that they send it the same
  way.  Needs also `OnTime` (`LateFailures = FALSE`) and
  `NoFamilies` (`Loser = {}`).
* `FailInv`, for `PublishedStaysLive`: a row counts at most as many lost leases
  as there were interruptions, and one less while it is losing one, so that no row
  is given up.  Needs also `Enough` (`MaxInterruptions <= MaxFailures`).

The hypotheses are needed, and each has a counterexample of TLC.  Without
`Prompt`, `OneUnfinishedJobPerSite` fails on the instance of `production`, and
`NoPublicationAfterCancel`, `NoPartialPublication` and `OneRunPerJob` on that of
`families`; without `QuickPages` there is the
double fetch, without `OnTime` the late failure, without `NoFamilies` the late
promotion, without `Enough` the run `finalizing_exhausted`.  `OnePagePerFamily`
may not need `Prompt`: `families` checks it with paused workers.

### Switch of a site

The theorems about `SitePublication` (`SitePublicationProofs`) hold for any
finite set of publications and any number of faults and crashes.
`SwitchTypeCorrect` needs `PublicationAssumption` only.  The other three assume
`Environment`: no lost acknowledgement, no late abort, no failing resume -
exactly the three constants above.

* `OpenGateIsConsistent` and `PreviousIsRestorable` rest on `SwitchInv`.  The
  properties speak of an open gate, and a switch works behind a closed one, so
  the invariant says what each store holds meanwhile: the document versions and
  product snapshots never leave the publication the site row names (`StoresInv`:
  only the one commit moves all three); Qdrant is tracked step by step
  (`PointsInv`); a run that can roll back knows the contents of that publication
  (`RunInv`), and a switch that has begun found everything it raises stored, which
  an open job whose abort was cut off need not have; and versions that are not
  live belong to nobody else (`JobInv`), so an abort cannot hurt the live
  publication.
* `PublicationIsAtomic`: each action implements one step of `AtomicPublication`
  or leaves its variables alone.  `BeginSwitch` closes the gate, `Commit` publishes,
  `RestoreSite` reopens on what was shown before, by `SwitchInv`.

### Other modules

The theorems hold for any number of operators, turns, versions, workers, codes,
cases and tenants, from the modules' own assumptions.

* `ConversationOwnershipProofs`.  `NobodyIsLeftWaiting` needs an invariant about
  the turns in flight and `closer`: a turn that opened a handoff escalates and does
  not confirm, and if its handoff is open and an operator or inactivity closed the
  conversation, it loaded the row after that, so that its update opens it again (an
  operator's resolution closes the handoffs, the auto-resolution wants none).  It
  assumes nothing about marks: one may write an older resolution back, but then
  the closing is the mark's, and what an operator or inactivity closed a mark
  leaves closed as it was or reopens.
* `WidgetPublicationProofs`.  `OneVersionServed` is about archive-then-publish
  under the site's lock.  `AnnouncedAreInvalidated` rests on an invariant that
  follows each event through the three steps of each worker, stale claims
  included: who is about to announce a publication has invalidated it, and since
  then every entry read before it is overtaken.
* `EnrollmentProofs`.  `EnrollmentInvariant` relates the rows: an open enrollment
  holds its code, two of them never share a code or an address, its last link is
  usable, the counter covers the open enrollments, completed ones are counted.
  The counter facts are cardinalities of sets that change by one or by the set
  of enrollments an action ends.
* `ExperienceReleaseProofs`.  `ExperienceInvariant` says that every active memory
  is in the manifest with the revision it has - a build makes it a shadow, and a
  release is activated once -, that none is active once the release is off, and
  that a turn that works under an active release picked from the manifest.

* `WorkerCoordinationProofs`.  `TypeOK` and `SlotsAreConserved` are inductive
  together: `SlotsStayConserved` needs to know that the queue is one line of the
  discovered tenants, `CoordinationTypeCorrect` that the pages of the line belong
  to runs.  That a tick starts no more runs than may start is `FewAreInFront`: the
  started ones are told apart by the number of ready ones before them, which is
  below the limit.  `NobodyOvertakes` follows from what `Reconciled` and `Rotated`
  do to the order of two tenants (`ReconciledKeepsOrder`, `RotatedKeepsOrder`).

### Only model-checked

The seven liveness properties - `EveryJobFinishes`, `EventsSettle`,
`CacheConverges`, `EveryTenantGetsTurns`, `EveryPageGetsItsSlot`,
`EveryLinkIsMailed`, `OutcomesAreLearnedOrOvertaken` - rest on fairness, which is out of
the prover's reach.  `OneVersionServed`, on the other hand, is proved and in no run.

## 5. Plan

Done: the website synchronization with its switch and its coordinator, the
ownership of conversations, the widget publication with its outbox, enrollment,
and experience releases; every safety property of the runs proved.
Next, in this order:

1. A visitor of `SitePublication` whose gate check and search are two steps, and
   the switch of the legacy `sync()`.
2. `OnePagePerFamily` without `Prompt`, and what remains true of a publication
   whose worker was paused.
3. `WorkerRegistry` (heartbeats of two generations, fail-closed admission) and
   the versioned source configuration that `enqueue` checks.
4. Invitations, memberships and platform sessions.
5. `ProductCatalog` (removal of missing products in two phases).
6. Patterns and improvement candidates of `ExperienceRelease`.

The runs of `WebSyncJob` each have a question of their own; a new component's run
takes the place of `families` first, whose property item 2 would prove.

### Not modelled

The map covers the protocols of the repository, which are a small part of its
lines.  Most of the code transforms data or transports it, and has no state whose
interleavings a model could explore: parsing, crawling and extraction, embedding,
prompting and the answer graph (`app/graphs`), ranking of search results and
memories, the mapping of rows to domain objects and back, report queries, request
schemas and routes, migrations, the dashboard, the connectors and the plugin.
Queues and their members, canned replies, customer memory, ratings, automation
rules and knowledge gaps are single rows written under a key by one transaction
each.  Presence and the realtime hubs are best effort: what they lose is read again
from the rows.  Retention and governance are batch deletions.
