------------------------------ MODULE WebSyncJob ------------------------------
(***************************************************************************)
(* The durable website synchronization job: the PostgreSQL job and page    *)
(* rows (app/integrations/postgres/web_sync_jobs.py), the worker loop that *)
(* claims a job under a lease and drives it to a terminal state            *)
(* (app/knowledge/web/job_worker.py), the operator's commands              *)
(* (app/application/services/web_sync_jobs.py) and the staged snapshot     *)
(* those steps fill, publish or abort (app/knowledge/web/sync_service.py). *)
(*                                                                         *)
(* Every store method is one transaction under the job's row lock, so each *)
(* is one action.  Between two of them a worker holds only local state     *)
(* (run[w]); it may crash, or be paused past its lease and go on later.    *)
(* A worker slot stands for one run_once call at a time, its identity for  *)
(* the per-claim lease owner: a run presents its token only for the job    *)
(* and the pages it claimed itself.                                        *)
(*                                                                         *)
(* Time is abstracted: a lease, a retry delay or a retention window is     *)
(* "live" until an action of the environment expires it.                   *)
(***************************************************************************)
EXTENDS Integers, FiniteSets

CONSTANTS
    Job,              \* idempotency keys an operator may enqueue
    Site,
    SiteOf,           \* the site a job synchronizes
    Production,       \* the jobs enqueued in production mode; the others are shadow jobs
    Item,             \* the pages of the immutable manifest
    Loser,            \* pages the first-wins policy excludes in favour of WinnerOf
    WinnerOf,
    Worker,
    NoWorker,
    NoJob,
    Concurrency,      \* pages a run claims per batch
    MaxFailures,      \* a job's max_attempts: lease expiries it survives
    MaxItemAttempts,  \* a page's max_attempts
    MaxInterruptions, \* bound: crashes of worker runs, and heartbeats that stop
    MaxRetries,       \* bound: operator commands that reopen a blocked job
    MaxFaults,        \* bound: unexpected exceptions inside a run
    MaxPageFailures,  \* bound: page attempts that fail in a retryable way
    PromptHeartbeats, \* TRUE: no run is ever paused for longer than its own lease
    SlowPages,        \* TRUE: a page may take longer than its own, never renewed, lease
    LateFailures      \* TRUE: a run may fail although its snapshot is already live

ASSUME ConstantsAssumption ==
    /\ SiteOf \in [Job -> Site]
    /\ Production \subseteq Job
    /\ Loser \subseteq Item
    /\ WinnerOf \in [Loser -> Item \ Loser]
    /\ \A l, m \in Loser : WinnerOf[l] = WinnerOf[m] => l = m
    /\ NoWorker \notin Worker
    /\ NoJob \notin Job
    /\ Concurrency \in Nat \ {0}
    /\ MaxFailures \in Nat \ {0}
    /\ MaxItemAttempts \in Nat \ {0}
    /\ MaxInterruptions \in Nat
    /\ MaxRetries \in Nat
    /\ MaxFaults \in Nat
    /\ MaxPageFailures \in Nat
    /\ PromptHeartbeats \in BOOLEAN
    /\ SlowPages \in BOOLEAN
    /\ LateFailures \in BOOLEAN

ASSUME FinitePages == IsFiniteSet(Item)

VARIABLES
    job,       \* the web_sync_jobs rows
    item,      \* the web_sync_job_items rows
    snapshot,  \* the staged snapshot of each job across Qdrant, PostgreSQL and products
    run,       \* what each worker slot is executing
    budget     \* how often the bounded events of the environment have happened

vars == <<job, item, snapshot, run, budget>>

-------------------------------------------------------------------------------
(* The rows *)

Terminal == {"succeeded", "failed", "canceled"}
JobStatus == {"absent", "preparing", "queued", "running", "blocked", "cleanup_pending"} \cup Terminal
JobPhase == {"preparing", "queued", "processing", "finalizing", "awaiting_remediation", "completed"}
PublicationStatus == {"not_requested", "pending", "published", "refused"}
Window == {"none", "live", "expired"}

\* Why a job was blocked, as its report records it: pages that failed, two pages
\* of one product family, a failed or timed out finalization, or versions that
\* no longer exist.
BlockReason == {"none", "pages", "identity", "finalization", "stale"}

CountedStatus == {"succeeded", "not_modified", "excluded", "failed", "canceled"}

JobRow == [status : JobStatus, phase : JobPhase, publication : PublicationStatus,
           activeSite : BOOLEAN, owner : Worker \cup {NoWorker}, lease : Window,
           failures : 0..MaxFailures, cancel : BOOLEAN, retention : Window,
           later : BOOLEAN, report : BlockReason, elected : BOOLEAN,
           completed : Nat, count : [CountedStatus -> Nat]]

\* "duplicate" is the status excluded with outcome duplicate_product_first_wins.
PageDone == CountedStatus \cup {"duplicate"}
PageStatus == {"absent", "pending", "fetching"} \cup PageDone

PageRow == [status : PageStatus, owner : Worker \cup {NoWorker}, lease : Window,
            attempts : 0..(MaxItemAttempts + 1), waiting : BOOLEAN]

SnapshotStatus == {"absent", "staging", "active", "superseded", "failed", "broken"}

NoPage == [status |-> "absent", owner |-> NoWorker, lease |-> "none",
           attempts |-> 0, waiting |-> FALSE]

NoRow == [status |-> "absent", phase |-> "preparing", publication |-> "not_requested",
          activeSite |-> FALSE, owner |-> NoWorker, lease |-> "none",
          failures |-> 0, cancel |-> FALSE, retention |-> "none",
          later |-> FALSE, report |-> "none", elected |-> FALSE,
          completed |-> 0, count |-> [s \in CountedStatus |-> 0]]

ExpectedCount == Cardinality(Item)
PagesIn(j, S) == {i \in Item : item[j][i].status \in S}
Processed(r) == r.completed >= ExpectedCount

-------------------------------------------------------------------------------
(* A worker's run *)

\* Where run_once stands.  In "loop" .. "finalize" it processes pages, from
\* "inventory" to "complete" it finalizes, "abort" .. "storeFail" is its
\* exception handler, the cancel and cleanup points drive a staging abort.
Pc == {"idle", "prepare", "begin", "loop", "batch", "promote", "requeue",
       "finalize", "inventory", "publish", "record", "block",
       "cancelAbort", "cancelStore", "abort", "storeFail",
       "cleanupAbort", "cleanupFail", "cleanupRelease"}

RunState == [pc : Pc, job : Job \cup {NoJob}, slots : 0..Concurrency,
             pages : [Item -> 0..Concurrency], got : BOOLEAN, worked : BOOLEAN,
             lost : BOOLEAN, timed : BOOLEAN, why : BlockReason]

IdleRun == [pc |-> "idle", job |-> NoJob, slots |-> 0,
            pages |-> [i \in Item |-> 0], got |-> FALSE, worked |-> FALSE,
            lost |-> FALSE, timed |-> FALSE, why |-> "none"]

Goto(w, pc) == run' = [run EXCEPT ![w].pc = pc]
Leave(w) == run' = [run EXCEPT ![w] = IdleRun]
At(w, pc) == run[w].pc = pc
InHand(w) == {i \in Item : run[w].pages[i] > 0}

Holds_AnyStatus(w, S) == job[run[w].job].owner = w                \* mutant

\* The fence of every worker-side store method: the row is still in one of the
\* given states and still leased to this claim.
Holds(w, S) == /\ job[run[w].job].owner = w
               /\ job[run[w].job].status \in S

\* A method whose fence fails raises; run_once then aborts the staged snapshot
\* of a production job and tries to record the failure.
HandlerPc(j) == IF j \in Production THEN "abort" ELSE "storeFail"
Raise(w) == /\ Goto(w, HandlerPc(run[w].job))
            /\ UNCHANGED <<job, item, snapshot, budget>>

-------------------------------------------------------------------------------
Init ==
    /\ job = [j \in Job |-> NoRow]
    /\ item = [j \in Job |-> [i \in Item |-> NoPage]]
    /\ snapshot = [j \in Job |-> "absent"]
    /\ run = [w \in Worker |-> IdleRun]
    /\ budget = [interruptions |-> 0, retries |-> 0, faults |-> 0, pageFailures |-> 0]

-------------------------------------------------------------------------------
(* The operator *)

Monus(a, b) == IF a > b THEN a - b ELSE 0

\* n more pages, or n fewer, that ended with status s.
Counted(r, s, n) == [r EXCEPT !.completed = @ + n, !.count[s] = @ + n]
Uncounted(r, s, n) == [r EXCEPT !.completed = Monus(@, n), !.count[s] = Monus(@, n)]

\* Every claim writes both lease columns of a row, every release clears them.
LeasedTo_OwnerOnly(r, w) == [r EXCEPT !.owner = w]                \* mutant
Released_KeepsOwner(r) == [r EXCEPT !.lease = "none"]             \* mutant
LeasedTo(r, w) == [r EXCEPT !.owner = w, !.lease = "live"]
Released(r) == [r EXCEPT !.owner = NoWorker, !.lease = "none"]

\* enqueue: the idempotency key is unused and no unfinished job holds the
\* site's active_site_key; otherwise the existing job is returned unchanged.
Enqueue(j) ==
    /\ job[j].status = "absent"
    /\ \A k \in Job : job[k].activeSite => SiteOf[k] # SiteOf[j]
    /\ job' = [job EXCEPT ![j].status = "preparing",
                          ![j].activeSite = TRUE,
                          ![j].publication = IF j \in Production THEN "pending"
                                                                 ELSE "not_requested"]
    /\ UNCHANGED <<item, snapshot, run, budget>>

CanceledPublication(j) == IF j \in Production THEN "refused" ELSE "not_requested"

CanceledPages_All(j, S) ==                                        \* mutant
    [i \in Item |-> [Released(item[j][i]) EXCEPT !.status = "canceled"]]

\* Cancel the pages of j whose status is in S, as rows and as counters.
CanceledPages(j, S) ==
    [i \in Item |-> IF item[j][i].status \in S
                    THEN [Released(item[j][i]) EXCEPT !.status = "canceled"]
                    ELSE item[j][i]]

Cancelable_Always(j) == job[j].status \notin Terminal \cup {"absent"} \* mutant

\* request_cancel: a job nobody runs is canceled at once, an executing, blocked
\* or cleaning one is marked and the next step of a worker acts on the mark.
Cancelable(j) == /\ job[j].status \notin Terminal \cup {"absent"}
                 /\ ~(j \in Production /\ job[j].phase = "finalizing")

RequestCancel(j) ==
    /\ Cancelable(j)
    /\ IF job[j].status \in {"preparing", "queued"}
       THEN LET n == Cardinality(PagesIn(j, {"pending"})) IN
            /\ job' = [job EXCEPT ![j] =
                         [Counted(@, "canceled", n) EXCEPT
                            !.status = "canceled", !.phase = "completed", !.cancel = TRUE,
                            !.activeSite = FALSE, !.publication = CanceledPublication(j)]]
            /\ item' = [item EXCEPT ![j] = CanceledPages(j, {"pending"})]
       ELSE /\ ~job[j].cancel
            /\ job' = [job EXCEPT ![j].cancel = TRUE]
            /\ UNCHANGED item
    /\ UNCHANGED <<snapshot, run, budget>>

\* The row retry_blocked and reconcile_stale_versions write back.
Reopened(r, phase) ==
    [r EXCEPT !.status = "queued", !.phase = phase, !.publication = "pending",
              !.report = "none", !.cancel = FALSE, !.retention = "none",
              !.failures = 0, !.later = FALSE]

\* retry_blocked: reopen the failed pages, or rerun finalization alone.
RetryBlocked(j) ==
    LET failed == PagesIn(j, {"failed"})
        n == Cardinality(failed)
        finalizationOnly == n = 0 /\ job[j].report \in {"finalization", "stale"}
    IN  /\ budget.retries < MaxRetries
        /\ job[j].status = "blocked"
        /\ job[j].retention = "live"
        /\ job[j].report # "identity"
        /\ n > 0 \/ finalizationOnly
        /\ job' = [job EXCEPT ![j] =
                     [Reopened(job[j], IF finalizationOnly THEN "finalizing" ELSE "queued")
                        EXCEPT !.completed = Monus(@, n),
                               !.count["failed"] = 0]]
        /\ item' = [item EXCEPT ![j] = [i \in Item |->
                     IF i \in failed THEN [NoPage EXCEPT !.status = "pending"]
                                     ELSE item[j][i]]]
        /\ budget' = [budget EXCEPT !.retries = @ + 1]
        /\ UNCHANGED <<snapshot, run>>

\* reconcile_stale_versions: refetch the pages whose versions S are gone.
ReconcileStaleVersions(j, S) ==
    LET fresh == Cardinality(S \cap PagesIn(j, {"succeeded"}))
        stale == Cardinality(S \cap PagesIn(j, {"not_modified"}))
    IN  /\ budget.retries < MaxRetries
        /\ job[j].status = "blocked"
        /\ job[j].retention = "live"
        /\ job[j].report = "stale"
        /\ S # {}
        /\ S \subseteq PagesIn(j, {"succeeded", "not_modified"})
        /\ job' = [job EXCEPT ![j] =
                     Uncounted(Uncounted(Reopened(@, "queued"), "succeeded", fresh),
                               "not_modified", stale)]
        /\ item' = [item EXCEPT ![j] = [i \in Item |->
                     IF i \in S THEN [NoPage EXCEPT !.status = "pending"]
                                ELSE item[j][i]]]
        /\ budget' = [budget EXCEPT !.retries = @ + 1]
        /\ UNCHANGED <<snapshot, run>>

-------------------------------------------------------------------------------
(* Claiming a job *)

Due_InFlight(p) ==                                                \* mutant
    \/ p.status = "pending" /\ ~p.waiting
    \/ p.status = "fetching" /\ p.attempts < MaxItemAttempts
Due_PendingOnly(p) == p.status = "pending" /\ ~p.waiting          \* mutant

Due(p) == \/ p.status = "pending" /\ ~p.waiting
          \/ p.status = "fetching" /\ p.lease = "expired" /\ p.attempts < MaxItemAttempts

Exhausted_OffByOne(r) == /\ r.status \in {"preparing", "running"} \* mutant
                         /\ r.lease = "expired"
                         /\ r.failures > MaxFailures
Exhausted_TooEarly(r) == /\ r.status \in {"preparing", "running"} \* mutant
                         /\ r.lease = "expired"
                         /\ r.failures + 1 >= MaxFailures

\* The first two UPDATEs of claim_next: a leased job whose worker vanished once
\* too often fails, or, in production, must first have its staging cleaned up.
Exhausted(r) == /\ r.status \in {"preparing", "running"}
                /\ r.lease = "expired"
                /\ r.failures >= MaxFailures

Swept(j) ==
    IF ~Exhausted(job[j]) THEN job[j]
    ELSE IF j \in Production
         THEN [Released(job[j]) EXCEPT !.status = "cleanup_pending",
                                       !.phase = "awaiting_remediation", !.later = FALSE]
         ELSE [Released(job[j]) EXCEPT !.status = "failed", !.phase = "completed",
                                       !.activeSite = FALSE]

\* The SELECT of claim_next.
Claimable(j, r) ==
    \/ /\ r.status = "preparing"
       /\ r.lease \in {"none", "expired"}
       /\ r.failures < MaxFailures
    \/ /\ r.status = "queued"
       /\ r.phase = "finalizing" \/ Processed(r) \/ \E i \in Item : Due(item[j][i])
    \/ /\ r.status = "running"
       /\ r.lease = "expired"
       /\ r.failures < MaxFailures \/ r.phase = "finalizing"
    \/ /\ r.status = "blocked"
       /\ r.cancel \/ r.retention = "expired"
    \/ r.status = "cleanup_pending" /\ ~r.later

\* The candidate row after the claim.
Claimed(r, w) ==
    LET recovering == r.status \in {"preparing", "running"} /\ r.lease = "expired"
        cancel == r.cancel \/ r.status = "blocked"
    IN  [LeasedTo(r, w) EXCEPT
                  !.cancel = cancel,
                  !.status = IF @ \in {"preparing", "cleanup_pending"} THEN @ ELSE "running",
                  !.phase = IF r.status = "cleanup_pending" THEN "awaiting_remediation"
                            ELSE IF r.status = "preparing" THEN "preparing"
                            ELSE IF cancel THEN "awaiting_remediation"
                            ELSE IF @ = "finalizing" THEN @ ELSE "processing",
                  !.failures = IF recovering THEN @ + 1 ELSE @]

\* Where run_once goes with the claimed row: a cleanup, a preparation, or the
\* page loop, which a production job enters by starting its staged snapshot.
EntryPc(j, r) == CASE r.status = "cleanup_pending" -> "cleanupAbort"
                   [] r.status = "preparing" -> "prepare"
                   [] OTHER -> IF j \in Production THEN "begin" ELSE "loop"

ClaimNext(w, j) ==
    LET r == Claimed(Swept(j), w) IN
    /\ At(w, "idle")
    /\ Claimable(j, Swept(j))
    /\ job' = [k \in Job |-> IF k = j THEN r ELSE Swept(k)]
    /\ run' = [run EXCEPT ![w] = [IdleRun EXCEPT !.pc = EntryPc(j, r), !.job = j]]
    /\ UNCHANGED <<item, snapshot, budget>>

\* claim_next without a candidate still sweeps the exhausted leases.
ClaimNothing(w) ==
    /\ At(w, "idle")
    /\ \A j \in Job : ~Claimable(j, Swept(j))
    /\ \E j \in Job : Exhausted(job[j])
    /\ job' = [j \in Job |-> Swept(j)]
    /\ UNCHANGED <<item, snapshot, run, budget>>

-------------------------------------------------------------------------------
(* Preparation: copying the manifest into page rows *)

\* append_prepared_items, one row at a time; the rows already copied by an
\* earlier claim are kept.
AppendPreparedItem(w, i) ==
    LET j == run[w].job IN
    /\ At(w, "prepare")
    /\ Holds(w, {"preparing"})
    /\ item[j][i].status = "absent"
    /\ item' = [item EXCEPT ![j][i].status = "pending"]
    /\ run' = [run EXCEPT ![w].worked = TRUE]
    /\ UNCHANGED <<job, snapshot, budget>>

\* apply_duplicate_policy: exclude the losers before any page is fetched.
ApplyDuplicatePolicy(w) ==
    LET j == run[w].job
        excluded == Loser \cap PagesIn(j, {"pending"})
    IN  /\ At(w, "prepare")
        /\ Holds(w, {"preparing"})
        /\ PagesIn(j, {"absent"}) = {}
        /\ ~job[j].elected
        /\ item' = [item EXCEPT ![j] = [i \in Item |->
                     IF i \in excluded THEN [item[j][i] EXCEPT !.status = "duplicate"]
                                       ELSE item[j][i]]]
        /\ job' = [job EXCEPT ![j] = [Counted(@, "excluded", Cardinality(excluded))
                                         EXCEPT !.elected = TRUE]]
        /\ run' = [run EXCEPT ![w].worked = TRUE]
        /\ UNCHANGED <<snapshot, budget>>

\* yield_preparation: the quantum is spent; a quantum fits at least one step.
YieldPreparation(w) ==
    LET j == run[w].job IN
    /\ At(w, "prepare")
    /\ run[w].worked
    /\ ~job[j].elected
    /\ Holds(w, {"preparing"})
    /\ job' = [job EXCEPT ![j] = Released(@)]
    /\ Leave(w)
    /\ UNCHANGED <<item, snapshot, budget>>

FinishPreparation(w) ==
    LET j == run[w].job IN
    /\ At(w, "prepare")
    /\ Holds(w, {"preparing"})
    /\ PagesIn(j, {"absent"}) = {}
    /\ job[j].elected
    /\ job' = [job EXCEPT ![j] = [Released(@) EXCEPT !.status = "queued", !.phase = "queued",
                                                     !.failures = 0]]
    /\ Leave(w)
    /\ UNCHANGED <<item, snapshot, budget>>

\* Any of these methods after the claim was lost or the job was canceled.
PreparationRefused(w) ==
    /\ At(w, "prepare")
    /\ ~Holds(w, {"preparing"})
    /\ Goto(w, "storeFail")
    /\ UNCHANGED <<job, item, snapshot, budget>>

-------------------------------------------------------------------------------
(* The page loop *)

\* begin_staged_sync is idempotent, and not fenced by the lease.
BeginStagedSync(w) ==
    /\ At(w, "begin")
    /\ snapshot' = [snapshot EXCEPT ![run[w].job] = IF @ = "absent" THEN "staging" ELSE @]
    /\ Goto(w, "loop")
    /\ UNCHANGED <<job, item, budget>>

\* The head of the loop reads the job without checking the lease: a cancel
\* request, a spent quantum, or the next batch of pages.
LoopHead(w) ==
    LET j == run[w].job IN
    /\ At(w, "loop")
    /\ \/ /\ job[j].cancel
          /\ Goto(w, IF j \in Production THEN "cancelAbort" ELSE "cancelStore")
       \/ /\ ~job[j].cancel
          /\ run[w].worked
          /\ Goto(w, IF Processed(job[j]) THEN "finalize" ELSE "requeue")
       \/ /\ ~job[j].cancel
          /\ run' = [run EXCEPT ![w].pc = "batch", ![w].slots = Concurrency, ![w].got = FALSE]
    /\ UNCHANGED <<job, item, snapshot, budget>>

\* claim_next_item: pages whose lease expired at their last attempt fail, then
\* one due page is claimed.
OutOfAttempts(j) == {i \in Item : /\ item[j][i].status = "fetching"
                                  /\ item[j][i].lease = "expired"
                                  /\ item[j][i].attempts >= MaxItemAttempts}

SweptPages(j) ==
    [i \in Item |-> IF i \in OutOfAttempts(j)
                    THEN [Released(item[j][i]) EXCEPT !.status = "failed"]
                    ELSE item[j][i]]

SweptCounts_FailedOnly(j) ==                                      \* mutant
    [job EXCEPT ![j].count["failed"] = @ + Cardinality(OutOfAttempts(j))]

SweptCounts(j) ==
    [job EXCEPT ![j] = Counted(@, "failed", Cardinality(OutOfAttempts(j)))]

\* attempt_count saturates one above the limit: only the comparison matters.
Attempted(n) == IF n > MaxItemAttempts THEN n ELSE n + 1

ClaimNextItem(w, i) ==
    LET j == run[w].job IN
    /\ At(w, "batch")
    /\ run[w].slots > 0
    /\ Holds(w, {"running"})
    /\ Due(item[j][i])
    /\ job' = SweptCounts(j)
    /\ item' = [item EXCEPT ![j] =
                 [SweptPages(j) EXCEPT ![i] =
                    [LeasedTo(item[j][i], w) EXCEPT !.status = "fetching",
                                                    !.attempts = Attempted(@),
                                                    !.waiting = FALSE]]]
    /\ run' = [run EXCEPT ![w].slots = @ - 1, ![w].pages[i] = @ + 1]
    /\ UNCHANGED <<snapshot, budget>>

ClaimNoItem(w) ==
    LET j == run[w].job IN
    /\ At(w, "batch")
    /\ run[w].slots > 0
    /\ Holds(w, {"running"})
    /\ \A i \in Item : ~Due(item[j][i])
    /\ job' = SweptCounts(j)
    /\ item' = [item EXCEPT ![j] = SweptPages(j)]
    /\ run' = [run EXCEPT ![w].slots = @ - 1]
    /\ UNCHANGED <<snapshot, budget>>

HoldsPage(w, i) == /\ Holds(w, {"running"})
                   /\ item[run[w].job][i].status = "fetching"
                   /\ item[run[w].job][i].owner = w

PageHandled(w, i) == run' = [run EXCEPT ![w].pages[i] = @ - 1, ![w].got = TRUE,
                                        ![w].worked = TRUE]

\* complete_item after the page was staged, found unchanged, or excluded.
CompleteItem(w, i, status) ==
    LET j == run[w].job IN
    /\ At(w, "batch")
    /\ i \in InHand(w)
    /\ HoldsPage(w, i)
    /\ item' = [item EXCEPT ![j][i] = [Released(@) EXCEPT !.status = status]]
    /\ job' = [job EXCEPT ![j] = Counted(@, status, 1)]
    /\ PageHandled(w, i)
    /\ UNCHANGED <<snapshot, budget>>

\* fail_item: the worker passes terminal = not retryable, so a retryable
\* failure goes back to pending whatever the attempt count.
FailItem(w, i, retryable) ==
    LET j == run[w].job IN
    /\ At(w, "batch")
    /\ i \in InHand(w)
    /\ HoldsPage(w, i)
    /\ retryable => budget.pageFailures < MaxPageFailures
    /\ item' = [item EXCEPT ![j][i] =
                  [Released(@) EXCEPT !.status = IF retryable THEN "pending" ELSE "failed",
                                      !.waiting = retryable]]
    /\ job' = IF retryable THEN job
              ELSE [job EXCEPT ![j] = Counted(@, "failed", 1)]
    /\ budget' = [budget EXCEPT !.pageFailures = @ + (IF retryable THEN 1 ELSE 0)]
    /\ PageHandled(w, i)
    /\ UNCHANGED snapshot

\* A claim or a page result refused by the fence ends the whole batch.
BatchRefused(w) ==
    /\ At(w, "batch")
    /\ \/ run[w].slots > 0 /\ ~Holds(w, {"running"})
       \/ \E i \in InHand(w) : ~HoldsPage(w, i)
    /\ Raise(w)

EndBatch(w) ==
    /\ At(w, "batch")
    /\ run[w].slots = 0
    /\ InHand(w) = {}
    /\ Goto(w, IF run[w].got THEN "loop" ELSE "promote")
    /\ UNCHANGED <<job, item, snapshot, budget>>

Promotable_Again(j) ==                                            \* mutant
    {l \in Loser : item[j][WinnerOf[l]].status \in {"failed", "excluded"}}

\* promote_duplicate_fallbacks: a loser takes over from a winner that failed
\* or was excluded.  Without a promotion the loop requeues or finalizes.
Promotable(j) == {l \in Loser : /\ item[j][l].status = "duplicate"
                                /\ item[j][WinnerOf[l]].status \in {"failed", "excluded"}}

PromoteDuplicateFallbacks(w) ==
    LET j == run[w].job
        n == Cardinality(Promotable(j))
    IN  /\ At(w, "promote")
        /\ Holds(w, {"running"})
        /\ item' = [item EXCEPT ![j] = [i \in Item |->
                     IF i \in Promotable(j) THEN [item[j][i] EXCEPT !.status = "pending"]
                                            ELSE item[j][i]]]
        /\ job' = [job EXCEPT ![j] = Uncounted(@, "excluded", n)]
        /\ Goto(w, IF n > 0 THEN "loop"
                   ELSE IF Processed(job[j]) THEN "finalize" ELSE "requeue")
        /\ UNCHANGED <<snapshot, budget>>

RequeueIncomplete(w) ==
    LET j == run[w].job IN
    /\ At(w, "requeue")
    /\ Holds(w, {"running"})
    /\ ~Processed(job[j])
    /\ job' = [job EXCEPT ![j] = [Released(@) EXCEPT !.status = "queued", !.phase = "queued"]]
    /\ Leave(w)
    /\ UNCHANGED <<item, snapshot, budget>>

LoopRefused(w) ==
    /\ \/ At(w, "promote") /\ ~Holds(w, {"running"})
       \/ At(w, "requeue") /\ (~Holds(w, {"running"}) \/ Processed(job[run[w].job]))
    /\ Raise(w)

-------------------------------------------------------------------------------
(* Aborting a staged snapshot: abort_staged_sync, fenced by nothing *)

\* The order is Qdrant points, then PostgreSQL versions, then the product
\* snapshot, which refuses when it is missing or already active: by then the
\* published pages are gone.
AbortRaises(j) == snapshot[j] \in {"absent", "active", "broken"}

Discarded(j) == PagesIn(j, {"succeeded"})

\* Discarding a version reopens the page that produced it, and blocks a job
\* that had already succeeded (_invalidate_job_version_references).
Invalidated(j) ==
    LET n == Cardinality(Discarded(j))
        counted == Uncounted(job[j], "succeeded", n)
    IN  IF n > 0 /\ job[j].status = "succeeded"
        THEN [counted EXCEPT !.status = "blocked", !.phase = "awaiting_remediation",
                             !.publication = "pending", !.report = "stale"]
        ELSE counted

Abort(j) ==
    /\ snapshot' = [snapshot EXCEPT ![j] =
                      IF @ = "absent" THEN @
                      ELSE IF @ = "broken" THEN @
                      ELSE IF @ = "active" THEN IF Discarded(j) = {} THEN @ ELSE "broken"
                      ELSE "failed"]
    /\ item' = [item EXCEPT ![j] = [i \in Item |->
                 IF i \in Discarded(j) THEN [item[j][i] EXCEPT !.status = "pending"]
                                       ELSE item[j][i]]]
    /\ job' = [job EXCEPT ![j] = Invalidated(j)]

\* The exception handler of run_once swallows the abort's own exception.
AbortInHandler(w) ==
    /\ At(w, "abort")
    /\ Abort(run[w].job)
    /\ Goto(w, "storeFail")
    /\ UNCHANGED budget

Failed(j) == [Released(job[j]) EXCEPT !.status = "failed", !.phase = "completed",
                                      !.publication = CanceledPublication(j),
                                      !.activeSite = FALSE]

\* fail, or its RuntimeError ignored when the claim was lost.
StoreFail(w) ==
    LET j == run[w].job IN
    /\ At(w, "storeFail")
    /\ job' = IF Holds(w, {"preparing", "running", "cleanup_pending"})
              THEN [job EXCEPT ![j] = Failed(j)]
              ELSE job
    /\ Leave(w)
    /\ UNCHANGED <<item, snapshot, budget>>

\* A requested cancel: production first aborts its staging.
CancelAbort(w) ==
    /\ At(w, "cancelAbort")
    /\ Abort(run[w].job)
    /\ Goto(w, IF AbortRaises(run[w].job) THEN "abort" ELSE "cancelStore")
    /\ UNCHANGED budget

Cancel(w) ==
    LET j == run[w].job
        n == Cardinality(PagesIn(j, {"pending", "fetching"}))
    IN  /\ At(w, "cancelStore")
        /\ Holds(w, {"preparing", "running"})
        /\ item' = [item EXCEPT ![j] = CanceledPages(j, {"pending", "fetching"})]
        /\ job' = [job EXCEPT ![j] =
                     [Counted(Released(@), "canceled", n) EXCEPT
                        !.status = "canceled", !.phase = "completed", !.activeSite = FALSE,
                        !.publication = CanceledPublication(j)]]
        /\ Leave(w)
        /\ UNCHANGED <<snapshot, budget>>

CancelRefused(w) ==
    /\ At(w, "cancelStore")
    /\ ~Holds(w, {"preparing", "running"})
    /\ Raise(w)

-------------------------------------------------------------------------------
(* Cleaning up after an exhausted production lease *)

CleanupAbort(w) ==
    /\ At(w, "cleanupAbort")
    /\ Abort(run[w].job)
    /\ Goto(w, IF AbortRaises(run[w].job) THEN "cleanupRelease" ELSE "cleanupFail")
    /\ UNCHANGED budget

CleanupFail(w) ==
    LET j == run[w].job IN
    /\ At(w, "cleanupFail")
    /\ Holds(w, {"preparing", "running", "cleanup_pending"})
    /\ job' = [job EXCEPT ![j] = Failed(j)]
    /\ Leave(w)
    /\ UNCHANGED <<item, snapshot, budget>>

\* release_cleanup: back off before the next attempt.
ReleaseCleanup(w) ==
    LET j == run[w].job IN
    /\ At(w, "cleanupRelease")
    /\ Holds(w, {"cleanup_pending"})
    /\ job' = [job EXCEPT ![j] = [Released(@) EXCEPT !.later = TRUE]]
    /\ Leave(w)
    /\ UNCHANGED <<item, snapshot, budget>>

CleanupRefused(w) ==
    /\ \/ /\ At(w, "cleanupFail")
          /\ ~Holds(w, {"preparing", "running", "cleanup_pending"})
          /\ Goto(w, "cleanupRelease")
       \/ /\ At(w, "cleanupRelease")
          /\ ~Holds(w, {"cleanup_pending"})
          /\ Goto(w, "storeFail")
    /\ UNCHANGED <<job, item, snapshot, budget>>

-------------------------------------------------------------------------------
(* Finalization *)

StartFinalization(w) ==
    /\ At(w, "finalize")
    /\ Holds(w, {"running"})
    /\ job' = [job EXCEPT ![run[w].job].phase = "finalizing"]
    /\ run' = [run EXCEPT ![w].pc = "inventory", ![w].timed = TRUE]
    /\ UNCHANGED <<item, snapshot, budget>>

IdentityViolated_ChangedOnly(j) ==                                \* mutant
    \E l \in Loser : /\ job[j].elected
                    /\ item[j][l].status = "succeeded"
                    /\ item[j][WinnerOf[l]].status = "succeeded"

\* _identity_decision_is_consistent: promoting a loser moves the family's decision
\* to it, and only the decided page of a family may hold a version.
IdentityViolated(j) ==
    \E l \in Loser : /\ job[j].elected
                    /\ item[j][l].status # "duplicate"
                    /\ item[j][WinnerOf[l]].status \in {"succeeded", "not_modified"}

Refusal_IdentityOnly(j) == IF IdentityViolated(j) THEN "identity" ELSE "none" \* mutant

\* What the report holds against a publication.
Refusal(j) == IF IdentityViolated(j) THEN "identity"
              ELSE IF PagesIn(j, {"failed"}) # {} THEN "pages" ELSE "none"

Blocking(w, why) == run' = [run EXCEPT ![w].pc = "block", ![w].why = why]

\* _finalization_inventory, aggregate_report and the second look at the cancel
\* mark; nothing here is fenced.
Inventory(w) ==
    LET j == run[w].job IN
    /\ At(w, "inventory")
    /\ IF PagesIn(j, {"absent", "pending", "fetching"}) # {}
       THEN Goto(w, HandlerPc(j))
       ELSE IF j \in Production /\ Refusal(j) # "none"
       THEN Blocking(w, Refusal(j))
       ELSE IF job[j].cancel
       THEN Goto(w, IF j \in Production THEN "cancelAbort" ELSE "cancelStore")
       ELSE Goto(w, IF j \in Production THEN "publish" ELSE "record")
    /\ UNCHANGED <<job, item, snapshot, budget>>

MayFail(j) == snapshot[j] = "active" => LateFailures

\* publish_staged_sync up to its commit (SitePublication opens it up): the
\* snapshot goes live and replaces the site's previous one.
PublishStagedSync(w) ==
    LET j == run[w].job IN
    /\ At(w, "publish")
    /\ snapshot[j] \in {"staging", "active"}
    /\ snapshot' = [k \in Job |-> IF k = j THEN "active"
                                  ELSE IF snapshot[k] = "active" /\ SiteOf[k] = SiteOf[j]
                                  THEN "superseded" ELSE snapshot[k]]
    /\ Goto(w, "record")
    /\ UNCHANGED <<job, item, budget>>

\* A publication that raises leaves the live snapshot in place; its rollback
\* may turn a candidate that was aborted meanwhile back to staging.
PublishRaises(w) ==
    LET j == run[w].job IN
    /\ At(w, "publish")
    /\ MayFail(j)
    /\ \/ /\ Blocking(w, "finalization")
          /\ \E s \in {snapshot[j]} \cup (IF snapshot[j] = "failed" THEN {"staging"} ELSE {}) :
                snapshot' = [snapshot EXCEPT ![j] = s]
       \/ /\ snapshot[j] \in {"failed", "broken"} \/ PagesIn(j, {"not_modified"}) # {}
          /\ Blocking(w, "stale")
          /\ UNCHANGED snapshot
    /\ UNCHANGED <<job, item, budget>>

\* asyncio.timeout around _finalize_job, before or after the commit; it covers
\* the cancel and the block that end a finalization, but not those of the loop.
FinalizationTimeout(w) ==
    /\ \/ At(w, "finalize")
       \/ /\ run[w].timed
          /\ run[w].pc \in {"inventory", "publish", "record", "block", "cancelAbort", "cancelStore"}
    /\ MayFail(run[w].job)
    /\ run' = [run EXCEPT ![w].pc = "block", ![w].timed = FALSE,
                          ![w].why = IF IdentityViolated(run[w].job) THEN "identity"
                                     ELSE "finalization"]
    /\ UNCHANGED <<job, item, snapshot, budget>>

Blocked_FreesSite(r, why) ==                                      \* mutant
    [Released(r) EXCEPT !.status = "blocked", !.phase = "awaiting_remediation", !.report = why,
                        !.retention = "live", !.activeSite = FALSE]
Blocked_ForEver(r, why) ==                                        \* mutant
    [Released(r) EXCEPT !.status = "blocked", !.phase = "awaiting_remediation", !.report = why]

Blocked(r, why) ==
    [Released(r) EXCEPT !.status = "blocked", !.phase = "awaiting_remediation",
                        !.publication = "pending", !.report = why, !.retention = "live"]

Block(w) ==
    LET j == run[w].job IN
    /\ At(w, "block")
    /\ Holds(w, {"running"})
    /\ job' = [job EXCEPT ![j] = Blocked(@, run[w].why)]
    /\ Leave(w)
    /\ UNCHANGED <<item, snapshot, budget>>

\* complete; a production job gets here only after its snapshot went live.
Complete(w) ==
    LET j == run[w].job
        ok == j \in Production \/ PagesIn(j, {"failed"}) = {}
    IN  /\ At(w, "record")
        /\ Holds(w, {"preparing", "running", "cleanup_pending"})
        /\ job' = [job EXCEPT ![j] =
                     [Released(@) EXCEPT !.status = IF ok THEN "succeeded" ELSE "failed",
                                         !.phase = "completed",
                                         !.publication = IF j \in Production THEN "published"
                                                         ELSE "not_requested",
                                         !.activeSite = FALSE]]
        /\ Leave(w)
        /\ UNCHANGED <<item, snapshot, budget>>

\* After the commit a lost claim is left to a later one; before it, the
\* refusal is an ordinary exception.
FinalizationRefused(w) ==
    \/ /\ run[w].pc \in {"finalize", "block"}
       /\ ~Holds(w, {"running"})
       /\ Raise(w)
    \/ /\ At(w, "record")
       /\ ~Holds(w, {"preparing", "running", "cleanup_pending"})
       /\ IF run[w].job \in Production THEN Leave(w) ELSE Goto(w, "storeFail")
       /\ UNCHANGED <<job, item, snapshot, budget>>

-------------------------------------------------------------------------------
(* What can happen to a run at any time *)

\* The heartbeat task ends: the lease is lost or no progress was made.
HeartbeatStops(w) ==
    /\ budget.interruptions < MaxInterruptions
    /\ ~At(w, "idle")
    /\ ~run[w].lost
    /\ run' = [run EXCEPT ![w].lost = TRUE]
    /\ budget' = [budget EXCEPT !.interruptions = @ + 1]
    /\ UNCHANGED <<job, item, snapshot>>

\* _raise_if_lease_monitor_failed, and the wait on a page: leave the job to
\* the expiry of its lease.
LeaveLost(w) ==
    /\ run[w].lost
    /\ \/ run[w].pc \in {"prepare", "finalize", "inventory", "publish", "record", "cleanupFail"}
       \/ At(w, "batch") /\ InHand(w) # {}
    /\ Leave(w)
    /\ UNCHANGED <<job, item, snapshot, budget>>

\* A dependency raises.  Preparing and entering the loop abort nothing yet.
Fault(w) ==
    /\ budget.faults < MaxFaults
    /\ ~At(w, "idle")
    /\ MayFail(run[w].job)
    /\ budget' = [budget EXCEPT !.faults = @ + 1]
    /\ \/ /\ run[w].pc \in {"prepare", "begin"}
          /\ Goto(w, "storeFail")
       \/ /\ run[w].pc \in {"loop", "batch", "promote", "requeue", "finalize", "inventory",
                            "cancelAbort", "cancelStore", "block"}
          /\ Goto(w, HandlerPc(run[w].job))
       \/ /\ At(w, "record")
          /\ IF run[w].job \in Production THEN Leave(w) ELSE Goto(w, "storeFail")
       \/ /\ At(w, "cleanupAbort")
          /\ Goto(w, "cleanupRelease")
    /\ UNCHANGED <<job, item, snapshot>>

\* The process dies, or the coordinator cancels the turn.
Crash(w) ==
    /\ budget.interruptions < MaxInterruptions
    /\ ~At(w, "idle")
    /\ Leave(w)
    /\ budget' = [budget EXCEPT !.interruptions = @ + 1]
    /\ UNCHANGED <<job, item, snapshot>>

\* A run that holds the lease of job j.  Its heartbeat renews the lease until it
\* is lost; a run that meets no pause longer than a lease notices that in time.
Executing(j) == \E w \in Worker : run[w].job = j /\ job[j].owner = w
Renewing(j) == \E w \in Worker : /\ run[w].job = j
                                 /\ job[j].owner = w
                                 /\ ~run[w].lost

LeaseExpires(j) ==
    /\ job[j].lease = "live"
    /\ PromptHeartbeats => ~Executing(j)
    /\ job' = [job EXCEPT ![j].lease = "expired"]
    /\ UNCHANGED <<item, snapshot, run, budget>>

\* A page lease is never renewed.
Fetching(j, i) == \E w \in Worker : run[w].job = j /\ i \in InHand(w)

ItemLeaseExpires(j, i) ==
    /\ item[j][i].lease = "live"
    /\ Fetching(j, i) => SlowPages
    /\ item' = [item EXCEPT ![j][i].lease = "expired"]
    /\ UNCHANGED <<job, snapshot, run, budget>>

ItemDue(j, i) ==
    /\ item[j][i].waiting
    /\ item' = [item EXCEPT ![j][i].waiting = FALSE]
    /\ UNCHANGED <<job, snapshot, run, budget>>

RetentionExpires(j) ==
    /\ job[j].retention = "live"
    /\ job[j].status = "blocked"
    /\ job' = [job EXCEPT ![j].retention = "expired"]
    /\ UNCHANGED <<item, snapshot, run, budget>>

BackoffElapses(j) ==
    /\ job[j].later
    /\ job' = [job EXCEPT ![j].later = FALSE]
    /\ UNCHANGED <<item, snapshot, run, budget>>

-------------------------------------------------------------------------------
Operator ==
    \E j \in Job : \/ Enqueue(j)
                  \/ RequestCancel(j)
                  \/ RetryBlocked(j)
                  \/ \E S \in SUBSET Item : ReconcileStaleVersions(j, S)

Prepare(w) ==
    \/ \E i \in Item : AppendPreparedItem(w, i)
    \/ ApplyDuplicatePolicy(w)
    \/ YieldPreparation(w)
    \/ FinishPreparation(w)
    \/ PreparationRefused(w)

ProcessPages(w) ==
    \/ BeginStagedSync(w)
    \/ LoopHead(w)
    \/ \E i \in Item : ClaimNextItem(w, i)
    \/ ClaimNoItem(w)
    \/ \E i \in Item, status \in {"succeeded", "not_modified", "excluded"} :
            CompleteItem(w, i, status)
    \/ \E i \in Item, retryable \in BOOLEAN : FailItem(w, i, retryable)
    \/ BatchRefused(w)
    \/ EndBatch(w)
    \/ PromoteDuplicateFallbacks(w)
    \/ RequeueIncomplete(w)
    \/ LoopRefused(w)

Finalize(w) ==
    \/ StartFinalization(w)
    \/ Inventory(w)
    \/ PublishStagedSync(w)
    \/ PublishRaises(w)
    \/ Block(w)
    \/ Complete(w)
    \/ FinalizationRefused(w)

StopOrClean(w) ==
    \/ AbortInHandler(w)
    \/ StoreFail(w)
    \/ CancelAbort(w)
    \/ Cancel(w)
    \/ CancelRefused(w)
    \/ CleanupAbort(w)
    \/ CleanupFail(w)
    \/ ReleaseCleanup(w)
    \/ CleanupRefused(w)

Claim(w) == (\E j \in Job : ClaimNext(w, j)) \/ ClaimNothing(w)

WorkerStep(w) == Claim(w) \/ Prepare(w) \/ ProcessPages(w) \/ Finalize(w) \/ StopOrClean(w)
                 \/ LeaveLost(w)

Disturbance(w) == HeartbeatStops(w) \/ FinalizationTimeout(w) \/ Fault(w) \/ Crash(w)

TimePasses ==
    \E j \in Job : \/ LeaseExpires(j)
                  \/ RetentionExpires(j)
                  \/ BackoffElapses(j)
                  \/ \E i \in Item : ItemLeaseExpires(j, i) \/ ItemDue(j, i)

Next == \/ Operator
        \/ \E w \in Worker : WorkerStep(w) \/ Disturbance(w)
        \/ TimePasses

Spec == Init /\ [][Next]_vars

-------------------------------------------------------------------------------
(* Fairness: the scheduler polls for ever, so an enabled step of an idle or    *)
(* executing run is taken, and wall-clock time passes.  Nothing forces an      *)
(* operator, a crash or a fault.                                               *)
Fairness ==
    /\ \A w \in Worker : WF_vars(WorkerStep(w))
    /\ \A j \in Job : /\ WF_vars(LeaseExpires(j) /\ ~Renewing(j))
                      /\ WF_vars(RetentionExpires(j))
                      /\ WF_vars(BackoffElapses(j))
    /\ \A j \in Job, i \in Item : /\ WF_vars(ItemLeaseExpires(j, i))
                                 /\ WF_vars(ItemDue(j, i))

FairSpec == Spec /\ Fairness

-------------------------------------------------------------------------------
(* Properties *)

\* Every row and every run stays in its declared domain.
TypeOK ==
    /\ job \in [Job -> JobRow]
    /\ item \in [Job -> [Item -> PageRow]]
    /\ snapshot \in [Job -> SnapshotStatus]
    /\ run \in [Worker -> RunState]
    /\ budget \in [interruptions : 0..MaxInterruptions, retries : 0..MaxRetries, faults : 0..MaxFaults,
                   pageFailures : 0..MaxPageFailures]

\* The counters the dashboard and the finalization gate read are exactly the
\* page rows, through every claim sweep, promotion, cancel, retry and abort.
CountersMatchPages ==
    \A j \in Job :
        /\ job[j].completed = Cardinality(PagesIn(j, PageDone))
        /\ job[j].count["excluded"] = Cardinality(PagesIn(j, {"excluded", "duplicate"}))
        /\ \A s \in CountedStatus \ {"excluded"} :
              job[j].count[s] = Cardinality(PagesIn(j, {s}))

\* A job that waits for a worker, for remediation or for nothing any more is
\* leased to nobody; a canceled one may keep the name of the run it stopped.
WaitingJobsAreUnleased ==
    \A j \in Job : job[j].status \in {"absent", "queued", "blocked", "succeeded", "failed"} =>
        job[j].owner = NoWorker /\ job[j].lease = "none"

\* "Completed and HTTP 304 items are never returned to the pending queue": in a
\* shadow job, which never aborts a staging, no worker that wakes up after its
\* job was reclaimed can overwrite what the new claim recorded.
CompletedPagesAreDurable ==
    [][\A j \in Job \ Production, i \in Item :
         item[j][i].status \in {"succeeded", "not_modified"} =>
             item'[j][i].status = item[j][i].status]_vars

\* A finished shadow job is never reopened, whichever worker still believes in it.
TerminalIsFinal ==
    [][\A j \in Job \ Production : job[j].status \in Terminal => job'[j].status = job[j].status]_vars

\* "Failed or truncated crawls never publish a partial snapshot."
NoPartialPublication ==
    [][\A j \in Job : snapshot[j] # "active" /\ snapshot'[j] = "active" =>
         PagesIn(j, {"absent", "pending", "fetching", "failed"}) = {}]_vars

\* First-wins: a publication never serves two pages of one product family, not
\* even after a fallback was promoted and its failed winner retried.
OnePagePerFamily ==
    [][\A j \in Job : snapshot[j] # "active" /\ snapshot'[j] = "active" =>
         \A l \in Loser : ~({l, WinnerOf[l]} \subseteq PagesIn(j, {"succeeded", "not_modified"}))]_vars

\* A cancel the service accepted is never followed by a publication.
NoPublicationAfterCancel ==
    [][\A j \in Job : snapshot[j] # "active" /\ snapshot'[j] = "active" => ~job[j].cancel]_vars

\* "Publication is an irreversible boundary": what was published is replaced by
\* a later publication or stays, and is never discarded under the visitors.
PublishedIsNeverDiscarded ==
    [][\A j \in Job : snapshot[j] = "active" => snapshot'[j] \in {"active", "superseded"}]_vars

\* The publication status an operator reads is what visitors are served.
PublicationStatusIsTrue ==
    \A j \in Production :
        /\ job[j].publication = "published" => snapshot[j] \in {"active", "superseded"}
        /\ job[j].publication = "refused" => snapshot[j] \notin {"active", "broken"}

\* Two unfinished jobs never synchronize the same site.
OneUnfinishedJobPerSite ==
    \A j, k \in Job :
        /\ j # k
        /\ SiteOf[j] = SiteOf[k]
        /\ job[j].status \notin Terminal \cup {"absent"}
        => job[k].status \in Terminal \cup {"absent"}

\* "Two worker replicas competing for the same tenant never process one job
\* lease concurrently": two runs on one job are both past processing it, and
\* only clean up after it or give up.
CleaningPc == {"cleanupAbort", "cleanupFail", "cleanupRelease", "storeFail"}

OneRunPerJob ==
    \A v, w \in Worker : v # w /\ run[v].job = run[w].job /\ run[v].job # NoJob =>
        {run[v].pc, run[w].pc} \subseteq CleaningPc

\* A page is in the hands of one fetch at a time: neither a second worker nor a
\* second slot of the same run takes a page whose fetch is still going on.
OneFetchPerPage ==
    \A j \in Job, i \in Item, w \in Worker : run[w].job = j /\ i \in InHand(w) =>
        /\ run[w].pages[i] = 1
        /\ \A v \in Worker \ {w} : run[v].job = j => i \notin InHand(v)

\* A page another claim completed is not reopened while that claim is alive.
NobodyUndoesALiveClaim ==
    [][\A j \in Job, w \in Worker :
         /\ run[w].job = j /\ job[j].owner = w /\ job[j].lease = "live" /\ job[j].status = "running"
         /\ ~job[j].cancel
         /\ run'[w] = run[w]
         => \A i \in Item : item[j][i].status = "succeeded" => item'[j][i].status = "succeeded"]_vars

\* "Each page is retried up to its configured limit".
PageAttemptsAreBounded ==
    \A j \in Job, i \in Item : item[j][i].attempts <= MaxItemAttempts

\* "Safe cancellation fails the staging product snapshot": a canceled job
\* leaves no staged snapshot behind.
CanceledJobsAreCleaned ==
    \A j \in Job : job[j].status = "canceled" => snapshot[j] # "staging"

\* An enqueued job reaches a terminal state: by itself, or, if it is blocked,
\* by remediation or by the expiry of its retention.
EveryJobFinishes ==
    \A j \in Job : job[j].status # "absent" ~> job[j].status \in Terminal

\* A cancel request that was accepted ends the job, even one whose worker died.
CancelsAreHonoured ==
    \A j \in Job : job[j].cancel ~> (job[j].status \in Terminal \/ ~job[j].cancel)
===============================================================================
