-------------------------- MODULE WebSyncJobProofs --------------------------
(* Theorems about WebSyncJob that hold for every value of its constants. *)
EXTENDS WebSyncJob, FiniteSetTheorems, TLAPS

-----------------------------------------------------------------------------
(* Facts about the rows *)

\* Counting pages never fails: a job has finitely many.
LEMMA CountPages ==
    ASSUME NEW S, S \subseteq Item
    PROVE  Cardinality(S) \in Nat
BY FinitePages, FS_Subset, FS_CardinalityType

\* A release keeps a job row a job row, and clears its lease.
LEMMA ReleasedJob ==
    ASSUME NEW r \in JobRow
    PROVE  /\ Released(r) \in JobRow
           /\ Released(r).owner = NoWorker
           /\ Released(r).lease = "none"
BY DEF Released, JobRow, Window

LEMMA ReleasedPage ==
    ASSUME NEW r \in PageRow
    PROVE  Released(r) \in PageRow
BY DEF Released, PageRow, Window

LEMMA BlockedJob ==
    ASSUME NEW r \in JobRow, NEW why \in BlockReason
    PROVE  Blocked(r, why) \in JobRow
BY DEF Blocked, Released, JobRow, Window, JobStatus, JobPhase, PublicationStatus

\* Monus never leaves the naturals: a counter is never negative.
LEMMA MonusType == \A a, b \in Nat : Monus(a, b) \in Nat
BY DEF Monus

LEMMA CountedJob ==
    ASSUME NEW r \in JobRow, NEW s \in CountedStatus, NEW n \in Nat
    PROVE  /\ Counted(r, s, n) \in JobRow
           /\ Uncounted(r, s, n) \in JobRow
<1>1. /\ r.completed + n \in Nat
      /\ [r.count EXCEPT ![s] = @ + n] \in [CountedStatus -> Nat]
      /\ Monus(r.completed, n) \in Nat
      /\ [r.count EXCEPT ![s] = Monus(@, n)] \in [CountedStatus -> Nat]
  <2>1. r.completed \in Nat /\ r.count \in [CountedStatus -> Nat]
    BY DEF JobRow
  <2>2. r.count[s] \in Nat
    BY <2>1
  <2>3. r.completed + n \in Nat /\ r.count[s] + n \in Nat
    BY <2>1, <2>2
  <2>4. Monus(r.completed, n) \in Nat /\ Monus(r.count[s], n) \in Nat
    BY <2>1, <2>2, MonusType
  <2> QED
    BY <2>1, <2>3, <2>4
<1>2. /\ Counted(r, s, n) = [r EXCEPT !.completed = r.completed + n,
                                      !.count = [r.count EXCEPT ![s] = @ + n]]
      /\ Uncounted(r, s, n) = [r EXCEPT !.completed = Monus(r.completed, n),
                                        !.count = [r.count EXCEPT ![s] = Monus(@, n)]]
  BY DEF Counted, Uncounted, JobRow
<1>3. \A k \in Nat, c \in [CountedStatus -> Nat] :
        [r EXCEPT !.completed = k, !.count = c] \in JobRow
  BY DEF JobRow
<1>4. Counted(r, s, n) \in JobRow
  <2> DEFINE k == r.completed + n
             c == [r.count EXCEPT ![s] = @ + n]
  <2>1. k \in Nat /\ c \in [CountedStatus -> Nat]
    BY <1>1
  <2>2. Counted(r, s, n) = [r EXCEPT !.completed = k, !.count = c]
    BY <1>2
  <2> HIDE DEF k, c
  <2> QED
    BY <1>3, <2>1, <2>2
<1>5. Uncounted(r, s, n) \in JobRow
  <2> DEFINE k == Monus(r.completed, n)
             c == [r.count EXCEPT ![s] = Monus(@, n)]
  <2>1. k \in Nat /\ c \in [CountedStatus -> Nat]
    BY <1>1
  <2>2. Uncounted(r, s, n) = [r EXCEPT !.completed = k, !.count = c]
    BY <1>2
  <2> HIDE DEF k, c
  <2> QED
    BY <1>3, <2>1, <2>2
<1> QED
  BY <1>4, <1>5

LEMMA SweptJob ==
    ASSUME NEW j \in Job, job \in [Job -> JobRow]
    PROVE  /\ Swept(j) \in JobRow
           /\ Swept(j).status \in {"preparing", "running"} /\ Swept(j).lease = "expired"
                 => Swept(j).failures + 1 \in 0..MaxFailures
<1>1. job[j] \in JobRow
  OBVIOUS
<1>2. CASE ~Exhausted(job[j])
  BY <1>1, <1>2, ConstantsAssumption DEF Swept, Exhausted, JobRow
<1>3. CASE Exhausted(job[j])
  <2> DEFINE r == Released(job[j])
  <2>1. r \in JobRow
    BY <1>1 DEF Released, JobRow, Window
  <2>2. {"cleanup_pending", "failed"} \subseteq JobStatus
        /\ {"awaiting_remediation", "completed"} \subseteq JobPhase
    BY DEF JobStatus, Terminal, JobPhase
  <2> HIDE DEF r
  <2>3. CASE j \in Production
    <3>1. Swept(j) = [r EXCEPT !.status = "cleanup_pending",
                               !.phase = "awaiting_remediation", !.later = FALSE]
      BY <1>3, <2>3 DEF Swept, r
    <3>2. [r EXCEPT !.status = "cleanup_pending",
                    !.phase = "awaiting_remediation", !.later = FALSE] \in JobRow
      BY <2>1, <2>2 DEF JobRow
    <3>3. Swept(j).status = "cleanup_pending"
      BY <2>1, <3>1 DEF JobRow
    <3> QED
      BY <3>1, <3>2, <3>3
  <2>4. CASE j \notin Production
    <3>1. Swept(j) = [r EXCEPT !.status = "failed", !.phase = "completed", !.activeSite = FALSE]
      BY <1>3, <2>4 DEF Swept, r
    <3>2. [r EXCEPT !.status = "failed", !.phase = "completed", !.activeSite = FALSE] \in JobRow
      BY <2>1, <2>2 DEF JobRow
    <3>3. Swept(j).status = "failed"
      BY <2>1, <3>1 DEF JobRow
    <3> QED
      BY <3>1, <3>2, <3>3
  <2> QED
    BY <2>3, <2>4
<1> QED
  BY <1>2, <1>3

LEMMA ClaimedJob ==
    ASSUME NEW r \in JobRow, NEW w \in Worker,
           r.status \in {"preparing", "running"} /\ r.lease = "expired"
              => r.failures + 1 \in 0..MaxFailures
    PROVE  Claimed(r, w) \in JobRow
<1>1. LeasedTo(r, w) \in JobRow
  BY DEF LeasedTo, JobRow, Window
<1>2. LeasedTo(r, w).failures = r.failures
  BY DEF LeasedTo, JobRow
<1> DEFINE recovering == r.status \in {"preparing", "running"} /\ r.lease = "expired"
           cancel == r.cancel \/ r.status = "blocked"
           status == IF r.status \in {"preparing", "cleanup_pending"} THEN r.status ELSE "running"
           phase == IF r.status = "cleanup_pending" THEN "awaiting_remediation"
                    ELSE IF r.status = "preparing" THEN "preparing"
                    ELSE IF cancel THEN "awaiting_remediation"
                    ELSE IF r.phase = "finalizing" THEN r.phase ELSE "processing"
           failures == IF recovering THEN r.failures + 1 ELSE r.failures
<1>3. /\ cancel \in BOOLEAN
      /\ status \in JobStatus
      /\ phase \in JobPhase
      /\ failures \in 0..MaxFailures
  BY DEF JobRow, JobStatus, JobPhase
<1>4. Claimed(r, w) = [LeasedTo(r, w) EXCEPT !.cancel = cancel, !.status = status,
                                             !.phase = phase, !.failures = failures]
  BY DEF Claimed, LeasedTo, JobRow
<1> HIDE DEF cancel, status, phase, failures
<1> QED
  BY <1>1, <1>3, <1>4 DEF JobRow

-----------------------------------------------------------------------------
(* The inductive invariant: types, and what a run carries from step to step *)

\* A run that executes has a job.  It enters the page loop empty-handed, and a
\* batch never holds more pages than the slots it has used up.
RunShape(r) ==
    /\ r.pc # "idle" => r.job \in Job
    /\ r.pc \in {"begin", "loop", "promote"} => \A i \in Item : r.pages[i] = 0
    /\ r.pc = "batch" => \A i \in Item : r.pages[i] + r.slots <= Concurrency

JobsTyped == job \in [Job -> JobRow]
ItemsTyped == item \in [Job -> [Item -> PageRow]]
SnapshotsTyped == snapshot \in [Job -> SnapshotStatus]
RunsTyped == /\ run \in [Worker -> RunState]
             /\ \A w \in Worker : RunShape(run[w])
BudgetTyped == budget \in [interruptions : 0..MaxInterruptions, retries : 0..MaxRetries,
                           faults : 0..MaxFaults, pageFailures : 0..MaxPageFailures]

TypeInv == JobsTyped /\ ItemsTyped /\ SnapshotsTyped /\ RunsTyped /\ BudgetTyped

LEMMA TypeInvImpliesTypeOK == TypeInv => TypeOK
BY DEF TypeInv, JobsTyped, ItemsTyped, SnapshotsTyped, RunsTyped, BudgetTyped, TypeOK

LEMMA InitTyped == Init => TypeInv
<1> SUFFICES ASSUME Init PROVE TypeInv
  OBVIOUS
<1>1. NoRow \in JobRow
  BY ConstantsAssumption DEF NoRow, JobRow, JobStatus, JobPhase, PublicationStatus, Window,
                             BlockReason, CountedStatus
<1>2. NoPage \in PageRow
  BY ConstantsAssumption DEF NoPage, PageRow, PageStatus, Window
<1>3. IdleRun \in RunState /\ RunShape(IdleRun)
  BY ConstantsAssumption DEF IdleRun, RunState, RunShape, Pc, BlockReason
<1> QED
  BY <1>1, <1>2, <1>3, ConstantsAssumption
     DEF Init, TypeInv, JobsTyped, ItemsTyped, SnapshotsTyped, RunsTyped, BudgetTyped,
         SnapshotStatus

\* The three ways a run moves: to a row of its own, to a later point, to rest.
LEMMA RunMoves ==
    ASSUME RunsTyped, NEW w \in Worker, NEW r \in RunState, RunShape(r),
           run' = [run EXCEPT ![w] = r]
    PROVE  RunsTyped'
BY DEF RunsTyped

LEMMA RunGoesTo ==
    ASSUME RunsTyped, NEW w \in Worker, ~At(w, "idle"),
           NEW pc \in Pc \ {"begin", "loop", "promote", "batch"}, Goto(w, pc)
    PROVE  RunsTyped'
<1> DEFINE r == [run[w] EXCEPT !.pc = pc]
<1>1. r \in RunState /\ RunShape(r)
  BY DEF RunsTyped, RunState, RunShape, At
<1>2. run' = [run EXCEPT ![w] = r]
  BY DEF Goto, RunsTyped
<1> QED
  BY <1>1, <1>2, RunMoves

LEMMA RunLeaves ==
    ASSUME RunsTyped, NEW w \in Worker, Leave(w)
    PROVE  RunsTyped'
<1>1. IdleRun \in RunState /\ RunShape(IdleRun)
  BY ConstantsAssumption DEF IdleRun, RunState, RunShape, Pc, BlockReason
<1> QED
  BY <1>1, RunMoves DEF Leave

LEMMA RunBlocks ==
    ASSUME RunsTyped, NEW w \in Worker, ~At(w, "idle"), NEW why \in BlockReason,
           Blocking(w, why)
    PROVE  RunsTyped'
<1> DEFINE r == [run[w] EXCEPT !.pc = "block", !.why = why]
<1>1. r \in RunState /\ RunShape(r)
  <2>1. run[w] \in RunState /\ run[w].job \in Job
    BY DEF RunsTyped, RunShape, At
  <2>2. "block" \in Pc
    BY DEF Pc
  <2>3. r \in RunState
    BY <2>1, <2>2 DEF RunState
  <2>4. r.pc = "block" /\ r.job = run[w].job
    BY <2>1 DEF RunState
  <2> QED  BY <2>1, <2>3, <2>4 DEF RunShape
<1>2. run' = [run EXCEPT ![w] = r]
  BY DEF Blocking, RunsTyped
<1> QED
  BY <1>1, <1>2, RunMoves

LEMMA HandlerIsPc == \A j : HandlerPc(j) \in Pc \ {"begin", "loop", "promote", "batch"}
BY DEF HandlerPc, Pc

LEMMA RunRaises ==
    ASSUME TypeInv, NEW w \in Worker, ~At(w, "idle"), Raise(w)
    PROVE  TypeInv'
BY HandlerIsPc, RunGoesTo
   DEF Raise, TypeInv, JobsTyped, ItemsTyped, SnapshotsTyped, BudgetTyped

-----------------------------------------------------------------------------
(* The operator's commands *)

LEMMA EnqueueTyped ==
    ASSUME TypeInv, NEW j \in Job, Enqueue(j)
    PROVE  TypeInv'
<1> DEFINE row == [job[j] EXCEPT !.status = "preparing", !.activeSite = TRUE,
                     !.publication = IF j \in Production THEN "pending" ELSE "not_requested"]
<1>1. job' = [job EXCEPT ![j] = row]
  BY DEF Enqueue, TypeInv, JobsTyped, JobRow
<1>2. row \in JobRow
  BY DEF Enqueue, TypeInv, JobsTyped, JobRow, JobStatus, PublicationStatus
<1> QED
  BY <1>1, <1>2
     DEF Enqueue, TypeInv, JobsTyped, ItemsTyped, SnapshotsTyped, RunsTyped, BudgetTyped

LEMMA CanceledPagesTyped ==
    ASSUME ItemsTyped, NEW j \in Job, NEW S
    PROVE  CanceledPages(j, S) \in [Item -> PageRow]
<1> SUFFICES ASSUME NEW i \in Item
             PROVE  [Released(item[j][i]) EXCEPT !.status = "canceled"] \in PageRow
  BY DEF CanceledPages, ItemsTyped
<1>1. Released(item[j][i]) \in PageRow
  BY ReleasedPage DEF ItemsTyped
<1> QED
  BY <1>1 DEF PageRow, PageStatus, PageDone, CountedStatus

LEMMA PagesInAreItems == \A j \in Job : \A S : PagesIn(j, S) \subseteq Item
BY DEF PagesIn

LEMMA EndedJobRow ==
    ASSUME NEW r \in JobRow, NEW status \in Terminal, NEW publication \in PublicationStatus,
           NEW cancel \in BOOLEAN
    PROVE  /\ [r EXCEPT !.status = status, !.phase = "completed", !.cancel = cancel,
                        !.activeSite = FALSE, !.publication = publication] \in JobRow
           /\ [r EXCEPT !.status = status, !.phase = "completed",
                        !.activeSite = FALSE, !.publication = publication] \in JobRow
           /\ [r EXCEPT !.status = status, !.phase = "completed",
                        !.publication = publication, !.activeSite = FALSE] \in JobRow
<1>1. status \in JobStatus /\ "completed" \in JobPhase
  BY DEF JobStatus, JobPhase
<1>2. [r EXCEPT !.status = status, !.phase = "completed", !.cancel = cancel,
               !.activeSite = FALSE, !.publication = publication] \in JobRow
  BY <1>1 DEF JobRow
<1>3. [r EXCEPT !.status = status, !.phase = "completed",
               !.activeSite = FALSE, !.publication = publication] \in JobRow
  BY <1>1 DEF JobRow
<1>4. [r EXCEPT !.status = status, !.phase = "completed",
               !.publication = publication, !.activeSite = FALSE] \in JobRow
  BY <1>1 DEF JobRow
<1> QED
  BY <1>2, <1>3, <1>4

LEMMA RequestCancelTyped ==
    ASSUME TypeInv, NEW j \in Job, RequestCancel(j)
    PROVE  TypeInv'
<1> DEFINE n == Cardinality(PagesIn(j, {"pending"}))
           row == [Counted(job[j], "canceled", n) EXCEPT
                     !.status = "canceled", !.phase = "completed", !.cancel = TRUE,
                     !.activeSite = FALSE, !.publication = CanceledPublication(j)]
<1>1. CASE job[j].status \in {"preparing", "queued"}
  <2>1. n \in Nat
    BY CountPages, PagesInAreItems
  <2>2. Counted(job[j], "canceled", n) \in JobRow
    BY <2>1, CountedJob DEF TypeInv, JobsTyped, CountedStatus
  <2>3. row \in JobRow
    <3>1. CanceledPublication(j) \in PublicationStatus /\ "canceled" \in Terminal
      BY DEF CanceledPublication, PublicationStatus, Terminal
    <3> QED
      BY <2>2, <3>1, EndedJobRow
  <2>4. job' = [job EXCEPT ![j] = row]
    BY <1>1 DEF RequestCancel, TypeInv, JobsTyped
  <2>5. ItemsTyped'
    BY <1>1, CanceledPagesTyped DEF RequestCancel, TypeInv, ItemsTyped
  <2> QED
    BY <2>3, <2>4, <2>5
       DEF RequestCancel, TypeInv, JobsTyped, SnapshotsTyped, RunsTyped, BudgetTyped
<1>2. CASE job[j].status \notin {"preparing", "queued"}
  <2>1. job' = [job EXCEPT ![j] = [job[j] EXCEPT !.cancel = TRUE]]
    BY <1>2 DEF RequestCancel, TypeInv, JobsTyped, JobRow
  <2>2. [job[j] EXCEPT !.cancel = TRUE] \in JobRow
    <3>1. job[j] \in JobRow
      BY DEF TypeInv, JobsTyped
    <3> QED
      BY <3>1 DEF JobRow
  <2> QED
    BY <1>2, <2>1, <2>2
       DEF RequestCancel, TypeInv, JobsTyped, ItemsTyped, SnapshotsTyped, RunsTyped, BudgetTyped
<1> QED
  BY <1>1, <1>2

LEMMA ReopenedJob ==
    ASSUME NEW r \in JobRow, NEW phase \in JobPhase
    PROVE  Reopened(r, phase) \in JobRow
<1>1. 0 \in 0..MaxFailures
  BY ConstantsAssumption
<1> QED
  BY <1>1 DEF Reopened, JobRow, JobStatus, PublicationStatus, BlockReason, Window

LEMMA PendingPage == [NoPage EXCEPT !.status = "pending"] \in PageRow
<1>1. NoPage \in PageRow
  BY ConstantsAssumption DEF NoPage, PageRow, PageStatus, Window
<1> QED
  BY <1>1 DEF PageRow, PageStatus

LEMMA RetryBlockedTyped ==
    ASSUME TypeInv, NEW j \in Job, RetryBlocked(j)
    PROVE  TypeInv'
<1> DEFINE failed == PagesIn(j, {"failed"})
           n == Cardinality(failed)
           finalizationOnly == n = 0 /\ job[j].report \in {"finalization", "stale"}
           r == Reopened(job[j], IF finalizationOnly THEN "finalizing" ELSE "queued")
           c == Monus(r.completed, n)
           k == [r.count EXCEPT !["failed"] = 0]
           row == [r EXCEPT !.completed = c, !.count = k]
<1>1. job[j] \in JobRow
  BY DEF TypeInv, JobsTyped
<1>2. n \in Nat
  BY CountPages, PagesInAreItems
<1>3. r \in JobRow
  BY <1>1, ReopenedJob DEF JobPhase
<1>4. job' = [job EXCEPT ![j] = [r EXCEPT !.completed = Monus(@, n), !.count["failed"] = 0]]
  BY DEF RetryBlocked
<1> HIDE DEF n, r
<1>5. row \in JobRow
  <2>1. r.completed \in Nat /\ r.count \in [CountedStatus -> Nat]
    BY <1>3 DEF JobRow
  <2>2. c \in Nat /\ k \in [CountedStatus -> Nat]
    BY <1>2, <2>1, MonusType
  <2> QED
    BY <1>3, <2>2 DEF JobRow
<1>6. job' = [job EXCEPT ![j] = row]
  BY <1>3, <1>4 DEF JobRow
<1>7. ItemsTyped'
  BY PendingPage DEF RetryBlocked, TypeInv, ItemsTyped
<1>8. BudgetTyped'
  BY ConstantsAssumption DEF RetryBlocked, TypeInv, BudgetTyped
<1> QED
  BY <1>5, <1>6, <1>7, <1>8
     DEF RetryBlocked, TypeInv, JobsTyped, SnapshotsTyped, RunsTyped

LEMMA ReconcileTyped ==
    ASSUME TypeInv, NEW j \in Job, NEW S \in SUBSET Item, ReconcileStaleVersions(j, S)
    PROVE  TypeInv'
<1> DEFINE fresh == Cardinality(S \cap PagesIn(j, {"succeeded"}))
           stale == Cardinality(S \cap PagesIn(j, {"not_modified"}))
           row == Uncounted(Uncounted(Reopened(job[j], "queued"), "succeeded", fresh),
                            "not_modified", stale)
<1>1. fresh \in Nat /\ stale \in Nat
  <2>1. S \cap PagesIn(j, {"succeeded"}) \subseteq Item /\ S \cap PagesIn(j, {"not_modified"}) \subseteq Item
    OBVIOUS
  <2> QED
    BY <2>1, CountPages
<1>2. Reopened(job[j], "queued") \in JobRow
  BY ReopenedJob DEF TypeInv, JobsTyped, JobPhase
<1>3. Uncounted(Reopened(job[j], "queued"), "succeeded", fresh) \in JobRow
  BY <1>1, <1>2, CountedJob DEF CountedStatus
<1>4. row \in JobRow
  BY <1>1, <1>3, CountedJob DEF CountedStatus
<1>5. job' = [job EXCEPT ![j] = row]
  BY DEF ReconcileStaleVersions, TypeInv, JobsTyped
<1>6. ItemsTyped'
  BY PendingPage DEF ReconcileStaleVersions, TypeInv, ItemsTyped
<1>7. BudgetTyped'
  BY ConstantsAssumption DEF ReconcileStaleVersions, TypeInv, BudgetTyped
<1> QED
  BY <1>4, <1>5, <1>6, <1>7
     DEF ReconcileStaleVersions, TypeInv, JobsTyped, SnapshotsTyped, RunsTyped

-----------------------------------------------------------------------------
(* Claiming and preparing *)

LEMMA EnteringRun ==
    ASSUME NEW j \in Job, NEW pc \in Pc \ {"batch"}
    PROVE  LET r == [IdleRun EXCEPT !.pc = pc, !.job = j] IN r \in RunState /\ RunShape(r)
<1>1. IdleRun \in RunState /\ \A i \in Item : IdleRun.pages[i] = 0
  BY ConstantsAssumption DEF IdleRun, RunState, Pc, BlockReason
<1> QED
  BY <1>1 DEF RunState, RunShape

\* The row a claim takes, and where the claiming run goes with it.
LEMMA ClaimNextTyped ==
    ASSUME TypeInv, NEW w \in Worker, NEW j \in Job, ClaimNext(w, j)
    PROVE  TypeInv'
<1> DEFINE r == Claimed(Swept(j), w)
           idle == [IdleRun EXCEPT !.pc = EntryPc(j, r), !.job = j]
<1>1. \A k \in Job : Swept(k) \in JobRow
  BY SweptJob DEF TypeInv, JobsTyped
<1>2. r \in JobRow
  BY <1>1, SweptJob, ClaimedJob DEF TypeInv, JobsTyped
<1>3. JobsTyped'
  BY <1>1, <1>2 DEF ClaimNext, JobsTyped
<1>4. EntryPc(j, r) \in Pc \ {"batch"}
  BY DEF EntryPc, Pc
<1>5. idle \in RunState /\ RunShape(idle)
  BY <1>4, EnteringRun
<1>6. run' = [run EXCEPT ![w] = idle]
  BY DEF ClaimNext
<1>7. RunsTyped'
  BY <1>5, <1>6, RunMoves DEF TypeInv
<1> QED
  BY <1>3, <1>7 DEF ClaimNext, TypeInv, ItemsTyped, SnapshotsTyped, BudgetTyped

LEMMA ClaimNothingTyped ==
    ASSUME TypeInv, NEW w \in Worker, ClaimNothing(w)
    PROVE  TypeInv'
<1>1. \A k \in Job : Swept(k) \in JobRow
  BY SweptJob DEF TypeInv, JobsTyped
<1>2. JobsTyped'
  BY <1>1 DEF ClaimNothing, JobsTyped
<1> QED
  BY <1>2 DEF ClaimNothing, TypeInv, ItemsTyped, SnapshotsTyped, RunsTyped, BudgetTyped

LEMMA RunPrepares ==
    ASSUME RunsTyped, NEW w \in Worker, At(w, "prepare"), run' = [run EXCEPT ![w].worked = TRUE]
    PROVE  RunsTyped'
<1> DEFINE r == [run[w] EXCEPT !.worked = TRUE]
<1>1. r \in RunState /\ RunShape(r)
  BY DEF RunsTyped, RunState, RunShape, At
<1>2. run' = [run EXCEPT ![w] = r]
  BY DEF RunsTyped
<1> QED
  BY <1>1, <1>2, RunMoves

\* A step of an executing run belongs to a job.
LEMMA RunHasJob ==
    ASSUME RunsTyped, NEW w \in Worker, ~At(w, "idle")
    PROVE  run[w].job \in Job
BY DEF RunsTyped, RunShape, At

LEMMA AppendPreparedItemTyped ==
    ASSUME TypeInv, NEW w \in Worker, NEW i \in Item, AppendPreparedItem(w, i)
    PROVE  TypeInv'
<1> DEFINE j == run[w].job
           row == [item[j][i] EXCEPT !.status = "pending"]
<1>1. j \in Job
  BY RunHasJob DEF TypeInv, AppendPreparedItem, At
<1>2. row \in PageRow
  <2>1. item[j][i] \in PageRow
    BY <1>1 DEF TypeInv, ItemsTyped
  <2> QED
    BY <2>1 DEF PageRow, PageStatus
<1>3. item' = [item EXCEPT ![j] = [item[j] EXCEPT ![i] = row]]
  BY <1>1 DEF AppendPreparedItem, TypeInv, ItemsTyped
<1>4. ItemsTyped'
  BY <1>1, <1>2, <1>3 DEF TypeInv, ItemsTyped
<1>5. RunsTyped'
  BY RunPrepares DEF AppendPreparedItem, TypeInv
<1> QED
  BY <1>4, <1>5 DEF AppendPreparedItem, TypeInv, JobsTyped, SnapshotsTyped, BudgetTyped

LEMMA ApplyDuplicatePolicyTyped ==
    ASSUME TypeInv, NEW w \in Worker, ApplyDuplicatePolicy(w)
    PROVE  TypeInv'
<1> DEFINE j == run[w].job
           excluded == Loser \cap PagesIn(j, {"pending"})
           n == Cardinality(excluded)
           row == [Counted(job[j], "excluded", n) EXCEPT !.elected = TRUE]
<1>1. j \in Job
  BY RunHasJob DEF TypeInv, ApplyDuplicatePolicy, At
<1>2. n \in Nat
  <2>1. excluded \subseteq Item
    BY <1>1, PagesInAreItems
  <2> QED
    BY <2>1, CountPages
<1>3. Counted(job[j], "excluded", n) \in JobRow
  BY <1>1, <1>2, CountedJob DEF TypeInv, JobsTyped, CountedStatus
<1>4. row \in JobRow
  BY <1>3 DEF JobRow
<1>5. job' = [job EXCEPT ![j] = row]
  BY <1>1 DEF ApplyDuplicatePolicy, TypeInv, JobsTyped
<1>6. \A i \in Item : [item[j][i] EXCEPT !.status = "duplicate"] \in PageRow
  BY <1>1 DEF TypeInv, ItemsTyped, PageRow, PageStatus, PageDone
<1>7. ItemsTyped'
  BY <1>1, <1>6 DEF ApplyDuplicatePolicy, TypeInv, ItemsTyped
<1>8. RunsTyped'
  BY RunPrepares DEF ApplyDuplicatePolicy, TypeInv
<1> QED
  BY <1>1, <1>4, <1>5, <1>7, <1>8
     DEF ApplyDuplicatePolicy, TypeInv, JobsTyped, SnapshotsTyped, BudgetTyped

LEMMA YieldPreparationTyped ==
    ASSUME TypeInv, NEW w \in Worker, YieldPreparation(w)
    PROVE  TypeInv'
<1> DEFINE j == run[w].job
<1>1. j \in Job
  BY RunHasJob DEF TypeInv, YieldPreparation, At
<1>2. Released(job[j]) \in JobRow
  BY <1>1, ReleasedJob DEF TypeInv, JobsTyped
<1>3. job' = [job EXCEPT ![j] = Released(job[j])]
  BY <1>1 DEF YieldPreparation, TypeInv, JobsTyped
<1>4. RunsTyped'
  BY RunLeaves DEF YieldPreparation, TypeInv
<1> QED
  BY <1>1, <1>2, <1>3, <1>4
     DEF YieldPreparation, TypeInv, JobsTyped, ItemsTyped, SnapshotsTyped, BudgetTyped

LEMMA FinishPreparationTyped ==
    ASSUME TypeInv, NEW w \in Worker, FinishPreparation(w)
    PROVE  TypeInv'
<1> DEFINE j == run[w].job
           row == [Released(job[j]) EXCEPT !.status = "queued", !.phase = "queued", !.failures = 0]
<1>1. j \in Job
  BY RunHasJob DEF TypeInv, FinishPreparation, At
<1>2. Released(job[j]) \in JobRow
  BY <1>1, ReleasedJob DEF TypeInv, JobsTyped
<1>3. row \in JobRow
  <2>1. 0 \in 0..MaxFailures
    BY ConstantsAssumption
  <2> QED
    BY <1>2, <2>1 DEF JobRow, JobStatus, JobPhase
<1>4. job' = [job EXCEPT ![j] = row]
  BY <1>1 DEF FinishPreparation, TypeInv, JobsTyped
<1>5. RunsTyped'
  BY RunLeaves DEF FinishPreparation, TypeInv
<1> QED
  BY <1>1, <1>3, <1>4, <1>5
     DEF FinishPreparation, TypeInv, JobsTyped, ItemsTyped, SnapshotsTyped, BudgetTyped

\* A step that only moves its run to a later point keeps every row.
LEMMA MovingIsTyped ==
    ASSUME TypeInv, NEW w \in Worker, ~At(w, "idle"),
           NEW pc \in Pc \ {"begin", "loop", "promote", "batch"}, Goto(w, pc),
           UNCHANGED <<job, item, snapshot, budget>>
    PROVE  TypeInv'
BY RunGoesTo DEF TypeInv, JobsTyped, ItemsTyped, SnapshotsTyped, BudgetTyped

LEMMA LeavingIsTyped ==
    ASSUME TypeInv, NEW w \in Worker, Leave(w), UNCHANGED <<job, item, snapshot, budget>>
    PROVE  TypeInv'
BY RunLeaves DEF TypeInv, JobsTyped, ItemsTyped, SnapshotsTyped, BudgetTyped

LEMMA PrepareTyped ==
    ASSUME TypeInv, NEW w \in Worker, Prepare(w)
    PROVE  TypeInv'
<1>1. CASE PreparationRefused(w)
  BY <1>1, MovingIsTyped DEF PreparationRefused, At, Pc
<1> QED
  BY <1>1, AppendPreparedItemTyped, ApplyDuplicatePolicyTyped, YieldPreparationTyped,
     FinishPreparationTyped DEF Prepare

-----------------------------------------------------------------------------
(* The page loop *)

LEMMA BeginStagedSyncTyped ==
    ASSUME TypeInv, NEW w \in Worker, BeginStagedSync(w)
    PROVE  TypeInv'
<1> DEFINE r == [run[w] EXCEPT !.pc = "loop"]
<1>1. r \in RunState /\ RunShape(r)
  BY DEF BeginStagedSync, TypeInv, RunsTyped, RunState, RunShape, At, Pc
<1>2. run' = [run EXCEPT ![w] = r]
  BY DEF BeginStagedSync, Goto, TypeInv, RunsTyped
<1>3. RunsTyped'
  BY <1>1, <1>2, RunMoves DEF TypeInv
<1>4. SnapshotsTyped'
  BY DEF BeginStagedSync, TypeInv, SnapshotsTyped, SnapshotStatus
<1> QED
  BY <1>3, <1>4 DEF BeginStagedSync, TypeInv, JobsTyped, ItemsTyped, BudgetTyped

LEMMA LoopHeadTyped ==
    ASSUME TypeInv, NEW w \in Worker, LoopHead(w)
    PROVE  TypeInv'
<1> DEFINE j == run[w].job
           r == [run[w] EXCEPT !.pc = "batch", !.slots = Concurrency, !.got = FALSE]
<1>1. CASE Goto(w, IF j \in Production THEN "cancelAbort" ELSE "cancelStore")
  BY <1>1, MovingIsTyped DEF LoopHead, At, Pc
<1>2. CASE Goto(w, IF Processed(job[j]) THEN "finalize" ELSE "requeue")
  BY <1>2, MovingIsTyped DEF LoopHead, At, Pc
<1>3. CASE run' = [run EXCEPT ![w].pc = "batch", ![w].slots = Concurrency, ![w].got = FALSE]
  <2>1. r \in RunState
    <3>1. Concurrency \in 0..Concurrency
      BY ConstantsAssumption
    <3>2. run[w] \in RunState
      BY DEF TypeInv, RunsTyped
    <3> QED
      BY <3>1, <3>2 DEF RunState, Pc
  <2>2. RunShape(r)
    <3>1. /\ run[w] \in RunState
          /\ run[w].job \in Job
          /\ \A i \in Item : run[w].pages[i] = 0
      BY DEF LoopHead, At, TypeInv, RunsTyped, RunShape
    <3> QED
      BY <3>1, ConstantsAssumption DEF RunShape, RunState
  <2>3. run' = [run EXCEPT ![w] = r]
    BY <1>3 DEF TypeInv, RunsTyped
  <2>4. RunsTyped'
    BY <2>1, <2>2, <2>3, RunMoves DEF TypeInv
  <2> QED
    BY <2>4 DEF LoopHead, TypeInv, JobsTyped, ItemsTyped, SnapshotsTyped, BudgetTyped
<1> QED
  BY <1>1, <1>2, <1>3 DEF LoopHead

\* The sweep that precedes every page claim keeps both kinds of rows in range.
LEMMA SweptPagesTyped ==
    ASSUME ItemsTyped, NEW j \in Job
    PROVE  SweptPages(j) \in [Item -> PageRow]
<1> SUFFICES ASSUME NEW i \in Item
             PROVE  [Released(item[j][i]) EXCEPT !.status = "failed"] \in PageRow
  BY DEF SweptPages, ItemsTyped
<1>1. Released(item[j][i]) \in PageRow
  BY ReleasedPage DEF ItemsTyped
<1> QED
  BY <1>1 DEF PageRow, PageStatus, PageDone, CountedStatus

LEMMA SweptCountsTyped ==
    ASSUME JobsTyped, NEW j \in Job
    PROVE  SweptCounts(j) \in [Job -> JobRow]
<1> DEFINE n == Cardinality(OutOfAttempts(j))
<1>1. n \in Nat
  <2>1. OutOfAttempts(j) \subseteq Item
    BY DEF OutOfAttempts
  <2> QED
    BY <2>1, CountPages
<1>2. Counted(job[j], "failed", n) \in JobRow
  BY <1>1, CountedJob DEF JobsTyped, CountedStatus
<1>3. SweptCounts(j) = [job EXCEPT ![j] = Counted(job[j], "failed", n)]
  BY DEF SweptCounts, JobsTyped
<1> QED
  BY <1>2, <1>3 DEF JobsTyped

\* A slot is spent on page i, or, when nothing is due, on no page.
LEMMA RunTakesPage ==
    ASSUME RunsTyped, NEW w \in Worker, At(w, "batch"), run[w].slots > 0, NEW i \in Item,
           run' = [run EXCEPT ![w].slots = @ - 1, ![w].pages[i] = @ + 1]
    PROVE  RunsTyped'
<1> DEFINE p == [run[w].pages EXCEPT ![i] = run[w].pages[i] + 1]
           r == [run[w] EXCEPT !.slots = run[w].slots - 1, !.pages = p]
<1>1. /\ run[w] \in RunState /\ run[w].job \in Job /\ run[w].pc = "batch"
      /\ run[w].slots \in 0..Concurrency
      /\ run[w].pages \in [Item -> 0..Concurrency]
      /\ \A k \in Item : run[w].pages[k] + run[w].slots <= Concurrency
  BY DEF RunsTyped, RunShape, RunState, At
<1>2. /\ run[w].slots - 1 \in 0..Concurrency
      /\ p \in [Item -> 0..Concurrency]
      /\ \A k \in Item : p[k] + (run[w].slots - 1) <= Concurrency
  BY <1>1, ConstantsAssumption
<1>3. run' = [run EXCEPT ![w] = r]
  BY <1>1 DEF RunsTyped, RunState
<1> HIDE DEF p
<1>4. r \in RunState /\ RunShape(r)
  BY <1>1, <1>2 DEF RunState, RunShape
<1> QED
  BY <1>3, <1>4, RunMoves

LEMMA RunSkipsSlot ==
    ASSUME RunsTyped, NEW w \in Worker, At(w, "batch"), run[w].slots > 0,
           run' = [run EXCEPT ![w].slots = @ - 1]
    PROVE  RunsTyped'
<1> DEFINE r == [run[w] EXCEPT !.slots = run[w].slots - 1]
<1>1. /\ run[w] \in RunState /\ run[w].job \in Job /\ run[w].pc = "batch"
      /\ run[w].slots \in 0..Concurrency
      /\ run[w].pages \in [Item -> 0..Concurrency]
      /\ \A k \in Item : run[w].pages[k] + run[w].slots <= Concurrency
  BY DEF RunsTyped, RunShape, RunState, At
<1>2. /\ run[w].slots - 1 \in 0..Concurrency
      /\ \A k \in Item : run[w].pages[k] + (run[w].slots - 1) <= Concurrency
  BY <1>1, ConstantsAssumption
<1>3. run' = [run EXCEPT ![w] = r]
  BY <1>1 DEF RunsTyped, RunState
<1>4. r \in RunState /\ RunShape(r)
  BY <1>1, <1>2 DEF RunState, RunShape
<1> QED
  BY <1>3, <1>4, RunMoves

LEMMA RunHandlesPage ==
    ASSUME RunsTyped, NEW w \in Worker, At(w, "batch"), NEW i \in InHand(w), PageHandled(w, i)
    PROVE  RunsTyped'
<1> DEFINE p == [run[w].pages EXCEPT ![i] = run[w].pages[i] - 1]
           r == [run[w] EXCEPT !.pages = p, !.got = TRUE, !.worked = TRUE]
<1>1. /\ run[w] \in RunState /\ run[w].job \in Job /\ run[w].pc = "batch"
      /\ run[w].slots \in 0..Concurrency
      /\ run[w].pages \in [Item -> 0..Concurrency]
      /\ \A k \in Item : run[w].pages[k] + run[w].slots <= Concurrency
      /\ i \in Item /\ run[w].pages[i] > 0
  BY DEF RunsTyped, RunShape, RunState, At, InHand
<1>2. /\ p \in [Item -> 0..Concurrency]
      /\ \A k \in Item : p[k] + run[w].slots <= Concurrency
  BY <1>1, ConstantsAssumption
<1>3. run' = [run EXCEPT ![w] = r]
  BY <1>1 DEF RunsTyped, RunState, PageHandled
<1> HIDE DEF p
<1>4. r \in RunState /\ RunShape(r)
  BY <1>1, <1>2 DEF RunState, RunShape
<1> QED
  BY <1>3, <1>4, RunMoves

LEMMA ClaimNextItemTyped ==
    ASSUME TypeInv, NEW w \in Worker, NEW i \in Item, ClaimNextItem(w, i)
    PROVE  TypeInv'
<1> DEFINE j == run[w].job
           page == [LeasedTo(item[j][i], w) EXCEPT !.status = "fetching",
                                                   !.attempts = Attempted(@), !.waiting = FALSE]
<1>1. j \in Job
  BY RunHasJob DEF TypeInv, ClaimNextItem, At
<1>2. JobsTyped'
  BY <1>1, SweptCountsTyped DEF ClaimNextItem, TypeInv, JobsTyped
<1>3. page \in PageRow
  <2>1. item[j][i] \in PageRow
    BY <1>1 DEF TypeInv, ItemsTyped
  <2>2. LeasedTo(item[j][i], w) \in PageRow
    BY <2>1 DEF LeasedTo, PageRow, Window
  <2>3. \A n \in 0..(MaxItemAttempts + 1) : Attempted(n) \in 0..(MaxItemAttempts + 1)
    BY ConstantsAssumption DEF Attempted
  <2>4. Attempted(LeasedTo(item[j][i], w).attempts) \in 0..(MaxItemAttempts + 1)
    BY <2>2, <2>3 DEF PageRow
  <2> QED
    BY <2>2, <2>4 DEF PageRow, PageStatus
<1>4. item' = [item EXCEPT ![j] = [SweptPages(j) EXCEPT ![i] = page]]
  BY DEF ClaimNextItem
<1> HIDE DEF page
<1>5. ItemsTyped'
  BY <1>1, <1>3, <1>4, SweptPagesTyped DEF TypeInv, ItemsTyped
<1>6. RunsTyped'
  BY RunTakesPage DEF ClaimNextItem, TypeInv
<1> QED
  BY <1>2, <1>5, <1>6 DEF ClaimNextItem, TypeInv, SnapshotsTyped, BudgetTyped

LEMMA ClaimNoItemTyped ==
    ASSUME TypeInv, NEW w \in Worker, ClaimNoItem(w)
    PROVE  TypeInv'
<1> DEFINE j == run[w].job
<1>1. j \in Job
  BY RunHasJob DEF TypeInv, ClaimNoItem, At
<1>2. JobsTyped'
  BY <1>1, SweptCountsTyped DEF ClaimNoItem, TypeInv, JobsTyped
<1>3. ItemsTyped'
  BY <1>1, SweptPagesTyped DEF ClaimNoItem, TypeInv, ItemsTyped
<1>4. RunsTyped'
  BY RunSkipsSlot DEF ClaimNoItem, TypeInv
<1> QED
  BY <1>2, <1>3, <1>4 DEF ClaimNoItem, TypeInv, SnapshotsTyped, BudgetTyped

LEMMA CompleteItemTyped ==
    ASSUME TypeInv, NEW w \in Worker, NEW i \in Item,
           NEW status \in {"succeeded", "not_modified", "excluded"}, CompleteItem(w, i, status)
    PROVE  TypeInv'
<1> DEFINE j == run[w].job
           page == [Released(item[j][i]) EXCEPT !.status = status]
<1>1. j \in Job
  BY RunHasJob DEF TypeInv, CompleteItem, At
<1>2. Counted(job[j], status, 1) \in JobRow
  BY <1>1, CountedJob DEF TypeInv, JobsTyped, CountedStatus
<1>3. job' = [job EXCEPT ![j] = Counted(job[j], status, 1)]
  BY <1>1 DEF CompleteItem, TypeInv, JobsTyped
<1>4. page \in PageRow
  <2>1. Released(item[j][i]) \in PageRow
    BY <1>1, ReleasedPage DEF TypeInv, ItemsTyped
  <2> QED
    BY <2>1 DEF PageRow, PageStatus, PageDone, CountedStatus
<1>5. item' = [item EXCEPT ![j] = [item[j] EXCEPT ![i] = page]]
  BY <1>1 DEF CompleteItem, TypeInv, ItemsTyped
<1> HIDE DEF page
<1>6. ItemsTyped'
  BY <1>1, <1>4, <1>5 DEF TypeInv, ItemsTyped
<1>7. RunsTyped'
  BY RunHandlesPage DEF CompleteItem, TypeInv
<1> QED
  BY <1>1, <1>2, <1>3, <1>6, <1>7
     DEF CompleteItem, TypeInv, JobsTyped, SnapshotsTyped, BudgetTyped

LEMMA FailItemTyped ==
    ASSUME TypeInv, NEW w \in Worker, NEW i \in Item, NEW retryable \in BOOLEAN,
           FailItem(w, i, retryable)
    PROVE  TypeInv'
<1> DEFINE j == run[w].job
           page == [Released(item[j][i]) EXCEPT
                      !.status = IF retryable THEN "pending" ELSE "failed", !.waiting = retryable]
<1>1. j \in Job
  BY RunHasJob DEF TypeInv, FailItem, At
<1>2. Counted(job[j], "failed", 1) \in JobRow
  BY <1>1, CountedJob DEF TypeInv, JobsTyped, CountedStatus
<1>3. job' = IF retryable THEN job ELSE [job EXCEPT ![j] = Counted(job[j], "failed", 1)]
  BY <1>1 DEF FailItem, TypeInv, JobsTyped
<1>4. JobsTyped'
  BY <1>1, <1>2, <1>3 DEF TypeInv, JobsTyped
<1>5. page \in PageRow
  <2>1. Released(item[j][i]) \in PageRow
    BY <1>1, ReleasedPage DEF TypeInv, ItemsTyped
  <2> QED
    BY <2>1 DEF PageRow, PageStatus, PageDone, CountedStatus
<1>6. item' = [item EXCEPT ![j] = [item[j] EXCEPT ![i] = page]]
  BY <1>1 DEF FailItem, TypeInv, ItemsTyped
<1> HIDE DEF page
<1>7. ItemsTyped'
  BY <1>1, <1>5, <1>6 DEF TypeInv, ItemsTyped
<1>8. RunsTyped'
  BY RunHandlesPage DEF FailItem, TypeInv
<1>9. BudgetTyped'
  BY ConstantsAssumption DEF FailItem, TypeInv, BudgetTyped
<1> QED
  BY <1>4, <1>7, <1>8, <1>9 DEF FailItem, TypeInv, SnapshotsTyped

LEMMA EndBatchTyped ==
    ASSUME TypeInv, NEW w \in Worker, EndBatch(w)
    PROVE  TypeInv'
<1> DEFINE pc == IF run[w].got THEN "loop" ELSE "promote"
           r == [run[w] EXCEPT !.pc = pc]
<1>1. run[w] \in RunState /\ run[w].job \in Job
  BY RunHasJob DEF EndBatch, At, TypeInv, RunsTyped
<1>2. \A i \in Item : run[w].pages[i] = 0
  <2>1. SUFFICES ASSUME NEW i \in Item PROVE run[w].pages[i] = 0
    OBVIOUS
  <2>2. run[w].pages[i] \in 0..Concurrency
    BY <1>1 DEF RunState
  <2>3. ~(run[w].pages[i] > 0)
    BY DEF EndBatch, InHand
  <2> QED
    BY <2>2, <2>3, ConstantsAssumption
<1>3. r \in RunState /\ RunShape(r)
  BY <1>1, <1>2 DEF RunState, RunShape, Pc
<1>4. run' = [run EXCEPT ![w] = r]
  BY DEF EndBatch, Goto, TypeInv, RunsTyped
<1>5. RunsTyped'
  BY <1>3, <1>4, RunMoves DEF TypeInv
<1> QED
  BY <1>5 DEF EndBatch, TypeInv, JobsTyped, ItemsTyped, SnapshotsTyped, BudgetTyped

LEMMA PageReopens == \A r \in PageRow : [r EXCEPT !.status = "pending"] \in PageRow
BY DEF PageRow, PageStatus

LEMMA PromoteTyped ==
    ASSUME TypeInv, NEW w \in Worker, PromoteDuplicateFallbacks(w)
    PROVE  TypeInv'
<1> DEFINE j == run[w].job
           n == Cardinality(Promotable(j))
           pc == IF n > 0 THEN "loop" ELSE IF Processed(job[j]) THEN "finalize" ELSE "requeue"
           r == [run[w] EXCEPT !.pc = pc]
<1>1. j \in Job /\ run[w] \in RunState /\ \A i \in Item : run[w].pages[i] = 0
  BY DEF PromoteDuplicateFallbacks, At, TypeInv, RunsTyped, RunShape
<1>2. n \in Nat
  <2>1. Promotable(j) \subseteq Item
    BY ConstantsAssumption DEF Promotable
  <2> QED
    BY <2>1, CountPages
<1>3. Uncounted(job[j], "excluded", n) \in JobRow
  BY <1>1, <1>2, CountedJob DEF TypeInv, JobsTyped, CountedStatus
<1>4. job' = [job EXCEPT ![j] = Uncounted(job[j], "excluded", n)]
  BY <1>1 DEF PromoteDuplicateFallbacks, TypeInv, JobsTyped
<1>5. \A i \in Item : [item[j][i] EXCEPT !.status = "pending"] \in PageRow
  BY <1>1, PageReopens DEF TypeInv, ItemsTyped
<1>6. ItemsTyped'
  BY <1>1, <1>5 DEF PromoteDuplicateFallbacks, TypeInv, ItemsTyped
<1>7. run' = [run EXCEPT ![w] = r]
  BY DEF PromoteDuplicateFallbacks, Goto, TypeInv, RunsTyped
<1>8. r \in RunState /\ RunShape(r)
  BY <1>1 DEF RunState, RunShape, Pc
<1>9. RunsTyped'
  BY <1>7, <1>8, RunMoves DEF TypeInv
<1> QED
  BY <1>1, <1>3, <1>4, <1>6, <1>9
     DEF PromoteDuplicateFallbacks, TypeInv, JobsTyped, SnapshotsTyped, BudgetTyped

LEMMA RequeueIncompleteTyped ==
    ASSUME TypeInv, NEW w \in Worker, RequeueIncomplete(w)
    PROVE  TypeInv'
<1> DEFINE j == run[w].job
           row == [Released(job[j]) EXCEPT !.status = "queued", !.phase = "queued"]
<1>1. j \in Job
  BY RunHasJob DEF TypeInv, RequeueIncomplete, At
<1>2. Released(job[j]) \in JobRow
  BY <1>1, ReleasedJob DEF TypeInv, JobsTyped
<1>3. row \in JobRow
  BY <1>2 DEF JobRow, JobStatus, JobPhase
<1>4. job' = [job EXCEPT ![j] = row]
  BY <1>1 DEF RequeueIncomplete, TypeInv, JobsTyped
<1>5. RunsTyped'
  BY RunLeaves DEF RequeueIncomplete, TypeInv
<1> QED
  BY <1>1, <1>3, <1>4, <1>5
     DEF RequeueIncomplete, TypeInv, JobsTyped, ItemsTyped, SnapshotsTyped, BudgetTyped

LEMMA ProcessPagesTyped ==
    ASSUME TypeInv, NEW w \in Worker, ProcessPages(w)
    PROVE  TypeInv'
<1>1. CASE BatchRefused(w) \/ LoopRefused(w)
  BY <1>1, RunRaises DEF BatchRefused, LoopRefused, At
<1> QED
  BY <1>1, BeginStagedSyncTyped, LoopHeadTyped, ClaimNextItemTyped, ClaimNoItemTyped,
     CompleteItemTyped, FailItemTyped, EndBatchTyped, PromoteTyped, RequeueIncompleteTyped
     DEF ProcessPages

-----------------------------------------------------------------------------
(* Aborting, canceling, cleaning up *)

LEMMA AbortTyped ==
    ASSUME TypeInv, NEW j \in Job, Abort(j)
    PROVE  JobsTyped' /\ ItemsTyped' /\ SnapshotsTyped'
<1> DEFINE n == Cardinality(Discarded(j))
           counted == Uncounted(job[j], "succeeded", n)
           blocked == [counted EXCEPT !.status = "blocked", !.phase = "awaiting_remediation",
                                      !.publication = "pending", !.report = "stale"]
<1>1. n \in Nat
  BY CountPages, PagesInAreItems DEF Discarded
<1>2. counted \in JobRow
  BY <1>1, CountedJob DEF TypeInv, JobsTyped, CountedStatus
<1>3. Invalidated(j) \in {counted, blocked}
  BY DEF Invalidated
<1> HIDE DEF counted
<1>4. blocked \in JobRow
  BY <1>2 DEF JobRow, JobStatus, JobPhase, PublicationStatus, BlockReason
<1>5. JobsTyped'
  BY <1>2, <1>3, <1>4 DEF Abort, TypeInv, JobsTyped
<1>6. ItemsTyped'
  BY PageReopens DEF Abort, TypeInv, ItemsTyped
<1>7. SnapshotsTyped'
  BY DEF Abort, TypeInv, SnapshotsTyped, SnapshotStatus
<1> QED
  BY <1>5, <1>6, <1>7

LEMMA AbortingIsTyped ==
    ASSUME TypeInv, NEW w \in Worker, ~At(w, "idle"), Abort(run[w].job),
           NEW pc \in Pc \ {"begin", "loop", "promote", "batch"}, Goto(w, pc), UNCHANGED budget
    PROVE  TypeInv'
<1>1. run[w].job \in Job
  BY RunHasJob DEF TypeInv
<1>2. JobsTyped' /\ ItemsTyped' /\ SnapshotsTyped'
  BY <1>1, AbortTyped
<1>3. RunsTyped'
  BY RunGoesTo DEF TypeInv
<1> QED
  BY <1>2, <1>3 DEF TypeInv, BudgetTyped

LEMMA FailedJob ==
    ASSUME JobsTyped, NEW j \in Job
    PROVE  Failed(j) \in JobRow
<1>1. Released(job[j]) \in JobRow
  BY ReleasedJob DEF JobsTyped
<1>2. CanceledPublication(j) \in PublicationStatus /\ "failed" \in Terminal
  BY DEF CanceledPublication, PublicationStatus, Terminal
<1> QED
  BY <1>1, <1>2, EndedJobRow DEF Failed

\* A transaction that rewrites the run's own job row and ends the run.
LEMMA EndingIsTyped ==
    ASSUME TypeInv, NEW w \in Worker, NEW j \in Job, NEW row \in JobRow,
           job' = [job EXCEPT ![j] = row], Leave(w), UNCHANGED <<item, snapshot, budget>>
    PROVE  TypeInv'
BY RunLeaves DEF TypeInv, JobsTyped, ItemsTyped, SnapshotsTyped, BudgetTyped

LEMMA StoreFailTyped ==
    ASSUME TypeInv, NEW w \in Worker, StoreFail(w)
    PROVE  TypeInv'
<1> DEFINE j == run[w].job
<1>1. j \in Job
  BY RunHasJob DEF TypeInv, StoreFail, At
<1>2. Failed(j) \in JobRow
  BY <1>1, FailedJob DEF TypeInv
<1>3. CASE job' = [job EXCEPT ![j] = Failed(j)]
  BY <1>1, <1>2, <1>3, EndingIsTyped DEF StoreFail
<1>4. CASE job' = job
  BY <1>4, LeavingIsTyped DEF StoreFail
<1> QED
  BY <1>3, <1>4 DEF StoreFail

LEMMA CleanupFailTyped ==
    ASSUME TypeInv, NEW w \in Worker, CleanupFail(w)
    PROVE  TypeInv'
<1> DEFINE j == run[w].job
<1>1. j \in Job
  BY RunHasJob DEF TypeInv, CleanupFail, At
<1>2. Failed(j) \in JobRow
  BY <1>1, FailedJob DEF TypeInv
<1> QED
  BY <1>1, <1>2, EndingIsTyped DEF CleanupFail

LEMMA CancelTyped ==
    ASSUME TypeInv, NEW w \in Worker, Cancel(w)
    PROVE  TypeInv'
<1> DEFINE j == run[w].job
           n == Cardinality(PagesIn(j, {"pending", "fetching"}))
           counted == Counted(Released(job[j]), "canceled", n)
           row == [counted EXCEPT !.status = "canceled", !.phase = "completed",
                     !.activeSite = FALSE, !.publication = CanceledPublication(j)]
<1>1. j \in Job
  BY RunHasJob DEF TypeInv, Cancel, At
<1>2. n \in Nat
  BY <1>1, CountPages, PagesInAreItems
<1>3. Released(job[j]) \in JobRow
  BY <1>1, ReleasedJob DEF TypeInv, JobsTyped
<1>4. counted \in JobRow
  BY <1>2, <1>3, CountedJob DEF CountedStatus
<1>5. job' = [job EXCEPT ![j] = row]
  BY DEF Cancel
<1> HIDE DEF counted
<1>6. row \in JobRow
  <2>1. CanceledPublication(j) \in PublicationStatus /\ "canceled" \in Terminal
    BY DEF CanceledPublication, PublicationStatus, Terminal
  <2> QED
    BY <1>4, <2>1, EndedJobRow
<1>7. ItemsTyped'
  BY <1>1, CanceledPagesTyped DEF Cancel, TypeInv, ItemsTyped
<1>8. RunsTyped'
  BY RunLeaves DEF Cancel, TypeInv
<1> QED
  BY <1>1, <1>5, <1>6, <1>7, <1>8
     DEF Cancel, TypeInv, JobsTyped, SnapshotsTyped, BudgetTyped

LEMMA ReleaseCleanupTyped ==
    ASSUME TypeInv, NEW w \in Worker, ReleaseCleanup(w)
    PROVE  TypeInv'
<1> DEFINE j == run[w].job
           row == [Released(job[j]) EXCEPT !.later = TRUE]
<1>1. j \in Job
  BY RunHasJob DEF TypeInv, ReleaseCleanup, At
<1>2. Released(job[j]) \in JobRow
  BY <1>1, ReleasedJob DEF TypeInv, JobsTyped
<1>3. row \in JobRow
  BY <1>2 DEF JobRow
<1>4. job' = [job EXCEPT ![j] = row]
  BY <1>1 DEF ReleaseCleanup, TypeInv, JobsTyped
<1> QED
  BY <1>1, <1>3, <1>4, EndingIsTyped DEF ReleaseCleanup

LEMMA StopOrCleanTyped ==
    ASSUME TypeInv, NEW w \in Worker, StopOrClean(w)
    PROVE  TypeInv'
<1>1. CASE AbortInHandler(w) \/ CancelAbort(w) \/ CleanupAbort(w)
  BY <1>1, AbortingIsTyped DEF AbortInHandler, CancelAbort, CleanupAbort, At, Pc
<1>2. CASE CancelRefused(w)
  BY <1>2, RunRaises DEF CancelRefused, At
<1>3. CASE CleanupRefused(w)
  BY <1>3, MovingIsTyped DEF CleanupRefused, At, Pc
<1> QED
  BY <1>1, <1>2, <1>3, StoreFailTyped, CancelTyped, CleanupFailTyped, ReleaseCleanupTyped
     DEF StopOrClean

-----------------------------------------------------------------------------
(* Finalization *)

LEMMA StartFinalizationTyped ==
    ASSUME TypeInv, NEW w \in Worker, StartFinalization(w)
    PROVE  TypeInv'
<1> DEFINE j == run[w].job
           row == [job[j] EXCEPT !.phase = "finalizing"]
<1>1. j \in Job
  BY RunHasJob DEF TypeInv, StartFinalization, At
<1>2. row \in JobRow
  <2>1. job[j] \in JobRow
    BY <1>1 DEF TypeInv, JobsTyped
  <2> QED
    BY <2>1 DEF JobRow, JobPhase
<1>3. job' = [job EXCEPT ![j] = row]
  BY <1>1 DEF StartFinalization, TypeInv, JobsTyped
<1>4. RunsTyped'
  <2> DEFINE r == [run[w] EXCEPT !.pc = "inventory", !.timed = TRUE]
  <2>1. r \in RunState /\ RunShape(r)
    <3>1. run[w] \in RunState /\ "inventory" \in Pc
      BY DEF TypeInv, RunsTyped, Pc
    <3>2. r \in RunState
      BY <3>1 DEF RunState
    <3>3. r.pc = "inventory" /\ r.job = j
      BY <3>1 DEF RunState
    <3> QED
      BY <1>1, <3>2, <3>3 DEF RunShape
  <2>2. run' = [run EXCEPT ![w] = r]
    BY DEF StartFinalization, TypeInv, RunsTyped
  <2> QED
    BY <2>1, <2>2, RunMoves DEF TypeInv
<1> QED
  BY <1>1, <1>2, <1>3, <1>4
     DEF StartFinalization, TypeInv, JobsTyped, ItemsTyped, SnapshotsTyped, BudgetTyped

LEMMA BlockingIsTyped ==
    ASSUME TypeInv, NEW w \in Worker, ~At(w, "idle"), NEW why \in BlockReason,
           Blocking(w, why), UNCHANGED <<job, item, snapshot, budget>>
    PROVE  TypeInv'
BY RunBlocks DEF TypeInv, JobsTyped, ItemsTyped, SnapshotsTyped, BudgetTyped

LEMMA InventoryTyped ==
    ASSUME TypeInv, NEW w \in Worker, Inventory(w)
    PROVE  TypeInv'
<1> DEFINE j == run[w].job
<1>1. CASE Blocking(w, Refusal(j))
  <2>1. Refusal(j) \in BlockReason
    BY DEF Refusal, BlockReason
  <2> QED
    BY <1>1, <2>1, BlockingIsTyped DEF Inventory, At
<1>2. CASE Goto(w, HandlerPc(j))
  BY <1>2, HandlerIsPc, MovingIsTyped DEF Inventory, At
<1>3. CASE Goto(w, IF j \in Production THEN "cancelAbort" ELSE "cancelStore")
  BY <1>3, MovingIsTyped DEF Inventory, At, Pc
<1>4. CASE Goto(w, IF j \in Production THEN "publish" ELSE "record")
  BY <1>4, MovingIsTyped DEF Inventory, At, Pc
<1> QED
  BY <1>1, <1>2, <1>3, <1>4 DEF Inventory

LEMMA PublishStagedSyncTyped ==
    ASSUME TypeInv, NEW w \in Worker, PublishStagedSync(w)
    PROVE  TypeInv'
<1>1. SnapshotsTyped'
  BY DEF PublishStagedSync, TypeInv, SnapshotsTyped, SnapshotStatus
<1>2. RunsTyped'
  BY RunGoesTo DEF PublishStagedSync, TypeInv, At, Pc
<1> QED
  BY <1>1, <1>2 DEF PublishStagedSync, TypeInv, JobsTyped, ItemsTyped, BudgetTyped

LEMMA PublishRaisesTyped ==
    ASSUME TypeInv, NEW w \in Worker, PublishRaises(w)
    PROVE  TypeInv'
<1>1. SnapshotsTyped'
  BY DEF PublishRaises, TypeInv, SnapshotsTyped, SnapshotStatus
<1>2. RunsTyped'
  BY RunBlocks DEF PublishRaises, TypeInv, At, BlockReason
<1> QED
  BY <1>1, <1>2 DEF PublishRaises, TypeInv, JobsTyped, ItemsTyped, BudgetTyped

LEMMA BlockTyped ==
    ASSUME TypeInv, NEW w \in Worker, Block(w)
    PROVE  TypeInv'
<1> DEFINE j == run[w].job
<1>1. j \in Job
  BY RunHasJob DEF TypeInv, Block, At
<1>2. run[w].why \in BlockReason
  BY DEF TypeInv, RunsTyped, RunState
<1>3. Blocked(job[j], run[w].why) \in JobRow
  BY <1>1, <1>2, BlockedJob DEF TypeInv, JobsTyped
<1>4. job' = [job EXCEPT ![j] = Blocked(job[j], run[w].why)]
  BY <1>1 DEF Block, TypeInv, JobsTyped
<1> QED
  BY <1>1, <1>3, <1>4, EndingIsTyped DEF Block

LEMMA CompleteTyped ==
    ASSUME TypeInv, NEW w \in Worker, Complete(w)
    PROVE  TypeInv'
<1> DEFINE j == run[w].job
           ok == j \in Production \/ PagesIn(j, {"failed"}) = {}
           row == [Released(job[j]) EXCEPT
                     !.status = IF ok THEN "succeeded" ELSE "failed",
                     !.phase = "completed",
                     !.publication = IF j \in Production THEN "published" ELSE "not_requested",
                     !.activeSite = FALSE]
<1>1. j \in Job
  BY RunHasJob DEF TypeInv, Complete, At
<1>2. Released(job[j]) \in JobRow
  BY <1>1, ReleasedJob DEF TypeInv, JobsTyped
<1>3. row \in JobRow
  <2> DEFINE status == IF ok THEN "succeeded" ELSE "failed"
             publication == IF j \in Production THEN "published" ELSE "not_requested"
  <2>1. status \in Terminal /\ publication \in PublicationStatus
    BY DEF PublicationStatus, Terminal
  <2>2. [Released(job[j]) EXCEPT !.status = status, !.phase = "completed",
          !.publication = publication, !.activeSite = FALSE] \in JobRow
    BY <1>2, <2>1, EndedJobRow
  <2> QED
    BY <2>2
<1>4. job' = [job EXCEPT ![j] = row]
  BY <1>1 DEF Complete, TypeInv, JobsTyped
<1> QED
  BY <1>1, <1>3, <1>4, EndingIsTyped DEF Complete

LEMMA FinalizeTyped ==
    ASSUME TypeInv, NEW w \in Worker, Finalize(w)
    PROVE  TypeInv'
<1>1. CASE FinalizationRefused(w)
  <2>1. CASE Raise(w)
    BY <1>1, <2>1, RunRaises DEF FinalizationRefused, At
  <2>2. CASE Leave(w) /\ UNCHANGED <<job, item, snapshot, budget>>
    BY <2>2, LeavingIsTyped
  <2>3. CASE At(w, "record") /\ Goto(w, "storeFail") /\ UNCHANGED <<job, item, snapshot, budget>>
    BY <2>3, MovingIsTyped DEF At, Pc
  <2> QED
    BY <1>1, <2>1, <2>2, <2>3 DEF FinalizationRefused
<1> QED
  BY <1>1, StartFinalizationTyped, InventoryTyped, PublishStagedSyncTyped, PublishRaisesTyped,
     BlockTyped, CompleteTyped DEF Finalize

-----------------------------------------------------------------------------
(* Interruptions and time *)

LEMMA InterruptedBudget ==
    ASSUME BudgetTyped,
           \/ /\ budget.interruptions < MaxInterruptions
              /\ budget' = [budget EXCEPT !.interruptions = @ + 1]
           \/ /\ budget.faults < MaxFaults
              /\ budget' = [budget EXCEPT !.faults = @ + 1]
    PROVE  BudgetTyped'
BY ConstantsAssumption DEF BudgetTyped

LEMMA DisturbanceTyped ==
    ASSUME TypeInv, NEW w \in Worker, Disturbance(w)
    PROVE  TypeInv'
<1>1. CASE HeartbeatStops(w)
  <2> DEFINE r == [run[w] EXCEPT !.lost = TRUE]
  <2>1. r \in RunState /\ RunShape(r)
    BY DEF TypeInv, RunsTyped, RunState, RunShape
  <2>2. run' = [run EXCEPT ![w] = r]
    BY <1>1 DEF HeartbeatStops, TypeInv, RunsTyped
  <2>3. RunsTyped' /\ BudgetTyped'
    BY <1>1, <2>1, <2>2, RunMoves, InterruptedBudget DEF HeartbeatStops, TypeInv
  <2> QED
    BY <1>1, <2>3 DEF HeartbeatStops, TypeInv, JobsTyped, ItemsTyped, SnapshotsTyped
<1>2. CASE FinalizationTimeout(w)
  <2> DEFINE why == IF IdentityViolated(run[w].job) THEN "identity" ELSE "finalization"
             r == [run[w] EXCEPT !.pc = "block", !.timed = FALSE, !.why = why]
  <2>1. run[w].pc # "idle" /\ run[w] \in RunState /\ RunShape(run[w])
    BY <1>2 DEF FinalizationTimeout, At, TypeInv, RunsTyped
  <2>2. r \in RunState /\ RunShape(r)
    BY <2>1 DEF RunState, RunShape, Pc, BlockReason
  <2>3. run' = [run EXCEPT ![w] = r]
    BY <1>2 DEF FinalizationTimeout, TypeInv, RunsTyped
  <2>4. RunsTyped'
    BY <2>2, <2>3, RunMoves DEF TypeInv
  <2> QED
    BY <1>2, <2>4
       DEF FinalizationTimeout, TypeInv, JobsTyped, ItemsTyped, SnapshotsTyped, BudgetTyped
<1>3. CASE Crash(w)
  <2>1. RunsTyped' /\ BudgetTyped'
    BY <1>3, RunLeaves, InterruptedBudget DEF Crash, TypeInv
  <2> QED
    BY <1>3, <2>1 DEF Crash, TypeInv, JobsTyped, ItemsTyped, SnapshotsTyped
<1>4. CASE Fault(w)
  <2>1. BudgetTyped'
    BY <1>4, InterruptedBudget DEF Fault, TypeInv
  <2>2. Leave(w) \/ \E pc \in Pc \ {"begin", "loop", "promote", "batch"} : Goto(w, pc)
    BY <1>4, HandlerIsPc DEF Fault, Pc
  <2>3. RunsTyped'
    BY <1>4, <2>2, RunLeaves, RunGoesTo DEF Fault, TypeInv
  <2> QED
    BY <1>4, <2>1, <2>3 DEF Fault, TypeInv, JobsTyped, ItemsTyped, SnapshotsTyped
<1> QED
  BY <1>1, <1>2, <1>3, <1>4 DEF Disturbance

\* Time touches one flag of one row.
LEMMA JobTicks ==
    ASSUME JobsTyped, NEW j \in Job,
           \/ job' = [job EXCEPT ![j].lease = "expired"]
           \/ job' = [job EXCEPT ![j].retention = "expired"]
           \/ job' = [job EXCEPT ![j].later = FALSE]
    PROVE  JobsTyped'
<1>1. job[j] \in JobRow
  BY DEF JobsTyped
<1>2. /\ [job[j] EXCEPT !.lease = "expired"] \in JobRow
      /\ [job[j] EXCEPT !.retention = "expired"] \in JobRow
      /\ [job[j] EXCEPT !.later = FALSE] \in JobRow
  BY <1>1 DEF JobRow, Window
<1>3. \E row \in JobRow : job' = [job EXCEPT ![j] = row]
  BY <1>2 DEF JobsTyped
<1> QED
  BY <1>3 DEF JobsTyped

LEMMA PageTicks ==
    ASSUME ItemsTyped, NEW j \in Job, NEW i \in Item,
           \/ item' = [item EXCEPT ![j][i].lease = "expired"]
           \/ item' = [item EXCEPT ![j][i].waiting = FALSE]
    PROVE  ItemsTyped'
<1>1. item[j][i] \in PageRow
  BY DEF ItemsTyped
<1>2. /\ [item[j][i] EXCEPT !.lease = "expired"] \in PageRow
      /\ [item[j][i] EXCEPT !.waiting = FALSE] \in PageRow
  BY <1>1 DEF PageRow, Window
<1>3. \E row \in PageRow : item' = [item EXCEPT ![j] = [item[j] EXCEPT ![i] = row]]
  BY <1>2 DEF ItemsTyped
<1> QED
  BY <1>3 DEF ItemsTyped

LEMMA TimePassesTyped ==
    ASSUME TypeInv, TimePasses
    PROVE  TypeInv'
<1>1. PICK j \in Job : \/ LeaseExpires(j)
                       \/ RetentionExpires(j)
                       \/ BackoffElapses(j)
                       \/ \E i \in Item : ItemLeaseExpires(j, i) \/ ItemDue(j, i)
  BY DEF TimePasses
<1>2. CASE LeaseExpires(j) \/ RetentionExpires(j) \/ BackoffElapses(j)
  BY <1>2, JobTicks DEF LeaseExpires, RetentionExpires, BackoffElapses, TypeInv, ItemsTyped,
                        SnapshotsTyped, RunsTyped, BudgetTyped
<1>3. CASE \E i \in Item : ItemLeaseExpires(j, i) \/ ItemDue(j, i)
  BY <1>3, PageTicks DEF ItemLeaseExpires, ItemDue, TypeInv, JobsTyped,
                         SnapshotsTyped, RunsTyped, BudgetTyped
<1> QED
  BY <1>1, <1>2, <1>3

-----------------------------------------------------------------------------
LEMMA NextTyped ==
    ASSUME TypeInv, [Next]_vars
    PROVE  TypeInv'
<1>1. CASE UNCHANGED vars
  BY <1>1 DEF vars, TypeInv, JobsTyped, ItemsTyped, SnapshotsTyped, RunsTyped, BudgetTyped
<1>2. CASE Operator
  BY <1>2, EnqueueTyped, RequestCancelTyped, RetryBlockedTyped, ReconcileTyped DEF Operator
<1>3. CASE \E w \in Worker : WorkerStep(w) \/ Disturbance(w)
  <2>1. PICK w \in Worker : WorkerStep(w) \/ Disturbance(w)
    BY <1>3
  <2>2. CASE LeaveLost(w)
    BY <2>2, LeavingIsTyped DEF LeaveLost
  <2> QED
    BY <2>1, <2>2, ClaimNextTyped, ClaimNothingTyped, PrepareTyped, ProcessPagesTyped,
       FinalizeTyped, StopOrCleanTyped, DisturbanceTyped DEF WorkerStep, Claim
<1> QED
  BY <1>1, <1>2, <1>3, TimePassesTyped DEF Next

\* Every row and every run stays in its declared domain, for any number of jobs,
\* sites, workers and pages.
THEOREM TypeCorrect == Spec => []TypeOK
<1>1. Spec => []TypeInv
  BY InitTyped, NextTyped, PTL DEF Spec
<1> QED
  BY <1>1, TypeInvImpliesTypeOK, PTL

-----------------------------------------------------------------------------
(* Who holds the lease of a job *)

Waiting == {"absent", "queued", "blocked", "succeeded", "failed"}
Unleased(r) == r.status \in Waiting => r.owner = NoWorker /\ r.lease = "none"

LEMMA WaitingIsUnleased == WaitingJobsAreUnleased <=> \A j \in Job : Unleased(job[j])
BY DEF WaitingJobsAreUnleased, Unleased, Waiting

\* Counters never touch the lease; a release always clears it.
LEMMA CountingKeepsLease ==
    ASSUME NEW r \in JobRow, NEW s, NEW n
    PROVE  /\ Unleased(r) => Unleased(Counted(r, s, n)) /\ Unleased(Uncounted(r, s, n))
           /\ Counted(r, s, n).owner = r.owner /\ Counted(r, s, n).lease = r.lease
           /\ Uncounted(r, s, n).owner = r.owner /\ Uncounted(r, s, n).lease = r.lease
           /\ Uncounted(r, s, n).status = r.status /\ Counted(r, s, n).status = r.status
BY DEF Counted, Uncounted, Unleased, JobRow

\* A transaction on one job is harmless if the row it writes is.
LEMMA RowIsUnleased ==
    ASSUME JobsTyped, WaitingJobsAreUnleased, NEW j \in Job, NEW row, Unleased(row),
           job' = [job EXCEPT ![j] = row]
    PROVE  WaitingJobsAreUnleased'
<1>1. \A k \in Job : job'[k] = IF k = j THEN row ELSE job[k]
  BY DEF JobsTyped
<1> QED
  BY <1>1 DEF WaitingJobsAreUnleased, Unleased, Waiting

LEMMA SweptIsUnleased ==
    ASSUME NEW j \in Job, job[j] \in JobRow, Unleased(job[j])
    PROVE  Unleased(Swept(j))
<1> DEFINE r == Released(job[j])
<1>1. r \in JobRow /\ r.owner = NoWorker /\ r.lease = "none"
  BY ReleasedJob
<1> HIDE DEF r
<1>2. /\ Unleased([r EXCEPT !.status = "cleanup_pending", !.phase = "awaiting_remediation",
                            !.later = FALSE])
      /\ Unleased([r EXCEPT !.status = "failed", !.phase = "completed", !.activeSite = FALSE])
  BY <1>1 DEF Unleased, JobRow
<1> QED
  BY <1>2 DEF Swept, r

\* A claimed job is executing, so it is waiting for nothing.
LEMMA ClaimedIsBusy ==
    ASSUME NEW r \in JobRow, NEW w
    PROVE  Claimed(r, w).status \in {"preparing", "cleanup_pending", "running"}
<1> DEFINE status == IF r.status \in {"preparing", "cleanup_pending"} THEN r.status ELSE "running"
<1>1. LeasedTo(r, w).status = r.status
  BY DEF LeasedTo, JobRow
<1>2. Claimed(r, w).status = status
  BY <1>1 DEF Claimed, LeasedTo, JobRow
<1> QED
  BY <1>2

LEMMA OperatorKeepsUnleased ==
    ASSUME TypeInv, WaitingJobsAreUnleased, Operator
    PROVE  WaitingJobsAreUnleased'
<1> USE DEF TypeInv, JobsTyped
<1>1. PICK j \in Job : \/ Enqueue(j)
                       \/ RequestCancel(j)
                       \/ RetryBlocked(j)
                       \/ \E S \in SUBSET Item : ReconcileStaleVersions(j, S)
  BY DEF Operator
<1>2. job[j] \in JobRow /\ Unleased(job[j])
  BY WaitingIsUnleased
<1>3. CASE Enqueue(j)
  <2> DEFINE row == [job[j] EXCEPT !.status = "preparing", !.activeSite = TRUE,
                       !.publication = IF j \in Production THEN "pending" ELSE "not_requested"]
  <2>1. job' = [job EXCEPT ![j] = row]
    BY <1>2, <1>3 DEF Enqueue, JobRow
  <2>2. Unleased(row)
    BY <1>2 DEF Unleased, Waiting, JobRow
  <2> QED
    BY <2>1, <2>2, RowIsUnleased
<1>4. CASE RequestCancel(j)
  <2> DEFINE counted == Counted(job[j], "canceled", Cardinality(PagesIn(j, {"pending"})))
             canceled == [counted EXCEPT
                            !.status = "canceled", !.phase = "completed", !.cancel = TRUE,
                            !.activeSite = FALSE, !.publication = CanceledPublication(j)]
             marked == [job[j] EXCEPT !.cancel = TRUE]
  <2>1. CASE job' = [job EXCEPT ![j] = canceled]
    <3>1. canceled.status = "canceled"
      BY <1>2 DEF Counted, JobRow
    <3>2. Unleased(canceled)
      BY <3>1 DEF Unleased, Waiting
    <3> QED
      BY <2>1, <3>2, RowIsUnleased
  <2>2. CASE job' = [job EXCEPT ![j].cancel = TRUE]
    <3>1. job' = [job EXCEPT ![j] = marked]
      BY <1>2, <2>2 DEF JobRow
    <3>2. Unleased(marked)
      BY <1>2 DEF Unleased, JobRow
    <3> QED
      BY <3>1, <3>2, RowIsUnleased
  <2> QED
    BY <1>4, <2>1, <2>2 DEF RequestCancel
<1>5. CASE RetryBlocked(j)
  <2>1. PICK phase, n : job' = [job EXCEPT ![j] =
                 [Reopened(job[j], phase) EXCEPT !.completed = Monus(@, n), !.count["failed"] = 0]]
    BY <1>5 DEF RetryBlocked
  <2> DEFINE row == [Reopened(job[j], phase) EXCEPT !.completed = Monus(@, n),
                                                    !.count["failed"] = 0]
  <2>2. job[j].owner = NoWorker /\ job[j].lease = "none"
    BY <1>2, <1>5 DEF RetryBlocked, Unleased, Waiting
  <2>3. Unleased(row)
    BY <1>2, <2>2 DEF Unleased, Reopened, JobRow
  <2> QED
    BY <2>1, <2>3, RowIsUnleased
<1>6. CASE \E S \in SUBSET Item : ReconcileStaleVersions(j, S)
  <2>1. PICK m, n : job' = [job EXCEPT ![j] =
                 Uncounted(Uncounted(Reopened(@, "queued"), "succeeded", m), "not_modified", n)]
    BY <1>6 DEF ReconcileStaleVersions
  <2> DEFINE r == Reopened(job[j], "queued")
             row == Uncounted(Uncounted(r, "succeeded", m), "not_modified", n)
  <2>2. job[j].owner = NoWorker /\ job[j].lease = "none"
    BY <1>2, <1>6 DEF ReconcileStaleVersions, Unleased, Waiting
  <2>3. row.owner = NoWorker /\ row.lease = "none"
    BY <1>2, <2>2 DEF Reopened, Uncounted, JobRow
  <2>4. Unleased(row)
    BY <2>3 DEF Unleased
  <2>5. job' = [job EXCEPT ![j] = row]
    BY <1>2, <2>1
  <2> QED
    BY <2>4, <2>5, RowIsUnleased
<1> QED
  BY <1>1, <1>3, <1>4, <1>5, <1>6

LEMMA ClaimKeepsUnleased ==
    ASSUME TypeInv, WaitingJobsAreUnleased, NEW w \in Worker, Claim(w)
    PROVE  WaitingJobsAreUnleased'
<1>1. \A k \in Job : Swept(k) \in JobRow /\ Unleased(Swept(k))
  BY SweptJob, SweptIsUnleased, WaitingIsUnleased DEF TypeInv, JobsTyped
<1>2. CASE \E j \in Job : ClaimNext(w, j)
  <2>1. PICK j \in Job : ClaimNext(w, j)
    BY <1>2
  <2>2. Unleased(Claimed(Swept(j), w))
    BY <1>1, ClaimedIsBusy DEF Unleased, Waiting
  <2>3. \A k \in Job : Unleased(job'[k])
    BY <1>1, <2>1, <2>2 DEF ClaimNext
  <2> QED
    BY <2>3 DEF WaitingJobsAreUnleased, Unleased, Waiting
<1>3. CASE ClaimNothing(w)
  <2>1. \A k \in Job : Unleased(job'[k])
    BY <1>1, <1>3 DEF ClaimNothing
  <2> QED
    BY <2>1 DEF WaitingJobsAreUnleased, Unleased, Waiting
<1> QED
  BY <1>2, <1>3 DEF Claim

\* A row written after a release is unleased, whatever else it changes.
LEMMA ReleasedIsUnleased ==
    ASSUME NEW r \in JobRow, NEW a, NEW b, NEW c, NEW d, NEW e
    PROVE  /\ Unleased(Released(r))
           /\ Unleased([Released(r) EXCEPT !.status = a, !.phase = b])
           /\ Unleased([Released(r) EXCEPT !.status = a, !.phase = b, !.failures = c])
           /\ Unleased([Released(r) EXCEPT !.status = a, !.phase = b, !.publication = c,
                                           !.activeSite = d])
           /\ Unleased([Released(r) EXCEPT !.status = a, !.phase = b, !.publication = c,
                                           !.report = d, !.retention = e])
           /\ Unleased([Released(r) EXCEPT !.later = a])
<1> DEFINE q == Released(r)
<1>1. q \in JobRow /\ q.owner = NoWorker /\ q.lease = "none"
  BY ReleasedJob
<1> HIDE DEF q
<1>2. /\ Unleased(q)
      /\ Unleased([q EXCEPT !.status = a, !.phase = b])
      /\ Unleased([q EXCEPT !.status = a, !.phase = b, !.failures = c])
      /\ Unleased([q EXCEPT !.status = a, !.phase = b, !.publication = c, !.activeSite = d])
      /\ Unleased([q EXCEPT !.status = a, !.phase = b, !.publication = c, !.report = d,
                            !.retention = e])
      /\ Unleased([q EXCEPT !.later = a])
  BY <1>1 DEF Unleased, JobRow
<1> QED
  BY <1>2 DEF q

LEMMA PrepareKeepsUnleased ==
    ASSUME TypeInv, WaitingJobsAreUnleased, NEW w \in Worker, Prepare(w)
    PROVE  WaitingJobsAreUnleased'
<1> DEFINE j == run[w].job
<1>1. CASE UNCHANGED job
  BY <1>1 DEF WaitingJobsAreUnleased
<1>2. ASSUME ~At(w, "idle") PROVE j \in Job /\ job[j] \in JobRow /\ Unleased(job[j])
  BY <1>2, RunHasJob, WaitingIsUnleased DEF TypeInv, JobsTyped
<1>3. CASE ApplyDuplicatePolicy(w)
  <2> DEFINE counted == Counted(job[j], "excluded", Cardinality(Loser \cap PagesIn(j, {"pending"})))
             row == [counted EXCEPT !.elected = TRUE]
  <2>1. j \in Job /\ job[j] \in JobRow /\ Unleased(job[j])
    BY <1>2, <1>3 DEF ApplyDuplicatePolicy, At
  <2>2. Unleased(row)
    BY <2>1 DEF Counted, Unleased, JobRow
  <2>3. job' = [job EXCEPT ![j] = row]
    BY <2>1, <1>3 DEF ApplyDuplicatePolicy, TypeInv, JobsTyped
  <2> QED
    BY <2>1, <2>2, <2>3, RowIsUnleased DEF TypeInv
<1>4. CASE YieldPreparation(w)
  <2>1. j \in Job /\ job[j] \in JobRow
    BY <1>2, <1>4 DEF YieldPreparation, At
  <2>2. job' = [job EXCEPT ![j] = Released(job[j])]
    BY <2>1, <1>4 DEF YieldPreparation, TypeInv, JobsTyped
  <2> QED
    BY <2>1, <2>2, ReleasedIsUnleased, RowIsUnleased DEF TypeInv
<1>5. CASE FinishPreparation(w)
  <2>1. j \in Job /\ job[j] \in JobRow
    BY <1>2, <1>5 DEF FinishPreparation, At
  <2>2. job' = [job EXCEPT ![j] = [Released(job[j]) EXCEPT !.status = "queued",
                                     !.phase = "queued", !.failures = 0]]
    BY <2>1, <1>5 DEF FinishPreparation, TypeInv, JobsTyped
  <2>3. Unleased([Released(job[j]) EXCEPT !.status = "queued", !.phase = "queued", !.failures = 0])
    BY <2>1, ReleasedIsUnleased
  <2> QED
    BY <2>1, <2>2, <2>3, RowIsUnleased DEF TypeInv
<1> QED
  BY <1>1, <1>3, <1>4, <1>5 DEF Prepare, AppendPreparedItem, PreparationRefused

LEMMA ProcessPagesKeepsUnleased ==
    ASSUME TypeInv, WaitingJobsAreUnleased, NEW w \in Worker, ProcessPages(w)
    PROVE  WaitingJobsAreUnleased'
<1> DEFINE j == run[w].job
<1>1. CASE UNCHANGED job
  BY <1>1 DEF WaitingJobsAreUnleased
<1>2. ASSUME ~At(w, "idle") PROVE j \in Job /\ job[j] \in JobRow /\ Unleased(job[j])
  BY <1>2, RunHasJob, WaitingIsUnleased DEF TypeInv, JobsTyped
<1>3. ASSUME ~At(w, "idle"), NEW s, NEW n,
             \/ job' = [job EXCEPT ![j] = Counted(@, s, n)]
             \/ job' = [job EXCEPT ![j] = Uncounted(@, s, n)]
      PROVE  WaitingJobsAreUnleased'
  BY <1>2, <1>3, CountingKeepsLease, RowIsUnleased DEF TypeInv, JobsTyped
<1>4. CASE \E i \in Item : ClaimNextItem(w, i)
  BY <1>3, <1>4 DEF ClaimNextItem, SweptCounts, At
<1>5. CASE ClaimNoItem(w)
  BY <1>3, <1>5 DEF ClaimNoItem, SweptCounts, At
<1>6. CASE \E i \in Item, status \in {"succeeded", "not_modified", "excluded"} :
              CompleteItem(w, i, status)
  BY <1>3, <1>6 DEF CompleteItem, At
<1>7. CASE \E i \in Item, retryable \in BOOLEAN : FailItem(w, i, retryable)
  BY <1>1, <1>3, <1>7 DEF FailItem, At
<1>8. CASE PromoteDuplicateFallbacks(w)
  BY <1>3, <1>8 DEF PromoteDuplicateFallbacks, At
<1>9. CASE RequeueIncomplete(w)
  <2>1. j \in Job /\ job[j] \in JobRow
    BY <1>2, <1>9 DEF RequeueIncomplete, At
  <2>2. job' = [job EXCEPT ![j] = [Released(job[j]) EXCEPT !.status = "queued", !.phase = "queued"]]
    BY <2>1, <1>9 DEF RequeueIncomplete, TypeInv, JobsTyped
  <2> QED
    BY <2>1, <2>2, ReleasedIsUnleased, RowIsUnleased DEF TypeInv
<1> QED
  BY <1>1, <1>4, <1>5, <1>6, <1>7, <1>8, <1>9
     DEF ProcessPages, BeginStagedSync, LoopHead, BatchRefused, EndBatch, LoopRefused, Raise

LEMMA AbortKeepsUnleased ==
    ASSUME TypeInv, WaitingJobsAreUnleased, NEW j \in Job, Abort(j)
    PROVE  WaitingJobsAreUnleased'
<1> DEFINE counted == Uncounted(job[j], "succeeded", Cardinality(Discarded(j)))
           blocked == [counted EXCEPT !.status = "blocked", !.phase = "awaiting_remediation",
                                      !.publication = "pending", !.report = "stale"]
<1>1. job[j] \in JobRow /\ Unleased(job[j])
  BY WaitingIsUnleased DEF TypeInv, JobsTyped
<1>2. Unleased(counted)
  BY <1>1, CountingKeepsLease
<1>3. job[j].status = "succeeded" => Unleased(blocked)
  BY <1>1 DEF Unleased, Waiting, Uncounted, JobRow
<1>4. \/ Invalidated(j) = counted
      \/ Invalidated(j) = blocked /\ job[j].status = "succeeded"
  BY DEF Invalidated
<1>5. Unleased(Invalidated(j))
  BY <1>2, <1>3, <1>4
<1> QED
  BY <1>5, RowIsUnleased DEF Abort, TypeInv

LEMMA StopOrCleanKeepsUnleased ==
    ASSUME TypeInv, WaitingJobsAreUnleased, NEW w \in Worker, StopOrClean(w)
    PROVE  WaitingJobsAreUnleased'
<1> DEFINE j == run[w].job
<1>1. CASE UNCHANGED job
  BY <1>1 DEF WaitingJobsAreUnleased
<1>2. j \in Job /\ job[j] \in JobRow /\ Unleased(job[j])
  <2>1. ~At(w, "idle")
    BY DEF StopOrClean, AbortInHandler, StoreFail, CancelAbort, Cancel, CancelRefused,
           CleanupAbort, CleanupFail, ReleaseCleanup, CleanupRefused, At
  <2> QED
    BY <2>1, RunHasJob, WaitingIsUnleased DEF TypeInv, JobsTyped
<1>3. CASE Abort(j)
  BY <1>2, <1>3, AbortKeepsUnleased
<1>4. CASE job' = [job EXCEPT ![j] = Failed(j)]
  <2>1. Unleased(Failed(j))
    BY <1>2, ReleasedIsUnleased DEF Failed
  <2> QED
    BY <1>2, <1>4, <2>1, RowIsUnleased DEF TypeInv
<1>5. CASE Cancel(w)
  <2> DEFINE counted == Counted(Released(job[j]), "canceled",
                                Cardinality(PagesIn(j, {"pending", "fetching"})))
             row == [counted EXCEPT !.status = "canceled", !.phase = "completed",
                       !.activeSite = FALSE, !.publication = CanceledPublication(j)]
  <2>1. Released(job[j]) \in JobRow
    BY <1>2, ReleasedJob
  <2>2. row.status = "canceled"
    BY <2>1 DEF Counted, JobRow
  <2>3. Unleased(row)
    BY <2>2 DEF Unleased, Waiting
  <2>4. job' = [job EXCEPT ![j] = row]
    BY <1>5 DEF Cancel
  <2> QED
    BY <1>2, <2>3, <2>4, RowIsUnleased DEF TypeInv
<1>6. CASE ReleaseCleanup(w)
  <2>1. job' = [job EXCEPT ![j] = [Released(job[j]) EXCEPT !.later = TRUE]]
    BY <1>2, <1>6 DEF ReleaseCleanup, TypeInv, JobsTyped
  <2>2. Unleased([Released(job[j]) EXCEPT !.later = TRUE])
    BY <1>2, ReleasedIsUnleased
  <2> QED
    BY <1>2, <2>1, <2>2, RowIsUnleased DEF TypeInv
<1> QED
  BY <1>1, <1>3, <1>4, <1>5, <1>6
     DEF StopOrClean, AbortInHandler, StoreFail, CancelAbort, CancelRefused, CleanupAbort,
         CleanupFail, CleanupRefused, Raise

LEMMA FinalizeKeepsUnleased ==
    ASSUME TypeInv, WaitingJobsAreUnleased, NEW w \in Worker, Finalize(w)
    PROVE  WaitingJobsAreUnleased'
<1> DEFINE j == run[w].job
<1>1. CASE UNCHANGED job
  BY <1>1 DEF WaitingJobsAreUnleased
<1>2. ASSUME ~At(w, "idle") PROVE j \in Job /\ job[j] \in JobRow /\ Unleased(job[j])
  BY <1>2, RunHasJob, WaitingIsUnleased DEF TypeInv, JobsTyped
<1>3. CASE StartFinalization(w)
  <2> DEFINE row == [job[j] EXCEPT !.phase = "finalizing"]
  <2>1. j \in Job /\ job[j] \in JobRow /\ Unleased(job[j])
    BY <1>2, <1>3 DEF StartFinalization, At
  <2>2. Unleased(row)
    BY <2>1 DEF Unleased, JobRow
  <2>3. job' = [job EXCEPT ![j] = row]
    BY <2>1, <1>3 DEF StartFinalization, TypeInv, JobsTyped, JobRow
  <2> QED
    BY <2>1, <2>2, <2>3, RowIsUnleased DEF TypeInv
<1>4. CASE Block(w)
  <2>1. j \in Job /\ job[j] \in JobRow
    BY <1>2, <1>4 DEF Block, At
  <2>2. job' = [job EXCEPT ![j] = Blocked(job[j], run[w].why)]
    BY <2>1, <1>4 DEF Block, TypeInv, JobsTyped
  <2>3. Unleased(Blocked(job[j], run[w].why))
    BY <2>1, ReleasedIsUnleased DEF Blocked
  <2> QED
    BY <2>1, <2>2, <2>3, RowIsUnleased DEF TypeInv
<1>5. CASE Complete(w)
  <2>1. j \in Job /\ job[j] \in JobRow
    BY <1>2, <1>5 DEF Complete, At
  <2>2. PICK status, publication :
           job' = [job EXCEPT ![j] = [Released(@) EXCEPT
                     !.status = status, !.phase = "completed",
                     !.publication = publication, !.activeSite = FALSE]]
    BY <1>5 DEF Complete
  <2> DEFINE row == [Released(job[j]) EXCEPT !.status = status, !.phase = "completed",
                                             !.publication = publication, !.activeSite = FALSE]
  <2>3. job' = [job EXCEPT ![j] = row]
    BY <2>1, <2>2 DEF TypeInv, JobsTyped
  <2>4. Unleased(row)
    BY <2>1, ReleasedIsUnleased
  <2> QED
    BY <2>1, <2>3, <2>4, RowIsUnleased DEF TypeInv
<1> QED
  BY <1>1, <1>3, <1>4, <1>5
     DEF Finalize, Inventory, PublishStagedSync, PublishRaises, FinalizationRefused, Raise

LEMMA TimeKeepsUnleased ==
    ASSUME TypeInv, WaitingJobsAreUnleased, TimePasses
    PROVE  WaitingJobsAreUnleased'
<1>1. CASE UNCHANGED job
  BY <1>1 DEF WaitingJobsAreUnleased
<1>2. ASSUME NEW j \in Job, LeaseExpires(j) \/ RetentionExpires(j) \/ BackoffElapses(j)
      PROVE  WaitingJobsAreUnleased'
  <2>1. job[j] \in JobRow /\ Unleased(job[j])
    BY WaitingIsUnleased DEF TypeInv, JobsTyped
  <2>2. /\ job[j].lease = "live" => Unleased([job[j] EXCEPT !.lease = "expired"])
        /\ Unleased([job[j] EXCEPT !.retention = "expired"])
        /\ Unleased([job[j] EXCEPT !.later = FALSE])
    BY <2>1 DEF Unleased, JobRow
  <2>3. \E row : Unleased(row) /\ job' = [job EXCEPT ![j] = row]
    BY <1>2, <2>1, <2>2
       DEF LeaseExpires, RetentionExpires, BackoffElapses, TypeInv, JobsTyped, JobRow
  <2> QED
    BY <2>3, RowIsUnleased DEF TypeInv
<1> QED
  BY <1>1, <1>2 DEF TimePasses, ItemLeaseExpires, ItemDue

LEMMA NextKeepsUnleased ==
    ASSUME TypeInv, WaitingJobsAreUnleased, [Next]_vars
    PROVE  WaitingJobsAreUnleased'
<1>1. CASE UNCHANGED job
  BY <1>1 DEF WaitingJobsAreUnleased
<1>2. CASE \E w \in Worker : WorkerStep(w) \/ Disturbance(w)
  BY <1>1, <1>2, ClaimKeepsUnleased, PrepareKeepsUnleased, ProcessPagesKeepsUnleased,
     FinalizeKeepsUnleased, StopOrCleanKeepsUnleased
     DEF WorkerStep, LeaveLost, Disturbance, HeartbeatStops, FinalizationTimeout, Fault, Crash
<1> QED
  BY <1>1, <1>2, OperatorKeepsUnleased, TimeKeepsUnleased DEF Next, vars

\* A job that waits for a worker, for remediation or for nothing any more is
\* leased to nobody, whatever the interleaving of claims, expiries, cancels,
\* blocks, retries and aborts of any number of workers.
THEOREM WaitingJobsStayUnleased == Spec => []WaitingJobsAreUnleased
<1>1. Init => WaitingJobsAreUnleased
  BY DEF Init, WaitingJobsAreUnleased, NoRow
<1>2. TypeInv /\ WaitingJobsAreUnleased /\ [Next]_vars
         => TypeInv' /\ WaitingJobsAreUnleased'
  BY NextTyped, NextKeepsUnleased
<1> QED
  BY <1>1, <1>2, InitTyped, PTL DEF Spec

-----------------------------------------------------------------------------
(* The counters of a job and its page rows *)

Having(p, S) == {i \in Item : p[i].status \in S}

\* The page statuses a counter stands for.
ClassOf(s) == IF s = "excluded" THEN {"excluded", "duplicate"} ELSE {s}

RowCounts(r, p) ==
    /\ r.completed = Cardinality(Having(p, PageDone))
    /\ \A s \in CountedStatus : r.count[s] = Cardinality(Having(p, ClassOf(s)))

CountInv == \A j \in Job : RowCounts(job[j], item[j])

\* A page that neither ends nor is reopened.
Steady(x, y) == x.status = y.status \/ (x.status \notin PageDone /\ y.status \notin PageDone)

LEMMA CountInvIsCountersMatchPages == CountInv <=> CountersMatchPages
<1>1. \A j, S : PagesIn(j, S) = Having(item[j], S)
  BY DEF PagesIn, Having
<1>2. /\ "excluded" \in CountedStatus
      /\ ClassOf("excluded") = {"excluded", "duplicate"}
      /\ \A s \in CountedStatus \ {"excluded"} : ClassOf(s) = {s}
  BY DEF ClassOf, CountedStatus
<1>3. ASSUME NEW j \in Job
      PROVE  RowCounts(job[j], item[j]) <=>
                /\ job[j].completed = Cardinality(PagesIn(j, PageDone))
                /\ job[j].count["excluded"] = Cardinality(PagesIn(j, {"excluded", "duplicate"}))
                /\ \A s \in CountedStatus \ {"excluded"} :
                      job[j].count[s] = Cardinality(PagesIn(j, {s}))
  <2>1. RowCounts(job[j], item[j]) <=>
                /\ job[j].completed = Cardinality(PagesIn(j, PageDone))
                /\ \A s \in CountedStatus : job[j].count[s] = Cardinality(PagesIn(j, ClassOf(s)))
    BY <1>1 DEF RowCounts
  <2> QED
    BY <1>2, <2>1
<1> QED
  BY <1>3 DEF CountersMatchPages, CountInv

\* Disjoint pages add up, pages taken out of a set are subtracted from it.
LEMMA PagesAdded ==
    ASSUME NEW H, H \subseteq Item, NEW M, M \subseteq Item, H \cap M = {}
    PROVE  Cardinality(H \cup M) = Cardinality(H) + Cardinality(M)
<1>1. IsFiniteSet(H) /\ IsFiniteSet(M)
  BY FinitePages, FS_Subset
<1>2. Cardinality(H \cup M) = Cardinality(H) + Cardinality(M) - Cardinality(H \cap M)
  BY <1>1, FS_Union
<1>3. Cardinality(H \cap M) = 0
  BY FS_EmptySet
<1>4. Cardinality(H) \in Nat /\ Cardinality(M) \in Nat
  BY CountPages
<1> QED
  BY <1>2, <1>3, <1>4

LEMMA PagesRemoved ==
    ASSUME NEW H, H \subseteq Item, NEW M, M \subseteq H
    PROVE  Monus(Cardinality(H), Cardinality(M)) = Cardinality(H \ M)
<1>1. IsFiniteSet(H) /\ Cardinality(M) <= Cardinality(H)
  BY FinitePages, FS_Subset
<1>2. Cardinality(H \ M) = Cardinality(H) - Cardinality(H \cap M)
  BY <1>1, FS_Difference
<1>3. H \cap M = M
  OBVIOUS
<1>4. Cardinality(H) \in Nat /\ Cardinality(M) \in Nat
  BY CountPages
<1>5. \A a, b \in Nat : b <= a => Monus(a, b) = a - b
  BY DEF Monus
<1>6. Cardinality(H \ M) = Cardinality(H) - Cardinality(M)
  BY <1>2, <1>3
<1> QED
  BY <1>1, <1>4, <1>5, <1>6

\* Counting touches one counter and the total.
LEMMA CountedFields ==
    ASSUME NEW r \in JobRow, NEW s \in CountedStatus, NEW n
    PROVE  /\ Counted(r, s, n).completed = r.completed + n
           /\ Uncounted(r, s, n).completed = Monus(r.completed, n)
           /\ \A t \in CountedStatus :
                /\ Counted(r, s, n).count[t] = IF t = s THEN r.count[t] + n ELSE r.count[t]
                /\ Uncounted(r, s, n).count[t] =
                     IF t = s THEN Monus(r.count[t], n) ELSE r.count[t]
BY DEF Counted, Uncounted, JobRow

LEMMA ClassesAreDisjoint ==
    /\ \A s \in CountedStatus : ClassOf(s) \subseteq PageDone
    /\ \A s, t \in CountedStatus : s # t => ClassOf(s) \cap ClassOf(t) = {}
BY DEF ClassOf, CountedStatus, PageDone

\* Pages M end with a status of class s.
LEMMA EndedPagesCount ==
    ASSUME NEW r \in JobRow, NEW p, NEW q, RowCounts(r, p),
           NEW s \in CountedStatus, NEW M, M \subseteq Item,
           \A i \in M : p[i].status \notin PageDone /\ q[i].status \in ClassOf(s),
           \A i \in Item \ M : Steady(p[i], q[i])
    PROVE  RowCounts(Counted(r, s, Cardinality(M)), q)
<1> DEFINE n == Cardinality(M)
<1>1. \A S : Having(p, S) \subseteq Item
  BY DEF Having
<1>2. \A t \in CountedStatus : ClassOf(t) \subseteq PageDone
  BY ClassesAreDisjoint
<1>4. ASSUME NEW S, S \subseteq PageDone, ClassOf(s) \subseteq S
      PROVE  Cardinality(Having(q, S)) = Cardinality(Having(p, S)) + n
  <2>1. Having(q, S) = Having(p, S) \cup M
    BY <1>4 DEF Having, Steady
  <2>2. Having(p, S) \cap M = {}
    BY <1>4 DEF Having, Steady
  <2> QED
    BY <1>1, <2>1, <2>2, PagesAdded
<1>5. ASSUME NEW S, S \subseteq PageDone, ClassOf(s) \cap S = {}
      PROVE  Having(q, S) = Having(p, S)
  BY <1>5 DEF Having, Steady
<1>6. Counted(r, s, n).completed = Cardinality(Having(q, PageDone))
  BY <1>2, <1>4, CountedFields DEF RowCounts
<1>7. ASSUME NEW t \in CountedStatus
      PROVE  Counted(r, s, n).count[t] = Cardinality(Having(q, ClassOf(t)))
  <2>1. CASE t = s
    BY <1>2, <1>4, <2>1, CountedFields DEF RowCounts
  <2>2. CASE t # s
    <3>1. ClassOf(s) \cap ClassOf(t) = {}
      BY <2>2, ClassesAreDisjoint
    <3> QED
      BY <1>2, <1>5, <2>2, <3>1, CountedFields DEF RowCounts
  <2> QED
    BY <2>1, <2>2
<1> QED
  BY <1>6, <1>7 DEF RowCounts

\* Pages M with a status of class s are reopened.
LEMMA ReopenedPagesCount ==
    ASSUME NEW r \in JobRow, NEW p, NEW q, RowCounts(r, p),
           NEW s \in CountedStatus, NEW M, M \subseteq Item,
           \A i \in M : p[i].status \in ClassOf(s) /\ q[i].status \notin PageDone,
           \A i \in Item \ M : q[i].status = p[i].status
    PROVE  RowCounts(Uncounted(r, s, Cardinality(M)), q)
<1> DEFINE n == Cardinality(M)
<1>1. \A S : Having(p, S) \subseteq Item
  BY DEF Having
<1>2. \A t \in CountedStatus : ClassOf(t) \subseteq PageDone
  BY ClassesAreDisjoint
<1>4. ASSUME NEW S, S \subseteq PageDone, ClassOf(s) \subseteq S
      PROVE  Cardinality(Having(q, S)) = Monus(Cardinality(Having(p, S)), n)
  <2>1. Having(q, S) = Having(p, S) \ M
    BY <1>4 DEF Having, Steady
  <2>2. M \subseteq Having(p, S)
    BY <1>4 DEF Having, Steady
  <2> QED
    BY <1>1, <2>1, <2>2, PagesRemoved
<1>5. ASSUME NEW S, S \subseteq PageDone, ClassOf(s) \cap S = {}
      PROVE  Having(q, S) = Having(p, S)
  BY <1>5 DEF Having, Steady
<1>6. Uncounted(r, s, n).completed = Cardinality(Having(q, PageDone))
  BY <1>2, <1>4, CountedFields DEF RowCounts
<1>7. ASSUME NEW t \in CountedStatus
      PROVE  Uncounted(r, s, n).count[t] = Cardinality(Having(q, ClassOf(t)))
  <2>1. CASE t = s
    BY <1>2, <1>4, <2>1, CountedFields DEF RowCounts
  <2>2. CASE t # s
    <3>1. ClassOf(s) \cap ClassOf(t) = {}
      BY <2>2, ClassesAreDisjoint
    <3> QED
      BY <1>2, <1>5, <2>2, <3>1, CountedFields DEF RowCounts
  <2> QED
    BY <2>1, <2>2
<1> QED
  BY <1>6, <1>7 DEF RowCounts

\* Nothing ends and nothing is reopened.
LEMMA SameCounts ==
    ASSUME NEW r, NEW x, NEW p, NEW q, RowCounts(r, p),
           x.completed = r.completed, x.count = r.count,
           \A i \in Item : Steady(p[i], q[i])
    PROVE  RowCounts(x, q)
<1>1. \A S : S \subseteq PageDone => Having(q, S) = Having(p, S)
  BY DEF Having, Steady
<1>2. \A s \in CountedStatus : ClassOf(s) \subseteq PageDone
  BY ClassesAreDisjoint
<1> QED
  BY <1>1, <1>2 DEF RowCounts

\* A transaction on one job is right if the counters it writes are.
LEMMA CountsWritten ==
    ASSUME TypeInv, CountInv, NEW j \in Job, NEW r, NEW q, RowCounts(r, q),
           job' = [job EXCEPT ![j] = r], item' = [item EXCEPT ![j] = q]
    PROVE  CountInv'
BY DEF CountInv, TypeInv, JobsTyped, ItemsTyped

\* A transaction that changes neither counters nor the end of a page.
LEMMA CountsKept ==
    ASSUME CountInv,
           \A j \in Job : job'[j].completed = job[j].completed /\ job'[j].count = job[j].count,
           \A j \in Job : \A i \in Item : Steady(item[j][i], item'[j][i])
    PROVE  CountInv'
BY SameCounts DEF CountInv

\* A transaction that ends the pages M of one job, or reopens them.
LEMMA EndingCounts ==
    ASSUME TypeInv, CountInv, NEW j \in Job, NEW s \in CountedStatus, NEW M, M \subseteq Item,
           NEW q, NEW row,
           \A i \in M : item[j][i].status \notin PageDone /\ q[i].status \in ClassOf(s),
           \A i \in Item \ M : Steady(item[j][i], q[i]),
           row.completed = Counted(job[j], s, Cardinality(M)).completed,
           row.count = Counted(job[j], s, Cardinality(M)).count,
           job' = [job EXCEPT ![j] = row], item' = [item EXCEPT ![j] = q]
    PROVE  CountInv'
<1>1. job[j] \in JobRow /\ RowCounts(job[j], item[j])
  BY DEF CountInv, TypeInv, JobsTyped
<1>2. RowCounts(Counted(job[j], s, Cardinality(M)), q)
  BY <1>1, EndedPagesCount
<1>3. RowCounts(row, q)
  BY <1>2 DEF RowCounts
<1> QED
  BY <1>3, CountsWritten

LEMMA ReopeningCounts ==
    ASSUME TypeInv, CountInv, NEW j \in Job, NEW s \in CountedStatus, NEW M, M \subseteq Item,
           NEW q, NEW row,
           \A i \in M : item[j][i].status \in ClassOf(s) /\ q[i].status \notin PageDone,
           \A i \in Item \ M : q[i].status = item[j][i].status,
           row.completed = Uncounted(job[j], s, Cardinality(M)).completed,
           row.count = Uncounted(job[j], s, Cardinality(M)).count,
           job' = [job EXCEPT ![j] = row], item' = [item EXCEPT ![j] = q]
    PROVE  CountInv'
<1>1. job[j] \in JobRow /\ RowCounts(job[j], item[j])
  BY DEF CountInv, TypeInv, JobsTyped
<1>2. RowCounts(Uncounted(job[j], s, Cardinality(M)), q)
  BY <1>1, ReopenedPagesCount
<1>3. RowCounts(row, q)
  BY <1>2 DEF RowCounts
<1> QED
  BY <1>3, CountsWritten

-----------------------------------------------------------------------------
(* The operator, claims and preparation *)

\* Canceling the pages whose status is in S ends them.
LEMMA CanceledPagesEnd ==
    ASSUME TypeInv, NEW j \in Job, NEW S, S \cap PageDone = {}
    PROVE  LET M == PagesIn(j, S)  q == CanceledPages(j, S) IN
             /\ M \subseteq Item
             /\ \A i \in M : item[j][i].status \notin PageDone /\ q[i].status \in ClassOf("canceled")
             /\ \A i \in Item \ M : Steady(item[j][i], q[i])
<1> DEFINE M == PagesIn(j, S)
           q == CanceledPages(j, S)
<1>1. M \subseteq Item
  BY PagesInAreItems
<1>2. \A i \in M : [Released(item[j][i]) EXCEPT !.status = "canceled"].status = "canceled"
  BY <1>1, ReleasedPage DEF PageRow, TypeInv, ItemsTyped
<1>3. \A i \in Item : q[i] = IF i \in M THEN [Released(item[j][i]) EXCEPT !.status = "canceled"]
                                      ELSE item[j][i]
  BY DEF CanceledPages, PagesIn
<1>4. \A i \in M : item[j][i].status \notin PageDone
  BY DEF PagesIn
<1> QED
  BY <1>1, <1>2, <1>3, <1>4 DEF ClassOf, Steady

LEMMA RequestCancelCounts ==
    ASSUME TypeInv, CountInv, NEW j \in Job, RequestCancel(j)
    PROVE  CountInv'
<1>1. CASE job[j].status \in {"preparing", "queued"}
  <2> DEFINE M == PagesIn(j, {"pending"})
             counted == Counted(job[j], "canceled", Cardinality(M))
             row == [counted EXCEPT
                       !.status = "canceled", !.phase = "completed", !.cancel = TRUE,
                       !.activeSite = FALSE, !.publication = CanceledPublication(j)]
             q == CanceledPages(j, {"pending"})
  <2>1. "canceled" \in CountedStatus /\ {"pending"} \cap PageDone = {}
    BY DEF CountedStatus, PageDone
  <2>2. /\ M \subseteq Item
        /\ \A i \in M : item[j][i].status \notin PageDone /\ q[i].status \in ClassOf("canceled")
        /\ \A i \in Item \ M : Steady(item[j][i], q[i])
    BY <2>1, CanceledPagesEnd
  <2>3. row.completed = counted.completed /\ row.count = counted.count
    <3>1. counted \in JobRow
      BY <2>1, <2>2, CountPages, CountedJob DEF TypeInv, JobsTyped
    <3> HIDE DEF counted
    <3> QED
      BY <3>1 DEF JobRow
  <2>4. job' = [job EXCEPT ![j] = row] /\ item' = [item EXCEPT ![j] = q]
    BY <1>1 DEF RequestCancel
  <2> HIDE DEF M, q, row
  <2> QED
    BY <2>1, <2>2, <2>3, <2>4, EndingCounts
<1>2. CASE job[j].status \notin {"preparing", "queued"}
  <2>1. \A k \in Job : job'[k].completed = job[k].completed /\ job'[k].count = job[k].count
    BY <1>2 DEF RequestCancel, JobRow, TypeInv, JobsTyped
  <2> QED
    BY <1>2, <2>1, CountsKept DEF RequestCancel, Steady
<1> QED
  BY <1>1, <1>2

\* Reopening a blocked job keeps its counters.
LEMMA ReopenedCounters ==
    ASSUME NEW r \in JobRow, NEW phase \in JobPhase
    PROVE  /\ Reopened(r, phase) \in JobRow
           /\ Reopened(r, phase).completed = r.completed
           /\ Reopened(r, phase).count = r.count
<1>1. Reopened(r, phase) \in JobRow
  BY ReopenedJob
<1> QED
  BY <1>1 DEF Reopened, JobRow

LEMMA RetryBlockedCounts ==
    ASSUME TypeInv, CountInv, NEW j \in Job, RetryBlocked(j)
    PROVE  CountInv'
<1> DEFINE M == PagesIn(j, {"failed"})
           n == Cardinality(M)
           phase == IF n = 0 /\ job[j].report \in {"finalization", "stale"} THEN "finalizing"
                    ELSE "queued"
           r == Reopened(job[j], phase)
           row == [r EXCEPT !.completed = Monus(@, n), !.count["failed"] = 0]
           q == [i \in Item |-> IF i \in M THEN [NoPage EXCEPT !.status = "pending"]
                                ELSE item[j][i]]
<1>1. job[j] \in JobRow /\ RowCounts(job[j], item[j])
  BY DEF CountInv, TypeInv, JobsTyped
<1>2. /\ M \subseteq Item
      /\ \A i \in M : item[j][i].status \in ClassOf("failed") /\ q[i].status \notin PageDone
      /\ \A i \in Item \ M : q[i].status = item[j][i].status
  BY DEF PagesIn, ClassOf, NoPage, PageDone, CountedStatus
<1>3. r \in JobRow /\ r.completed = job[j].completed /\ r.count = job[j].count
  BY <1>1, ReopenedCounters DEF JobPhase
<1>4. n \in Nat /\ job[j].count["failed"] = n
  <2>1. M = Having(item[j], ClassOf("failed"))
    BY DEF PagesIn, Having, ClassOf
  <2> QED
    BY <1>1, <1>2, <2>1, CountPages DEF RowCounts, CountedStatus
<1>5. job' = [job EXCEPT ![j] = row] /\ item' = [item EXCEPT ![j] = q]
  BY DEF RetryBlocked
<1> HIDE DEF r, n, M, q
<1>6. /\ row.completed = Uncounted(job[j], "failed", n).completed
      /\ row.count = Uncounted(job[j], "failed", n).count
  <2>1. row.completed = Monus(r.completed, n) /\ row.count = [r.count EXCEPT !["failed"] = 0]
    BY <1>3 DEF JobRow
  <2>2. /\ Uncounted(job[j], "failed", n).completed = Monus(job[j].completed, n)
        /\ Uncounted(job[j], "failed", n).count = [job[j].count EXCEPT !["failed"] = Monus(@, n)]
    BY <1>1 DEF Uncounted, JobRow
  <2>3. Monus(n, n) = 0
    BY <1>4 DEF Monus
  <2> QED
    BY <1>3, <1>4, <2>1, <2>2, <2>3
<1> HIDE DEF row
<1>7. "failed" \in CountedStatus
  BY DEF CountedStatus
<1> QED
  BY <1>2, <1>5, <1>6, <1>7, ReopeningCounts DEF n

LEMMA ReconcileCounts ==
    ASSUME TypeInv, CountInv, NEW j \in Job, NEW S \in SUBSET Item, ReconcileStaleVersions(j, S)
    PROVE  CountInv'
<1> DEFINE F == S \cap PagesIn(j, {"succeeded"})
           T == S \cap PagesIn(j, {"not_modified"})
           pending == [NoPage EXCEPT !.status = "pending"]
           r == Reopened(job[j], "queued")
           r1 == Uncounted(r, "succeeded", Cardinality(F))
           row == Uncounted(r1, "not_modified", Cardinality(T))
           q1 == [i \in Item |-> IF i \in F THEN pending ELSE item[j][i]]
           q == [i \in Item |-> IF i \in S THEN pending ELSE item[j][i]]
<1>1. job[j] \in JobRow /\ RowCounts(job[j], item[j])
  BY DEF CountInv, TypeInv, JobsTyped
<1>2. r \in JobRow /\ RowCounts(r, item[j])
  BY <1>1, ReopenedCounters DEF RowCounts, JobPhase
<1>3. /\ "succeeded" \in CountedStatus /\ "not_modified" \in CountedStatus
      /\ ClassOf("succeeded") = {"succeeded"} /\ ClassOf("not_modified") = {"not_modified"}
      /\ pending.status = "pending" /\ pending.status \notin PageDone
  BY DEF ClassOf, CountedStatus, PageDone, NoPage
<1>4. /\ F \subseteq Item /\ T \subseteq Item
      /\ \A i \in F : item[j][i].status = "succeeded"
      /\ \A i \in T : item[j][i].status = "not_modified" /\ i \notin F
      /\ \A i \in Item : i \in S <=> i \in F \/ i \in T
  BY DEF PagesIn, ReconcileStaleVersions
<1> HIDE DEF F, T, r, pending
<1>5. r1 \in JobRow /\ RowCounts(r1, q1)
  <2>1. /\ \A i \in F : item[j][i].status \in ClassOf("succeeded") /\ q1[i].status \notin PageDone
        /\ \A i \in Item \ F : q1[i].status = item[j][i].status
    BY <1>3, <1>4
  <2>2. r1 \in JobRow
    BY <1>2, <1>3, <1>4, CountPages, CountedJob
  <2> HIDE DEF q1
  <2> QED
    BY <1>2, <1>3, <1>4, <2>1, <2>2, ReopenedPagesCount
<1>6. RowCounts(row, q)
  <2>1. /\ \A i \in T : q1[i].status \in ClassOf("not_modified") /\ q[i].status \notin PageDone
        /\ \A i \in Item \ T : q[i].status = q1[i].status
    BY <1>3, <1>4
  <2> HIDE DEF q1, q, r1
  <2> QED
    BY <1>3, <1>4, <1>5, <2>1, ReopenedPagesCount
<1>7. job' = [job EXCEPT ![j] = row] /\ item' = [item EXCEPT ![j] = q]
  BY DEF ReconcileStaleVersions, F, T, r, pending
<1> HIDE DEF row, q
<1> QED
  BY <1>6, <1>7, CountsWritten

LEMMA OperatorCounts ==
    ASSUME TypeInv, CountInv, Operator
    PROVE  CountInv'
<1>1. ASSUME NEW j \in Job, Enqueue(j) PROVE CountInv'
  <2>1. \A k \in Job : job'[k].completed = job[k].completed /\ job'[k].count = job[k].count
    BY <1>1 DEF Enqueue, JobRow, TypeInv, JobsTyped
  <2> QED
    BY <1>1, <2>1, CountsKept DEF Enqueue, Steady
<1> QED
  BY <1>1, RequestCancelCounts, RetryBlockedCounts, ReconcileCounts DEF Operator

\* Sweeping, claiming and releasing a row leave its counters alone.
LEMMA SweptCounters ==
    ASSUME NEW j \in Job, job[j] \in JobRow
    PROVE  Swept(j).completed = job[j].completed /\ Swept(j).count = job[j].count
<1> DEFINE r == Released(job[j])
<1>1. r \in JobRow /\ r.completed = job[j].completed /\ r.count = job[j].count
  BY DEF Released, JobRow, Window
<1> HIDE DEF r
<1>2. \A a, b, c : /\ [r EXCEPT !.status = a, !.phase = b, !.later = c].completed = r.completed
                  /\ [r EXCEPT !.status = a, !.phase = b, !.later = c].count = r.count
                  /\ [r EXCEPT !.status = a, !.phase = b, !.activeSite = c].completed = r.completed
                  /\ [r EXCEPT !.status = a, !.phase = b, !.activeSite = c].count = r.count
  BY <1>1 DEF JobRow
<1> QED
  BY <1>1, <1>2 DEF Swept, r

LEMMA ClaimedCounters ==
    ASSUME NEW r \in JobRow, NEW w
    PROVE  Claimed(r, w).completed = r.completed /\ Claimed(r, w).count = r.count
<1> DEFINE q == LeasedTo(r, w)
<1>1. q.completed = r.completed /\ q.count = r.count /\ DOMAIN q = DOMAIN r
  BY DEF LeasedTo, JobRow
<1>2. \A a, b, c, d :
        /\ [r EXCEPT !.owner = w, !.lease = "live", !.cancel = a, !.status = b, !.phase = c,
                     !.failures = d].completed = r.completed
        /\ [r EXCEPT !.owner = w, !.lease = "live", !.cancel = a, !.status = b, !.phase = c,
                     !.failures = d].count = r.count
  BY DEF JobRow
<1> QED
  BY <1>2 DEF Claimed, LeasedTo

LEMMA ClaimCounts ==
    ASSUME TypeInv, CountInv, NEW w \in Worker, Claim(w)
    PROVE  CountInv'
<1>1. \A k \in Job : /\ Swept(k) \in JobRow
                     /\ Swept(k).completed = job[k].completed
                     /\ Swept(k).count = job[k].count
  BY SweptJob, SweptCounters DEF TypeInv, JobsTyped
<1>2. \A k \in Job : /\ Claimed(Swept(k), w).completed = job[k].completed
                     /\ Claimed(Swept(k), w).count = job[k].count
  BY <1>1, ClaimedCounters
<1>3. ASSUME NEW k \in Job
      PROVE  job'[k].completed = job[k].completed /\ job'[k].count = job[k].count
  <2>1. job'[k] = Swept(k) \/ job'[k] = Claimed(Swept(k), w)
    BY DEF Claim, ClaimNext, ClaimNothing
  <2> QED
    BY <1>1, <1>2, <2>1
<1>4. UNCHANGED item
  BY DEF Claim, ClaimNext, ClaimNothing
<1> QED
  BY <1>3, <1>4, CountsKept DEF Steady

LEMMA ReleasedCounters ==
    ASSUME NEW r \in JobRow
    PROVE  Released(r).completed = r.completed /\ Released(r).count = r.count
BY DEF Released, JobRow

LEMMA PrepareCounts ==
    ASSUME TypeInv, CountInv, NEW w \in Worker, Prepare(w)
    PROVE  CountInv'
<1> DEFINE j == run[w].job
<1>1. ~At(w, "idle")
  BY DEF Prepare, AppendPreparedItem, ApplyDuplicatePolicy, YieldPreparation, FinishPreparation,
         PreparationRefused, At
<1>2. j \in Job /\ job[j] \in JobRow
  BY <1>1, RunHasJob DEF TypeInv, JobsTyped
<1>3. CASE \E i \in Item : AppendPreparedItem(w, i)
  <2>1. PICK i \in Item : AppendPreparedItem(w, i)
    BY <1>3
  <2>2. /\ UNCHANGED job
        /\ item[j][i].status = "absent"
        /\ \A k \in Job : \A l \in Item :
              item'[k][l].status = IF k = j /\ l = i THEN "pending" ELSE item[k][l].status
    BY <1>2, <2>1 DEF AppendPreparedItem, TypeInv, ItemsTyped, PageRow
  <2>3. "absent" \notin PageDone /\ "pending" \notin PageDone
    BY DEF PageDone, CountedStatus
  <2> QED
    BY <2>2, <2>3, CountsKept DEF Steady
<1>4. CASE ApplyDuplicatePolicy(w)
  <2> DEFINE M == Loser \cap PagesIn(j, {"pending"})
             counted == Counted(job[j], "excluded", Cardinality(M))
             row == [counted EXCEPT !.elected = TRUE]
             q == [i \in Item |-> IF i \in M THEN [item[j][i] EXCEPT !.status = "duplicate"]
                                  ELSE item[j][i]]
  <2>1. /\ M \subseteq Item
        /\ \A i \in M : item[j][i].status \notin PageDone /\ q[i].status \in ClassOf("excluded")
        /\ \A i \in Item \ M : Steady(item[j][i], q[i])
    <3>1. M \subseteq Item /\ \A i \in M : item[j][i].status = "pending"
      BY DEF PagesIn
    <3>2. \A i \in M : q[i].status = "duplicate"
      BY <1>2, <3>1 DEF TypeInv, ItemsTyped, PageRow
    <3>3. \A i \in Item \ M : q[i] = item[j][i]
      OBVIOUS
    <3>4. "pending" \notin PageDone /\ "duplicate" \in ClassOf("excluded")
      BY DEF ClassOf, PageDone, CountedStatus
    <3> HIDE DEF M, q
    <3> QED
      BY <3>1, <3>2, <3>3, <3>4 DEF Steady
  <2>2. row.completed = counted.completed /\ row.count = counted.count
    <3>1. counted \in JobRow
      BY <1>2, <2>1, CountPages, CountedJob DEF CountedStatus
    <3> HIDE DEF counted
    <3> QED
      BY <3>1 DEF JobRow
  <2>3. job' = [job EXCEPT ![j] = row] /\ item' = [item EXCEPT ![j] = q]
    BY <1>2, <1>4 DEF ApplyDuplicatePolicy, TypeInv, JobsTyped
  <2>4. "excluded" \in CountedStatus
    BY DEF CountedStatus
  <2> HIDE DEF M, q, row
  <2> QED
    BY <1>2, <2>1, <2>2, <2>3, <2>4, EndingCounts
<1>5. CASE YieldPreparation(w) \/ FinishPreparation(w)
  <2>1. \A k \in Job : job'[k].completed = job[k].completed /\ job'[k].count = job[k].count
    <3> DEFINE r == Released(job[j])
    <3>1. r \in JobRow /\ r.completed = job[j].completed /\ r.count = job[j].count
      BY <1>2, ReleasedJob, ReleasedCounters
    <3>2. \/ job' = [job EXCEPT ![j] = r]
          \/ job' = [job EXCEPT ![j] = [r EXCEPT !.status = "queued", !.phase = "queued",
                                                 !.failures = 0]]
      BY <1>2, <1>5 DEF YieldPreparation, FinishPreparation, TypeInv, JobsTyped
    <3> HIDE DEF r
    <3>3. /\ [r EXCEPT !.status = "queued", !.phase = "queued", !.failures = 0].completed
                = job[j].completed
          /\ [r EXCEPT !.status = "queued", !.phase = "queued", !.failures = 0].count
                = job[j].count
      BY <3>1 DEF JobRow
    <3> QED
      BY <1>2, <3>1, <3>2, <3>3 DEF TypeInv, JobsTyped
  <2> QED
    BY <1>5, <2>1, CountsKept DEF YieldPreparation, FinishPreparation, Steady
<1>6. CASE PreparationRefused(w)
  BY <1>6, CountsKept DEF PreparationRefused, Steady
<1> QED
  BY <1>3, <1>4, <1>5, <1>6 DEF Prepare

-----------------------------------------------------------------------------
(* The page loop *)

\* The sweep before a page claim fails the pages at their last attempt.
LEMMA SweptPagesEnd ==
    ASSUME TypeInv, NEW j \in Job
    PROVE  LET M == OutOfAttempts(j)  q == SweptPages(j) IN
             /\ M \subseteq Item
             /\ \A i \in M : item[j][i].status = "fetching" /\ q[i].status = "failed"
             /\ \A i \in Item \ M : q[i] = item[j][i]
<1> DEFINE M == OutOfAttempts(j)
           q == SweptPages(j)
<1>1. M \subseteq Item /\ \A i \in M : item[j][i].status = "fetching"
  BY DEF OutOfAttempts
<1>2. \A i \in M : [Released(item[j][i]) EXCEPT !.status = "failed"].status = "failed"
  BY <1>1, ReleasedPage DEF PageRow, TypeInv, ItemsTyped
<1>3. \A i \in Item : q[i] = IF i \in M THEN [Released(item[j][i]) EXCEPT !.status = "failed"]
                                      ELSE item[j][i]
  BY DEF SweptPages
<1> QED
  BY <1>1, <1>2, <1>3

LEMMA ClaimItemCounts ==
    ASSUME TypeInv, CountInv, NEW w \in Worker,
           (\E i \in Item : ClaimNextItem(w, i)) \/ ClaimNoItem(w)
    PROVE  CountInv'
<1> DEFINE j == run[w].job
           M == OutOfAttempts(j)
           row == Counted(job[j], "failed", Cardinality(M))
           sweptPages == SweptPages(j)
<1>1. ~At(w, "idle")
  BY DEF ClaimNextItem, ClaimNoItem, At
<1>2. j \in Job /\ item[j] \in [Item -> PageRow]
  BY <1>1, RunHasJob DEF TypeInv, ItemsTyped
<1>3. /\ M \subseteq Item
      /\ \A i \in M : item[j][i].status = "fetching" /\ sweptPages[i].status = "failed"
      /\ \A i \in Item \ M : sweptPages[i] = item[j][i]
  BY <1>2, SweptPagesEnd
<1>4. job' = [job EXCEPT ![j] = row]
  BY <1>2 DEF ClaimNextItem, ClaimNoItem, SweptCounts, TypeInv, JobsTyped
<1>5. /\ "failed" \in CountedStatus /\ ClassOf("failed") = {"failed"}
      /\ "fetching" \notin PageDone /\ "pending" \notin PageDone
  BY DEF CountedStatus, ClassOf, PageDone
<1>6. PICK q : /\ item' = [item EXCEPT ![j] = q]
               /\ \A i \in M : q[i].status = "failed"
               /\ \A i \in Item \ M : Steady(item[j][i], q[i])
  <2>1. CASE ClaimNoItem(w)
    <3>1. item' = [item EXCEPT ![j] = sweptPages]
      BY <2>1 DEF ClaimNoItem
    <3> HIDE DEF sweptPages, M
    <3> QED
      BY <1>3, <3>1 DEF Steady
  <2>2. ASSUME NEW i \in Item, ClaimNextItem(w, i)
        PROVE  \E q : /\ item' = [item EXCEPT ![j] = q]
                      /\ \A k \in M : q[k].status = "failed"
                      /\ \A k \in Item \ M : Steady(item[j][k], q[k])
    <3> DEFINE page == [LeasedTo(item[j][i], w) EXCEPT
                          !.status = "fetching", !.attempts = Attempted(@), !.waiting = FALSE]
               q == [sweptPages EXCEPT ![i] = page]
    <3>1. item[j][i] \in PageRow
      BY <1>2
    <3>2. page.status = "fetching"
      BY <3>1 DEF LeasedTo, PageRow
    <3>3. item' = [item EXCEPT ![j] = q]
      BY <2>2 DEF ClaimNextItem
    <3>4. i \notin M /\ item[j][i].status \in {"pending", "fetching"}
      <4>1. Due(item[j][i])
        BY <2>2 DEF ClaimNextItem
      <4>2. item[j][i].attempts \in Int /\ MaxItemAttempts \in Int
        BY <3>1, ConstantsAssumption DEF PageRow
      <4> QED
        BY <4>1, <4>2 DEF Due, OutOfAttempts
    <3>5. DOMAIN sweptPages = Item
      BY DEF SweptPages
    <3> HIDE DEF page, sweptPages, M
    <3>6. q[i].status = "fetching" /\ \A k \in Item \ {i} : q[k] = sweptPages[k]
      BY <3>2, <3>5
    <3>7. \A k \in M : q[k].status = "failed"
      BY <1>3, <3>4, <3>6
    <3>8. \A k \in Item \ M : Steady(item[j][k], q[k])
      BY <1>3, <1>5, <3>4, <3>6 DEF Steady
    <3> HIDE DEF q
    <3> QED
      BY <3>3, <3>7, <3>8
  <2> QED
    BY <2>1, <2>2
<1> HIDE DEF row, M, sweptPages
<1>7. row.completed = Counted(job[j], "failed", Cardinality(M)).completed
      /\ row.count = Counted(job[j], "failed", Cardinality(M)).count
  BY DEF row
<1>8. \A i \in M : item[j][i].status \notin PageDone /\ q[i].status \in ClassOf("failed")
  BY <1>3, <1>5, <1>6
<1> QED
  BY <1>2, <1>3, <1>4, <1>5, <1>6, <1>7, <1>8, EndingCounts

\* One page ends: its result, or its final failure, is recorded.
LEMMA PageResultCounts ==
    ASSUME TypeInv, CountInv, NEW j \in Job, NEW i \in Item, NEW s \in CountedStatus,
           item[j][i].status = "fetching",
           NEW page, page.status = s,
           item' = [item EXCEPT ![j][i] = page],
           job' = [job EXCEPT ![j] = Counted(job[j], s, 1)]
    PROVE  CountInv'
<1> DEFINE q == [item[j] EXCEPT ![i] = page]
           row == Counted(job[j], s, 1)
           M == {i}
<1>1. item[j] \in [Item -> PageRow]
  BY DEF TypeInv, ItemsTyped
<1>2. q[i].status = s /\ \A k \in Item \ {i} : q[k] = item[j][k]
  BY <1>1
<1>3. s \in ClassOf(s) /\ "fetching" \notin PageDone
  BY DEF ClassOf, PageDone, CountedStatus
<1>4. Cardinality(M) = 1
  BY FS_Singleton
<1>5. item' = [item EXCEPT ![j] = q]
  BY DEF TypeInv, ItemsTyped
<1>6. job[j] \in JobRow /\ RowCounts(job[j], item[j])
  BY DEF CountInv, TypeInv, JobsTyped
<1>7. M \subseteq Item /\ \A k \in M : item[j][k].status \notin PageDone /\ q[k].status \in ClassOf(s)
  BY <1>2, <1>3
<1>8. \A k \in Item \ M : Steady(item[j][k], q[k])
  BY <1>2 DEF Steady
<1>9. RowCounts(row, q)
  <2> HIDE DEF q, M
  <2>1. RowCounts(Counted(job[j], s, Cardinality(M)), q)
    BY <1>6, <1>7, <1>8, EndedPagesCount
  <2> QED
    BY <1>4, <2>1
<1> HIDE DEF q, row
<1> QED
  BY <1>5, <1>9, CountsWritten DEF row

LEMMA CompleteItemCounts ==
    ASSUME TypeInv, CountInv, NEW w \in Worker, NEW i \in Item,
           NEW status \in {"succeeded", "not_modified", "excluded"}, CompleteItem(w, i, status)
    PROVE  CountInv'
<1> DEFINE j == run[w].job
           page == [Released(item[j][i]) EXCEPT !.status = status]
<1>1. j \in Job
  BY RunHasJob DEF CompleteItem, At, TypeInv
<1>2. page.status = status
  BY <1>1, ReleasedPage DEF TypeInv, ItemsTyped, PageRow
<1>3. item' = [item EXCEPT ![j][i] = page]
  BY <1>1 DEF CompleteItem, TypeInv, ItemsTyped
<1>4. job' = [job EXCEPT ![j] = Counted(job[j], status, 1)]
  BY <1>1 DEF CompleteItem, TypeInv, JobsTyped
<1>5. item[j][i].status = "fetching" /\ status \in CountedStatus
  BY DEF CompleteItem, HoldsPage, CountedStatus
<1> HIDE DEF page
<1> QED
  BY <1>1, <1>2, <1>3, <1>4, <1>5, PageResultCounts

LEMMA FailItemCounts ==
    ASSUME TypeInv, CountInv, NEW w \in Worker, NEW i \in Item, NEW retryable \in BOOLEAN,
           FailItem(w, i, retryable)
    PROVE  CountInv'
<1> DEFINE j == run[w].job
           page == [Released(item[j][i]) EXCEPT
                      !.status = IF retryable THEN "pending" ELSE "failed", !.waiting = retryable]
<1>1. j \in Job /\ item[j] \in [Item -> PageRow]
  BY RunHasJob DEF FailItem, At, TypeInv, ItemsTyped
<1>2. page.status = IF retryable THEN "pending" ELSE "failed"
  BY <1>1, ReleasedPage DEF PageRow
<1>3. item' = [item EXCEPT ![j][i] = page]
  BY <1>1 DEF FailItem, TypeInv, ItemsTyped
<1>4. item[j][i].status = "fetching"
  BY DEF FailItem, HoldsPage
<1> HIDE DEF page
<1>5. CASE retryable
  <2>1. \A k \in Job : \A l \in Item : item'[k][l].status =
          IF k = j /\ l = i THEN "pending" ELSE item[k][l].status
    BY <1>1, <1>2, <1>3, <1>5 DEF TypeInv, ItemsTyped
  <2>2. "fetching" \notin PageDone /\ "pending" \notin PageDone
    BY DEF PageDone, CountedStatus
  <2>3. UNCHANGED job
    BY <1>5 DEF FailItem
  <2> QED
    BY <1>4, <2>1, <2>2, <2>3, CountsKept DEF Steady
<1>6. CASE ~retryable
  <2>1. job' = [job EXCEPT ![j] = Counted(job[j], "failed", 1)]
    BY <1>1, <1>6 DEF FailItem, TypeInv, JobsTyped
  <2> QED
    BY <1>1, <1>2, <1>3, <1>4, <1>6, <2>1, PageResultCounts DEF CountedStatus
<1> QED
  BY <1>5, <1>6

LEMMA PromoteCounts ==
    ASSUME TypeInv, CountInv, NEW w \in Worker, PromoteDuplicateFallbacks(w)
    PROVE  CountInv'
<1> DEFINE j == run[w].job
           M == Promotable(j)
           row == Uncounted(job[j], "excluded", Cardinality(M))
           q == [i \in Item |-> IF i \in M THEN [item[j][i] EXCEPT !.status = "pending"]
                                ELSE item[j][i]]
<1>1. j \in Job /\ item[j] \in [Item -> PageRow]
  BY RunHasJob DEF PromoteDuplicateFallbacks, At, TypeInv, ItemsTyped
<1>2. M \subseteq Item /\ \A i \in M : item[j][i].status = "duplicate"
  BY ConstantsAssumption DEF Promotable
<1>3. \A i \in M : item[j][i].status \in ClassOf("excluded") /\ q[i].status \notin PageDone
  <2>1. \A i \in M : q[i].status = "pending"
    BY <1>1, <1>2 DEF PageRow
  <2> QED
    BY <1>2, <2>1 DEF ClassOf, PageDone, CountedStatus
<1>4. \A i \in Item \ M : q[i].status = item[j][i].status
  OBVIOUS
<1>5. job' = [job EXCEPT ![j] = row] /\ item' = [item EXCEPT ![j] = q]
  BY <1>1 DEF PromoteDuplicateFallbacks, TypeInv, JobsTyped
<1>6. /\ "excluded" \in CountedStatus
      /\ row.completed = Uncounted(job[j], "excluded", Cardinality(M)).completed
      /\ row.count = Uncounted(job[j], "excluded", Cardinality(M)).count
  BY DEF CountedStatus
<1> HIDE DEF M, q, row
<1> QED
  BY <1>1, <1>2, <1>3, <1>4, <1>5, <1>6, ReopeningCounts

LEMMA ProcessPagesCounts ==
    ASSUME TypeInv, CountInv, NEW w \in Worker, ProcessPages(w)
    PROVE  CountInv'
<1>1. CASE UNCHANGED <<job, item>>
  BY <1>1, CountsKept DEF Steady
<1>2. CASE RequeueIncomplete(w)
  <2> DEFINE j == run[w].job
             r == Released(job[j])
  <2>1. j \in Job /\ job[j] \in JobRow
    BY <1>2, RunHasJob DEF RequeueIncomplete, At, TypeInv, JobsTyped
  <2>2. r \in JobRow /\ r.completed = job[j].completed /\ r.count = job[j].count
    BY <2>1, ReleasedJob, ReleasedCounters
  <2>3. job' = [job EXCEPT ![j] = [r EXCEPT !.status = "queued", !.phase = "queued"]]
    BY <1>2, <2>1 DEF RequeueIncomplete, TypeInv, JobsTyped
  <2> HIDE DEF r
  <2>4. \A k \in Job : job'[k].completed = job[k].completed /\ job'[k].count = job[k].count
    BY <2>1, <2>2, <2>3 DEF TypeInv, JobsTyped, JobRow
  <2> QED
    BY <1>2, <2>4, CountsKept DEF RequeueIncomplete, Steady
<1> QED
  BY <1>1, <1>2, ClaimItemCounts, CompleteItemCounts, FailItemCounts, PromoteCounts
     DEF ProcessPages, BeginStagedSync, LoopHead, BatchRefused, EndBatch, LoopRefused, Raise

-----------------------------------------------------------------------------
(* Aborts, the ends of a run, and time *)

LEMMA AbortCounts ==
    ASSUME TypeInv, CountInv, NEW j \in Job, Abort(j)
    PROVE  CountInv'
<1> DEFINE M == Discarded(j)
           counted == Uncounted(job[j], "succeeded", Cardinality(M))
           row == Invalidated(j)
           q == [i \in Item |-> IF i \in M THEN [item[j][i] EXCEPT !.status = "pending"]
                                ELSE item[j][i]]
<1>1. item[j] \in [Item -> PageRow]
  BY DEF TypeInv, ItemsTyped
<1>2. M \subseteq Item /\ \A i \in M : item[j][i].status = "succeeded"
  BY DEF Discarded, PagesIn
<1>3. \A i \in M : item[j][i].status \in ClassOf("succeeded") /\ q[i].status \notin PageDone
  <2>1. \A i \in M : q[i].status = "pending"
    BY <1>1, <1>2 DEF PageRow
  <2> QED
    BY <1>2, <2>1 DEF ClassOf, PageDone, CountedStatus
<1>4. \A i \in Item \ M : q[i].status = item[j][i].status
  OBVIOUS
<1>5. job' = [job EXCEPT ![j] = row] /\ item' = [item EXCEPT ![j] = q]
  BY DEF Abort
<1>6. row.completed = counted.completed /\ row.count = counted.count
  <2>1. counted \in JobRow
    BY <1>2, CountPages, CountedJob DEF TypeInv, JobsTyped, CountedStatus
  <2>2. \/ row = counted
        \/ row = [counted EXCEPT !.status = "blocked", !.phase = "awaiting_remediation",
                                 !.publication = "pending", !.report = "stale"]
    BY DEF Invalidated
  <2> HIDE DEF counted, row
  <2> QED
    BY <2>1, <2>2 DEF JobRow
<1>7. "succeeded" \in CountedStatus
  BY DEF CountedStatus
<1> HIDE DEF M, q, row
<1> QED
  BY <1>2, <1>3, <1>4, <1>5, <1>6, <1>7, ReopeningCounts

\* A row written after a release keeps its counters, whatever else it changes.
LEMMA ReleasedKeepsCounters ==
    ASSUME NEW r \in JobRow, NEW a, NEW b, NEW c, NEW d, NEW e
    PROVE  \A x \in {Released(r),
                     [Released(r) EXCEPT !.status = a, !.phase = b, !.publication = c,
                                         !.activeSite = d],
                     [Released(r) EXCEPT !.status = a, !.phase = b, !.publication = c,
                                         !.report = d, !.retention = e],
                     [Released(r) EXCEPT !.later = a]} :
              x.completed = r.completed /\ x.count = r.count
<1> DEFINE q == Released(r)
<1>1. q \in JobRow /\ q.completed = r.completed /\ q.count = r.count
  BY ReleasedJob, ReleasedCounters
<1> HIDE DEF q
<1>2. \A x \in {q, [q EXCEPT !.status = a, !.phase = b, !.publication = c, !.activeSite = d],
                [q EXCEPT !.status = a, !.phase = b, !.publication = c, !.report = d,
                          !.retention = e],
                [q EXCEPT !.later = a]} :
         x.completed = r.completed /\ x.count = r.count
  BY <1>1 DEF JobRow
<1> QED
  BY <1>2 DEF q

\* A write that keeps the counters of one row.
LEMMA RowKeepsCounters ==
    ASSUME TypeInv, CountInv, NEW j \in Job, NEW row,
           row.completed = job[j].completed, row.count = job[j].count,
           job' = [job EXCEPT ![j] = row], UNCHANGED item
    PROVE  CountInv'
<1>1. \A k \in Job : job'[k].completed = job[k].completed /\ job'[k].count = job[k].count
  BY DEF TypeInv, JobsTyped
<1> QED
  BY <1>1, CountsKept DEF Steady

LEMMA CancelCounts ==
    ASSUME TypeInv, CountInv, NEW w \in Worker, Cancel(w)
    PROVE  CountInv'
<1> DEFINE j == run[w].job
           S == {"pending", "fetching"}
           M == PagesIn(j, S)
           released == Released(job[j])
           counted == Counted(released, "canceled", Cardinality(M))
           row == [counted EXCEPT
                     !.status = "canceled", !.phase = "completed", !.activeSite = FALSE,
                     !.publication = CanceledPublication(j)]
           q == CanceledPages(j, S)
<1>1. j \in Job /\ job[j] \in JobRow
  BY RunHasJob DEF Cancel, At, TypeInv, JobsTyped
<1>2. "canceled" \in CountedStatus /\ S \cap PageDone = {}
  BY DEF CountedStatus, PageDone
<1>3. /\ M \subseteq Item
      /\ \A i \in M : item[j][i].status \notin PageDone /\ q[i].status \in ClassOf("canceled")
      /\ \A i \in Item \ M : Steady(item[j][i], q[i])
  <2> HIDE DEF S
  <2> QED
    BY <1>1, <1>2, CanceledPagesEnd
<1>4. /\ released \in JobRow
      /\ released.completed = job[j].completed
      /\ released.count = job[j].count
  BY <1>1, ReleasedJob, ReleasedCounters
<1>5. Cardinality(M) \in Nat
  BY <1>3, CountPages
<1>6. row.completed = counted.completed /\ row.count = counted.count
  <2>1. counted \in JobRow
    BY <1>2, <1>4, <1>5, CountedJob
  <2> HIDE DEF counted
  <2> QED
    BY <2>1 DEF JobRow
<1>7. /\ counted.completed = Counted(job[j], "canceled", Cardinality(M)).completed
      /\ counted.count = Counted(job[j], "canceled", Cardinality(M)).count
  <2> HIDE DEF released, M
  <2> QED
    BY <1>1, <1>4 DEF Counted, JobRow
<1>8. job' = [job EXCEPT ![j] = row] /\ item' = [item EXCEPT ![j] = q]
  BY DEF Cancel
<1> HIDE DEF M, q, row, counted
<1>9. /\ row.completed = Counted(job[j], "canceled", Cardinality(M)).completed
      /\ row.count = Counted(job[j], "canceled", Cardinality(M)).count
  BY <1>6, <1>7
<1> QED
  BY <1>1, <1>2, <1>3, <1>8, <1>9, EndingCounts

LEMMA StopOrCleanCounts ==
    ASSUME TypeInv, CountInv, NEW w \in Worker, StopOrClean(w)
    PROVE  CountInv'
<1> DEFINE j == run[w].job
<1>1. CASE UNCHANGED <<job, item>>
  BY <1>1, CountsKept DEF Steady
<1>2. j \in Job /\ job[j] \in JobRow
  <2>1. ~At(w, "idle")
    BY DEF StopOrClean, AbortInHandler, StoreFail, CancelAbort, Cancel, CancelRefused,
           CleanupAbort, CleanupFail, ReleaseCleanup, CleanupRefused, At
  <2> QED
    BY <2>1, RunHasJob DEF TypeInv, JobsTyped
<1>3. CASE Abort(j)
  BY <1>2, <1>3, AbortCounts
<1>4. CASE job' = [job EXCEPT ![j] = Failed(j)] /\ UNCHANGED item
  <2>1. Failed(j).completed = job[j].completed /\ Failed(j).count = job[j].count
    BY <1>2, ReleasedKeepsCounters DEF Failed
  <2> QED
    BY <1>2, <1>4, <2>1, RowKeepsCounters
<1>5. CASE ReleaseCleanup(w)
  <2> DEFINE row == [Released(job[j]) EXCEPT !.later = TRUE]
  <2>1. row.completed = job[j].completed /\ row.count = job[j].count
    BY <1>2, ReleasedKeepsCounters
  <2>2. job' = [job EXCEPT ![j] = row] /\ UNCHANGED item
    BY <1>2, <1>5 DEF ReleaseCleanup, TypeInv, JobsTyped
  <2> HIDE DEF row
  <2> QED
    BY <1>2, <2>1, <2>2, RowKeepsCounters
<1> QED
  BY <1>1, <1>3, <1>4, <1>5, CancelCounts
     DEF StopOrClean, AbortInHandler, StoreFail, CancelAbort, CancelRefused, CleanupAbort,
         CleanupFail, CleanupRefused, Raise

LEMMA FinalizeCounts ==
    ASSUME TypeInv, CountInv, NEW w \in Worker, Finalize(w)
    PROVE  CountInv'
<1> DEFINE j == run[w].job
<1>1. CASE UNCHANGED <<job, item>>
  BY <1>1, CountsKept DEF Steady
<1>2. ASSUME ~At(w, "idle") PROVE j \in Job /\ job[j] \in JobRow
  BY <1>2, RunHasJob DEF TypeInv, JobsTyped
<1>3. CASE StartFinalization(w)
  <2> DEFINE row == [job[j] EXCEPT !.phase = "finalizing"]
  <2>1. j \in Job /\ job[j] \in JobRow
    BY <1>2, <1>3 DEF StartFinalization, At
  <2>2. row.completed = job[j].completed /\ row.count = job[j].count
    BY <2>1 DEF JobRow
  <2>3. job' = [job EXCEPT ![j] = row] /\ UNCHANGED item
    BY <2>1, <1>3 DEF StartFinalization, TypeInv, JobsTyped, JobRow
  <2> HIDE DEF row
  <2> QED
    BY <2>1, <2>2, <2>3, RowKeepsCounters
<1>4. CASE Block(w)
  <2> DEFINE row == Blocked(job[j], run[w].why)
  <2>1. j \in Job /\ job[j] \in JobRow
    BY <1>2, <1>4 DEF Block, At
  <2>2. row.completed = job[j].completed /\ row.count = job[j].count
    BY <2>1, ReleasedKeepsCounters DEF Blocked
  <2>3. job' = [job EXCEPT ![j] = row] /\ UNCHANGED item
    BY <2>1, <1>4 DEF Block, TypeInv, JobsTyped
  <2> HIDE DEF row
  <2> QED
    BY <2>1, <2>2, <2>3, RowKeepsCounters
<1>5. CASE Complete(w)
  <2>1. j \in Job /\ job[j] \in JobRow
    BY <1>2, <1>5 DEF Complete, At
  <2>2. PICK status, publication :
           job' = [job EXCEPT ![j] = [Released(@) EXCEPT
                     !.status = status, !.phase = "completed",
                     !.publication = publication, !.activeSite = FALSE]]
    BY <1>5 DEF Complete
  <2> DEFINE row == [Released(job[j]) EXCEPT !.status = status, !.phase = "completed",
                                             !.publication = publication, !.activeSite = FALSE]
  <2>3. row.completed = job[j].completed /\ row.count = job[j].count
    BY <2>1, ReleasedKeepsCounters
  <2>4. job' = [job EXCEPT ![j] = row] /\ UNCHANGED item
    BY <2>1, <2>2, <1>5 DEF Complete, TypeInv, JobsTyped
  <2> HIDE DEF row
  <2> QED
    BY <2>1, <2>3, <2>4, RowKeepsCounters
<1> QED
  BY <1>1, <1>3, <1>4, <1>5
     DEF Finalize, Inventory, PublishStagedSync, PublishRaises, FinalizationRefused, Raise

LEMMA TimeCounts ==
    ASSUME TypeInv, CountInv, TimePasses
    PROVE  CountInv'
<1>1. ASSUME NEW j \in Job, LeaseExpires(j) \/ RetentionExpires(j) \/ BackoffElapses(j)
      PROVE  CountInv'
  <2>1. \A k \in Job : job'[k].completed = job[k].completed /\ job'[k].count = job[k].count
    BY <1>1 DEF LeaseExpires, RetentionExpires, BackoffElapses, TypeInv, JobsTyped, JobRow
  <2> QED
    BY <1>1, <2>1, CountsKept DEF LeaseExpires, RetentionExpires, BackoffElapses, Steady
<1>2. ASSUME NEW j \in Job, NEW i \in Item, ItemLeaseExpires(j, i) \/ ItemDue(j, i)
      PROVE  CountInv'
  <2>1. item \in [Job -> [Item -> PageRow]]
    BY DEF TypeInv, ItemsTyped
  <2>2. PICK row : /\ item' = [item EXCEPT ![j] = [item[j] EXCEPT ![i] = row]]
                   /\ row.status = item[j][i].status
    <3>1. item[j][i] \in PageRow
      BY <2>1
    <3>2. CASE ItemLeaseExpires(j, i)
      <4>1. [item[j][i] EXCEPT !.lease = "expired"].status = item[j][i].status
        BY <3>1 DEF PageRow
      <4> QED
        BY <3>2, <4>1 DEF ItemLeaseExpires
    <3>3. CASE ItemDue(j, i)
      <4>1. [item[j][i] EXCEPT !.waiting = FALSE].status = item[j][i].status
        BY <3>1 DEF PageRow
      <4> QED
        BY <3>3, <4>1 DEF ItemDue
    <3> QED
      BY <1>2, <3>2, <3>3
  <2>3. \A k \in Job : \A l \in Item : item'[k][l].status = item[k][l].status
    BY <2>1, <2>2
  <2> QED
    BY <1>2, <2>3, CountsKept DEF ItemLeaseExpires, ItemDue, Steady
<1> QED
  BY <1>1, <1>2 DEF TimePasses

LEMMA NextCounts ==
    ASSUME TypeInv, CountInv, [Next]_vars
    PROVE  CountInv'
<1>1. CASE UNCHANGED <<job, item>>
  BY <1>1, CountsKept DEF Steady
<1>2. CASE \E w \in Worker : WorkerStep(w) \/ Disturbance(w)
  BY <1>1, <1>2, ClaimCounts, PrepareCounts, ProcessPagesCounts, FinalizeCounts, StopOrCleanCounts
     DEF WorkerStep, LeaveLost, Disturbance, HeartbeatStops, FinalizationTimeout, Fault, Crash
<1> QED
  BY <1>1, <1>2, OperatorCounts, TimeCounts DEF Next, vars

LEMMA InitCounts == Init => CountInv
<1> SUFFICES ASSUME Init, NEW j \in Job
             PROVE  RowCounts(job[j], item[j])
  BY DEF CountInv
<1>1. job[j].completed = 0 /\ \A s \in CountedStatus : job[j].count[s] = 0
  BY DEF Init, NoRow
<1>2. \A S : S \subseteq PageDone => Having(item[j], S) = {}
  BY DEF Init, NoPage, Having, PageDone, CountedStatus
<1>3. Cardinality({}) = 0
  BY FS_EmptySet
<1> QED
  BY <1>1, <1>2, <1>3, ClassesAreDisjoint DEF RowCounts

\* The counters of every job are exactly its page rows, for any number of jobs,
\* pages and workers, through every sweep, promotion, cancel, retry and abort:
\* the gate that starts a finalization reads what the pages say.
THEOREM CountersAreExact == Spec => []CountersMatchPages
<1>1. TypeInv /\ CountInv /\ [Next]_vars => TypeInv' /\ CountInv'
  BY NextTyped, NextCounts
<1>2. Spec => []CountInv
  BY <1>1, InitTyped, InitCounts, PTL DEF Spec
<1> QED
  BY <1>2, CountInvIsCountersMatchPages, PTL

-----------------------------------------------------------------------------
(* What the lease fences alone guarantee of shadow jobs, which have no staged  *)
(* snapshot to abort                                                           *)

Shadow == Job \ Production
StillOpen == {"preparing", "queued", "running", "blocked"}

\* A shadow job never enters a cleanup, no version of it goes stale, and it
\* holds its site's key exactly while it is unfinished.
ShadowRow(r) ==
    /\ r.status # "cleanup_pending"
    /\ r.report # "stale"
    /\ r.activeSite <=> r.status \in StillOpen

\* The points where a run begins, publishes or aborts a staged snapshot.
StagingPc == {"begin", "publish", "cancelAbort", "abort", "cleanupAbort", "cleanupFail",
              "cleanupRelease"}

ShadowRun(r) == r.job \in Shadow => r.pc \notin StagingPc /\ r.why # "stale"

ShadowInv == /\ TypeInv
             /\ \A j \in Shadow : ShadowRow(job[j])
             /\ \A w \in Worker : ShadowRun(run[w])

\* What a transaction may do to a shadow job's row.
Lawful(r, q) ==
    /\ ShadowRow(q)
    /\ r.status \in Terminal => q.status = r.status
    /\ q.activeSite => r.activeSite

ShadowRowsMove == \A j \in Shadow : Lawful(job[j], job'[j])
ShadowRunsMove == \A w \in Worker : ShadowRun(run'[w])

\* What a transaction may do to a page of a shadow job.
Durable(p, q) == p.status \in {"succeeded", "not_modified"} => q.status = p.status
ShadowPagesMove == \A j \in Shadow, i \in Item : Durable(item[j][i], item'[j][i])

LEMMA IdleRows ==
    ASSUME ShadowInv, UNCHANGED job
    PROVE  ShadowRowsMove
BY DEF ShadowInv, ShadowRowsMove, Lawful

LEMMA IdlePages ==
    ASSUME UNCHANGED item
    PROVE  ShadowPagesMove
BY DEF ShadowPagesMove, Durable

LEMMA OneRowMoves ==
    ASSUME ShadowInv, NEW j \in Job, NEW row, j \in Shadow => Lawful(job[j], row),
           job' = [job EXCEPT ![j] = row]
    PROVE  ShadowRowsMove
<1>1. \A k \in Job : job'[k] = IF k = j THEN row ELSE job[k]
  BY DEF ShadowInv, TypeInv, JobsTyped
<1>2. \A k \in Shadow : Lawful(job[k], job[k])
  BY DEF ShadowInv, Lawful
<1> QED
  BY <1>1, <1>2 DEF ShadowRowsMove, Shadow

LEMMA PagesOfOneJobMove ==
    ASSUME ShadowInv, NEW j \in Job, NEW f,
           j \in Shadow => \A i \in Item : Durable(item[j][i], f[i]),
           item' = [item EXCEPT ![j] = f]
    PROVE  ShadowPagesMove
<1>1. \A k \in Job : item'[k] = IF k = j THEN f ELSE item[k]
  BY DEF ShadowInv, TypeInv, ItemsTyped
<1> QED
  BY <1>1 DEF ShadowPagesMove, Shadow, Durable

LEMMA OneRunMoves ==
    ASSUME ShadowInv, NEW w \in Worker, NEW r, ShadowRun(r), run' = [run EXCEPT ![w] = r]
    PROVE  ShadowRunsMove
BY DEF ShadowInv, ShadowRunsMove, TypeInv, RunsTyped

LEMMA OneRunGoesTo ==
    ASSUME ShadowInv, NEW w \in Worker, NEW pc, run[w].job \in Shadow => pc \notin StagingPc,
           Goto(w, pc)
    PROVE  ShadowRunsMove
<1> DEFINE r == [run[w] EXCEPT !.pc = pc]
<1>1. run[w] \in RunState /\ ShadowRun(run[w])
  BY DEF ShadowInv, TypeInv, RunsTyped
<1>2. ShadowRun(r)
  BY <1>1 DEF ShadowRun, RunState
<1>3. run' = [run EXCEPT ![w] = r]
  BY DEF Goto, ShadowInv, TypeInv, RunsTyped
<1> QED
  BY <1>2, <1>3, OneRunMoves

LEMMA OneRunLeaves ==
    ASSUME ShadowInv, NEW w \in Worker, Leave(w)
    PROVE  ShadowRunsMove
<1>1. ShadowRun(IdleRun)
  BY DEF ShadowRun, IdleRun, StagingPc
<1> QED
  BY <1>1, OneRunMoves DEF Leave

LEMMA ShadowHandler == \A j \in Shadow : HandlerPc(j) = "storeFail"
BY DEF HandlerPc, Shadow

\* Counters change nothing else of a row.
LEMMA CountingKeepsRow ==
    ASSUME NEW r \in JobRow, NEW s, NEW n
    PROVE  LET c == Counted(r, s, n)
               u == Uncounted(r, s, n)
           IN  /\ c.status = r.status /\ c.report = r.report /\ c.activeSite = r.activeSite
               /\ u.status = r.status /\ u.report = r.report /\ u.activeSite = r.activeSite
BY DEF Counted, Uncounted, JobRow

LEMMA CountingIsLawful ==
    ASSUME NEW r \in JobRow, ShadowRow(r), NEW s, NEW n
    PROVE  Lawful(r, Counted(r, s, n)) /\ Lawful(r, Uncounted(r, s, n))
BY CountingKeepsRow DEF Lawful, ShadowRow

-----------------------------------------------------------------------------
(* The operator *)

\* Only enqueue takes a site's key, and only of a site nobody holds.
LEMMA EnqueueShadow ==
    ASSUME ShadowInv, NEW j \in Job, Enqueue(j)
    PROVE  \A k \in Shadow : ShadowRow(job'[k]) /\ (job[k].status \in Terminal =>
                                                      job'[k].status = job[k].status)
<1> DEFINE row == [job[j] EXCEPT !.status = "preparing", !.activeSite = TRUE,
                     !.publication = IF j \in Production THEN "pending" ELSE "not_requested"]
<1>1. job[j] \in JobRow
  BY DEF ShadowInv, TypeInv, JobsTyped
<1>2. \A k \in Job : job'[k] = IF k = j THEN row ELSE job[k]
  BY <1>1 DEF Enqueue, ShadowInv, TypeInv, JobsTyped, JobRow
<1>3. j \in Shadow => ShadowRow(row)
  BY <1>1 DEF ShadowInv, ShadowRow, JobRow, StillOpen
<1> QED
  BY <1>2, <1>3 DEF Enqueue, ShadowInv, Shadow, Terminal

LEMMA RequestCancelShadow ==
    ASSUME ShadowInv, NEW j \in Job, RequestCancel(j)
    PROVE  ShadowRowsMove /\ ShadowPagesMove
<1> DEFINE counted == Counted(job[j], "canceled", Cardinality(PagesIn(j, {"pending"})))
           canceled == [counted EXCEPT
                          !.status = "canceled", !.phase = "completed", !.cancel = TRUE,
                          !.activeSite = FALSE, !.publication = CanceledPublication(j)]
           marked == [job[j] EXCEPT !.cancel = TRUE]
<1>1. job[j] \in JobRow /\ (j \in Shadow => ShadowRow(job[j]))
  BY DEF ShadowInv, TypeInv, JobsTyped
<1>2. CASE job[j].status \in {"preparing", "queued"}
  <2>1. job' = [job EXCEPT ![j] = canceled]
    BY <1>2 DEF RequestCancel, ShadowInv, TypeInv, JobsTyped
  <2>2. canceled.status = "canceled" /\ canceled.report = job[j].report /\ ~canceled.activeSite
    BY <1>1 DEF Counted, JobRow
  <2>3. j \in Shadow => Lawful(job[j], canceled)
    BY <1>1, <1>2, <2>2 DEF Lawful, ShadowRow, StillOpen, Terminal
  <2>4. item' = [item EXCEPT ![j] = CanceledPages(j, {"pending"})]
    BY <1>2 DEF RequestCancel
  <2>5. \A i \in Item : Durable(item[j][i], CanceledPages(j, {"pending"})[i])
    BY DEF CanceledPages, Durable
  <2> QED
    BY <2>1, <2>3, <2>4, <2>5, OneRowMoves, PagesOfOneJobMove
<1>3. CASE job[j].status \notin {"preparing", "queued"}
  <2>1. job' = [job EXCEPT ![j] = marked] /\ UNCHANGED item
    BY <1>1, <1>3 DEF RequestCancel, ShadowInv, TypeInv, JobsTyped, JobRow
  <2>2. j \in Shadow => Lawful(job[j], marked)
    BY <1>1 DEF Lawful, ShadowRow, JobRow
  <2> QED
    BY <2>1, <2>2, OneRowMoves, IdlePages
<1> QED
  BY <1>2, <1>3

LEMMA RetryBlockedShadow ==
    ASSUME ShadowInv, NEW j \in Job, RetryBlocked(j)
    PROVE  ShadowRowsMove /\ ShadowPagesMove
<1>1. job[j] \in JobRow /\ (j \in Shadow => ShadowRow(job[j])) /\ job[j].status = "blocked"
  BY DEF ShadowInv, TypeInv, JobsTyped, RetryBlocked
<1>2. PICK phase, n : job' = [job EXCEPT ![j] =
               [Reopened(job[j], phase) EXCEPT !.completed = Monus(@, n), !.count["failed"] = 0]]
  BY DEF RetryBlocked
<1> DEFINE row == [Reopened(job[j], phase) EXCEPT !.completed = Monus(@, n), !.count["failed"] = 0]
<1>3. row.status = "queued" /\ row.report = "none" /\ row.activeSite = job[j].activeSite
  BY <1>1 DEF Reopened, JobRow
<1>4. j \in Shadow => Lawful(job[j], row)
  BY <1>1, <1>3 DEF Lawful, ShadowRow, StillOpen, Terminal
<1> DEFINE f == [i \in Item |-> IF i \in PagesIn(j, {"failed"})
                                THEN [NoPage EXCEPT !.status = "pending"] ELSE item[j][i]]
<1>5. item' = [item EXCEPT ![j] = f]
  BY DEF RetryBlocked
<1>6. \A i \in Item : Durable(item[j][i], f[i])
  BY DEF Durable, PagesIn
<1> QED
  BY <1>2, <1>4, <1>5, <1>6, OneRowMoves, PagesOfOneJobMove

\* A shadow job's report never names a stale version, so nothing is reconciled.
LEMMA ReconcileShadow ==
    ASSUME ShadowInv, NEW j \in Job, NEW S \in SUBSET Item, ReconcileStaleVersions(j, S)
    PROVE  ShadowRowsMove /\ ShadowPagesMove
<1>1. j \notin Shadow
  BY DEF ReconcileStaleVersions, ShadowInv, ShadowRow
<1>2. (\E row : job' = [job EXCEPT ![j] = row]) /\ (\E f : item' = [item EXCEPT ![j] = f])
  BY DEF ReconcileStaleVersions
<1> QED
  BY <1>1, <1>2, OneRowMoves, PagesOfOneJobMove
-----------------------------------------------------------------------------
(* Claims and page work *)

LEMMA SweptShadow ==
    ASSUME ShadowInv, NEW j \in Shadow
    PROVE  /\ Lawful(job[j], Swept(j))
           /\ Swept(j) \in JobRow
<1>1. job[j] \in JobRow /\ ShadowRow(job[j]) /\ Swept(j) \in JobRow
  BY SweptJob DEF ShadowInv, TypeInv, JobsTyped, Shadow
<1>2. CASE ~Exhausted(job[j])
  BY <1>1, <1>2 DEF Swept, Lawful
<1>3. CASE Exhausted(job[j])
  <2> DEFINE row == [Released(job[j]) EXCEPT !.status = "failed", !.phase = "completed",
                                             !.activeSite = FALSE]
  <2>1. Swept(j) = row
    BY <1>3 DEF Swept, Shadow
  <2>2. row.status = "failed" /\ row.report = job[j].report /\ ~row.activeSite
    BY <1>1 DEF Released, JobRow
  <2>3. job[j].status \notin Terminal
    BY <1>3 DEF Exhausted, Terminal
  <2> HIDE DEF row
  <2>4. Lawful(job[j], row)
    BY <1>1, <2>2, <2>3 DEF Lawful, ShadowRow, StillOpen
  <2> QED
    BY <1>1, <2>1, <2>4
<1> QED
  BY <1>2, <1>3

LEMMA ClaimedShadow ==
    ASSUME NEW r \in JobRow, ShadowRow(r), NEW w,
           r.status \in {"preparing", "queued", "running", "blocked"}
    PROVE  LET c == Claimed(r, w) IN
           /\ c.status = IF r.status = "preparing" THEN "preparing" ELSE "running"
           /\ Lawful(r, c)
<1> DEFINE l == LeasedTo(r, w)
<1>1. l.status = r.status /\ l.report = r.report /\ l.activeSite = r.activeSite
  BY DEF LeasedTo, JobRow
<1>2. /\ Claimed(r, w).status = IF r.status = "preparing" THEN "preparing" ELSE "running"
      /\ Claimed(r, w).report = r.report
      /\ Claimed(r, w).activeSite = r.activeSite
  BY <1>1 DEF Claimed, LeasedTo, JobRow
<1> QED
  BY <1>2 DEF Lawful, ShadowRow, StillOpen, Terminal

LEMMA ClaimShadow ==
    ASSUME ShadowInv, NEW w \in Worker, Claim(w)
    PROVE  ShadowRowsMove /\ ShadowPagesMove /\ ShadowRunsMove
<1>1. ASSUME NEW j \in Job, ClaimNext(w, j)
      PROVE  ShadowRowsMove /\ ShadowPagesMove /\ ShadowRunsMove
  <2> DEFINE r == Claimed(Swept(j), w)
             idle == [IdleRun EXCEPT !.pc = EntryPc(j, r), !.job = j]
  <2>1. ASSUME j \in Shadow
        PROVE  /\ r.status \in {"preparing", "running"}
               /\ Lawful(job[j], r)
    <3>1. Swept(j) \in JobRow /\ Lawful(job[j], Swept(j)) /\ ShadowRow(Swept(j))
      BY <2>1, SweptShadow DEF Lawful
    <3>2. Swept(j).status \in {"preparing", "queued", "running", "blocked"}
      BY <1>1, <3>1 DEF ClaimNext, Claimable, ShadowRow
    <3>3. Lawful(Swept(j), r) /\ r.status \in {"preparing", "running"}
      BY <3>1, <3>2, ClaimedShadow
    <3> QED
      BY <3>1, <3>2, <3>3 DEF Lawful, Terminal
  <2>2. \A k \in Job : job'[k] = IF k = j THEN r ELSE Swept(k)
    BY <1>1 DEF ClaimNext
  <2>3. ShadowRowsMove
    BY <2>1, <2>2, SweptShadow DEF ShadowRowsMove, Shadow
  <2>4. j \in Shadow => EntryPc(j, r) \notin StagingPc
    BY <2>1 DEF EntryPc, StagingPc, Shadow
  <2>5. ShadowRun(idle)
    BY <2>4 DEF ShadowRun, IdleRun
  <2>6. ShadowRunsMove
    BY <1>1, <2>5, OneRunMoves DEF ClaimNext
  <2> QED
    BY <1>1, <2>3, <2>6, IdlePages DEF ClaimNext
<1>2. CASE ClaimNothing(w)
  <2>1. ShadowRowsMove
    BY <1>2, SweptShadow DEF ClaimNothing, ShadowRowsMove, Shadow
  <2>2. ShadowPagesMove /\ ShadowRunsMove
    BY <1>2, IdlePages DEF ClaimNothing, ShadowInv, ShadowRunsMove
  <2> QED
    BY <2>1, <2>2
<1> QED
  BY <1>1, <1>2 DEF Claim

\* A run that only sets bookkeeping of its own stays where it is.
LEMMA RunStays ==
    ASSUME ShadowInv, NEW w \in Worker, NEW r, r.pc = run[w].pc \/ r.pc \in {"batch", "inventory"},
           r.job = run[w].job, r.why = run[w].why, run' = [run EXCEPT ![w] = r]
    PROVE  ShadowRunsMove
<1>1. ShadowRun(run[w])
  BY DEF ShadowInv
<1>2. ShadowRun(r)
  BY <1>1 DEF ShadowRun, StagingPc
<1> QED
  BY <1>2, OneRunMoves

LEMMA ReleasedRow ==
    ASSUME NEW r \in JobRow
    PROVE  LET q == Released(r) IN /\ q \in JobRow /\ q.status = r.status
                                   /\ q.report = r.report /\ q.activeSite = r.activeSite
BY ReleasedJob DEF Released, JobRow

LEMMA PrepareShadow ==
    ASSUME ShadowInv, NEW w \in Worker, Prepare(w)
    PROVE  ShadowRowsMove /\ ShadowPagesMove /\ ShadowRunsMove
<1> DEFINE j == run[w].job
           worked == [run[w] EXCEPT !.worked = TRUE]
<1>1. /\ At(w, "prepare") /\ j \in Job
      /\ job[j] \in JobRow
      /\ j \in Shadow => ShadowRow(job[j])
      /\ run[w] \in RunState
  BY RunHasJob DEF Prepare, AppendPreparedItem, ApplyDuplicatePolicy, YieldPreparation,
                   FinishPreparation, PreparationRefused, At, ShadowInv, TypeInv, JobsTyped,
                   RunsTyped
<1>2. ASSUME run' = [run EXCEPT ![w].worked = TRUE] PROVE ShadowRunsMove
  <2>1. run' = [run EXCEPT ![w] = worked]
    BY <1>2 DEF ShadowInv, TypeInv, RunsTyped
  <2>2. worked.pc = run[w].pc /\ worked.job = run[w].job /\ worked.why = run[w].why
    BY <1>1 DEF RunState
  <2> QED
    BY <2>1, <2>2, RunStays
<1>3. CASE \E i \in Item : AppendPreparedItem(w, i)
  <2>1. PICK i \in Item : AppendPreparedItem(w, i)
    BY <1>3
  <2> DEFINE f == [item[j] EXCEPT ![i].status = "pending"]
  <2>2. item' = [item EXCEPT ![j] = f]
    BY <1>1, <2>1 DEF AppendPreparedItem, ShadowInv, TypeInv, ItemsTyped
  <2>3. \A k \in Item : Durable(item[j][k], f[k])
    BY <1>1, <2>1 DEF AppendPreparedItem, Durable, ShadowInv, TypeInv, ItemsTyped
  <2> QED
    BY <1>1, <1>2, <2>1, <2>2, <2>3, PagesOfOneJobMove, IdleRows DEF AppendPreparedItem
<1>4. CASE ApplyDuplicatePolicy(w)
  <2> DEFINE excluded == Loser \cap PagesIn(j, {"pending"})
             counted == Counted(job[j], "excluded", Cardinality(excluded))
             row == [counted EXCEPT !.elected = TRUE]
             f == [i \in Item |-> IF i \in excluded THEN [item[j][i] EXCEPT !.status = "duplicate"]
                                                    ELSE item[j][i]]
  <2>1. job' = [job EXCEPT ![j] = row] /\ item' = [item EXCEPT ![j] = f]
    BY <1>1, <1>4 DEF ApplyDuplicatePolicy, ShadowInv, TypeInv, JobsTyped
  <2>2. row.status = job[j].status /\ row.report = job[j].report
           /\ row.activeSite = job[j].activeSite
    BY <1>1 DEF Counted, JobRow
  <2>3. j \in Shadow => Lawful(job[j], row)
    BY <1>1, <2>2 DEF Lawful, ShadowRow
  <2>4. \A k \in Item : Durable(item[j][k], f[k])
    BY DEF Durable, PagesIn
  <2> QED
    BY <1>1, <1>2, <1>4, <2>1, <2>3, <2>4, OneRowMoves, PagesOfOneJobMove DEF ApplyDuplicatePolicy
<1>5. CASE YieldPreparation(w)
  <2>1. job' = [job EXCEPT ![j] = Released(job[j])]
    BY <1>1, <1>5 DEF YieldPreparation, ShadowInv, TypeInv, JobsTyped
  <2>2. j \in Shadow => Lawful(job[j], Released(job[j]))
    BY <1>1, ReleasedRow DEF Lawful, ShadowRow
  <2> QED
    BY <1>1, <1>5, <2>1, <2>2, OneRowMoves, IdlePages, OneRunLeaves DEF YieldPreparation
<1>6. CASE FinishPreparation(w)
  <2> DEFINE r == Released(job[j])
             row == [r EXCEPT !.status = "queued", !.phase = "queued", !.failures = 0]
  <2>1. job' = [job EXCEPT ![j] = row]
    BY <1>1, <1>6 DEF FinishPreparation, ShadowInv, TypeInv, JobsTyped
  <2>2. job[j].status = "preparing"
    BY <1>6 DEF FinishPreparation, Holds
  <2>3. row.status = "queued" /\ row.report = job[j].report /\ row.activeSite = job[j].activeSite
    BY <1>1, ReleasedRow DEF JobRow
  <2>4. j \in Shadow => Lawful(job[j], row)
    BY <1>1, <2>2, <2>3 DEF Lawful, ShadowRow, StillOpen, Terminal
  <2> QED
    BY <1>1, <1>6, <2>1, <2>4, OneRowMoves, IdlePages, OneRunLeaves DEF FinishPreparation
<1>7. CASE PreparationRefused(w)
  BY <1>7, IdleRows, IdlePages, OneRunGoesTo DEF PreparationRefused, StagingPc
<1> QED
  BY <1>3, <1>4, <1>5, <1>6, <1>7 DEF Prepare
LEMMA SweepShadow ==
    ASSUME ShadowInv, NEW j \in Job, job' = SweptCounts(j)
    PROVE  ShadowRowsMove
<1> DEFINE row == Counted(job[j], "failed", Cardinality(OutOfAttempts(j)))
<1>1. job[j] \in JobRow /\ (j \in Shadow => ShadowRow(job[j]))
  BY DEF ShadowInv, TypeInv, JobsTyped
<1>2. job' = [job EXCEPT ![j] = row]
  BY DEF SweptCounts, ShadowInv, TypeInv, JobsTyped
<1>3. j \in Shadow => Lawful(job[j], row)
  BY <1>1, CountingIsLawful
<1> QED
  BY <1>2, <1>3, OneRowMoves

LEMMA SweptPagesDurable ==
    \A j \in Job : \A i \in Item : Durable(item[j][i], SweptPages(j)[i])
BY DEF SweptPages, OutOfAttempts, Durable

LEMMA ProcessPagesShadow ==
    ASSUME ShadowInv, NEW w \in Worker, ProcessPages(w)
    PROVE  ShadowRowsMove /\ ShadowPagesMove /\ ShadowRunsMove
<1> DEFINE j == run[w].job
<1>1. /\ j \in Job
      /\ job[j] \in JobRow
      /\ j \in Shadow => ShadowRow(job[j])
      /\ run[w] \in RunState /\ ShadowRun(run[w])
  <2>1. ~At(w, "idle")
    BY DEF ProcessPages, BeginStagedSync, LoopHead, ClaimNextItem, ClaimNoItem, CompleteItem,
           FailItem, BatchRefused, EndBatch, PromoteDuplicateFallbacks, RequeueIncomplete,
           LoopRefused, At
  <2> QED
    BY <2>1, RunHasJob DEF ShadowInv, TypeInv, JobsTyped, RunsTyped
<1>2. CASE BeginStagedSync(w)
  BY <1>2, IdleRows, IdlePages, OneRunGoesTo DEF BeginStagedSync, StagingPc
<1>3. CASE LoopHead(w)
  <2> DEFINE batch == [run[w] EXCEPT !.pc = "batch", !.slots = Concurrency, !.got = FALSE]
  <2>1. ASSUME Goto(w, IF j \in Production THEN "cancelAbort" ELSE "cancelStore")
        PROVE  ShadowRunsMove
    BY <2>1, OneRunGoesTo DEF StagingPc, Shadow
  <2>2. ASSUME Goto(w, IF Processed(job[j]) THEN "finalize" ELSE "requeue")
        PROVE  ShadowRunsMove
    BY <2>2, OneRunGoesTo DEF StagingPc
  <2>3. ASSUME run' = [run EXCEPT ![w].pc = "batch", ![w].slots = Concurrency, ![w].got = FALSE]
        PROVE  ShadowRunsMove
    <3>1. run' = [run EXCEPT ![w] = batch]
      BY <2>3 DEF ShadowInv, TypeInv, RunsTyped
    <3>2. batch.pc = "batch" /\ batch.job = run[w].job /\ batch.why = run[w].why
      BY <1>1 DEF RunState
    <3> QED
      BY <3>1, <3>2, RunStays
  <2>4. ShadowRunsMove
    BY <1>3, <2>1, <2>2, <2>3 DEF LoopHead
  <2> QED
    BY <1>3, <2>4, IdleRows, IdlePages DEF LoopHead
<1>4. CASE \E i \in Item : ClaimNextItem(w, i)
  <2>1. PICK i \in Item : ClaimNextItem(w, i)
    BY <1>4
  <2>2. PICK page : item' = [item EXCEPT ![j] = [SweptPages(j) EXCEPT ![i] = page]]
    BY <2>1 DEF ClaimNextItem
  <2> DEFINE f == [SweptPages(j) EXCEPT ![i] = page]
             r == [run[w] EXCEPT !.slots = run[w].slots - 1,
                                 !.pages = [run[w].pages EXCEPT ![i] = @ + 1]]
  <2>3. item[j][i].status \in {"pending", "fetching"}
    BY <2>1 DEF ClaimNextItem, Due
  <2>4. \A k \in Item : Durable(item[j][k], f[k])
    BY <1>1, <2>3, SweptPagesDurable DEF Durable, SweptPages
  <2>5. run' = [run EXCEPT ![w] = r]
    BY <2>1 DEF ClaimNextItem, ShadowInv, TypeInv, RunsTyped, RunState
  <2>6. r.pc = run[w].pc /\ r.job = run[w].job /\ r.why = run[w].why
    BY <1>1 DEF RunState
  <2>7. ShadowRunsMove
    BY <2>5, <2>6, RunStays
  <2> QED
    BY <1>1, <2>1, <2>2, <2>4, <2>7, SweepShadow, PagesOfOneJobMove DEF ClaimNextItem
<1>5. CASE ClaimNoItem(w)
  <2> DEFINE r == [run[w] EXCEPT !.slots = run[w].slots - 1]
  <2>1. run' = [run EXCEPT ![w] = r]
    BY <1>5 DEF ClaimNoItem, ShadowInv, TypeInv, RunsTyped
  <2>2. r.pc = run[w].pc /\ r.job = run[w].job /\ r.why = run[w].why
    BY <1>1 DEF RunState
  <2>3. ShadowRunsMove
    BY <2>1, <2>2, RunStays
  <2> QED
    BY <1>1, <1>5, <2>3, SweepShadow, SweptPagesDurable, PagesOfOneJobMove DEF ClaimNoItem
<1>6. ASSUME NEW i \in Item, PageHandled(w, i) PROVE ShadowRunsMove
  <2> DEFINE r == [run[w] EXCEPT !.pages = [run[w].pages EXCEPT ![i] = @ - 1],
                                 !.got = TRUE, !.worked = TRUE]
  <2>1. run' = [run EXCEPT ![w] = r]
    BY <1>6 DEF PageHandled, ShadowInv, TypeInv, RunsTyped, RunState
  <2>2. r.pc = run[w].pc /\ r.job = run[w].job /\ r.why = run[w].why
    BY <1>1 DEF RunState
  <2> QED
    BY <2>1, <2>2, RunStays
<1>7. ASSUME NEW i \in Item, HoldsPage(w, i),
             \E page : item' = [item EXCEPT ![j][i] = page]
      PROVE  ShadowPagesMove
  <2>1. PICK page : item' = [item EXCEPT ![j][i] = page]
    BY <1>7
  <2> DEFINE f == [item[j] EXCEPT ![i] = page]
  <2>2. item' = [item EXCEPT ![j] = f]
    BY <2>1 DEF ShadowInv, TypeInv, ItemsTyped
  <2>3. \A k \in Item : Durable(item[j][k], f[k])
    BY <1>1, <1>7 DEF HoldsPage, Durable, ShadowInv, TypeInv, ItemsTyped
  <2> QED
    BY <1>1, <2>2, <2>3, PagesOfOneJobMove
<1>8. CASE \E i \in Item, status \in {"succeeded", "not_modified", "excluded"} :
              CompleteItem(w, i, status)
  <2>1. PICK i \in Item, status \in {"succeeded", "not_modified", "excluded"} :
               CompleteItem(w, i, status)
    BY <1>8
  <2>2. job' = [job EXCEPT ![j] = Counted(job[j], status, 1)]
    BY <1>1, <2>1 DEF CompleteItem, ShadowInv, TypeInv, JobsTyped
  <2>3. ShadowRowsMove
    BY <1>1, <2>2, CountingIsLawful, OneRowMoves
  <2>4. ShadowPagesMove
    <3>1. item' = [item EXCEPT ![j][i] = [Released(item[j][i]) EXCEPT !.status = status]]
      BY <1>1, <2>1 DEF CompleteItem, ShadowInv, TypeInv, ItemsTyped
    <3> QED
      BY <1>7, <2>1, <3>1 DEF CompleteItem
  <2> QED
    BY <1>6, <2>1, <2>3, <2>4 DEF CompleteItem
<1>9. CASE \E i \in Item, retryable \in BOOLEAN : FailItem(w, i, retryable)
  <2>1. PICK i \in Item, retryable \in BOOLEAN : FailItem(w, i, retryable)
    BY <1>9
  <2>2. job' = IF retryable THEN job ELSE [job EXCEPT ![j] = Counted(job[j], "failed", 1)]
    BY <1>1, <2>1 DEF FailItem, ShadowInv, TypeInv, JobsTyped
  <2>3. ShadowRowsMove
    BY <1>1, <2>2, CountingIsLawful, OneRowMoves, IdleRows
  <2>4. ShadowPagesMove
    <3>1. \E page : item' = [item EXCEPT ![j][i] = page]
      BY <1>1, <2>1 DEF FailItem, ShadowInv, TypeInv, ItemsTyped
    <3> QED
      BY <1>7, <2>1, <3>1 DEF FailItem
  <2> QED
    BY <1>6, <2>1, <2>3, <2>4 DEF FailItem
<1>10. CASE EndBatch(w)
  BY <1>10, IdleRows, IdlePages, OneRunGoesTo DEF EndBatch, StagingPc
<1>11. CASE PromoteDuplicateFallbacks(w)
  <2> DEFINE n == Cardinality(Promotable(j))
             f == [i \in Item |-> IF i \in Promotable(j) THEN [item[j][i] EXCEPT !.status = "pending"]
                                                         ELSE item[j][i]]
  <2>1. job' = [job EXCEPT ![j] = Uncounted(job[j], "excluded", n)] /\ item' = [item EXCEPT ![j] = f]
    BY <1>1, <1>11 DEF PromoteDuplicateFallbacks, ShadowInv, TypeInv, JobsTyped
  <2>2. ShadowRowsMove
    BY <1>1, <2>1, CountingIsLawful, OneRowMoves
  <2>3. \A i \in Item : Durable(item[j][i], f[i])
    BY DEF Promotable, Durable
  <2>4. ShadowRunsMove
    BY <1>11, OneRunGoesTo DEF PromoteDuplicateFallbacks, StagingPc
  <2> QED
    BY <1>1, <2>1, <2>2, <2>3, <2>4, PagesOfOneJobMove
<1>12. CASE RequeueIncomplete(w)
  <2> DEFINE row == [Released(job[j]) EXCEPT !.status = "queued", !.phase = "queued"]
  <2>1. job' = [job EXCEPT ![j] = row]
    BY <1>1, <1>12 DEF RequeueIncomplete, ShadowInv, TypeInv, JobsTyped
  <2>2. job[j].status = "running"
    BY <1>12 DEF RequeueIncomplete, Holds
  <2>3. row.status = "queued" /\ row.report = job[j].report /\ row.activeSite = job[j].activeSite
    BY <1>1, ReleasedRow DEF JobRow
  <2>4. j \in Shadow => Lawful(job[j], row)
    BY <1>1, <2>2, <2>3 DEF Lawful, ShadowRow, StillOpen, Terminal
  <2> QED
    BY <1>1, <1>12, <2>1, <2>4, OneRowMoves, IdlePages, OneRunLeaves DEF RequeueIncomplete
<1>13. CASE BatchRefused(w) \/ LoopRefused(w)
  <2>1. Raise(w)
    BY <1>13 DEF BatchRefused, LoopRefused
  <2>2. j \in Shadow => HandlerPc(j) \notin StagingPc
    BY ShadowHandler DEF StagingPc
  <2> QED
    BY <2>1, <2>2, IdleRows, IdlePages, OneRunGoesTo DEF Raise
<1> QED
  BY <1>2, <1>3, <1>4, <1>5, <1>8, <1>9, <1>10, <1>11, <1>12, <1>13 DEF ProcessPages
-----------------------------------------------------------------------------
(* Stopping and finalizing *)

\* A terminal row that gives up its site's key, written by a run whose fence
\* still holds.
LEMMA EndingIsLawful ==
    ASSUME NEW r \in JobRow, r.status \in {"preparing", "running", "cleanup_pending"}, ShadowRow(r),
           NEW q, q.status \in Terminal, q.report = r.report, q.activeSite = FALSE
    PROVE  Lawful(r, q)
BY DEF Lawful, ShadowRow, StillOpen, Terminal

\* An abort belongs to a production job, so it leaves every shadow job alone.
LEMMA AbortShadow ==
    ASSUME ShadowInv, NEW j \in Job \ Shadow, Abort(j)
    PROVE  ShadowRowsMove /\ ShadowPagesMove
<1>1. (\E row : job' = [job EXCEPT ![j] = row]) /\ (\E f : item' = [item EXCEPT ![j] = f])
  BY DEF Abort
<1> QED
  BY <1>1, OneRowMoves, PagesOfOneJobMove

LEMMA StopOrCleanShadow ==
    ASSUME ShadowInv, NEW w \in Worker, StopOrClean(w)
    PROVE  ShadowRowsMove /\ ShadowPagesMove /\ ShadowRunsMove
<1> DEFINE j == run[w].job
<1>1. /\ j \in Job
      /\ job[j] \in JobRow
      /\ j \in Shadow => ShadowRow(job[j])
      /\ run[w] \in RunState /\ ShadowRun(run[w])
  <2>1. ~At(w, "idle")
    BY DEF StopOrClean, AbortInHandler, StoreFail, CancelAbort, Cancel, CancelRefused,
           CleanupAbort, CleanupFail, ReleaseCleanup, CleanupRefused, At
  <2> QED
    BY <2>1, RunHasJob DEF ShadowInv, TypeInv, JobsTyped, RunsTyped
<1>2. ASSUME At(w, "abort") \/ At(w, "cancelAbort") \/ At(w, "cleanupAbort"),
             Abort(j), NEW pc, Goto(w, pc)
      PROVE  ShadowRowsMove /\ ShadowPagesMove /\ ShadowRunsMove
  <2>1. j \in Job \ Shadow
    BY <1>1, <1>2 DEF At, ShadowRun, StagingPc
  <2> QED
    BY <1>2, <2>1, AbortShadow, OneRunGoesTo
<1>3. CASE AbortInHandler(w) \/ CancelAbort(w) \/ CleanupAbort(w)
  BY <1>2, <1>3 DEF AbortInHandler, CancelAbort, CleanupAbort
<1>4. ASSUME Holds(w, {"preparing", "running", "cleanup_pending"}),
             job' = [job EXCEPT ![j] = Failed(j)]
      PROVE  ShadowRowsMove
  <2>1. Failed(j).status \in Terminal /\ Failed(j).report = job[j].report
           /\ Failed(j).activeSite = FALSE
    BY <1>1, ReleasedRow DEF Failed, JobRow, Terminal
  <2>2. job[j].status \in {"preparing", "running", "cleanup_pending"}
    BY <1>4 DEF Holds
  <2>3. j \in Shadow => Lawful(job[j], Failed(j))
    BY <1>1, <2>1, <2>2, EndingIsLawful
  <2> QED
    BY <1>1, <1>4, <2>3, OneRowMoves
<1>5. CASE StoreFail(w)
  BY <1>4, <1>5, IdleRows, IdlePages, OneRunLeaves DEF StoreFail
<1>6. CASE CleanupFail(w)
  BY <1>4, <1>6, IdlePages, OneRunLeaves DEF CleanupFail
<1>7. CASE Cancel(w)
  <2> DEFINE S == {"pending", "fetching"}
             counted == Counted(Released(job[j]), "canceled", Cardinality(PagesIn(j, S)))
             row == [counted EXCEPT !.status = "canceled", !.phase = "completed",
                       !.activeSite = FALSE, !.publication = CanceledPublication(j)]
  <2>1. job' = [job EXCEPT ![j] = row] /\ item' = [item EXCEPT ![j] = CanceledPages(j, S)]
    BY <1>7 DEF Cancel
  <2>2. row.status \in Terminal /\ row.report = job[j].report /\ row.activeSite = FALSE
    BY <1>1, ReleasedRow DEF Counted, JobRow, Terminal
  <2>5. job[j].status \in {"preparing", "running", "cleanup_pending"}
    BY <1>7 DEF Cancel, Holds
  <2> HIDE DEF row
  <2>3. j \in Shadow => Lawful(job[j], row)
    BY <1>1, <2>2, <2>5, EndingIsLawful
  <2>4. \A i \in Item : Durable(item[j][i], CanceledPages(j, S)[i])
    BY DEF CanceledPages, Durable
  <2> QED
    BY <1>1, <1>7, <2>1, <2>3, <2>4, OneRowMoves, PagesOfOneJobMove, OneRunLeaves DEF Cancel
<1>8. CASE CancelRefused(w)
  <2>1. j \in Shadow => HandlerPc(j) \notin StagingPc
    BY ShadowHandler DEF StagingPc
  <2> QED
    BY <1>8, <2>1, IdleRows, IdlePages, OneRunGoesTo DEF CancelRefused, Raise
<1>9. ASSUME At(w, "cleanupFail") \/ At(w, "cleanupRelease") PROVE j \notin Shadow
  BY <1>1, <1>9 DEF At, ShadowRun, StagingPc
<1>10. CASE ReleaseCleanup(w)
  <2>1. \E row : job' = [job EXCEPT ![j] = row]
    BY <1>10 DEF ReleaseCleanup
  <2>2. j \notin Shadow
    BY <1>9, <1>10 DEF ReleaseCleanup
  <2> QED
    BY <1>1, <1>10, <2>1, <2>2, OneRowMoves, IdlePages, OneRunLeaves DEF ReleaseCleanup
<1>11. CASE CleanupRefused(w)
  <2>1. j \notin Shadow
    BY <1>9, <1>11 DEF CleanupRefused
  <2> QED
    BY <1>11, <2>1, IdleRows, IdlePages, OneRunGoesTo DEF CleanupRefused
<1> QED
  BY <1>3, <1>5, <1>6, <1>7, <1>8, <1>10, <1>11 DEF StopOrClean

\* A shadow job is blocked for every reason but a stale version.
LEMMA BlockingShadow ==
    ASSUME ShadowInv, NEW w \in Worker, NEW why, run[w].job \in Shadow => why # "stale",
           NEW r, r.pc = "block", r.job = run[w].job, r.why = why, run' = [run EXCEPT ![w] = r]
    PROVE  ShadowRunsMove
<1>1. ShadowRun(r)
  BY DEF ShadowRun, StagingPc
<1> QED
  BY <1>1, OneRunMoves

LEMMA FinalizeShadow ==
    ASSUME ShadowInv, NEW w \in Worker, Finalize(w)
    PROVE  ShadowRowsMove /\ ShadowPagesMove /\ ShadowRunsMove
<1> DEFINE j == run[w].job
           blocking(why) == [run[w] EXCEPT !.pc = "block", !.why = why]
<1>1. /\ j \in Job
      /\ job[j] \in JobRow
      /\ j \in Shadow => ShadowRow(job[j])
      /\ run[w] \in RunState /\ ShadowRun(run[w])
  <2>1. ~At(w, "idle")
    BY DEF Finalize, StartFinalization, Inventory, PublishStagedSync, PublishRaises, Block,
           Complete, FinalizationRefused, At
  <2> QED
    BY <2>1, RunHasJob DEF ShadowInv, TypeInv, JobsTyped, RunsTyped
<1>2. ASSUME NEW why, Blocking(w, why), j \in Shadow => why # "stale" PROVE ShadowRunsMove
  <2>1. run' = [run EXCEPT ![w] = blocking(why)]
    BY <1>2 DEF Blocking, ShadowInv, TypeInv, RunsTyped
  <2>2. blocking(why).pc = "block" /\ blocking(why).job = run[w].job /\ blocking(why).why = why
    BY <1>1 DEF RunState
  <2> QED
    BY <1>2, <2>1, <2>2, BlockingShadow
<1>3. CASE StartFinalization(w)
  <2> DEFINE row == [job[j] EXCEPT !.phase = "finalizing"]
             r == [run[w] EXCEPT !.pc = "inventory", !.timed = TRUE]
  <2>1. job' = [job EXCEPT ![j] = row] /\ run' = [run EXCEPT ![w] = r]
    BY <1>1, <1>3 DEF StartFinalization, ShadowInv, TypeInv, JobsTyped, RunsTyped
  <2>2. j \in Shadow => Lawful(job[j], row)
    BY <1>1 DEF Lawful, ShadowRow, JobRow
  <2>3. r.pc = "inventory" /\ r.job = run[w].job /\ r.why = run[w].why
    BY <1>1 DEF RunState
  <2> QED
    BY <1>1, <1>3, <2>1, <2>2, <2>3, OneRowMoves, IdlePages, RunStays DEF StartFinalization
<1>4. CASE Inventory(w)
  <2>1. CASE Blocking(w, Refusal(j))
    <3>1. Refusal(j) # "stale"
      BY DEF Refusal
    <3> QED
      BY <1>2, <1>4, <2>1, <3>1, IdleRows, IdlePages DEF Inventory
  <2>2. ASSUME NEW pc, j \in Shadow => pc \notin StagingPc, Goto(w, pc)
        PROVE  ShadowRowsMove /\ ShadowPagesMove /\ ShadowRunsMove
    BY <1>4, <2>2, OneRunGoesTo, IdleRows, IdlePages DEF Inventory
  <2>3. j \in Shadow => /\ HandlerPc(j) \notin StagingPc
                        /\ (IF j \in Production THEN "cancelAbort" ELSE "cancelStore") \notin StagingPc
                        /\ (IF j \in Production THEN "publish" ELSE "record") \notin StagingPc
    BY ShadowHandler DEF StagingPc, Shadow
  <2> QED
    BY <1>4, <2>1, <2>2, <2>3 DEF Inventory
<1>5. CASE PublishStagedSync(w)
  BY <1>5, IdleRows, IdlePages, OneRunGoesTo DEF PublishStagedSync, StagingPc
<1>6. CASE PublishRaises(w)
  <2>1. j \notin Shadow
    BY <1>1, <1>6 DEF PublishRaises, At, ShadowRun, StagingPc
  <2> QED
    BY <1>2, <1>6, <2>1, IdleRows, IdlePages DEF PublishRaises
<1>7. CASE Block(w)
  <2> DEFINE q == Released(job[j])
             row == [q EXCEPT !.status = "blocked", !.phase = "awaiting_remediation",
                              !.publication = "pending", !.report = run[w].why, !.retention = "live"]
  <2>1. job' = [job EXCEPT ![j] = row]
    BY <1>1, <1>7 DEF Block, Blocked, ShadowInv, TypeInv, JobsTyped
  <2>2. job[j].status = "running" /\ (j \in Shadow => run[w].why # "stale")
    BY <1>1, <1>7 DEF Block, Holds, ShadowRun
  <2>3. row.status = "blocked" /\ row.report = run[w].why /\ row.activeSite = job[j].activeSite
    BY <1>1, ReleasedRow DEF JobRow
  <2>4. j \in Shadow => Lawful(job[j], row)
    BY <1>1, <2>2, <2>3 DEF Lawful, ShadowRow, StillOpen, Terminal
  <2> QED
    BY <1>1, <1>7, <2>1, <2>4, OneRowMoves, IdlePages, OneRunLeaves DEF Block
<1>8. CASE Complete(w)
  <2>1. PICK status \in {"succeeded", "failed"}, publication \in PublicationStatus :
           job' = [job EXCEPT ![j] = [Released(@) EXCEPT
                     !.status = status, !.phase = "completed",
                     !.publication = publication, !.activeSite = FALSE]]
    BY <1>8 DEF Complete, PublicationStatus
  <2> DEFINE q == Released(job[j])
             row == [q EXCEPT !.status = status, !.phase = "completed",
                              !.publication = publication, !.activeSite = FALSE]
  <2>2. job' = [job EXCEPT ![j] = row]
    BY <1>1, <2>1 DEF ShadowInv, TypeInv, JobsTyped
  <2>3. row.status \in Terminal /\ row.report = job[j].report /\ row.activeSite = FALSE
    BY <1>1, ReleasedRow DEF JobRow, Terminal
  <2>4. j \in Shadow => Lawful(job[j], row)
    BY <1>1, <1>8, <2>3, EndingIsLawful DEF Complete, Holds
  <2>5. Leave(w) /\ UNCHANGED item
    BY <1>8 DEF Complete
  <2> HIDE DEF row
  <2> QED
    BY <1>1, <2>2, <2>4, <2>5, OneRowMoves, IdlePages, OneRunLeaves
<1>9. CASE FinalizationRefused(w)
  <2>1. Leave(w) \/ \E pc : Goto(w, pc) /\ (j \in Shadow => pc \notin StagingPc)
    BY <1>9, ShadowHandler DEF FinalizationRefused, Raise, StagingPc
  <2>2. ShadowRunsMove
    BY <2>1, OneRunLeaves, OneRunGoesTo
  <2> QED
    BY <1>9, <2>2, IdleRows, IdlePages DEF FinalizationRefused, Raise
<1> QED
  BY <1>3, <1>4, <1>5, <1>6, <1>7, <1>8, <1>9 DEF Finalize
-----------------------------------------------------------------------------
(* Interruptions and time *)

LEMMA DisturbanceShadow ==
    ASSUME ShadowInv, NEW w \in Worker, Disturbance(w)
    PROVE  ShadowRowsMove /\ ShadowPagesMove /\ ShadowRunsMove
<1>1. ShadowRowsMove /\ ShadowPagesMove
  BY IdleRows, IdlePages
     DEF Disturbance, HeartbeatStops, FinalizationTimeout, Fault, Crash, Blocking
<1>2. run[w] \in RunState /\ ShadowRun(run[w])
  BY DEF ShadowInv, TypeInv, RunsTyped
<1>3. CASE HeartbeatStops(w)
  <2> DEFINE r == [run[w] EXCEPT !.lost = TRUE]
  <2>1. run' = [run EXCEPT ![w] = r]
    BY <1>3 DEF HeartbeatStops, ShadowInv, TypeInv, RunsTyped
  <2>2. r.pc = run[w].pc /\ r.job = run[w].job /\ r.why = run[w].why
    BY <1>2 DEF RunState
  <2> QED
    BY <1>1, <2>1, <2>2, RunStays
<1>4. CASE FinalizationTimeout(w)
  <2> DEFINE why == IF IdentityViolated(run[w].job) THEN "identity" ELSE "finalization"
             r == [run[w] EXCEPT !.pc = "block", !.timed = FALSE, !.why = why]
  <2>1. run' = [run EXCEPT ![w] = r]
    BY <1>4 DEF FinalizationTimeout, ShadowInv, TypeInv, RunsTyped
  <2>2. r.pc = "block" /\ r.job = run[w].job /\ r.why = why /\ why # "stale"
    BY <1>2 DEF RunState
  <2> HIDE DEF why, r
  <2> QED
    BY <1>1, <2>1, <2>2, BlockingShadow
<1>5. CASE Fault(w)
  <2>1. ASSUME At(w, "cleanupAbort") PROVE run[w].job \notin Shadow
    BY <1>2, <2>1 DEF At, ShadowRun, StagingPc
  <2>2. Leave(w) \/ \E pc : Goto(w, pc) /\ (run[w].job \in Shadow => pc \notin StagingPc)
    BY <1>5, <2>1, ShadowHandler DEF Fault, StagingPc
  <2> QED
    BY <1>1, <2>2, OneRunLeaves, OneRunGoesTo
<1>6. CASE Crash(w)
  BY <1>1, <1>6, OneRunLeaves DEF Crash
<1> QED
  BY <1>3, <1>4, <1>5, <1>6 DEF Disturbance

LEMMA TimeShadow ==
    ASSUME ShadowInv, TimePasses
    PROVE  ShadowRowsMove /\ ShadowPagesMove /\ ShadowRunsMove
<1>1. ShadowRunsMove
  BY DEF TimePasses, LeaseExpires, RetentionExpires, BackoffElapses, ItemLeaseExpires, ItemDue,
         ShadowInv, ShadowRunsMove
<1>2. ASSUME NEW j \in Job, LeaseExpires(j) \/ RetentionExpires(j) \/ BackoffElapses(j)
      PROVE  ShadowRowsMove /\ ShadowPagesMove
  <2>1. job[j] \in JobRow /\ (j \in Shadow => ShadowRow(job[j]))
    BY DEF ShadowInv, TypeInv, JobsTyped
  <2>2. j \in Shadow => /\ Lawful(job[j], [job[j] EXCEPT !.lease = "expired"])
                        /\ Lawful(job[j], [job[j] EXCEPT !.retention = "expired"])
                        /\ Lawful(job[j], [job[j] EXCEPT !.later = FALSE])
    BY <2>1 DEF Lawful, ShadowRow, JobRow
  <2>3. \E row : /\ j \in Shadow => Lawful(job[j], row)
                 /\ job' = [job EXCEPT ![j] = row]
    BY <1>2, <2>1, <2>2
       DEF LeaseExpires, RetentionExpires, BackoffElapses, ShadowInv, TypeInv, JobsTyped, JobRow
  <2> QED
    BY <1>2, <2>3, OneRowMoves, IdlePages DEF LeaseExpires, RetentionExpires, BackoffElapses
<1>3. ASSUME NEW j \in Job, NEW i \in Item, ItemLeaseExpires(j, i) \/ ItemDue(j, i)
      PROVE  ShadowRowsMove /\ ShadowPagesMove
  <2>1. item[j][i] \in PageRow
    BY DEF ShadowInv, TypeInv, ItemsTyped
  <2>2. \E page : /\ page.status = item[j][i].status
                  /\ item' = [item EXCEPT ![j] = [item[j] EXCEPT ![i] = page]]
    <3>1. CASE ItemLeaseExpires(j, i)
      BY <2>1, <3>1 DEF ItemLeaseExpires, ShadowInv, TypeInv, ItemsTyped, PageRow
    <3>2. CASE ItemDue(j, i)
      BY <2>1, <3>2 DEF ItemDue, ShadowInv, TypeInv, ItemsTyped, PageRow
    <3> QED
      BY <1>3, <3>1, <3>2
  <2>3. PICK page : /\ page.status = item[j][i].status
                    /\ item' = [item EXCEPT ![j] = [item[j] EXCEPT ![i] = page]]
    BY <2>2
  <2>4. \A k \in Item : Durable(item[j][k], [item[j] EXCEPT ![i] = page][k])
    BY <2>3 DEF Durable, ShadowInv, TypeInv, ItemsTyped
  <2> QED
    BY <1>3, <2>3, <2>4, PagesOfOneJobMove, IdleRows DEF ItemLeaseExpires, ItemDue
<1> QED
  BY <1>1, <1>2, <1>3 DEF TimePasses

-----------------------------------------------------------------------------
(* The invariant and what follows from it *)

LEMMA StepIsLawful ==
    ASSUME ShadowInv, [Next]_vars
    PROVE  /\ (\E j \in Job : Enqueue(j)) \/ ShadowRowsMove
           /\ \A j \in Shadow : /\ ShadowRow(job'[j])
                                /\ job[j].status \in Terminal => job'[j].status = job[j].status
           /\ ShadowPagesMove
           /\ ShadowRunsMove
<1>1. ASSUME ShadowRowsMove
      PROVE  \A j \in Shadow : /\ ShadowRow(job'[j])
                               /\ job[j].status \in Terminal => job'[j].status = job[j].status
  BY <1>1 DEF ShadowRowsMove, Lawful
<1>2. CASE UNCHANGED vars
  BY <1>1, <1>2, IdleRows, IdlePages DEF vars, ShadowInv, ShadowRunsMove
<1>3. CASE Operator
  <2>1. PICK j \in Job : \/ Enqueue(j)
                         \/ RequestCancel(j)
                         \/ RetryBlocked(j)
                         \/ \E S \in SUBSET Item : ReconcileStaleVersions(j, S)
    BY <1>3 DEF Operator
  <2>2. ShadowRunsMove
    BY <2>1 DEF Enqueue, RequestCancel, RetryBlocked, ReconcileStaleVersions, ShadowInv,
                ShadowRunsMove
  <2>3. CASE Enqueue(j)
    BY <2>2, <2>3, EnqueueShadow, IdlePages DEF Enqueue
  <2>4. CASE ~Enqueue(j)
    BY <1>1, <2>1, <2>2, <2>4, RequestCancelShadow, RetryBlockedShadow, ReconcileShadow
  <2> QED
    BY <2>3, <2>4
<1>4. ASSUME NEW w \in Worker, WorkerStep(w) \/ Disturbance(w)
      PROVE  ShadowRowsMove /\ ShadowPagesMove /\ ShadowRunsMove
  <2>1. CASE LeaveLost(w)
    BY <2>1, IdleRows, IdlePages, OneRunLeaves DEF LeaveLost
  <2> QED
    BY <1>4, <2>1, ClaimShadow, PrepareShadow, ProcessPagesShadow, FinalizeShadow,
       StopOrCleanShadow, DisturbanceShadow DEF WorkerStep
<1> QED
  BY <1>1, <1>2, <1>3, <1>4, TimeShadow DEF Next

LEMMA ShadowInvHolds == Spec => []ShadowInv
<1>1. Init => ShadowInv
  <2> SUFFICES ASSUME Init PROVE ShadowInv
    OBVIOUS
  <2>1. \A j \in Shadow : ShadowRow(job[j])
    BY DEF Init, ShadowRow, NoRow, StillOpen, Shadow
  <2>2. \A w \in Worker : ShadowRun(run[w])
    BY DEF Init, ShadowRun, IdleRun, StagingPc
  <2> QED
    BY <2>1, <2>2, InitTyped DEF ShadowInv
<1>2. ShadowInv /\ [Next]_vars => ShadowInv'
  BY NextTyped, StepIsLawful DEF ShadowInv, ShadowRunsMove
<1> QED
  BY <1>1, <1>2, PTL DEF Spec

\* A finished shadow job is never reopened: every transaction of a run that
\* lost its claim is refused by its fence, for any number of workers.
THEOREM ShadowJobsStayFinished == Spec => TerminalIsFinal
<1>1. ShadowInv /\ [Next]_vars
         => [\A j \in Job \ Production : job[j].status \in Terminal =>
                                             job'[j].status = job[j].status]_vars
  BY StepIsLawful DEF Shadow
<1> QED
  BY <1>1, ShadowInvHolds, PTL DEF Spec, TerminalIsFinal

\* A page a shadow job completed, or found unchanged, is never fetched again.
THEOREM ShadowPagesStayCompleted == Spec => CompletedPagesAreDurable
<1>1. ShadowInv /\ [Next]_vars
         => [\A j \in Job \ Production, i \in Item :
               item[j][i].status \in {"succeeded", "not_modified"} =>
                   item'[j][i].status = item[j][i].status]_vars
  BY StepIsLawful DEF Shadow, ShadowPagesMove, Durable
<1> QED
  BY <1>1, ShadowInvHolds, PTL DEF Spec, CompletedPagesAreDurable

OneHolder == \A j, k \in Job : j # k /\ SiteOf[j] = SiteOf[k] =>
                                  ~(job[j].activeSite /\ job[k].activeSite)

\* In a deployment of shadow jobs, two unfinished jobs never synchronize the
\* same site: the site's key is held exactly while a job is unfinished.
THEOREM ShadowJobsShareNoSite ==
    ASSUME Production = {}
    PROVE  Spec => []OneUnfinishedJobPerSite
<1> USE DEF Shadow
<1>1. Init => OneHolder
  BY DEF Init, OneHolder, NoRow
<1>2. ShadowInv /\ OneHolder /\ [Next]_vars => OneHolder'
  <2> SUFFICES ASSUME ShadowInv, OneHolder, [Next]_vars PROVE OneHolder'
    OBVIOUS
  <2>1. CASE ShadowRowsMove
    BY <2>1 DEF OneHolder, ShadowRowsMove, Lawful
  <2>2. CASE \E j \in Job : Enqueue(j)
    <3>1. PICK j \in Job : Enqueue(j)
      BY <2>2
    <3>2. \A k \in Job \ {j} : job'[k] = job[k] /\ (job[k].activeSite => SiteOf[k] # SiteOf[j])
      BY <3>1 DEF Enqueue, ShadowInv, TypeInv, JobsTyped
    <3> QED
      BY <3>2 DEF OneHolder
  <2> QED
    BY <2>1, <2>2, StepIsLawful
<1>3. ShadowInv /\ OneHolder => OneUnfinishedJobPerSite
  <2> SUFFICES ASSUME ShadowInv, OneHolder,
                      NEW j \in Job, NEW k \in Job, j # k, SiteOf[j] = SiteOf[k],
                      job[j].status \notin Terminal \cup {"absent"}
               PROVE  job[k].status \in Terminal \cup {"absent"}
    BY DEF OneUnfinishedJobPerSite
  <2>1. job[j] \in JobRow /\ job[k] \in JobRow /\ ShadowRow(job[j]) /\ ShadowRow(job[k])
    BY DEF ShadowInv, TypeInv, JobsTyped
  <2>2. job[j].activeSite
    BY <2>1 DEF ShadowRow, StillOpen, JobRow, JobStatus
  <2>3. ~job[k].activeSite
    BY <2>2 DEF OneHolder
  <2> QED
    BY <2>1, <2>3 DEF ShadowRow, StillOpen, JobRow, JobStatus
<1> QED
  BY <1>1, <1>2, <1>3, ShadowInvHolds, PTL DEF Spec
=============================================================================
