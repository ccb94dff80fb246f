--------------------- MODULE WebSyncJobPublicationProofs ---------------------
(* What a run may rely on between two of its transactions when no heartbeat   *)
(* is paused past its lease, and what that guarantees of a publication: for   *)
(* every value of the other constants.                                       *)
EXTENDS WebSyncJobProofs

-----------------------------------------------------------------------------
(* What the transactions do to a job row, apart from its counters *)

Unfinished == JobStatus \ (Terminal \cup {"absent"})
Stopped == {"cleanup_pending", "failed"}

Mine(w, r) == r.owner = w /\ r.lease = "live"

SamePlan(q, r) == /\ q.status = r.status /\ q.phase = r.phase /\ q.publication = r.publication
                  /\ q.activeSite = r.activeSite /\ q.cancel = r.cancel /\ q.elected = r.elected
                  /\ q.failures = r.failures
SameRow(q, r) == SamePlan(q, r) /\ q.owner = r.owner /\ q.lease = r.lease
Freed(q) == q.owner = NoWorker /\ q.lease = "none"

LEMMA CountedRow ==
    ASSUME NEW r \in JobRow, NEW s, NEW n
    PROVE  SameRow(Counted(r, s, n), r) /\ SameRow(Uncounted(r, s, n), r)
BY DEF Counted, Uncounted, SameRow, SamePlan, JobRow

LEMMA ReleasedRowPlan ==
    ASSUME NEW r \in JobRow
    PROVE  SamePlan(Released(r), r) /\ Freed(Released(r))
BY DEF Released, SamePlan, Freed, JobRow

\* The row an ended job is left with.
Ended(q, r) == /\ q.activeSite = FALSE /\ Freed(q)
               /\ q.cancel = r.cancel /\ q.elected = r.elected /\ q.failures = r.failures

LEMMA FailedRow ==
    ASSUME NEW j \in Job, job[j] \in JobRow
    PROVE  Failed(j).status = "failed" /\ Ended(Failed(j), job[j])
           /\ Failed(j).publication = CanceledPublication(j)
<1> DEFINE q == Released(job[j])
<1>1. q \in JobRow /\ SamePlan(q, job[j]) /\ Freed(q)
  BY ReleasedRowPlan, ReleasedJob
<1> HIDE DEF q
<1>2. \A a, b, c, d :
        LET e == [q EXCEPT !.status = a, !.phase = b, !.publication = c, !.activeSite = d]
        IN  /\ e.status = a /\ e.activeSite = d /\ e.publication = c /\ e.owner = q.owner
            /\ e.lease = q.lease /\ e.cancel = q.cancel /\ e.elected = q.elected
            /\ e.failures = q.failures
  BY <1>1 DEF JobRow
<1>3. Failed(j) = [q EXCEPT !.status = "failed", !.phase = "completed",
                            !.publication = CanceledPublication(j), !.activeSite = FALSE]
  BY DEF Failed, q
<1> QED
  BY <1>1, <1>2, <1>3 DEF Ended, SamePlan, Freed

LEMMA SweptRow ==
    ASSUME NEW j \in Job, job[j] \in JobRow
    PROVE  /\ ~Exhausted(job[j]) => Swept(j) = job[j]
           /\ Exhausted(job[j]) =>
                /\ Freed(Swept(j))
                /\ Swept(j).cancel = job[j].cancel /\ Swept(j).elected = job[j].elected
                /\ Swept(j).failures = job[j].failures
                /\ Swept(j).publication = job[j].publication
                /\ j \in Production => /\ Swept(j).status = "cleanup_pending"
                                       /\ Swept(j).activeSite = job[j].activeSite
                /\ j \notin Production => /\ Swept(j).status = "failed"
                                          /\ Swept(j).activeSite = FALSE
<1> DEFINE q == Released(job[j])
<1>1. q \in JobRow /\ SamePlan(q, job[j]) /\ Freed(q)
  BY ReleasedRowPlan, ReleasedJob
<1> HIDE DEF q
<1>2. \A a, b, c :
        LET e == [q EXCEPT !.status = a, !.phase = b, !.later = c]
            f == [q EXCEPT !.status = a, !.phase = b, !.activeSite = c]
        IN  /\ e.status = a /\ e.publication = q.publication /\ e.owner = q.owner
            /\ e.lease = q.lease /\ e.cancel = q.cancel /\ e.elected = q.elected
            /\ e.failures = q.failures /\ e.activeSite = q.activeSite
            /\ f.status = a /\ f.publication = q.publication /\ f.owner = q.owner
            /\ f.lease = q.lease /\ f.cancel = q.cancel /\ f.elected = q.elected
            /\ f.failures = q.failures /\ f.activeSite = c
  BY <1>1 DEF JobRow
<1>3. CASE ~Exhausted(job[j])
  BY <1>3 DEF Swept
<1>4. CASE Exhausted(job[j]) /\ j \in Production
  <2>1. Swept(j) = [q EXCEPT !.status = "cleanup_pending", !.phase = "awaiting_remediation",
                             !.later = FALSE]
    BY <1>4 DEF Swept, q
  <2> QED
    BY <1>1, <1>2, <1>4, <2>1 DEF SamePlan, Freed
<1>5. CASE Exhausted(job[j]) /\ j \notin Production
  <2>1. Swept(j) = [q EXCEPT !.status = "failed", !.phase = "completed", !.activeSite = FALSE]
    BY <1>5 DEF Swept, q
  <2> QED
    BY <1>1, <1>2, <1>5, <2>1 DEF SamePlan, Freed
<1> QED
  BY <1>3, <1>4, <1>5

LEMMA ClaimedRow ==
    ASSUME NEW r \in JobRow, NEW w
    PROVE  LET q == Claimed(r, w) IN
           /\ Mine(w, q)
           /\ q.status = IF r.status \in {"preparing", "cleanup_pending"} THEN r.status ELSE "running"
           /\ q.publication = r.publication /\ q.activeSite = r.activeSite
           /\ q.elected = r.elected
           /\ q.cancel = (r.cancel \/ r.status = "blocked")
           /\ r.phase = "finalizing" /\ r.status = "running" /\ ~q.cancel => q.phase = r.phase
           /\ q.failures = IF r.status \in {"preparing", "running"} /\ r.lease = "expired"
                           THEN r.failures + 1 ELSE r.failures
<1> DEFINE cancel == r.cancel \/ r.status = "blocked"
           status == IF r.status \in {"preparing", "cleanup_pending"} THEN r.status ELSE "running"
           phase == IF r.status = "cleanup_pending" THEN "awaiting_remediation"
                    ELSE IF r.status = "preparing" THEN "preparing"
                    ELSE IF cancel THEN "awaiting_remediation"
                    ELSE IF r.phase = "finalizing" THEN r.phase ELSE "processing"
           failures == IF r.status \in {"preparing", "running"} /\ r.lease = "expired"
                       THEN r.failures + 1 ELSE r.failures
<1>1. Claimed(r, w) = [r EXCEPT !.owner = w, !.lease = "live", !.cancel = cancel,
                                !.status = status, !.phase = phase, !.failures = failures]
  BY DEF Claimed, LeasedTo, JobRow
<1>2. \A a, b, c, d :
        LET e == [r EXCEPT !.owner = w, !.lease = "live", !.cancel = a, !.status = b,
                           !.phase = c, !.failures = d]
        IN  /\ e.owner = w /\ e.lease = "live" /\ e.cancel = a /\ e.status = b /\ e.phase = c
            /\ e.failures = d /\ e.publication = r.publication /\ e.elected = r.elected
            /\ e.activeSite = r.activeSite
  BY DEF JobRow
<1> HIDE DEF cancel, status, phase, failures
<1>3. LET q == Claimed(r, w) IN
      /\ q.owner = w /\ q.lease = "live" /\ q.cancel = cancel /\ q.status = status
      /\ q.phase = phase /\ q.failures = failures /\ q.publication = r.publication
      /\ q.elected = r.elected /\ q.activeSite = r.activeSite
  BY <1>1, <1>2
<1> QED
  BY <1>3 DEF Mine, cancel, status, phase, failures

LEMMA BlockedRow ==
    ASSUME NEW r \in JobRow, NEW why
    PROVE  LET q == Blocked(r, why) IN
           /\ q.status = "blocked" /\ q.publication = "pending" /\ Freed(q)
           /\ q.activeSite = r.activeSite /\ q.cancel = r.cancel /\ q.elected = r.elected
           /\ q.failures = r.failures
<1> DEFINE q == Released(r)
<1>1. q \in JobRow /\ SamePlan(q, r) /\ Freed(q)
  BY ReleasedRowPlan, ReleasedJob
<1> HIDE DEF q
<1>2. \A a, b, c, d, f :
        LET e == [q EXCEPT !.status = a, !.phase = b, !.publication = c, !.report = d,
                           !.retention = f]
        IN  /\ e.status = a /\ e.publication = c /\ e.owner = q.owner /\ e.lease = q.lease
            /\ e.activeSite = q.activeSite /\ e.cancel = q.cancel /\ e.elected = q.elected
            /\ e.failures = q.failures
  BY <1>1 DEF JobRow
<1> QED
  BY <1>1, <1>2 DEF Blocked, SamePlan, Freed, q

\* An abort changes the plan of a succeeded job only.
LEMMA InvalidatedRow ==
    ASSUME NEW j \in Job, job[j] \in JobRow, job[j].status # "succeeded"
    PROVE  SameRow(Invalidated(j), job[j])
BY CountedRow DEF Invalidated

-----------------------------------------------------------------------------
(* Who drives a job: a run that has not come to its end holds the lease, or  *)
(* is one of the cleaners of a job that is being given up                    *)

WorkPc == Pc \ (CleaningPc \cup {"idle", "prepare"})

\* What a run x of worker w and the row r of its job have to do with each other.
RunFits(w, x, r) ==
    /\ x.pc = "prepare" => r.status \in {"preparing", "canceled"}
    /\ x.pc \in WorkPc => r.status = "running"
    /\ x.pc \in CleaningPc \ {"storeFail"} => r.status \in Stopped
    /\ Mine(w, r) \/ (x.pc \in CleaningPc /\ r.status \in Stopped)

Drives(w) == run[w].pc # "idle" /\ RunFits(w, run[w], job[run[w].job])
ClaimInv == \A w \in Worker : run[w] = IdleRun \/ Drives(w)

Prompt == PromptHeartbeats = TRUE

LEMMA IdleRunIsIdle == IdleRun.pc = "idle" /\ IdleRun.job = NoJob
BY DEF IdleRun

LEMMA PcSorts ==
    /\ {"begin", "loop", "batch", "promote", "requeue", "finalize", "inventory", "publish",
        "record", "block", "cancelAbort", "cancelStore", "abort"} = WorkPc
    /\ "prepare" \notin WorkPc \cup CleaningPc /\ "idle" \notin WorkPc \cup CleaningPc
    /\ WorkPc \cap CleaningPc = {}
BY DEF WorkPc, CleaningPc, Pc

\* The run of w belongs to no other worker's job.
Alone(w) == \A v \in Worker \ {w} : run[v].job # run[w].job

\* A run that is not cleaning up is alone on its job.
LEMMA DriversAreAlone ==
    ASSUME TypeInv, ClaimInv, NEW w \in Worker, ~At(w, "idle"),
           \/ run[w].pc \notin CleaningPc
           \/ job[run[w].job].status \notin Stopped
    PROVE  Alone(w) /\ Mine(w, job[run[w].job]) /\ job[run[w].job].status \notin Stopped
<1> DEFINE j == run[w].job
<1>1. j \in Job /\ Drives(w)
  BY RunHasJob, IdleRunIsIdle DEF TypeInv, ClaimInv, At
<1>2. Mine(w, job[j]) /\ job[j].status \notin Stopped
  <2>1. run[w].pc \in WorkPc \cup {"prepare"} \/ run[w].pc \in CleaningPc
    BY DEF TypeInv, RunsTyped, RunState, WorkPc, At
  <2>2. {"preparing", "canceled", "running"} \cap Stopped = {}
    BY DEF Stopped
  <2> QED
    BY <1>1, <2>1, <2>2 DEF Drives, RunFits
<1>3. ASSUME NEW v \in Worker \ {w} PROVE run[v].job # j
  <2>1. CASE run[v] = IdleRun
    BY <1>1, <2>1, IdleRunIsIdle, ConstantsAssumption
  <2>2. CASE Drives(v)
    BY <1>2, <2>2 DEF Drives, RunFits, Mine
  <2> QED
    BY <2>1, <2>2 DEF ClaimInv
<1> QED
  BY <1>2, <1>3 DEF Alone

\* A job that nobody holds and that is not being given up has no run.
LEMMA NobodyDrives ==
    ASSUME TypeInv, ClaimInv, NEW j \in Job, job[j].status \notin Stopped,
           \A w \in Worker : ~Mine(w, job[j])
    PROVE  \A w \in Worker : run[w].job # j
<1> SUFFICES ASSUME NEW w \in Worker, run[w].job = j PROVE FALSE
  OBVIOUS
<1>1. Drives(w)
  BY IdleRunIsIdle, ConstantsAssumption DEF ClaimInv
<1> QED
  BY <1>1 DEF Drives, RunFits

LEMMA UnleasedIsNobodys ==
    ASSUME NEW r, r.lease # "live"
    PROVE  \A w \in Worker : ~Mine(w, r)
BY DEF Mine

\* A row nobody drives may be rewritten.
LEMMA UndrivenRow ==
    ASSUME TypeInv, ClaimInv, NEW j \in Job, \A w \in Worker : run[w].job # j,
           UNCHANGED run, \A k \in Job \ {j} : job'[k] = job[k]
    PROVE  ClaimInv'
<1> SUFFICES ASSUME NEW w \in Worker PROVE run[w] = IdleRun \/ Drives(w)'
  BY DEF ClaimInv
<1>1. CASE Drives(w)
  <2>1. run[w].job \in Job \ {j}
    BY <1>1, RunHasJob DEF Drives, TypeInv, At
  <2> QED
    BY <1>1, <2>1 DEF Drives
<1> QED
  BY <1>1 DEF ClaimInv

\* A row whose status and lease stay fits every run it fitted before.
LEMMA FittingRow ==
    ASSUME NEW w, NEW x, NEW r, NEW q, RunFits(w, x, r),
           q.status = r.status, q.owner = r.owner, q.lease = r.lease
    PROVE  RunFits(w, x, q)
BY DEF RunFits, Mine

LEMMA SteadyRow ==
    ASSUME TypeInv, ClaimInv, UNCHANGED run,
           \A j \in Job : /\ job'[j].status = job[j].status /\ job'[j].owner = job[j].owner
                         /\ job'[j].lease = job[j].lease
    PROVE  ClaimInv'
<1> SUFFICES ASSUME NEW w \in Worker PROVE run[w] = IdleRun \/ Drives(w)'
  BY DEF ClaimInv
<1>1. CASE Drives(w)
  <2>1. run[w].job \in Job
    BY <1>1, RunHasJob DEF Drives, TypeInv, At
  <2>2. RunFits(w, run[w], job'[run[w].job])
    BY <1>1, <2>1, FittingRow DEF Drives
  <2> QED
    BY <1>1, <2>2 DEF Drives
<1> QED
  BY <1>1 DEF ClaimInv

\* A step of worker w on its job j, to run x and row q: a driver must fit the
\* new row, a cleaner must leave a row that is still being given up.
LEMMA RunSteps ==
    ASSUME TypeInv, ClaimInv, NEW w \in Worker, ~At(w, "idle"), NEW x, NEW q,
           run' = [run EXCEPT ![w] = x],
           job' = [job EXCEPT ![run[w].job] = q],
           x = IdleRun \/ (x.job = run[w].job /\ x.pc # "idle"),
           Drives(w) /\ Mine(w, job[run[w].job]) /\ job[run[w].job].status \notin Stopped
              => x = IdleRun \/ RunFits(w, x, q),
           Drives(w) /\ run[w].pc \in CleaningPc /\ job[run[w].job].status \in Stopped
              => q.status \in Stopped /\ (x = IdleRun \/ x.pc \in CleaningPc)
    PROVE  ClaimInv'
<1> DEFINE j == run[w].job
<1>1. j \in Job /\ Drives(w)
  BY RunHasJob, IdleRunIsIdle DEF TypeInv, ClaimInv, At
<1>2. /\ job'[j] = q /\ \A k \in Job \ {j} : job'[k] = job[k]
      /\ run'[w] = x /\ \A v \in Worker \ {w} : run'[v] = run[v]
  BY <1>1 DEF TypeInv, JobsTyped, RunsTyped
<1>3. ASSUME NEW v \in Worker \ {w}, run[v].job # j PROVE run'[v] = IdleRun \/ Drives(v)'
  <2>1. CASE Drives(v)
    <3>1. run[v].job \in Job \ {j}
      BY <1>3, <2>1, RunHasJob DEF Drives, TypeInv, At
    <3> QED
      BY <1>2, <2>1, <3>1 DEF Drives
  <2> QED
    BY <1>2, <2>1 DEF ClaimInv
<1>4. CASE job[j].status \notin Stopped
  <2>1. Alone(w) /\ Mine(w, job[j])
    BY <1>4, DriversAreAlone
  <2>2. run'[w] = IdleRun \/ Drives(w)'
    BY <1>1, <1>2, <1>4, <2>1 DEF Drives
  <2> QED
    BY <1>3, <2>1, <2>2 DEF Alone, ClaimInv
<1>5. CASE job[j].status \in Stopped
  <2>1. run[w].pc \in CleaningPc
    BY <1>5, DriversAreAlone
  <2>2. q.status \in Stopped /\ (x = IdleRun \/ x.pc \in CleaningPc)
    BY <1>1, <1>5, <2>1
  <2>3. \A v \in Worker : \A y : y.pc \in CleaningPc => RunFits(v, y, q)
    BY <2>2, PcSorts DEF RunFits
  <2>4. run'[w] = IdleRun \/ Drives(w)'
    BY <1>1, <1>2, <2>2, <2>3, PcSorts DEF Drives
  <2>5. ASSUME NEW v \in Worker \ {w}, run[v].job = j PROVE Drives(v)'
    <3>1. Drives(v) /\ ~At(v, "idle")
      BY <1>1, <2>5, IdleRunIsIdle, ConstantsAssumption DEF ClaimInv, Drives, At
    <3>2. run[v].pc \in CleaningPc
      BY <1>5, <2>5, <3>1, DriversAreAlone
    <3> QED
      BY <1>2, <2>3, <2>5, <3>1, <3>2 DEF Drives
  <2> QED
    BY <1>3, <2>4, <2>5 DEF ClaimInv
<1> QED
  BY <1>4, <1>5

\* The ways a run moves without its job: it keeps its job and its pages.
MovesTo(w, x) == /\ run' = [run EXCEPT ![w] = x]
                 /\ x.job = run[w].job

LEMMA GoingMoves ==
    ASSUME RunsTyped, NEW w \in Worker, NEW pc, Goto(w, pc)
    PROVE  LET x == [run[w] EXCEPT !.pc = pc] IN
           MovesTo(w, x) /\ x.pc = pc /\ x.pages = run[w].pages /\ x.lost = run[w].lost
BY DEF Goto, MovesTo, RunsTyped, RunState

LEMMA BlockingMoves ==
    ASSUME RunsTyped, NEW w \in Worker, NEW why, Blocking(w, why)
    PROVE  LET x == [run[w] EXCEPT !.pc = "block", !.why = why] IN
           MovesTo(w, x) /\ x.pc = "block" /\ x.pages = run[w].pages /\ x.lost = run[w].lost
BY DEF Blocking, MovesTo, RunsTyped, RunState

\* Points of a run that ask the same of its job.
Alike(a, b) == \/ b = "storeFail"
               \/ a = b
               \/ {a, b} \subseteq WorkPc
               \/ {a, b} \subseteq CleaningPc \ {"storeFail"}

LEMMA AlikeRun ==
    ASSUME TypeInv, ClaimInv, NEW w \in Worker, ~At(w, "idle"), NEW x, MovesTo(w, x),
           Alike(run[w].pc, x.pc), NEW q, job' = [job EXCEPT ![run[w].job] = q],
           SameRow(q, job[run[w].job])
    PROVE  ClaimInv'
<1> DEFINE r == job[run[w].job]
<1>1. run[w].pc \in Pc /\ "idle" \notin WorkPc \cup CleaningPc /\ x.pc # "idle"
  BY PcSorts DEF TypeInv, RunsTyped, RunState, At, Alike, CleaningPc
<1>2. Drives(w) /\ Mine(w, r) /\ r.status \notin Stopped => RunFits(w, x, q)
  <2>1. q.status = r.status /\ (Mine(w, r) => Mine(w, q))
    BY DEF SameRow, SamePlan, Mine
  <2> QED
    BY <2>1, PcSorts DEF Drives, RunFits, Alike, CleaningPc
<1>3. Drives(w) /\ run[w].pc \in CleaningPc /\ r.status \in Stopped
         => q.status \in Stopped /\ x.pc \in CleaningPc
  BY PcSorts DEF Alike, SameRow, SamePlan, CleaningPc
<1> QED
  BY <1>1, <1>2, <1>3, RunSteps DEF MovesTo

LEMMA RunMovesAlone ==
    ASSUME TypeInv, ClaimInv, NEW w \in Worker, ~At(w, "idle"), UNCHANGED job,
           NEW x, MovesTo(w, x), Alike(run[w].pc, x.pc)
    PROVE  ClaimInv'
<1>1. job' = [job EXCEPT ![run[w].job] = job[run[w].job]]
  BY DEF TypeInv, JobsTyped
<1>2. SameRow(job[run[w].job], job[run[w].job])
  BY DEF SameRow, SamePlan
<1> QED
  BY <1>1, <1>2, AlikeRun

LEMMA RunEnds ==
    ASSUME TypeInv, ClaimInv, NEW w \in Worker, ~At(w, "idle"), Leave(w), NEW q,
           job' = [job EXCEPT ![run[w].job] = q],
           run[w].pc \in CleaningPc /\ job[run[w].job].status \in Stopped => q.status \in Stopped
    PROVE  ClaimInv'
BY RunSteps DEF Leave

LEMMA RunEndsAlone ==
    ASSUME TypeInv, ClaimInv, NEW w \in Worker, ~At(w, "idle"), Leave(w), UNCHANGED job
    PROVE  ClaimInv'
<1>1. job' = [job EXCEPT ![run[w].job] = job[run[w].job]]
  BY DEF TypeInv, JobsTyped
<1> QED
  BY <1>1, RunEnds

\* A run of an executing job finds its job running or being given up.
LEMMA DriverStatus ==
    ASSUME TypeInv, ClaimInv, NEW w \in Worker, ~At(w, "idle")
    PROVE  /\ run[w].job \in Job /\ job[run[w].job] \in JobRow /\ run[w] \in RunState /\ Drives(w)
           /\ run[w].pc \in WorkPc => job[run[w].job].status = "running"
           /\ run[w].pc = "prepare" => job[run[w].job].status \in {"preparing", "canceled"}
           /\ run[w].pc \in CleaningPc \ {"storeFail"} => job[run[w].job].status \in Stopped
<1>1. run[w].job \in Job /\ Drives(w)
  BY RunHasJob, IdleRunIsIdle DEF TypeInv, ClaimInv, At
<1> QED
  BY <1>1 DEF Drives, RunFits, TypeInv, JobsTyped, RunsTyped

LEMMA OperatorKeepsClaims ==
    ASSUME TypeInv, ClaimInv, WaitingJobsAreUnleased, Operator
    PROVE  ClaimInv'
<1>1. PICK j \in Job : \/ Enqueue(j)
                       \/ RequestCancel(j)
                       \/ RetryBlocked(j)
                       \/ \E S \in SUBSET Item : ReconcileStaleVersions(j, S)
  BY DEF Operator
<1>2. /\ job[j] \in JobRow
      /\ job[j].status \in Waiting => \A w \in Worker : ~Mine(w, job[j])
  BY WaitingIsUnleased, UnleasedIsNobodys DEF TypeInv, JobsTyped, Unleased
<1>3. UNCHANGED run /\ \A k \in Job \ {j} : job'[k] = job[k]
  BY <1>1 DEF Enqueue, RequestCancel, RetryBlocked, ReconcileStaleVersions, TypeInv, JobsTyped
<1>4. CASE job[j].status \in {"absent", "queued", "blocked"}
  <2>1. job[j].status \in Waiting \ Stopped
    BY <1>4 DEF Waiting, Stopped
  <2> QED
    BY <1>2, <1>3, <2>1, NobodyDrives, UndrivenRow
<1>5. CASE RequestCancel(j) /\ job[j].status = "preparing"
  <2>1. job'[j].status = "canceled" /\ job'[j].owner = job[j].owner /\ job'[j].lease = job[j].lease
    <3> DEFINE n == Cardinality(PagesIn(j, {"pending"}))
               c == Counted(job[j], "canceled", n)
    <3>1. c \in JobRow /\ SameRow(c, job[j])
      BY <1>2, CountedJob, CountPages, PagesInAreItems, CountedRow DEF CountedStatus
    <3>2. job'[j] = [c EXCEPT !.status = "canceled", !.phase = "completed", !.cancel = TRUE,
                              !.activeSite = FALSE, !.publication = CanceledPublication(j)]
      BY <1>5 DEF RequestCancel, TypeInv, JobsTyped
    <3> HIDE DEF c
    <3>3. job'[j].status = "canceled" /\ job'[j].owner = c.owner /\ job'[j].lease = c.lease
      BY <3>1, <3>2 DEF JobRow
    <3> QED
      BY <3>1, <3>3 DEF SameRow, SamePlan
  <2>2. \A w \in Worker : \A x : RunFits(w, x, job[j]) => RunFits(w, x, job'[j])
    BY <1>5, <2>1, PcSorts DEF RunFits, Stopped, Mine
  <2>3. ASSUME NEW w \in Worker, Drives(w) PROVE Drives(w)'
    <3>1. run[w].job \in Job
      BY <2>3, RunHasJob DEF Drives, TypeInv, At
    <3> QED
      BY <1>3, <2>2, <2>3, <3>1 DEF Drives
  <2> QED
    BY <1>3, <2>3 DEF ClaimInv
<1>6. CASE RequestCancel(j) /\ job[j].status \notin {"preparing", "queued"}
  <2>1. \A k \in Job : /\ job'[k].status = job[k].status /\ job'[k].owner = job[k].owner
                       /\ job'[k].lease = job[k].lease
    BY <1>2, <1>3, <1>6 DEF RequestCancel, TypeInv, JobsTyped, JobRow
  <2> QED
    BY <1>3, <2>1, SteadyRow
<1> QED
  BY <1>1, <1>4, <1>5, <1>6 DEF Enqueue, RetryBlocked, ReconcileStaleVersions

LEMMA SweptIsUndriven ==
    ASSUME TypeInv, ClaimInv, NEW j \in Job, Exhausted(job[j])
    PROVE  \A w \in Worker : run[w].job # j
<1>1. job[j].status \notin Stopped /\ job[j].lease # "live"
  BY DEF Exhausted, Stopped
<1> QED
  BY <1>1, UnleasedIsNobodys, NobodyDrives

LEMMA ClaimKeepsClaims ==
    ASSUME TypeInv, ClaimInv, WaitingJobsAreUnleased, NEW w \in Worker, Claim(w)
    PROVE  ClaimInv'
<1>1. \A k \in Job : job[k] \in JobRow /\ Swept(k) \in JobRow
                     /\ ((\E v \in Worker : run[v].job = k) => Swept(k) = job[k])
  BY SweptJob, SweptRow, SweptIsUndriven DEF TypeInv, JobsTyped
<1>2. \A v \in Worker : Drives(v) => run[v].job \in Job
  BY RunHasJob DEF Drives, TypeInv, At
<1>3. CASE ClaimNothing(w)
  <2>1. \A v \in Worker : Drives(v) => Drives(v)'
    BY <1>1, <1>2, <1>3 DEF ClaimNothing, Drives
  <2> QED
    BY <1>3, <2>1 DEF ClaimInv, ClaimNothing
<1>4. ASSUME NEW j \in Job, ClaimNext(w, j) PROVE ClaimInv'
  <2> DEFINE r == Swept(j)
             q == Claimed(r, w)
  <2>1. /\ run'[w].pc = EntryPc(j, q) /\ run'[w].job = j
        /\ \A v \in Worker \ {w} : run'[v] = run[v]
        /\ job'[j] = q /\ \A k \in Job \ {j} : job'[k] = Swept(k)
    BY <1>4 DEF ClaimNext, TypeInv, RunsTyped, RunState, IdleRun
  <2>2. /\ Mine(w, q)
        /\ q.status = IF r.status \in {"preparing", "cleanup_pending"} THEN r.status ELSE "running"
    BY <1>1, ClaimedRow
  <2>3. Drives(w)'
    <3>1. EntryPc(j, q) \in {"cleanupAbort", "prepare", "begin", "loop"}
      BY DEF EntryPc
    <3>2. RunFits(w, run'[w], q)
      BY <2>1, <2>2, PcSorts DEF EntryPc, RunFits, CleaningPc, Stopped
    <3> QED
      BY <2>1, <3>1, <3>2 DEF Drives
  <2>4. ASSUME NEW v \in Worker \ {w}, Drives(v), run[v].job # j PROVE Drives(v)'
    <3>1. run[v].job \in Job \ {j} /\ job'[run[v].job] = job[run[v].job]
      BY <1>1, <1>2, <2>1, <2>4
    <3> QED
      BY <2>1, <2>4, <3>1 DEF Drives
  <2>5. ASSUME NEW v \in Worker \ {w}, Drives(v), run[v].job = j PROVE Drives(v)'
    <3>1. r = job[j] /\ Claimable(j, r)
      BY <1>1, <1>4, <2>5 DEF ClaimNext
    <3>2. r.status \in Waiting => r.lease = "none"
      BY <3>1, WaitingIsUnleased DEF Unleased
    <3>3. r.status \in Stopped
      <4>1. CASE r.lease # "live"
        BY <2>5, <3>1, <4>1, UnleasedIsNobodys, NobodyDrives
      <4> QED
        BY <3>1, <3>2, <4>1 DEF Claimable, Waiting, Stopped
    <3>4. r.status = "cleanup_pending" /\ q.status = "cleanup_pending"
      BY <2>2, <3>1, <3>3 DEF Claimable, Stopped
    <3>5. run[v].pc \in CleaningPc
      BY <2>5, <3>1, <3>3, DriversAreAlone DEF Drives, At
    <3>6. RunFits(v, run[v], q)
      BY <3>4, <3>5, PcSorts DEF RunFits, Stopped
    <3> QED
      BY <2>1, <2>5, <3>6 DEF Drives
  <2>6. ASSUME NEW v \in Worker \ {w} PROVE run'[v] = IdleRun \/ Drives(v)'
    BY <2>1, <2>4, <2>5 DEF ClaimInv
  <2> QED
    BY <2>3, <2>6 DEF ClaimInv
<1> QED
  BY <1>3, <1>4 DEF Claim

\* Going on to a point that asks the same of the job.
LEMMA GoesOn ==
    ASSUME TypeInv, ClaimInv, NEW w \in Worker, ~At(w, "idle"), UNCHANGED job,
           NEW pc, Goto(w, pc), Alike(run[w].pc, pc)
    PROVE  ClaimInv'
<1> DEFINE x == [run[w] EXCEPT !.pc = pc]
<1>1. MovesTo(w, x) /\ x.pc = pc
  BY GoingMoves DEF TypeInv
<1> HIDE DEF x
<1> QED
  BY <1>1, RunMovesAlone

LEMMA PrepareKeepsClaims ==
    ASSUME TypeInv, ClaimInv, NEW w \in Worker, Prepare(w)
    PROVE  ClaimInv'
<1> DEFINE j == run[w].job
           x == [run[w] EXCEPT !.worked = TRUE]
<1>1. At(w, "prepare") /\ ~At(w, "idle") /\ run[w].pc \notin CleaningPc
  BY DEF Prepare, AppendPreparedItem, ApplyDuplicatePolicy, YieldPreparation, FinishPreparation,
         PreparationRefused, At, CleaningPc
<1>2. j \in Job /\ job[j] \in JobRow /\ run[w] \in RunState
  BY <1>1, DriverStatus
<1>3. run' = [run EXCEPT ![w].worked = TRUE] => MovesTo(w, x) /\ x.pc = run[w].pc
  BY <1>2 DEF MovesTo, TypeInv, RunsTyped, RunState
<1>4. CASE \E i \in Item : AppendPreparedItem(w, i)
  BY <1>1, <1>3, <1>4, RunMovesAlone DEF AppendPreparedItem, Alike
<1>5. CASE ApplyDuplicatePolicy(w)
  <2> DEFINE c == Counted(job[j], "excluded", Cardinality(Loser \cap PagesIn(j, {"pending"})))
             row == [c EXCEPT !.elected = TRUE]
             y == [job[j] EXCEPT !.elected = TRUE]
  <2>1. c \in JobRow /\ SameRow(c, job[j])
    <3>1. Loser \cap PagesIn(j, {"pending"}) \subseteq Item /\ "excluded" \in CountedStatus
      BY DEF PagesIn, CountedStatus
    <3> QED
      BY <1>2, <3>1, CountPages, CountedJob, CountedRow
  <2>2. job' = [job EXCEPT ![j] = row] /\ MovesTo(w, x) /\ x.pc = run[w].pc
    BY <1>2, <1>3, <1>5 DEF ApplyDuplicatePolicy, TypeInv, JobsTyped
  <2> HIDE DEF c
  <2>3. row.status = c.status /\ row.owner = c.owner /\ row.lease = c.lease
    BY <2>1 DEF JobRow
  <2> HIDE DEF row
  <2>4. Drives(w) => RunFits(w, x, row)
    <3>1. row.status = job[j].status /\ row.owner = job[j].owner /\ row.lease = job[j].lease
      BY <2>1, <2>3 DEF SameRow, SamePlan
    <3> QED
      BY <2>2, <3>1 DEF Drives, RunFits, Mine
  <2> QED
    BY <1>1, <2>2, <2>4, RunSteps DEF MovesTo, At
<1>6. CASE YieldPreparation(w)
  BY <1>1, <1>6, RunEnds DEF YieldPreparation
<1>7. CASE FinishPreparation(w)
  BY <1>1, <1>7, RunEnds DEF FinishPreparation
<1>8. CASE PreparationRefused(w)
  BY <1>1, <1>8, GoesOn DEF PreparationRefused, Alike
<1> QED
  BY <1>4, <1>5, <1>6, <1>7, <1>8 DEF Prepare

LEMMA RaisesFit ==
    ASSUME TypeInv, ClaimInv, NEW w \in Worker, ~At(w, "idle"), Raise(w),
           run[w].pc \in WorkPc
    PROVE  ClaimInv'
<1>1. Alike(run[w].pc, HandlerPc(run[w].job))
  BY PcSorts DEF HandlerPc, Alike
<1> QED
  BY <1>1, GoesOn DEF Raise

LEMMA ProcessPagesKeepsClaims ==
    ASSUME TypeInv, ClaimInv, NEW w \in Worker, ProcessPages(w)
    PROVE  ClaimInv'
<1> DEFINE j == run[w].job
<1>1. run[w].pc \in {"begin", "loop", "batch", "promote", "requeue"}
  BY DEF ProcessPages, BeginStagedSync, LoopHead, ClaimNextItem, ClaimNoItem, CompleteItem,
         FailItem, BatchRefused, EndBatch, PromoteDuplicateFallbacks, RequeueIncomplete,
         LoopRefused, At
<1>2. run[w].pc \in WorkPc /\ ~At(w, "idle") /\ run[w].pc \notin CleaningPc
  BY <1>1, PcSorts DEF At
<1>3. j \in Job /\ job[j] \in JobRow /\ run[w] \in RunState
  BY <1>2, DriverStatus
<1>4. ASSUME NEW pc \in WorkPc, Goto(w, pc), UNCHANGED job PROVE ClaimInv'
  BY <1>2, <1>4, GoesOn DEF Alike
<1>5. ASSUME NEW x, MovesTo(w, x), x.pc \in WorkPc, NEW s, NEW n,
             \/ UNCHANGED job
             \/ job' = [job EXCEPT ![j] = Counted(@, s, n)]
             \/ job' = [job EXCEPT ![j] = Uncounted(@, s, n)]
      PROVE  ClaimInv'
  <2>1. Alike(run[w].pc, x.pc)
    BY <1>2, <1>5 DEF Alike
  <2>2. \/ UNCHANGED job
        \/ job' = [job EXCEPT ![j] = Counted(job[j], s, n)]
        \/ job' = [job EXCEPT ![j] = Uncounted(job[j], s, n)]
    BY <1>3, <1>5 DEF TypeInv, JobsTyped
  <2> QED
    BY <1>2, <1>3, <1>5, <2>1, <2>2, CountedRow, AlikeRun, RunMovesAlone
<1>6. CASE BeginStagedSync(w)
  BY <1>4, <1>6, PcSorts DEF BeginStagedSync
<1>7. CASE LoopHead(w)
  <2> DEFINE x == [run[w] EXCEPT !.pc = "batch", !.slots = Concurrency, !.got = FALSE]
  <2>1. run' = [run EXCEPT ![w].pc = "batch", ![w].slots = Concurrency, ![w].got = FALSE]
           => MovesTo(w, x) /\ x.pc = "batch"
    BY <1>3 DEF MovesTo, TypeInv, RunsTyped, RunState
  <2> HIDE DEF x
  <2>2. CASE run' = [run EXCEPT ![w].pc = "batch", ![w].slots = Concurrency, ![w].got = FALSE]
    BY <1>5, <1>7, <2>1, <2>2, PcSorts DEF LoopHead
  <2>3. CASE \E pc \in WorkPc : Goto(w, pc)
    BY <1>4, <1>7, <2>3 DEF LoopHead
  <2>4. {"cancelAbort", "cancelStore", "finalize", "requeue"} \subseteq WorkPc
    BY PcSorts
  <2> QED
    BY <1>7, <2>2, <2>3, <2>4 DEF LoopHead
<1>8. ASSUME NEW i \in Item, ClaimNextItem(w, i) PROVE ClaimInv'
  <2> DEFINE x == [run[w] EXCEPT !.slots = @ - 1, !.pages[i] = @ + 1]
  <2>1. MovesTo(w, x) /\ x.pc = run[w].pc
    BY <1>3, <1>8 DEF ClaimNextItem, MovesTo, TypeInv, RunsTyped, RunState
  <2> QED
    BY <1>2, <1>5, <1>8, <2>1 DEF ClaimNextItem, SweptCounts
<1>9. CASE ClaimNoItem(w)
  <2> DEFINE x == [run[w] EXCEPT !.slots = @ - 1]
  <2>1. MovesTo(w, x) /\ x.pc = run[w].pc
    BY <1>3, <1>9 DEF ClaimNoItem, MovesTo, TypeInv, RunsTyped, RunState
  <2> QED
    BY <1>2, <1>5, <1>9, <2>1 DEF ClaimNoItem, SweptCounts
<1>10. ASSUME NEW i \in Item, PageHandled(w, i)
       PROVE  \E x : MovesTo(w, x) /\ x.pc = run[w].pc
  <2> DEFINE x == [run[w] EXCEPT !.pages[i] = @ - 1, !.got = TRUE, !.worked = TRUE]
  <2>1. MovesTo(w, x) /\ x.pc = run[w].pc
    BY <1>3, <1>10 DEF PageHandled, MovesTo, TypeInv, RunsTyped, RunState
  <2> QED
    BY <2>1
<1>11. ASSUME NEW i \in Item, NEW status, CompleteItem(w, i, status) PROVE ClaimInv'
  BY <1>2, <1>5, <1>10, <1>11 DEF CompleteItem
<1>12. ASSUME NEW i \in Item, NEW retryable \in BOOLEAN, FailItem(w, i, retryable)
       PROVE  ClaimInv'
  BY <1>2, <1>5, <1>10, <1>12 DEF FailItem
<1>13. CASE BatchRefused(w) \/ LoopRefused(w)
  BY <1>2, <1>13, RaisesFit DEF BatchRefused, LoopRefused
<1>14. CASE EndBatch(w)
  BY <1>4, <1>14, PcSorts DEF EndBatch
<1>15. CASE PromoteDuplicateFallbacks(w)
  <2>1. \E pc \in WorkPc : Goto(w, pc)
    BY <1>15, PcSorts DEF PromoteDuplicateFallbacks
  <2>2. \E x : MovesTo(w, x) /\ x.pc \in WorkPc
    BY <2>1, GoingMoves DEF TypeInv
  <2> QED
    BY <1>5, <1>15, <2>2 DEF PromoteDuplicateFallbacks
<1>16. CASE RequeueIncomplete(w)
  BY <1>2, <1>16, RunEnds DEF RequeueIncomplete
<1> QED
  BY <1>6, <1>7, <1>8, <1>9, <1>11, <1>12, <1>13, <1>14, <1>15, <1>16 DEF ProcessPages

LEMMA FinalizeKeepsClaims ==
    ASSUME TypeInv, ClaimInv, NEW w \in Worker, Finalize(w)
    PROVE  ClaimInv'
<1> DEFINE j == run[w].job
<1>1. run[w].pc \in {"finalize", "inventory", "publish", "record", "block"}
  BY DEF Finalize, StartFinalization, Inventory, PublishStagedSync, PublishRaises, Block,
         Complete, FinalizationRefused, At
<1>2. run[w].pc \in WorkPc /\ ~At(w, "idle") /\ run[w].pc \notin CleaningPc
  BY <1>1, PcSorts DEF At
<1>3. j \in Job /\ job[j] \in JobRow /\ run[w] \in RunState /\ job[j].status = "running"
  BY <1>2, DriverStatus
<1>4. ASSUME NEW pc, Goto(w, pc), UNCHANGED job, pc \in WorkPc \/ pc = "storeFail"
      PROVE  ClaimInv'
  BY <1>2, <1>4, GoesOn DEF Alike
<1>5. ASSUME NEW why, Blocking(w, why), UNCHANGED job PROVE ClaimInv'
  <2> DEFINE x == [run[w] EXCEPT !.pc = "block", !.why = why]
  <2>1. MovesTo(w, x) /\ x.pc = "block"
    BY <1>5, BlockingMoves DEF TypeInv
  <2>2. Alike(run[w].pc, "block")
    BY <1>2, PcSorts DEF Alike
  <2> HIDE DEF x
  <2> QED
    BY <1>2, <1>5, <2>1, <2>2, RunMovesAlone
<1>6. CASE StartFinalization(w)
  <2> DEFINE x == [run[w] EXCEPT !.pc = "inventory", !.timed = TRUE]
             row == [job[j] EXCEPT !.phase = "finalizing"]
  <2>1. MovesTo(w, x) /\ x.pc = "inventory"
    BY <1>3, <1>6 DEF StartFinalization, MovesTo, TypeInv, RunsTyped, RunState
  <2>2. job' = [job EXCEPT ![j] = row]
    BY <1>3, <1>6 DEF StartFinalization, TypeInv, JobsTyped, JobRow
  <2>3. Mine(w, job[j]) => RunFits(w, x, row)
    <3>1. row.status = "running" /\ row.owner = job[j].owner /\ row.lease = job[j].lease
      BY <1>3 DEF JobRow
    <3> QED
      BY <2>1, <3>1, PcSorts DEF RunFits, Mine, CleaningPc
  <2> HIDE DEF x, row
  <2> QED
    BY <1>2, <2>1, <2>2, <2>3, RunSteps DEF MovesTo
<1>7. CASE Inventory(w)
  <2>1. {"abort", "cancelAbort", "cancelStore", "publish", "record"} \subseteq WorkPc
    BY PcSorts
  <2> QED
    BY <1>4, <1>5, <1>7, <2>1 DEF Inventory, HandlerPc
<1>8. CASE PublishStagedSync(w)
  BY <1>4, <1>8, PcSorts DEF PublishStagedSync
<1>9. CASE PublishRaises(w)
  BY <1>5, <1>9 DEF PublishRaises
<1>10. CASE Block(w)
  BY <1>2, <1>10, RunEnds DEF Block
<1>11. CASE Complete(w)
  BY <1>2, <1>11, RunEnds DEF Complete
<1>12. CASE FinalizationRefused(w)
  BY <1>2, <1>4, <1>12, RaisesFit, RunEndsAlone DEF FinalizationRefused
<1> QED
  BY <1>6, <1>7, <1>8, <1>9, <1>10, <1>11, <1>12 DEF Finalize

LEMMA StopOrCleanKeepsClaims ==
    ASSUME TypeInv, ClaimInv, NEW w \in Worker, StopOrClean(w)
    PROVE  ClaimInv'
<1> DEFINE j == run[w].job
<1>1. /\ run[w].pc \in {"abort", "storeFail", "cancelAbort", "cancelStore", "cleanupAbort",
                        "cleanupFail", "cleanupRelease"}
      /\ ~At(w, "idle")
  BY DEF StopOrClean, AbortInHandler, StoreFail, CancelAbort, Cancel, CancelRefused,
         CleanupAbort, CleanupFail, ReleaseCleanup, CleanupRefused, At
<1>2. /\ j \in Job /\ job[j] \in JobRow
      /\ run[w].pc \in WorkPc => job[j].status = "running"
      /\ run[w].pc \in CleaningPc \ {"storeFail"} => job[j].status \in Stopped
  BY <1>1, DriverStatus
<1>3. ASSUME Abort(j), run[w].pc # "storeFail", NEW pc, Goto(w, pc), Alike(run[w].pc, pc)
      PROVE  ClaimInv'
  <2>1. run[w].pc \in WorkPc \cup (CleaningPc \ {"storeFail"})
    BY <1>1, <1>3, PcSorts DEF CleaningPc
  <2>2. job[j].status # "succeeded"
    BY <1>2, <2>1 DEF Stopped
  <2> DEFINE x == [run[w] EXCEPT !.pc = pc]
  <2>3. MovesTo(w, x) /\ x.pc = pc
    BY <1>3, GoingMoves DEF TypeInv
  <2>4. job' = [job EXCEPT ![j] = Invalidated(j)] /\ SameRow(Invalidated(j), job[j])
    BY <1>2, <1>3, <2>2, InvalidatedRow DEF Abort
  <2> HIDE DEF x
  <2> QED
    BY <1>1, <1>3, <2>3, <2>4, AlikeRun
<1>4. ASSUME Leave(w), job' = [job EXCEPT ![j] = Failed(j)] PROVE ClaimInv'
  BY <1>1, <1>2, <1>4, FailedRow, RunEnds DEF Stopped
<1>5. CASE AbortInHandler(w)
  BY <1>3, <1>5 DEF AbortInHandler, Alike, At
<1>6. CASE StoreFail(w)
  BY <1>1, <1>4, <1>6, RunEndsAlone DEF StoreFail
<1>7. CASE CancelAbort(w)
  <2>1. Alike("cancelAbort", "abort") /\ Alike("cancelAbort", "cancelStore")
    BY PcSorts DEF Alike
  <2> QED
    BY <1>3, <1>7, <2>1 DEF CancelAbort, At
<1>8. CASE Cancel(w)
  <2>1. run[w].pc \notin CleaningPc
    BY <1>8 DEF Cancel, At, CleaningPc
  <2> QED
    BY <1>1, <1>8, <2>1, RunEnds DEF Cancel
<1>9. CASE CancelRefused(w)
  BY <1>1, <1>9, RaisesFit, PcSorts DEF CancelRefused, At
<1>10. CASE CleanupAbort(w)
  <2>1. Alike("cleanupAbort", "cleanupRelease") /\ Alike("cleanupAbort", "cleanupFail")
    BY DEF Alike, CleaningPc
  <2> QED
    BY <1>3, <1>10, <2>1 DEF CleanupAbort, At
<1>11. CASE CleanupFail(w)
  BY <1>4, <1>11 DEF CleanupFail
<1>12. CASE ReleaseCleanup(w)
  <2> DEFINE q == Released(job[j])
             row == [q EXCEPT !.later = TRUE]
  <2>1. q \in JobRow /\ q.status = job[j].status
    BY <1>2, ReleasedJob, ReleasedRowPlan DEF SamePlan
  <2>2. job' = [job EXCEPT ![j] = row]
    BY <1>2, <1>12 DEF ReleaseCleanup, TypeInv, JobsTyped
  <2> HIDE DEF q
  <2>3. row.status = job[j].status
    BY <2>1 DEF JobRow
  <2> HIDE DEF row
  <2> QED
    BY <1>1, <1>12, <2>2, <2>3, RunEnds DEF ReleaseCleanup
<1>13. CASE CleanupRefused(w)
  <2>1. Alike("cleanupFail", "cleanupRelease") /\ Alike("cleanupRelease", "storeFail")
    BY DEF Alike, CleaningPc
  <2> QED
    BY <1>1, <1>13, <2>1, GoesOn DEF CleanupRefused, At
<1> QED
  BY <1>5, <1>6, <1>7, <1>8, <1>9, <1>10, <1>11, <1>12, <1>13 DEF StopOrClean

LEMMA DisturbanceKeepsClaims ==
    ASSUME TypeInv, ClaimInv, NEW w \in Worker, Disturbance(w) \/ LeaveLost(w)
    PROVE  ClaimInv'
<1>1. ~At(w, "idle") /\ UNCHANGED job
  <2>1. CASE LeaveLost(w)
    <3>1. ~At(w, "idle")
      BY <2>1 DEF LeaveLost, At
    <3> QED
      BY <2>1, <3>1 DEF LeaveLost
  <2>2. CASE Disturbance(w)
    BY <2>2 DEF Disturbance, HeartbeatStops, FinalizationTimeout, Fault, Crash, At
  <2> QED
    BY <2>1, <2>2
<1>2. run[w] \in RunState
  BY DEF TypeInv, RunsTyped
<1>3. CASE Leave(w)
  BY <1>1, <1>3, RunEndsAlone
<1>4. CASE HeartbeatStops(w)
  <2> DEFINE x == [run[w] EXCEPT !.lost = TRUE]
  <2>1. MovesTo(w, x) /\ x.pc = run[w].pc
    BY <1>2, <1>4 DEF HeartbeatStops, MovesTo, TypeInv, RunsTyped, RunState
  <2> HIDE DEF x
  <2> QED
    BY <1>1, <2>1, RunMovesAlone DEF Alike
<1>5. CASE FinalizationTimeout(w)
  <2> DEFINE why == IF IdentityViolated(run[w].job) THEN "identity" ELSE "finalization"
             x == [run[w] EXCEPT !.pc = "block", !.timed = FALSE, !.why = why]
  <2>1. MovesTo(w, x) /\ x.pc = "block"
    BY <1>2, <1>5 DEF FinalizationTimeout, MovesTo, TypeInv, RunsTyped, RunState
  <2>2. Alike(run[w].pc, "block")
    BY <1>5, PcSorts DEF FinalizationTimeout, Alike, At
  <2> HIDE DEF x
  <2> QED
    BY <1>1, <2>1, <2>2, RunMovesAlone
<1>6. ASSUME NEW pc, Goto(w, pc), Alike(run[w].pc, pc) PROVE ClaimInv'
  BY <1>1, <1>6, GoesOn
<1>7. CASE Fault(w) /\ ~Leave(w)
  <2>1. \A pc \in WorkPc : Alike(pc, HandlerPc(run[w].job))
    BY PcSorts DEF Alike, HandlerPc
  <2>2. Alike("cleanupAbort", "cleanupRelease") /\ Alike(run[w].pc, "storeFail")
    BY DEF Alike, CleaningPc
  <2> QED
    BY <1>6, <1>7, <2>1, <2>2, PcSorts DEF Fault, At
<1> QED
  BY <1>3, <1>4, <1>5, <1>7 DEF Disturbance, LeaveLost, Crash

\* Retention and back-off are no part of the plan.
LEMMA TickedRow ==
    ASSUME TypeInv, NEW j \in Job, RetentionExpires(j) \/ BackoffElapses(j)
    PROVE  \A k \in Job : SameRow(job'[k], job[k])
<1>1. job[j] \in JobRow
  BY DEF TypeInv, JobsTyped
<1>2. \/ job' = [job EXCEPT ![j] = [job[j] EXCEPT !.retention = "expired"]]
      \/ job' = [job EXCEPT ![j] = [job[j] EXCEPT !.later = FALSE]]
  BY <1>1 DEF RetentionExpires, BackoffElapses, TypeInv, JobsTyped, JobRow
<1>3. SameRow([job[j] EXCEPT !.retention = "expired"], job[j])
      /\ SameRow([job[j] EXCEPT !.later = FALSE], job[j])
  BY <1>1 DEF SameRow, SamePlan, JobRow
<1>4. \A k \in Job : SameRow(job[k], job[k])
  BY DEF SameRow, SamePlan
<1> QED
  BY <1>2, <1>3, <1>4 DEF TypeInv, JobsTyped

LEMMA TimeKeepsClaims ==
    ASSUME Prompt, TypeInv, ClaimInv, TimePasses
    PROVE  ClaimInv'
<1>1. ASSUME NEW j \in Job, LeaseExpires(j) PROVE ClaimInv'
  <2>1. job[j] \in JobRow /\ job' = [job EXCEPT ![j] = [job[j] EXCEPT !.lease = "expired"]]
    BY <1>1 DEF LeaseExpires, TypeInv, JobsTyped, JobRow
  <2>2. /\ \A k \in Job \ {j} : job'[k] = job[k]
        /\ job'[j].status = job[j].status
    BY <2>1 DEF TypeInv, JobsTyped, JobRow
  <2>3. UNCHANGED run /\ \A w \in Worker : run[w].job = j => ~Mine(w, job[j])
    BY <1>1 DEF LeaseExpires, Executing, Prompt, Mine
  <2>4. ASSUME NEW w \in Worker, Drives(w) PROVE Drives(w)'
    <3>1. run[w].job \in Job
      BY <2>4, RunHasJob DEF Drives, TypeInv, At
    <3>2. CASE run[w].job = j
      <4>1. run[w].pc \in CleaningPc /\ job[j].status \in Stopped
        BY <2>3, <2>4, <3>2 DEF Drives, RunFits
      <4> QED
        BY <2>2, <2>3, <2>4, <3>2, <4>1, PcSorts DEF Drives, RunFits
    <3> QED
      BY <2>2, <2>3, <2>4, <3>1, <3>2 DEF Drives
  <2> QED
    BY <2>3, <2>4 DEF ClaimInv
<1>2. ASSUME NEW j \in Job, RetentionExpires(j) \/ BackoffElapses(j) PROVE ClaimInv'
  <2>1. \A k \in Job : /\ job'[k].status = job[k].status /\ job'[k].owner = job[k].owner
                       /\ job'[k].lease = job[k].lease
    BY <1>2, TickedRow DEF SameRow, SamePlan
  <2> QED
    BY <1>2, <2>1, SteadyRow DEF RetentionExpires, BackoffElapses
<1>3. CASE UNCHANGED <<job, run>>
  BY <1>3, SteadyRow
<1> QED
  BY <1>1, <1>2, <1>3 DEF TimePasses, ItemLeaseExpires, ItemDue

LEMMA NextKeepsClaims ==
    ASSUME Prompt, TypeInv, ClaimInv, WaitingJobsAreUnleased, [Next]_vars
    PROVE  ClaimInv'
<1>1. CASE UNCHANGED vars
  BY <1>1, SteadyRow DEF vars
<1>2. CASE \E w \in Worker : WorkerStep(w) \/ Disturbance(w)
  BY <1>2, ClaimKeepsClaims, PrepareKeepsClaims, ProcessPagesKeepsClaims, FinalizeKeepsClaims,
     StopOrCleanKeepsClaims, DisturbanceKeepsClaims DEF WorkerStep
<1> QED
  BY <1>1, <1>2, OperatorKeepsClaims, TimeKeepsClaims DEF Next

LEMMA ClaimsHold == Prompt => (Spec => [](TypeInv /\ WaitingJobsAreUnleased /\ ClaimInv))
<1> SUFFICES ASSUME Prompt PROVE Spec => [](TypeInv /\ WaitingJobsAreUnleased /\ ClaimInv)
  OBVIOUS
<1>1. Init => TypeInv /\ WaitingJobsAreUnleased /\ ClaimInv
  BY InitTyped DEF Init, WaitingJobsAreUnleased, NoRow, ClaimInv
<1>2. TypeInv /\ WaitingJobsAreUnleased /\ ClaimInv /\ [Next]_vars
         => (TypeInv /\ WaitingJobsAreUnleased /\ ClaimInv)'
  BY NextTyped, NextKeepsUnleased, NextKeepsClaims
<1> QED
  BY <1>1, <1>2, PTL DEF Spec

\* When no heartbeat is paused past its lease, one run at most processes a job,
\* with any number of workers, crashes and lost leases: a second run finds the
\* job only when the first is cleaning up or giving up.
THEOREM OneRunDrivesAJob == Prompt => (Spec => []OneRunPerJob)
<1> SUFFICES ASSUME Prompt PROVE Spec => []OneRunPerJob
  OBVIOUS
<1>1. TypeInv /\ ClaimInv => OneRunPerJob
  <2> SUFFICES ASSUME TypeInv, ClaimInv, NEW v \in Worker, NEW w \in Worker, v # w,
                      run[v].job = run[w].job, run[v].job # NoJob
               PROVE  {run[v].pc, run[w].pc} \subseteq CleaningPc
    BY DEF OneRunPerJob
  <2>1. ~At(v, "idle") /\ ~At(w, "idle")
    BY IdleRunIsIdle DEF ClaimInv, Drives, At
  <2> QED
    BY <2>1, DriversAreAlone DEF Alone
<1>2. Spec => [](TypeInv /\ ClaimInv)
  BY ClaimsHold, PTL
<1> QED
  BY <1>1, <1>2, PTL

-----------------------------------------------------------------------------
(* What a step of an executing run can touch *)

Executes(w) == \/ Prepare(w) \/ ProcessPages(w) \/ Finalize(w) \/ StopOrClean(w)
               \/ LeaveLost(w) \/ Disturbance(w)

LEMMA ExecutionIsBusy ==
    ASSUME TypeInv, NEW w \in Worker, Executes(w)
    PROVE  ~At(w, "idle") /\ run[w].job \in Job
<1>1. ~At(w, "idle")
  <2>1. CASE Prepare(w)
    BY <2>1 DEF Prepare, AppendPreparedItem, ApplyDuplicatePolicy, YieldPreparation,
                FinishPreparation, PreparationRefused, At
  <2>2. CASE ProcessPages(w)
    BY <2>2 DEF ProcessPages, BeginStagedSync, LoopHead, ClaimNextItem, ClaimNoItem,
                CompleteItem, FailItem, BatchRefused, EndBatch, PromoteDuplicateFallbacks,
                RequeueIncomplete, LoopRefused, At
  <2>3. CASE Finalize(w)
    BY <2>3 DEF Finalize, StartFinalization, Inventory, PublishStagedSync, PublishRaises, Block,
                Complete, FinalizationRefused, At
  <2>4. CASE StopOrClean(w)
    BY <2>4 DEF StopOrClean, AbortInHandler, StoreFail, CancelAbort, Cancel, CancelRefused,
                CleanupAbort, CleanupFail, ReleaseCleanup, CleanupRefused, At
  <2>5. CASE LeaveLost(w)
    BY <2>5 DEF LeaveLost, At
  <2>6. CASE Disturbance(w)
    BY <2>6 DEF Disturbance, HeartbeatStops, FinalizationTimeout, Fault, Crash, At
  <2> QED
    BY <2>1, <2>2, <2>3, <2>4, <2>5, <2>6 DEF Executes
<1> QED
  BY <1>1, RunHasJob DEF TypeInv

\* A step of one run leaves the others where they are.
LEMMA OtherRunsStay ==
    ASSUME TypeInv, NEW w \in Worker, Executes(w), NEW v \in Worker \ {w}
    PROVE  run'[v] = run[v]
<1>1. CASE Prepare(w)
  BY <1>1 DEF Prepare, AppendPreparedItem, ApplyDuplicatePolicy, YieldPreparation,
              FinishPreparation, PreparationRefused, Goto, Leave, TypeInv, RunsTyped
<1>2. CASE ProcessPages(w)
  BY <1>2 DEF ProcessPages, BeginStagedSync, LoopHead, ClaimNextItem, ClaimNoItem,
              CompleteItem, FailItem, BatchRefused, EndBatch, PromoteDuplicateFallbacks,
              RequeueIncomplete, LoopRefused, Raise, Goto, Leave, PageHandled, TypeInv, RunsTyped
<1>3. CASE Finalize(w)
  BY <1>3 DEF Finalize, StartFinalization, Inventory, PublishStagedSync, PublishRaises, Block,
              Complete, FinalizationRefused, Raise, Goto, Leave, Blocking, TypeInv, RunsTyped
<1>4. CASE StopOrClean(w)
  BY <1>4 DEF StopOrClean, AbortInHandler, StoreFail, CancelAbort, Cancel, CancelRefused,
              CleanupAbort, CleanupFail, ReleaseCleanup, CleanupRefused, Raise, Goto, Leave,
              TypeInv, RunsTyped
<1>5. CASE LeaveLost(w) \/ Disturbance(w)
  BY <1>5 DEF LeaveLost, Disturbance, HeartbeatStops, FinalizationTimeout, Fault, Crash, Goto,
              Leave, TypeInv, RunsTyped
<1> QED
  BY <1>1, <1>2, <1>3, <1>4, <1>5 DEF Executes

\* A step of a run leaves the rows of every other job, and, unless it publishes,
\* every other snapshot.
LEMMA OtherJobsStay ==
    ASSUME TypeInv, NEW w \in Worker, Executes(w), NEW k \in Job \ {run[w].job}
    PROVE  /\ job'[k] = job[k] /\ item'[k] = item[k]
           /\ ~PublishStagedSync(w) => snapshot'[k] = snapshot[k]
<1> DEFINE j == run[w].job
<1>1. j \in Job
  BY ExecutionIsBusy
<1>2. CASE Prepare(w)
  BY <1>1, <1>2
     DEF Prepare, AppendPreparedItem, ApplyDuplicatePolicy, YieldPreparation, FinishPreparation,
         PreparationRefused, TypeInv, JobsTyped, ItemsTyped
<1>3. CASE ProcessPages(w)
  BY <1>1, <1>3
     DEF ProcessPages, BeginStagedSync, LoopHead, ClaimNextItem, ClaimNoItem, CompleteItem,
         FailItem, BatchRefused, EndBatch, PromoteDuplicateFallbacks, RequeueIncomplete,
         LoopRefused, Raise, SweptCounts, TypeInv, JobsTyped, ItemsTyped, SnapshotsTyped
<1>4. CASE Finalize(w)
  BY <1>1, <1>4
     DEF Finalize, StartFinalization, Inventory, PublishStagedSync, PublishRaises, Block,
         Complete, FinalizationRefused, Raise, TypeInv, JobsTyped, SnapshotsTyped
<1>5. CASE StopOrClean(w)
  <2>1. CASE Abort(j)
    BY <1>1, <2>1 DEF Abort, TypeInv, JobsTyped, ItemsTyped, SnapshotsTyped
  <2>2. CASE ~Abort(j)
    BY <1>1, <1>5, <2>2
       DEF StopOrClean, AbortInHandler, StoreFail, CancelAbort, Cancel, CancelRefused,
           CleanupAbort, CleanupFail, ReleaseCleanup, CleanupRefused, Raise, TypeInv,
           JobsTyped, ItemsTyped
  <2> QED
    BY <2>1, <2>2
<1>6. CASE LeaveLost(w) \/ Disturbance(w)
  BY <1>6 DEF LeaveLost, Disturbance, HeartbeatStops, FinalizationTimeout, Fault, Crash
<1> QED
  BY <1>2, <1>3, <1>4, <1>5, <1>6 DEF Executes

-----------------------------------------------------------------------------
(* The pages a run has in hand *)

HandPc == {"batch", "abort", "storeFail"}

\* What a page in the hands of a run x of worker w, with job row r, looks like.
HandFits(w, x, i, r, p) ==
    /\ x.pc \in HandPc
    /\ r.status = "running" /\ Mine(w, r)
    /\ x.pages[i] = 1
    /\ p.status = "fetching" /\ p.owner = w /\ p.lease = "live"

HandInv == \A w \in Worker, i \in Item : run[w].pages[i] # 0 =>
               HandFits(w, run[w], i, job[run[w].job], item[run[w].job][i])

\* A run that has a page in hand is executing a job that is its own.
LEMMA HandIsBusy ==
    ASSUME TypeInv, NEW w \in Worker, NEW i \in Item, run[w].pages[i] # 0,
           run[w] = IdleRun \/ Drives(w)
    PROVE  ~At(w, "idle") /\ run[w].job \in Job
<1>1. run[w] # IdleRun
  BY DEF IdleRun
<1> QED
  BY <1>1, RunHasJob DEF Drives, At, TypeInv

\* A step of a run w: the pages the other runs hold are not its own.
LEMMA HandsMove ==
    ASSUME TypeInv, ClaimInv, HandInv, NEW w \in Worker, Executes(w),
           \A i \in Item : run'[w].pages[i] # 0 =>
               HandFits(w, run'[w], i, job'[run'[w].job], item'[run'[w].job][i])
    PROVE  HandInv'
<1> SUFFICES ASSUME NEW v \in Worker \ {w}, NEW i \in Item, run'[v].pages[i] # 0
             PROVE  HandFits(v, run'[v], i, job'[run'[v].job], item'[run'[v].job][i])
  BY DEF HandInv
<1>1. run'[v] = run[v]
  BY OtherRunsStay
<1>2. HandFits(v, run[v], i, job[run[v].job], item[run[v].job][i])
  BY <1>1 DEF HandInv
<1>3. ~At(v, "idle") /\ run[v].job \in Job
  BY <1>1, HandIsBusy DEF ClaimInv
<1>4. run[v].job # run[w].job
  <2>1. job[run[v].job].status \notin Stopped
    BY <1>2 DEF HandFits, Stopped
  <2> QED
    BY <1>3, <2>1, DriversAreAlone DEF Alone
<1>5. job'[run[v].job] = job[run[v].job] /\ item'[run[v].job] = item[run[v].job]
  BY <1>3, <1>4, OtherJobsStay
<1> QED
  BY <1>1, <1>2, <1>5

\* The steps that take a page in hand or hand in its result.
HandlesPage(w) ==
    \/ \E i \in Item : ClaimNextItem(w, i)
    \/ \E i \in Item, status \in {"succeeded", "not_modified", "excluded"} : CompleteItem(w, i, status)
    \/ \E i \in Item, retryable \in BOOLEAN : FailItem(w, i, retryable)

\* In every other step a run keeps its pages until it ends.
LEMMA PagesStayInHand ==
    ASSUME TypeInv, NEW w \in Worker, Executes(w)
    PROVE  \/ run'[w] = IdleRun
           \/ run'[w].pages = run[w].pages /\ run'[w].job = run[w].job
           \/ At(w, "batch") /\ HandlesPage(w)
<1>1. CASE Prepare(w)
  <2>1. run[w] \in RunState /\ run \in [Worker -> RunState]
    BY DEF TypeInv, RunsTyped
  <2>2. \/ run' = [run EXCEPT ![w].worked = TRUE]
        \/ run' = [run EXCEPT ![w] = IdleRun]
        \/ run' = [run EXCEPT ![w].pc = "storeFail"]
    BY <1>1 DEF Prepare, AppendPreparedItem, ApplyDuplicatePolicy, YieldPreparation,
                FinishPreparation, PreparationRefused, Goto, Leave
  <2> QED
    BY <2>1, <2>2 DEF RunState
<1>2. CASE ProcessPages(w)
  <2>1. CASE HandlesPage(w)
    BY <2>1 DEF HandlesPage, ClaimNextItem, CompleteItem, FailItem
  <2>2. CASE \/ BeginStagedSync(w) \/ LoopHead(w) \/ ClaimNoItem(w) \/ BatchRefused(w)
             \/ EndBatch(w) \/ PromoteDuplicateFallbacks(w) \/ RequeueIncomplete(w)
             \/ LoopRefused(w)
    BY <2>2 DEF BeginStagedSync, LoopHead, ClaimNoItem, BatchRefused, EndBatch,
                PromoteDuplicateFallbacks, RequeueIncomplete, LoopRefused, Raise, Goto, Leave,
                TypeInv, RunsTyped, RunState
  <2> QED
    BY <1>2, <2>1, <2>2 DEF ProcessPages, HandlesPage
<1>3. CASE Finalize(w)
  BY <1>3 DEF Finalize, StartFinalization, Inventory, PublishStagedSync, PublishRaises, Block,
              Complete, FinalizationRefused, Raise, Goto, Leave, Blocking, TypeInv, RunsTyped,
              RunState
<1>4. CASE StopOrClean(w)
  BY <1>4 DEF StopOrClean, AbortInHandler, StoreFail, CancelAbort, Cancel, CancelRefused,
              CleanupAbort, CleanupFail, ReleaseCleanup, CleanupRefused, Raise, Goto, Leave,
              TypeInv, RunsTyped, RunState
<1>5. CASE LeaveLost(w) \/ Disturbance(w)
  BY <1>5 DEF LeaveLost, Disturbance, HeartbeatStops, FinalizationTimeout, Fault, Crash, Goto,
              Leave, TypeInv, RunsTyped, RunState
<1> QED
  BY <1>1, <1>2, <1>3, <1>4, <1>5 DEF Executes

\* A step of a run that is at none of the points with pages in hand.
LEMMA EmptyHandsMove ==
    ASSUME TypeInv, ClaimInv, HandInv, NEW w \in Worker, Executes(w),
           run[w].pc \notin HandPc \/ (\A i \in Item : run[w].pages[i] = 0),
           ~HandlesPage(w)
    PROVE  HandInv'
<1>1. \A i \in Item : run[w].pages[i] = 0
  BY DEF HandInv, HandFits
<1>2. \A i \in Item : run'[w].pages[i] = 0
  BY <1>1, PagesStayInHand DEF IdleRun
<1> QED
  BY <1>2, HandsMove

\* A step that keeps the pages in hand, and their rows.
LEMMA HandsStay ==
    ASSUME TypeInv, ClaimInv, HandInv, NEW w \in Worker, Executes(w),
           run'[w].pages = run[w].pages, run'[w].job = run[w].job, run'[w].pc \in HandPc,
           SameRow(job'[run[w].job], job[run[w].job]),
           \A i \in Item : item[run[w].job][i].status = "fetching"
                             => item'[run[w].job][i] = item[run[w].job][i]
    PROVE  HandInv'
<1> SUFFICES ASSUME NEW i \in Item, run'[w].pages[i] # 0
             PROVE  HandFits(w, run'[w], i, job'[run'[w].job], item'[run'[w].job][i])
  BY HandsMove
<1>1. HandFits(w, run[w], i, job[run[w].job], item[run[w].job][i])
  BY DEF HandInv
<1> QED
  BY <1>1 DEF HandFits, SameRow, SamePlan, Mine

LEMMA AbortKeepsHands ==
    ASSUME TypeInv, ClaimInv, HandInv, NEW w \in Worker, AbortInHandler(w)
    PROVE  HandInv'
<1> DEFINE j == run[w].job
<1>1. Executes(w) /\ run[w].pc = "abort" /\ ~At(w, "idle")
  BY DEF Executes, StopOrClean, AbortInHandler, At
<1>2. j \in Job /\ job[j] \in JobRow /\ job[j].status = "running" /\ run[w] \in RunState
  BY <1>1, DriverStatus, PcSorts
<1>3. SameRow(job'[j], job[j])
  BY <1>2, InvalidatedRow DEF AbortInHandler, Abort, TypeInv, JobsTyped
<1>4. ASSUME NEW i \in Item, item[j][i].status = "fetching" PROVE item'[j][i] = item[j][i]
  BY <1>2, <1>4 DEF AbortInHandler, Abort, Discarded, PagesIn, TypeInv, ItemsTyped
<1>5. run'[w].pages = run[w].pages /\ run'[w].job = j /\ run'[w].pc \in HandPc
  BY <1>2 DEF AbortInHandler, Goto, TypeInv, RunsTyped, RunState, HandPc
<1> QED
  BY <1>1, <1>3, <1>4, <1>5, HandsStay

\* Claiming a page: it was due, so no fetch of it is going on.
LEMMA ClaimItemKeepsHands ==
    ASSUME TypeInv, ClaimInv, HandInv, NEW w \in Worker,
           (\E i \in Item : ClaimNextItem(w, i)) \/ ClaimNoItem(w)
    PROVE  HandInv'
<1> DEFINE j == run[w].job
           n == Cardinality(OutOfAttempts(j))
<1>1. Executes(w) /\ run[w].pc = "batch" /\ ~At(w, "idle")
  BY DEF Executes, ProcessPages, ClaimNextItem, ClaimNoItem, At
<1>2. /\ j \in Job /\ job[j] \in JobRow /\ job[j].status = "running" /\ run[w] \in RunState
      /\ item[j] \in [Item -> PageRow]
  BY <1>1, DriverStatus, PcSorts DEF TypeInv, ItemsTyped
<1>3. Mine(w, job[j])
  BY <1>1, DriversAreAlone DEF CleaningPc
<1>4. SameRow(job'[j], job[j])
  <2>1. job'[j] = Counted(job[j], "failed", n)
    BY <1>2 DEF ClaimNextItem, ClaimNoItem, SweptCounts, TypeInv, JobsTyped
  <2> QED
    BY <1>2, <2>1, CountedRow
<1>5. \A l \in Item : item[j][l].lease = "live" => SweptPages(j)[l] = item[j][l]
  BY DEF SweptPages, OutOfAttempts
<1>6. CASE ClaimNoItem(w)
  <2> SUFFICES ASSUME NEW i \in Item, run'[w].pages[i] # 0
               PROVE  HandFits(w, run'[w], i, job'[run'[w].job], item'[run'[w].job][i])
    BY <1>1, HandsMove
  <2>1. run'[w].pages = run[w].pages /\ run'[w].job = j /\ run'[w].pc = "batch"
    BY <1>1, <1>2, <1>6 DEF ClaimNoItem, TypeInv, RunsTyped, RunState
  <2>2. HandFits(w, run[w], i, job[j], item[j][i])
    BY <2>1 DEF HandInv
  <2>3. item'[j][i] = item[j][i]
    BY <1>2, <1>5, <1>6, <2>2 DEF ClaimNoItem, HandFits, TypeInv, ItemsTyped
  <2> QED
    BY <1>4, <2>1, <2>2, <2>3 DEF HandFits, SameRow, SamePlan, Mine, HandPc
<1>7. ASSUME NEW i \in Item, ClaimNextItem(w, i) PROVE HandInv'
  <2> SUFFICES ASSUME NEW l \in Item, run'[w].pages[l] # 0
               PROVE  HandFits(w, run'[w], l, job'[run'[w].job], item'[run'[w].job][l])
    BY <1>1, HandsMove
  <2>1. run[w].pages \in [Item -> 0..Concurrency]
    BY <1>2 DEF RunState
  <2>2. /\ run'[w].job = j /\ run'[w].pc = "batch"
        /\ run'[w].pages = [run[w].pages EXCEPT ![i] = run[w].pages[i] + 1]
    BY <1>1, <1>2, <1>7 DEF ClaimNextItem, TypeInv, RunsTyped, RunState
  <2>3. run[w].pages[i] = 0
    BY <1>7 DEF HandInv, HandFits, ClaimNextItem, Due
  <2>4. job'[j].status = "running" /\ Mine(w, job'[j])
    BY <1>2, <1>3, <1>4 DEF SameRow, SamePlan, Mine
  <2>5. CASE l = i
    <3> DEFINE row == [LeasedTo(item[j][i], w) EXCEPT !.status = "fetching",
                                       !.attempts = Attempted(@), !.waiting = FALSE]
    <3>1. item'[j][i] = row
      BY <1>2, <1>7 DEF ClaimNextItem, TypeInv, ItemsTyped, SweptPages
    <3>2. row.status = "fetching" /\ row.owner = w /\ row.lease = "live"
      BY <1>2 DEF LeasedTo, PageRow
    <3>3. run'[w].pages[i] = 1
      BY <2>1, <2>2, <2>3
    <3> QED
      BY <2>2, <2>4, <2>5, <3>1, <3>2, <3>3 DEF HandFits, HandPc
  <2>6. CASE l # i
    <3>1. run'[w].pages[l] = run[w].pages[l]
      BY <2>1, <2>2, <2>6
    <3>2. HandFits(w, run[w], l, job[j], item[j][l])
      BY <3>1 DEF HandInv
    <3>3. item'[j][l] = item[j][l]
      BY <1>2, <1>5, <1>7, <2>6, <3>2
         DEF ClaimNextItem, HandFits, TypeInv, ItemsTyped, SweptPages
    <3> QED
      BY <2>2, <2>4, <3>1, <3>2, <3>3 DEF HandFits, HandPc
  <2> QED
    BY <2>5, <2>6
<1> QED
  BY <1>6, <1>7

\* Handing in a result: the page leaves the hands of the run.
LEMMA ResultKeepsHands ==
    ASSUME TypeInv, ClaimInv, HandInv, NEW w \in Worker, NEW i \in Item,
           \/ \E status \in {"succeeded", "not_modified", "excluded"} : CompleteItem(w, i, status)
           \/ \E retryable \in BOOLEAN : FailItem(w, i, retryable)
    PROVE  HandInv'
<1> DEFINE j == run[w].job
<1>1. Executes(w) /\ run[w].pc = "batch" /\ ~At(w, "idle") /\ run[w].pages[i] # 0
  <2>1. run[w].pages[i] \in 0..Concurrency /\ run[w].pages[i] > 0
    <3>1. run[w].pages \in [Item -> 0..Concurrency]
      BY DEF TypeInv, RunsTyped, RunState
    <3>2. i \in InHand(w)
      BY DEF CompleteItem, FailItem
    <3> QED
      BY <3>1, <3>2 DEF InHand
  <2>2. ProcessPages(w)
    BY DEF ProcessPages
  <2>3. run[w].pc = "batch"
    BY DEF CompleteItem, FailItem, At
  <2>4. run[w].pages[i] # 0
    BY <2>1
  <2> QED
    BY <2>2, <2>3, <2>4 DEF Executes, At
<1>2. /\ j \in Job /\ job[j] \in JobRow /\ job[j].status = "running" /\ run[w] \in RunState
      /\ item[j] \in [Item -> PageRow]
  BY <1>1, DriverStatus, PcSorts DEF TypeInv, ItemsTyped
<1>3. SameRow(job'[j], job[j])
  <2>1. \/ UNCHANGED job
        \/ \E s : job' = [job EXCEPT ![j] = Counted(@, s, 1)]
    BY DEF CompleteItem, FailItem
  <2>2. \/ job'[j] = job[j]
        \/ \E s : job'[j] = Counted(job[j], s, 1)
    BY <1>2, <2>1 DEF TypeInv, JobsTyped
  <2>3. SameRow(job[j], job[j])
    BY DEF SameRow, SamePlan
  <2> QED
    BY <1>2, <2>2, <2>3, CountedRow
<1>4. \A l \in Item \ {i} : item'[j][l] = item[j][l]
  <2>1. \E row : item' = [item EXCEPT ![j] = [item[j] EXCEPT ![i] = row]]
    <3>1. CASE \E status \in {"succeeded", "not_modified", "excluded"} : CompleteItem(w, i, status)
      BY <3>1 DEF CompleteItem
    <3>2. CASE \E retryable \in BOOLEAN : FailItem(w, i, retryable)
      BY <3>2 DEF FailItem
    <3> QED
      BY <3>1, <3>2
  <2> QED
    BY <1>2, <2>1 DEF TypeInv, ItemsTyped
<1>5. run[w].pages \in [Item -> 0..Concurrency] /\ run[w].pages[i] = 1
  BY <1>1, <1>2 DEF RunState, HandInv, HandFits
<1>6. /\ run'[w].job = j /\ run'[w].pc = "batch"
      /\ run'[w].pages = [run[w].pages EXCEPT ![i] = run[w].pages[i] - 1]
  <2>1. PageHandled(w, i)
    BY DEF CompleteItem, FailItem
  <2> QED
    BY <1>1, <1>2, <2>1 DEF PageHandled, TypeInv, RunsTyped, RunState
<1>7. ASSUME NEW l \in Item, run'[w].pages[l] # 0
      PROVE  HandFits(w, run'[w], l, job'[run'[w].job], item'[run'[w].job][l])
  <2>1. l # i /\ run'[w].pages[l] = run[w].pages[l]
    BY <1>5, <1>6, <1>7
  <2>2. HandFits(w, run[w], l, job[j], item[j][l])
    BY <1>7, <2>1 DEF HandInv
  <2>3. item'[j][l] = item[j][l]
    BY <1>4, <2>1
  <2>4. job'[j].status = "running" /\ Mine(w, job'[j])
    BY <1>3, <2>2 DEF HandFits, SameRow, SamePlan, Mine
  <2> QED
    BY <1>6, <2>1, <2>2, <2>3, <2>4 DEF HandFits, HandPc
<1> QED
  BY <1>1, <1>7, HandsMove

LEMMA ProcessPagesKeepsHands ==
    ASSUME TypeInv, ClaimInv, HandInv, NEW w \in Worker, ProcessPages(w)
    PROVE  HandInv'
<1>1. Executes(w)
  BY DEF Executes
<1>2. CASE HandlesPage(w)
  BY <1>2, ClaimItemKeepsHands, ResultKeepsHands DEF HandlesPage
<1>3. CASE ClaimNoItem(w)
  BY <1>3, ClaimItemKeepsHands
<1>4. CASE BatchRefused(w)
  <2>1. /\ run[w].pc = "batch" /\ ~At(w, "idle") /\ UNCHANGED <<job, item>>
        /\ Goto(w, HandlerPc(run[w].job))
    BY <1>4 DEF BatchRefused, Raise, At
  <2>2. run[w].job \in Job /\ run[w] \in RunState
    BY <2>1, DriverStatus
  <2>3. /\ run'[w].pages = run[w].pages /\ run'[w].job = run[w].job
        /\ run'[w].pc \in HandPc
    BY <2>1, <2>2 DEF Goto, HandlerPc, HandPc, TypeInv, RunsTyped, RunState
  <2>4. SameRow(job'[run[w].job], job[run[w].job])
    BY <2>1 DEF SameRow, SamePlan
  <2> QED
    BY <1>1, <2>1, <2>3, <2>4, HandsStay
<1>5. CASE EndBatch(w)
  <2>1. \A i \in Item : run[w].pages[i] = 0
    <3>1. \A i \in Item : run[w].pages[i] \in 0..Concurrency /\ ~(run[w].pages[i] > 0)
      BY <1>5 DEF EndBatch, InHand, TypeInv, RunsTyped, RunState
    <3> QED
      BY <3>1
  <2> QED
    BY <1>1, <1>2, <2>1, EmptyHandsMove
<1>6. CASE run[w].pc \notin HandPc
  BY <1>1, <1>2, <1>6, EmptyHandsMove
<1> QED
  BY <1>2, <1>3, <1>4, <1>5, <1>6
     DEF ProcessPages, HandlesPage, BeginStagedSync, LoopHead, PromoteDuplicateFallbacks,
         RequeueIncomplete, LoopRefused, At, HandPc

LEMMA ExecutionKeepsHands ==
    ASSUME TypeInv, ClaimInv, HandInv, NEW w \in Worker, Executes(w)
    PROVE  HandInv'
<1>1. ~At(w, "idle") /\ run[w].job \in Job /\ run[w] \in RunState
  BY ExecutionIsBusy DEF TypeInv, RunsTyped
<1>2. CASE ProcessPages(w)
  BY <1>2, ProcessPagesKeepsHands
<1>3. CASE HandlesPage(w)
  BY <1>3, ProcessPagesKeepsHands DEF HandlesPage, ProcessPages
<1>4. CASE run'[w] = IdleRun
  BY <1>4, HandsMove DEF IdleRun
<1>5. CASE run[w].pc \notin HandPc
  BY <1>3, <1>5, EmptyHandsMove
<1>6. CASE AbortInHandler(w)
  BY <1>6, AbortKeepsHands
<1>7. CASE UNCHANGED <<job, item>> /\ run'[w].pc \in HandPc /\ run'[w].pages = run[w].pages
              /\ run'[w].job = run[w].job
  BY <1>7, HandsStay DEF SameRow, SamePlan
<1>8. CASE HeartbeatStops(w)
  BY <1>1, <1>5, <1>7, <1>8 DEF HeartbeatStops, TypeInv, RunsTyped, RunState
<1>9. CASE Fault(w) /\ At(w, "batch")
  <2>1. UNCHANGED <<job, item>> /\ Goto(w, HandlerPc(run[w].job))
    BY <1>9 DEF Fault, At
  <2>2. HandlerPc(run[w].job) \in HandPc
    BY DEF HandlerPc, HandPc
  <2> QED
    BY <1>1, <1>7, <2>1, <2>2 DEF Goto, TypeInv, RunsTyped, RunState
<1>10. ASSUME Leave(w) PROVE HandInv'
  BY <1>4, <1>10 DEF Leave, TypeInv, RunsTyped
<1>11. CASE Prepare(w)
  BY <1>5, <1>11 DEF Prepare, AppendPreparedItem, ApplyDuplicatePolicy, YieldPreparation,
                     FinishPreparation, PreparationRefused, At, HandPc
<1>12. CASE Finalize(w)
  BY <1>5, <1>12 DEF Finalize, StartFinalization, Inventory, PublishStagedSync, PublishRaises,
                     Block, Complete, FinalizationRefused, At, HandPc
<1>13. CASE StopOrClean(w)
  BY <1>5, <1>6, <1>10, <1>13
     DEF StopOrClean, StoreFail, CancelAbort, Cancel, CancelRefused, CleanupAbort, CleanupFail,
         ReleaseCleanup, CleanupRefused, At, HandPc
<1>14. CASE LeaveLost(w) \/ Disturbance(w)
  BY <1>5, <1>8, <1>9, <1>10, <1>14
     DEF LeaveLost, Disturbance, FinalizationTimeout, Fault, Crash, At, HandPc
<1> QED
  BY <1>2, <1>11, <1>12, <1>13, <1>14 DEF Executes

SameHold(p, q) == p.status = q.status /\ p.owner = q.owner /\ p.lease = q.lease

\* A step that moves no executing run: the rows of a running, leased job keep
\* what a page in hand relies on.
LEMMA HandsUntouched ==
    ASSUME TypeInv, ClaimInv, HandInv,
           \A v \in Worker : run[v] # IdleRun => run'[v] = run[v],
           \A v \in Worker : run[v] = IdleRun => \A i \in Item : run'[v].pages[i] = 0,
           \A v \in Worker, i \in Item :
              LET j == run[v].job IN
              HandFits(v, run[v], i, job[j], item[j][i]) /\ j \in Job =>
                 /\ job'[j].status = "running" /\ Mine(v, job'[j])
                 /\ SameHold(item'[j][i], item[j][i])
    PROVE  HandInv'
<1> SUFFICES ASSUME NEW v \in Worker, NEW i \in Item, run'[v].pages[i] # 0
             PROVE  HandFits(v, run'[v], i, job'[run'[v].job], item'[run'[v].job][i])
  BY DEF HandInv
<1>1. run[v] # IdleRun /\ run'[v] = run[v]
  OBVIOUS
<1>2. HandFits(v, run[v], i, job[run[v].job], item[run[v].job][i])
  BY <1>1 DEF HandInv
<1>3. run[v].job \in Job
  BY <1>1, HandIsBusy DEF ClaimInv
<1>4. /\ job'[run[v].job].status = "running" /\ Mine(v, job'[run[v].job])
      /\ SameHold(item'[run[v].job][i], item[run[v].job][i])
  BY <1>2, <1>3
<1> QED
  BY <1>1, <1>2, <1>4 DEF HandFits, SameHold

LEMMA ClaimKeepsHands ==
    ASSUME TypeInv, ClaimInv, HandInv, NEW w \in Worker, Claim(w)
    PROVE  HandInv'
<1>1. run[w] = IdleRun /\ UNCHANGED item
  BY DEF Claim, ClaimNext, ClaimNothing, At, ClaimInv, Drives
<1>2. \A k \in Job : job[k].lease = "live" => Swept(k) = job[k]
  BY SweptRow DEF Exhausted, TypeInv, JobsTyped
<1>3. \A k \in Job : job[k].status = "running" /\ job[k].lease = "live" => job'[k] = job[k]
  BY <1>2 DEF Claim, ClaimNext, ClaimNothing, Claimable
<1>4. /\ \A v \in Worker \ {w} : run'[v] = run[v]
      /\ \A i \in Item : run'[w].pages[i] = 0
  <2>1. \A pc, j : [IdleRun EXCEPT !.pc = pc, !.job = j].pages = IdleRun.pages
    BY DEF IdleRun
  <2>2. \A i \in Item : IdleRun.pages[i] = 0
    BY DEF IdleRun
  <2>3. run'[w].pages = IdleRun.pages
    <3>1. CASE ClaimNothing(w)
      BY <1>1, <3>1 DEF ClaimNothing
    <3>2. CASE \E j \in Job : ClaimNext(w, j)
      <4>0. PICK j \in Job : \E pc : run' = [run EXCEPT ![w] = [IdleRun EXCEPT !.pc = pc, !.job = j]]
        BY <3>2 DEF ClaimNext
      <4>1. PICK pc : run' = [run EXCEPT ![w] = [IdleRun EXCEPT !.pc = pc, !.job = j]]
        BY <4>0
      <4>2. run'[w] = [IdleRun EXCEPT !.pc = pc, !.job = j]
        BY <4>1 DEF TypeInv, RunsTyped
      <4> QED
        BY <2>1, <4>2
    <3> QED
      BY <3>1, <3>2 DEF Claim
  <2>4. \A v \in Worker \ {w} : run'[v] = run[v]
    BY DEF Claim, ClaimNext, ClaimNothing, TypeInv, RunsTyped
  <2> QED
    BY <2>2, <2>3, <2>4
<1>5. \A v \in Worker : run[v] = IdleRun => \A i \in Item : run'[v].pages[i] = 0
  BY <1>4 DEF IdleRun
<1> QED
  BY <1>1, <1>3, <1>4, <1>5, HandsUntouched DEF HandFits, Mine, SameHold

LEMMA OperatorKeepsHands ==
    ASSUME TypeInv, ClaimInv, HandInv, Operator
    PROVE  HandInv'
<1>1. PICK j \in Job : \/ Enqueue(j)
                       \/ RequestCancel(j)
                       \/ RetryBlocked(j)
                       \/ \E S \in SUBSET Item : ReconcileStaleVersions(j, S)
  BY DEF Operator
<1>2. UNCHANGED run
  BY <1>1 DEF Enqueue, RequestCancel, RetryBlocked, ReconcileStaleVersions
<1>3. ASSUME NEW k \in Job, job[k].status = "running"
      PROVE  /\ item'[k] = item[k] /\ job'[k].status = "running"
             /\ job'[k].owner = job[k].owner /\ job'[k].lease = job[k].lease
  <2>1. CASE RequestCancel(j)
    BY <1>3, <2>1 DEF RequestCancel, TypeInv, JobsTyped, ItemsTyped, JobRow
  <2>2. CASE ~RequestCancel(j)
    BY <1>1, <1>3, <2>2
       DEF Enqueue, RetryBlocked, ReconcileStaleVersions, TypeInv, JobsTyped, ItemsTyped
  <2> QED
    BY <2>1, <2>2
<1>4. \A v \in Worker : run[v] = IdleRun => \A i \in Item : run'[v].pages[i] = 0
  BY <1>2 DEF IdleRun
<1> QED
  BY <1>2, <1>3, <1>4, HandsUntouched DEF HandFits, Mine, SameHold

QuickPages == SlowPages = FALSE

LEMMA TimeKeepsHands ==
    ASSUME Prompt, QuickPages, TypeInv, ClaimInv, HandInv, TimePasses
    PROVE  HandInv'
<1>1. UNCHANGED run
  BY DEF TimePasses, LeaseExpires, RetentionExpires, BackoffElapses, ItemLeaseExpires, ItemDue
<1>2. \A v \in Worker : run[v] = IdleRun => \A i \in Item : run'[v].pages[i] = 0
  BY <1>1 DEF IdleRun
<1> SUFFICES ASSUME NEW v \in Worker, NEW i \in Item, run[v].job \in Job,
                    HandFits(v, run[v], i, job[run[v].job], item[run[v].job][i])
             PROVE  /\ job'[run[v].job].status = "running" /\ Mine(v, job'[run[v].job])
                    /\ SameHold(item'[run[v].job][i], item[run[v].job][i])
  BY <1>1, <1>2, HandsUntouched
<1> DEFINE k == run[v].job
<1>3. ASSUME NEW j \in Job, LeaseExpires(j)
      PROVE  job'[k] = job[k] /\ item'[k] = item[k]
  BY <1>3 DEF LeaseExpires, Executing, Prompt, HandFits, Mine, TypeInv, JobsTyped
<1>4. ASSUME NEW j \in Job, RetentionExpires(j) \/ BackoffElapses(j)
      PROVE  SameRow(job'[k], job[k]) /\ item'[k] = item[k]
  BY <1>4, TickedRow DEF RetentionExpires, BackoffElapses
<1>5. ASSUME NEW j \in Job, NEW l \in Item, ItemLeaseExpires(j, l) \/ ItemDue(j, l)
      PROVE  job'[k] = job[k] /\ SameHold(item'[k][i], item[k][i])
  <2>1. CASE ItemLeaseExpires(j, l)
    <3>1. i \in InHand(v)
      BY DEF HandFits, InHand
    <3>2. ~(j = k /\ l = i)
      BY <2>1, <3>1 DEF ItemLeaseExpires, Fetching, QuickPages
    <3> QED
      BY <2>1, <3>2 DEF ItemLeaseExpires, TypeInv, ItemsTyped, SameHold
  <2>2. CASE ItemDue(j, l)
    <3>1. item[k][i] \in PageRow
      BY DEF TypeInv, ItemsTyped
    <3>2. SameHold([item[k][i] EXCEPT !.waiting = FALSE], item[k][i])
      BY <3>1 DEF SameHold, PageRow
    <3> QED
      BY <2>2, <3>2 DEF ItemDue, TypeInv, ItemsTyped, SameHold
  <2> QED
    BY <1>5, <2>1, <2>2
<1>6. SameHold(item[k][i], item[k][i])
  BY DEF SameHold
<1> QED
  BY <1>3, <1>4, <1>5, <1>6 DEF TimePasses, SameRow, SamePlan, Mine, HandFits

LEMMA NextKeepsHands ==
    ASSUME Prompt, QuickPages, TypeInv, ClaimInv, HandInv, [Next]_vars
    PROVE  HandInv'
<1>1. CASE UNCHANGED vars
  BY <1>1 DEF vars, HandInv
<1>2. CASE \E w \in Worker : WorkerStep(w) \/ Disturbance(w)
  BY <1>2, ClaimKeepsHands, ExecutionKeepsHands DEF WorkerStep, Executes
<1> QED
  BY <1>1, <1>2, OperatorKeepsHands, TimeKeepsHands DEF Next

\* When a page never takes longer than its own lease and no heartbeat is paused
\* past the job's, no page is fetched twice at a time, neither by two workers nor
\* by two slots of one, however many pages a run fetches concurrently.
THEOREM PagesAreFetchedOnce == Prompt /\ QuickPages => (Spec => []OneFetchPerPage)
<1> SUFFICES ASSUME Prompt, QuickPages PROVE Spec => []OneFetchPerPage
  OBVIOUS
<1>1. TypeInv /\ ClaimInv /\ HandInv => OneFetchPerPage
  <2> SUFFICES ASSUME TypeInv, ClaimInv, HandInv,
                      NEW j \in Job, NEW i \in Item, NEW w \in Worker,
                      run[w].job = j, i \in InHand(w)
               PROVE  /\ run[w].pages[i] = 1
                      /\ \A v \in Worker \ {w} : run[v].job = j => i \notin InHand(v)
    BY DEF OneFetchPerPage
  <2>1. \A v \in Worker : i \in InHand(v) => run[v].pages[i] # 0
    BY DEF InHand
  <2> QED
    BY <2>1 DEF HandInv, HandFits, Mine
<1>2. Spec => [](TypeInv /\ ClaimInv)
  BY ClaimsHold, PTL
<1>3. Init => HandInv
  BY DEF Init, HandInv, IdleRun
<1>4. TypeInv /\ ClaimInv /\ HandInv /\ [Next]_vars => HandInv'
  BY NextKeepsHands
<1> QED
  BY <1>1, <1>2, <1>3, <1>4, PTL DEF Spec

-----------------------------------------------------------------------------
(* What a step of an executing run makes of its job row *)

Elects(q, r) == /\ q.elected
                /\ q.status = r.status /\ q.phase = r.phase /\ q.publication = r.publication
                /\ q.activeSite = r.activeSite /\ q.cancel = r.cancel
                /\ q.failures = r.failures /\ q.owner = r.owner /\ q.lease = r.lease
Frees(q, r) == SamePlan(q, r) /\ Freed(q)
Returns(q, r) == /\ q.status = "queued" /\ Freed(q)
                 /\ q.publication = r.publication /\ q.activeSite = r.activeSite
                 /\ q.cancel = r.cancel /\ q.elected = r.elected /\ q.failures \in {0, r.failures}
StartsFinal(q, r) == /\ q.phase = "finalizing"
                     /\ q.status = r.status /\ q.publication = r.publication
                     /\ q.activeSite = r.activeSite /\ q.cancel = r.cancel
                     /\ q.elected = r.elected /\ q.failures = r.failures
                     /\ q.owner = r.owner /\ q.lease = r.lease
Blocks(q, r) == /\ q.status = "blocked" /\ q.publication = "pending" /\ Freed(q)
                /\ q.activeSite = r.activeSite /\ q.cancel = r.cancel
                /\ q.elected = r.elected /\ q.failures = r.failures
Ends(q, r, status, publication) ==
    Ended(q, r) /\ q.status = status /\ q.publication = publication

\* The steps that keep a run going, and those that end it.
KeepsRow(w, q, r) ==
    \/ SameRow(q, r)
    \/ At(w, "prepare") /\ r.status = "preparing" /\ Elects(q, r)
    \/ At(w, "finalize") /\ StartsFinal(q, r)
EndsRow(w, j, q, r) ==
    \/ At(w, "prepare") /\ r.status = "preparing" /\ Frees(q, r)
    \/ At(w, "prepare") /\ r.status = "preparing" /\ r.elected /\ Returns(q, r)
    \/ At(w, "requeue") /\ Returns(q, r)
    \/ At(w, "block") /\ Blocks(q, r)
    \/ /\ At(w, "record")
       /\ IF j \in Production THEN Ends(q, r, "succeeded", "published")
          ELSE \E status \in {"succeeded", "failed"} : Ends(q, r, status, "not_requested")
    \/ At(w, "cancelStore") /\ Ends(q, r, "canceled", CanceledPublication(j))
    \/ /\ run[w].pc \in {"storeFail", "cleanupFail"}
       /\ r.owner = w /\ r.status \in {"preparing", "running", "cleanup_pending"}
       /\ Ends(q, r, "failed", CanceledPublication(j))
    \/ At(w, "cleanupRelease") /\ Frees(q, r)

RowMoves(w) ==
    LET j == run[w].job IN
    \/ KeepsRow(w, job'[j], job[j])
    \/ run'[w] = IdleRun /\ EndsRow(w, j, job'[j], job[j])

LEMMA UnchangedRow ==
    ASSUME NEW w, UNCHANGED job
    PROVE  RowMoves(w)
BY DEF RowMoves, KeepsRow, SameRow, SamePlan

LEMMA PrepareRow ==
    ASSUME TypeInv, ClaimInv, NEW w \in Worker, Prepare(w)
    PROVE  RowMoves(w)
<1> DEFINE j == run[w].job
           r == job[j]
<1>1. At(w, "prepare") /\ j \in Job /\ r \in JobRow
  <2>1. At(w, "prepare")
    BY DEF Prepare, AppendPreparedItem, ApplyDuplicatePolicy, YieldPreparation,
           FinishPreparation, PreparationRefused
  <2> QED
    BY <2>1, ExecutionIsBusy DEF Executes, TypeInv, JobsTyped
<1>2. Released(r) \in JobRow /\ SamePlan(Released(r), r) /\ Freed(Released(r))
  BY <1>1, ReleasedJob, ReleasedRowPlan
<1>3. CASE ApplyDuplicatePolicy(w)
  <2> DEFINE c == Counted(r, "excluded", Cardinality(Loser \cap PagesIn(j, {"pending"})))
             row == [c EXCEPT !.elected = TRUE]
  <2>1. c \in JobRow /\ SameRow(c, r)
    <3>1. Loser \cap PagesIn(j, {"pending"}) \subseteq Item /\ "excluded" \in CountedStatus
      BY DEF PagesIn, CountedStatus
    <3> QED
      BY <1>1, <3>1, CountPages, CountedJob, CountedRow
  <2>2. job'[j] = row /\ r.status = "preparing"
    BY <1>1, <1>3 DEF ApplyDuplicatePolicy, Holds, TypeInv, JobsTyped
  <2> HIDE DEF c
  <2>3. Elects(row, c)
    BY <2>1 DEF JobRow, Elects
  <2>4. Elects(row, r)
    BY <2>1, <2>3 DEF Elects, SameRow, SamePlan
  <2> QED
    BY <1>1, <2>2, <2>4 DEF RowMoves, KeepsRow
<1>4. CASE YieldPreparation(w)
  <2>1. job'[j] = Released(r) /\ r.status = "preparing" /\ run'[w] = IdleRun
    BY <1>1, <1>4 DEF YieldPreparation, Holds, Leave, TypeInv, JobsTyped, RunsTyped
  <2> QED
    BY <1>1, <1>2, <2>1 DEF RowMoves, EndsRow, Frees
<1>5. CASE FinishPreparation(w)
  <2> DEFINE f == Released(r)
             row == [f EXCEPT !.status = "queued", !.phase = "queued", !.failures = 0]
  <2>1. job'[j] = row /\ r.status = "preparing" /\ r.elected /\ run'[w] = IdleRun
    BY <1>1, <1>5 DEF FinishPreparation, Holds, Leave, TypeInv, JobsTyped, RunsTyped
  <2> HIDE DEF f
  <2>2. /\ row.status = "queued" /\ row.failures = 0 /\ row.owner = f.owner /\ row.lease = f.lease
        /\ row.publication = f.publication /\ row.activeSite = f.activeSite
        /\ row.cancel = f.cancel /\ row.elected = f.elected
    BY <1>2 DEF f, JobRow
  <2>3. Returns(row, r)
    BY <1>2, <2>2 DEF f, Returns, SamePlan, Freed
  <2> QED
    BY <1>1, <2>1, <2>3 DEF RowMoves, EndsRow
<1> QED
  BY <1>3, <1>4, <1>5, UnchangedRow DEF Prepare, AppendPreparedItem, PreparationRefused

LEMMA ProcessPagesRow ==
    ASSUME TypeInv, ClaimInv, NEW w \in Worker, ProcessPages(w)
    PROVE  RowMoves(w)
<1> DEFINE j == run[w].job
           r == job[j]
<1>1. j \in Job /\ r \in JobRow
  BY ExecutionIsBusy DEF Executes, TypeInv, JobsTyped
<1>2. ASSUME NEW s, NEW n, \/ job' = [job EXCEPT ![j] = Counted(@, s, n)]
                           \/ job' = [job EXCEPT ![j] = Uncounted(@, s, n)]
      PROVE  RowMoves(w)
  <2>1. job'[j] = Counted(r, s, n) \/ job'[j] = Uncounted(r, s, n)
    BY <1>1, <1>2 DEF TypeInv, JobsTyped
  <2> QED
    BY <1>1, <2>1, CountedRow DEF RowMoves, KeepsRow
<1>3. CASE HandlesPage(w)
  <2>1. \/ UNCHANGED job
        \/ \E s, n : job' = [job EXCEPT ![j] = Counted(@, s, n)]
    BY <1>3 DEF HandlesPage, ClaimNextItem, SweptCounts, CompleteItem, FailItem
  <2> QED
    BY <1>2, <2>1, UnchangedRow
<1>4. CASE ClaimNoItem(w)
  BY <1>2, <1>4 DEF ClaimNoItem, SweptCounts
<1>5. CASE PromoteDuplicateFallbacks(w)
  BY <1>2, <1>5 DEF PromoteDuplicateFallbacks
<1>6. CASE RequeueIncomplete(w)
  <2> DEFINE f == Released(r)
             row == [f EXCEPT !.status = "queued", !.phase = "queued"]
  <2>1. f \in JobRow /\ SamePlan(f, r) /\ Freed(f)
    BY <1>1, ReleasedJob, ReleasedRowPlan
  <2>2. job'[j] = row /\ run'[w] = IdleRun /\ At(w, "requeue")
    BY <1>1, <1>6 DEF RequeueIncomplete, Leave, TypeInv, JobsTyped, RunsTyped
  <2> HIDE DEF f
  <2>3. /\ row.status = "queued" /\ row.failures = f.failures
        /\ row.owner = f.owner /\ row.lease = f.lease
        /\ row.publication = f.publication /\ row.activeSite = f.activeSite
        /\ row.cancel = f.cancel /\ row.elected = f.elected
    BY <2>1 DEF JobRow
  <2>4. Returns(row, r)
    BY <2>1, <2>3 DEF Returns, SamePlan, Freed
  <2> QED
    BY <2>2, <2>4 DEF RowMoves, EndsRow
<1> QED
  BY <1>3, <1>4, <1>5, <1>6, UnchangedRow
     DEF ProcessPages, HandlesPage, BeginStagedSync, LoopHead, BatchRefused, EndBatch,
         LoopRefused, Raise

LEMMA FinalizeRow ==
    ASSUME TypeInv, ClaimInv, NEW w \in Worker, Finalize(w)
    PROVE  RowMoves(w)
<1> DEFINE j == run[w].job
           r == job[j]
<1>1. j \in Job /\ r \in JobRow
  BY ExecutionIsBusy DEF Executes, TypeInv, JobsTyped
<1>2. CASE StartFinalization(w)
  <2>1. job'[j] = [r EXCEPT !.phase = "finalizing"] /\ At(w, "finalize")
    BY <1>1, <1>2 DEF StartFinalization, TypeInv, JobsTyped, JobRow
  <2>2. StartsFinal([r EXCEPT !.phase = "finalizing"], r)
    BY <1>1 DEF StartsFinal, JobRow
  <2> QED
    BY <2>1, <2>2 DEF RowMoves, KeepsRow
<1>3. CASE Block(w)
  <2>1. job'[j] = Blocked(r, run[w].why) /\ run'[w] = IdleRun /\ At(w, "block")
    BY <1>1, <1>3 DEF Block, Leave, TypeInv, JobsTyped, RunsTyped
  <2> QED
    BY <1>1, <2>1, BlockedRow DEF RowMoves, EndsRow, Blocks
<1>4. CASE Complete(w)
  <2> DEFINE f == Released(r)
             ok == j \in Production \/ PagesIn(j, {"failed"}) = {}
             status == IF ok THEN "succeeded" ELSE "failed"
             publication == IF j \in Production THEN "published" ELSE "not_requested"
             row == [f EXCEPT !.status = status, !.phase = "completed",
                              !.publication = publication, !.activeSite = FALSE]
  <2>1. f \in JobRow /\ SamePlan(f, r) /\ Freed(f)
    BY <1>1, ReleasedJob, ReleasedRowPlan
  <2>2. job'[j] = row /\ run'[w] = IdleRun /\ At(w, "record")
    BY <1>1, <1>4 DEF Complete, Leave, TypeInv, JobsTyped, RunsTyped
  <2>3. /\ status \in {"succeeded", "failed"}
        /\ j \in Production => status = "succeeded" /\ publication = "published"
        /\ j \notin Production => publication = "not_requested"
    OBVIOUS
  <2> HIDE DEF f, status, publication
  <2>4. /\ row.status = status /\ row.publication = publication /\ row.activeSite = FALSE
        /\ row.owner = f.owner /\ row.lease = f.lease /\ row.cancel = f.cancel
        /\ row.elected = f.elected /\ row.failures = f.failures
    BY <2>1 DEF JobRow
  <2>5. Ends(row, r, status, publication)
    BY <2>1, <2>4 DEF Ends, Ended, SamePlan, Freed
  <2> QED
    BY <2>2, <2>3, <2>5 DEF RowMoves, EndsRow
<1> QED
  BY <1>2, <1>3, <1>4, UnchangedRow
     DEF Finalize, Inventory, PublishStagedSync, PublishRaises, FinalizationRefused, Raise

LEMMA StopOrCleanRow ==
    ASSUME TypeInv, ClaimInv, NEW w \in Worker, StopOrClean(w)
    PROVE  RowMoves(w)
<1> DEFINE j == run[w].job
           r == job[j]
<1>1. j \in Job /\ r \in JobRow /\ ~At(w, "idle")
  BY ExecutionIsBusy DEF Executes, TypeInv, JobsTyped
<1>2. CASE AbortInHandler(w) \/ CancelAbort(w) \/ CleanupAbort(w)
  <2>1. run[w].pc \in {"abort", "cancelAbort", "cleanupAbort"}
    BY <1>2 DEF AbortInHandler, CancelAbort, CleanupAbort, At
  <2>2. run[w].pc \in WorkPc \/ run[w].pc \in CleaningPc \ {"storeFail"}
    BY <2>1, PcSorts DEF CleaningPc
  <2>3. r.status # "succeeded"
    BY <1>1, <2>2, DriverStatus DEF Stopped
  <2>4. job'[j] = Invalidated(j)
    BY <1>1, <1>2 DEF AbortInHandler, CancelAbort, CleanupAbort, Abort, TypeInv, JobsTyped
  <2> QED
    BY <1>1, <2>3, <2>4, InvalidatedRow DEF RowMoves, KeepsRow
<1>3. ASSUME run[w].pc \in {"storeFail", "cleanupFail"},
             Holds(w, {"preparing", "running", "cleanup_pending"}),
             job' = [job EXCEPT ![j] = Failed(j)], Leave(w)
      PROVE  RowMoves(w)
  <2>1. job'[j] = Failed(j) /\ run'[w] = IdleRun
    BY <1>1, <1>3 DEF Leave, TypeInv, JobsTyped, RunsTyped
  <2> QED
    BY <1>1, <1>3, <2>1, FailedRow DEF RowMoves, EndsRow, Ends, Holds
<1>4. CASE StoreFail(w)
  BY <1>3, <1>4, UnchangedRow DEF StoreFail, At
<1>5. CASE CleanupFail(w)
  BY <1>3, <1>5 DEF CleanupFail, At
<1>6. CASE Cancel(w)
  <2> DEFINE f == Released(r)
             n == Cardinality(PagesIn(j, {"pending", "fetching"}))
             c == Counted(f, "canceled", n)
             publication == CanceledPublication(j)
             row == [c EXCEPT !.status = "canceled", !.phase = "completed",
                              !.activeSite = FALSE, !.publication = publication]
  <2>1. f \in JobRow /\ SamePlan(f, r) /\ Freed(f)
    BY <1>1, ReleasedJob, ReleasedRowPlan
  <2>2. n \in Nat
    BY CountPages, PagesInAreItems, <1>1
  <2> HIDE DEF f, n
  <2>3. c \in JobRow /\ SameRow(c, f)
    BY <2>1, <2>2, CountedJob, CountedRow DEF CountedStatus
  <2>4. job'[j] = row /\ run'[w] = IdleRun /\ At(w, "cancelStore")
    BY <1>1, <1>6 DEF Cancel, Leave, TypeInv, JobsTyped, RunsTyped, f, n
  <2> HIDE DEF c, publication
  <2>5. /\ row.status = "canceled" /\ row.publication = publication /\ row.activeSite = FALSE
        /\ row.owner = c.owner /\ row.lease = c.lease /\ row.cancel = c.cancel
        /\ row.elected = c.elected /\ row.failures = c.failures
    BY <2>3 DEF JobRow
  <2>6. Ends(row, r, "canceled", publication)
    BY <2>1, <2>3, <2>5 DEF Ends, Ended, SameRow, SamePlan, Freed
  <2> QED
    BY <2>4, <2>6 DEF RowMoves, EndsRow, publication
<1>7. CASE ReleaseCleanup(w)
  <2> DEFINE f == Released(r)
             row == [f EXCEPT !.later = TRUE]
  <2>1. f \in JobRow /\ SamePlan(f, r) /\ Freed(f)
    BY <1>1, ReleasedJob, ReleasedRowPlan
  <2>2. job'[j] = row /\ run'[w] = IdleRun /\ At(w, "cleanupRelease")
    BY <1>1, <1>7 DEF ReleaseCleanup, Leave, TypeInv, JobsTyped, RunsTyped
  <2> HIDE DEF f
  <2>3. SameRow(row, f)
    BY <2>1 DEF SameRow, SamePlan, JobRow
  <2>4. Frees(row, r)
    BY <2>1, <2>3 DEF Frees, SameRow, SamePlan, Freed
  <2> QED
    BY <2>2, <2>4 DEF RowMoves, EndsRow
<1> QED
  BY <1>2, <1>4, <1>5, <1>6, <1>7, UnchangedRow
     DEF StopOrClean, CancelRefused, CleanupRefused, Raise

LEMMA ExecutionRow ==
    ASSUME TypeInv, ClaimInv, NEW w \in Worker, Executes(w)
    PROVE  RowMoves(w)
BY PrepareRow, ProcessPagesRow, FinalizeRow, StopOrCleanRow, UnchangedRow
   DEF Executes, LeaveLost, Disturbance, HeartbeatStops, FinalizationTimeout, Fault, Crash

-----------------------------------------------------------------------------
(* What an operator's command makes of a job row *)

Enqueues(j, q, r) == /\ r.status = "absent"
                     /\ q.status = "preparing" /\ q.activeSite
                     /\ q.publication = (IF j \in Production THEN "pending" ELSE "not_requested")
                     /\ q.failures = r.failures /\ q.owner = r.owner /\ q.lease = r.lease
Cancels(j, q, r) == /\ r.status \in {"preparing", "queued"}
                    /\ q.status = "canceled" /\ q.activeSite = FALSE
                    /\ q.publication = CanceledPublication(j)
                    /\ q.failures = r.failures /\ q.owner = r.owner /\ q.lease = r.lease
Marks(j, q, r) == /\ ~(j \in Production /\ r.phase = "finalizing")
                  /\ r.status \notin {"preparing", "queued"}
                  /\ q.status = r.status /\ q.phase = r.phase /\ q.publication = r.publication
                  /\ q.activeSite = r.activeSite /\ q.elected = r.elected
                  /\ q.failures = r.failures /\ q.owner = r.owner /\ q.lease = r.lease
Reopens(q, r) == /\ r.status = "blocked"
                 /\ q.status = "queued" /\ q.publication = "pending" /\ q.failures = 0
                 /\ q.activeSite = r.activeSite /\ q.elected = r.elected
                 /\ q.owner = r.owner /\ q.lease = r.lease

OperatorMoves(j) == LET q == job'[j]  r == job[j] IN
    \/ Enqueues(j, q, r) /\ \A k \in Job : job[k].activeSite => SiteOf[k] # SiteOf[j]
    \/ Cancels(j, q, r)
    \/ Marks(j, q, r) /\ UNCHANGED item
    \/ Reopens(q, r)

LEMMA EnqueueRow ==
    ASSUME TypeInv, NEW j \in Job, Enqueue(j)
    PROVE  OperatorMoves(j)
<1>1. job[j] \in JobRow
  BY DEF TypeInv, JobsTyped
<1> DEFINE publication == IF j \in Production THEN "pending" ELSE "not_requested"
<1>2. job' = [job EXCEPT ![j] = [job[j] EXCEPT !.status = "preparing", !.activeSite = TRUE,
                                               !.publication = publication]]
  BY DEF Enqueue, TypeInv, JobsTyped
<1>3. job'[j] = [job[j] EXCEPT !.status = "preparing", !.activeSite = TRUE,
                               !.publication = publication]
  BY <1>2 DEF TypeInv, JobsTyped
<1> HIDE DEF publication
<1>4. /\ job'[j].status = "preparing" /\ job'[j].activeSite = TRUE
      /\ job'[j].publication = publication /\ job'[j].failures = job[j].failures
      /\ job'[j].owner = job[j].owner /\ job'[j].lease = job[j].lease
  BY <1>1, <1>3 DEF JobRow
<1> QED
  BY <1>4 DEF Enqueue, OperatorMoves, Enqueues, publication

LEMMA RequestCancelRow ==
    ASSUME TypeInv, NEW j \in Job, RequestCancel(j)
    PROVE  OperatorMoves(j)
<1>1. job[j] \in JobRow
  BY DEF TypeInv, JobsTyped
<1>2. CASE job[j].status \in {"preparing", "queued"}
  <2> DEFINE n == Cardinality(PagesIn(j, {"pending"}))
             c == Counted(job[j], "canceled", n)
             publication == CanceledPublication(j)
  <2>1. c \in JobRow /\ SameRow(c, job[j])
    BY <1>1, CountedJob, CountPages, PagesInAreItems, CountedRow DEF CountedStatus
  <2>2. job'[j] = [c EXCEPT !.status = "canceled", !.phase = "completed", !.cancel = TRUE,
                            !.activeSite = FALSE, !.publication = publication]
    BY <1>2 DEF RequestCancel, TypeInv, JobsTyped
  <2> HIDE DEF c, publication
  <2>3. /\ job'[j].status = "canceled" /\ job'[j].activeSite = FALSE
        /\ job'[j].publication = publication /\ job'[j].failures = c.failures
        /\ job'[j].owner = c.owner /\ job'[j].lease = c.lease
    BY <2>1, <2>2 DEF JobRow
  <2> QED
    BY <1>2, <2>1, <2>3 DEF OperatorMoves, Cancels, SameRow, SamePlan, publication
<1>3. CASE job[j].status \notin {"preparing", "queued"}
  <2>1. job'[j] = [job[j] EXCEPT !.cancel = TRUE] /\ UNCHANGED item
    BY <1>3 DEF RequestCancel, TypeInv, JobsTyped
  <2> QED
    BY <1>1, <1>3, <2>1 DEF RequestCancel, Cancelable, OperatorMoves, Marks, JobRow
<1> QED
  BY <1>2, <1>3

LEMMA RetryBlockedRow ==
    ASSUME TypeInv, NEW j \in Job, RetryBlocked(j)
    PROVE  OperatorMoves(j)
<1> DEFINE n == Cardinality(PagesIn(j, {"failed"}))
           phase == IF n = 0 /\ job[j].report \in {"finalization", "stale"} THEN "finalizing"
                    ELSE "queued"
           q == Reopened(job[j], phase)
<1>1. job[j] \in JobRow /\ job[j].status = "blocked"
  BY DEF RetryBlocked, TypeInv, JobsTyped
<1>2. /\ q \in JobRow
      /\ q.status = "queued" /\ q.publication = "pending" /\ q.failures = 0
      /\ q.activeSite = job[j].activeSite /\ q.elected = job[j].elected
      /\ q.owner = job[j].owner /\ q.lease = job[j].lease
  <2>1. phase \in JobPhase
    BY DEF JobPhase
  <2> HIDE DEF phase
  <2>2. q \in JobRow
    BY <1>1, <2>1, ReopenedJob
  <2> QED
    BY <1>1, <2>2 DEF Reopened, JobRow
<1>3. job'[j] = [q EXCEPT !.completed = Monus(@, n), !.count["failed"] = 0]
  BY DEF RetryBlocked, TypeInv, JobsTyped
<1> HIDE DEF n, q
<1>4. /\ job'[j].status = q.status /\ job'[j].publication = q.publication
      /\ job'[j].failures = q.failures /\ job'[j].activeSite = q.activeSite
      /\ job'[j].elected = q.elected /\ job'[j].owner = q.owner /\ job'[j].lease = q.lease
  BY <1>2, <1>3 DEF JobRow
<1> QED
  BY <1>1, <1>2, <1>4 DEF OperatorMoves, Reopens

LEMMA ReconcileRow ==
    ASSUME TypeInv, NEW j \in Job, NEW S \in SUBSET Item, ReconcileStaleVersions(j, S)
    PROVE  OperatorMoves(j)
<1> DEFINE fresh == Cardinality(S \cap PagesIn(j, {"succeeded"}))
           stale == Cardinality(S \cap PagesIn(j, {"not_modified"}))
           q == Reopened(job[j], "queued")
           c == Uncounted(q, "succeeded", fresh)
<1>1. job[j] \in JobRow /\ job[j].status = "blocked"
  BY DEF ReconcileStaleVersions, TypeInv, JobsTyped
<1>2. fresh \in Nat /\ stale \in Nat
  <2>1. S \cap PagesIn(j, {"succeeded"}) \subseteq Item /\ S \cap PagesIn(j, {"not_modified"}) \subseteq Item
    OBVIOUS
  <2> QED
    BY <2>1, CountPages
<1>3. q \in JobRow
  BY <1>1, ReopenedJob DEF JobPhase
<1>4. c \in JobRow /\ SameRow(c, q)
  BY <1>2, <1>3, CountedJob, CountedRow DEF CountedStatus
<1>5. SameRow(Uncounted(c, "not_modified", stale), c)
  BY <1>4, CountedRow
<1>6. job'[j] = Uncounted(c, "not_modified", stale)
  BY DEF ReconcileStaleVersions, TypeInv, JobsTyped
<1>7. /\ q.status = "queued" /\ q.publication = "pending" /\ q.failures = 0
      /\ q.activeSite = job[j].activeSite /\ q.elected = job[j].elected
      /\ q.owner = job[j].owner /\ q.lease = job[j].lease
  BY <1>1 DEF Reopened, JobRow
<1> HIDE DEF q, c
<1> QED
  BY <1>1, <1>4, <1>5, <1>6, <1>7 DEF OperatorMoves, Reopens, SameRow, SamePlan

\* A command writes the rows of one job, and moves no run and no snapshot.
LEMMA OperatorRow ==
    ASSUME TypeInv, Operator
    PROVE  /\ UNCHANGED <<run, snapshot>>
           /\ budget'.interruptions = budget.interruptions
           /\ \E j \in Job : /\ OperatorMoves(j)
                            /\ \A k \in Job \ {j} : job'[k] = job[k] /\ item'[k] = item[k]
<1>1. PICK j \in Job : \/ Enqueue(j)
                       \/ RequestCancel(j)
                       \/ RetryBlocked(j)
                       \/ \E S \in SUBSET Item : ReconcileStaleVersions(j, S)
  BY DEF Operator
<1>2. OperatorMoves(j)
  BY <1>1, EnqueueRow, RequestCancelRow, RetryBlockedRow, ReconcileRow
<1>3. \A k \in Job \ {j} : job'[k] = job[k] /\ item'[k] = item[k]
  BY <1>1 DEF Enqueue, RequestCancel, RetryBlocked, ReconcileStaleVersions, TypeInv, JobsTyped,
              ItemsTyped
<1>4. UNCHANGED <<run, snapshot>>
  BY <1>1 DEF Enqueue, RequestCancel, RetryBlocked, ReconcileStaleVersions
<1>5. budget'.interruptions = budget.interruptions
  BY <1>1 DEF Enqueue, RequestCancel, RetryBlocked, ReconcileStaleVersions, TypeInv, BudgetTyped
<1> QED
  BY <1>2, <1>3, <1>4, <1>5

\* A poll claims one job at most, sweeps the others, and touches nothing else.
LEMMA ClaimRow ==
    ASSUME TypeInv, NEW w \in Worker, Claim(w)
    PROVE  /\ UNCHANGED <<item, snapshot, budget>>
           /\ \A k \in Job : \/ job'[k] = Swept(k)
                             \/ ClaimNext(w, k) /\ job'[k] = Claimed(Swept(k), w)
BY DEF Claim, ClaimNothing, ClaimNext, TypeInv, JobsTyped

\* Time ends leases, waits and windows, and nothing else.
LEMMA TimeRow ==
    ASSUME TypeInv, TimePasses
    PROVE  /\ UNCHANGED <<run, snapshot, budget>>
           /\ \A k \in Job : \/ SameRow(job'[k], job[k])
                             \/ /\ LeaseExpires(k)
                                /\ SamePlan(job'[k], job[k])
                                /\ job'[k].owner = job[k].owner /\ job'[k].lease = "expired"
           /\ \A k \in Job, i \in Item : item'[k][i].status = item[k][i].status
<1>1. UNCHANGED <<run, snapshot, budget>>
  BY DEF TimePasses, LeaseExpires, RetentionExpires, BackoffElapses, ItemLeaseExpires, ItemDue
<1>2. \A k \in Job : SameRow(job[k], job[k])
  BY DEF SameRow, SamePlan
<1>3. ASSUME NEW k \in Job
      PROVE  \/ SameRow(job'[k], job[k])
             \/ /\ LeaseExpires(k) /\ SamePlan(job'[k], job[k])
                /\ job'[k].owner = job[k].owner /\ job'[k].lease = "expired"
  <2>1. ASSUME NEW j \in Job, LeaseExpires(j), j # k PROVE job'[k] = job[k]
    BY <2>1 DEF LeaseExpires, TypeInv, JobsTyped
  <2>2. ASSUME LeaseExpires(k)
        PROVE  /\ SamePlan(job'[k], job[k])
               /\ job'[k].owner = job[k].owner /\ job'[k].lease = "expired"
    <3>1. job[k] \in JobRow
      BY DEF TypeInv, JobsTyped
    <3>2. job'[k] = [job[k] EXCEPT !.lease = "expired"]
      BY <2>2 DEF LeaseExpires, TypeInv, JobsTyped
    <3> QED
      BY <3>1, <3>2 DEF SamePlan, JobRow
  <2>3. ASSUME NEW j \in Job, RetentionExpires(j) \/ BackoffElapses(j)
        PROVE  SameRow(job'[k], job[k])
    BY <2>3, TickedRow
  <2>4. ASSUME NEW j \in Job, NEW i \in Item, ItemLeaseExpires(j, i) \/ ItemDue(j, i)
        PROVE  job'[k] = job[k]
    BY <2>4 DEF ItemLeaseExpires, ItemDue
  <2> QED
    BY <1>2, <2>1, <2>2, <2>3, <2>4 DEF TimePasses
<1>4. ASSUME NEW k \in Job, NEW i \in Item PROVE item'[k][i].status = item[k][i].status
  <2>1. ASSUME NEW j \in Job, LeaseExpires(j) \/ RetentionExpires(j) \/ BackoffElapses(j)
        PROVE  item'[k][i] = item[k][i]
    BY <2>1 DEF LeaseExpires, RetentionExpires, BackoffElapses
  <2>2. ASSUME NEW j \in Job, NEW l \in Item, ItemLeaseExpires(j, l) \/ ItemDue(j, l)
        PROVE  item'[k][i].status = item[k][i].status
    <3>1. \E row : /\ row.status = item[j][l].status
                    /\ item' = [item EXCEPT ![j] = [item[j] EXCEPT ![l] = row]]
      <4>1. item[j][l] \in PageRow
        BY DEF TypeInv, ItemsTyped
      <4>2. /\ [item[j][l] EXCEPT !.lease = "expired"].status = item[j][l].status
            /\ [item[j][l] EXCEPT !.waiting = FALSE].status = item[j][l].status
        BY <4>1 DEF PageRow
      <4>3. \/ item' = [item EXCEPT ![j] = [item[j] EXCEPT ![l] = [item[j][l] EXCEPT !.lease = "expired"]]]
            \/ item' = [item EXCEPT ![j] = [item[j] EXCEPT ![l] = [item[j][l] EXCEPT !.waiting = FALSE]]]
        BY <2>2 DEF ItemLeaseExpires, ItemDue, TypeInv, ItemsTyped
      <4> QED
        BY <4>2, <4>3
    <3> QED
      BY <3>1 DEF TypeInv, ItemsTyped
  <2> QED
    BY <2>1, <2>2 DEF TimePasses
<1> QED
  BY <1>1, <1>3, <1>4

-----------------------------------------------------------------------------
(* A site belongs to one unfinished job                                      *)

\* The site key is held exactly as long as the job is unfinished, and a job
\* leaves its preparation only after the first-wins election.
SiteRow(r) ==
    /\ r.activeSite <=> r.status \in Unfinished
    /\ r.status \in {"queued", "running", "blocked", "succeeded"} => r.elected

SiteInv ==
    /\ \A j \in Job : SiteRow(job[j])
    /\ \A j, k \in Job : /\ j # k /\ SiteOf[j] = SiteOf[k]
                         => ~(job[j].activeSite /\ job[k].activeSite)

LivesOn(q, r) == SiteRow(q) /\ (q.activeSite => r.activeSite)

LEMMA SameRowLives ==
    ASSUME NEW r \in JobRow, NEW q, SameRow(q, r) \/ SamePlan(q, r), SiteRow(r)
    PROVE  LivesOn(q, r)
BY DEF SameRow, SamePlan, LivesOn, SiteRow

LEMMA ExecutedLives ==
    ASSUME TypeInv, ClaimInv, SiteInv, NEW w \in Worker, Executes(w), NEW k \in Job
    PROVE  LivesOn(job'[k], job[k])
<1>1. job[k] \in JobRow /\ SiteRow(job[k])
  BY DEF TypeInv, JobsTyped, SiteInv
<1>2. CASE k # run[w].job
  BY <1>1, <1>2, OtherJobsStay DEF LivesOn
<1>3. CASE k = run[w].job
  <2> DEFINE r == job[k]
             q == job'[k]
  <2>1. RowMoves(w) /\ ~At(w, "idle")
    BY ExecutionRow, ExecutionIsBusy
  <2>2. /\ run[w].pc \in WorkPc => r.status = "running"
        /\ run[w].pc = "prepare" => r.status \in {"preparing", "canceled"}
    BY <1>3, <2>1, DriverStatus
  <2>3. {"finalize", "requeue", "block", "record", "cancelStore"} \subseteq WorkPc
    BY PcSorts
  <2>4. {"preparing", "queued", "running", "blocked"} \subseteq Unfinished
        /\ {"succeeded", "failed", "canceled"} \cap Unfinished = {}
    BY DEF Unfinished, JobStatus, Terminal
  <2>5. CASE KeepsRow(w, q, r)
    BY <1>1, <2>5, SameRowLives DEF KeepsRow, Elects, StartsFinal, LivesOn, SiteRow
  <2>6. CASE EndsRow(w, k, q, r)
    <3>1. CASE Frees(q, r)
      BY <1>1, <3>1, SameRowLives DEF Frees
    <3>2. CASE Returns(q, r) /\ r.elected /\ r.status \in Unfinished
      BY <1>1, <2>4, <3>2 DEF Returns, LivesOn, SiteRow
    <3>3. CASE Blocks(q, r) /\ r.status = "running"
      BY <1>1, <2>4, <3>3 DEF Blocks, LivesOn, SiteRow
    <3>4. ASSUME NEW status \in Terminal, NEW publication, Ends(q, r, status, publication),
                 status = "succeeded" => r.status = "running"
          PROVE  LivesOn(q, r)
      BY <1>1, <2>4, <3>4 DEF Ends, Ended, LivesOn, SiteRow, Terminal
    <3> QED
      BY <1>1, <2>2, <2>3, <2>4, <2>6, <3>1, <3>2, <3>3, <3>4 DEF EndsRow, At, SiteRow, Terminal
  <2> QED
    BY <1>3, <2>1, <2>5, <2>6 DEF RowMoves
<1> QED
  BY <1>2, <1>3

LEMMA SweptLives ==
    ASSUME NEW k \in Job, job[k] \in JobRow, SiteRow(job[k])
    PROVE  LivesOn(Swept(k), job[k])
<1>1. CASE ~Exhausted(job[k])
  BY <1>1, SweptRow DEF LivesOn
<1>2. CASE Exhausted(job[k])
  BY <1>2, SweptRow DEF LivesOn, SiteRow, Exhausted, Unfinished, JobStatus, Terminal
<1> QED
  BY <1>1, <1>2

LEMMA ClaimedLives ==
    ASSUME TypeInv, SiteInv, NEW w \in Worker, Claim(w), NEW k \in Job
    PROVE  LivesOn(job'[k], job[k])
<1> DEFINE r == Swept(k)
<1>1. job[k] \in JobRow /\ SiteRow(job[k]) /\ r \in JobRow
  BY SweptJob DEF TypeInv, JobsTyped, SiteInv
<1>2. LivesOn(r, job[k])
  BY <1>1, SweptLives
<1>3. ASSUME ClaimNext(w, k), job'[k] = Claimed(r, w) PROVE LivesOn(job'[k], job[k])
  <2>1. r.status \in {"preparing", "queued", "running", "blocked", "cleanup_pending"}
    BY <1>3 DEF ClaimNext, Claimable
  <2> HIDE DEF r
  <2>2. /\ job'[k].activeSite = r.activeSite /\ job'[k].elected = r.elected
        /\ job'[k].status = IF r.status \in {"preparing", "cleanup_pending"} THEN r.status
                            ELSE "running"
    BY <1>1, <1>3, ClaimedRow
  <2> QED
    BY <1>2, <2>1, <2>2 DEF LivesOn, SiteRow, Unfinished, JobStatus, Terminal
<1> QED
  BY <1>2, <1>3, ClaimRow

LEMMA NextKeepsSites ==
    ASSUME TypeInv, ClaimInv, SiteInv, [Next]_vars
    PROVE  SiteInv'
<1>1. \A k \in Job : job[k] \in JobRow /\ SiteRow(job[k])
  BY DEF TypeInv, JobsTyped, SiteInv
<1>2. SUFFICES ASSUME ~(\A k \in Job : LivesOn(job'[k], job[k])) PROVE SiteInv'
  BY DEF LivesOn, SiteInv
<1>3. Operator
  <2>1. CASE UNCHANGED vars
    BY <1>1, <1>2, <2>1 DEF vars, LivesOn
  <2>2. CASE TimePasses
    BY <1>1, <1>2, <2>2, TimeRow, SameRowLives
  <2>3. ASSUME NEW w \in Worker, WorkerStep(w) \/ Disturbance(w) PROVE FALSE
    BY <1>2, <2>3, ClaimedLives, ExecutedLives DEF WorkerStep, Executes
  <2> QED
    BY <2>1, <2>2, <2>3 DEF Next
<1>4. PICK j \in Job : OperatorMoves(j) /\ \A k \in Job \ {j} : job'[k] = job[k]
  BY <1>3, OperatorRow
<1>5. \A k \in Job \ {j} : LivesOn(job'[k], job[k])
  BY <1>1, <1>4 DEF LivesOn
<1>6. SiteRow(job[j]) /\ ~LivesOn(job'[j], job[j])
  BY <1>1, <1>2, <1>5
<1>7. Enqueues(j, job'[j], job[j]) /\ \A k \in Job : job[k].activeSite => SiteOf[k] # SiteOf[j]
  <2>1. CASE Cancels(j, job'[j], job[j])
    BY <1>6, <2>1 DEF Cancels, LivesOn, SiteRow, Unfinished, Terminal
  <2>2. CASE Marks(j, job'[j], job[j])
    BY <1>6, <2>2 DEF Marks, LivesOn, SiteRow
  <2>3. CASE Reopens(job'[j], job[j])
    BY <1>6, <2>3 DEF Reopens, LivesOn, SiteRow, Unfinished, JobStatus, Terminal
  <2> QED
    BY <1>4, <2>1, <2>2, <2>3 DEF OperatorMoves
<1>8. SiteRow(job'[j])
  BY <1>7 DEF Enqueues, SiteRow, Unfinished, JobStatus, Terminal
<1> QED
  BY <1>5, <1>7, <1>8 DEF LivesOn, SiteInv

LEMMA SitesHold ==
    Prompt => (Spec => [](TypeInv /\ WaitingJobsAreUnleased /\ ClaimInv /\ SiteInv))
<1> SUFFICES ASSUME Prompt
             PROVE  Spec => [](TypeInv /\ WaitingJobsAreUnleased /\ ClaimInv /\ SiteInv)
  OBVIOUS
<1>1. Init => SiteInv
  BY DEF Init, SiteInv, SiteRow, NoRow, Unfinished
<1>2. TypeInv /\ ClaimInv /\ SiteInv /\ [Next]_vars => SiteInv'
  BY NextKeepsSites
<1>3. Spec => [](TypeInv /\ WaitingJobsAreUnleased /\ ClaimInv)
  BY ClaimsHold
<1> QED
  BY <1>1, <1>2, <1>3, PTL DEF Spec

\* When no heartbeat is paused past its lease, two unfinished jobs never
\* synchronize one site, whatever their modes: the site key is freed by the end
\* of a job alone, and no abort reopens a job that ended.
THEOREM UnfinishedJobsShareNoSite == Prompt => (Spec => []OneUnfinishedJobPerSite)
<1> SUFFICES ASSUME Prompt PROVE Spec => []OneUnfinishedJobPerSite
  OBVIOUS
<1>1. TypeInv /\ SiteInv => OneUnfinishedJobPerSite
  BY DEF OneUnfinishedJobPerSite, SiteInv, SiteRow, Unfinished, TypeInv, JobsTyped, JobRow
<1>2. Spec => [](TypeInv /\ SiteInv)
  BY SitesHold, PTL
<1> QED
  BY <1>1, <1>2, PTL

-----------------------------------------------------------------------------
(* What a finalization has checked stays so until it publishes               *)

AllDone(j) == PagesIn(j, {"absent", "pending", "fetching"}) = {}
Fit(j) == ~job[j].cancel /\ AllDone(j) /\ Refusal(j) = "none"

FinalRun(w, j) ==
    /\ run[w].pc = "publish" => j \in Production
    /\ j \in Production =>
         /\ run[w].pc \in {"inventory", "publish", "record"} => job[j].phase = "finalizing"
         /\ run[w].pc \in {"publish", "record"} => Fit(j)

FinalInv == \A w \in Worker, j \in Job : run[w].job = j => FinalRun(w, j)

\* The verdict on a job rests on its cancel mark, its election and the states of
\* its pages.
LEMMA FitStays ==
    ASSUME NEW j \in Job, Fit(j),
           job'[j].cancel = job[j].cancel, job'[j].elected = job[j].elected,
           \A i \in Item : item'[j][i].status = item[j][i].status
    PROVE  Fit(j)'
<1>1. \A S : PagesIn(j, S)' = PagesIn(j, S)
  BY DEF PagesIn
<1>2. IdentityViolated(j)' <=> IdentityViolated(j)
  BY ConstantsAssumption DEF IdentityViolated
<1>3. Refusal(j)' = Refusal(j)
  BY <1>1, <1>2 DEF Refusal
<1> QED
  BY <1>1, <1>3 DEF Fit, AllDone

\* What a working run may take for granted of a step that is not its own.
Rests(k) == /\ SameRow(job'[k], job[k])
            /\ \A i \in Item : item'[k][i].status = item[k][i].status
Cancelled(k) == Marks(k, job'[k], job[k]) /\ UNCHANGED item

LEMMA BystandersRest ==
    ASSUME Prompt, TypeInv, ClaimInv, NEW w \in Worker, run[w].pc \in WorkPc,
           [Next]_vars, ~Executes(w)
    PROVE  run'[w] = run[w] /\ (Rests(run[w].job) \/ Cancelled(run[w].job))
<1> DEFINE k == run[w].job
<1>1. ~At(w, "idle")
  BY PcSorts DEF At
<1>2. run[w].pc \notin CleaningPc
  BY PcSorts
<1>3. /\ k \in Job /\ job[k] \in JobRow /\ job[k].status = "running" /\ Mine(w, job[k])
      /\ Alone(w)
  BY <1>1, <1>2, DriverStatus, DriversAreAlone
<1>4. SameRow(job[k], job[k])
  BY DEF SameRow, SamePlan
<1>5. CASE UNCHANGED vars
  BY <1>4, <1>5 DEF vars, Rests
<1>6. CASE Operator
  <2>1. PICK j \in Job : OperatorMoves(j) /\ \A l \in Job \ {j} : job'[l] = job[l] /\ item'[l] = item[l]
    BY <1>6, OperatorRow
  <2>2. UNCHANGED run
    BY <1>6, OperatorRow
  <2>3. CASE j # k
    BY <1>3, <1>4, <2>1, <2>2, <2>3 DEF Rests
  <2>4. CASE j = k
    BY <1>3, <2>1, <2>2, <2>4 DEF OperatorMoves, Enqueues, Cancels, Reopens, Cancelled
  <2> QED
    BY <2>3, <2>4
<1>7. CASE TimePasses
  <2>1. ~LeaseExpires(k)
    BY <1>3 DEF LeaseExpires, Executing, Prompt, Mine
  <2> QED
    BY <1>3, <1>7, <2>1, TimeRow DEF Rests
<1>8. ASSUME NEW v \in Worker, Claim(v) PROVE run'[w] = run[w] /\ Rests(k)
  <2>1. v # w
    BY <1>1, <1>8 DEF Claim, ClaimNext, ClaimNothing, At
  <2>2. run'[w] = run[w]
    BY <1>8, <2>1 DEF Claim, ClaimNext, ClaimNothing, TypeInv, RunsTyped
  <2>3. Swept(k) = job[k]
    BY <1>3, SweptRow DEF Exhausted, Mine
  <2>4. ~ClaimNext(v, k)
    BY <1>3, <2>3 DEF ClaimNext, Claimable, Mine
  <2> QED
    BY <1>3, <1>4, <1>8, <2>2, <2>3, <2>4, ClaimRow DEF Rests
<1>9. ASSUME NEW v \in Worker, Executes(v) PROVE run'[w] = run[w] /\ Rests(k)
  <2>1. v # w /\ run[v].job # k
    BY <1>3, <1>9 DEF Alone
  <2>2. job'[k] = job[k] /\ item'[k] = item[k]
    BY <1>3, <1>9, <2>1, OtherJobsStay
  <2> QED
    BY <1>4, <1>9, <2>1, <2>2, OtherRunsStay DEF Rests
<1> QED
  BY <1>5, <1>6, <1>7, <1>8, <1>9 DEF Next, WorkerStep, Executes

\* Where a move takes a run.
LEMMA Arrives ==
    ASSUME TypeInv, NEW w \in Worker
    PROVE  /\ \A pc : Goto(w, pc) => run'[w].pc = pc /\ run'[w].job = run[w].job
                                     /\ run'[w].pages = run[w].pages
           /\ \A why : Blocking(w, why) => run'[w].pc = "block" /\ run'[w].job = run[w].job
                                          /\ run'[w].pages = run[w].pages
           /\ Leave(w) => run'[w] = IdleRun
<1>1. run[w] \in RunState /\ run \in [Worker -> RunState]
  BY DEF TypeInv, RunsTyped
<1>2. ASSUME NEW pc, Goto(w, pc)
      PROVE  run'[w].pc = pc /\ run'[w].job = run[w].job /\ run'[w].pages = run[w].pages
  BY <1>1, <1>2 DEF Goto, RunState
<1>3. ASSUME NEW why, Blocking(w, why)
      PROVE  run'[w].pc = "block" /\ run'[w].job = run[w].job /\ run'[w].pages = run[w].pages
  BY <1>1, <1>3 DEF Blocking, RunState
<1> QED
  BY <1>1, <1>2, <1>3 DEF Leave

FinalPc == {"inventory", "publish", "record"}

\* A run comes to the end of a finalization in four steps only.
Advances(w) ==
    \/ run'[w].pc \notin FinalPc
    \/ StartFinalization(w) /\ run'[w].pc = "inventory" /\ run'[w].job = run[w].job
    \/ Inventory(w) /\ run'[w].pc \in {"publish", "record"} /\ run'[w].job = run[w].job
    \/ PublishStagedSync(w) /\ run'[w].pc = "record" /\ run'[w].job = run[w].job
    \/ run'[w].pc = run[w].pc /\ run'[w].job = run[w].job /\ UNCHANGED <<job, item, snapshot>>

LEMMA GoesElsewhere ==
    ASSUME TypeInv, NEW w \in Worker,
           \/ Leave(w)
           \/ Raise(w)
           \/ \E why : Blocking(w, why)
           \/ \E pc : Goto(w, pc) /\ pc \notin FinalPc
    PROVE  Advances(w)
BY Arrives DEF Advances, Raise, HandlerPc, FinalPc, IdleRun

LEMMA PrepareAdvances ==
    ASSUME TypeInv, NEW w \in Worker, Prepare(w)
    PROVE  Advances(w)
<1>1. CASE run' = [run EXCEPT ![w].worked = TRUE] /\ At(w, "prepare")
  BY <1>1 DEF Advances, FinalPc, At, TypeInv, RunsTyped, RunState
<1>2. CASE YieldPreparation(w) \/ FinishPreparation(w) \/ PreparationRefused(w)
  BY <1>2, GoesElsewhere DEF YieldPreparation, FinishPreparation, PreparationRefused, FinalPc
<1> QED
  BY <1>1, <1>2 DEF Prepare, AppendPreparedItem, ApplyDuplicatePolicy

LEMMA ProcessPagesAdvances ==
    ASSUME TypeInv, NEW w \in Worker, ProcessPages(w)
    PROVE  Advances(w)
<1>1. CASE BeginStagedSync(w)
  BY <1>1, GoesElsewhere DEF BeginStagedSync, FinalPc
<1>2. CASE LoopHead(w)
  <2>1. CASE run' = [run EXCEPT ![w].pc = "batch", ![w].slots = Concurrency, ![w].got = FALSE]
    BY <2>1 DEF Advances, FinalPc, TypeInv, RunsTyped, RunState
  <2>2. CASE \E pc \in {"cancelAbort", "cancelStore", "finalize", "requeue"} : Goto(w, pc)
    BY <2>2, GoesElsewhere DEF FinalPc
  <2> QED
    BY <1>2, <2>1, <2>2 DEF LoopHead
<1>3. ASSUME At(w, "batch"), run'[w].pc = run[w].pc PROVE Advances(w)
  BY <1>3 DEF Advances, FinalPc, At
<1>4. CASE \E i \in Item : ClaimNextItem(w, i)
  <2>1. At(w, "batch") /\ run'[w].pc = run[w].pc
    BY <1>4 DEF ClaimNextItem, TypeInv, RunsTyped, RunState
  <2> QED
    BY <1>3, <2>1
<1>5. CASE ClaimNoItem(w)
  <2>1. At(w, "batch") /\ run'[w].pc = run[w].pc
    BY <1>5 DEF ClaimNoItem, TypeInv, RunsTyped, RunState
  <2> QED
    BY <1>3, <2>1
<1>6. ASSUME NEW i \in Item, PageHandled(w, i), At(w, "batch") PROVE Advances(w)
  <2>1. run'[w].pc = run[w].pc
    BY <1>6 DEF PageHandled, TypeInv, RunsTyped, RunState
  <2> QED
    BY <1>3, <1>6, <2>1
<1>7. CASE EndBatch(w)
  <2>1. \E pc \in {"loop", "promote"} : Goto(w, pc)
    BY <1>7 DEF EndBatch
  <2> QED
    BY <2>1, GoesElsewhere DEF FinalPc
<1>8. CASE PromoteDuplicateFallbacks(w)
  <2>1. \E pc \in {"loop", "finalize", "requeue"} : Goto(w, pc)
    BY <1>8 DEF PromoteDuplicateFallbacks
  <2> QED
    BY <2>1, GoesElsewhere DEF FinalPc
<1>9. CASE RequeueIncomplete(w) \/ BatchRefused(w) \/ LoopRefused(w)
  BY <1>9, GoesElsewhere DEF RequeueIncomplete, BatchRefused, LoopRefused
<1> QED
  BY <1>1, <1>2, <1>4, <1>5, <1>6, <1>7, <1>8, <1>9 DEF ProcessPages, CompleteItem, FailItem

LEMMA FinalizeAdvances ==
    ASSUME TypeInv, NEW w \in Worker, Finalize(w)
    PROVE  Advances(w)
<1>1. CASE StartFinalization(w)
  <2>1. run'[w].pc = "inventory" /\ run'[w].job = run[w].job
    BY <1>1 DEF StartFinalization, TypeInv, RunsTyped, RunState
  <2> QED
    BY <1>1, <2>1 DEF Advances
<1>2. CASE Inventory(w)
  <2>1. \/ \E why : Blocking(w, why)
        \/ \E pc \in {"abort", "storeFail", "cancelAbort", "cancelStore"} : Goto(w, pc)
        \/ \E pc \in {"publish", "record"} : Goto(w, pc)
    BY <1>2 DEF Inventory, HandlerPc
  <2> QED
    BY <1>2, <2>1, GoesElsewhere, Arrives DEF Advances, FinalPc
<1>3. CASE PublishStagedSync(w)
  BY <1>3, Arrives DEF PublishStagedSync, Advances
<1>4. CASE PublishRaises(w) \/ Block(w) \/ Complete(w)
  BY <1>4, GoesElsewhere DEF PublishRaises, Block, Complete
<1>5. CASE FinalizationRefused(w)
  <2>1. Raise(w) \/ Leave(w) \/ Goto(w, "storeFail")
    BY <1>5 DEF FinalizationRefused
  <2> QED
    BY <2>1, GoesElsewhere DEF FinalPc
<1> QED
  BY <1>1, <1>2, <1>3, <1>4, <1>5 DEF Finalize

LEMMA StopOrCleanAdvances ==
    ASSUME TypeInv, NEW w \in Worker, StopOrClean(w)
    PROVE  Advances(w)
<1>1. \/ Leave(w)
      \/ Raise(w)
      \/ \E pc \in {"storeFail", "abort", "cancelStore", "cleanupRelease", "cleanupFail"} :
            Goto(w, pc)
  BY DEF StopOrClean, AbortInHandler, StoreFail, CancelAbort, Cancel, CancelRefused, CleanupAbort,
         CleanupFail, ReleaseCleanup, CleanupRefused
<1> QED
  BY <1>1, GoesElsewhere DEF FinalPc

LEMMA ExecutionAdvances ==
    ASSUME TypeInv, NEW w \in Worker, Executes(w)
    PROVE  Advances(w)
<1>1. CASE HeartbeatStops(w)
  <2>1. run'[w].pc = run[w].pc /\ run'[w].job = run[w].job
    BY <1>1 DEF HeartbeatStops, TypeInv, RunsTyped, RunState
  <2> QED
    BY <1>1, <2>1 DEF HeartbeatStops, Advances
<1>2. CASE FinalizationTimeout(w)
  <2>1. run'[w].pc = "block"
    BY <1>2 DEF FinalizationTimeout, TypeInv, RunsTyped, RunState
  <2> QED
    BY <2>1 DEF Advances, FinalPc
<1>3. CASE Fault(w)
  <2>1. \/ Leave(w)
        \/ \E pc \in {"storeFail", "abort", "cleanupRelease"} : Goto(w, pc)
    BY <1>3 DEF Fault, HandlerPc
  <2> QED
    BY <2>1, GoesElsewhere DEF FinalPc
<1>4. CASE LeaveLost(w) \/ Crash(w)
  BY <1>4, GoesElsewhere DEF LeaveLost, Crash
<1> QED
  BY <1>1, <1>2, <1>3, <1>4, PrepareAdvances, ProcessPagesAdvances, FinalizeAdvances,
     StopOrCleanAdvances DEF Executes, Disturbance

LEMMA FitUnchanged ==
    ASSUME NEW j \in Job, Fit(j), UNCHANGED <<job, item>>
    PROVE  Fit(j)'
BY FitStays

\* A step that is not its own leaves a run alone, unless it starts it.
LEMMA OthersLeaveRun ==
    ASSUME TypeInv, NEW w \in Worker, [Next]_vars, ~Executes(w)
    PROVE  run'[w] = run[w] \/ run'[w].pc \in {"cleanupAbort", "prepare", "begin", "loop"}
<1>1. CASE UNCHANGED vars
  BY <1>1 DEF vars
<1>2. CASE Operator \/ TimePasses
  BY <1>2, OperatorRow, TimeRow
<1>3. ASSUME NEW v \in Worker, Claim(v)
      PROVE  run'[w] = run[w] \/ run'[w].pc \in {"cleanupAbort", "prepare", "begin", "loop"}
  <2>1. CASE v = w
    <3>1. \A j, r : EntryPc(j, r) \in {"cleanupAbort", "prepare", "begin", "loop"}
      BY DEF EntryPc
    <3>2. ASSUME NEW j \in Job, ClaimNext(w, j)
          PROVE  run'[w].pc \in {"cleanupAbort", "prepare", "begin", "loop"}
      <4>1. PICK pc \in {"cleanupAbort", "prepare", "begin", "loop"} :
               run' = [run EXCEPT ![w] = [IdleRun EXCEPT !.pc = pc, !.job = j]]
        BY <3>1, <3>2 DEF ClaimNext
      <4> QED
        BY <4>1 DEF TypeInv, RunsTyped, IdleRun
    <3> QED
      BY <1>3, <2>1, <3>2 DEF Claim, ClaimNothing
  <2>2. CASE v # w
    BY <1>3, <2>2 DEF Claim, ClaimNext, ClaimNothing, TypeInv, RunsTyped
  <2> QED
    BY <2>1, <2>2
<1>4. ASSUME NEW v \in Worker, Executes(v) PROVE run'[w] = run[w]
  BY <1>4, OtherRunsStay
<1> QED
  BY <1>1, <1>2, <1>3, <1>4 DEF Next, WorkerStep, Executes

LEMMA InventoryDecides ==
    ASSUME TypeInv, NEW w \in Worker, Inventory(w), run'[w].pc \in {"publish", "record"}
    PROVE  /\ UNCHANGED <<job, item, snapshot>>
           /\ run'[w].pc = "publish" <=> run[w].job \in Production
           /\ run[w].job \in Production => Fit(run[w].job)
<1> DEFINE j == run[w].job
<1>1. UNCHANGED <<job, item, snapshot>>
  BY DEF Inventory
<1>2. ~\E pc \in {"abort", "storeFail", "cancelAbort", "cancelStore"} : Goto(w, pc)
  BY Arrives
<1>3. ~\E why : Blocking(w, why)
  BY Arrives
<1>4. /\ AllDone(j) /\ (j \in Production => Refusal(j) = "none") /\ ~job[j].cancel
      /\ Goto(w, IF j \in Production THEN "publish" ELSE "record")
  BY <1>2, <1>3 DEF Inventory, HandlerPc, AllDone
<1> QED
  BY <1>1, <1>4, Arrives DEF Fit

LEMMA NextKeepsFinals ==
    ASSUME Prompt, TypeInv, ClaimInv, FinalInv, [Next]_vars
    PROVE  FinalInv'
<1> SUFFICES ASSUME NEW w \in Worker, NEW j \in Job, run'[w].job = j PROVE FinalRun(w, j)'
  BY DEF FinalInv
<1>1. CASE run'[w].pc \notin FinalPc
  BY <1>1 DEF FinalRun, FinalPc
<1>2. CASE run'[w].pc \in FinalPc /\ ~Executes(w)
  <2>1. run'[w] = run[w] /\ run[w].pc \in FinalPc
    BY <1>2, OthersLeaveRun DEF FinalPc
  <2>2. run[w].pc \in WorkPc
    BY <2>1, PcSorts DEF FinalPc
  <2>3. run[w].job = j
    BY <2>1
  <2>4. Rests(j) \/ Cancelled(j)
    BY <1>2, <2>2, <2>3, BystandersRest
  <2>5. FinalRun(w, j)
    BY <2>3 DEF FinalInv
  <2>6. CASE Cancelled(j)
    BY <2>1, <2>5, <2>6 DEF Cancelled, Marks, FinalRun, FinalPc
  <2>7. CASE Rests(j)
    <3>1. job'[j].phase = job[j].phase /\ (Fit(j) => Fit(j)')
      BY <2>7, FitStays DEF Rests, SameRow, SamePlan
    <3> QED
      BY <2>1, <2>5, <3>1 DEF FinalRun
  <2> QED
    BY <2>4, <2>6, <2>7
<1>3. CASE run'[w].pc \in FinalPc /\ Executes(w)
  <2>1. Advances(w)
    BY <1>3, ExecutionAdvances
  <2>2. run[w].job = j /\ job[j] \in JobRow /\ FinalRun(w, j)
    BY <1>3, <2>1 DEF Advances, TypeInv, JobsTyped, FinalInv
  <2>3. CASE StartFinalization(w) /\ run'[w].pc = "inventory"
    <3>1. job'[j].phase = "finalizing"
      BY <2>2, <2>3 DEF StartFinalization, TypeInv, JobsTyped, JobRow
    <3> QED
      BY <2>2, <2>3, <3>1 DEF FinalRun
  <2>4. CASE Inventory(w) /\ run'[w].pc \in {"publish", "record"}
    <3>1. run[w].pc = "inventory"
      BY <2>4 DEF Inventory, At
    <3>2. /\ UNCHANGED <<job, item>>
          /\ run'[w].pc = "publish" => j \in Production
          /\ j \in Production => Fit(j)
      BY <2>2, <2>4, InventoryDecides
    <3>3. j \in Production => Fit(j)'
      BY <2>2, <3>2, FitUnchanged
    <3> QED
      BY <2>2, <3>1, <3>2, <3>3 DEF FinalRun
  <2>5. CASE PublishStagedSync(w) /\ run'[w].pc = "record"
    <3>1. run[w].pc = "publish" /\ UNCHANGED <<job, item>>
      BY <2>5 DEF PublishStagedSync, At
    <3>2. j \in Production => Fit(j)'
      BY <2>2, <3>1, FitUnchanged DEF FinalRun
    <3> QED
      BY <2>2, <2>5, <3>1, <3>2 DEF FinalRun
  <2>6. CASE run'[w].pc = run[w].pc /\ UNCHANGED <<job, item>>
    <3>1. j \in Production /\ run[w].pc \in {"publish", "record"} => Fit(j)'
      BY <2>2, <2>6, FitUnchanged DEF FinalRun
    <3> QED
      BY <2>2, <2>6, <3>1 DEF FinalRun
  <2> QED
    BY <1>3, <2>3, <2>4, <2>5, <2>6, <2>1 DEF Advances
<1> QED
  BY <1>1, <1>2, <1>3

LEMMA FinalsHold ==
    Prompt => (Spec => [](TypeInv /\ WaitingJobsAreUnleased /\ ClaimInv /\ SiteInv /\ FinalInv))
<1> SUFFICES ASSUME Prompt
             PROVE  Spec => [](TypeInv /\ WaitingJobsAreUnleased /\ ClaimInv /\ SiteInv /\ FinalInv)
  OBVIOUS
<1>1. Init => FinalInv
  BY DEF Init, FinalInv, FinalRun, IdleRun
<1>2. TypeInv /\ ClaimInv /\ FinalInv /\ [Next]_vars => FinalInv'
  BY NextKeepsFinals
<1>3. Spec => [](TypeInv /\ WaitingJobsAreUnleased /\ ClaimInv /\ SiteInv)
  BY SitesHold
<1> QED
  BY <1>1, <1>2, <1>3, PTL DEF Spec

\* What a step of a run makes of the snapshot of its job.
SnapshotMoves(w, j) ==
    \/ snapshot'[j] = snapshot[j]
    \/ At(w, "begin") /\ snapshot[j] = "absent" /\ snapshot'[j] = "staging"
    \/ PublishStagedSync(w) /\ snapshot'[j] = "active"
    \/ At(w, "publish") /\ snapshot[j] = "failed" /\ snapshot'[j] = "staging"
    \/ /\ run[w].pc \in {"abort", "cancelAbort", "cleanupAbort"}
       /\ \/ snapshot[j] = "active" /\ snapshot'[j] = "broken"
          \/ snapshot[j] \notin {"absent", "active", "broken"} /\ snapshot'[j] = "failed"

LEMMA ExecutedSnapshot ==
    ASSUME TypeInv, NEW w \in Worker, Executes(w)
    PROVE  SnapshotMoves(w, run[w].job)
<1> DEFINE j == run[w].job
<1>1. j \in Job /\ snapshot \in [Job -> SnapshotStatus]
  BY ExecutionIsBusy DEF TypeInv, SnapshotsTyped
<1>2. CASE UNCHANGED snapshot
  BY <1>2 DEF SnapshotMoves
<1>3. CASE BeginStagedSync(w)
  BY <1>1, <1>3 DEF BeginStagedSync, SnapshotMoves
<1>4. CASE PublishStagedSync(w)
  <2>1. snapshot'[j] = "active"
    BY <1>1, <1>4 DEF PublishStagedSync
  <2> QED
    BY <1>4, <2>1 DEF SnapshotMoves
<1>5. CASE PublishRaises(w)
  BY <1>1, <1>5 DEF PublishRaises, SnapshotMoves
<1>6. CASE Abort(j) /\ run[w].pc \in {"abort", "cancelAbort", "cleanupAbort"}
  <2>1. snapshot'[j] = IF snapshot[j] \in {"absent", "broken"} THEN snapshot[j]
                       ELSE IF snapshot[j] = "active"
                       THEN IF Discarded(j) = {} THEN snapshot[j] ELSE "broken"
                       ELSE "failed"
    BY <1>1, <1>6 DEF Abort
  <2> QED
    BY <1>6, <2>1 DEF SnapshotMoves
<1>7. CASE StopOrClean(w)
  BY <1>2, <1>6, <1>7
     DEF StopOrClean, AbortInHandler, StoreFail, CancelAbort, Cancel, CancelRefused, CleanupAbort,
         CleanupFail, ReleaseCleanup, CleanupRefused, Raise, At
<1>8. CASE Prepare(w) \/ LeaveLost(w) \/ Disturbance(w)
  BY <1>2, <1>8
     DEF Prepare, AppendPreparedItem, ApplyDuplicatePolicy, YieldPreparation, FinishPreparation,
         PreparationRefused, LeaveLost, Disturbance, HeartbeatStops, FinalizationTimeout, Fault,
         Crash
<1>9. CASE ProcessPages(w)
  BY <1>2, <1>3, <1>9
     DEF ProcessPages, LoopHead, ClaimNextItem, ClaimNoItem, CompleteItem, FailItem, BatchRefused,
         EndBatch, PromoteDuplicateFallbacks, RequeueIncomplete, LoopRefused, Raise
<1>10. CASE Finalize(w)
  BY <1>2, <1>4, <1>5, <1>10
     DEF Finalize, StartFinalization, Inventory, Block, Complete, FinalizationRefused, Raise
<1> QED
  BY <1>7, <1>8, <1>9, <1>10 DEF Executes

\* A snapshot goes live in a publication of its own job only.
LEMMA GoesLive ==
    ASSUME TypeInv, [Next]_vars, NEW j \in Job, snapshot[j] # "active", snapshot'[j] = "active"
    PROVE  \E w \in Worker : PublishStagedSync(w) /\ run[w].job = j
<1>1. ~UNCHANGED snapshot
  OBVIOUS
<1>2. PICK w \in Worker : Executes(w)
  BY <1>1, OperatorRow, TimeRow, ClaimRow DEF Next, vars, WorkerStep, Executes
<1>3. CASE run[w].job = j
  BY <1>2, <1>3, ExecutedSnapshot DEF SnapshotMoves
<1>4. CASE run[w].job # j
  <2>1. PublishStagedSync(w)
    BY <1>2, <1>4, OtherJobsStay
  <2> QED
    BY <1>4, <2>1 DEF PublishStagedSync
<1> QED
  BY <1>3, <1>4

LEMMA LivePublicationsAreFit ==
    ASSUME TypeInv, ClaimInv, SiteInv, FinalInv, [Next]_vars,
           NEW j \in Job, snapshot[j] # "active", snapshot'[j] = "active"
    PROVE  Fit(j) /\ job[j].elected
<1>1. PICK w \in Worker : PublishStagedSync(w) /\ run[w].job = j
  BY GoesLive
<1>2. At(w, "publish")
  BY <1>1 DEF PublishStagedSync
<1>3. FinalRun(w, j)
  BY <1>1 DEF FinalInv
<1>4. job[j].status = "running"
  BY <1>1, <1>2, PcSorts, DriverStatus DEF At
<1> QED
  BY <1>2, <1>3, <1>4 DEF FinalRun, At, SiteInv, SiteRow

\* When no heartbeat is paused past its lease, what goes live is complete: every
\* page of the manifest has been fetched or excluded, and none has failed.
THEOREM PublicationsAreComplete == Prompt => (Spec => NoPartialPublication)
<1> SUFFICES ASSUME Prompt PROVE Spec => NoPartialPublication
  OBVIOUS
<1>1. TypeInv /\ ClaimInv /\ SiteInv /\ FinalInv /\ [Next]_vars
         => [\A j \in Job : snapshot[j] # "active" /\ snapshot'[j] = "active" =>
               PagesIn(j, {"absent", "pending", "fetching", "failed"}) = {}]_vars
  <2> SUFFICES ASSUME TypeInv, ClaimInv, SiteInv, FinalInv, [Next]_vars,
                      NEW j \in Job, snapshot[j] # "active", snapshot'[j] = "active"
               PROVE  PagesIn(j, {"absent", "pending", "fetching", "failed"}) = {}
    OBVIOUS
  <2>1. AllDone(j) /\ Refusal(j) = "none"
    BY LivePublicationsAreFit DEF Fit
  <2>2. PagesIn(j, {"failed"}) = {}
    BY <2>1 DEF Refusal
  <2> QED
    BY <2>1, <2>2 DEF AllDone, PagesIn
<1> QED
  BY <1>1, FinalsHold, PTL DEF Spec, NoPartialPublication

\* ... what goes live shows one page per product family, also after a fallback
\* was promoted and its winner retried,
THEOREM PublicationsShowOnePagePerFamily == Prompt => (Spec => OnePagePerFamily)
<1> SUFFICES ASSUME Prompt PROVE Spec => OnePagePerFamily
  OBVIOUS
<1>1. TypeInv /\ ClaimInv /\ SiteInv /\ FinalInv /\ [Next]_vars
         => [\A j \in Job : snapshot[j] # "active" /\ snapshot'[j] = "active" =>
               \A l \in Loser : ~({l, WinnerOf[l]} \subseteq PagesIn(j, {"succeeded", "not_modified"}))]_vars
  <2> SUFFICES ASSUME TypeInv, ClaimInv, SiteInv, FinalInv, [Next]_vars,
                      NEW j \in Job, snapshot[j] # "active", snapshot'[j] = "active",
                      NEW l \in Loser,
                      {l, WinnerOf[l]} \subseteq PagesIn(j, {"succeeded", "not_modified"})
               PROVE  FALSE
    OBVIOUS
  <2>1. Refusal(j) = "none" /\ job[j].elected
    BY LivePublicationsAreFit DEF Fit
  <2>2. ~IdentityViolated(j)
    BY <2>1 DEF Refusal
  <2> QED
    BY <2>1, <2>2 DEF IdentityViolated, PagesIn
<1> QED
  BY <1>1, FinalsHold, PTL DEF Spec, OnePagePerFamily

\* ... and no job goes live whose cancel the service accepted.
THEOREM CanceledJobsDoNotPublish == Prompt => (Spec => NoPublicationAfterCancel)
<1> SUFFICES ASSUME Prompt PROVE Spec => NoPublicationAfterCancel
  OBVIOUS
<1>1. TypeInv /\ ClaimInv /\ SiteInv /\ FinalInv /\ [Next]_vars
         => [\A j \in Job : snapshot[j] # "active" /\ snapshot'[j] = "active" => ~job[j].cancel]_vars
  BY LivePublicationsAreFit DEF Fit
<1> QED
  BY <1>1, FinalsHold, PTL DEF Spec, NoPublicationAfterCancel

-----------------------------------------------------------------------------
(* What visitors are served, and what the rows say of it                     *)

LivePc == {"begin", "loop", "batch", "promote", "finalize", "inventory", "publish", "record"}

\* Only a job that is about to record its success, or to be cleaned up, is live
\* before it has succeeded.
LiveRowAs(s, r, fit) ==
    /\ s = "active" => \/ r.status \in {"succeeded", "cleanup_pending"}
                       \/ r.status = "running" /\ r.phase = "finalizing" /\ fit
    /\ s = "broken" => r.status = "cleanup_pending"
    /\ s = "superseded" => r.status = "succeeded"
    /\ r.publication = "published" => r.status = "succeeded"
    /\ r.status = "succeeded" => s \in {"active", "superseded"}
    /\ r.publication = "refused" => r.status \in {"canceled", "failed"}

LiveRow(j) == LiveRowAs(snapshot[j], job[j], Fit(j))

EmptyBatch(x) == x.pc = "batch" => \A i \in Item : x.pages[i] = 0

\* What the run of such a job may still do to it.
LiveRun(w, j) ==
    /\ snapshot[j] = "active" /\ job[j].status = "running" =>
         run[w].pc \in LivePc /\ EmptyBatch(run[w])
    /\ run[w].pc = "record" => snapshot[j] = "active"
    /\ run[w].pc = "cleanupFail" => snapshot[j] \notin {"active", "broken"}
    /\ run[w].pc = "storeFail" /\ job[j].status = "cleanup_pending" => job[j].owner # w

LiveInv == \A j \in Production : LiveRow(j) /\ \A w \in Worker : run[w].job = j => LiveRun(w, j)

Base == TypeInv /\ WaitingJobsAreUnleased /\ ClaimInv /\ SiteInv /\ FinalInv /\ CountersMatchPages

\* A run always has a job that was claimed and has not gone on without it.
LEMMA RunnersJob ==
    ASSUME TypeInv, WaitingJobsAreUnleased, ClaimInv, NEW w \in Worker, ~At(w, "idle")
    PROVE  /\ job[run[w].job].status \in {"preparing", "running", "canceled", "cleanup_pending", "failed"}
           /\ run[w].pc \notin CleaningPc =>
                 job[run[w].job].status \in {"preparing", "running", "canceled"}
<1> DEFINE r == job[run[w].job]
<1>1. run[w].job \in Job /\ r \in JobRow /\ run[w] \in RunState /\ Drives(w)
  BY DriverStatus
<1>2. r.status \in Waiting => ~Mine(w, r)
  BY <1>1, WaitingIsUnleased, UnleasedIsNobodys DEF Unleased
<1>3. run[w].pc \in WorkPc \cup {"prepare"} \cup CleaningPc
  BY <1>1 DEF At, RunState, WorkPc
<1>4. run[w].pc \notin CleaningPc => r.status \in {"preparing", "running", "canceled"}
  BY <1>1, <1>3 DEF Drives, RunFits
<1>5. run[w].pc \in CleaningPc => r.status \in Stopped \/ Mine(w, r)
  BY <1>1 DEF Drives, RunFits
<1> QED
  BY <1>1, <1>2, <1>3, <1>4, <1>5 DEF JobRow, JobStatus, Terminal, Waiting, Stopped

LEMMA KeepsStatus ==
    ASSUME TypeInv, ClaimInv, NEW w \in Worker, Executes(w), run'[w] # IdleRun
    PROVE  job'[run[w].job].status = job[run[w].job].status
BY ExecutionRow DEF RowMoves, KeepsRow, SameRow, SamePlan, Elects, StartsFinal

\* The way of a cleaner, up to its end.
CleaningMoves(w, j) ==
    \/ run'[w] = IdleRun
    \/ run'[w].pc = run[w].pc /\ UNCHANGED <<job, snapshot>>
    \/ run'[w].pc = "cleanupRelease"
    \/ /\ run'[w].pc = "cleanupFail" /\ At(w, "cleanupAbort")
       /\ snapshot[j] \notin {"absent", "active", "broken"}
       /\ snapshot'[j] = "failed"
    \/ /\ run'[w].pc = "storeFail" /\ UNCHANGED <<job, snapshot>>
       /\ job[j].owner # w \/ job[j].status # "cleanup_pending"

LEMMA CleaningStep ==
    ASSUME TypeInv, NEW w \in Worker, Executes(w), run[w].pc \in CleaningPc
    PROVE  CleaningMoves(w, run[w].job)
<1> DEFINE j == run[w].job
<1>1. j \in Job /\ snapshot \in [Job -> SnapshotStatus]
  BY ExecutionIsBusy DEF TypeInv, SnapshotsTyped
<1>2. CASE Leave(w)
  BY <1>2, Arrives DEF CleaningMoves
<1>3. CASE CleanupAbort(w)
  <2>1. CASE AbortRaises(j)
    BY <1>3, <2>1, Arrives DEF CleanupAbort, CleaningMoves
  <2>2. CASE ~AbortRaises(j)
    <3>1. run'[w].pc = "cleanupFail" /\ At(w, "cleanupAbort")
      BY <1>3, <2>2, Arrives DEF CleanupAbort
    <3>2. snapshot[j] \notin {"absent", "active", "broken"} /\ snapshot'[j] = "failed"
      BY <1>1, <1>3, <2>2 DEF CleanupAbort, Abort, AbortRaises
    <3> QED
      BY <3>1, <3>2 DEF CleaningMoves
  <2> QED
    BY <2>1, <2>2
<1>4. CASE CleanupRefused(w)
  BY <1>4, Arrives DEF CleanupRefused, Holds, CleaningMoves
<1>5. CASE HeartbeatStops(w)
  <2>1. run'[w].pc = run[w].pc
    BY <1>5 DEF HeartbeatStops, TypeInv, RunsTyped, RunState
  <2> QED
    BY <1>5, <2>1 DEF HeartbeatStops, CleaningMoves
<1>6. CASE Fault(w)
  <2>1. Goto(w, "cleanupRelease") \/ Leave(w)
    BY <1>6 DEF Fault, At, CleaningPc
  <2> QED
    BY <2>1, Arrives DEF CleaningMoves
<1>7. CASE Prepare(w) \/ ProcessPages(w) \/ Finalize(w) \/ FinalizationTimeout(w)
  <2>1. ~Prepare(w)
    BY DEF Prepare, AppendPreparedItem, ApplyDuplicatePolicy, YieldPreparation,
           FinishPreparation, PreparationRefused, At, CleaningPc
  <2>2. ~ProcessPages(w)
    BY DEF ProcessPages, BeginStagedSync, LoopHead, ClaimNextItem, ClaimNoItem, CompleteItem,
           FailItem, BatchRefused, EndBatch, PromoteDuplicateFallbacks, RequeueIncomplete,
           LoopRefused, At, CleaningPc
  <2>3. ~Finalize(w)
    BY DEF Finalize, StartFinalization, Inventory, PublishStagedSync, PublishRaises, Block,
           Complete, FinalizationRefused, At, CleaningPc
  <2>4. ~FinalizationTimeout(w)
    BY DEF FinalizationTimeout, At, CleaningPc
  <2> QED
    BY <1>7, <2>1, <2>2, <2>3, <2>4
<1>8. CASE StopOrClean(w)
  <2>1. ~AbortInHandler(w) /\ ~CancelAbort(w) /\ ~CancelRefused(w)
    BY DEF AbortInHandler, CancelAbort, CancelRefused, At, CleaningPc
  <2> QED
    BY <1>2, <1>3, <1>4, <1>8, <2>1 DEF StopOrClean, StoreFail, Cancel, CleanupFail, ReleaseCleanup
<1> QED
  BY <1>2, <1>5, <1>6, <1>7, <1>8 DEF Executes, Disturbance, LeaveLost, Crash

OnTime == LateFailures = FALSE
NoFamilies == Loser = {}

LEMMA FitIsProcessed ==
    ASSUME TypeInv, CountersMatchPages, NEW j \in Job, Fit(j)
    PROVE  Processed(job[j])
<1>1. \A i \in Item : item[j][i].status \in PageStatus
  BY DEF TypeInv, ItemsTyped, PageRow
<1>2. PagesIn(j, PageDone) = Item
  BY <1>1 DEF Fit, AllDone, PagesIn, PageStatus
<1>3. job[j].completed = Cardinality(Item)
  BY <1>2 DEF CountersMatchPages
<1>4. Cardinality(Item) \in Nat
  BY CountPages
<1> QED
  BY <1>3, <1>4 DEF Processed, ExpectedCount

\* A job that is live while it still runs: its run can only go on to record it.
Hot(w, j) == /\ run[w].job = j
             /\ snapshot[j] = "active" /\ job[j].status = "running"
             /\ Fit(j) /\ run[w].pc \in LivePc /\ EmptyBatch(run[w])

HotMoves(w, j) ==
    /\ snapshot'[j] = "active"
    /\ \A i \in Item : item'[j][i].status = item[j][i].status
    /\ run'[w] = IdleRun \/ (run'[w].pc \in LivePc /\ EmptyBatch(run'[w]))

LEMMA HotFacts ==
    ASSUME OnTime, TypeInv, ClaimInv, CountersMatchPages,
           NEW w \in Worker, NEW j \in Job, Hot(w, j)
    PROVE  /\ ~MayFail(j) /\ Processed(job[j]) /\ ~job[j].cancel
           /\ PagesIn(j, {"absent", "pending", "fetching"}) = {}
           /\ Refusal(j) = "none"
           /\ Holds(w, {"running"})
           /\ run[w] \in RunState /\ ~At(w, "idle")
           /\ job[j] \in JobRow /\ snapshot \in [Job -> SnapshotStatus]
<1>1. ~At(w, "idle") /\ run[w] \in RunState
  BY DEF Hot, LivePc, At, TypeInv, RunsTyped
<1>2. Mine(w, job[j])
  BY <1>1, DriversAreAlone DEF Hot, Stopped
<1> QED
  BY <1>1, <1>2, FitIsProcessed
     DEF Hot, Fit, AllDone, MayFail, OnTime, Holds, Mine, TypeInv, JobsTyped, SnapshotsTyped

LEMMA HotPages ==
    ASSUME OnTime, NoFamilies, TypeInv, ClaimInv, CountersMatchPages,
           NEW w \in Worker, NEW j \in Job, Hot(w, j), ProcessPages(w)
    PROVE  HotMoves(w, j)
<1>1. /\ run[w].job = j /\ snapshot[j] = "active" /\ run[w].pc \in LivePc
      /\ EmptyBatch(run[w]) /\ run[w] \in RunState /\ RunShape(run[w])
      /\ job[j].status = "running"
  BY HotFacts DEF Hot, TypeInv, RunsTyped
<1>2. /\ Processed(job[j]) /\ ~job[j].cancel /\ Holds(w, {"running"})
      /\ \A i \in Item : item[j][i].status \notin {"absent", "pending", "fetching"}
      /\ snapshot \in [Job -> SnapshotStatus]
  BY HotFacts DEF PagesIn
<1>3. ASSUME UNCHANGED <<item, snapshot>>, NEW pc \in LivePc \ {"batch"}, Goto(w, pc)
      PROVE  HotMoves(w, j)
  BY <1>1, <1>3, Arrives DEF HotMoves, EmptyBatch
<1>4. CASE BeginStagedSync(w)
  <2>1. snapshot'[j] = "active" /\ UNCHANGED item
    BY <1>1, <1>2, <1>4 DEF BeginStagedSync
  <2>2. run'[w].pc = "loop"
    BY <1>4, Arrives DEF BeginStagedSync
  <2> QED
    BY <2>1, <2>2 DEF HotMoves, EmptyBatch, LivePc
<1>5. CASE LoopHead(w)
  <2>1. CASE run' = [run EXCEPT ![w].pc = "batch", ![w].slots = Concurrency, ![w].got = FALSE]
    <3>1. At(w, "loop")
      BY <1>5 DEF LoopHead
    <3>2. \A i \in Item : run[w].pages[i] = 0
      BY <1>1, <3>1 DEF RunShape, At
    <3>3. run'[w].pc = "batch" /\ run'[w].pages = run[w].pages
      BY <1>1, <2>1 DEF RunState, TypeInv, RunsTyped
    <3> QED
      BY <1>1, <1>5, <3>2, <3>3 DEF LoopHead, HotMoves, EmptyBatch, LivePc
  <2>2. CASE Goto(w, "finalize")
    BY <1>3, <1>5, <2>2 DEF LoopHead, LivePc
  <2> QED
    BY <1>1, <1>2, <1>5, <2>1, <2>2 DEF LoopHead
<1>6. ASSUME At(w, "batch") PROVE InHand(w) = {} /\ \A i \in Item : ~Due(item[j][i])
  BY <1>1, <1>2, <1>6 DEF EmptyBatch, At, InHand, Due
<1>7. ~(\E i \in Item : ClaimNextItem(w, i))
  BY <1>1, <1>6 DEF ClaimNextItem
<1>8. CASE ClaimNoItem(w)
  <2>1. At(w, "batch") /\ UNCHANGED snapshot
    BY <1>8 DEF ClaimNoItem
  <2>2. OutOfAttempts(j) = {}
    BY <1>2 DEF OutOfAttempts
  <2>3. \A i \in Item : item'[j][i].status = item[j][i].status
    BY <1>1, <1>8, <2>2 DEF ClaimNoItem, SweptPages, TypeInv, ItemsTyped
  <2>4. run'[w].pc = "batch" /\ run'[w].pages = run[w].pages
    BY <1>1, <1>8 DEF ClaimNoItem, At, RunState, TypeInv, RunsTyped
  <2> QED
    BY <1>1, <2>1, <2>3, <2>4 DEF HotMoves, EmptyBatch, At, LivePc
<1>9. ~(\E i \in Item : i \in InHand(w) /\ At(w, "batch"))
  BY <1>6
<1>10. ~BatchRefused(w)
  BY <1>2, <1>6 DEF BatchRefused
<1>11. CASE EndBatch(w)
  <2>1. PICK pc \in {"loop", "promote"} : Goto(w, pc)
    BY <1>11 DEF EndBatch
  <2> QED
    BY <1>3, <1>11, <2>1 DEF EndBatch, LivePc
<1>12. CASE PromoteDuplicateFallbacks(w)
  <2>1. Promotable(j) = {}
    BY DEF Promotable, NoFamilies
  <2>2. Goto(w, "finalize")
    BY <1>1, <1>2, <1>12, <2>1, FS_EmptySet DEF PromoteDuplicateFallbacks
  <2>3. run'[w].pc = "finalize"
    BY <2>2, Arrives
  <2>4. \A i \in Item : item'[j][i].status = item[j][i].status
    BY <1>1, <1>12, <2>1 DEF PromoteDuplicateFallbacks, TypeInv, ItemsTyped
  <2> QED
    BY <1>1, <1>12, <2>3, <2>4 DEF PromoteDuplicateFallbacks, HotMoves, EmptyBatch, LivePc
<1>13. ~RequeueIncomplete(w) /\ ~LoopRefused(w)
  BY <1>1, <1>2 DEF RequeueIncomplete, LoopRefused, LivePc, At
<1> QED
  BY <1>4, <1>5, <1>7, <1>8, <1>9, <1>10, <1>11, <1>12, <1>13
     DEF ProcessPages, CompleteItem, FailItem

LEMMA HotFinalize ==
    ASSUME OnTime, NoFamilies, TypeInv, ClaimInv, CountersMatchPages, NEW w \in Worker,
           NEW j \in Production, Hot(w, j), Finalize(w)
    PROVE  HotMoves(w, j)
<1>1. /\ run[w].job = j /\ snapshot[j] = "active" /\ run[w].pc \in LivePc
      /\ job[j].status = "running" /\ j \in Job
  BY ConstantsAssumption DEF Hot
<1>2. /\ ~MayFail(j) /\ ~job[j].cancel /\ Holds(w, {"running"}) /\ Refusal(j) = "none"
      /\ PagesIn(j, {"absent", "pending", "fetching"}) = {}
      /\ snapshot \in [Job -> SnapshotStatus] /\ run[w] \in RunState
  BY <1>1, HotFacts
<1>3. ASSUME UNCHANGED item, snapshot'[j] = "active",
             run'[w] = IdleRun \/ run'[w].pc \in LivePc \ {"batch"}
      PROVE  HotMoves(w, j)
  BY <1>3 DEF HotMoves, EmptyBatch
<1>4. CASE StartFinalization(w)
  <2>1. run'[w].pc = "inventory"
    BY <1>2, <1>4 DEF StartFinalization, RunState, TypeInv, RunsTyped
  <2> QED
    BY <1>1, <1>3, <1>4, <2>1 DEF StartFinalization, LivePc
<1>5. CASE Inventory(w)
  <2>1. Goto(w, "publish")
    BY <1>1, <1>2, <1>5 DEF Inventory
  <2> QED
    BY <1>1, <1>3, <1>5, <2>1, Arrives DEF Inventory, LivePc
<1>6. CASE PublishStagedSync(w)
  <2>1. snapshot'[j] = "active"
    BY <1>1, <1>2, <1>6 DEF PublishStagedSync
  <2> QED
    BY <1>3, <1>6, <2>1, Arrives DEF PublishStagedSync, LivePc
<1>7. CASE Complete(w)
  BY <1>1, <1>3, <1>7, Arrives DEF Complete
<1>8. ~PublishRaises(w) /\ ~Block(w)
  BY <1>1, <1>2 DEF PublishRaises, Block, At, LivePc
<1>9. ~FinalizationRefused(w)
  <2>1. Holds(w, {"preparing", "running", "cleanup_pending"})
    BY <1>2 DEF Holds
  <2> QED
    BY <1>1, <1>2, <2>1 DEF FinalizationRefused, At, LivePc
<1> QED
  BY <1>4, <1>5, <1>6, <1>7, <1>8, <1>9 DEF Finalize

LEMMA HotStep ==
    ASSUME OnTime, NoFamilies, TypeInv, ClaimInv, CountersMatchPages, NEW w \in Worker,
           NEW j \in Production, Hot(w, j), Executes(w)
    PROVE  HotMoves(w, j)
<1>1. /\ run[w].job = j /\ snapshot[j] = "active" /\ run[w].pc \in LivePc
      /\ EmptyBatch(run[w]) /\ j \in Job
  BY ConstantsAssumption DEF Hot
<1>2. ~MayFail(j) /\ run[w] \in RunState
  BY <1>1, HotFacts
<1>3. CASE Leave(w) /\ UNCHANGED <<item, snapshot>>
  BY <1>1, <1>3, Arrives DEF HotMoves
<1>4. CASE HeartbeatStops(w)
  <2>1. run'[w].pc = run[w].pc /\ run'[w].pages = run[w].pages
    BY <1>2, <1>4 DEF HeartbeatStops, RunState, TypeInv, RunsTyped
  <2> QED
    BY <1>1, <1>4, <2>1 DEF HeartbeatStops, HotMoves, EmptyBatch
<1>5. ~Fault(w) /\ ~FinalizationTimeout(w)
  BY <1>1, <1>2 DEF Fault, FinalizationTimeout
<1>6. ~Prepare(w)
  BY <1>1 DEF Prepare, AppendPreparedItem, ApplyDuplicatePolicy, YieldPreparation,
              FinishPreparation, PreparationRefused, At, LivePc
<1>7. ~StopOrClean(w)
  BY <1>1 DEF StopOrClean, AbortInHandler, StoreFail, CancelAbort, Cancel, CancelRefused,
              CleanupAbort, CleanupFail, ReleaseCleanup, CleanupRefused, At, LivePc
<1> QED
  BY <1>1, <1>3, <1>4, <1>5, <1>6, <1>7, HotPages, HotFinalize
     DEF Executes, Disturbance, LeaveLost, Crash

LEMMA JobStays ==
    ASSUME TypeInv, NEW w \in Worker, Executes(w)
    PROVE  run'[w] = IdleRun \/ run'[w].job = run[w].job
<1>1. CASE HandlesPage(w)
  <2>1. run[w] \in RunState /\ run \in [Worker -> RunState]
    BY DEF TypeInv, RunsTyped
  <2>2. ASSUME NEW i \in Item, PageHandled(w, i) PROVE run'[w].job = run[w].job
    BY <2>1, <2>2 DEF PageHandled, RunState
  <2>3. ASSUME NEW i \in Item, ClaimNextItem(w, i) PROVE run'[w].job = run[w].job
    BY <2>1, <2>3 DEF ClaimNextItem, RunState
  <2> QED
    BY <1>1, <2>2, <2>3 DEF HandlesPage, CompleteItem, FailItem
<1> QED
  BY <1>1, PagesStayInHand

\* The two halves of the invariant after a step: the row, and a run of the job.
LivesAfter(w, j) == LiveRow(j)' /\ (run'[w].job = j => LiveRun(w, j)')

LEMMA HotLives ==
    ASSUME OnTime, NoFamilies, TypeInv, ClaimInv, CountersMatchPages, NEW w \in Worker,
           NEW j \in Production, LiveRow(j), Hot(w, j), Executes(w)
    PROVE  LivesAfter(w, j)
<1> DEFINE r == job[j]
           q == job'[j]
<1>1. /\ run[w].job = j /\ snapshot[j] = "active" /\ r.status = "running" /\ Fit(j)
      /\ run[w].pc \in LivePc /\ j \in Job /\ r.phase = "finalizing"
      /\ r.publication \notin {"published", "refused"}
  BY ConstantsAssumption DEF Hot, LiveRow, LiveRowAs
<1>2. HotMoves(w, j) /\ RowMoves(w)
  BY HotStep, ExecutionRow
<1>3. snapshot'[j] = "active"
  BY <1>2 DEF HotMoves
<1>4. CASE KeepsRow(w, q, r)
  <2>1. /\ q.status = "running" /\ q.phase = "finalizing"
        /\ q.publication \notin {"published", "refused"}
        /\ q.cancel = r.cancel /\ q.elected = r.elected
    BY <1>1, <1>4 DEF KeepsRow, SameRow, SamePlan, StartsFinal, At, LivePc
  <2>2. Fit(j)'
    BY <1>1, <1>2, <2>1, FitStays DEF HotMoves
  <2>3. LiveRow(j)'
    BY <1>3, <2>1, <2>2 DEF LiveRow, LiveRowAs
  <2>4. run'[w].job = j => LiveRun(w, j)'
    <3>1. CASE run'[w] = IdleRun
      BY <1>1, <3>1, IdleRunIsIdle, ConstantsAssumption
    <3>2. CASE run'[w].pc \in LivePc /\ EmptyBatch(run'[w])
      BY <1>3, <2>1, <3>2 DEF LiveRun, LivePc
    <3> QED
      BY <1>2, <3>1, <3>2 DEF HotMoves
  <2> QED
    BY <2>3, <2>4 DEF LivesAfter
<1>5. CASE run'[w] = IdleRun /\ EndsRow(w, j, q, r)
  <2>1. Ends(q, r, "succeeded", "published")
    BY <1>1, <1>5 DEF EndsRow, At, LivePc
  <2>2. LiveRow(j)'
    BY <1>3, <2>1 DEF LiveRow, LiveRowAs, Ends
  <2> QED
    BY <1>1, <1>5, <2>2, IdleRunIsIdle, ConstantsAssumption DEF LivesAfter
<1> QED
  BY <1>1, <1>2, <1>4, <1>5 DEF RowMoves

LEMMA PublishingLives ==
    ASSUME TypeInv, ClaimInv, FinalInv, NEW w \in Worker, NEW j \in Production, LiveRow(j),
           run[w].job = j, PublishStagedSync(w)
    PROVE  LivesAfter(w, j)
<1>1. /\ At(w, "publish") /\ UNCHANGED <<job, item>> /\ snapshot'[j] = "active"
      /\ run'[w].pc = "record" /\ j \in Job
  BY Arrives, ConstantsAssumption DEF PublishStagedSync, TypeInv, SnapshotsTyped
<1>2. job[j].status = "running"
  BY <1>1, PcSorts, DriverStatus DEF At
<1>3. job[j].phase = "finalizing" /\ Fit(j)
  BY <1>1 DEF FinalInv, FinalRun, At
<1>4. Fit(j)'
  BY <1>1, <1>3, FitUnchanged
<1>5. LiveRow(j)'
  BY <1>1, <1>2, <1>3, <1>4 DEF LiveRow, LiveRowAs
<1>6. LiveRun(w, j)'
  BY <1>1, <1>2 DEF LiveRun, LivePc, EmptyBatch
<1> QED
  BY <1>5, <1>6 DEF LivesAfter

\* A working run of a job that is not live.
LEMMA ColdLives ==
    ASSUME TypeInv, WaitingJobsAreUnleased, ClaimInv, FinalInv, NEW w \in Worker,
           NEW j \in Production, LiveRow(j), LiveRun(w, j), run[w].job = j, Executes(w),
           run[w].pc \notin CleaningPc, snapshot[j] # "active", ~PublishStagedSync(w)
    PROVE  LivesAfter(w, j)
<1> DEFINE r == job[j]
           q == job'[j]
<1>1. j \in Job /\ ~At(w, "idle")
  BY ExecutionIsBusy
<1>2. r.status \in {"preparing", "running", "canceled"}
  BY <1>1, RunnersJob
<1>3. /\ snapshot[j] \notin {"active", "broken", "superseded"} /\ r.publication # "published"
      /\ r.publication = "refused" => r.status \in {"canceled", "failed"}
      /\ ~At(w, "record")
  BY <1>2 DEF LiveRow, LiveRowAs, LiveRun, At
<1>4. snapshot'[j] \notin {"active", "broken", "superseded"}
  BY <1>3, ExecutedSnapshot DEF SnapshotMoves
<1>5. RowMoves(w)
  BY ExecutionRow
<1>6. CASE KeepsRow(w, q, r)
  <2>1. q.status = r.status /\ q.publication = r.publication
    BY <1>6 DEF KeepsRow, SameRow, SamePlan, Elects, StartsFinal
  <2>2. LiveRow(j)'
    BY <1>2, <1>3, <1>4, <2>1 DEF LiveRow, LiveRowAs
  <2>3. ASSUME run'[w].job = j PROVE run'[w].pc # "record"
    <3>1. ~(Inventory(w) /\ run'[w].pc = "record")
      BY InventoryDecides
    <3> QED
      BY <1>3, <3>1, ExecutionAdvances DEF Advances, FinalPc, At
  <2>4. run'[w].job = j => LiveRun(w, j)'
    BY <1>2, <1>4, <2>1, <2>3 DEF LiveRun
  <2> QED
    BY <2>2, <2>4 DEF LivesAfter
<1>7. CASE run'[w] = IdleRun /\ EndsRow(w, j, q, r)
  <2>1. At(w, "requeue") => r.status = "running"
    BY <1>1, PcSorts, DriverStatus DEF At
  <2>2. /\ q.status \in {"preparing", "queued", "blocked", "canceled", "failed"}
        /\ q.publication # "published"
        /\ q.publication = "refused" => q.status \in {"canceled", "failed"}
    BY <1>2, <1>3, <1>7, <2>1
       DEF EndsRow, Frees, SamePlan, Returns, Blocks, Ends, CanceledPublication, At, CleaningPc
  <2>3. LiveRow(j)'
    BY <1>4, <2>2 DEF LiveRow, LiveRowAs
  <2> QED
    BY <1>1, <1>7, <2>3, IdleRunIsIdle, ConstantsAssumption DEF LivesAfter
<1> QED
  BY <1>5, <1>6, <1>7 DEF RowMoves

\* A cleaner of a job, live or not.
LEMMA CleaningLives ==
    ASSUME TypeInv, WaitingJobsAreUnleased, ClaimInv, NEW w \in Worker,
           NEW j \in Production, LiveRow(j), LiveRun(w, j), run[w].job = j, Executes(w),
           run[w].pc \in CleaningPc
    PROVE  LivesAfter(w, j)
<1> DEFINE r == job[j]
           q == job'[j]
<1>1. j \in Job /\ ~At(w, "idle")
  BY ExecutionIsBusy
<1>2. r.status \in {"preparing", "running", "canceled", "cleanup_pending", "failed"}
  BY <1>1, RunnersJob
<1>3. /\ snapshot[j] \in {"active", "broken"} => r.status = "cleanup_pending"
      /\ snapshot[j] # "superseded" /\ r.publication # "published"
      /\ r.publication = "refused" => r.status \in {"canceled", "failed"}
  BY <1>2 DEF LiveRow, LiveRowAs, LiveRun, LivePc, CleaningPc
<1>4. /\ snapshot'[j] \in {"active", "broken"} => snapshot[j] \in {"active", "broken"}
      /\ snapshot'[j] # "superseded"
      /\ ~At(w, "cleanupAbort") => snapshot'[j] = snapshot[j]
  BY <1>3, ExecutedSnapshot DEF SnapshotMoves, PublishStagedSync, At, CleaningPc
<1>5. RowMoves(w)
  BY ExecutionRow
<1>6. CASE SameRow(q, r) \/ Frees(q, r)
  <2>1. /\ q.status = r.status /\ q.publication = r.publication
        /\ q.owner = r.owner \/ q.owner = NoWorker
    BY <1>6 DEF SameRow, Frees, SamePlan, Freed
  <2>2. LiveRow(j)'
    BY <1>2, <1>3, <1>4, <2>1 DEF LiveRow, LiveRowAs
  <2>3. /\ ~(snapshot'[j] = "active" /\ q.status = "running")
        /\ run'[w].job = j => run'[w].pc # "record"
    BY <1>1, <1>3, <1>4, <2>1, CleaningStep, IdleRunIsIdle, ConstantsAssumption
       DEF CleaningMoves, CleaningPc
  <2>4. run'[w].job = j /\ run'[w].pc = "cleanupFail" => snapshot'[j] \notin {"active", "broken"}
    BY <1>1, CleaningStep, IdleRunIsIdle, ConstantsAssumption DEF CleaningMoves, LiveRun
  <2>5. run'[w].job = j /\ run'[w].pc = "storeFail" /\ q.status = "cleanup_pending" => q.owner # w
    BY <1>1, CleaningStep, IdleRunIsIdle, ConstantsAssumption DEF CleaningMoves, LiveRun
  <2> QED
    BY <2>2, <2>3, <2>4, <2>5 DEF LivesAfter, LiveRun
<1>7. CASE /\ run[w].pc \in {"storeFail", "cleanupFail"} /\ r.owner = w
           /\ Ends(q, r, "failed", CanceledPublication(j)) /\ run'[w] = IdleRun
  <2>1. snapshot[j] \notin {"active", "broken"}
    BY <1>3, <1>7 DEF LiveRun
  <2>2. snapshot'[j] \notin {"active", "broken", "superseded"}
    BY <1>4, <2>1
  <2>3. LiveRow(j)'
    BY <1>7, <2>2 DEF LiveRow, LiveRowAs, Ends, CanceledPublication
  <2> QED
    BY <1>1, <1>7, <2>3, IdleRunIsIdle, ConstantsAssumption DEF LivesAfter
<1> QED
  BY <1>5, <1>6, <1>7 DEF RowMoves, KeepsRow, EndsRow, At, CleaningPc

\* The run that takes the step, wherever it stands.
LEMMA OwnLives ==
    ASSUME OnTime, NoFamilies, Base, LiveInv, NEW w \in Worker, NEW j \in Production,
           run[w].job = j, Executes(w)
    PROVE  LivesAfter(w, j)
<1>1. LiveRow(j) /\ LiveRun(w, j) /\ j \in Job /\ ~At(w, "idle")
  BY ExecutionIsBusy DEF LiveInv, Base
<1>2. CASE run[w].pc \in CleaningPc
  BY <1>1, <1>2, CleaningLives DEF Base
<1>3. CASE run[w].pc \notin CleaningPc /\ snapshot[j] = "active"
  <2>1. job[j].status \in {"preparing", "running", "canceled"}
    BY <1>1, <1>3, RunnersJob DEF Base
  <2>2. Hot(w, j)
    BY <1>1, <1>3, <2>1 DEF Hot, LiveRow, LiveRowAs, LiveRun
  <2> QED
    BY <1>1, <2>2, HotLives DEF Base
<1>4. CASE run[w].pc \notin CleaningPc /\ snapshot[j] # "active"
  BY <1>1, <1>4, PublishingLives, ColdLives DEF Base
<1> QED
  BY <1>2, <1>3, <1>4

\* Another run of the job: both are cleaning up.
LEMMA FellowLives ==
    ASSUME Base, LiveInv, NEW w \in Worker, NEW j \in Production, run[w].job = j, Executes(w),
           NEW v \in Worker \ {w}, run'[v].job = j
    PROVE  LiveRun(v, j)'
<1> DEFINE r == job[j]
           q == job'[j]
<1>1. /\ run'[v] = run[v] /\ run[v].job = j /\ j \in Job /\ ~At(w, "idle")
      /\ ~At(v, "idle")
  <2>1. run'[v] = run[v] /\ j \in Job /\ ~At(w, "idle")
    BY OtherRunsStay, ExecutionIsBusy DEF Base
  <2> QED
    BY <2>1, IdleRunIsIdle, ConstantsAssumption DEF Base, ClaimInv, Drives, At
<1>2. run[w].pc \in CleaningPc /\ run[v].pc \in CleaningPc /\ r.status \in Stopped
  BY <1>1, DriversAreAlone DEF Alone, Base
<1>3. LiveRun(v, j)
  BY <1>1 DEF LiveInv
<1>4. q.status \in Stopped /\ (q.status = "cleanup_pending" => r.status = "cleanup_pending"
                                  /\ (q.owner = r.owner \/ q.owner = NoWorker))
  <2>1. RowMoves(w)
    BY ExecutionRow DEF Base
  <2>2. CASE SameRow(q, r) \/ Frees(q, r)
    BY <1>2, <2>2 DEF SameRow, Frees, SamePlan, Freed
  <2>3. CASE Ends(q, r, "failed", CanceledPublication(j))
    BY <2>3 DEF Ends, Stopped
  <2> QED
    BY <1>2, <2>1, <2>2, <2>3 DEF RowMoves, KeepsRow, EndsRow, At, CleaningPc
<1>5. snapshot'[j] \in {"active", "broken"} => snapshot[j] \in {"active", "broken"}
  BY <1>2, ExecutedSnapshot DEF SnapshotMoves, PublishStagedSync, At, CleaningPc, Base
<1> QED
  BY <1>1, <1>2, <1>3, <1>4, <1>5, ConstantsAssumption DEF LiveRun, CleaningPc, Stopped

\* A job whose row, snapshot and pages a step leaves as they are.
StaysSteady(j) ==
    /\ snapshot'[j] = snapshot[j]
    /\ SamePlan(job'[j], job[j]) /\ job'[j].owner = job[j].owner
    /\ \A i \in Item : item'[j][i].status = item[j][i].status

LEMMA SteadyLives ==
    ASSUME NEW j \in Job, StaysSteady(j)
    PROVE  /\ LiveRow(j) => LiveRow(j)'
           /\ \A v \in Worker : run'[v] = run[v] /\ LiveRun(v, j) => LiveRun(v, j)'
<1>1. Fit(j) => Fit(j)'
  BY FitStays DEF StaysSteady, SamePlan
<1>2. LiveRow(j) => LiveRow(j)'
  BY <1>1 DEF StaysSteady, SamePlan, LiveRow, LiveRowAs
<1>3. ASSUME NEW v \in Worker, run'[v] = run[v], LiveRun(v, j) PROVE LiveRun(v, j)'
  BY <1>3 DEF StaysSteady, SamePlan, LiveRun
<1> QED
  BY <1>2, <1>3

\* A run that has lost its row has no live job: nobody runs a waiting job.
LEMMA NoRunners ==
    ASSUME TypeInv, WaitingJobsAreUnleased, ClaimInv, NEW j \in Job,
           job[j].status \in {"absent", "queued", "blocked", "succeeded"}
    PROVE  \A v \in Worker : run[v].job # j
<1> SUFFICES ASSUME NEW v \in Worker, run[v].job = j PROVE FALSE
  OBVIOUS
<1>1. ~At(v, "idle")
  BY IdleRunIsIdle, ConstantsAssumption DEF ClaimInv, Drives, At
<1> QED
  BY <1>1, RunnersJob

\* The step of a run of another job.
LEMMA StrangerLives ==
    ASSUME Base, LiveInv, NEW w \in Worker, NEW j \in Production, run[w].job # j, Executes(w)
    PROVE  LiveRow(j)' /\ \A v \in Worker : run'[v].job = j => LiveRun(v, j)'
<1>1. /\ j \in Job /\ job'[j] = job[j] /\ item'[j] = item[j] /\ LiveRow(j)
      /\ \A v \in Worker : run[v].job = j => LiveRun(v, j)
  BY OtherJobsStay, ConstantsAssumption DEF LiveInv, Base
<1>2. \A v \in Worker : run'[v].job = j => run'[v] = run[v] /\ run[v].job = j
  <2>1. run'[w].job # j
    BY <1>1, JobStays, IdleRunIsIdle, ConstantsAssumption DEF Base
  <2> QED
    BY <2>1, OtherRunsStay DEF Base
<1>3. CASE snapshot'[j] = snapshot[j]
  <2>1. StaysSteady(j)
    BY <1>1, <1>3 DEF StaysSteady, SamePlan
  <2> QED
    BY <1>1, <1>2, <2>1, SteadyLives
<1>4. CASE snapshot'[j] # snapshot[j]
  <2> DEFINE k == run[w].job
  <2>1. PublishStagedSync(w)
    BY <1>1, <1>4, OtherJobsStay DEF Base
  <2>2. snapshot[j] = "active" /\ snapshot'[j] = "superseded" /\ SiteOf[j] = SiteOf[k]
    BY <1>1, <1>4, <2>1 DEF PublishStagedSync
  <2>3. k \in Job /\ job[k].status = "running"
    <3>1. At(w, "publish")
      BY <2>1 DEF PublishStagedSync
    <3> QED
      BY <3>1, PcSorts, DriverStatus DEF At, Base
  <2>4. job[j].status = "succeeded"
    <3>1. job[k].activeSite
      BY <2>3 DEF Base, SiteInv, SiteRow, Unfinished, JobStatus, Terminal
    <3>2. ~job[j].activeSite
      BY <1>1, <2>2, <2>3, <3>1 DEF Base, SiteInv
    <3>3. job[j].status \notin {"cleanup_pending", "running"}
      BY <1>1, <3>2 DEF Base, SiteInv, SiteRow, Unfinished, JobStatus, Terminal
    <3> QED
      BY <1>1, <2>2, <3>3 DEF LiveRow, LiveRowAs
  <2>5. \A v \in Worker : run[v].job # j
    BY <1>1, <2>4, NoRunners DEF Base
  <2>6. LiveRow(j)'
    BY <1>1, <2>2, <2>4 DEF LiveRow, LiveRowAs
  <2> QED
    BY <1>2, <2>5, <2>6
<1> QED
  BY <1>3, <1>4

LEMMA SweptLive ==
    ASSUME Base, LiveInv, NEW j \in Production
    PROVE  LiveRowAs(snapshot[j], Swept(j), Fit(j))
<1>1. j \in Job /\ job[j] \in JobRow /\ LiveRow(j)
  BY ConstantsAssumption DEF LiveInv, Base, TypeInv, JobsTyped
<1>2. CASE ~Exhausted(job[j])
  BY <1>1, <1>2, SweptRow DEF LiveRow
<1>3. CASE Exhausted(job[j])
  <2>1. Swept(j).status = "cleanup_pending" /\ Swept(j).publication = job[j].publication
    BY <1>1, <1>3, SweptRow
  <2>2. job[j].status \in {"preparing", "running"}
    BY <1>3 DEF Exhausted
  <2> QED
    BY <1>1, <2>1, <2>2 DEF LiveRow, LiveRowAs
<1> QED
  BY <1>2, <1>3

\* A claim of the job itself.
LEMMA ClaimedIsLive ==
    ASSUME Base, LiveInv, NEW w \in Worker, NEW j \in Production, ClaimNext(w, j)
    PROVE  LiveRow(j)' /\ \A v \in Worker : run'[v].job = j => LiveRun(v, j)'
<1> DEFINE r == Swept(j)
           q == Claimed(r, w)
<1>1. j \in Job /\ r \in JobRow /\ job[j] \in JobRow
  BY SweptJob, ConstantsAssumption DEF Base, TypeInv, JobsTyped
<1>2. /\ job'[j] = q /\ UNCHANGED <<item, snapshot>> /\ Claimable(j, r)
      /\ run' = [run EXCEPT ![w] = [IdleRun EXCEPT !.pc = EntryPc(j, q), !.job = j]]
      /\ At(w, "idle")
  BY <1>1 DEF ClaimNext
<1>3. LiveRowAs(snapshot[j], r, Fit(j))
  BY SweptLive
<1>4. r.status \in {"preparing", "queued", "running", "blocked", "cleanup_pending"}
  BY <1>2 DEF Claimable
<1>5. r.status = "running" => r = job[j]
  BY <1>1, SweptRow DEF Exhausted
<1> HIDE DEF r
<1>6. /\ q.status = IF r.status \in {"preparing", "cleanup_pending"} THEN r.status ELSE "running"
      /\ q.publication = r.publication /\ q.elected = r.elected /\ q.owner = w
      /\ q.cancel = (r.cancel \/ r.status = "blocked")
      /\ r.phase = "finalizing" /\ r.status = "running" /\ ~q.cancel => q.phase = r.phase
  BY <1>1, ClaimedRow DEF Mine
<1> HIDE DEF q
<1>11. /\ snapshot'[j] = snapshot[j] /\ job'[j] = q
       /\ q.status = r.status \/ (r.status \in {"queued", "running", "blocked"} /\ q.status = "running")
       /\ q.publication = r.publication /\ UNCHANGED item
  BY <1>2, <1>4, <1>6
<1>7. ASSUME snapshot[j] = "active", r.status = "running" PROVE LiveRow(j)'
  <2>1. r.phase = "finalizing" /\ Fit(j) /\ r = job[j]
    BY <1>3, <1>5, <1>7 DEF LiveRowAs
  <2>2. q.cancel = job[j].cancel /\ ~q.cancel
    BY <1>1, <1>6, <1>7, <2>1 DEF Fit, JobRow
  <2>3. Fit(j)'
    BY <1>1, <1>6, <1>11, <2>1, <2>2, FitStays
  <2>4. q.status = "running" /\ q.phase = "finalizing"
    BY <1>6, <1>7, <2>1, <2>2
  <2> QED
    BY <1>3, <1>7, <1>11, <2>3, <2>4 DEF LiveRow, LiveRowAs
<1>8. ASSUME ~(snapshot[j] = "active" /\ r.status = "running") PROVE LiveRow(j)'
  <2>1. LiveRowAs(snapshot[j], q, Fit(j)')
    BY <1>3, <1>4, <1>8, <1>11 DEF LiveRowAs
  <2> QED
    BY <1>11, <2>1 DEF LiveRow
<1>9. LiveRun(w, j)'
  <2>1. run'[w].pc = EntryPc(j, q)
    BY <1>2 DEF IdleRun, Base, TypeInv, RunsTyped
  <2>2. /\ EntryPc(j, q) \in {"cleanupAbort", "prepare", "begin"}
        /\ q.status = "running" => EntryPc(j, q) = "begin"
    BY DEF EntryPc
  <2> QED
    BY <1>2, <2>1, <2>2 DEF LiveRun, LivePc, EmptyBatch
<1>10. ASSUME NEW v \in Worker \ {w}, run'[v].job = j PROVE LiveRun(v, j)'
  <2>1. run'[v] = run[v] /\ run[v].job = j
    BY <1>2, <1>10 DEF Base, TypeInv, RunsTyped
  <2>2. ~At(v, "idle") /\ LiveRun(v, j)
    BY <1>1, <2>1, IdleRunIsIdle, ConstantsAssumption
       DEF Base, ClaimInv, Drives, At, LiveInv
  <2>3. r = job[j]
    BY <1>1, <2>1, SweptIsUndriven, SweptRow DEF Base, r
  <2>4. r.status = "cleanup_pending" /\ run[v].pc \in CleaningPc
    <3>1. r.status \notin {"queued", "blocked"}
      BY <2>1, <2>2, <2>3, RunnersJob DEF Base
    <3>2. r.status \notin Stopped \/ run[v].pc \notin CleaningPc => Mine(v, r)
      BY <2>1, <2>2, <2>3, DriversAreAlone DEF Base
    <3>3. Mine(v, r) => r.status = "cleanup_pending"
      BY <1>2, <3>1 DEF Claimable, Mine
    <3>4. r.status \in Stopped
      BY <3>2, <3>3 DEF Stopped
    <3> QED
      BY <1>4, <2>1, <2>2, <2>3, <3>4, DriversAreAlone DEF Base, Stopped
  <2> QED
    BY <1>2, <1>6, <2>1, <2>2, <2>4 DEF LiveRun, CleaningPc
<1> QED
  BY <1>7, <1>8, <1>9, <1>10

LEMMA ClaimLives ==
    ASSUME Base, LiveInv, NEW w \in Worker, Claim(w), NEW j \in Production
    PROVE  LiveRow(j)' /\ \A v \in Worker : run'[v].job = j => LiveRun(v, j)'
<1>1. j \in Job /\ job[j] \in JobRow /\ UNCHANGED <<item, snapshot>>
  BY ClaimRow, ConstantsAssumption DEF Base, TypeInv, JobsTyped
<1>2. CASE ~ClaimNext(w, j)
  <2>1. job'[j] = Swept(j)
    BY <1>1, <1>2, ClaimRow DEF Base
  <2>2. \A v \in Worker : run'[v].job = j => run'[v] = run[v] /\ run[v].job = j
    <3>1. \A k \in Job : ClaimNext(w, k) => run'[w].job = k /\ \A v \in Worker \ {w} : run'[v] = run[v]
      BY DEF ClaimNext, Base, TypeInv, RunsTyped, IdleRun
    <3> QED
      BY <1>2, <3>1 DEF Claim, ClaimNothing
  <2>3. \A v \in Worker : run[v].job = j => LiveRun(v, j)
    BY DEF LiveInv
  <2>4. CASE ~Exhausted(job[j])
    <3>1. StaysSteady(j)
      BY <1>1, <2>1, <2>4, SweptRow DEF StaysSteady, SamePlan
    <3> QED
      BY <1>1, <2>2, <2>3, <3>1, SteadyLives DEF LiveInv
  <2>5. CASE Exhausted(job[j])
    <3>1. \A v \in Worker : run[v].job # j
      BY <1>1, <2>5, SweptIsUndriven DEF Base
    <3>2. Swept(j).status = "cleanup_pending"
      BY <1>1, <2>5, SweptRow
    <3>3. LiveRow(j)'
      BY <1>1, <2>1, <3>2, SweptLive DEF LiveRow, LiveRowAs
    <3> QED
      BY <2>2, <3>1, <3>3
  <2> QED
    BY <2>4, <2>5
<1> QED
  BY <1>2, ClaimedIsLive

LEMMA OperatorLives ==
    ASSUME Base, LiveInv, Operator, NEW j \in Production
    PROVE  LiveRow(j)' /\ \A v \in Worker : run'[v].job = j => LiveRun(v, j)'
<1>1. PICK k \in Job : OperatorMoves(k) /\ \A l \in Job \ {k} : job'[l] = job[l] /\ item'[l] = item[l]
  BY OperatorRow DEF Base
<1>2. /\ UNCHANGED <<run, snapshot>> /\ j \in Job /\ LiveRow(j) /\ job[j] \in JobRow
      /\ \A v \in Worker : run[v].job = j => LiveRun(v, j)
  BY OperatorRow, ConstantsAssumption DEF LiveInv, Base, TypeInv, JobsTyped
<1>3. CASE k # j
  <2>1. StaysSteady(j)
    BY <1>1, <1>2, <1>3 DEF StaysSteady, SamePlan
  <2> QED
    BY <1>2, <2>1, SteadyLives
<1>4. CASE k = j /\ job[j].status \in {"absent", "blocked"}
  <2>1. \A v \in Worker : run[v].job # j
    BY <1>2, <1>4, NoRunners DEF Base
  <2>2. LiveRow(j)'
    BY <1>1, <1>2, <1>4
       DEF OperatorMoves, Enqueues, Cancels, Marks, Reopens, LiveRow, LiveRowAs
  <2> QED
    BY <1>2, <2>1, <2>2
<1>5. CASE k = j /\ Cancels(j, job'[j], job[j])
  <2>1. snapshot[j] \notin {"active", "broken", "superseded"}
    BY <1>2, <1>5 DEF Cancels, LiveRow, LiveRowAs
  <2>2. LiveRow(j)'
    BY <1>2, <1>5, <2>1 DEF Cancels, CanceledPublication, LiveRow, LiveRowAs
  <2>3. \A v \in Worker : run[v].job = j => LiveRun(v, j)'
    BY <1>2, <1>5, <2>1 DEF Cancels, LiveRun
  <2> QED
    BY <1>2, <2>2, <2>3
<1>6. CASE k = j /\ Marks(j, job'[j], job[j])
  <2>1. LiveRow(j)'
    BY <1>2, <1>6 DEF Marks, LiveRow, LiveRowAs
  <2>2. \A v \in Worker : run[v].job = j => LiveRun(v, j)'
    BY <1>2, <1>6 DEF Marks, LiveRun
  <2> QED
    BY <1>2, <2>1, <2>2
<1> QED
  BY <1>1, <1>3, <1>4, <1>5, <1>6 DEF OperatorMoves, Enqueues, Reopens

LEMMA NextKeepsLives ==
    ASSUME OnTime, NoFamilies, Base, LiveInv, [Next]_vars
    PROVE  LiveInv'
<1> SUFFICES ASSUME NEW j \in Production
             PROVE  LiveRow(j)' /\ \A v \in Worker : run'[v].job = j => LiveRun(v, j)'
  BY DEF LiveInv
<1>1. /\ j \in Job /\ LiveRow(j)
      /\ \A v \in Worker : run[v].job = j => LiveRun(v, j)
  BY ConstantsAssumption DEF LiveInv
<1>2. CASE UNCHANGED vars \/ TimePasses
  <2>1. StaysSteady(j) /\ UNCHANGED run
    BY <1>1, <1>2, TimeRow DEF vars, StaysSteady, SameRow, SamePlan, Base
  <2> QED
    BY <1>1, <2>1, SteadyLives
<1>3. ASSUME NEW w \in Worker, Executes(w), run[w].job = j
      PROVE  LiveRow(j)' /\ \A v \in Worker : run'[v].job = j => LiveRun(v, j)'
  BY <1>3, OwnLives, FellowLives DEF LivesAfter
<1> QED
  BY <1>2, <1>3, OperatorLives, ClaimLives, StrangerLives DEF Next, WorkerStep, Executes

LEMMA LivesHold ==
    Prompt /\ OnTime /\ NoFamilies => (Spec => [](Base /\ LiveInv))
<1> SUFFICES ASSUME Prompt, OnTime, NoFamilies PROVE Spec => [](Base /\ LiveInv)
  OBVIOUS
<1>1. Init => LiveInv
  BY ConstantsAssumption DEF Init, LiveInv, LiveRow, LiveRowAs, NoRow, IdleRun
<1>2. Base /\ LiveInv /\ [Next]_vars => LiveInv'
  BY NextKeepsLives
<1>3. TypeInv /\ WaitingJobsAreUnleased /\ ClaimInv /\ SiteInv /\ FinalInv /\ CountersMatchPages
         => Base
  BY DEF Base
<1>4. Spec => []Base
  BY <1>3, FinalsHold, CountersAreExact, PTL
<1> QED
  BY <1>1, <1>2, <1>4, PTL DEF Spec

\* When no heartbeat is paused past its lease, no run fails after its snapshot
\* went live and the site has no product families, an operator who reads
\* "published" finds the snapshot live or replaced by a later one, and one who
\* reads "refused" finds nothing of it before the visitors.
THEOREM PublicationStatusIsReliable ==
    Prompt /\ OnTime /\ NoFamilies => (Spec => []PublicationStatusIsTrue)
<1> SUFFICES ASSUME Prompt, OnTime, NoFamilies PROVE Spec => []PublicationStatusIsTrue
  OBVIOUS
<1>1. LiveInv => PublicationStatusIsTrue
  BY DEF LiveInv, LiveRow, LiveRowAs, PublicationStatusIsTrue
<1> QED
  BY <1>1, LivesHold, PTL

-----------------------------------------------------------------------------
(* No job is given up while there are no more interruptions than attempts,    *)
(* and so nothing that is live is taken away                                  *)

Enough == MaxInterruptions <= MaxFailures

\* A row with status and lease of r, and with n interruptions so far, counts no
\* more lost leases than those, and has one to spare if its lease is being lost.
FailRow(r, renewing, n) ==
    /\ r.status # "cleanup_pending"
    /\ r.failures <= n
    /\ r.status \in {"preparing", "running"} /\ r.lease # "none" /\ ~renewing
         => r.failures + 1 <= n

FailInv == \A j \in Job : FailRow(job[j], Renewing(j), budget.interruptions)

Holding(w) == Holds(w, {"preparing", "running"})

LEMMA FailRowStays ==
    ASSUME NEW r \in JobRow, NEW q \in JobRow, NEW a \in BOOLEAN, NEW b \in BOOLEAN,
           NEW n \in Nat, NEW m \in Nat, FailRow(r, a, n), n <= m,
           q.status = r.status, q.failures = r.failures, q.lease = "none" <=> r.lease = "none",
           a => (b \/ n < m)
    PROVE  FailRow(q, b, m)
BY DEF FailRow, JobRow

LEMMA FailRowRests ==
    ASSUME NEW r \in JobRow, NEW q \in JobRow, NEW a \in BOOLEAN, NEW b \in BOOLEAN,
           NEW n \in Nat, FailRow(r, a, n), q.failures \in {0, r.failures},
           q.status # "cleanup_pending",
           q.status \notin {"preparing", "running"} \/ q.lease = "none"
    PROVE  FailRow(q, b, n)
BY DEF FailRow, JobRow

LEMMA CountsInterruptions ==
    ASSUME TypeInv, [Next]_vars
    PROVE  /\ budget.interruptions \in Nat /\ budget'.interruptions \in Nat
           /\ budget.interruptions <= MaxInterruptions
BY NextTyped, ConstantsAssumption DEF TypeInv, BudgetTyped

LEMMA RenewedIsLive ==
    ASSUME TypeInv, ClaimInv, NEW j \in Job, Renewing(j), job[j].status \notin Stopped
    PROVE  job[j].lease = "live"
<1>1. PICK w \in Worker : run[w].job = j
  BY DEF Renewing
<1>2. Drives(w)
  BY <1>1, IdleRunIsIdle, ConstantsAssumption DEF ClaimInv
<1> QED
  BY <1>1, <1>2 DEF Drives, RunFits, Mine

LEMMA NobodyIsExhausted ==
    ASSUME Enough, TypeInv, ClaimInv, FailInv, NEW j \in Job
    PROVE  ~Exhausted(job[j]) /\ Swept(j) = job[j]
<1>1. job[j] \in JobRow /\ FailRow(job[j], Renewing(j), budget.interruptions)
  BY DEF TypeInv, JobsTyped, FailInv
<1>2. SUFFICES ASSUME Exhausted(job[j]) PROVE FALSE
  BY <1>1, SweptRow
<1>3. ~Renewing(j)
  BY <1>2, RenewedIsLive DEF Exhausted, Stopped
<1>4. job[j].failures + 1 <= budget.interruptions
  BY <1>1, <1>2, <1>3 DEF FailRow, Exhausted
<1>5. budget.interruptions \in 0..MaxInterruptions
  BY DEF TypeInv, BudgetTyped
<1>6. job[j].failures \in Nat /\ job[j].failures >= MaxFailures
  BY <1>1, <1>2 DEF Exhausted, JobRow
<1> QED
  BY <1>4, <1>5, <1>6, ConstantsAssumption DEF Enough

\* How a run comes out of a step: it goes on as it was, it is interrupted, or it
\* ends, with its job released unless it had lost it before.
GoesOnAsBefore(w) ==
    /\ run'[w].job = run[w].job /\ run'[w].lost = run[w].lost
    /\ budget'.interruptions = budget.interruptions
IsInterrupted(w) == UNCHANGED job /\ budget'.interruptions = budget.interruptions + 1
EndsInOrder(w) ==
    /\ run'[w] = IdleRun /\ budget'.interruptions = budget.interruptions
    /\ \/ job'[run[w].job].lease = "none"
       \/ UNCHANGED job /\ (run[w].lost \/ ~Holding(w))
       \/ UNCHANGED job /\ At(w, "record") /\ run[w].job \in Production /\ MayFail(run[w].job)
ComesOut(w) == GoesOnAsBefore(w) \/ IsInterrupted(w) \/ EndsInOrder(w)

LEMMA GoesOnMoving ==
    ASSUME TypeInv, NEW w \in Worker, budget'.interruptions = budget.interruptions,
           \/ \E pc : Goto(w, pc)
           \/ \E why : Blocking(w, why)
           \/ Raise(w)
    PROVE  ComesOut(w)
<1>1. run[w] \in RunState /\ run \in [Worker -> RunState]
  BY DEF TypeInv, RunsTyped
<1>2. run'[w].job = run[w].job /\ run'[w].lost = run[w].lost
  BY <1>1 DEF Goto, Blocking, Raise, RunState
<1> QED
  BY <1>2 DEF ComesOut, GoesOnAsBefore

\* A run that ends its job gives the lease back.
LEMMA EndsReleasing ==
    ASSUME TypeInv, NEW w \in Worker, run[w].job \in Job,
           \/ YieldPreparation(w) \/ FinishPreparation(w) \/ RequeueIncomplete(w) \/ Block(w)
           \/ Complete(w) \/ Cancel(w) \/ CleanupFail(w) \/ ReleaseCleanup(w)
    PROVE  ComesOut(w)
<1> DEFINE j == run[w].job
           r == job[j]
           f == Released(r)
<1>1. r \in JobRow /\ f \in JobRow /\ f.lease = "none"
  <2>1. r \in JobRow
    BY DEF TypeInv, JobsTyped
  <2> QED
    BY <2>1, ReleasedJob, ReleasedRowPlan DEF Freed
<1>2. /\ Leave(w) /\ UNCHANGED budget
  BY DEF YieldPreparation, FinishPreparation, RequeueIncomplete, Block, Complete, Cancel,
         CleanupFail, ReleaseCleanup
<1>3. ASSUME job'[j].lease = "none" PROVE ComesOut(w)
  <2>1. run'[w] = IdleRun
    BY <1>2, Arrives
  <2> QED
    BY <1>2, <1>3, <2>1 DEF ComesOut, EndsInOrder
<1>4. ASSUME NEW q, q.lease = "none", job' = [job EXCEPT ![j] = q] PROVE ComesOut(w)
  <2>1. job'[j] = q
    BY <1>4 DEF TypeInv, JobsTyped
  <2> QED
    BY <1>3, <1>4, <2>1
<1> HIDE DEF f
<1>5. /\ \A a, b, c : [f EXCEPT !.status = a, !.phase = b, !.failures = c].lease = "none"
      /\ \A a, b : [f EXCEPT !.status = a, !.phase = b].lease = "none"
      /\ \A a, b, c, d : [f EXCEPT !.status = a, !.phase = b, !.publication = c,
                                   !.activeSite = d].lease = "none"
      /\ \A a : [f EXCEPT !.later = a].lease = "none"
  BY <1>1 DEF JobRow
<1>6. CASE YieldPreparation(w)
  BY <1>1, <1>4, <1>6 DEF YieldPreparation, f
<1>7. CASE FinishPreparation(w)
  <2> DEFINE q == [f EXCEPT !.status = "queued", !.phase = "queued", !.failures = 0]
  <2>1. job' = [job EXCEPT ![j] = q]
    BY <1>7 DEF FinishPreparation, f
  <2>2. q.lease = "none"
    BY <1>5
  <2> HIDE DEF q
  <2> QED
    BY <1>4, <2>1, <2>2
<1>8. CASE RequeueIncomplete(w)
  BY <1>4, <1>5, <1>8 DEF RequeueIncomplete, f
<1>9. CASE Block(w)
  <2>1. Blocked(r, run[w].why).lease = "none"
    BY <1>1, BlockedRow DEF Freed
  <2> QED
    BY <1>4, <1>9, <2>1 DEF Block
<1>10. CASE Complete(w)
  <2>1. PICK a, b, c, d : job' = [job EXCEPT ![j] = [f EXCEPT !.status = a, !.phase = b,
                                                     !.publication = c, !.activeSite = d]]
    BY <1>10 DEF Complete, f
  <2> DEFINE q == [f EXCEPT !.status = a, !.phase = b, !.publication = c, !.activeSite = d]
  <2>2. q.lease = "none" /\ job' = [job EXCEPT ![j] = q]
    BY <1>5, <2>1
  <2> HIDE DEF q
  <2> QED
    BY <1>4, <2>2
<1>11. CASE CleanupFail(w)
  <2>1. Failed(j).lease = "none"
    BY <1>1, FailedRow DEF Ended, Freed
  <2> QED
    BY <1>4, <1>11, <2>1 DEF CleanupFail
<1>12. CASE ReleaseCleanup(w)
  BY <1>4, <1>5, <1>12 DEF ReleaseCleanup, f
<1>13. CASE Cancel(w)
  <2> DEFINE n == Cardinality(PagesIn(j, {"pending", "fetching"}))
             c == Counted(f, "canceled", n)
  <2>1. c \in JobRow /\ c.lease = "none"
    <3>1. n \in Nat
      BY CountPages, PagesInAreItems
    <3> HIDE DEF n
    <3>2. c \in JobRow /\ SameRow(c, f)
      BY <1>1, <3>1, CountedJob, CountedRow DEF CountedStatus
    <3> QED
      BY <1>1, <3>2 DEF SameRow
  <2>2. job' = [job EXCEPT ![j] = [c EXCEPT !.status = "canceled", !.phase = "completed",
                                            !.activeSite = FALSE,
                                            !.publication = CanceledPublication(j)]]
    BY <1>13 DEF Cancel, f
  <2> HIDE DEF c
  <2> DEFINE publication == CanceledPublication(j)
             q == [c EXCEPT !.status = "canceled", !.phase = "completed", !.activeSite = FALSE,
                            !.publication = publication]
  <2> HIDE DEF publication
  <2>3. q.lease = "none"
    BY <2>1 DEF JobRow
  <2>4. job' = [job EXCEPT ![j] = q]
    BY <2>2 DEF publication
  <2> HIDE DEF q
  <2> QED
    BY <1>4, <2>3, <2>4
<1> QED
  BY <1>6, <1>7, <1>8, <1>9, <1>10, <1>11, <1>12, <1>13

LEMMA StoreFailEnds ==
    ASSUME TypeInv, NEW w \in Worker, run[w].job \in Job, StoreFail(w)
    PROVE  ComesOut(w)
<1> DEFINE j == run[w].job
<1>1. run'[w] = IdleRun /\ UNCHANGED budget
  BY Arrives DEF StoreFail
<1>2. CASE Holds(w, {"preparing", "running", "cleanup_pending"})
  <2>1. job'[j] = Failed(j) /\ job[j] \in JobRow
    BY <1>2 DEF StoreFail, TypeInv, JobsTyped
  <2>2. job'[j].lease = "none"
    BY <2>1, FailedRow DEF Ended, Freed
  <2> QED
    BY <1>1, <2>2 DEF ComesOut, EndsInOrder
<1>3. CASE ~Holds(w, {"preparing", "running", "cleanup_pending"})
  <2>1. UNCHANGED job /\ ~Holding(w)
    BY <1>3 DEF StoreFail, Holding, Holds
  <2> QED
    BY <1>1, <2>1 DEF ComesOut, EndsInOrder
<1> QED
  BY <1>2, <1>3

\* The steps of the page loop that write a run field by field.
LEMMA BatchComesOut ==
    ASSUME TypeInv, NEW w \in Worker, ProcessPages(w)
    PROVE  ComesOut(w)
<1>1. run[w] \in RunState /\ run \in [Worker -> RunState] /\ budget \in [
         interruptions : 0..MaxInterruptions, retries : 0..MaxRetries, faults : 0..MaxFaults,
         pageFailures : 0..MaxPageFailures]
  BY DEF TypeInv, RunsTyped, BudgetTyped
<1>2. budget'.interruptions = budget.interruptions
  BY <1>1 DEF ProcessPages, BeginStagedSync, LoopHead, ClaimNextItem, ClaimNoItem, CompleteItem,
              FailItem, BatchRefused, EndBatch, PromoteDuplicateFallbacks, RequeueIncomplete,
              LoopRefused, Raise
<1>3. ASSUME \/ run' = [run EXCEPT ![w].pc = "batch", ![w].slots = Concurrency, ![w].got = FALSE]
             \/ \E i \in Item : run' = [run EXCEPT ![w].slots = @ - 1, ![w].pages[i] = @ + 1]
             \/ run' = [run EXCEPT ![w].slots = @ - 1]
             \/ \E i \in Item : PageHandled(w, i)
      PROVE  ComesOut(w)
  <2>1. ASSUME NEW i \in Item, PageHandled(w, i)
        PROVE  run'[w].job = run[w].job /\ run'[w].lost = run[w].lost
    BY <1>1, <2>1 DEF PageHandled, RunState
  <2>2. ASSUME NEW i \in Item, run' = [run EXCEPT ![w].slots = @ - 1, ![w].pages[i] = @ + 1]
        PROVE  run'[w].job = run[w].job /\ run'[w].lost = run[w].lost
    BY <1>1, <2>2 DEF RunState
  <2>3. ASSUME \/ run' = [run EXCEPT ![w].pc = "batch", ![w].slots = Concurrency, ![w].got = FALSE]
               \/ run' = [run EXCEPT ![w].slots = @ - 1]
        PROVE  run'[w].job = run[w].job /\ run'[w].lost = run[w].lost
    BY <1>1, <2>3 DEF RunState
  <2>4. run'[w].job = run[w].job /\ run'[w].lost = run[w].lost
    BY <1>3, <2>1, <2>2, <2>3
  <2> QED
    BY <1>2, <2>4 DEF ComesOut, GoesOnAsBefore
<1>4. CASE (\E pc : Goto(w, pc)) \/ Raise(w)
  BY <1>2, <1>4, GoesOnMoving
<1>5. CASE RequeueIncomplete(w)
  <2>1. run[w].job \in Job
    BY ExecutionIsBusy DEF Executes
  <2> QED
    BY <1>5, <2>1, EndsReleasing
<1>6. \/ RequeueIncomplete(w) \/ Raise(w)
      \/ \E pc : Goto(w, pc)
      \/ run' = [run EXCEPT ![w].pc = "batch", ![w].slots = Concurrency, ![w].got = FALSE]
      \/ \E i \in Item : run' = [run EXCEPT ![w].slots = @ - 1, ![w].pages[i] = @ + 1]
      \/ run' = [run EXCEPT ![w].slots = @ - 1]
      \/ \E i \in Item : PageHandled(w, i)
  BY DEF ProcessPages, BeginStagedSync, LoopHead, ClaimNextItem, ClaimNoItem, CompleteItem,
         FailItem, BatchRefused, EndBatch, PromoteDuplicateFallbacks, LoopRefused
<1> QED
  BY <1>3, <1>4, <1>5, <1>6

LEMMA ExecutionComesOut ==
    ASSUME TypeInv, NEW w \in Worker, Executes(w)
    PROVE  ComesOut(w)
<1>1. /\ run[w].job \in Job /\ run[w] \in RunState /\ run \in [Worker -> RunState]
      /\ budget \in [interruptions : 0..MaxInterruptions, retries : 0..MaxRetries,
                     faults : 0..MaxFaults, pageFailures : 0..MaxPageFailures]
  BY ExecutionIsBusy DEF TypeInv, RunsTyped, BudgetTyped
<1>2. CASE Prepare(w)
  <2>1. UNCHANGED budget
    BY <1>2 DEF Prepare, AppendPreparedItem, ApplyDuplicatePolicy, YieldPreparation,
                FinishPreparation, PreparationRefused
  <2>2. CASE run' = [run EXCEPT ![w].worked = TRUE]
    BY <1>1, <2>1, <2>2 DEF ComesOut, GoesOnAsBefore, RunState
  <2> QED
    BY <1>1, <1>2, <2>1, <2>2, GoesOnMoving, EndsReleasing
       DEF Prepare, AppendPreparedItem, ApplyDuplicatePolicy, PreparationRefused
<1>3. CASE StopOrClean(w)
  BY <1>1, <1>3, GoesOnMoving, EndsReleasing, StoreFailEnds
     DEF StopOrClean, AbortInHandler, CancelAbort, CancelRefused, CleanupAbort, CleanupRefused,
         Raise
<1>4. CASE FinalizationRefused(w)
  <2>1. CASE Raise(w) \/ Goto(w, "storeFail")
    BY <1>4, <2>1, GoesOnMoving DEF FinalizationRefused, Raise
  <2>2. CASE Leave(w)
    <3>1. run'[w] = IdleRun
      BY <2>2, Arrives
    <3>2. UNCHANGED <<job, budget>>
      BY <1>4 DEF FinalizationRefused, Raise
    <3>3. run[w].pc \in {"finalize", "block"} => Goto(w, HandlerPc(run[w].job))
      BY <1>4 DEF FinalizationRefused, Raise, At
    <3>4. ~Holding(w) \/ Goto(w, HandlerPc(run[w].job))
      BY <1>4, <3>3 DEF FinalizationRefused, Raise, Holding, Holds
    <3>5. CASE Goto(w, HandlerPc(run[w].job))
      BY <3>2, <3>5, GoesOnMoving
    <3> QED
      BY <3>1, <3>2, <3>4, <3>5 DEF ComesOut, EndsInOrder
  <2> QED
    BY <1>4, <2>1, <2>2 DEF FinalizationRefused
<1>5. CASE StartFinalization(w)
  <2>1. run'[w].job = run[w].job /\ run'[w].lost = run[w].lost
    BY <1>1, <1>5 DEF StartFinalization, RunState
  <2> QED
    BY <1>5, <2>1 DEF StartFinalization, ComesOut, GoesOnAsBefore
<1>6. CASE Finalize(w)
  BY <1>1, <1>4, <1>5, <1>6, GoesOnMoving, EndsReleasing
     DEF Finalize, Inventory, PublishStagedSync, PublishRaises
<1>7. CASE LeaveLost(w)
  <2>1. run'[w] = IdleRun
    BY <1>7, Arrives DEF LeaveLost
  <2> QED
    BY <1>7, <2>1 DEF LeaveLost, ComesOut, EndsInOrder
<1>8. CASE HeartbeatStops(w) \/ Crash(w)
  BY <1>1, <1>8 DEF HeartbeatStops, Crash, ComesOut, IsInterrupted
<1>9. CASE FinalizationTimeout(w)
  <2>1. run'[w].job = run[w].job /\ run'[w].lost = run[w].lost
    BY <1>1, <1>9 DEF FinalizationTimeout, RunState
  <2> QED
    BY <1>9, <2>1 DEF FinalizationTimeout, ComesOut, GoesOnAsBefore
<1>10. CASE Fault(w)
  <2>1. budget'.interruptions = budget.interruptions /\ UNCHANGED job
    BY <1>1, <1>10 DEF Fault
  <2>2. CASE \E pc : Goto(w, pc)
    BY <2>1, <2>2, GoesOnMoving
  <2>3. CASE Leave(w) /\ At(w, "record") /\ run[w].job \in Production
    <3>1. run'[w] = IdleRun /\ MayFail(run[w].job)
      BY <1>10, <2>3, Arrives DEF Fault
    <3> QED
      BY <2>1, <2>3, <3>1 DEF ComesOut, EndsInOrder
  <2> QED
    BY <1>10, <2>2, <2>3 DEF Fault
<1> QED
  BY <1>2, <1>3, <1>6, <1>7, <1>8, <1>9, <1>10, BatchComesOut DEF Executes, Disturbance

\* A run keeps renewing the lease of its job through a step that keeps it.
LEMMA KeepsRenewing ==
    ASSUME TypeInv, NEW w \in Worker, NEW j \in Job, run[w].job = j,
           \A v \in Worker \ {w} : run'[v] = run[v],
           job'[j].owner = job[j].owner, Renewing(j),
           GoesOnAsBefore(w) \/ run[w].lost \/ job[j].owner # w
    PROVE  Renewing(j)'
<1>1. PICK v \in Worker : run[v].job = j /\ job[j].owner = v /\ ~run[v].lost
  BY DEF Renewing
<1>2. run'[v].job = j /\ ~run'[v].lost
  BY <1>1 DEF GoesOnAsBefore
<1> QED
  BY <1>1, <1>2 DEF Renewing

LEMMA OwnFails ==
    ASSUME OnTime, TypeInv, ClaimInv, LiveInv, FailInv, [Next]_vars, NEW w \in Worker, Executes(w)
    PROVE  \A j \in Job : run[w].job = j => FailRow(job'[j], Renewing(j)', budget'.interruptions)
<1> SUFFICES ASSUME NEW j \in Job, run[w].job = j
             PROVE  FailRow(job'[j], Renewing(j)', budget'.interruptions)
  OBVIOUS
<1> DEFINE r == job[j]
           q == job'[j]
           a == Renewing(j)
           b == Renewing(j)'
           n == budget.interruptions
           m == budget'.interruptions
<1>1. /\ r \in JobRow /\ q \in JobRow /\ n \in Nat /\ m \in Nat /\ FailRow(r, a, n)
      /\ a \in BOOLEAN /\ b \in BOOLEAN
  BY NextTyped, CountsInterruptions DEF TypeInv, JobsTyped, FailInv, Renewing
<1>2. /\ ComesOut(w) /\ RowMoves(w) /\ \A v \in Worker \ {w} : run'[v] = run[v]
      /\ ~At(w, "idle")
  BY ExecutionComesOut, ExecutionRow, OtherRunsStay, ExecutionIsBusy
<1>3. m \in {n, n + 1} /\ n <= m
  BY <1>1, <1>2 DEF ComesOut, GoesOnAsBefore, IsInterrupted, EndsInOrder
<1>4. \/ q.status = r.status /\ q.failures = r.failures /\ q.owner = r.owner /\ q.lease = r.lease
      \/ /\ q.failures \in {0, r.failures} /\ q.lease = "none"
         /\ q.status # "cleanup_pending"
  <2>1. CASE KeepsRow(w, q, r)
    BY <2>1 DEF KeepsRow, SameRow, SamePlan, Elects, StartsFinal
  <2>2. CASE EndsRow(w, j, q, r)
    BY <1>1, <2>2 DEF EndsRow, Frees, Returns, Blocks, Ends, Ended, Freed, SamePlan, FailRow
  <2> QED
    BY <1>2, <2>1, <2>2 DEF RowMoves
<1>5. ASSUME UNCHANGED job, At(w, "record"), j \in Production, MayFail(j) PROVE FALSE
  <2>1. LiveRun(w, j)
    BY <1>5 DEF LiveInv
  <2> QED
    BY <1>5, <2>1 DEF LiveRun, At, MayFail, OnTime
<1>6. ASSUME a, q.status \in {"preparing", "running"}, q.lease # "none" PROVE b \/ n < m
  <2>1. q.status = r.status /\ q.owner = r.owner
    BY <1>4, <1>6
  <2>2. CASE IsInterrupted(w)
    BY <1>1, <2>2 DEF IsInterrupted
  <2>3. CASE GoesOnAsBefore(w)
    BY <1>2, <1>6, <2>1, <2>3, KeepsRenewing
  <2>4. CASE EndsInOrder(w)
    <3>1. run[w].lost \/ ~Holding(w)
      BY <1>5, <1>6, <2>4 DEF EndsInOrder
    <3>2. ~Holding(w) => r.owner # w
      BY <1>6, <2>1 DEF Holding, Holds
    <3> QED
      BY <1>2, <1>6, <2>1, <3>1, <3>2, KeepsRenewing
  <2> QED
    BY <1>2, <2>2, <2>3, <2>4 DEF ComesOut
<1> HIDE DEF r, q, a, b, n, m
<1>7. FailRow(q, b, m)
  BY <1>1, <1>3, <1>4, <1>6 DEF FailRow, JobRow
<1> QED
  BY <1>7 DEF q, b, m

\* A job that is not the one of the step.
LEMMA OtherFails ==
    ASSUME TypeInv, FailInv, [Next]_vars, NEW w \in Worker, Executes(w), NEW j \in Job,
           run[w].job # j
    PROVE  FailRow(job'[j], Renewing(j)', budget'.interruptions)
<1>1. job'[j] = job[j] /\ \A v \in Worker \ {w} : run'[v] = run[v]
  BY OtherJobsStay, OtherRunsStay
<1>2. Renewing(j) => Renewing(j)'
  <2> SUFFICES ASSUME Renewing(j) PROVE Renewing(j)'
    OBVIOUS
  <2>1. PICK v \in Worker : run[v].job = j /\ job[j].owner = v /\ ~run[v].lost
    BY DEF Renewing
  <2> QED
    BY <1>1, <2>1 DEF Renewing
<1>3. budget.interruptions <= budget'.interruptions
  BY CountsInterruptions, ExecutionComesOut
     DEF ComesOut, GoesOnAsBefore, IsInterrupted, EndsInOrder
<1> DEFINE a == Renewing(j)
           b == Renewing(j)'
<1>4. /\ FailRow(job[j], a, budget.interruptions) /\ job[j] \in JobRow
      /\ a \in BOOLEAN /\ b \in BOOLEAN
  BY DEF FailInv, TypeInv, JobsTyped, Renewing
<1>5. a => b
  BY <1>2
<1> HIDE DEF a, b
<1>6. FailRow(job'[j], b, budget'.interruptions)
  BY <1>1, <1>3, <1>4, <1>5, FailRowStays, CountsInterruptions
<1> QED
  BY <1>6 DEF b

LEMMA ClaimFails ==
    ASSUME Enough, TypeInv, ClaimInv, FailInv, [Next]_vars, NEW w \in Worker, Claim(w), NEW j \in Job
    PROVE  FailRow(job'[j], Renewing(j)', budget'.interruptions)
<1> DEFINE r == job[j]
           q == job'[j]
           a == Renewing(j)
           b == Renewing(j)'
           n == budget.interruptions
<1>1. /\ r \in JobRow /\ q \in JobRow /\ n \in Nat /\ FailRow(r, a, n)
      /\ a \in BOOLEAN /\ b \in BOOLEAN /\ budget'.interruptions = n
  BY NextTyped, CountsInterruptions, ClaimRow DEF TypeInv, JobsTyped, FailInv, Renewing
<1>2. Swept(j) = r
  BY NobodyIsExhausted
<1>3. At(w, "idle")
  BY DEF Claim, ClaimNext, ClaimNothing
<1>4. \A v \in Worker \ {w} : run'[v] = run[v]
  BY DEF Claim, ClaimNext, ClaimNothing, TypeInv, RunsTyped
<1>5. run[w].job # j
  BY <1>3, IdleRunIsIdle, ConstantsAssumption DEF ClaimInv, Drives, At
<1>6. CASE ~ClaimNext(w, j)
  <2>1. q = r
    BY <1>2, <1>6, ClaimRow
  <2>2. a => b
    <3> SUFFICES ASSUME a PROVE b
      OBVIOUS
    <3>1. PICK v \in Worker : run[v].job = j /\ job[j].owner = v /\ ~run[v].lost
      BY DEF Renewing
    <3> QED
      BY <1>4, <1>5, <2>1, <3>1 DEF Renewing
  <2> HIDE DEF r, q, a, b, n
  <2>3. FailRow(q, b, n)
    BY <1>1, <2>1, <2>2, FailRowStays
  <2> QED
    BY <1>1, <2>3 DEF q, b, n
<1>7. CASE ClaimNext(w, j)
  <2>1. q = Claimed(r, w)
    BY <1>2, <1>7 DEF ClaimNext
  <2>2. /\ q.status = IF r.status \in {"preparing", "cleanup_pending"} THEN r.status ELSE "running"
        /\ q.owner = w
        /\ q.failures = IF r.status \in {"preparing", "running"} /\ r.lease = "expired"
                        THEN r.failures + 1 ELSE r.failures
    BY <1>1, <2>1, ClaimedRow DEF Mine
  <2>3. b
    <3>1. PICK pc : run' = [run EXCEPT ![w] = [IdleRun EXCEPT !.pc = pc, !.job = j]]
      BY <1>7 DEF ClaimNext
    <3>2. run'[w].job = j /\ ~run'[w].lost
      BY <3>1 DEF IdleRun, TypeInv, RunsTyped
    <3> QED
      BY <2>2, <3>2 DEF Renewing
  <2>4. r.status \in {"preparing", "running"} /\ r.lease = "expired" => ~a
    BY RenewedIsLive DEF Stopped
  <2> HIDE DEF r, q, a, b, n
  <2>5. FailRow(q, b, n)
    BY <1>1, <2>2, <2>3, <2>4 DEF FailRow, JobRow
  <2> QED
    BY <1>1, <2>5 DEF q, b, n
<1> QED
  BY <1>6, <1>7

\* A command or the clock.
LEMMA QuietFails ==
    ASSUME TypeInv, WaitingJobsAreUnleased, FailInv, [Next]_vars,
           Operator \/ TimePasses \/ UNCHANGED vars, NEW j \in Job
    PROVE  FailRow(job'[j], Renewing(j)', budget'.interruptions)
<1> DEFINE r == job[j]
           q == job'[j]
           a == Renewing(j)
           b == Renewing(j)'
           n == budget.interruptions
<1>1. /\ r \in JobRow /\ q \in JobRow /\ n \in Nat /\ FailRow(r, a, n)
      /\ a \in BOOLEAN /\ b \in BOOLEAN
  BY NextTyped, CountsInterruptions DEF TypeInv, JobsTyped, FailInv, Renewing
<1>2. UNCHANGED run /\ budget'.interruptions = n
  BY OperatorRow, TimeRow DEF vars
<1>3. q.owner = r.owner => (a => b)
  BY <1>2 DEF Renewing
<1>4. \/ /\ q.status = r.status /\ q.failures = r.failures /\ q.owner = r.owner
         /\ q.lease = "none" <=> r.lease = "none"
      \/ /\ q.failures \in {0, r.failures} /\ q.status # "cleanup_pending"
         /\ q.status \notin {"preparing", "running"} \/ q.lease = "none"
  <2>1. CASE q = r
    BY <2>1
  <2>2. CASE TimePasses
    BY <2>2, TimeRow DEF SameRow, SamePlan, LeaseExpires
  <2>3. CASE OperatorMoves(j)
    <3>1. r.status = "absent" => r.lease = "none"
      BY DEF WaitingJobsAreUnleased
    <3> QED
      BY <2>3, <3>1 DEF OperatorMoves, Enqueues, Cancels, Marks, Reopens
  <2> QED
    BY <2>1, <2>2, <2>3, OperatorRow DEF vars
<1> HIDE DEF r, q, a, b, n
<1>5. FailRow(q, b, n)
  BY <1>1, <1>3, <1>4, FailRowStays, FailRowRests
<1> QED
  BY <1>2, <1>5 DEF q, b, n

LEMMA NextKeepsFailures ==
    ASSUME Enough, OnTime, TypeInv, WaitingJobsAreUnleased, ClaimInv, LiveInv, FailInv, [Next]_vars
    PROVE  FailInv'
<1> SUFFICES ASSUME NEW j \in Job
             PROVE  FailRow(job'[j], Renewing(j)', budget'.interruptions)
  BY DEF FailInv
<1> QED
  BY OwnFails, OtherFails, ClaimFails, QuietFails DEF Next, WorkerStep, Executes

\* A shadow job never shows anything to a visitor.
ShadowsStayDark == \A j \in Job \ Production : snapshot[j] # "active"

LEMMA NextKeepsShadowsDark ==
    ASSUME TypeInv, FinalInv, ShadowsStayDark, [Next]_vars
    PROVE  ShadowsStayDark'
<1> SUFFICES ASSUME NEW j \in Job \ Production, snapshot'[j] = "active" PROVE FALSE
  BY DEF ShadowsStayDark
<1>1. PICK w \in Worker : PublishStagedSync(w) /\ run[w].job = j
  BY GoesLive DEF ShadowsStayDark
<1>2. FinalRun(w, j) /\ run[w].pc = "publish"
  BY <1>1 DEF FinalInv, PublishStagedSync, At
<1> QED
  BY <1>2 DEF FinalRun

NothingGivenUp == Base /\ LiveInv /\ FailInv /\ ShadowsStayDark

LEMMA FailuresHold ==
    Prompt /\ OnTime /\ NoFamilies /\ Enough => (Spec => []NothingGivenUp)
<1> SUFFICES ASSUME Prompt, OnTime, NoFamilies, Enough PROVE Spec => []NothingGivenUp
  OBVIOUS
<1>1. Init => FailInv /\ ShadowsStayDark
  <2> SUFFICES ASSUME Init PROVE FailInv /\ ShadowsStayDark
    OBVIOUS
  <2>1. \A j \in Job : job[j] = NoRow /\ snapshot[j] = "absent"
    BY DEF Init
  <2>2. budget.interruptions = 0 /\ NoRow.status = "absent" /\ NoRow.failures = 0
    BY DEF Init, NoRow
  <2> QED
    BY <2>1, <2>2 DEF FailInv, FailRow, ShadowsStayDark
<1>2. Base /\ LiveInv /\ FailInv /\ ShadowsStayDark /\ [Next]_vars => (FailInv /\ ShadowsStayDark)'
  BY NextKeepsFailures, NextKeepsShadowsDark DEF Base
<1>3. Spec => [](Base /\ LiveInv)
  BY LivesHold
<1>4. Base /\ LiveInv /\ FailInv /\ ShadowsStayDark => NothingGivenUp
  BY DEF NothingGivenUp
<1> QED
  BY <1>1, <1>2, <1>3, <1>4, PTL DEF Spec

LEMMA LiveStaysLive ==
    ASSUME NothingGivenUp, [Next]_vars, NEW j \in Job, snapshot[j] = "active"
    PROVE  snapshot'[j] \in {"active", "superseded"}
<1>1. /\ j \in Production /\ LiveRow(j) /\ job[j].status \in {"succeeded", "running"}
      /\ \A w \in Worker : run[w].job = j => LiveRun(w, j)
  <2>1. j \in Production
    BY DEF NothingGivenUp, ShadowsStayDark
  <2>2. LiveRow(j) /\ job[j].status # "cleanup_pending"
    BY <2>1 DEF NothingGivenUp, LiveInv, FailInv, FailRow
  <2> QED
    BY <2>1, <2>2 DEF LiveRow, LiveRowAs, NothingGivenUp, LiveInv
<1>2. CASE UNCHANGED snapshot
  BY <1>2
<1>3. ASSUME NEW w \in Worker, Executes(w), run[w].job # j
      PROVE  snapshot'[j] \in {"active", "superseded"}
  BY <1>3, OtherJobsStay DEF PublishStagedSync, NothingGivenUp, Base, TypeInv, SnapshotsTyped
<1>4. ASSUME NEW w \in Worker, Executes(w), run[w].job = j
      PROVE  snapshot'[j] \in {"active", "superseded"}
  <2>1. SnapshotMoves(w, j)
    BY <1>4, ExecutedSnapshot DEF NothingGivenUp, Base
  <2>2. run[w].pc \notin {"abort", "cancelAbort", "cleanupAbort"}
    <3>1. ~At(w, "idle")
      BY <1>4, ExecutionIsBusy DEF NothingGivenUp, Base
    <3>2. run[w].pc = "cleanupAbort" => job[j].status \in Stopped
      BY <1>4, <3>1, DriverStatus DEF NothingGivenUp, Base, CleaningPc
    <3>3. run[w].pc \in {"abort", "cancelAbort"} => job[j].status = "running"
      BY <1>4, <3>1, DriverStatus, PcSorts DEF NothingGivenUp, Base
    <3>4. run[w].pc \in {"abort", "cancelAbort"} => run[w].pc \in LivePc
      BY <1>1, <1>4, <3>3 DEF LiveRun
    <3> QED
      BY <1>1, <3>2, <3>4 DEF Stopped, LivePc
  <2> QED
    BY <2>1, <2>2 DEF SnapshotMoves
<1> QED
  BY <1>2, <1>3, <1>4, OperatorRow, TimeRow, ClaimRow
     DEF Next, vars, WorkerStep, Executes, NothingGivenUp, Base

\* What visitors are served is replaced by a later publication or stays, whatever
\* else happens, under the hypotheses of PublicationStatusIsReliable and as long
\* as there are no more crashes and lost heartbeats than a job has attempts.
THEOREM PublishedStaysLive ==
    Prompt /\ OnTime /\ NoFamilies /\ Enough => (Spec => PublishedIsNeverDiscarded)
<1> SUFFICES ASSUME Prompt, OnTime, NoFamilies, Enough PROVE Spec => PublishedIsNeverDiscarded
  OBVIOUS
<1>1. NothingGivenUp /\ [Next]_vars
         => [\A j \in Job : snapshot[j] = "active" => snapshot'[j] \in {"active", "superseded"}]_vars
  BY LiveStaysLive
<1>2. Spec => []NothingGivenUp
  BY FailuresHold
<1> QED
  BY <1>1, <1>2, PTL DEF Spec, PublishedIsNeverDiscarded
=============================================================================
