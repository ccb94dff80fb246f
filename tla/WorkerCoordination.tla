------------------------ MODULE WorkerCoordination ------------------------
(***************************************************************************)
(* One website synchronization worker process: the coordinator that gives  *)
(* the active tenants turns, and the page capacity their turns share.      *)
(*                                                                         *)
(* The coordinator is a loop of ticks. A tick discovers the tenants, or    *)
(* reuses the last discovery, cancels the runs of tenants that are gone,   *)
(* rotates its queue to find tenants that are ready, starts their runs,    *)
(* waits, and reaps the runs that ended. A run asks for page slots, one    *)
(* for each page of a batch, and gives each back when its page is done.    *)
(* Steps between two awaits are one action.                                *)
(*                                                                         *)
(* Abstracted: what a run does with a page (WebSyncJob), the lengths of    *)
(* delays, and a discovery that fails: its tick starts and reaps nothing.  *)
(***************************************************************************)
EXTENDS Integers, FiniteSets

CONSTANTS
  TenantCount,       \* the tenants are numbered in the order of their ids
  MaxActiveTenants,  \* runs at the same time
  PageSlots,         \* pages at the same time, over all tenants
  Concurrency,       \* pages one batch asks for
  Quantum            \* batches of one turn

ASSUME BoundsArePositive ==
  /\ TenantCount \in Nat \ {0}
  /\ MaxActiveTenants \in Nat \ {0} /\ PageSlots \in Nat \ {0}
  /\ Concurrency \in 1..PageSlots /\ Quantum \in Nat \ {0}

VARIABLES
  catalog,   \* the tenants that are active in the control plane
  cached,    \* the tenants of the last discovery
  queue,     \* the round-robin queue of the coordinator, a line of tenants
  resting,   \* tenants whose next poll lies in the future
  phase,     \* is the coordinator about to tick, or waiting for its runs?
  task,      \* the run of each tenant
  batches,   \* batches left in the turn of each tenant
  line,      \* the pages waiting for a slot, first come first served
  held,      \* the pages that hold a slot
  hung,      \* those of them that never end
  free       \* the value of the page semaphore

coordinator == <<cached, queue, resting, phase>>
pages == <<line, held, hung, free>>
vars == <<catalog, cached, queue, resting, phase, task, batches,
          line, held, hung, free>>

Tenant == 1..TenantCount

\* A line is the set of its pairs <<x, y>> where x is not behind y.
Members(l) == {e[1] : e \in l}
IsLine(l) ==
  /\ l \subseteq Members(l) \X Members(l)
  /\ \A x, y \in Members(l) : <<x, y>> \in l \/ <<y, x>> \in l
  /\ \A x, y \in Members(l) : <<x, y>> \in l /\ <<y, x>> \in l => x = y
  /\ \A x, y, z \in Members(l) : <<x, y>> \in l /\ <<y, z>> \in l => <<x, z>> \in l

\* The members of S, in their order.
Part(l, S) == l \cap (S \X S)

\* One line behind another.
Followed(l, m) == l \cup m \cup (Members(l) \X Members(m))

\* The pages of a batch, told apart by their number.
PagesOf(t) == {t} \X (1..Concurrency)
Page == Tenant \X (1..Concurrency)

Running == {t \in Tenant : task[t] = "running"}
Active == {t \in Tenant : task[t] # "none"}
Waiting(t) == PagesOf(t) \cap Members(line)

TypeOK ==
  /\ catalog \subseteq Tenant /\ cached \subseteq Tenant
  /\ IsLine(queue) /\ Members(queue) = cached
  /\ resting \subseteq cached
  /\ phase \in {"tick", "wait"}
  /\ task \in [Tenant -> {"none", "running", "progress", "idle"}]
  /\ batches \in [Tenant -> 0..Quantum]
  /\ IsLine(line) /\ Members(line) \subseteq Page
  /\ held \subseteq Page /\ hung \subseteq held
  /\ free \in 0..PageSlots

Init ==
  /\ catalog = Tenant
  /\ cached = {} /\ queue = {} /\ resting = {} /\ phase = "tick"
  /\ task = [t \in Tenant |-> "none"]
  /\ batches = [t \in Tenant |-> 0]
  /\ line = {}
  /\ held = {} /\ hung = {}
  /\ free = PageSlots

-----------------------------------------------------------------------------
(* The coordinator                                                         *)

\* Mutant: a page that is cut off keeps its slot.
StopPages_Leaking(stopped) ==
  LET mine == stopped \X (1..Concurrency) IN
  /\ line' = Part(line, Page \ mine)
  /\ held' = held \ mine /\ hung' = hung \ mine
  /\ free' = free

\* The runs of some tenants end at once: their pages give back the slots they
\* hold and leave the line.
StopPages(stopped) ==
  LET mine == stopped \X (1..Concurrency) IN
  /\ line' = Part(line, Page \ mine)
  /\ held' = held \ mine /\ hung' = hung \ mine
  /\ free' = free + Cardinality(held \cap mine)

\* Mutant: who is gone stays in the queue.
Reconciled_Keeping(tenants) ==
  LET new == tenants \ Members(queue)
  IN Followed(queue, {e \in new \X new : e[1] <= e[2]})

\* Mutant: who is new joins at the front.
Reconciled_Newest(tenants) ==
  LET new == tenants \ Members(queue)
  IN Followed({e \in new \X new : e[1] <= e[2]}, Part(queue, tenants))

\* _reconcile_queue: who is gone leaves the queue, who is new joins at its end.
Reconciled(tenants) ==
  LET new == tenants \ Members(queue)
  IN Followed(Part(queue, tenants), {e \in new \X new : e[1] <= e[2]})

\* _select_ready_tenants: the queue is turned until as many ready tenants went
\* past as may start, or everybody did.
Ready(q, running) == (Members(q) \ running) \ resting
Passed(q, limit, running) ==
  {t \in Members(q) : Cardinality({u \in Ready(q, running) \ {t} : <<u, t>> \in q}) < limit}

\* Mutant: the queue is searched from its front every time.
Rotated_Never(q, passed) == q

Rotated(q, passed) == Followed(Part(q, Members(q) \ passed), Part(q, passed))

\* A tick up to its wait: cancel, reconcile, select and start.
Tick(tenants) ==
  LET gone == Active \ tenants
      running == Active \ gone
  IN /\ phase = "tick"
     /\ UNCHANGED catalog
     /\ cached' = tenants
     /\ resting' = resting \cap tenants
     /\ StopPages(gone)
     /\ \E q \in {Reconciled(tenants)} :
        \E passed \in {Passed(q, MaxActiveTenants - Cardinality(running), running)} :
          LET selected == passed \cap Ready(q, running)
          IN /\ queue' = Rotated(q, passed)
             /\ task' = [t \in Tenant |-> IF t \in selected THEN "running"
                                          ELSE IF t \in gone THEN "none" ELSE task[t]]
             /\ batches' = [t \in Tenant |-> IF t \in selected THEN Quantum
                                             ELSE IF t \in gone THEN 0 ELSE batches[t]]
             /\ phase' = IF selected = {} /\ running = {} THEN "tick" ELSE "wait"

Discover == Tick(catalog)

\* Within the discovery interval the last discovery is reused.
ReuseDiscovery == Tick(cached)

\* The wait is over: a run that made progress may go again at once, an idle
\* or failed one rests first.
Reap ==
  LET idle == {t \in Tenant : task[t] = "idle"} IN
  /\ phase = "wait"
  /\ phase' = "tick"
  /\ resting' = resting \cup (idle \cap cached)
  /\ task' = [t \in Tenant |-> IF t \in Running THEN "running" ELSE "none"]
  /\ UNCHANGED <<catalog, cached, queue, batches, pages>>

RestEnds(t) ==
  /\ t \in resting
  /\ resting' = resting \ {t}
  /\ UNCHANGED <<catalog, cached, queue, phase, task, batches, pages>>

-----------------------------------------------------------------------------
(* Runs and their pages                                                    *)

\* A batch starts when the one before it is through: each of its pages lines
\* up for a slot by itself.
StartBatch(t) ==
  /\ t \in Running /\ batches[t] > 0
  /\ held \cap PagesOf(t) = {} /\ Waiting(t) = {}
  /\ batches' = [batches EXCEPT ![t] = @ - 1]
  /\ line' = Followed(line, {e \in PagesOf(t) \X PagesOf(t) : e[1][2] <= e[2][2]})
  /\ UNCHANGED <<catalog, coordinator, task, held, hung, free>>

AcquirePage ==
  /\ free > 0
  /\ \E p \in Members(line) :
       /\ \A q \in Members(line) : <<p, q>> \in line
       /\ line' = Part(line, Members(line) \ {p})
       /\ held' = held \cup {p}
  /\ free' = free - 1
  /\ UNCHANGED <<catalog, coordinator, task, batches, hung>>

\* Mutant: the release of the batch counts again.
ReleasePage_Twice(p) ==
  /\ p \in held \ hung
  /\ held' = held \ {p}
  /\ free' = free + 2
  /\ UNCHANGED <<catalog, coordinator, task, batches, line, hung>>

\* A page ends, processed or with nothing to claim. Its lease is released by
\* the page and again by its batch: the second release does nothing.
ReleasePage(p) ==
  /\ p \in held \ hung
  /\ held' = held \ {p}
  /\ free' = free + 1
  /\ UNCHANGED <<catalog, coordinator, task, batches, line, hung>>

PageHangs(p) ==
  /\ p \in held \ hung
  /\ hung' = hung \cup {p}
  /\ UNCHANGED <<catalog, coordinator, task, batches, line, held, free>>

\* A run that found no job is idle, one that claimed a job made progress, with
\* or without a batch of pages.
RunEnds(t) ==
  /\ t \in Running /\ held \cap PagesOf(t) = {} /\ Waiting(t) = {}
  /\ \/ task' = [task EXCEPT ![t] = "progress"]
     \/ batches[t] = Quantum /\ task' = [task EXCEPT ![t] = "idle"]
  /\ batches' = [batches EXCEPT ![t] = 0]
  /\ UNCHANGED <<catalog, coordinator, pages>>

\* A run ends and takes the pages of its batch with it.
Ends(t, outcome) ==
  /\ t \in Running
  /\ task' = [task EXCEPT ![t] = outcome]
  /\ batches' = [batches EXCEPT ![t] = 0]
  /\ StopPages({t})
  /\ UNCHANGED <<catalog, coordinator>>

\* A page raises: the run fails its job and counts as progress.
BatchFails(t) == held \cap PagesOf(t) # {} /\ Ends(t, "progress")

\* The watchdog ends a run that takes too long, or the run itself raises.
CutOff(t) == Ends(t, "idle")

\* Tenants are activated and suspended in the control plane.
ChangeCatalog ==
  /\ \E t \in Tenant : catalog' = IF t \in catalog THEN catalog \ {t} ELSE catalog \cup {t}
  /\ UNCHANGED <<coordinator, task, batches, pages>>

-----------------------------------------------------------------------------
Next ==
  \/ Discover \/ ReuseDiscovery \/ Reap \/ AcquirePage \/ ChangeCatalog
  \/ \E t \in Tenant : RestEnds(t) \/ StartBatch(t) \/ RunEnds(t) \/ BatchFails(t) \/ CutOff(t)
  \/ \E p \in Page : ReleasePage(p) \/ PageHangs(p)

Spec == Init /\ [][Next]_vars

\* The loop ticks and reaps, delays end, the discovery interval ends, free
\* slots go to the line, a page that does not hang ends, and so does a run
\* whose batches are through. The watchdog has to end hung runs only.
Fairness ==
  /\ SF_vars(Discover) /\ WF_vars(Reap) /\ WF_vars(AcquirePage)
  /\ \A t \in Tenant :
       /\ WF_vars(RestEnds(t)) /\ WF_vars(StartBatch(t) \/ RunEnds(t))
       /\ WF_vars(\E p \in PagesOf(t) : ReleasePage(p))
       /\ WF_vars(hung \cap PagesOf(t) # {} /\ CutOff(t))

FairSpec == Spec /\ Fairness

-----------------------------------------------------------------------------
(* Properties                                                              *)

\* However runs end - through, cancelled with their tenant, or cut off by the
\* watchdog in the middle of a batch - no page slot is lost or given back
\* twice, no page waits for the slot it holds, only a tenant that runs has
\* pages, and no more tenants are at work than may be.
SlotsAreConserved ==
  /\ free + Cardinality(held) = PageSlots
  /\ held \cap Members(line) = {}
  /\ \A p \in held \cup Members(line) : p[1] \in Running
  /\ Cardinality(Active) <= MaxActiveTenants

\* A tenant that is due and known is never overtaken: a tick starts its run or
\* leaves only tenants in front of it that were there before, and fewer of
\* them whenever it starts anybody. That is what _select_ready_tenants turns its
\* queue for, and why newcomers join at the end.
InFront(l, x) == {y \in Members(l) \ {x} : <<y, x>> \in l}
Due(t) == t \in cached \ resting /\ task[t] = "none"
Starts(t) == task[t] # "running" /\ task'[t] = "running"

NobodyIsOvertaken ==
  [][\A t \in Tenant : Due(t) /\ t \in cached' /\ ~Starts(t) =>
       /\ InFront(queue', t) \subseteq InFront(queue, t)
       /\ (\E u \in Tenant : Starts(u)) => InFront(queue', t) # InFront(queue, t)]_vars

\* Every tenant that stays active is given turns again and again, however many
\* others are busy, whoever hangs, and however the slots are divided.
EveryTenantGetsTurns ==
  \A t \in Tenant : []<>(t \notin catalog \/ task[t] = "running")

\* Batches never wait for each other's slots for ever: a page in the line gets
\* its slot, or its run ends.
EveryPageGetsItsSlot ==
  \A t \in Tenant : []<>(Waiting(t) = {})
=============================================================================
