--------------------------- MODULE SitePublication ---------------------------
(***************************************************************************)
(* How one site switches from one publication to the next                  *)
(* (WebKnowledgeSyncService._switch_site_publication in                    *)
(* app/knowledge/web/sync_service.py) over three stores without a common   *)
(* transaction: the Qdrant points visitors are answered from, the document *)
(* versions and the product snapshots in PostgreSQL, and the site row      *)
(* whose state opens and closes the retrieval gate.  A switch that raises  *)
(* is rolled back store by store; one that is cut off (a crash, the        *)
(* finalization timeout) is not.                                           *)
(*                                                                         *)
(* A publication stages one new version and keeps versions of the live     *)
(* publication; the new version is named like the publication.  A site has *)
(* one unfinished job, whose lease gives it one run at a time (see         *)
(* WebSyncJob), so there is one run.  Each call to a store is one action,  *)
(* except the Qdrant activation, which is two requests.                    *)
(***************************************************************************)
EXTENDS Integers, FiniteSets

CONSTANTS
    Pub,
    NoPub,
    MaxFaults,    \* bound: store calls that raise without effect
    MaxCrashes,   \* bound: runs cut off between two steps
    MaxLostAcks,  \* bound: commits that take effect but raise
    LateAborts,   \* TRUE: a job may be aborted although its publication is live
    FailingResumes \* TRUE: the first reads of a resumed switch may raise

ASSUME PublicationAssumption ==
    /\ NoPub \notin Pub
    /\ IsFiniteSet(Pub)
    /\ MaxFaults \in Nat
    /\ MaxCrashes \in Nat
    /\ MaxLostAcks \in Nat
    /\ LateAborts \in BOOLEAN
    /\ FailingResumes \in BOOLEAN

VARIABLES
    job,       \* of each publication: none, open, aborting, ended or published
    target,    \* the versions a publication consists of (its manifest)
    site,      \* the publication columns of the site row
    points,    \* Qdrant: the versions with points, and those marked active
    versions,  \* PostgreSQL: the documents' current versions, and the discarded ones
    product,   \* the status of each publication's product snapshot
    run,       \* the local variables of the publishing or aborting call
    faults,
    crashes,
    lost

vars == <<job, target, site, points, versions, product, run, faults, crashes, lost>>

stores == <<site, points, versions, product>>
budgets == <<faults, crashes, lost>>

IdleRun ==
    [pc |-> "idle", pub |-> NoPub, origin |-> "none", prev |-> NoPub,
     product |-> NoPub, versions |-> {}, resumed |-> FALSE, ready |-> FALSE, failed |-> FALSE]

Init ==
    /\ job = [p \in Pub |-> "none"]
    /\ target = [p \in Pub |-> {}]
    /\ site = [state |-> "active", active |-> NoPub, pending |-> NoPub, origin |-> "none"]
    /\ points = [stored |-> {}, live |-> {}]
    /\ versions = [current |-> {}, discarded |-> {}]
    /\ product = [p \in Pub |-> "none"]
    /\ run = IdleRun
    /\ faults = 0 /\ crashes = 0 /\ lost = 0

At(pc) == run.pc = pc
Goto(pc) == run' = [run EXCEPT !.pc = pc]

-----------------------------------------------------------------------------
(* Staging *)

\* A job stages its snapshot: inactive points, a draft version that is not
\* current, a product snapshot.  Unchanged pages keep the version they have.
Stage(p, kept) ==
    /\ At("idle")
    /\ job[p] = "none"
    /\ \A q \in Pub : job[q] \notin {"open", "aborting"}
    /\ kept \subseteq {v \in versions.current : job[v] = "published"}
    /\ job' = [job EXCEPT ![p] = "open"]
    /\ target' = [target EXCEPT ![p] = {p} \union kept]
    /\ points' = [points EXCEPT !.stored = @ \union {p}]
    /\ product' = [product EXCEPT ![p] = "staging"]
    /\ UNCHANGED <<site, versions, run, budgets>>

\* A job whose draft was discarded by an abort that did not end it stages its
\* pages again, as a fresh draft; its product snapshot stays what it is.
Restage(p) ==
    /\ At("idle")
    /\ job[p] = "open"
    /\ p \in versions.discarded
    /\ points' = [points EXCEPT !.stored = @ \union {p}]
    /\ versions' = [versions EXCEPT !.discarded = @ \ {p}]
    /\ UNCHANGED <<job, target, site, product, run, budgets>>

-----------------------------------------------------------------------------
(* The switch *)

\* What validate_site_publication_versions accepts.
Publishable(p) ==
    \A v \in target[p] :
        \/ v = p /\ v \notin versions.discarded
        \/ v \in versions.current /\ job[v] = "published"

Origin_Current == site.state                                      \* mutant

\* The state a switch started from; a resumed one takes it from the site row.
Origin == IF site.state = "switching" THEN site.origin ELSE site.state

\* publish_staged_sync counts what was staged, then the site row is marked.  A
\* site that is switching already lets only the pending publication go on; a
\* refusal changes nothing.
BeginSwitch(p) ==
    /\ At("idle")
    /\ job[p] = "open"
    /\ Publishable(p)
    /\ p \in points.stored
    /\ site.state = "switching" => site.pending = p
    /\ run' = [IdleRun EXCEPT !.pc = "begun", !.pub = p, !.origin = Origin,
                              !.prev = site.active, !.resumed = site.state = "switching"]
    /\ site' = [site EXCEPT !.state = "switching", !.pending = p, !.origin = Origin]
    /\ UNCHANGED <<job, target, points, versions, product, budgets>>

ActiveProduct ==
    IF \E p \in Pub : product[p] = "active"
    THEN CHOOSE p \in Pub : product[p] = "active"
    ELSE NoPub

\* Reads what a rollback would have to restore.
LoadContext ==
    /\ At("begun")
    /\ run' = [run EXCEPT
            !.pc = "ready",
            !.ready = TRUE,
            !.versions = IF run.prev # NoPub THEN target[run.prev]
                         ELSE IF run.origin = "active" THEN versions.current ELSE {},
            !.product = IF run.prev # NoPub THEN run.prev
                        ELSE IF run.origin = "active" THEN ActiveProduct ELSE NoPub]
    /\ UNCHANGED <<job, target, stores, budgets>>

\* Whether Qdrant holds the points PostgreSQL expects for the versions vs.
Indexed(vs) ==
    \/ vs = {}
    \/ /\ vs \intersect points.stored # {}
       /\ Cardinality(vs \intersect points.stored) = Cardinality(vs \ versions.discarded)

\* The two requests of activate_site_versions: the target is marked active,
\* then everything else inactive.
MarkActive(vs) == points' = [points EXCEPT !.live = @ \union (vs \intersect points.stored)]
MarkOthersInactive_Nothing(vs) == UNCHANGED points                \* mutant
MarkOthersInactive(vs) == points' = [points EXCEPT !.live = @ \intersect vs]

RaiseTarget ==
    /\ At("ready")
    /\ Indexed(target[run.pub])
    /\ MarkActive(target[run.pub])
    /\ Goto("raised")
    /\ UNCHANGED <<job, target, site, versions, product, budgets>>

LowerOthers ==
    /\ At("raised")
    /\ MarkOthersInactive(target[run.pub])
    /\ Goto("lowered")
    /\ UNCHANGED <<job, target, site, versions, product, budgets>>

\* What activate_site_versions, activate_snapshot and complete_site_publication_switch demand.
Committable(p) ==
    /\ target[p] \intersect versions.discarded = {}
    /\ product[p] \in {"staging", "active"}
    /\ \/ site.state = "switching" /\ site.pending = p
       \/ site.state = "active" /\ site.active = p /\ site.pending = NoPub

\* Every active product snapshot but that of p is superseded.
Superseded(p) ==
    [q \in Pub |-> IF product[q] = "active" /\ q # p THEN "superseded" ELSE product[q]]

\* One transaction over versions, product snapshot and site row.  If the
\* acknowledgement is lost, the caller rolls back what was committed.
Commit ==
    /\ At("lowered")
    /\ Committable(run.pub)
    /\ versions' = [versions EXCEPT !.current = target[run.pub]]
    /\ product' = [Superseded(run.pub) EXCEPT ![run.pub] = "active"]
    /\ site' = [state |-> "active", active |-> run.pub, pending |-> NoPub, origin |-> "none"]
    /\ \E acknowledged \in IF lost < MaxLostAcks THEN BOOLEAN ELSE {TRUE} :
          /\ lost' = IF acknowledged THEN lost ELSE lost + 1
          /\ Goto(IF acknowledged THEN "done" ELSE "rb_raise")
    /\ UNCHANGED <<job, target, points, faults, crashes>>

\* The job row becomes succeeded.  Bookkeeping that raises leaves the job to a
\* later claim, like CutOff.
Finish ==
    /\ At("done")
    /\ job' = [job EXCEPT ![run.pub] = "published"]
    /\ run' = IdleRun
    /\ UNCHANGED <<target, stores, budgets>>

-----------------------------------------------------------------------------
(* The rollback: each store is attempted, then the site row is released *)

RollbackRaise ==
    /\ At("rb_raise")
    /\ Indexed(run.versions)
    /\ MarkActive(run.versions)
    /\ Goto("rb_lower")
    /\ UNCHANGED <<job, target, site, versions, product, budgets>>

RollbackLower ==
    /\ At("rb_lower")
    /\ MarkOthersInactive(run.versions)
    /\ Goto("rb_versions")
    /\ UNCHANGED <<job, target, site, versions, product, budgets>>

RollbackVersions ==
    /\ At("rb_versions")
    /\ run.versions \intersect versions.discarded = {}
    /\ versions' = [versions EXCEPT !.current = run.versions]
    /\ Goto("rb_product")
    /\ UNCHANGED <<job, target, site, points, product, budgets>>

\* What restore_snapshot demands.
Restorable ==
    /\ run.product # run.pub
    /\ run.product # NoPub => product[run.product] \in {"active", "superseded"}

AfterStores_IgnoresErrors(failed) ==                              \* mutant
    IF run.origin # "active" THEN "recover" ELSE "restore"

\* Where _rollback_site_publication goes after the three stores.
AfterStores(failed) == IF failed \/ run.origin # "active" THEN "recover" ELSE "restore"

RollbackProduct ==
    /\ At("rb_product")
    /\ Restorable
    /\ product' = [q \in Pub |->
            IF q = run.product THEN "active"
            ELSE IF q = run.pub THEN "staging"
            ELSE Superseded(run.product)[q]]
    /\ Goto(AfterStores(run.failed))
    /\ UNCHANGED <<job, target, site, points, versions, budgets>>

\* The conditions under which restore_site_publication does not raise.
Releasable ==
    \/ site.state = "active" /\ site.active \in {run.prev, run.pub} /\ site.pending = NoPub
    \/ site.state # "active" /\ site.pending = run.pub

\* restore_site_publication: the gate opens on the previous publication.
RestoreSite ==
    /\ At("restore")
    /\ Releasable
    /\ site' = [state |-> "active", active |-> run.prev, pending |-> NoPub, origin |-> "none"]
    /\ run' = IdleRun
    /\ UNCHANGED <<job, target, points, versions, product, budgets>>

\* require_site_publication_recovery: the gate stays closed.
RequireRecovery ==
    /\ At("recover")
    /\ site.state = "active" \/ site.pending \in {NoPub, run.pub}
    /\ site' = [site EXCEPT !.state = "recovery_required", !.pending = run.pub,
                            !.origin = "none"]
    /\ run' = IdleRun
    /\ UNCHANGED <<job, target, points, versions, product, budgets>>

-----------------------------------------------------------------------------
(* Failing calls *)

\* Whether the store accepts the call the run makes next.
Accepted ==
    /\ At("ready") => Indexed(target[run.pub])
    /\ At("lowered") => Committable(run.pub)
    /\ At("rb_raise") => Indexed(run.versions)
    /\ At("rb_versions") => run.versions \intersect versions.discarded = {}
    /\ At("rb_product") => Restorable
    /\ At("restore") => Releasable
    /\ At("recover") => site.state = "active" \/ site.pending \in {NoPub, run.pub}
    /\ At("ab_product") => product[run.pub] # "active"

\* A call raises because the store refuses it, or because of a fault.
Raises ==
    /\ ~Accepted \/ faults < MaxFaults
    /\ faults' = IF Accepted THEN faults + 1 ELSE faults
    /\ UNCHANGED <<crashes, lost>>

\* Before the context is read nothing was switched; after, all stores are rolled back.
SwitchRaises ==
    /\ run.pc \in {"begun", "ready", "raised", "lowered"}
    /\ At("begun") /\ run.resumed => FailingResumes
    /\ Goto(IF run.ready THEN "rb_raise" ELSE AfterStores(FALSE))
    /\ Raises
    /\ UNCHANGED <<job, target, stores>>

\* The rollback goes on with the next store and remembers the error.
RollbackRaises ==
    /\ run.pc \in {"rb_raise", "rb_lower", "rb_versions", "rb_product"}
    /\ run' = [run EXCEPT
            !.failed = TRUE,
            !.pc = CASE run.pc \in {"rb_raise", "rb_lower"} -> "rb_versions"
                     [] run.pc = "rb_versions" -> "rb_product"
                     [] OTHER -> AfterStores(TRUE)]
    /\ Raises
    /\ UNCHANGED <<job, target, stores>>

\* A rollback that cannot release the site row asks (once more) for recovery; if
\* that fails too the site is left as it is, as after a switch without context.
ReleaseRaises ==
    /\ run.pc \in {"restore", "recover"}
    /\ run' = IF run.ready /\ ~run.failed
              THEN [run EXCEPT !.pc = "recover", !.failed = TRUE] ELSE IdleRun
    /\ Raises
    /\ UNCHANGED <<job, target, stores>>

-----------------------------------------------------------------------------
(* Aborting a job: canceled, failed, or its staging retention ended *)

\* A cancel or a cleanup is on the job row, and is tried again until it is
\* done; an abort by the exception handler of run_once is not.
BeginAbort(p) ==
    /\ At("idle")
    /\ job[p] \in {"open", "aborting"}
    /\ site.active # p \/ LateAborts
    /\ \E recorded \in {job[p], "aborting"} : job' = [job EXCEPT ![p] = recorded]
    /\ run' = [IdleRun EXCEPT !.pc = "ab_points", !.pub = p]
    /\ UNCHANGED <<target, stores, budgets>>

\* Only inactive points of the snapshot are deleted.
DiscardPoints ==
    /\ At("ab_points")
    /\ points' = [points EXCEPT !.stored = @ \ ({run.pub} \ points.live)]
    /\ Goto("ab_versions")
    /\ UNCHANGED <<job, target, site, versions, product, budgets>>

DiscardVersions_WholeManifest ==                                  \* mutant
    /\ At("ab_versions")
    /\ versions' = [current |-> versions.current \ target[run.pub],
                    discarded |-> versions.discarded \union target[run.pub]]
    /\ Goto("ab_product")
    /\ UNCHANGED <<job, target, site, points, product, budgets>>

DiscardVersions ==
    /\ At("ab_versions")
    /\ versions' = [current |-> versions.current \ {run.pub},
                    discarded |-> versions.discarded \union {run.pub}]
    /\ Goto("ab_product")
    /\ UNCHANGED <<job, target, site, points, product, budgets>>

FailProduct ==
    /\ At("ab_product")
    /\ product[run.pub] # "active"
    /\ product' = [product EXCEPT ![run.pub] = "failed"]
    /\ Goto("ab_job")
    /\ UNCHANGED <<job, target, site, points, versions, budgets>>

\* The job row fails or is canceled.
EndJob ==
    /\ At("ab_job")
    /\ job' = [job EXCEPT ![run.pub] = "ended"]
    /\ run' = IdleRun
    /\ UNCHANGED <<target, stores, budgets>>

\* The exception handler ends the job all the same, a cleanup is left to a
\* later claim; so is a job whose row cannot be written.
AbortRaises ==
    /\ run.pc \in {"ab_points", "ab_versions", "ab_product", "ab_job"}
    /\ \/ ~At("ab_job") /\ Goto("ab_job")
       \/ (At("ab_job") \/ job[run.pub] = "aborting") /\ run' = IdleRun
    /\ Raises
    /\ UNCHANGED <<job, target, stores>>

-----------------------------------------------------------------------------
\* A worker crash or the finalization timeout: no handler runs.
CutOff ==
    /\ ~At("idle")
    /\ crashes < MaxCrashes
    /\ crashes' = crashes + 1
    /\ run' = IdleRun
    /\ UNCHANGED <<job, target, stores, faults, lost>>

Switch ==
    \/ LoadContext \/ RaiseTarget \/ LowerOthers \/ Commit \/ Finish
    \/ SwitchRaises

Rollback ==
    \/ RollbackRaise \/ RollbackLower \/ RollbackVersions \/ RollbackProduct
    \/ RollbackRaises
    \/ RestoreSite \/ RequireRecovery \/ ReleaseRaises

Abort == DiscardPoints \/ DiscardVersions \/ FailProduct \/ EndJob \/ AbortRaises

Next ==
    \/ \E p \in Pub : \E kept \in SUBSET Pub : Stage(p, kept)
    \/ \E p \in Pub : Restage(p) \/ BeginSwitch(p) \/ BeginAbort(p)
    \/ Switch \/ Rollback \/ Abort
    \/ CutOff

Spec == Init /\ [][Next]_vars

\* A run goes on, and an unfinished job is claimed again.  Nothing forces an
\* abort to begin, a fault or a crash.
FairSpec ==
    /\ Spec
    /\ WF_vars(Switch \/ Rollback \/ Abort)
    /\ \A p \in Pub : WF_vars(BeginSwitch(p))
    /\ \A p \in Pub : WF_vars(job[p] = "aborting" /\ BeginAbort(p))

-----------------------------------------------------------------------------
(* Properties *)

SiteRow ==
    [state : {"active", "switching", "recovery_required"},
     active : Pub \union {NoPub},
     pending : Pub \union {NoPub},
     origin : {"none", "active", "recovery_required"}]

RunState ==
    [pc : {"idle", "begun", "ready", "raised", "lowered", "done",
           "rb_raise", "rb_lower", "rb_versions", "rb_product", "restore", "recover",
           "ab_points", "ab_versions", "ab_product", "ab_job"},
     pub : Pub \union {NoPub},
     origin : {"none", "active", "recovery_required"},
     prev : Pub \union {NoPub},
     product : Pub \union {NoPub},
     versions : SUBSET Pub,
     resumed : BOOLEAN, ready : BOOLEAN, failed : BOOLEAN]

TypeOK ==
    /\ job \in [Pub -> {"none", "open", "aborting", "ended", "published"}]
    /\ target \in [Pub -> SUBSET Pub]
    /\ site \in SiteRow
    /\ points \in [stored : SUBSET Pub, live : SUBSET Pub]
    /\ versions \in [current : SUBSET Pub, discarded : SUBSET Pub]
    /\ product \in [Pub -> {"none", "staging", "active", "superseded", "failed"}]
    /\ run \in RunState
    /\ faults \in 0..MaxFaults
    /\ crashes \in 0..MaxCrashes
    /\ lost \in 0..MaxLostAcks

\* The retrieval gate (publication_gate.py) admits searches.
GateOpen == site.state = "active"

\* The versions of the publication the site row names.
Shown == IF site.active = NoPub THEN {} ELSE target[site.active]

\* While the gate is open Qdrant, the document versions and the product
\* snapshots all show the publication the site row names: no switch, rollback,
\* abort or crash in between leaves a mixture that visitors can see
\* ("Prevent retrieval while a site's knowledge projection is being switched").
OpenGateShowsOnePublication ==
    GateOpen =>
        /\ points.live = Shown
        /\ versions.current = Shown
        /\ {p \in Pub : product[p] = "active"} = {site.active} \ {NoPub}

\* The last publication can always be shown again: no abort or rollback of a
\* later one takes its points, its versions or its product snapshot away, which
\* _rollback_site_publication and a later recovery rely on.
PreviousStaysRestorable ==
    site.active # NoPub =>
        /\ Shown \subseteq points.stored \ versions.discarded
        /\ product[site.active] \in {"active", "superseded"}

\* What a search can return, and what became of a job: an abort that is on the
\* job row is final from its start.
Answers == IF GateOpen THEN points.live ELSE {}
Fate == [p \in Pub |-> IF job[p] = "aborting" THEN "ended" ELSE job[p]]

Promise == INSTANCE AtomicPublication WITH
    open <- GateOpen,
    published <- site.active,
    answers <- Answers,
    manifest <- target,
    fate <- Fate

\* The switch implements an atomic publication: the gate reopens on what was
\* shown before or on the whole new publication, never on one given up
\* (_switch_site_publication and _rollback_site_publication).
ImplementsAtomicPublication == Promise!Spec

\* docs/web-knowledge-operations.md:474: "Worker termination leaves the previous
\* snapshot serving": a site that is switching does not stay closed for ever.
SwitchesEnd == site.state = "switching" ~> site.state # "switching"
=============================================================================
