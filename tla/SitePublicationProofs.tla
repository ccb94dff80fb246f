------------------------ MODULE SitePublicationProofs ------------------------
(***************************************************************************)
(* For any number of publications, faults and crashes: visitors see whole  *)
(* publications only, the previous one can always be restored, and the     *)
(* switch implements AtomicPublication.  Assumed, as in the run `switch`:  *)
(* no commit is lost and believed failed, no live publication is aborted,  *)
(* and a resumed switch can read its context.                              *)
(***************************************************************************)
EXTENDS SitePublication, TLAPS

Environment == MaxLostAcks = 0 /\ ~LateAborts /\ ~FailingResumes

\* Where a run holds the site row in the state switching.
Switching == {"begun", "ready", "raised", "lowered", "rb_raise", "rb_lower",
              "rb_versions", "rb_product", "restore", "recover"}
Rollbacks == {"rb_raise", "rb_lower", "rb_versions", "rb_product"}
Forward == {"ready", "raised", "lowered"}
Aborts == {"ab_points", "ab_versions", "ab_product", "ab_job"}

\* Jobs follow each other, and what is not live is only referred to by itself.
JobInv ==
    /\ \A p, q \in Pub :
          job[p] \in {"open", "aborting"} /\ job[q] \in {"open", "aborting"} => p = q
    /\ \A p \in Pub : job[p] = "none" => p \notin versions.discarded
    /\ \A p, v \in Pub : v \in target[p] /\ v # p => job[v] = "published"
    /\ \A p \in Pub : job[p] \in {"none", "aborting", "ended"} => site.active # p

\* What a run knows, and how far it got with its job.
RunInv ==
    /\ run.pc \in Switching =>
          /\ run.pub \in Pub /\ job[run.pub] = "open"
          /\ site.state = "switching" /\ site.pending = run.pub
          /\ run.prev = site.active
          /\ run.ready => run.versions = Shown /\ run.product = site.active
    /\ run.pc \in {"begun"} \union Forward =>
          target[run.pub] \subseteq points.stored \ versions.discarded
    /\ run.pc = "done" => run.pub \in Pub /\ job[run.pub] = "open" /\ site.active = run.pub
    /\ run.pc \in Aborts =>
          run.pub \in Pub /\ job[run.pub] \in {"open", "aborting"} /\ site.active # run.pub
    /\ run.pc = "begun" => ~run.ready
    /\ run.pc \in Forward \union Rollbacks => run.ready
    /\ run.pc \in {"begun", "rb_raise", "rb_lower"} \union Forward => ~run.failed

\* What Qdrant marks active while a run is under way.
PointsInv ==
    /\ run.pc = "begun" /\ ~run.resumed /\ run.origin = "active" => points.live = Shown
    /\ run.pc = "raised" => target[run.pub] \subseteq points.live
    /\ run.pc = "lowered" => points.live = target[run.pub]
    /\ run.pc = "rb_lower" => Shown \subseteq points.live
    /\ run.pc \in {"rb_versions", "rb_product"} /\ ~run.failed => points.live = Shown
    /\ run.pc = "restore" => points.live = Shown
    /\ GateOpen => points.live = Shown

\* The document versions and product snapshots always show the site's active
\* publication, and its artifacts exist.
StoresInv ==
    /\ versions.current = Shown
    /\ \A p \in Pub : product[p] = "active" <=> p = site.active
    /\ Shown \subseteq points.stored \ versions.discarded

SwitchInv == TypeOK /\ JobInv /\ RunInv /\ PointsInv /\ StoresInv

\* At most one product snapshot is active; it is of a publication.
LEMMA ActiveProductType ==
  ActiveProduct \in Pub \union {NoPub}
  BY DEF ActiveProduct

\* What the contextless fallback finds: nothing was ever published.
LEMMA NothingActive ==
  ASSUME StoresInv, site.active = NoPub
  PROVE  ActiveProduct = NoPub
  BY PublicationAssumption DEF StoresInv, ActiveProduct

\* A run that is under way has a publication.
HasPublication == run.pc # "idle" => run.pub \in Pub

-----------------------------------------------------------------------------
(* Every action preserves the types. *)

LEMMA StageType ==
  ASSUME NEW p \in Pub, NEW kept \in SUBSET Pub, TypeOK, Stage(p, kept)
  PROVE  TypeOK'
  BY PublicationAssumption DEF TypeOK, Stage, budgets

LEMMA RestageType ==
  ASSUME NEW p \in Pub, TypeOK, Restage(p)
  PROVE  TypeOK'
  BY DEF TypeOK, Restage, budgets

LEMMA BeginSwitchType ==
  ASSUME TypeOK, NEW p \in Pub, BeginSwitch(p)
  PROVE  TypeOK'
<1>1. Origin \in {"none", "active", "recovery_required"}
  BY DEF Origin, TypeOK, SiteRow
<1>2. site' \in SiteRow
  BY <1>1 DEF TypeOK, SiteRow, BeginSwitch
<1>3. run' = [pc |-> "begun", pub |-> p, origin |-> Origin, prev |-> site.active,
              product |-> NoPub, versions |-> {}, resumed |-> site.state = "switching",
              ready |-> FALSE, failed |-> FALSE]
  BY DEF BeginSwitch, IdleRun
<1>4. CASE site.state = "switching"
  <2>1. run'.resumed = TRUE
    BY <1>3, <1>4
  <2>2. run' \in RunState
    BY <1>1, <1>3, <2>1 DEF TypeOK, SiteRow, RunState
  <2> QED  BY <1>2, <2>2 DEF TypeOK, BeginSwitch, budgets
<1>5. CASE site.state # "switching"
  <2>1. run'.resumed = FALSE
    BY <1>3, <1>5
  <2>2. run' \in RunState
    BY <1>1, <1>3, <2>1 DEF TypeOK, SiteRow, RunState
  <2> QED  BY <1>2, <2>2 DEF TypeOK, BeginSwitch, budgets
<1> QED  BY <1>4, <1>5

LEMMA LoadContextType ==
  ASSUME TypeOK, LoadContext
  PROVE  TypeOK'
<1>1. \E vs \in SUBSET Pub, p \in Pub \union {NoPub} :
         run' = [run EXCEPT !.pc = "ready", !.ready = TRUE, !.versions = vs, !.product = p]
  <2>1. ASSUME run.prev # NoPub
        PROVE  target[run.prev] \in SUBSET Pub /\ run.prev \in Pub \union {NoPub}
    BY <2>1 DEF TypeOK, RunState
  <2>2. versions.current \in SUBSET Pub
    BY DEF TypeOK
  <2> QED  BY <2>1, <2>2, ActiveProductType DEF LoadContext
<1>2. PICK vs \in SUBSET Pub, p \in Pub \union {NoPub} :
         run' = [run EXCEPT !.pc = "ready", !.ready = TRUE, !.versions = vs, !.product = p]
  BY <1>1
<1>3. run' \in RunState
  BY <1>2 DEF TypeOK, RunState
<1> QED  BY <1>3 DEF TypeOK, RunState, LoadContext, stores, budgets

LEMMA RaiseTargetType ==
  ASSUME TypeOK, RaiseTarget
  PROVE  TypeOK'
  BY PublicationAssumption
  DEF TypeOK, RunState, RaiseTarget, MarkActive, Goto, budgets

LEMMA LowerOthersType ==
  ASSUME TypeOK, LowerOthers
  PROVE  TypeOK'
  BY PublicationAssumption
  DEF TypeOK, RunState, LowerOthers, MarkOthersInactive, Goto, budgets

LEMMA CommitType ==
  ASSUME TypeOK, Commit
  PROVE  TypeOK'
<1>1. run.pub \in Pub \union {NoPub} /\ target \in [Pub -> SUBSET Pub]
  BY DEF TypeOK, RunState
<1>2. product' \in [Pub -> {"none", "staging", "active", "superseded", "failed"}]
  BY DEF TypeOK, Commit, Superseded
<1>3. lost' \in 0..MaxLostAcks
  <2>1. PICK acknowledged \in IF lost < MaxLostAcks THEN BOOLEAN ELSE {TRUE} :
           lost' = IF acknowledged THEN lost ELSE lost + 1
    BY DEF Commit
  <2>2. CASE lost < MaxLostAcks
    <3>1. lost' = lost \/ lost' = lost + 1
      BY <2>1, <2>2
    <3> QED  BY <2>2, <3>1, PublicationAssumption DEF TypeOK
  <2>3. CASE ~(lost < MaxLostAcks)
    BY <2>1, <2>3 DEF TypeOK
  <2> QED  BY <2>2, <2>3
<1>4. PICK pc \in {"done", "rb_raise"} : run' = [run EXCEPT !.pc = pc]
  BY DEF Commit, Goto
<1>5. run' \in RunState
  BY <1>4 DEF TypeOK, RunState
<1>6. site' \in SiteRow
  BY <1>1 DEF SiteRow, Commit
<1> QED  BY <1>1, <1>2, <1>3, <1>5, <1>6 DEF TypeOK, Commit

LEMMA FinishType ==
  ASSUME TypeOK, Finish
  PROVE  TypeOK'
  BY PublicationAssumption
  DEF TypeOK, RunState, Finish, stores, budgets, IdleRun

LEMMA SwitchRaisesType ==
  ASSUME TypeOK, SwitchRaises
  PROVE  TypeOK'
  BY PublicationAssumption
  DEF TypeOK, RunState, SwitchRaises, AfterStores, Raises, Goto, stores

LEMMA RollbackRaiseType ==
  ASSUME TypeOK, RollbackRaise
  PROVE  TypeOK'
  BY PublicationAssumption
  DEF TypeOK, RunState, RollbackRaise, MarkActive, Goto, budgets

LEMMA RollbackLowerType ==
  ASSUME TypeOK, RollbackLower
  PROVE  TypeOK'
  BY PublicationAssumption
  DEF TypeOK, RunState, RollbackLower, MarkOthersInactive, Goto, budgets

LEMMA RollbackVersionsType ==
  ASSUME TypeOK, RollbackVersions
  PROVE  TypeOK'
  BY PublicationAssumption
  DEF TypeOK, RunState, RollbackVersions, Goto, budgets

LEMMA RollbackProductType ==
  ASSUME TypeOK, RollbackProduct
  PROVE  TypeOK'
  BY PublicationAssumption
  DEF TypeOK, RunState, RollbackProduct, AfterStores, Superseded, Goto, budgets

LEMMA RestoreSiteType ==
  ASSUME TypeOK, RestoreSite
  PROVE  TypeOK'
  BY PublicationAssumption
  DEF TypeOK, SiteRow, RunState, RestoreSite, budgets, IdleRun

LEMMA RequireRecoveryType ==
  ASSUME TypeOK, RequireRecovery
  PROVE  TypeOK'
  BY PublicationAssumption
  DEF TypeOK, SiteRow, RunState, RequireRecovery, budgets, IdleRun

LEMMA RollbackRaisesType ==
  ASSUME TypeOK, RollbackRaises
  PROVE  TypeOK'
<1>1. faults' \in 0..MaxFaults
  BY PublicationAssumption DEF TypeOK, RollbackRaises, Raises
<1>2. \E pc \in {"rb_versions", "rb_product", "recover"} :
         run' = [run EXCEPT !.failed = TRUE, !.pc = pc]
  BY DEF RollbackRaises, AfterStores
<1>3. PICK pc \in {"rb_versions", "rb_product", "recover"} :
         run' = [run EXCEPT !.failed = TRUE, !.pc = pc]
  BY <1>2
<1>4. run' \in RunState
  BY <1>3 DEF TypeOK, RunState
<1> QED  BY <1>1, <1>4 DEF TypeOK, RollbackRaises, Raises, stores

LEMMA ReleaseRaisesType ==
  ASSUME TypeOK, ReleaseRaises
  PROVE  TypeOK'
<1>1. faults' \in 0..MaxFaults
  BY PublicationAssumption DEF TypeOK, ReleaseRaises, Raises
<1>2. run' = [run EXCEPT !.pc = "recover", !.failed = TRUE] \/ run' = IdleRun
  BY DEF ReleaseRaises
<1>3. CASE run' = [run EXCEPT !.pc = "recover", !.failed = TRUE]
  <2>1. run' \in RunState
    BY <1>3 DEF TypeOK, RunState
  <2> QED  BY <1>1, <2>1 DEF TypeOK, ReleaseRaises, Raises, stores
<1>4. CASE run' = IdleRun
  <2>1. run' \in RunState
    BY <1>4 DEF RunState, IdleRun
  <2> QED  BY <1>1, <2>1 DEF TypeOK, ReleaseRaises, Raises, stores
<1> QED  BY <1>2, <1>3, <1>4

LEMMA BeginAbortType ==
  ASSUME NEW p \in Pub, TypeOK, BeginAbort(p)
  PROVE  TypeOK'
<1>1. job' \in [Pub -> {"none", "open", "aborting", "ended", "published"}]
  BY DEF TypeOK, BeginAbort
<1>2. run' \in RunState
  BY DEF RunState, BeginAbort, IdleRun
<1> QED  BY <1>1, <1>2 DEF TypeOK, BeginAbort, stores, budgets

LEMMA DiscardPointsType ==
  ASSUME TypeOK, DiscardPoints
  PROVE  TypeOK'
  BY PublicationAssumption
  DEF TypeOK, RunState, DiscardPoints, Goto, budgets

LEMMA DiscardVersionsType ==
  ASSUME TypeOK, HasPublication, DiscardVersions
  PROVE  TypeOK'
  BY DEF TypeOK, RunState, HasPublication, DiscardVersions, At, Goto, budgets

LEMMA FailProductType ==
  ASSUME TypeOK, FailProduct
  PROVE  TypeOK'
  BY DEF TypeOK, RunState, FailProduct, Goto, budgets

LEMMA EndJobType ==
  ASSUME TypeOK, EndJob
  PROVE  TypeOK'
  BY DEF TypeOK, RunState, EndJob, stores, budgets, IdleRun

LEMMA AbortRaisesType ==
  ASSUME TypeOK, AbortRaises
  PROVE  TypeOK'
<1>1. faults' \in 0..MaxFaults
  BY PublicationAssumption DEF TypeOK, AbortRaises, Raises
<1>2. CASE Goto("ab_job")
  BY <1>1, <1>2 DEF TypeOK, RunState, AbortRaises, Raises, Goto, stores
<1>3. CASE run' = IdleRun
  BY <1>1, <1>3 DEF TypeOK, RunState, AbortRaises, Raises, IdleRun, stores
<1> QED  BY <1>2, <1>3 DEF AbortRaises

LEMMA CutOffType ==
  ASSUME TypeOK, CutOff
  PROVE  TypeOK'
  BY PublicationAssumption DEF TypeOK, RunState, CutOff, stores, IdleRun

-----------------------------------------------------------------------------
(* Every action preserves the invariant. *)

LEMMA StageKeeps ==
  ASSUME Environment, SwitchInv, TypeOK', NEW p \in Pub, NEW kept \in SUBSET Pub, Stage(p, kept)
  PROVE  SwitchInv'
<1> USE PublicationAssumption DEF SwitchInv
<1>1. Shown' = Shown
  BY DEF Shown, TypeOK, JobInv, Stage
<1>2. JobInv'
  BY DEF TypeOK, JobInv, RunInv, StoresInv, Stage
<1>3. RunInv'
  BY <1>1 DEF RunInv, Switching, Forward, Rollbacks, Aborts, Stage, At
<1>4. PointsInv'
  BY <1>1 DEF JobInv, RunInv, PointsInv, StoresInv, GateOpen, Stage, At
<1>5. StoresInv'
  BY <1>1 DEF JobInv, PointsInv, StoresInv, Stage, At
<1> QED  BY <1>2, <1>3, <1>4, <1>5

LEMMA RestageKeeps ==
  ASSUME SwitchInv, TypeOK', NEW p \in Pub, Restage(p)
  PROVE  SwitchInv'
<1> USE DEF SwitchInv
<1>1. /\ Shown' = Shown
      /\ UNCHANGED <<job, target, site, product, run>>
      /\ points'.live = points.live /\ points.stored \subseteq points'.stored
      /\ versions'.current = versions.current /\ versions'.discarded \subseteq versions.discarded
  BY DEF Shown, TypeOK, Restage
<1>2. JobInv'
  BY <1>1 DEF JobInv
<1>3. RunInv'
  BY <1>1 DEF RunInv, Restage, At, Switching, Forward, Rollbacks, Aborts
<1>4. PointsInv'
  BY <1>1 DEF PointsInv, GateOpen
<1>5. StoresInv'
  BY <1>1 DEF StoresInv
<1> QED  BY <1>2, <1>3, <1>4, <1>5

LEMMA BeginSwitchKeeps ==
  ASSUME Environment, SwitchInv, TypeOK', NEW p \in Pub, BeginSwitch(p)
  PROVE  SwitchInv'
<1> USE PublicationAssumption DEF SwitchInv
<1>1. Shown' = Shown
  BY DEF Shown, JobInv, BeginSwitch, Origin
<1>2. JobInv'
  BY DEF JobInv, RunInv, Aborts, Forward, BeginSwitch, Origin, IdleRun
<1>3. RunInv'
  <2>1. target[p] \subseteq points.stored \ versions.discarded
    BY DEF StoresInv, BeginSwitch, Publishable
  <2> QED
    BY <1>1, <2>1
    DEF RunInv, Switching, Rollbacks, Forward, Aborts, BeginSwitch, Origin, IdleRun
<1>4. PointsInv'
  <2>1. run'.pc = "begun" /\ run'.origin = Origin /\ run'.resumed = (site.state = "switching")
    BY DEF BeginSwitch, IdleRun
  <2>2. ~run'.resumed /\ run'.origin = "active" => GateOpen
    BY <2>1 DEF Origin, GateOpen
  <2>3. ~GateOpen'
    BY DEF BeginSwitch, GateOpen
  <2> QED
    BY <1>1, <2>1, <2>2, <2>3 DEF PointsInv, BeginSwitch
<1>5. StoresInv'
  BY <1>1 DEF PointsInv, StoresInv, BeginSwitch, Origin
<1> QED  BY <1>2, <1>3, <1>4, <1>5

LEMMA LoadContextKeeps ==
  ASSUME Environment, SwitchInv, TypeOK', LoadContext
  PROVE  SwitchInv'
<1> USE PublicationAssumption DEF SwitchInv
<1>1. Shown' = Shown
  BY DEF Shown, LoadContext, stores
<1>2. JobInv'
  BY DEF JobInv, LoadContext, stores
<1>3. run.pc = "begun" /\ run.prev = site.active /\ ~run.failed
  BY DEF RunInv, LoadContext, At, Switching
<1>4. run'.versions = Shown
  <2>1. CASE site.active = NoPub
    BY <1>3, <2>1 DEF StoresInv, LoadContext, Shown
  <2>2. CASE site.active # NoPub
    BY <1>3, <2>2 DEF LoadContext, Shown
  <2> QED  BY <2>1, <2>2
<1>5. run'.product = site.active
  BY <1>3, NothingActive DEF LoadContext
<1>6. /\ run'.pc = "ready" /\ run'.ready /\ ~run'.failed
      /\ run'.pub = run.pub /\ run'.prev = run.prev
  BY <1>3 DEF LoadContext
<1>7. RunInv'
  BY <1>1, <1>3, <1>4, <1>5, <1>6
  DEF RunInv, LoadContext, stores, Switching, Aborts
<1>8. PointsInv'
  BY <1>1, <1>6 DEF PointsInv, GateOpen, LoadContext, stores
<1>9. StoresInv'
  BY <1>1 DEF StoresInv, LoadContext, stores
<1> QED  BY <1>2, <1>7, <1>8, <1>9

LEMMA RaiseTargetKeeps ==
  ASSUME Environment, SwitchInv, TypeOK', RaiseTarget
  PROVE  SwitchInv'
<1> USE PublicationAssumption DEF SwitchInv
<1>1. Shown' = Shown
  BY DEF Shown, JobInv, RaiseTarget, MarkActive
<1>2. JobInv'
  BY DEF JobInv, RunInv, Switching, Aborts, Forward, RaiseTarget, MarkActive, At, Goto
<1>3. RunInv'
  BY <1>1 DEF RunInv, Switching, Forward, Aborts, RaiseTarget, MarkActive, At, Goto
<1>4. PointsInv'
  BY <1>1 DEF JobInv, RunInv, PointsInv, StoresInv, GateOpen, Switching, Forward,
              Aborts, RaiseTarget, MarkActive, At, Goto
<1>5. StoresInv'
  BY <1>1 DEF JobInv, RunInv, PointsInv, StoresInv, Switching, RaiseTarget, MarkActive,
              At, Goto
<1> QED  BY <1>2, <1>3, <1>4, <1>5

LEMMA LowerOthersKeeps ==
  ASSUME Environment, SwitchInv, TypeOK', LowerOthers
  PROVE  SwitchInv'
<1> USE PublicationAssumption DEF SwitchInv
<1>1. Shown' = Shown
  BY DEF Shown, JobInv, LowerOthers, MarkOthersInactive
<1>2. JobInv'
  BY DEF JobInv, RunInv, Switching, Aborts, Forward, LowerOthers, MarkOthersInactive,
         At, Goto
<1>3. RunInv'
  BY <1>1 DEF RunInv, Switching, Forward, Aborts, LowerOthers, MarkOthersInactive, At,
              Goto
<1>4. PointsInv'
  BY <1>1 DEF RunInv, PointsInv, StoresInv, GateOpen, Switching, Forward, Aborts,
              LowerOthers, MarkOthersInactive, At, Goto
<1>5. StoresInv'
  BY <1>1 DEF RunInv, PointsInv, StoresInv, Switching, LowerOthers, MarkOthersInactive,
              At, Goto
<1> QED  BY <1>2, <1>3, <1>4, <1>5

LEMMA CommitKeeps ==
  ASSUME Environment, SwitchInv, TypeOK', Commit
  PROVE  SwitchInv'
<1> USE PublicationAssumption DEF SwitchInv
<1>1. Shown' = target[run.pub]
  BY DEF Shown, JobInv, RunInv, Switching, Commit, At
<1>2. JobInv'
  BY DEF Environment, TypeOK, JobInv, RunInv, Switching, Aborts, Forward, Commit, At,
         Goto
<1>3. RunInv'
  BY <1>1 DEF Environment, TypeOK, RunInv, Switching, Forward, Aborts, Commit, At, Goto
<1>4. PointsInv'
  BY <1>1 DEF Environment, TypeOK, JobInv, RunInv, PointsInv, StoresInv, Switching,
              Forward, Aborts, Commit, Superseded, At, Goto
<1>5. StoresInv'
  <2>1. target[run.pub] \subseteq points.stored \ versions.discarded
    BY DEF RunInv, Forward, Commit, At
  <2> QED
    BY <1>1, <2>1 DEF TypeOK, RunInv, StoresInv, Switching, Commit, Superseded, At
<1> QED  BY <1>2, <1>3, <1>4, <1>5

LEMMA FinishKeeps ==
  ASSUME Environment, SwitchInv, TypeOK', Finish
  PROVE  SwitchInv'
<1> USE PublicationAssumption DEF SwitchInv
<1>1. Shown' = Shown
  BY DEF Shown, JobInv, Finish, stores
<1>2. JobInv'
  BY DEF JobInv, RunInv, Switching, Aborts, Forward, Finish, stores, IdleRun
<1>3. RunInv'
  BY <1>1 DEF RunInv, Switching, Rollbacks, Forward, Aborts, Finish, stores, IdleRun
<1>4. PointsInv'
  BY <1>1 DEF RunInv, PointsInv, StoresInv, GateOpen, Switching, Rollbacks, Forward,
              Aborts, Finish, stores, IdleRun
<1>5. StoresInv'
  BY <1>1 DEF PointsInv, StoresInv, Finish, stores, IdleRun
<1> QED  BY <1>2, <1>3, <1>4, <1>5

LEMMA SwitchRaisesKeeps ==
  ASSUME Environment, SwitchInv, TypeOK', SwitchRaises
  PROVE  SwitchInv'
<1> USE PublicationAssumption DEF SwitchInv
<1>1. Shown' = Shown
  BY DEF Shown, JobInv, SwitchRaises, stores
<1>2. JobInv'
  BY DEF JobInv, RunInv, Switching, Aborts, Forward, SwitchRaises, AfterStores, Goto,
         stores
<1>3. RunInv'
  BY <1>1 DEF Environment, RunInv, Switching, Rollbacks, Forward, Aborts, SwitchRaises,
              AfterStores, At, Goto, stores
<1>4. PointsInv'
  BY <1>1 DEF Environment, RunInv, PointsInv, StoresInv, GateOpen, Switching, Rollbacks,
              Forward, Aborts, SwitchRaises, AfterStores, At, Goto, stores
<1>5. StoresInv'
  BY <1>1 DEF Environment, RunInv, PointsInv, StoresInv, Forward, SwitchRaises,
              AfterStores, At, Goto, stores
<1> QED  BY <1>2, <1>3, <1>4, <1>5

LEMMA RollbackRaiseKeeps ==
  ASSUME Environment, SwitchInv, TypeOK', RollbackRaise
  PROVE  SwitchInv'
<1> USE PublicationAssumption DEF SwitchInv
<1>1. Shown' = Shown
  BY DEF Shown, JobInv, RollbackRaise, MarkActive
<1>2. JobInv'
  BY DEF JobInv, RunInv, Switching, Aborts, RollbackRaise, MarkActive, At, Goto
<1>3. RunInv'
  BY <1>1 DEF RunInv, StoresInv, Switching, Forward, Rollbacks, Aborts, RollbackRaise,
              MarkActive, At, Goto
<1>4. PointsInv'
  BY <1>1 DEF RunInv, PointsInv, StoresInv, GateOpen, Switching, Rollbacks, Aborts,
              RollbackRaise, MarkActive, At, Goto
<1>5. StoresInv'
  BY <1>1 DEF RunInv, PointsInv, StoresInv, Switching, Rollbacks, RollbackRaise,
              MarkActive, At, Goto
<1> QED  BY <1>2, <1>3, <1>4, <1>5

LEMMA RollbackLowerKeeps ==
  ASSUME Environment, SwitchInv, TypeOK', RollbackLower
  PROVE  SwitchInv'
<1> USE PublicationAssumption DEF SwitchInv
<1>1. Shown' = Shown
  BY DEF Shown, JobInv, RollbackLower, MarkOthersInactive
<1>2. JobInv'
  BY DEF JobInv, RunInv, Switching, Aborts, RollbackLower, MarkOthersInactive, At, Goto
<1>3. RunInv'
  BY <1>1 DEF RunInv, Switching, Forward, Rollbacks, Aborts, RollbackLower, MarkOthersInactive,
              At, Goto
<1>4. PointsInv'
  BY <1>1 DEF RunInv, PointsInv, StoresInv, Switching, Rollbacks, Aborts, RollbackLower,
              MarkOthersInactive, At, Goto
<1>5. StoresInv'
  BY <1>1 DEF RunInv, PointsInv, StoresInv, Switching, Rollbacks, RollbackLower,
              MarkOthersInactive, At, Goto
<1> QED  BY <1>2, <1>3, <1>4, <1>5

LEMMA RollbackVersionsKeeps ==
  ASSUME Environment, SwitchInv, TypeOK', RollbackVersions
  PROVE  SwitchInv'
<1> USE PublicationAssumption DEF SwitchInv
<1>1. Shown' = Shown
  BY DEF Shown, JobInv, RollbackVersions
<1>2. JobInv'
  BY DEF JobInv, RunInv, Switching, Aborts, Forward, RollbackVersions, At, Goto
<1>3. RunInv'
  BY <1>1 DEF RunInv, Switching, Rollbacks, Forward, Aborts, RollbackVersions, At, Goto
<1>4. PointsInv'
  BY <1>1 DEF RunInv, PointsInv, StoresInv, GateOpen, Switching, Rollbacks, Forward,
              Aborts, RollbackVersions, At, Goto
<1>5. StoresInv'
  BY <1>1 DEF RunInv, PointsInv, StoresInv, Switching, Rollbacks, RollbackVersions, At,
              Goto
<1> QED  BY <1>2, <1>3, <1>4, <1>5

LEMMA RollbackProductKeeps ==
  ASSUME Environment, SwitchInv, TypeOK', RollbackProduct
  PROVE  SwitchInv'
<1> USE PublicationAssumption DEF SwitchInv
<1>1. Shown' = Shown
  BY DEF Shown, JobInv, RollbackProduct
<1>2. JobInv'
  BY DEF JobInv, RunInv, Switching, Aborts, Forward, RollbackProduct, AfterStores, At,
         Goto
<1>3. RunInv'
  BY <1>1 DEF RunInv, Switching, Rollbacks, Forward, Aborts, RollbackProduct,
              AfterStores, At, Goto
<1>4. PointsInv'
  BY <1>1 DEF RunInv, PointsInv, StoresInv, GateOpen, Switching, Rollbacks, Forward,
              Aborts, RollbackProduct, AfterStores, Superseded, At, Goto
<1>5. StoresInv'
  BY <1>1 DEF RunInv, PointsInv, StoresInv, Switching, Rollbacks, RollbackProduct,
              AfterStores, Superseded, At, Goto
<1> QED  BY <1>2, <1>3, <1>4, <1>5

LEMMA RestoreSiteKeeps ==
  ASSUME Environment, SwitchInv, TypeOK', RestoreSite
  PROVE  SwitchInv'
<1> USE PublicationAssumption DEF SwitchInv
<1>1. Shown' = Shown
  BY DEF Shown, JobInv, RunInv, Switching, RestoreSite, At
<1>2. JobInv'
  BY DEF JobInv, RunInv, Switching, Aborts, Forward, RestoreSite, At, IdleRun
<1>3. RunInv'
  BY <1>1 DEF RunInv, Switching, Rollbacks, Forward, Aborts, RestoreSite, At, IdleRun
<1>4. PointsInv'
  BY <1>1 DEF RunInv, PointsInv, StoresInv, Switching, Rollbacks, Forward, Aborts,
              RestoreSite, At, IdleRun
<1>5. StoresInv'
  BY <1>1 DEF RunInv, PointsInv, StoresInv, Switching, RestoreSite, At, IdleRun
<1> QED  BY <1>2, <1>3, <1>4, <1>5

LEMMA RequireRecoveryKeeps ==
  ASSUME Environment, SwitchInv, TypeOK', RequireRecovery
  PROVE  SwitchInv'
<1> USE PublicationAssumption DEF SwitchInv
<1>1. Shown' = Shown
  BY DEF Shown, JobInv, RequireRecovery
<1>2. JobInv'
  BY DEF JobInv, RunInv, Switching, Aborts, Forward, RequireRecovery, IdleRun
<1>3. RunInv'
  BY <1>1 DEF RunInv, Switching, Rollbacks, Forward, Aborts, RequireRecovery, IdleRun
<1>4. PointsInv'
  BY <1>1 DEF RunInv, PointsInv, StoresInv, GateOpen, Switching, Rollbacks, Forward,
              Aborts, RequireRecovery, IdleRun
<1>5. StoresInv'
  BY <1>1 DEF PointsInv, StoresInv, RequireRecovery, IdleRun
<1> QED  BY <1>2, <1>3, <1>4, <1>5

LEMMA RollbackRaisesKeeps ==
  ASSUME Environment, SwitchInv, TypeOK', RollbackRaises
  PROVE  SwitchInv'
<1> USE PublicationAssumption DEF SwitchInv
<1>1. Shown' = Shown
  BY DEF Shown, JobInv, RollbackRaises, stores
<1>2. JobInv'
  BY DEF JobInv, RunInv, Switching, Aborts, Forward, RollbackRaises, AfterStores, stores
<1>3. RunInv'
  BY <1>1 DEF RunInv, Switching, Rollbacks, Forward, Aborts, RollbackRaises,
              AfterStores, stores
<1>4. PointsInv'
  BY <1>1 DEF RunInv, PointsInv, StoresInv, GateOpen, Switching, Rollbacks, Forward,
              Aborts, RollbackRaises, AfterStores, stores
<1>5. StoresInv'
  BY <1>1 DEF PointsInv, StoresInv, RollbackRaises, AfterStores, stores
<1> QED  BY <1>2, <1>3, <1>4, <1>5

LEMMA ReleaseRaisesKeeps ==
  ASSUME Environment, SwitchInv, TypeOK', ReleaseRaises
  PROVE  SwitchInv'
<1> USE PublicationAssumption DEF SwitchInv
<1>1. Shown' = Shown
  BY DEF Shown, JobInv, ReleaseRaises, stores
<1>2. JobInv'
  BY DEF JobInv, RunInv, Switching, Aborts, Forward, ReleaseRaises, stores, IdleRun
<1>3. RunInv'
  BY <1>1 DEF RunInv, Switching, Rollbacks, Forward, Aborts, ReleaseRaises, stores,
              IdleRun
<1>4. PointsInv'
  BY <1>1 DEF RunInv, PointsInv, StoresInv, GateOpen, Switching, Rollbacks, Forward,
              Aborts, ReleaseRaises, stores, IdleRun
<1>5. StoresInv'
  BY <1>1 DEF PointsInv, StoresInv, ReleaseRaises, stores, IdleRun
<1> QED  BY <1>2, <1>3, <1>4, <1>5

LEMMA BeginAbortKeeps ==
  ASSUME Environment, SwitchInv, TypeOK', NEW p \in Pub, BeginAbort(p)
  PROVE  SwitchInv'
<1> USE PublicationAssumption DEF SwitchInv
<1>1. Shown' = Shown
  BY DEF Shown, JobInv, BeginAbort, stores
<1>2. JobInv'
  BY DEF Environment, TypeOK, JobInv, RunInv, Switching, Forward, BeginAbort, stores
<1>3. RunInv'
  BY <1>1 DEF Environment, TypeOK, RunInv, Switching, Rollbacks, Forward, BeginAbort,
              stores
<1>4. PointsInv'
  BY <1>1 DEF TypeOK, RunInv, PointsInv, StoresInv, GateOpen, Switching, Rollbacks,
              Forward, BeginAbort, stores
<1>5. StoresInv'
  BY <1>1 DEF PointsInv, StoresInv, BeginAbort, stores
<1> QED  BY <1>2, <1>3, <1>4, <1>5

LEMMA DiscardPointsKeeps ==
  ASSUME Environment, SwitchInv, TypeOK', DiscardPoints
  PROVE  SwitchInv'
<1> USE PublicationAssumption DEF SwitchInv
<1>1. Shown' = Shown
  BY DEF Shown, JobInv, RunInv, Aborts, DiscardPoints, At
<1>2. JobInv'
  BY DEF JobInv, RunInv, Switching, Aborts, Forward, DiscardPoints, At, Goto
<1>3. RunInv'
  BY <1>1 DEF RunInv, Switching, Rollbacks, Forward, Aborts, DiscardPoints, At, Goto
<1>4. PointsInv'
  BY <1>1 DEF TypeOK, SiteRow, JobInv, RunInv, PointsInv, StoresInv, GateOpen,
              Switching, Rollbacks, Forward, Aborts, DiscardPoints, At, Goto
<1>5. StoresInv'
  BY <1>1 DEF TypeOK, SiteRow, JobInv, RunInv, PointsInv, StoresInv, Aborts, Shown,
              DiscardPoints, At, Goto
<1> QED  BY <1>2, <1>3, <1>4, <1>5

LEMMA DiscardVersionsKeeps ==
  ASSUME Environment, SwitchInv, TypeOK', DiscardVersions
  PROVE  SwitchInv'
<1> USE PublicationAssumption DEF SwitchInv
<1>1. Shown' = Shown
  BY DEF Shown, JobInv, RunInv, Aborts, DiscardVersions, At
<1>2. JobInv'
  BY DEF JobInv, RunInv, Switching, Aborts, Forward, DiscardVersions, At, Goto
<1>3. RunInv'
  BY <1>1 DEF RunInv, Switching, Rollbacks, Forward, Aborts, DiscardVersions, At, Goto
<1>4. PointsInv'
  BY <1>1 DEF TypeOK, SiteRow, JobInv, RunInv, PointsInv, StoresInv, GateOpen,
              Switching, Rollbacks, Forward, Aborts, DiscardVersions, At, Goto
<1>5. StoresInv'
  BY <1>1 DEF TypeOK, SiteRow, JobInv, RunInv, PointsInv, StoresInv, Aborts, Shown,
              DiscardVersions, At, Goto
<1> QED  BY <1>2, <1>3, <1>4, <1>5

LEMMA FailProductKeeps ==
  ASSUME Environment, SwitchInv, TypeOK', FailProduct
  PROVE  SwitchInv'
<1> USE PublicationAssumption DEF SwitchInv
<1>1. Shown' = Shown
  BY DEF Shown, JobInv, RunInv, Aborts, FailProduct, At
<1>2. JobInv'
  BY DEF JobInv, RunInv, Switching, Aborts, Forward, FailProduct, At, Goto
<1>3. RunInv'
  BY <1>1 DEF RunInv, Switching, Rollbacks, Forward, Aborts, FailProduct, At, Goto
<1>4. PointsInv'
  BY <1>1 DEF RunInv, PointsInv, StoresInv, GateOpen, Switching, Rollbacks, Forward,
              Aborts, FailProduct, At, Goto
<1>5. StoresInv'
  BY <1>1 DEF PointsInv, StoresInv, FailProduct, At, Goto
<1> QED  BY <1>2, <1>3, <1>4, <1>5

LEMMA EndJobKeeps ==
  ASSUME SwitchInv, TypeOK', EndJob
  PROVE  SwitchInv'
<1> USE DEF SwitchInv
<1>1. Shown' = Shown
  BY DEF Shown, EndJob, stores
<1>2. JobInv'
  BY DEF TypeOK, JobInv, RunInv, Aborts, EndJob, stores, At
<1>3. RunInv'
  BY DEF RunInv, Switching, Rollbacks, Forward, Aborts, EndJob, IdleRun
<1>4. PointsInv'
  BY <1>1 DEF PointsInv, GateOpen, EndJob, stores, IdleRun
<1>5. StoresInv'
  BY <1>1 DEF StoresInv, EndJob, stores
<1> QED  BY <1>2, <1>3, <1>4, <1>5

LEMMA AbortRaisesKeeps ==
  ASSUME Environment, SwitchInv, TypeOK', AbortRaises
  PROVE  SwitchInv'
<1> USE PublicationAssumption DEF SwitchInv
<1>1. Shown' = Shown /\ UNCHANGED <<job, target, stores>>
  BY DEF Shown, AbortRaises, stores
<1>2. \/ run'.pc = "idle"
      \/ run'.pc = "ab_job" /\ run'.pub = run.pub /\ run.pc \in Aborts
  BY DEF TypeOK, RunState, Aborts, AbortRaises, Goto, IdleRun
<1>3. JobInv'
  BY <1>1 DEF JobInv, stores
<1>4. RunInv'
  BY <1>1, <1>2 DEF RunInv, Switching, Rollbacks, Forward, Aborts, stores
<1>5. PointsInv'
  BY <1>1, <1>2 DEF PointsInv, GateOpen, stores
<1>6. StoresInv'
  BY <1>1 DEF StoresInv, stores
<1> QED  BY <1>3, <1>4, <1>5, <1>6

LEMMA CutOffKeeps ==
  ASSUME Environment, SwitchInv, TypeOK', CutOff
  PROVE  SwitchInv'
<1> USE PublicationAssumption DEF SwitchInv
<1>1. Shown' = Shown
  BY DEF Shown, JobInv, CutOff, stores
<1>2. JobInv'
  BY DEF JobInv, RunInv, Switching, Aborts, Forward, CutOff, stores, IdleRun
<1>3. RunInv'
  BY <1>1 DEF RunInv, Switching, Rollbacks, Forward, Aborts, CutOff, stores, IdleRun
<1>4. PointsInv'
  BY <1>1 DEF RunInv, PointsInv, StoresInv, GateOpen, Switching, Rollbacks, Forward,
              Aborts, CutOff, stores, IdleRun
<1>5. StoresInv'
  BY <1>1 DEF PointsInv, StoresInv, CutOff, stores, IdleRun
<1> QED  BY <1>2, <1>3, <1>4, <1>5

-----------------------------------------------------------------------------
(* The types and the invariant hold throughout. *)

LEMMA StepType ==
  ASSUME TypeOK, HasPublication, [Next]_vars
  PROVE  TypeOK'
<1>1. CASE \E p \in Pub : \E kept \in SUBSET Pub : Stage(p, kept)
  BY <1>1, StageType
<1>2. CASE \E p \in Pub : Restage(p) \/ BeginSwitch(p) \/ BeginAbort(p)
  BY <1>2, RestageType, BeginSwitchType, BeginAbortType
<1>3. CASE Switch
  BY <1>3, LoadContextType, RaiseTargetType, LowerOthersType, CommitType,
     FinishType, SwitchRaisesType DEF Switch
<1>4. CASE Rollback
  BY <1>4, RollbackRaiseType, RollbackLowerType, RollbackVersionsType,
     RollbackProductType, RollbackRaisesType, RestoreSiteType, RequireRecoveryType,
     ReleaseRaisesType DEF Rollback
<1>5. CASE Abort
  BY <1>5, DiscardPointsType, DiscardVersionsType, FailProductType, EndJobType,
     AbortRaisesType DEF Abort
<1>6. CASE CutOff
  BY <1>6, CutOffType
<1>7. CASE UNCHANGED vars
  BY <1>7 DEF vars, TypeOK
<1> QED  BY <1>1, <1>2, <1>3, <1>4, <1>5, <1>6, <1>7 DEF Next

LEMMA StepHasPublication ==
  ASSUME TypeOK, HasPublication, [Next]_vars
  PROVE  HasPublication'
<1>1. CASE \E p \in Pub : Restage(p) \/ BeginSwitch(p) \/ BeginAbort(p)
  BY <1>1 DEF HasPublication, Restage, BeginSwitch, BeginAbort, IdleRun
<1>2. CASE \E p \in Pub : \E kept \in SUBSET Pub : Stage(p, kept)
  BY <1>2 DEF HasPublication, Stage
<1>3. CASE Switch
  <2>1. CASE LoadContext
    BY <2>1 DEF LoadContext, HasPublication, TypeOK, RunState, At
  <2>2. CASE RaiseTarget
    BY <2>2 DEF RaiseTarget, HasPublication, TypeOK, RunState, At, Goto
  <2>3. CASE LowerOthers
    BY <2>3 DEF LowerOthers, HasPublication, TypeOK, RunState, At, Goto
  <2>4. CASE Commit
    BY <2>4 DEF Commit, HasPublication, TypeOK, RunState, At, Goto
  <2>5. CASE Finish
    BY <2>5 DEF Finish, HasPublication, TypeOK, RunState, At, IdleRun
  <2>6. CASE SwitchRaises
    BY <2>6 DEF SwitchRaises, HasPublication, TypeOK, RunState, At, Goto
  <2> QED  BY <1>3, <2>1, <2>2, <2>3, <2>4, <2>5, <2>6 DEF Switch
<1>4. CASE Rollback
  <2>1. CASE RollbackRaise
    BY <2>1 DEF RollbackRaise, HasPublication, TypeOK, RunState, At, Goto
  <2>2. CASE RollbackLower
    BY <2>2 DEF RollbackLower, HasPublication, TypeOK, RunState, At, Goto
  <2>3. CASE RollbackVersions
    BY <2>3 DEF RollbackVersions, HasPublication, TypeOK, RunState, At, Goto
  <2>4. CASE RollbackProduct
    BY <2>4 DEF RollbackProduct, HasPublication, TypeOK, RunState, At, Goto
  <2>5. CASE RollbackRaises
    BY <2>5 DEF RollbackRaises, HasPublication, TypeOK, RunState
  <2>6. CASE RestoreSite
    BY <2>6 DEF RestoreSite, HasPublication, TypeOK, RunState, At, IdleRun
  <2>7. CASE RequireRecovery
    BY <2>7 DEF RequireRecovery, HasPublication, TypeOK, RunState, At, IdleRun
  <2>8. CASE ReleaseRaises
    BY <2>8 DEF ReleaseRaises, HasPublication, TypeOK, RunState, IdleRun
  <2> QED  BY <1>4, <2>1, <2>2, <2>3, <2>4, <2>5, <2>6, <2>7, <2>8 DEF Rollback
<1>5. CASE Abort \/ CutOff
  BY <1>5 DEF Abort, HasPublication, TypeOK, RunState, DiscardPoints, DiscardVersions,
              FailProduct, EndJob, AbortRaises, CutOff, At, Goto, IdleRun
<1>6. CASE UNCHANGED vars
  BY <1>6 DEF vars, HasPublication
<1> QED  BY <1>1, <1>2, <1>3, <1>4, <1>5, <1>6 DEF Next

LEMMA InitInv == Init => SwitchInv /\ HasPublication
  BY PublicationAssumption
  DEF Init, SwitchInv, HasPublication, TypeOK, SiteRow, RunState, IdleRun, JobInv,
      RunInv, PointsInv, StoresInv, Shown, GateOpen, Switching, Forward, Rollbacks,
      Aborts

LEMMA StepInv ==
  ASSUME Environment, SwitchInv, HasPublication, [Next]_vars
  PROVE  SwitchInv'
<1> USE StepType DEF SwitchInv
<1>1. CASE \E p \in Pub : \E kept \in SUBSET Pub : Stage(p, kept)
  BY <1>1, StageKeeps
<1>2. CASE \E p \in Pub : Restage(p) \/ BeginSwitch(p) \/ BeginAbort(p)
  BY <1>2, RestageKeeps, BeginSwitchKeeps, BeginAbortKeeps
<1>3. CASE Switch
  BY <1>3, LoadContextKeeps, RaiseTargetKeeps, LowerOthersKeeps, CommitKeeps,
     FinishKeeps, SwitchRaisesKeeps DEF Switch
<1>4. CASE Rollback
  BY <1>4, RollbackRaiseKeeps, RollbackLowerKeeps, RollbackVersionsKeeps,
     RollbackProductKeeps, RollbackRaisesKeeps, RestoreSiteKeeps,
     RequireRecoveryKeeps, ReleaseRaisesKeeps DEF Rollback
<1>5. CASE Abort
  BY <1>5, DiscardPointsKeeps, DiscardVersionsKeeps, FailProductKeeps,
     EndJobKeeps, AbortRaisesKeeps DEF Abort
<1>6. CASE CutOff
  BY <1>6, CutOffKeeps
<1>7. CASE UNCHANGED vars
  BY <1>7 DEF vars, TypeOK, JobInv, RunInv, PointsInv, StoresInv, Shown, GateOpen
<1> QED  BY <1>1, <1>2, <1>3, <1>4, <1>5, <1>6, <1>7 DEF Next

\* Every store, the site row and the run stay in their declared domains, whatever
\* fails: a switch that is resumed starts from a state it may have started from.
THEOREM SwitchTypeCorrect == Spec => []TypeOK
<1>1. Init => TypeOK /\ HasPublication
  BY InitInv DEF SwitchInv
<1>2. TypeOK /\ HasPublication /\ [Next]_vars => (TypeOK /\ HasPublication)'
  BY StepType, StepHasPublication
<1> QED  BY <1>1, <1>2, PTL DEF Spec

LEMMA SwitchInvariant ==
  ASSUME Environment
  PROVE  Spec => []SwitchInv
<1>1. Init => SwitchInv /\ HasPublication
  BY InitInv
<1>2. SwitchInv /\ HasPublication /\ [Next]_vars => (SwitchInv /\ HasPublication)'
  BY StepInv, StepHasPublication DEF SwitchInv
<1> QED  BY <1>1, <1>2, PTL DEF Spec

\* Visitors never see a mixture of two publications, whichever store calls fail,
\* in whichever order runs are cut off, resumed, rolled back or aborted.
THEOREM OpenGateIsConsistent ==
  ASSUME Environment
  PROVE  Spec => []OpenGateShowsOnePublication
<1>1. SwitchInv => OpenGateShowsOnePublication
  <2> SUFFICES ASSUME SwitchInv, GateOpen
               PROVE  OpenGateShowsOnePublication
    BY DEF OpenGateShowsOnePublication
  <2>1. {p \in Pub : product[p] = "active"} = {site.active} \ {NoPub}
    BY PublicationAssumption DEF SwitchInv, StoresInv, TypeOK, SiteRow
  <2> QED  BY <2>1 DEF SwitchInv, StoresInv, PointsInv, OpenGateShowsOnePublication
<1> QED  BY <1>1, SwitchInvariant, PTL

\* The publication to fall back on keeps its points, versions and products.
THEOREM PreviousIsRestorable ==
  ASSUME Environment
  PROVE  Spec => []PreviousStaysRestorable
<1>1. SwitchInv => PreviousStaysRestorable
  BY DEF SwitchInv, StoresInv, TypeOK, SiteRow, PreviousStaysRestorable
<1> QED  BY <1>1, SwitchInvariant, PTL

-----------------------------------------------------------------------------
(* Every step is a step of AtomicPublication or leaves it unchanged. *)

LEMMA Stutters ==
  ASSUME GateOpen' = GateOpen, site'.active = site.active, target' = target, Fate' = Fate,
         GateOpen => points'.live = points.live
  PROVE  UNCHANGED Promise!vars
  BY DEF Promise!vars, Answers

LEMMA LoadContextRefines ==
  ASSUME SwitchInv, LoadContext
  PROVE  UNCHANGED Promise!vars
<1>1. ~GateOpen /\ ~GateOpen'
  BY DEF SwitchInv, RunInv, Switching, GateOpen, LoadContext, ActiveProduct, At, stores
<1>2. site'.active = site.active /\ target' = target /\ Fate' = Fate
  BY DEF SwitchInv, Fate, LoadContext, ActiveProduct, At, stores
<1>3. GateOpen' = GateOpen
  BY <1>1 DEF GateOpen
<1> QED  BY <1>1, <1>2, <1>3, Stutters

LEMMA RaiseTargetRefines ==
  ASSUME SwitchInv, RaiseTarget
  PROVE  UNCHANGED Promise!vars
<1>1. ~GateOpen /\ ~GateOpen'
  BY DEF SwitchInv, RunInv, Switching, GateOpen, RaiseTarget, At
<1>2. site'.active = site.active /\ target' = target /\ Fate' = Fate
  BY DEF SwitchInv, Fate, RaiseTarget, At
<1>3. GateOpen' = GateOpen
  BY <1>1 DEF GateOpen
<1> QED  BY <1>1, <1>2, <1>3, Stutters

LEMMA LowerOthersRefines ==
  ASSUME SwitchInv, LowerOthers
  PROVE  UNCHANGED Promise!vars
<1>1. ~GateOpen /\ ~GateOpen'
  BY DEF SwitchInv, RunInv, Switching, GateOpen, LowerOthers, At
<1>2. site'.active = site.active /\ target' = target /\ Fate' = Fate
  BY DEF SwitchInv, Fate, LowerOthers, At
<1>3. GateOpen' = GateOpen
  BY <1>1 DEF GateOpen
<1> QED  BY <1>1, <1>2, <1>3, Stutters

LEMMA SwitchRaisesRefines ==
  ASSUME SwitchInv, SwitchRaises
  PROVE  UNCHANGED Promise!vars
<1>1. ~GateOpen /\ ~GateOpen'
  BY DEF SwitchInv, RunInv, Switching, GateOpen, SwitchRaises, stores
<1>2. site'.active = site.active /\ target' = target /\ Fate' = Fate
  BY DEF SwitchInv, Fate, SwitchRaises, stores
<1>3. GateOpen' = GateOpen
  BY <1>1 DEF GateOpen
<1> QED  BY <1>1, <1>2, <1>3, Stutters

LEMMA RollbackRaiseRefines ==
  ASSUME SwitchInv, RollbackRaise
  PROVE  UNCHANGED Promise!vars
<1>1. ~GateOpen /\ ~GateOpen'
  BY DEF SwitchInv, RunInv, Switching, GateOpen, RollbackRaise, At
<1>2. site'.active = site.active /\ target' = target /\ Fate' = Fate
  BY DEF SwitchInv, Fate, RollbackRaise, At
<1>3. GateOpen' = GateOpen
  BY <1>1 DEF GateOpen
<1> QED  BY <1>1, <1>2, <1>3, Stutters

LEMMA RollbackLowerRefines ==
  ASSUME SwitchInv, RollbackLower
  PROVE  UNCHANGED Promise!vars
<1>1. ~GateOpen /\ ~GateOpen'
  BY DEF SwitchInv, RunInv, Switching, GateOpen, RollbackLower, At
<1>2. site'.active = site.active /\ target' = target /\ Fate' = Fate
  BY DEF SwitchInv, Fate, RollbackLower, At
<1>3. GateOpen' = GateOpen
  BY <1>1 DEF GateOpen
<1> QED  BY <1>1, <1>2, <1>3, Stutters

LEMMA RollbackVersionsRefines ==
  ASSUME SwitchInv, RollbackVersions
  PROVE  UNCHANGED Promise!vars
<1>1. ~GateOpen /\ ~GateOpen'
  BY DEF SwitchInv, RunInv, Switching, GateOpen, RollbackVersions, At
<1>2. site'.active = site.active /\ target' = target /\ Fate' = Fate
  BY DEF SwitchInv, Fate, RollbackVersions, At
<1>3. GateOpen' = GateOpen
  BY <1>1 DEF GateOpen
<1> QED  BY <1>1, <1>2, <1>3, Stutters

LEMMA RollbackProductRefines ==
  ASSUME SwitchInv, RollbackProduct
  PROVE  UNCHANGED Promise!vars
<1>1. ~GateOpen /\ ~GateOpen'
  BY DEF SwitchInv, RunInv, Switching, GateOpen, RollbackProduct, At
<1>2. site'.active = site.active /\ target' = target /\ Fate' = Fate
  BY DEF SwitchInv, Fate, RollbackProduct, At
<1>3. GateOpen' = GateOpen
  BY <1>1 DEF GateOpen
<1> QED  BY <1>1, <1>2, <1>3, Stutters

LEMMA RequireRecoveryRefines ==
  ASSUME SwitchInv, RequireRecovery
  PROVE  UNCHANGED Promise!vars
<1>1. ~GateOpen /\ ~GateOpen'
  BY DEF SwitchInv, RunInv, Switching, GateOpen, RequireRecovery, At
<1>2. site'.active = site.active /\ target' = target /\ Fate' = Fate
  BY DEF SwitchInv, Fate, RequireRecovery, At
<1>3. GateOpen' = GateOpen
  BY <1>1 DEF GateOpen
<1> QED  BY <1>1, <1>2, <1>3, Stutters

LEMMA RollbackRaisesRefines ==
  ASSUME SwitchInv, RollbackRaises
  PROVE  UNCHANGED Promise!vars
<1>1. ~GateOpen /\ ~GateOpen'
  BY DEF SwitchInv, RunInv, Switching, GateOpen, RollbackRaises, stores
<1>2. site'.active = site.active /\ target' = target /\ Fate' = Fate
  BY DEF SwitchInv, Fate, RollbackRaises, stores
<1>3. GateOpen' = GateOpen
  BY <1>1 DEF GateOpen
<1> QED  BY <1>1, <1>2, <1>3, Stutters

LEMMA ReleaseRaisesRefines ==
  ASSUME SwitchInv, ReleaseRaises
  PROVE  UNCHANGED Promise!vars
<1>1. ~GateOpen /\ ~GateOpen'
  BY DEF SwitchInv, RunInv, Switching, GateOpen, ReleaseRaises, stores
<1>2. site'.active = site.active /\ target' = target /\ Fate' = Fate
  BY DEF SwitchInv, Fate, ReleaseRaises, stores
<1>3. GateOpen' = GateOpen
  BY <1>1 DEF GateOpen
<1> QED  BY <1>1, <1>2, <1>3, Stutters

LEMMA DiscardPointsRefines ==
  ASSUME SwitchInv, DiscardPoints
  PROVE  UNCHANGED Promise!vars
<1>1. site' = site /\ target' = target /\ points'.live = points.live
  BY DEF SwitchInv, DiscardPoints
<1>2. Fate' = Fate
  BY DEF SwitchInv, Fate, DiscardPoints
<1> QED  BY <1>1, <1>2, Stutters DEF GateOpen

LEMMA DiscardVersionsRefines ==
  ASSUME SwitchInv, DiscardVersions
  PROVE  UNCHANGED Promise!vars
<1>1. site' = site /\ target' = target /\ points'.live = points.live
  BY DEF SwitchInv, DiscardVersions
<1>2. Fate' = Fate
  BY DEF SwitchInv, Fate, DiscardVersions
<1> QED  BY <1>1, <1>2, Stutters DEF GateOpen

LEMMA FailProductRefines ==
  ASSUME SwitchInv, FailProduct
  PROVE  UNCHANGED Promise!vars
<1>1. site' = site /\ target' = target /\ points'.live = points.live
  BY DEF FailProduct
<1>2. Fate' = Fate
  BY DEF Fate, FailProduct
<1> QED  BY <1>1, <1>2, Stutters DEF GateOpen

LEMMA AbortRaisesRefines ==
  ASSUME SwitchInv, AbortRaises
  PROVE  UNCHANGED Promise!vars
<1>1. site' = site /\ target' = target /\ points'.live = points.live
  BY DEF AbortRaises, stores
<1>2. Fate' = Fate
  BY DEF Fate, AbortRaises
<1> QED  BY <1>1, <1>2, Stutters DEF GateOpen

LEMMA RestageRefines ==
  ASSUME SwitchInv, NEW p \in Pub, Restage(p)
  PROVE  UNCHANGED Promise!vars
<1>1. site' = site /\ target' = target /\ points'.live = points.live
  BY DEF SwitchInv, TypeOK, Restage
<1>2. Fate' = Fate
  BY DEF Fate, Restage
<1> QED  BY <1>1, <1>2, Stutters DEF GateOpen

LEMMA CutOffRefines ==
  ASSUME SwitchInv, CutOff
  PROVE  UNCHANGED Promise!vars
<1>1. site' = site /\ target' = target /\ points'.live = points.live
  BY DEF SwitchInv, CutOff, stores
<1>2. Fate' = Fate
  BY DEF SwitchInv, Fate, CutOff, stores
<1> QED  BY <1>1, <1>2, Stutters DEF GateOpen

LEMMA StageRefines ==
  ASSUME SwitchInv, NEW p \in Pub, NEW kept \in SUBSET Pub, Stage(p, kept)
  PROVE  Promise!Submit(p)
<1>1. Fate[p] = "none" /\ Fate' = [Fate EXCEPT ![p] = "open"]
  BY DEF SwitchInv, TypeOK, Fate, Stage
<1>2. target' = [target EXCEPT ![p] = {p} \union kept] /\ {p} \union kept \in SUBSET Pub
  BY DEF Stage
<1>3. GateOpen' = GateOpen /\ site'.active = site.active /\ Answers' = Answers
  BY DEF SwitchInv, Stage, GateOpen, Answers
<1> QED  BY <1>1, <1>2, <1>3 DEF Promise!Submit

LEMMA BeginSwitchRefines ==
  ASSUME SwitchInv, NEW p \in Pub, BeginSwitch(p)
  PROVE  Promise!Close(p) \/ UNCHANGED Promise!vars
<1>1. Fate' = Fate /\ Fate[p] = "open" /\ target' = target
  BY DEF SwitchInv, Fate, BeginSwitch
<1>2. ~GateOpen' /\ site'.active = site.active
  BY DEF SwitchInv, GateOpen, BeginSwitch
<1>3. CASE GateOpen
  BY <1>1, <1>2, <1>3 DEF Promise!Close, Answers
<1>4. CASE ~GateOpen
  <2>1. GateOpen' = GateOpen
    BY <1>2, <1>4 DEF GateOpen
  <2> QED  BY <1>1, <1>2, <1>4, <2>1, Stutters
<1> QED  BY <1>3, <1>4

LEMMA CommitRefines ==
  ASSUME SwitchInv, Commit
  PROVE  run.pub \in Pub /\ Promise!Publish(run.pub)
<1>1. /\ run.pub \in Pub /\ run.pub # NoPub
      /\ Fate[run.pub] = "open" /\ ~GateOpen /\ points.live = target[run.pub]
  BY PublicationAssumption
  DEF SwitchInv, RunInv, PointsInv, Switching, Fate, GateOpen, Commit, At
<1>2. GateOpen' /\ site'.active = run.pub /\ points' = points /\ target' = target
  BY DEF Commit, GateOpen
<1>3. Fate' = Fate
  BY DEF Fate, Commit
<1>4. Answers' = Promise!Content(run.pub, target)
  BY <1>1, <1>2 DEF Answers, Promise!Content
<1> QED  BY <1>1, <1>2, <1>3, <1>4 DEF Promise!Publish, Promise!Open

LEMMA RestoreSiteRefines ==
  ASSUME SwitchInv, RestoreSite
  PROVE  Promise!Reopen
<1>1. ~GateOpen /\ run.prev = site.active /\ points.live = Shown
  BY DEF SwitchInv, RunInv, PointsInv, Switching, GateOpen, RestoreSite, At
<1>2. GateOpen' /\ site'.active = site.active /\ points' = points /\ target' = target
  BY <1>1 DEF RestoreSite, GateOpen
<1>3. Fate' = Fate
  BY DEF Fate, RestoreSite
<1>4. Answers' = Promise!Content(site.active, target)
  BY <1>1, <1>2 DEF Answers, Shown, Promise!Content
<1> QED  BY <1>1, <1>2, <1>3, <1>4 DEF Promise!Reopen, Promise!Open

LEMMA FinishRefines ==
  ASSUME SwitchInv, Finish
  PROVE  run.pub \in Pub /\ Promise!Settle(run.pub)
<1>1. run.pub \in Pub /\ site.active = run.pub /\ Fate[run.pub] = "open"
  BY DEF SwitchInv, RunInv, Fate, Finish, At
<1>2. Fate' = [Fate EXCEPT ![run.pub] = "published"]
  BY <1>1 DEF SwitchInv, TypeOK, Fate, Finish
<1>3. /\ GateOpen' = GateOpen /\ site'.active = site.active
      /\ Answers' = Answers /\ target' = target
  BY DEF GateOpen, Answers, Finish, stores
<1> QED  BY <1>1, <1>2, <1>3 DEF Promise!Settle

LEMMA BeginAbortRefines ==
  ASSUME Environment, SwitchInv, NEW p \in Pub, BeginAbort(p)
  PROVE  Promise!Discard(p) \/ UNCHANGED Promise!vars
<1>1. site' = site /\ points' = points /\ target' = target
  BY DEF BeginAbort, stores
<1>2. CASE job' = job
  <2>1. Fate' = Fate
    BY <1>2 DEF Fate
  <2> QED  BY <1>1, <2>1, Stutters DEF GateOpen
<1>3. CASE job[p] = "open" /\ job' = [job EXCEPT ![p] = "aborting"]
  <2>1. Fate[p] = "open" /\ site.active # p
    BY <1>3 DEF Environment, Fate, BeginAbort
  <2>2. Fate' = [Fate EXCEPT ![p] = "ended"]
    BY <1>3 DEF SwitchInv, TypeOK, Fate
  <2> QED  BY <1>1, <2>1, <2>2 DEF Promise!Discard, GateOpen, Answers
<1>4. job' = job \/ (job[p] = "open" /\ job' = [job EXCEPT ![p] = "aborting"])
  <2>1. PICK recorded \in {job[p], "aborting"} : job' = [job EXCEPT ![p] = recorded]
    BY DEF BeginAbort
  <2>2. job \in [Pub -> {"none", "open", "aborting", "ended", "published"}]
    BY DEF SwitchInv, TypeOK
  <2>3. CASE recorded = job[p]
    BY <2>1, <2>2, <2>3
  <2>4. CASE recorded = "aborting" /\ recorded # job[p]
    BY <2>1, <2>4 DEF BeginAbort
  <2> QED  BY <2>1, <2>3, <2>4
<1> QED  BY <1>2, <1>3, <1>4

LEMMA EndJobRefines ==
  ASSUME SwitchInv, EndJob
  PROVE  run.pub \in Pub /\ (Promise!Discard(run.pub) \/ UNCHANGED Promise!vars)
<1>1. site' = site /\ points' = points /\ target' = target
  BY DEF EndJob, stores
<1>2. run.pub \in Pub /\ job[run.pub] \in {"open", "aborting"} /\ site.active # run.pub
  BY DEF SwitchInv, RunInv, Aborts, EndJob, At
<1>3. Fate' = [Fate EXCEPT ![run.pub] = "ended"]
  BY <1>2 DEF SwitchInv, TypeOK, Fate, EndJob
<1>4. CASE job[run.pub] = "open"
  <2>1. Fate[run.pub] = "open"
    BY <1>2, <1>4 DEF Fate
  <2> QED  BY <1>1, <1>2, <1>3, <2>1 DEF Promise!Discard, GateOpen, Answers
<1>5. CASE job[run.pub] = "aborting"
  <2>1. Fate' = Fate
    BY <1>2, <1>3, <1>5 DEF Fate
  <2> QED  BY <1>1, <1>2, <2>1, Stutters DEF GateOpen
<1> QED  BY <1>2, <1>4, <1>5

LEMMA StepRefines ==
  ASSUME Environment, SwitchInv, [Next]_vars
  PROVE  [Promise!Next]_(Promise!vars)
<1> USE DEF Promise!Next
<1>1. CASE \E p \in Pub : \E kept \in SUBSET Pub : Stage(p, kept)
  BY <1>1, StageRefines
<1>2. CASE \E p \in Pub : Restage(p) \/ BeginSwitch(p) \/ BeginAbort(p)
  BY <1>2, RestageRefines, BeginSwitchRefines, BeginAbortRefines
<1>3. CASE Switch
  BY <1>3, LoadContextRefines, RaiseTargetRefines, LowerOthersRefines,
     CommitRefines, FinishRefines, SwitchRaisesRefines DEF Switch
<1>4. CASE Rollback
  BY <1>4, RollbackRaiseRefines, RollbackLowerRefines, RollbackVersionsRefines,
     RollbackProductRefines, RollbackRaisesRefines, RestoreSiteRefines,
     RequireRecoveryRefines, ReleaseRaisesRefines DEF Rollback
<1>5. CASE Abort
  BY <1>5, DiscardPointsRefines, DiscardVersionsRefines, FailProductRefines,
     EndJobRefines, AbortRaisesRefines DEF Abort
<1>6. CASE CutOff
  BY <1>6, CutOffRefines
<1>7. CASE UNCHANGED vars
  BY <1>7, Stutters DEF vars, GateOpen, Fate
<1> QED  BY <1>1, <1>2, <1>3, <1>4, <1>5, <1>6, <1>7 DEF Next

\* The switch over three stores implements an atomic publication: what visitors
\* can be answered from changes only by closing the gate, by reopening it on
\* the same publication, or by opening it on a whole unfinished one.
THEOREM PublicationIsAtomic ==
  ASSUME Environment
  PROVE  Spec => ImplementsAtomicPublication
<1>1. Init => Promise!Init
  BY DEF Init, Promise!Init, GateOpen, Answers, Fate
<1>2. SwitchInv /\ [Next]_vars => [Promise!Next]_(Promise!vars)
  BY StepRefines
<1> QED  BY <1>1, <1>2, SwitchInvariant, PTL
         DEF Spec, ImplementsAtomicPublication, Promise!Spec
=============================================================================
