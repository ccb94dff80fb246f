----------------------- MODULE ExperienceReleaseProofs -----------------------
(***************************************************************************)
(* For any number of issues, turns, evaluations and failing cycles: what a *)
(* turn is given was approved, a stopped release stays stopped, and after  *)
(* a rollback nothing of the release is found any more.                    *)
(***************************************************************************)
EXTENDS ExperienceRelease, TLAPS

\* An active memory is in the manifest with the content it has; none is active
\* when the release is off.
MemoryInv ==
  /\ release.mode = "active" => release.approved # {}
  /\ \A c \in Case : memory[c].status = "active" => <<c, memory[c].rev>> \in release.approved
  /\ release.mode = "off" => \A c \in Case : memory[c].status # "active"

\* A turn that works under an active release picked what was approved, and only
\* such a turn has guidance.
TurnInv ==
  \A t \in Turn :
    /\ turn[t].step \in {"new", "policy"} => turn[t].picked = {} /\ turn[t].rows = {}
    /\ turn[t].mode = "active" => turn[t].picked \subseteq release.approved
    /\ turn[t].rows # {} => turn[t].mode = "active"

ExperienceInv == TypeOK /\ MemoryInv /\ TurnInv

-----------------------------------------------------------------------------
(* Types *)

IssueRow == [state : {"watched", "unknown", "deleted"} \cup Settled,
             rev : Nat, late : BOOLEAN]
MemoryRow == [status : {"none", "shadow", "active", "inactive", "stale"},
              rev : Nat, behind : BOOLEAN]
ChangeRow == [on : BOOLEAN, late : BOOLEAN, behind : BOOLEAN]
TurnRow == [step : {"new", "policy", "read", "done"}, mode : {"off", "shadow", "active"},
            picked : SUBSET (Case \X Nat),
            rows : SUBSET Case, verdict : {"none"} \cup Settled, judged : BOOLEAN]
ReleaseRow == [mode : {"shadow", "active", "off"},
               status : {"absent", "insufficient_samples", "passed", "failed",
                         "active", "guardrail_paused", "rolled_back"},
               gate : {"none", "insufficient_samples", "passed", "failed"},
               approved : SUBSET (Case \X Nat)]

LEMMA Rows ==
  ASSUME TypeOK
  PROVE  /\ issue \in [Case -> IssueRow] /\ memory \in [Case -> MemoryRow]
         /\ turn \in [Turn -> TurnRow] /\ release \in ReleaseRow
         /\ change \in [Case -> ChangeRow]
BY DEF TypeOK, IssueRow, MemoryRow, TurnRow, ReleaseRow, ChangeRow

LEMMA InitType == Init => TypeOK
BY ExperienceAssumption DEF Init, TypeOK, NewIssue, NoMemory, NewTurn, NoChange, Settled

LEMMA DatedType ==
  ASSUME TypeOK, NEW c \in Case, NEW m \in MemoryRow
  PROVE  /\ Dated(c, m) \in MemoryRow
         /\ Dated(c, m).status = m.status /\ Dated(c, m).rev = m.rev
<1>1. issue[c].late \in BOOLEAN
  BY DEF TypeOK
<1> QED  BY <1>1 DEF Dated, MemoryRow

LEMMA BuiltType ==
  ASSUME TypeOK, NEW c \in Case
  PROVE  Built(c) \in MemoryRow /\ Built(c).status = "shadow"
<1>1. [NoMemory EXCEPT !.rev = issue[c].rev, !.status = "shadow"] \in MemoryRow
  BY DEF TypeOK, NoMemory, MemoryRow
<1>2. [NoMemory EXCEPT !.rev = issue[c].rev, !.status = "shadow"].status = "shadow"
  BY DEF NoMemory
<1> QED  BY <1>1, <1>2, DatedType DEF Built

\* Who dates memories, or ends the cycle, keeps the dates of the changes.
LEMMA ChangeType ==
  ASSUME TypeOK,
         \/ \E cs \in SUBSET Case : DatedNow(cs) \/ DatedByCycle(cs)
         \/ CycleEnds
  PROVE  change' \in [Case -> ChangeRow]
<1>1. ASSUME NEW c \in Case
      PROVE  /\ change[c] \in ChangeRow /\ [change[c] EXCEPT !.behind = FALSE] \in ChangeRow
             /\ [change[c] EXCEPT !.behind = change[c].late] \in ChangeRow
             /\ [change[c] EXCEPT !.late = FALSE] \in ChangeRow
  BY Rows DEF ChangeRow
<1>2. ASSUME NEW cs \in SUBSET Case, DatedNow(cs)
      PROVE  change' \in [Case -> ChangeRow]
  BY <1>1, <1>2 DEF DatedNow
<1>3. ASSUME NEW cs \in SUBSET Case, DatedByCycle(cs)
      PROVE  change' \in [Case -> ChangeRow]
  BY <1>1, <1>3 DEF DatedByCycle
<1>4. CASE CycleEnds
  BY <1>1, <1>4 DEF CycleEnds
<1> QED  BY <1>2, <1>3, <1>4

\* Where only memories change, each to a row.
LEMMA MemoryType ==
  ASSUME TypeOK, memory' \in [Case -> MemoryRow], change' \in [Case -> ChangeRow],
         UNCHANGED <<issue, release, eval, turn, deleting, bounds>>,
         cycle' \in {"idle", "reconcile", "guardrails", "build", "building", "gates"},
         building' \subseteq Case
  PROVE  TypeOK'
BY DEF TypeOK, MemoryRow, ChangeRow, bounds

LEMMA TurnType ==
  ASSUME TypeOK, turn' \in [Turn -> TurnRow],
         UNCHANGED <<issue, memory, release, eval, cycle, building, change, deleting, bounds>>
  PROVE  TypeOK'
BY DEF TypeOK, TurnRow, bounds

LEMMA IssueType ==
  ASSUME TypeOK, NEW c \in Case,
         \/ DateChange(c) \/ StartDelete(c)
         \/ \E st \in {"watched"} \cup Settled : IssueChanges(c, st)
  PROVE  TypeOK'
<1>1. ASSUME NEW st \in {"watched"} \cup Settled, IssueChanges(c, st)
      PROVE  TypeOK'
  <2>1. issue' \in [Case -> IssueRow]
    BY <1>1, Rows DEF IssueChanges, IssueRow, ChangeRow
  <2>2. memory' \in [Case -> MemoryRow]
    <3> DEFINE older == Exists(c) => change[c].behind
    <3>1. older \in BOOLEAN
      OBVIOUS
    <3>2. memory' = [memory EXCEPT ![c].behind = older]
      BY <1>1 DEF IssueChanges
    <3> HIDE DEF older
    <3> QED  BY <3>1, <3>2, Rows DEF MemoryRow
  <2>3. change' \in [Case -> ChangeRow]
    BY <1>1, Rows DEF IssueChanges, NoChange, ChangeRow
  <2> QED
    BY <1>1, <2>1, <2>2, <2>3 DEF IssueChanges, TypeOK, IssueRow, MemoryRow, ChangeRow, bounds
<1>2. CASE StartDelete(c)
  BY <1>2 DEF StartDelete, TypeOK, Exists, bounds
<1>3. CASE DateChange(c)
  <2>1. change' \in [Case -> ChangeRow]
    BY <1>3, Rows DEF DateChange, ChangeRow
  <2>2. changes' \in 0..MaxChanges
    BY <1>3, ExperienceAssumption DEF DateChange, TypeOK
  <2> QED  BY <1>3, <2>1, <2>2 DEF DateChange, TypeOK, ChangeRow
<1> QED  BY <1>1, <1>2, <1>3

LEMMA DeleteType ==
  ASSUME TypeOK, NEW own \in SUBSET Turn, FinishDelete(own)
  PROVE  TypeOK'
<1>1. deleting.case \in Case
  BY DEF FinishDelete, TypeOK
<1>2. issue' \in [Case -> IssueRow]
  BY <1>1, Rows DEF FinishDelete, IssueRow
<1>3. NoMemory \in MemoryRow
  BY DEF NoMemory, MemoryRow
<1>4. memory' \in [Case -> MemoryRow]
  BY <1>1, <1>3, Rows DEF FinishDelete
<1>5. turn' \in [Turn -> TurnRow]
  <2>1. \A t \in Turn : \A cs : [turn[t] EXCEPT !.rows = @ \ cs] \in TurnRow
    BY Rows DEF TurnRow
  <2> QED  BY <2>1, Rows DEF FinishDelete
<1>6. deleting' = [case |-> NoCase, seen |-> FALSE]
      /\ UNCHANGED <<release, eval, cycle, building, bounds>>
  BY DEF FinishDelete
<1>7. change' \in [Case -> ChangeRow]
  BY <1>1, Rows DEF FinishDelete, NoChange, ChangeRow
<1> QED
  BY <1>2, <1>4, <1>5, <1>6, <1>7 DEF TypeOK, IssueRow, MemoryRow, TurnRow, ChangeRow, bounds

LEMMA InvalidateType ==
  ASSUME TypeOK, NEW cs \in SUBSET Case, Invalidate(cs)
  PROVE  TypeOK'
<1>1. memory' \in [Case -> MemoryRow]
  BY Rows DEF Invalidate, MemoryRow
<1> QED  BY <1>1, MemoryType, ChangeType DEF Invalidate, TypeOK

LEMMA CycleEndsType ==
  ASSUME TypeOK, CycleEnds
  PROVE  cycle' = "idle" /\ issue' \in [Case -> IssueRow] /\ change' \in [Case -> ChangeRow]
BY Rows, ChangeType DEF CycleEnds, IssueRow

LEMMA ReconcileType ==
  ASSUME TypeOK, NEW old \in SUBSET Case, Reconcile(old)
  PROVE  TypeOK'
<1>1. issue' \in [Case -> IssueRow]
  BY Rows DEF Reconcile, IssueRow
<1>2. turn' \in [Turn -> TurnRow]
  <2>1. \A t \in Turn : [turn[t] EXCEPT !.judged = @ \/ t \in Due] \in TurnRow
    <3> SUFFICES ASSUME NEW t \in Turn
                 PROVE  [turn[t] EXCEPT !.judged = @ \/ t \in Due] \in TurnRow
      OBVIOUS
    <3>1. turn[t] \in TurnRow
      BY Rows
    <3>2. (turn[t].judged \/ t \in Due) \in BOOLEAN
      BY <3>1
    <3> QED  BY <3>1, <3>2 DEF TurnRow
  <2> QED  BY <2>1, Rows DEF Reconcile
<1>3. memory' \in [Case -> MemoryRow]
  BY Rows, DatedType DEF Reconcile
<1>4. cycle' = "guardrails" /\ UNCHANGED <<release, eval, building, deleting, bounds>>
  BY DEF Reconcile
<1>5. change' \in [Case -> ChangeRow]
  BY ChangeType DEF Reconcile, Credited
<1> QED
  BY <1>1, <1>2, <1>3, <1>4, <1>5 DEF TypeOK, IssueRow, MemoryRow, TurnRow, ChangeRow, bounds

LEMMA GuardrailsType ==
  ASSUME TypeOK, NEW pause \in BOOLEAN, NEW bad \in SUBSET Case, Guardrails(pause, bad)
  PROVE  TypeOK'
<1>1. release' \in ReleaseRow
  BY Rows DEF Guardrails, Paused, ReleaseRow
<1>2. \A c \in Case : [memory[c] EXCEPT !.status = "inactive"] \in MemoryRow
  BY Rows DEF MemoryRow
<1>3. memory' \in [Case -> MemoryRow]
  BY <1>2, Rows, DatedType DEF Guardrails
<1>4. change' \in [Case -> ChangeRow]
  BY ChangeType DEF Guardrails
<1> QED  BY <1>1, <1>3, <1>4 DEF Guardrails, TypeOK, ReleaseRow, MemoryRow, ChangeRow, bounds

LEMMA FinishBuildType ==
  ASSUME TypeOK, FinishBuild
  PROVE  TypeOK'
<1>1. memory' \in [Case -> MemoryRow]
  BY Rows, BuiltType DEF FinishBuild
<1>2. change' \in [Case -> ChangeRow]
  BY ChangeType DEF FinishBuild, TypeOK
<1> QED  BY <1>1, <1>2, MemoryType DEF FinishBuild

LEMMA GatesType ==
  ASSUME TypeOK, Gates
  PROVE  TypeOK'
<1>1. Verdict \in {"insufficient_samples", "passed", "failed"}
  BY DEF Verdict, TypeOK
<1>2. release' \in ReleaseRow
  BY <1>1, Rows DEF Gates, ReleaseRow
<1> QED  BY <1>2, CycleEndsType DEF Gates, TypeOK, ReleaseRow, IssueRow, ChangeRow, bounds

LEMMA CycleType ==
  ASSUME TypeOK, Cycle \/ CycleFails
  PROVE  TypeOK'
<1>1. CASE StartCycle
  BY <1>1 DEF StartCycle, TypeOK, bounds
<1>2. CASE StartBuild
  BY <1>2 DEF StartBuild, TypeOK, bounds
<1>3. CASE CycleFails
  <2>1. faults' \in 0..MaxFaults
    BY <1>3, ExperienceAssumption DEF CycleFails, TypeOK
  <2> QED  BY <1>3, <2>1, CycleEndsType DEF CycleFails, TypeOK, IssueRow, ChangeRow
<1> QED
  BY <1>1, <1>2, <1>3, ReconcileType, GuardrailsType, FinishBuildType, GatesType DEF Cycle

LEMMA OperatorType ==
  ASSUME TypeOK,
         \/ \E r \in {"few", "good", "bad"}, ids \in SUBSET Case : RecordEval(r, ids)
         \/ \E cs \in SUBSET Case : ActivateRelease(cs)
         \/ RollBack
  PROVE  TypeOK'
<1>1. ASSUME NEW r \in {"few", "good", "bad"}, NEW ids \in SUBSET Case, RecordEval(r, ids)
      PROVE  TypeOK'
  BY <1>1, ExperienceAssumption DEF RecordEval, TypeOK
<1>2. ASSUME NEW cs \in SUBSET Case, ActivateRelease(cs)
      PROVE  TypeOK'
  <2>1. memory' \in [Case -> MemoryRow]
    <3>1. \A c \in Case : /\ memory[c] \in MemoryRow
                          /\ [memory[c] EXCEPT !.status = "active", !.behind = FALSE] \in MemoryRow
      BY Rows DEF MemoryRow
    <3> QED  BY <1>2, <3>1 DEF ActivateRelease
  <2>2. {<<c, memory[c].rev>> : c \in cs} \in SUBSET (Case \X Nat)
    BY Rows DEF MemoryRow
  <2>3. release' \in ReleaseRow
    BY <1>2, <2>2, Rows DEF ActivateRelease, ReleaseRow
  <2>4. change' \in [Case -> ChangeRow]
    BY <1>2, ChangeType DEF ActivateRelease
  <2> QED
    BY <1>2, <2>1, <2>3, <2>4 DEF ActivateRelease, TypeOK, MemoryRow, ReleaseRow, ChangeRow, bounds
<1>3. CASE RollBack
  <2>1. memory' \in [Case -> MemoryRow]
    BY <1>3, Rows DEF RollBack, MemoryRow
  <2>2. release' \in ReleaseRow
    BY <1>3, Rows DEF RollBack, ReleaseRow
  <2>3. change' \in [Case -> ChangeRow]
    BY <1>3, ChangeType DEF RollBack, Withdrawn
  <2> QED
    BY <1>3, <2>1, <2>2, <2>3 DEF RollBack, TypeOK, MemoryRow, ReleaseRow, ChangeRow, bounds
<1> QED  BY <1>1, <1>2, <1>3

LEMMA TurnStepType ==
  ASSUME TypeOK, NEW t \in Turn,
         \/ ReadPolicy(t)
         \/ \E cs \in SUBSET Case : ReadStore(t, cs)
         \/ \E stored, treated \in BOOLEAN : Record(t, stored, treated)
         \/ \E v \in Settled : TurnSettles(t, v)
  PROVE  TypeOK'
<1>1. CASE ReadPolicy(t)
  <2>1. ModeRead \in {"off", "shadow", "active"}
    BY Rows DEF ModeRead, ReleaseRow
  <2>2. turn' \in [Turn -> TurnRow]
    BY <1>1, <2>1, Rows DEF ReadPolicy, TurnRow
  <2> QED  BY <1>1, <2>2, TurnType DEF ReadPolicy
<1>2. ASSUME NEW cs \in SUBSET Case, ReadStore(t, cs)
      PROVE  TypeOK'
  <2> DEFINE found == {<<c, memory[c].rev>> : c \in cs}
  <2>1. found \in SUBSET (Case \X Nat)
    BY Rows DEF MemoryRow
  <2>2. /\ turn' \in [Turn -> TurnRow] <=> turn'[t] \in TurnRow
        /\ turn'[t] = [turn[t] EXCEPT !.step = "read", !.picked = found]
    BY <1>2, Rows DEF ReadStore
  <2> HIDE DEF found
  <2>3. turn' \in [Turn -> TurnRow]
    <3>1. turn[t] \in TurnRow
      BY Rows
    <3>2. [turn[t] EXCEPT !.step = "read", !.picked = found] \in TurnRow
      BY <2>1, <3>1 DEF TurnRow
    <3> QED  BY <2>2, <3>2
  <2> QED  BY <1>2, <2>3, TurnType DEF ReadStore
<1>3. ASSUME NEW stored \in BOOLEAN, NEW treated \in BOOLEAN, Record(t, stored, treated)
      PROVE  TypeOK'
  <2>1. {p[1] : p \in turn[t].picked} \in SUBSET Case
    BY Rows DEF TurnRow
  <2>2. [turn[t] EXCEPT !.step = "done", !.rows = {p[1] : p \in turn[t].picked}] \in TurnRow
    <3>1. turn[t] \in TurnRow
      BY Rows
    <3> QED  BY <2>1, <3>1 DEF TurnRow
  <2>3. [NewTurn EXCEPT !.step = "done"] \in TurnRow
    BY DEF NewTurn, TurnRow
  <2>4. turn' \in [Turn -> TurnRow]
    BY <1>3, <2>2, <2>3, Rows DEF Record
  <2> QED  BY <1>3, <2>4, TurnType DEF Record
<1>4. ASSUME NEW v \in Settled, TurnSettles(t, v)
      PROVE  TypeOK'
  <2>1. turn' \in [Turn -> TurnRow]
    BY <1>4, Rows DEF TurnSettles, TurnRow
  <2> QED  BY <1>4, <2>1, TurnType DEF TurnSettles
<1> QED  BY <1>1, <1>2, <1>3, <1>4

LEMMA NextType == TypeOK /\ [Next]_vars => TypeOK'
<1>1. TypeOK /\ UNCHANGED vars => TypeOK'
  BY DEF TypeOK, vars, bounds
<1> QED
  BY <1>1, IssueType, DeleteType, InvalidateType, CycleType, OperatorType, TurnStepType DEF Next

\* Every row, read and transaction stays in its declared domain.
THEOREM ExperienceTypeCorrect == Spec => []TypeOK
BY InitType, NextType, PTL DEF Spec

-----------------------------------------------------------------------------
(* The memories and the release *)

\* No step but an activation makes a memory active, or changes one that is.
LEMMA NoneBecomesActive ==
  ASSUME TypeOK, [Next]_vars, NEW c \in Case, memory'[c].status = "active",
         ~\E cs \in SUBSET Case : ActivateRelease(cs)
  PROVE  memory[c].status = "active" /\ memory'[c].rev = memory[c].rev
<1>1. memory \in [Case -> MemoryRow]
  BY Rows
<1>2. ASSUME NEW own \in SUBSET Turn, FinishDelete(own)
      PROVE  memory[c].status = "active" /\ memory'[c].rev = memory[c].rev
  BY <1>1, <1>2 DEF FinishDelete, NoMemory, TypeOK
<1>3. CASE FinishBuild
  BY <1>1, <1>3, BuiltType DEF FinishBuild
<1>4. ASSUME NEW old \in SUBSET Case, Reconcile(old)
      PROVE  memory[c].status = "active" /\ memory'[c].rev = memory[c].rev
  BY <1>1, <1>4, DatedType DEF Reconcile
<1>5. ASSUME NEW pause \in BOOLEAN, NEW bad \in SUBSET Case, Guardrails(pause, bad)
      PROVE  memory[c].status = "active" /\ memory'[c].rev = memory[c].rev
  <2>1. [memory[c] EXCEPT !.status = "inactive"] \in MemoryRow
        /\ [memory[c] EXCEPT !.status = "inactive"].status = "inactive"
    BY <1>1 DEF MemoryRow
  <2>2. c \in bad => memory'[c].status = "inactive"
    BY <1>5, <2>1, DatedType DEF Guardrails
  <2> QED  BY <1>5, <2>2 DEF Guardrails
<1>6. ASSUME NEW d \in Case, NEW st \in {"watched"} \cup Settled, IssueChanges(d, st)
      PROVE  memory[c].status = "active" /\ memory'[c].rev = memory[c].rev
  BY <1>1, <1>6 DEF IssueChanges, MemoryRow
<1>7. ASSUME NEW cs \in SUBSET Case, Invalidate(cs)
      PROVE  memory[c].status = "active" /\ memory'[c].rev = memory[c].rev
  BY <1>1, <1>7 DEF Invalidate, MemoryRow
<1>8. CASE RollBack
  BY <1>1, <1>8 DEF RollBack, MemoryRow
<1>9. CASE UNCHANGED memory
  BY <1>9
<1>10. \/ UNCHANGED memory \/ FinishBuild \/ RollBack
       \/ \E own \in SUBSET Turn : FinishDelete(own)
       \/ \E old \in SUBSET Case : Reconcile(old)
       \/ \E pause \in BOOLEAN, bad \in SUBSET Case : Guardrails(pause, bad)
       \/ \E d \in Case, st \in {"watched"} \cup Settled : IssueChanges(d, st)
       \/ \E cs \in SUBSET Case : Invalidate(cs)
  BY DEF Next, Cycle, vars, DateChange, StartDelete, StartCycle, StartBuild, Gates, CycleFails,
         RecordEval, ReadPolicy, ReadStore, Record, TurnSettles
<1> QED  BY <1>2, <1>3, <1>4, <1>5, <1>6, <1>7, <1>8, <1>9, <1>10

\* How a step changes the release.
LEMMA ReleaseSteps ==
  ASSUME TypeOK, [Next]_vars
  PROVE  \/ UNCHANGED <<release>>
         \/ release' = Paused
         \/ Gates
         \/ \E cs \in SUBSET Case : ActivateRelease(cs)
         \/ RollBack
BY DEF Next, Cycle, vars, DateChange, IssueChanges, StartDelete, FinishDelete, Invalidate,
       StartCycle, Reconcile, Guardrails, StartBuild, FinishBuild, CycleFails, RecordEval,
       ReadPolicy, ReadStore, Record, TurnSettles

LEMMA ActivationKeepsMemory ==
  ASSUME TypeOK, MemoryInv, NEW cs \in SUBSET Case, ActivateRelease(cs)
  PROVE  MemoryInv'
<1>1. release'.mode = "active" /\ release'.approved = {<<c, memory[c].rev>> : c \in cs}
  BY Rows DEF ActivateRelease, ReleaseRow
<1>2. release'.approved # {}
  BY <1>1 DEF ActivateRelease
<1>3. ASSUME NEW c \in Case, memory'[c].status = "active"
      PROVE  <<c, memory'[c].rev>> \in release'.approved
  <2>1. CASE c \in cs
    BY <1>1, <2>1, Rows DEF ActivateRelease, MemoryRow
  <2>2. CASE c \notin cs
    BY <1>3, <2>2 DEF ActivateRelease, Activatable, MemoryInv
  <2> QED  BY <2>1, <2>2
<1> QED  BY <1>1, <1>2, <1>3 DEF MemoryInv

LEMMA RollBackKeepsMemory ==
  ASSUME TypeOK, MemoryInv, RollBack
  PROVE  MemoryInv'
<1>1. release'.mode = "off" /\ release'.approved = release.approved
  BY Rows DEF RollBack, ReleaseRow
<1>2. ASSUME NEW c \in Case
      PROVE  memory'[c].status # "active"
  <2>1. CASE memory[c].status = "active"
    <3>1. <<c, memory[c].rev>> \in release.approved
      BY <2>1 DEF MemoryInv
    <3>2. c \in Withdrawn
      BY <2>1, <3>1 DEF Withdrawn, Manifest
    <3> QED  BY <3>2, Rows DEF RollBack, MemoryRow
  <2>2. CASE memory[c].status # "active"
    BY <2>2 DEF RollBack, Withdrawn
  <2> QED  BY <2>1, <2>2
<1> QED  BY <1>1, <1>2 DEF MemoryInv

LEMMA NextKeepsMemory ==
  ASSUME TypeOK, MemoryInv, [Next]_vars
  PROVE  MemoryInv'
<1>1. CASE \E cs \in SUBSET Case : ActivateRelease(cs)
  BY <1>1, ActivationKeepsMemory
<1>2. CASE RollBack
  BY <1>2, RollBackKeepsMemory
<1>3. CASE ~(\E cs \in SUBSET Case : ActivateRelease(cs)) /\ ~RollBack
  <2>1. release'.approved = release.approved
    BY <1>3, ReleaseSteps, Rows DEF Paused, Gates, ReleaseRow
  <2>2. release'.mode = release.mode \/ release'.mode = "shadow"
    BY <1>3, ReleaseSteps, Rows DEF Paused, Gates, ReleaseRow
  <2>3. \A c \in Case : memory'[c].status = "active" =>
          memory[c].status = "active" /\ memory'[c].rev = memory[c].rev
    BY <1>3, NoneBecomesActive
  <2> QED  BY <2>1, <2>2, <2>3 DEF MemoryInv
<1> QED  BY <1>1, <1>2, <1>3

\* A release is activated once; a stopped one does not come back.
LEMMA StoppedStays ==
  ASSUME TypeOK, [Next]_vars, release.approved # {}
  PROVE  /\ release'.approved = release.approved
         /\ release.mode # "active" => release'.mode # "active"
<1>1. ~\E cs \in SUBSET Case : ActivateRelease(cs)
  BY DEF ActivateRelease, Activatable
<1> QED  BY <1>1, ReleaseSteps, Rows DEF Paused, Gates, RollBack, ReleaseRow

\* The manifest of a release is never replaced, and once a guardrail or an
\* operator stopped the release, no verdict of the gates and no operator
\* activates it again.
THEOREM StoppedReleaseStays == Spec => StoppedStaysStopped
<1>1. TypeOK /\ [Next]_vars =>
        [release.approved # {} =>
           /\ release'.approved = release.approved
           /\ release.mode # "active" => release'.mode # "active"]_vars
  BY StoppedStays
<1> QED  BY <1>1, ExperienceTypeCorrect, PTL DEF Spec, StoppedStaysStopped

-----------------------------------------------------------------------------
(* The turns *)

LEMMA EligibleWasApproved ==
  ASSUME TypeOK, MemoryInv, NEW t \in Turn, turn[t].mode = "active", NEW c \in Eligible(t)
  PROVE  <<c, memory[c].rev>> \in release.approved /\ release.mode # "off"
BY DEF Eligible, Served, MemoryInv

LEMMA TurnStepKeepsTurn ==
  ASSUME TypeOK, MemoryInv, TurnInv, NEW t \in Turn,
         \/ ReadPolicy(t)
         \/ \E cs \in SUBSET Case : ReadStore(t, cs)
         \/ \E stored, treated \in BOOLEAN : Record(t, stored, treated)
         \/ \E v \in Settled : TurnSettles(t, v)
  PROVE  TurnInv'
<1>1. CASE ReadPolicy(t)
  BY <1>1, Rows DEF ReadPolicy, TurnInv, TurnRow
<1>2. ASSUME NEW cs \in SUBSET Case, ReadStore(t, cs)
      PROVE  TurnInv'
  <2>1. turn[t].mode = "active" => {<<c, memory[c].rev>> : c \in cs} \subseteq release.approved
    BY <1>2, EligibleWasApproved DEF ReadStore
  <2>2. turn[t].rows = {}
    BY <1>2 DEF ReadStore, TurnInv
  <2>3. /\ turn' = [turn EXCEPT ![t] = [turn[t] EXCEPT
                     !.step = "read", !.picked = {<<c, memory[c].rev>> : c \in cs}]]
        /\ release' = release /\ turn \in [Turn -> TurnRow]
    BY <1>2, Rows DEF ReadStore
  <2>4. \A u \in Turn \ {t} : turn'[u] = turn[u]
    BY <2>3
  <2>5. /\ turn'[t].step = "read" /\ turn'[t].picked = {<<c, memory[c].rev>> : c \in cs}
        /\ turn'[t].mode = turn[t].mode /\ turn'[t].rows = turn[t].rows
    BY <2>3 DEF TurnRow
  <2> QED  BY <2>1, <2>2, <2>3, <2>4, <2>5 DEF TurnInv
<1>3. ASSUME NEW stored \in BOOLEAN, NEW treated \in BOOLEAN, Record(t, stored, treated)
      PROVE  TurnInv'
  <2>1. \A u \in Turn \ {t} : turn'[u] = turn[u]
    BY <1>3, Rows DEF Record
  <2>2. CASE stored /\ treated /\ turn[t].mode = "active"
    <3>1. turn'[t].step = "done" /\ turn'[t].mode = "active" /\ turn'[t].picked = turn[t].picked
      BY <1>3, <2>2, Rows DEF Record, TurnRow
    <3>2. release' = release
      BY <1>3 DEF Record
    <3> QED  BY <2>1, <2>2, <3>1, <3>2 DEF TurnInv
  <2>3. CASE ~(stored /\ treated /\ turn[t].mode = "active")
    <3>1. turn'[t].step = "done" /\ turn'[t].mode = "off" /\ turn'[t].rows = {}
      BY <1>3, <2>3, Rows DEF Record, NewTurn
    <3> QED  BY <1>3, <2>1, <3>1 DEF Record, TurnInv
  <2> QED  BY <2>2, <2>3
<1>4. ASSUME NEW v \in Settled, TurnSettles(t, v)
      PROVE  TurnInv'
  BY <1>4, Rows DEF TurnSettles, TurnInv, TurnRow
<1> QED  BY <1>1, <1>2, <1>3, <1>4

\* The steps besides those of a turn that change what it recorded.
RowsGoOrAreJudged ==
  \/ \E own \in SUBSET Turn : FinishDelete(own)
  \/ \E old \in SUBSET Case : Reconcile(old)

\* What the other steps leave of a turn.
LEMMA OthersKeepTurn ==
  ASSUME TypeOK, TurnInv, release'.approved = release.approved \/ release.approved = {},
         RowsGoOrAreJudged \/ UNCHANGED turn
  PROVE  TurnInv'
<1>1. ASSUME NEW t \in Turn
      PROVE  /\ turn'[t].step = turn[t].step /\ turn'[t].mode = turn[t].mode
             /\ turn'[t].picked = turn[t].picked /\ turn'[t].rows \subseteq turn[t].rows
  BY Rows DEF RowsGoOrAreJudged, FinishDelete, Reconcile, TurnRow
<1> QED  BY <1>1 DEF TurnInv

LEMMA NextKeepsTurn ==
  ASSUME TypeOK, MemoryInv, TurnInv, [Next]_vars
  PROVE  TurnInv'
<1>1. CASE \E t \in Turn :
             \/ ReadPolicy(t)
             \/ \E cs \in SUBSET Case : ReadStore(t, cs)
             \/ \E stored, treated \in BOOLEAN : Record(t, stored, treated)
             \/ \E v \in Settled : TurnSettles(t, v)
  BY <1>1, TurnStepKeepsTurn
<1>2. RowsGoOrAreJudged \/ UNCHANGED turn => TurnInv'
  BY OthersKeepTurn, StoppedStays
<1> QED
  BY <1>1, <1>2 DEF Next, Cycle, vars, RowsGoOrAreJudged, DateChange, IssueChanges, StartDelete,
     Invalidate, StartCycle, Guardrails, StartBuild, FinishBuild, Gates, CycleFails, RecordEval,
     ActivateRelease, RollBack

\* What holds of memories, release and turns in every state.
THEOREM ExperienceInvariant == Spec => []ExperienceInv
<1>1. Init => MemoryInv /\ TurnInv
  BY DEF Init, MemoryInv, TurnInv, NoMemory, NewTurn
<1>2. ExperienceInv /\ [Next]_vars => ExperienceInv'
  BY NextType, NextKeepsMemory, NextKeepsTurn DEF ExperienceInv
<1> QED  BY <1>1, <1>2, InitType, PTL DEF Spec, ExperienceInv

\* Whatever a turn is given is in the manifest with the content that was
\* activated, however builds, quarantines and rollbacks fall between its reads.
THEOREM GuidanceIsApproved == Spec => []GuidanceWasApproved
<1>1. ExperienceInv => GuidanceWasApproved
  BY DEF ExperienceInv, TurnInv, GuidanceWasApproved
<1> QED  BY <1>1, ExperienceInvariant, PTL

\* A turn that still works in the mode of a release that was rolled back finds
\* no memory, whatever status the gates gave the release since.
THEOREM NothingAfterRollback == Spec => NothingIsGivenAfterRollback
<1> DEFINE Empty == \A t \in Turn :
             release.mode = "off" /\ turn[t].mode = "active" /\ turn[t].step = "policy"
             => turn'[t].picked = {}
<1>1. ASSUME ExperienceInv, [Next]_vars, NEW t \in Turn,
             release.mode = "off", turn[t].mode = "active", turn[t].step = "policy"
      PROVE  turn'[t].picked = {}
  <2>1. turn[t].picked = {} /\ turn \in [Turn -> TurnRow]
    BY <1>1, Rows DEF ExperienceInv, TurnInv
  <2>2. Eligible(t) = {}
    BY <1>1, EligibleWasApproved DEF ExperienceInv
  <2>3. ASSUME NEW u \in Turn,
               \/ ReadPolicy(u)
               \/ \E cs \in SUBSET Case : ReadStore(u, cs)
               \/ \E stored, treated \in BOOLEAN : Record(u, stored, treated)
               \/ \E v \in Settled : TurnSettles(u, v)
        PROVE  turn'[t].picked = {}
    <3>1. CASE u # t
      BY <2>1, <2>3, <3>1 DEF ReadPolicy, ReadStore, Record, TurnSettles
    <3>2. CASE u = t
      <4>1. PICK cs \in SUBSET Case : ReadStore(t, cs)
        BY <1>1, <2>3, <3>2 DEF ReadPolicy, Record, TurnSettles
      <4>2. {<<c, memory[c].rev>> : c \in cs} = {}
        BY <2>2, <4>1 DEF ReadStore
      <4> QED  BY <2>1, <4>1, <4>2 DEF ReadStore, TurnRow
    <3> QED  BY <3>1, <3>2
  <2>4. RowsGoOrAreJudged => turn'[t].picked = {}
    BY <2>1 DEF RowsGoOrAreJudged, FinishDelete, Reconcile, TurnRow
  <2>5. UNCHANGED turn => turn'[t].picked = {}
    BY <2>1
  <2> QED
    BY <1>1, <2>3, <2>4, <2>5 DEF Next, Cycle, vars, RowsGoOrAreJudged, DateChange, IssueChanges,
       StartDelete, Invalidate, StartCycle, Guardrails, StartBuild, FinishBuild, Gates, CycleFails,
       RecordEval, ActivateRelease, RollBack
<1>2. ExperienceInv /\ [Next]_vars => [Empty]_vars
  BY <1>1
<1> QED  BY <1>2, ExperienceInvariant, PTL DEF Spec, NothingIsGivenAfterRollback
=============================================================================
