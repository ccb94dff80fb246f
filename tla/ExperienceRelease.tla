-------------------------- MODULE ExperienceRelease --------------------------
(***************************************************************************)
(* What a tenant's AI learns from its own issues: the learning worker      *)
(* builds a case memory from every issue with an outcome, an operator      *)
(* evaluates and activates a release of case memories, and customer turns  *)
(* are given the active ones as guidance until a guardrail pauses the      *)
(* release or an operator rolls it back.                                   *)
(*                                                                         *)
(* The learning cycle is a sequence of transactions; operators, customers  *)
(* and turns take theirs in between. A turn reads the release, then the    *)
(* memories, then records what it used, in three transactions.             *)
(*                                                                         *)
(* Abstracted: one tenant and the one release version its settings name;   *)
(* an issue per conversation; what a memory says is the revision of the    *)
(* issue it was built from; scores, expiry, sites, intents and risk (a     *)
(* turn picks any eligible memories); sample thresholds (any failed        *)
(* treatment may be enough for a guardrail); batch limits. Patterns and    *)
(* improvement candidates are not modelled.                                *)
(***************************************************************************)
EXTENDS Integers, FiniteSets

CONSTANTS
  Case,          \* issues, and the case memory of each
  NoCase,
  Turn,          \* customer turns that ask for guidance
  MaxChanges,    \* bound: changes of issues
  MaxEvals,      \* bound: evaluation runs
  MaxFaults      \* bound: cycles that fail

ASSUME ExperienceAssumption ==
  /\ NoCase \notin Case
  /\ MaxChanges \in Nat /\ MaxEvals \in Nat /\ MaxFaults \in Nat

VARIABLES
  issue,     \* issue_outcome_episodes
  memory,    \* tenant_case_memories
  release,   \* the experience_releases row; approved is its manifest, each
             \* memory with the content it had when it was activated
  eval,      \* the last completed evaluation run
  turn,      \* retrievals, the guidance they gave and their usage rows
  cycle,     \* where the learning worker is
  building,  \* issues whose rows the open build transaction holds
  change,    \* changes of issues that have a date and are not committed
  deleting,  \* the conversation being deleted, and whether its memory was seen
  changes, evals, faults

bounds == <<changes, evals, faults>>
vars == <<issue, memory, release, eval, turn, cycle, building, change, deleting, bounds>>

Settled == {"good", "bad"}

\* behind: the issue is dated after the memory. late: after the cycle began.
NewIssue == [state |-> "watched", rev |-> 0, late |-> FALSE]
NoMemory == [status |-> "none", rev |-> 0, behind |-> TRUE]
NoChange == [on |-> FALSE, late |-> FALSE, behind |-> FALSE]
NewTurn == [step |-> "new", mode |-> "off", picked |-> {},
            rows |-> {}, verdict |-> "none", judged |-> FALSE]

TypeOK ==
  /\ issue \in [Case -> [state : {"watched", "unknown", "deleted"} \cup Settled,
                         rev : Nat, late : BOOLEAN]]
  /\ memory \in [Case -> [status : {"none", "shadow", "active", "inactive", "stale"},
                          rev : Nat, behind : BOOLEAN]]
  /\ release \in [mode : {"shadow", "active", "off"},
                  status : {"absent", "insufficient_samples", "passed", "failed",
                            "active", "guardrail_paused", "rolled_back"},
                  gate : {"none", "insufficient_samples", "passed", "failed"},
                  approved : SUBSET (Case \X Nat)]
  /\ eval \in [result : {"none", "few", "good", "bad"}, ids : SUBSET Case]
  /\ turn \in [Turn -> [step : {"new", "policy", "read", "done"},
                        mode : {"off", "shadow", "active"},
                        picked : SUBSET (Case \X Nat),
                        rows : SUBSET Case, verdict : {"none"} \cup Settled, judged : BOOLEAN]]
  /\ cycle \in {"idle", "reconcile", "guardrails", "build", "building", "gates"}
  /\ building \subseteq Case
  /\ change \in [Case -> [on : BOOLEAN, late : BOOLEAN, behind : BOOLEAN]]
  /\ deleting \in [case : Case \cup {NoCase}, seen : BOOLEAN]
  /\ changes \in 0..MaxChanges /\ evals \in 0..MaxEvals /\ faults \in 0..MaxFaults

Init ==
  /\ issue = [c \in Case |-> NewIssue]
  /\ memory = [c \in Case |-> NoMemory]
  /\ release = [mode |-> "shadow", status |-> "absent", gate |-> "none", approved |-> {}]
  /\ eval = [result |-> "none", ids |-> {}]
  /\ turn = [t \in Turn |-> NewTurn]
  /\ cycle = "idle" /\ building = {}
  /\ change = [c \in Case |-> NoChange]
  /\ deleting = [case |-> NoCase, seen |-> FALSE]
  /\ changes = 0 /\ evals = 0 /\ faults = 0

Exists(c) == memory[c].status # "none"
Manifest == {p[1] : p \in release.approved}

-----------------------------------------------------------------------------
(* Issues, as conversations, operators and ratings change them             *)

\* An exchange, an operator's reply or resolution, a rating, a reopening: its
\* date is taken first,
DateChange(c) ==
  /\ issue[c].state # "deleted" /\ ~change[c].on
  /\ changes < MaxChanges /\ changes' = changes + 1
  /\ change' = [change EXCEPT ![c] = [on |-> TRUE, late |-> cycle # "idle", behind |-> TRUE]]
  /\ UNCHANGED <<issue, memory, release, eval, turn, cycle, building, deleting, evals, faults>>

\* and written by a transaction that may come much later.
IssueChanges(c, s) ==
  /\ change[c].on /\ c \notin building
  /\ issue' = [issue EXCEPT ![c] = [state |-> s, rev |-> @.rev + 1, late |-> change[c].late]]
  /\ memory' = [memory EXCEPT ![c].behind = Exists(c) => change[c].behind]
  /\ change' = [change EXCEPT ![c] = NoChange]
  /\ UNCHANGED <<release, eval, turn, cycle, building, deleting, bounds>>

\* A conversation's experience is deleted by what the transaction read first.
StartDelete(c) ==
  /\ deleting.case = NoCase /\ issue[c].state # "deleted"
  /\ deleting' = [case |-> c, seen |-> Exists(c)]
  /\ UNCHANGED <<issue, memory, release, eval, turn, cycle, building, change, bounds>>

\* With the issue go its memory, if it was seen, the usages of that memory and
\* those of the conversation's own turns.
FinishDelete(own) ==
  /\ deleting.case # NoCase /\ deleting.case \notin building
  /\ LET c == deleting.case
         gone(t) == IF t \in own THEN turn[t].rows ELSE IF deleting.seen THEN {c} ELSE {}
     IN /\ issue' = [issue EXCEPT ![c].state = "deleted"]
        /\ change' = [change EXCEPT ![c] = NoChange]
        /\ memory' = IF deleting.seen THEN [memory EXCEPT ![c] = NoMemory] ELSE memory
        /\ turn' = [t \in Turn |-> [turn[t] EXCEPT !.rows = @ \ gone(t)]]
  /\ deleting' = [case |-> NoCase, seen |-> FALSE]
  /\ UNCHANGED <<release, eval, cycle, building, bounds>>

\* Who writes a memory dates it: now, after every change that has a date, or,
\* in the learning cycle, with the moment the cycle began.
DatedNow(cs) ==
  change' = [c \in Case |-> IF c \in cs THEN [change[c] EXCEPT !.behind = FALSE] ELSE change[c]]

Dated(c, m) == [m EXCEPT !.behind = issue[c].late]

DatedByCycle(cs) ==
  change' = [c \in Case |-> IF c \in cs THEN [change[c] EXCEPT !.behind = change[c].late]
                            ELSE change[c]]

\* Memories that depend on knowledge or a policy that is gone.
Invalidate(cs) ==
  /\ cs # {} /\ \A c \in cs : memory[c].status \notin {"none", "stale"}
  /\ memory' = [c \in Case |-> IF c \in cs THEN [memory[c] EXCEPT !.status = "stale",
                                                                  !.behind = FALSE]
                               ELSE memory[c]]
  /\ DatedNow(cs)
  /\ UNCHANGED <<issue, release, eval, turn, cycle, building, deleting, bounds>>

-----------------------------------------------------------------------------
(* The learning cycle                                                      *)

CycleEnds ==
  /\ cycle' = "idle"
  /\ issue' = [c \in Case |-> [issue[c] EXCEPT !.late = FALSE]]
  /\ change' = [c \in Case |-> [change[c] EXCEPT !.late = FALSE]]

StartCycle ==
  /\ cycle = "idle" /\ cycle' = "reconcile"
  /\ UNCHANGED <<issue, memory, release, eval, turn, building, change, deleting, bounds>>

\* Usages whose turn has an outcome and was not judged before.
Due == {t \in Turn : turn[t].rows # {} /\ turn[t].verdict # "none" /\ ~turn[t].judged}
Credited == {c \in Case : Exists(c) /\ \E t \in Due : c \in turn[t].rows}

\* Issues nobody touched for a week are censored, outcomes reach the usages
\* and the counters of the memories.
Reconcile(old) ==
  /\ cycle = "reconcile" /\ cycle' = "guardrails"
  /\ \A c \in old : issue[c].state = "watched" /\ ~issue[c].late
  /\ issue' = [c \in Case |-> IF c \in old THEN [issue[c] EXCEPT !.state = "unknown"]
                              ELSE issue[c]]
  /\ turn' = [t \in Turn |-> [turn[t] EXCEPT !.judged = @ \/ t \in Due]]
  /\ memory' = [c \in Case |-> IF c \in Credited THEN Dated(c, memory[c]) ELSE memory[c]]
  /\ DatedByCycle(Credited)
  /\ UNCHANGED <<release, eval, building, deleting, bounds>>

Failed(t) == turn[t].rows # {} /\ turn[t].judged /\ turn[t].verdict = "bad"
Harmful == {c \in Case : Exists(c) /\ \E t \in Turn : Failed(t) /\ c \in turn[t].rows}

Paused == [release EXCEPT !.mode = "shadow", !.status = "guardrail_paused"]

Guardrails(pause, bad) ==
  /\ cycle = "guardrails" /\ cycle' = "build"
  /\ release.status # "active" => ~pause /\ bad = {}
  /\ pause => \E t \in Turn : Failed(t)
  /\ bad \subseteq Harmful
  /\ release' = IF pause THEN Paused ELSE release
  /\ memory' = [c \in Case |->
                  IF c \in bad THEN Dated(c, [memory[c] EXCEPT !.status = "inactive"])
                  ELSE memory[c]]
  /\ DatedByCycle(bad)
  /\ UNCHANGED <<issue, eval, turn, building, deleting, bounds>>

\* Mutant: only successes are learned.
Pending_Successes(c) == issue[c].state = "good" /\ memory[c].behind

\* An issue with an outcome and no memory as new as it.
Pending(c) == issue[c].state \in Settled /\ memory[c].behind

StartBuild ==
  /\ cycle = "build" /\ cycle' = "building"
  /\ building' = {c \in Case : Pending(c)}
  /\ UNCHANGED <<issue, memory, release, eval, turn, change, deleting, bounds>>

\* Mutant: a rebuilt memory keeps its status.
Built_KeepsStatus(c) ==
  Dated(c, [NoMemory EXCEPT !.rev = issue[c].rev,
                            !.status = IF Exists(c) THEN memory[c].status ELSE "shadow"])

\* Whatever a memory was, built again it is a shadow.
Built(c) == Dated(c, [NoMemory EXCEPT !.rev = issue[c].rev, !.status = "shadow"])

FinishBuild ==
  /\ cycle = "building" /\ cycle' = "gates"
  /\ memory' = [c \in Case |-> IF c \in building THEN Built(c) ELSE memory[c]]
  /\ building' = {} /\ DatedByCycle(building)
  /\ UNCHANGED <<issue, release, eval, turn, deleting, bounds>>

\* Mutant: the result of the run is stored as it is.
Verdict_Raw == eval.result

Verdict == CASE eval.result \in {"none", "few"} -> "insufficient_samples"
             [] eval.result = "good" -> "passed"
             [] eval.result = "bad" -> "failed"

\* The verdict replaces the status of the release, whatever it was.
Gates ==
  /\ cycle = "gates" /\ CycleEnds
  /\ release' = [release EXCEPT !.gate = Verdict, !.status = Verdict]
  /\ UNCHANGED <<memory, eval, turn, building, deleting, bounds>>

\* A step raises or the process dies; the worker starts over.
CycleFails ==
  /\ cycle # "idle" /\ faults < MaxFaults
  /\ CycleEnds /\ building' = {} /\ faults' = faults + 1
  /\ UNCHANGED <<memory, release, eval, turn, deleting, changes, evals>>

Cycle ==
  \/ StartCycle
  \/ \E old \in SUBSET Case : Reconcile(old)
  \/ \E pause \in BOOLEAN, bad \in SUBSET Case : Guardrails(pause, bad)
  \/ StartBuild
  \/ FinishBuild
  \/ Gates

-----------------------------------------------------------------------------
(* The operator                                                            *)

\* The ids are the operator's; nothing compares them with the memories.
RecordEval(result, ids) ==
  /\ evals < MaxEvals /\ evals' = evals + 1
  /\ ids # {}
  /\ eval' = [result |-> result, ids |-> ids]
  /\ UNCHANGED <<issue, memory, release, turn, cycle, building, change, deleting, changes, faults>>

Available == {c \in Case : memory[c].status \in {"shadow", "active"}}

\* Mutant: a release is refused only while it is active.
Activatable_Twice == release.gate = "passed" /\ release.status # "active"

Activatable == release.gate = "passed" /\ release.status # "active" /\ release.approved = {}

ActivateRelease(selected) ==
  /\ Activatable /\ eval.result # "none"
  /\ selected # {} /\ selected \subseteq Available /\ selected \subseteq eval.ids
  /\ memory' = [c \in Case |->
                  IF c \in selected THEN [memory[c] EXCEPT !.status = "active", !.behind = FALSE]
                  ELSE memory[c]]
  /\ release' = [release EXCEPT !.mode = "active", !.status = "active",
                                !.approved = {<<c, memory[c].rev>> : c \in selected}]
  /\ DatedNow(selected)
  /\ UNCHANGED <<issue, eval, turn, cycle, building, deleting, bounds>>

\* Mutant: the status of the release is trusted to keep its memories away.
Withdrawn_Nothing == {}

\* The active memories of the release, all of them when it has no manifest.
Withdrawn == {c \in Case : memory[c].status = "active" /\ (Manifest # {} => c \in Manifest)}

RollBack ==
  /\ release.status # "absent"
  /\ memory' = [c \in Case |->
                  IF c \in Withdrawn THEN [memory[c] EXCEPT !.status = "shadow", !.behind = FALSE]
                  ELSE memory[c]]
  /\ release' = [release EXCEPT !.mode = "off", !.status = "rolled_back"]
  /\ DatedNow(Withdrawn)
  /\ UNCHANGED <<issue, eval, turn, cycle, building, deleting, bounds>>

-----------------------------------------------------------------------------
(* A customer turn                                                         *)

\* The mode the service works in; without a release it is the configured one.
ModeRead ==
  CASE release.status = "rolled_back" -> "off"
    [] release.mode = "active" /\ release.status # "active" -> "shadow"
    [] OTHER -> release.mode

ReadPolicy(t) ==
  /\ turn[t].step = "new"
  /\ turn' = [turn EXCEPT ![t].mode = ModeRead,
                          ![t].step = IF ModeRead = "off" THEN "done" ELSE "policy"]
  /\ UNCHANGED <<issue, memory, release, eval, cycle, building, change, deleting, bounds>>

Served(mode) == IF mode = "shadow" THEN {"active", "shadow"} ELSE {"active"}

Eligible(t) ==
  {c \in Case : /\ release.status # "rolled_back"
                /\ memory[c].status \in Served(turn[t].mode)
                /\ Manifest # {} => c \in Manifest}

ReadStore(t, cs) ==
  /\ turn[t].step = "policy" /\ cs \subseteq Eligible(t)
  /\ turn' = [turn EXCEPT ![t].step = "read",
                          ![t].picked = {<<c, memory[c].rev>> : c \in cs}]
  /\ UNCHANGED <<issue, memory, release, eval, cycle, building, change, deleting, bounds>>

\* The usages are recorded before the guidance is given; if that fails, none is.
Record(t, stored, treated) ==
  /\ turn[t].step = "read"
  /\ turn' = [turn EXCEPT ![t] =
       IF stored /\ treated /\ turn[t].mode = "active"
       THEN [turn[t] EXCEPT !.step = "done", !.rows = {p[1] : p \in turn[t].picked}]
       ELSE [NewTurn EXCEPT !.step = "done"]]
  /\ UNCHANGED <<issue, memory, release, eval, cycle, building, change, deleting, bounds>>

\* The issue of the turn itself gets an outcome.
TurnSettles(t, verdict) ==
  /\ turn[t].step = "done" /\ turn[t].rows # {} /\ turn[t].verdict = "none"
  /\ turn' = [turn EXCEPT ![t].verdict = verdict]
  /\ UNCHANGED <<issue, memory, release, eval, cycle, building, change, deleting, bounds>>

-----------------------------------------------------------------------------
Next ==
  \/ Cycle
  \/ CycleFails
  \/ \E c \in Case : \/ DateChange(c) \/ StartDelete(c)
                     \/ \E s \in {"watched"} \cup Settled : IssueChanges(c, s)
  \/ \E own \in SUBSET Turn : FinishDelete(own)
  \/ \E cs \in SUBSET Case : Invalidate(cs) \/ ActivateRelease(cs)
  \/ \E r \in {"few", "good", "bad"}, ids \in SUBSET Case : RecordEval(r, ids)
  \/ RollBack
  \/ \E t \in Turn :
       \/ ReadPolicy(t)
       \/ \E cs \in SUBSET Case : ReadStore(t, cs)
       \/ \E stored, treated \in BOOLEAN : Record(t, stored, treated)
       \/ \E v \in Settled : TurnSettles(t, v)

Spec == Init /\ [][Next]_vars

\* The worker is a loop, restarted when it fails.
FairSpec == Spec /\ WF_vars(Cycle)

-----------------------------------------------------------------------------
(* Properties                                                              *)

\* "The activation creates an immutable manifest": a release is activated
\* once, and when a guardrail or an operator has stopped it, it never comes
\* back, although the gates go on giving it the status of their verdict.
StoppedStaysStopped ==
  [][release.approved # {} =>
       /\ release'.approved = release.approved
       /\ release.mode # "active" => release'.mode # "active"]_vars

\* Guidance a turn was given is a memory of the manifest, with the content it
\* had when it was activated: not one that was built again since, however
\* the turn's reads fall between the steps of the others.
GuidanceWasApproved ==
  \A t \in Turn : turn[t].rows # {} => turn[t].picked \subseteq release.approved

\* "rollback immediately excludes the manifest and returns its operational
\* cases to Shadow": a turn that read the release while it was active finds no
\* memory once it is rolled back, also when the gates have replaced its status.
NothingIsGivenAfterRollback ==
  [][\A t \in Turn :
       release.mode = "off" /\ turn[t].mode = "active" /\ turn[t].step = "policy"
       => turn'[t].picked = {}]_vars

\* Someone dated the memory at or after the outcome, and it was built before.
Overtaken(c) == Exists(c) /\ ~memory[c].behind

Learned(c) == Exists(c) /\ memory[c].rev = issue[c].rev

\* The first outcome of an issue and every later one that changes it is
\* learned, however long the change took to commit and whatever fails or is
\* deleted meanwhile, unless the memory it revises is overtaken: an outcome is
\* never left in between, neither learned nor older than its memory.
OutcomesAreLearnedOrOvertaken ==
  \A c \in Case : (issue[c].state \in Settled /\ ~Learned(c))
                  ~> (Learned(c) \/ Overtaken(c) \/ issue[c].state \notin Settled)

\* Every outcome is learned, the revised ones too. Violated: whoever writes the
\* memory of an issue before the build, a credit or a rollback for example,
\* dates it after the revision, which then counts as learned.
EveryOutcomeIsLearned ==
  \A c \in Case : (issue[c].state \in Settled /\ ~Learned(c))
                  ~> (Learned(c) \/ issue[c].state \notin Settled)
=============================================================================
