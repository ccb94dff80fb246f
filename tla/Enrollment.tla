----------------------------- MODULE Enrollment -----------------------------
(***************************************************************************)
(* Self-service enrollment: an enrollment code, a verified email address   *)
(* and a place of the enrollment authority become one new workspace.       *)
(*                                                                         *)
(* Starting an enrollment reserves the code and one place and queues an    *)
(* email with a verification link; the link, while it is good, turns the   *)
(* reservation into a workspace. Places are a counter of their own, kept   *)
(* by increments in four transactions. The mail workers claim queued       *)
(* emails under a lease and mark them in a later step.                     *)
(*                                                                         *)
(* Abstracted: time (an expiry may be reached at any moment and stays; a   *)
(* lease or a retry delay may be over at any moment), policies (one,       *)
(* enabled), replays of an idempotency key and refused calls (they change  *)
(* nothing), rate limits. Active and total workspaces are counted          *)
(* together, as no workspace is ever removed. Of an enrollment's links     *)
(* only the last is kept, since a resend revokes the others.               *)
(***************************************************************************)
EXTENDS Integers, FiniteSets

CONSTANTS
  Code,       \* enrollment codes
  Email,      \* applicants
  EmailOf,    \* the address a code was issued to
  MaxTenants, \* workspaces the authority may have
  Worker,     \* mail workers, one in each API process
  MaxIntents, \* bound: enrollments started
  MaxResends, \* bound: links sent again
  MaxFaults   \* bound: mail workers that die, emails that are not taken

ASSUME EnrollmentAssumption ==
  /\ Code # {} /\ EmailOf \in [Code -> Email]
  /\ MaxTenants \in Nat /\ MaxIntents \in Nat
  /\ MaxResends \in Nat /\ MaxFaults \in Nat

VARIABLES
  code,      \* tenant_enrollment_codes rows
  intent,    \* enrollment_intents rows
  link,      \* the last verification token of each enrollment and its email
  reserved,  \* the authority's reserved_tenant_count
  active,    \* the authority's active_tenant_count
  known,     \* addresses that have an account
  owners,    \* accounts with a self-service workspace
  worker,    \* the links a mail worker claimed, and its place in them
  resends, faults

authority == <<reserved, active>>
accounts == <<known, owners>>
bounds == <<resends, faults>>
vars == <<code, intent, link, reserved, active, known, owners, worker, resends, faults>>

\* The enrollments, one for each idempotency key, numbered as they start.
Intent == 1..MaxIntents
NoIntent == 0

NoRow == [status |-> "none", code |-> CHOOSE c \in Code : TRUE,
          existing |-> FALSE, late |-> FALSE]
NoLink == [n |-> 0, token |-> "none", late |-> FALSE,
           mail |-> "none", arrived |-> FALSE]
IdleWorker == [batch |-> {}, at |-> <<NoIntent, 0>>, step |-> "send"]

Open(i) == intent[i].status = "verification_sent"
OpenIntents == {i \in Intent : Open(i)}

TypeOK ==
  /\ code \in [Code -> [status : {"issued", "reserved", "consumed", "revoked", "expired"},
                        by : Intent \cup {NoIntent}, lapsed : BOOLEAN, over : BOOLEAN]]
  /\ intent \in [Intent ->
       [status : {"none", "verification_sent", "completed", "cancelled", "expired"},
        code : Code, existing : BOOLEAN, late : BOOLEAN]]
  /\ link \in [Intent ->
       [n : 0..(MaxResends + 1), token : {"none", "usable", "revoked", "consumed"}, late : BOOLEAN,
        mail : {"none", "pending", "processing", "failed", "sent", "cancelled"},
        arrived : BOOLEAN]]
  /\ reserved \in 0..MaxTenants /\ active \in 0..MaxTenants
  /\ known \subseteq Email /\ owners \subseteq known
  /\ worker \in [Worker -> [batch : SUBSET (Intent \X (1..(MaxResends + 1))),
                            at : (Intent \cup {NoIntent}) \X (0..(MaxResends + 1)),
                            step : {"send", "delivered", "failed"}]]
  /\ resends \in 0..MaxResends /\ faults \in 0..MaxFaults

Init ==
  /\ code = [c \in Code |->
               [status |-> "issued", by |-> NoIntent, lapsed |-> FALSE, over |-> FALSE]]
  /\ intent = [i \in Intent |-> NoRow]
  /\ link = [i \in Intent |-> NoLink]
  /\ reserved = 0 /\ active = 0
  /\ known = {} /\ owners = {}
  /\ worker = [w \in Worker |-> IdleWorker]
  /\ resends = 0 /\ faults = 0

-----------------------------------------------------------------------------
(* The parts of a transaction                                              *)

\* A decrement that stops at zero.
Less(places) == IF places <= reserved THEN reserved - places ELSE 0

Revoked(l) == IF l.token = "usable" THEN [l EXCEPT !.token = "revoked"] ELSE l
Void(l) == [l EXCEPT !.token = "revoked", !.mail = "cancelled"]
Cancelled(l) ==
  IF l.mail \in {"pending", "processing", "failed"} THEN [l EXCEPT !.mail = "cancelled"] ELSE l

\* A new link replaces the one before, its email is queued.
Queued(l) == [n |-> l.n + 1, token |-> "usable", late |-> FALSE,
              mail |-> "pending", arrived |-> FALSE]

\* The codes after the enrollments in ended gave back what they hold.
Holders(ended) == {i \in ended : code[intent[i].code].by = i}
Given(c) == [status |-> IF code[c].over THEN "expired" ELSE "issued",
             by |-> NoIntent, lapsed |-> FALSE, over |-> code[c].over]
CodesWithout(ended) ==
  [c \in Code |-> IF \E i \in Holders(ended) : intent[i].code = c THEN Given(c) ELSE code[c]]

-----------------------------------------------------------------------------
(* The operations of the store                                             *)

PlaceFree(ended) == active + Less(Cardinality(ended)) < MaxTenants

\* Mutant: a code is unavailable only while it is reserved.
Available_Again(c) == ~code[c].over /\ (code[c].status = "reserved" => code[c].lapsed)

Available(c) ==
  /\ ~code[c].over /\ code[c].status \notin {"revoked", "consumed", "expired"}
  /\ code[c].status = "reserved" => code[c].lapsed

\* Mutant: who holds a code is forgotten.
Holder_Forgotten(c) == {}

\* The open enrollment that holds a code.
Holder(c) == {i \in OpenIntents : code[c].by = i}

\* Another open enrollment of the same address.
OpenEmail(c) == {i \in OpenIntents \ Holder(c) : EmailOf[intent[i].code] = EmailOf[c]}

\* Whoever held the lapsed code is ended, and the other enrollment of the
\* address, which must be late; then one place is taken for the new one.
StartEnrollment(c, i) ==
  LET stale == OpenEmail(c)
      ended == Holder(c) \cup stale
      email == EmailOf[c]
  IN /\ \A o \in Intent : intent[o].status = "none" <=> i <= o
     /\ Available(c)
     /\ \A o \in stale : intent[o].late
     /\ PlaceFree(ended)
     /\ email \notin owners
     /\ reserved' = Less(Cardinality(ended)) + 1
     /\ code' = [CodesWithout(stale) EXCEPT
                   ![c] = [@ EXCEPT !.status = "reserved", !.by = i, !.lapsed = FALSE]]
     /\ intent' = [o \in Intent |->
          CASE o = i -> [status |-> "verification_sent", code |-> c,
                         existing |-> email \in known, late |-> FALSE]
            [] o \in ended -> [intent[o] EXCEPT !.status = "expired"]
            [] OTHER -> intent[o]]
     /\ link' = [o \in Intent |->
          CASE o = i -> Queued(link[i])
            [] o \in stale -> Void(link[o])
            [] o \in ended -> [link[o] EXCEPT !.token = "revoked"]
            [] OTHER -> link[o]]
     /\ UNCHANGED <<active, accounts, worker, bounds>>

ResendVerification(i) ==
  /\ Open(i) /\ ~intent[i].late
  /\ resends < MaxResends
  /\ resends' = resends + 1
  /\ link' = [link EXCEPT ![i] = Queued(@)]
  /\ UNCHANGED <<code, intent, authority, accounts, worker, faults>>

\* The pass that every signup runs before it starts its own enrollment.
\* It skips the enrollments that another transaction has locked.
ExpireIntents(ended) ==
  /\ ended # {} /\ \A i \in ended : Open(i) /\ intent[i].late
  /\ reserved' = Less(Cardinality(Holders(ended)))
  /\ code' = CodesWithout(ended)
  /\ intent' = [i \in Intent |->
       IF i \in ended THEN [intent[i] EXCEPT !.status = "expired"] ELSE intent[i]]
  /\ link' = [i \in Intent |->
       IF i \in ended THEN Cancelled(Revoked(link[i])) ELSE link[i]]
  /\ UNCHANGED <<active, accounts, worker, bounds>>

\* An operator takes a code back, and the place its enrollment holds.
RevokeCode(c) ==
  LET ended == Holder(c) IN
  /\ code[c].status \notin {"consumed", "revoked", "expired"}
  /\ code' = [code EXCEPT ![c] = [@ EXCEPT !.status = "revoked", !.by = NoIntent,
                                           !.lapsed = FALSE]]
  /\ reserved' = Less(Cardinality(ended))
  /\ intent' = [i \in Intent |->
       IF i \in ended THEN [intent[i] EXCEPT !.status = "cancelled"] ELSE intent[i]]
  /\ link' = [i \in Intent |->
       IF i \in ended THEN Void(link[i]) ELSE link[i]]
  /\ UNCHANGED <<active, accounts, worker, bounds>>

\* Mutant: each late click gives a place back.
CompleteLate_Releases(i) ==
  /\ link[i].arrived /\ link[i].token = "usable"
  /\ link[i].late \/ intent[i].late
  /\ intent' = [intent EXCEPT ![i].status = "expired"]
  /\ reserved' = Less(1)
  /\ UNCHANGED <<code, link, active, accounts, worker, bounds>>

\* A link that comes too late ends its enrollment, and that is all it does.
CompleteLate(i) ==
  /\ link[i].arrived /\ link[i].token = "usable"
  /\ link[i].late \/ intent[i].late
  /\ intent' = [intent EXCEPT ![i].status = "expired"]
  /\ UNCHANGED <<code, link, authority, accounts, worker, bounds>>

\* An account is made unless the enrollment began with one; one workspace each.
CompleteEnrollment(i) ==
  LET c == intent[i].code
      email == EmailOf[c]
  IN /\ link[i].arrived /\ link[i].token = "usable"
     /\ ~link[i].late /\ ~intent[i].late
     /\ Open(i)
     /\ code[c].status = "reserved" /\ code[c].by = i
     /\ reserved > 0
     /\ intent[i].existing <=> email \in known
     /\ email \notin owners
     /\ code' = [code EXCEPT ![c] = [@ EXCEPT !.status = "consumed", !.by = NoIntent,
                                              !.lapsed = FALSE]]
     /\ reserved' = reserved - 1 /\ active' = active + 1
     /\ intent' = [intent EXCEPT ![i].status = "completed"]
     /\ link' = [link EXCEPT ![i] = [Cancelled(@) EXCEPT !.token = "consumed"]]
     /\ known' = known \cup {email} /\ owners' = owners \cup {email}
     /\ UNCHANGED <<worker, bounds>>

\* An invitation makes an account for the address, outside of enrollment.
RegisterByInvitation(email) ==
  /\ email \notin known
  /\ known' = known \cup {email}
  /\ UNCHANGED <<code, intent, link, authority, owners, worker, bounds>>

-----------------------------------------------------------------------------
(* The mail workers                                                        *)

Claimable_Waiting(i) ==   \* mutant: a claim is never over
  Open(i) /\ link[i].token = "usable" /\ link[i].mail \in {"pending", "failed"}

\* A lease or a retry delay may be over, or not, by the time of any claim.
Claimable(i) ==
  /\ Open(i) /\ link[i].token = "usable"
  /\ link[i].mail \in {"pending", "failed", "processing"}

\* A batch of those that are due.
ClaimDeliveries(w, claimed) ==
  /\ worker[w].batch = {}
  /\ claimed # {} /\ \A i \in claimed : Claimable(i)
  /\ worker' = [worker EXCEPT ![w].batch = {<<i, link[i].n>> : i \in claimed}]
  /\ link' = [i \in Intent |->
       IF i \in claimed THEN [link[i] EXCEPT !.mail = "processing"]
                        ELSE link[i]]
  /\ UNCHANGED <<code, intent, authority, accounts, bounds>>

\* The server takes the email of a claimed link. Nobody asks again whether the
\* link is still good; the email of a replaced link is of no use.
SendVerification(w, d) ==
  /\ worker[w].step = "send" /\ d \in worker[w].batch
  /\ worker' = [worker EXCEPT ![w].step = "delivered", ![w].at = d]
  /\ link' = [i \in Intent |->
       IF d = <<i, link[i].n>> THEN [link[i] EXCEPT !.arrived = TRUE] ELSE link[i]]
  /\ UNCHANGED <<code, intent, authority, accounts, bounds>>

SendFails(w, d) ==
  /\ faults < MaxFaults
  /\ worker[w].step = "send" /\ d \in worker[w].batch
  /\ worker' = [worker EXCEPT ![w].step = "failed", ![w].at = d]
  /\ faults' = faults + 1
  /\ UNCHANGED <<code, intent, link, authority, accounts, resends>>

\* The mark replaces any status of the row, a cancelled one too.
Mark(w, step, status) ==
  /\ worker[w].step = step
  /\ link' = [i \in Intent |->
       IF worker[w].at = <<i, link[i].n>>
         THEN [link[i] EXCEPT !.mail = status] ELSE link[i]]
  /\ worker' = [worker EXCEPT ![w] = [batch |-> @.batch \ {@.at}, at |-> <<NoIntent, 0>>,
                                      step |-> "send"]]
  /\ UNCHANGED <<code, intent, authority, accounts, bounds>>

\* Mutant: the error is written over the status.
MarkFailed_ErrorAsStatus(w) == Mark(w, "failed", "smtp_delivery_failed")

MarkDelivered(w) == Mark(w, "delivered", "sent")
MarkFailed(w) == Mark(w, "failed", "failed")

\* The process dies and is started again; its batch is left to the leases.
Crash(w) ==
  /\ faults < MaxFaults
  /\ worker[w].batch # {}
  /\ worker' = [worker EXCEPT ![w] = IdleWorker]
  /\ faults' = faults + 1
  /\ UNCHANGED <<code, intent, link, authority, accounts, resends>>

-----------------------------------------------------------------------------
(* Time, where somebody still asks for it                                  *)

\* A link is never good for longer than its enrollment.
IntentExpires(i) ==
  /\ Open(i) /\ ~intent[i].late
  /\ intent' = [intent EXCEPT ![i].late = TRUE]
  /\ link' = [link EXCEPT ![i].late = TRUE]
  /\ UNCHANGED <<code, authority, accounts, worker, bounds>>

LinkExpires(i) ==
  /\ Open(i) /\ ~link[i].late
  /\ link' = [link EXCEPT ![i].late = TRUE]
  /\ UNCHANGED <<code, intent, authority, accounts, worker, bounds>>

ReservationLapses(c) ==
  /\ code[c].status = "reserved" /\ ~code[c].lapsed
  /\ code' = [code EXCEPT ![c].lapsed = TRUE]
  /\ UNCHANGED <<intent, link, authority, accounts, worker, bounds>>

\* A code that expires while nobody holds it is like one that nobody uses.
CodeExpires(c) ==
  /\ ~code[c].over /\ code[c].status = "reserved"
  /\ code' = [code EXCEPT ![c].over = TRUE]
  /\ UNCHANGED <<intent, link, authority, accounts, worker, bounds>>

-----------------------------------------------------------------------------
Work(w) ==
  \/ \E claimed \in SUBSET Intent : ClaimDeliveries(w, claimed)
  \/ \E d \in worker[w].batch : SendVerification(w, d) \/ SendFails(w, d)
  \/ MarkDelivered(w) \/ MarkFailed(w)

Next ==
  \/ \E c \in Code : \/ \E i \in Intent : StartEnrollment(c, i)
                     \/ RevokeCode(c) \/ ReservationLapses(c) \/ CodeExpires(c)
  \/ \E i \in Intent : \/ ResendVerification(i) \/ CompleteEnrollment(i) \/ CompleteLate(i)
                       \/ IntentExpires(i) \/ LinkExpires(i)
  \/ \E ended \in SUBSET Intent : ExpireIntents(ended)
  \/ \E e \in Email : RegisterByInvitation(e)
  \/ \E w \in Worker : Work(w) \/ Crash(w)

Spec == Init /\ [][Next]_vars

\* The mail workers poll and work for ever. Nobody has to enroll, to click or
\* to clean up.
Fairness == \A w \in Worker : WF_vars(Work(w))

FairSpec == Spec /\ Fairness

-----------------------------------------------------------------------------
(* Properties                                                              *)

\* The counters never promise more than there is: every open enrollment has
\* its place, every workspace is counted, and both fit the authority's limit.
PlacesAreKept ==
  /\ reserved >= Cardinality(OpenIntents)
  /\ active = Cardinality({i \in Intent : intent[i].status = "completed"})
  /\ reserved + active <= MaxTenants

\* While an enrollment is open it alone holds its code and its address, its
\* last link is the good one, a place is reserved and the address still has no
\* workspace: nothing refuses its completion but time and an account made
\* for the address meanwhile.
OpenEnrollmentsCanComplete ==
  /\ \A i \in OpenIntents :
       /\ code[intent[i].code].status = "reserved" /\ code[intent[i].code].by = i
       /\ link[i].token = "usable" /\ reserved > 0
       /\ EmailOf[intent[i].code] \notin owners
  /\ \A i, o \in OpenIntents : EmailOf[intent[i].code] = EmailOf[intent[o].code] => i = o

\* However often a code is started, lapses and is started again, it buys one
\* workspace: used or taken back it stays so and completes no enrollment.
SpentCodesStaySpent ==
  [][\A c \in Code : code[c].status \in {"consumed", "revoked"} =>
       /\ code'[c].status = code[c].status
       /\ \A i \in Intent : intent'[i].code = c /\ intent'[i].status = "completed"
                              => intent[i].status = "completed"]_vars

\* The email of a link that stays good is taken by the mail server in the end.
EveryLinkIsMailed ==
  \A i \in Intent : (Open(i) /\ link[i].token = "usable")
                       ~> (link[i].arrived \/ ~Open(i) \/ link[i].token # "usable")
=============================================================================
