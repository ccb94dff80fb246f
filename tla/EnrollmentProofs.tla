-------------------------- MODULE EnrollmentProofs --------------------------
(***************************************************************************)
(* For any number of codes, addresses, enrollments, mail workers, resends  *)
(* and faults: the places are never promised twice, an open enrollment can *)
(* complete, and a code that is spent stays so.                            *)
(***************************************************************************)
EXTENDS Enrollment, FiniteSetTheorems, TLAPS

CodeRow == [status : {"issued", "reserved", "consumed", "revoked", "expired"},
            by : Intent \cup {NoIntent}, lapsed : BOOLEAN, over : BOOLEAN]
IntentRow == [status : {"none", "verification_sent", "completed", "cancelled", "expired"},
              code : Code, existing : BOOLEAN, late : BOOLEAN]
LinkRow == [n : 0..(MaxResends + 1), token : {"none", "usable", "revoked", "consumed"},
            late : BOOLEAN,
            mail : {"none", "pending", "processing", "failed", "sent", "cancelled"},
            arrived : BOOLEAN]
WorkerRow == [batch : SUBSET (Intent \X (1..(MaxResends + 1))),
              at : (Intent \cup {NoIntent}) \X (0..(MaxResends + 1)),
              step : {"send", "delivered", "failed"}]

\* A link exists once its enrollment was started, each resend makes one more,
\* and it is never good after the enrollment was completed.
LinksInv ==
  \A i \in Intent :
    /\ intent[i].status = "none" => link[i].n = 0
    /\ link[i].n <= resends + 1
    /\ link[i].token = "usable" =>
         link[i].n > 0 /\ intent[i].status \in {"verification_sent", "expired"}

Completed == {i \in Intent : intent[i].status = "completed"}

EnrollInv == TypeOK /\ LinksInv /\ PlacesAreKept /\ OpenEnrollmentsCanComplete

-----------------------------------------------------------------------------
(* Sets of enrollments and the places they hold *)

LEMMA Bounded ==
  /\ MaxTenants \in Nat /\ MaxIntents \in Nat /\ MaxResends \in Nat /\ MaxFaults \in Nat
  /\ Code # {} /\ EmailOf \in [Code -> Email]
  /\ NoIntent \notin Intent
BY EnrollmentAssumption DEF Intent, NoIntent

LEMMA Countable ==
  ASSUME NEW S \in SUBSET Intent
  PROVE  IsFiniteSet(S) /\ Cardinality(S) \in Nat
<1>1. IsFiniteSet(Intent)
  BY Bounded, FS_Interval DEF Intent
<1>2. IsFiniteSet(S)
  BY <1>1, FS_Subset
<1> QED  BY <1>2, FS_CardinalityType

LEMMA Without ==
  ASSUME NEW S \in SUBSET Intent, NEW T \in SUBSET S
  PROVE  /\ Cardinality(S \ T) = Cardinality(S) - Cardinality(T)
         /\ Cardinality(T) <= Cardinality(S)
         /\ Cardinality(S) \in Nat /\ Cardinality(T) \in Nat
<1>1. IsFiniteSet(S) /\ Cardinality(S) \in Nat /\ Cardinality(T) \in Nat
  BY Countable
<1>2. S \cap T = T
  OBVIOUS
<1>3. Cardinality(S \ T) = Cardinality(S) - Cardinality(S \cap T)
  BY <1>1, FS_Difference
<1> QED  BY <1>1, <1>2, <1>3, FS_Subset

LEMMA With ==
  ASSUME NEW S \in SUBSET Intent, NEW i \in Intent \ S
  PROVE  Cardinality(S \cup {i}) = Cardinality(S) + 1
BY Countable, FS_AddElement

\* The places of enrollments that end are all reserved.
LEMMA PlacesOfEnded ==
  ASSUME EnrollInv, NEW E \in SUBSET OpenIntents
  PROVE  /\ Less(Cardinality(E)) = reserved - Cardinality(E)
         /\ Less(Cardinality(E)) \in Nat /\ Less(Cardinality(E)) <= reserved
         /\ Less(Cardinality(E)) >= Cardinality(OpenIntents \ E)
         /\ Cardinality(E) \in Nat
<1>1. OpenIntents \in SUBSET Intent
  BY DEF OpenIntents
<1>2. /\ Cardinality(OpenIntents \ E) = Cardinality(OpenIntents) - Cardinality(E)
      /\ Cardinality(E) <= Cardinality(OpenIntents)
      /\ Cardinality(OpenIntents) \in Nat /\ Cardinality(E) \in Nat
  BY <1>1, Without
<1>3. reserved \in Nat /\ reserved >= Cardinality(OpenIntents)
  BY Bounded DEF EnrollInv, TypeOK, PlacesAreKept
<1> QED  BY <1>2, <1>3 DEF Less

LEMMA HolderIsOpen ==
  ASSUME NEW c \in Code
  PROVE  Holder(c) \in SUBSET OpenIntents /\ OpenEmail(c) \in SUBSET OpenIntents
BY DEF Holder, OpenEmail

\* In a reachable state an open enrollment holds its code, so all that end do.
LEMMA EndedHold ==
  ASSUME EnrollInv, NEW E \in SUBSET OpenIntents
  PROVE  /\ Holders(E) = E
         /\ \A c \in Code : CodesWithout(E)[c] =
              IF \E i \in E : intent[i].code = c THEN Given(c) ELSE code[c]
BY DEF EnrollInv, OpenEnrollmentsCanComplete, Holders, CodesWithout

LEMMA TypedRows ==
  ASSUME EnrollInv
  PROVE  /\ code \in [Code -> CodeRow] /\ intent \in [Intent -> IntentRow]
         /\ link \in [Intent -> LinkRow] /\ worker \in [Worker -> WorkerRow]
         /\ reserved \in Nat /\ active \in Nat /\ resends \in Nat
         /\ reserved + active <= MaxTenants
         /\ reserved <= MaxTenants /\ active <= MaxTenants
BY Bounded DEF EnrollInv, TypeOK, PlacesAreKept, CodeRow, IntentRow, LinkRow, WorkerRow

\* What ends or replaces a link keeps its number, and it is not good any more.
LEMMA LinkEdits ==
  ASSUME NEW l \in LinkRow
  PROVE  /\ Revoked(l) \in LinkRow /\ Revoked(l).n = l.n /\ Revoked(l).token # "usable"
         /\ Cancelled(l) \in LinkRow /\ Cancelled(l).n = l.n /\ Cancelled(l).token = l.token
         /\ Void(l) \in LinkRow /\ Void(l).n = l.n /\ Void(l).token # "usable"
<1>1. Revoked(l) \in LinkRow /\ Revoked(l).n = l.n /\ Revoked(l).token # "usable"
  BY DEF Revoked, LinkRow
<1>2. Cancelled(l) \in LinkRow /\ Cancelled(l).n = l.n /\ Cancelled(l).token = l.token
  BY DEF Cancelled, LinkRow
<1>3. Void(l) \in LinkRow /\ Void(l).n = l.n /\ Void(l).token # "usable"
  BY DEF Void, LinkRow
<1> QED  BY <1>1, <1>2, <1>3

\* A code that is spent or taken back, the others stay as they are.
LEMMA CodeEnds ==
  ASSUME EnrollInv, NEW c \in Code, NEW status \in {"consumed", "revoked"},
         code' = [code EXCEPT ![c] = [@ EXCEPT !.status = status, !.by = NoIntent,
                                               !.lapsed = FALSE]]
  PROVE  code' \in [Code -> CodeRow] /\ \A d \in Code \ {c} : code'[d] = code[d]
<1>1. code \in [Code -> CodeRow]
  BY TypedRows
<1>2. code[c] \in CodeRow
  BY <1>1
<1>3. [code[c] EXCEPT !.status = status, !.by = NoIntent, !.lapsed = FALSE] \in CodeRow
  BY <1>2 DEF CodeRow
<1> QED  BY <1>1, <1>3

LEMMA GivenCodes ==
  ASSUME EnrollInv, NEW E
  PROVE  CodesWithout(E) \in [Code -> CodeRow]
<1>1. \A c \in Code : code[c] \in CodeRow /\ Given(c) \in CodeRow
  <2> SUFFICES ASSUME NEW c \in Code PROVE code[c] \in CodeRow /\ Given(c) \in CodeRow
    OBVIOUS
  <2>1. code[c] \in CodeRow
    BY TypedRows
  <2> QED  BY <2>1 DEF Given, CodeRow, NoIntent
<1> QED  BY <1>1 DEF CodesWithout

-----------------------------------------------------------------------------
(* Steps that change nothing the properties speak of *)

Quiet ==
  /\ \A i \in Intent : /\ intent'[i].status = intent[i].status
                       /\ intent'[i].code = intent[i].code
                       /\ link'[i].token = link[i].token /\ link'[i].n = link[i].n
  /\ \A c \in Code : code'[c].status = code[c].status /\ code'[c].by = code[c].by
  /\ reserved' = reserved /\ active' = active /\ owners' = owners /\ resends' = resends

LEMMA QuietKeeps ==
  ASSUME EnrollInv, TypeOK', Quiet
  PROVE  EnrollInv'
<1>1. OpenIntents' = OpenIntents
  BY DEF Quiet, OpenIntents, Open
<1>2. Completed' = Completed
  BY DEF Quiet, Completed
<1>3. PlacesAreKept'
  BY <1>1, <1>2 DEF EnrollInv, Quiet, PlacesAreKept, Completed
<1>4. LinksInv'
  BY DEF EnrollInv, Quiet, LinksInv
<1>5. OpenEnrollmentsCanComplete'
  <2>1. \A i \in OpenIntents : intent[i].code \in Code
    BY DEF EnrollInv, TypeOK, OpenIntents
  <2>2. \A i \in OpenIntents : intent'[i].code = intent[i].code /\ link'[i].token = link[i].token
    BY DEF Quiet, OpenIntents
  <2> QED  BY <1>1, <2>1, <2>2 DEF EnrollInv, Quiet, OpenEnrollmentsCanComplete
<1> QED  BY <1>3, <1>4, <1>5 DEF EnrollInv

LEMMA ClaimStep ==
  ASSUME EnrollInv, NEW w \in Worker, NEW claimed \in SUBSET Intent, ClaimDeliveries(w, claimed)
  PROVE  EnrollInv'
<1>1. \A i \in claimed : link[i].n \in 1..(MaxResends + 1)
  <2> SUFFICES ASSUME NEW i \in claimed PROVE link[i].n \in 1..(MaxResends + 1)
    OBVIOUS
  <2>1. link[i].token = "usable" /\ Open(i)
    BY DEF ClaimDeliveries, Claimable
  <2>2. link[i].n > 0
    BY <2>1 DEF EnrollInv, LinksInv
  <2> QED  BY <2>2, TypedRows DEF LinkRow
<1>2. {<<i, link[i].n>> : i \in claimed} \in SUBSET (Intent \X (1..(MaxResends + 1)))
  BY <1>1
<1>3. worker' \in [Worker -> WorkerRow]
  BY <1>2, TypedRows DEF ClaimDeliveries, WorkerRow
<1>4. link' \in [Intent -> LinkRow]
  BY TypedRows DEF ClaimDeliveries, LinkRow
<1>5. TypeOK'
  BY <1>3, <1>4 DEF EnrollInv, TypeOK, ClaimDeliveries, WorkerRow, LinkRow, authority, accounts, bounds
<1>6. Quiet
  BY TypedRows DEF ClaimDeliveries, Quiet, LinkRow, authority, accounts, bounds
<1> QED  BY <1>5, <1>6, QuietKeeps

LEMMA SendStep ==
  ASSUME EnrollInv, NEW w \in Worker, NEW d \in worker[w].batch,
         SendVerification(w, d) \/ SendFails(w, d)
  PROVE  EnrollInv'
<1>1. d \in Intent \X (1..(MaxResends + 1))
  BY TypedRows DEF WorkerRow
<1>2. d \in (Intent \cup {NoIntent}) \X (0..(MaxResends + 1))
  BY <1>1
<1>3. worker' \in [Worker -> WorkerRow]
  <2>1. worker \in [Worker -> WorkerRow]
    BY TypedRows
  <2>2. \A step \in {"delivered", "failed"} :
          [worker[w] EXCEPT !.step = step, !.at = d] \in WorkerRow
    <3>1. worker[w] \in WorkerRow
      BY <2>1
    <3> QED  BY <1>2, <3>1 DEF WorkerRow
  <2>3. CASE SendVerification(w, d)
    <3>1. worker' = [worker EXCEPT ![w] = [worker[w] EXCEPT !.step = "delivered", !.at = d]]
      BY <2>1, <2>3 DEF SendVerification, WorkerRow
    <3> QED  BY <2>1, <2>2, <3>1
  <2>4. CASE SendFails(w, d)
    <3>1. worker' = [worker EXCEPT ![w] = [worker[w] EXCEPT !.step = "failed", !.at = d]]
      BY <2>1, <2>4 DEF SendFails, WorkerRow
    <3> QED  BY <2>1, <2>2, <3>1
  <2> QED  BY <2>3, <2>4
<1>4. link' \in [Intent -> LinkRow]
  <2>1. CASE SendVerification(w, d)
    <3>1. \A i \in Intent : [link[i] EXCEPT !.arrived = TRUE] \in LinkRow
      BY TypedRows DEF LinkRow
    <3> QED  BY <2>1, <3>1, TypedRows DEF SendVerification
  <2>2. CASE SendFails(w, d)
    BY <2>2, TypedRows DEF SendFails
  <2> QED  BY <2>1, <2>2
<1>5. faults' \in 0..MaxFaults
  BY Bounded DEF EnrollInv, TypeOK, SendVerification, SendFails, bounds
<1>6. TypeOK'
  BY <1>3, <1>4, <1>5
  DEF EnrollInv, TypeOK, SendVerification, SendFails, WorkerRow, LinkRow, authority, accounts, bounds
<1>7. Quiet
  BY TypedRows DEF SendVerification, SendFails, Quiet, LinkRow, authority, accounts, bounds
<1> QED  BY <1>6, <1>7, QuietKeeps

LEMMA MarkStep ==
  ASSUME EnrollInv, NEW w \in Worker, NEW step, NEW status \in {"sent", "failed"},
         Mark(w, step, status)
  PROVE  EnrollInv'
<1>1. <<NoIntent, 0>> \in (Intent \cup {NoIntent}) \X (0..(MaxResends + 1))
  BY Bounded
<1>2. worker' \in [Worker -> WorkerRow]
  BY <1>1, TypedRows DEF Mark, WorkerRow
<1>3. link' \in [Intent -> LinkRow]
  BY TypedRows DEF Mark, LinkRow
<1>4. TypeOK'
  BY <1>2, <1>3 DEF EnrollInv, TypeOK, Mark, WorkerRow, LinkRow, authority, accounts, bounds
<1>5. Quiet
  BY TypedRows DEF Mark, Quiet, LinkRow, authority, accounts, bounds
<1> QED  BY <1>4, <1>5, QuietKeeps

LEMMA CrashStep ==
  ASSUME EnrollInv, NEW w \in Worker, Crash(w)
  PROVE  EnrollInv'
<1>1. IdleWorker \in WorkerRow
  BY Bounded DEF IdleWorker, WorkerRow
<1>2. worker' \in [Worker -> WorkerRow]
  BY <1>1, TypedRows DEF Crash
<1>3. faults' \in 0..MaxFaults
  BY Bounded DEF EnrollInv, TypeOK, Crash
<1>4. TypeOK'
  BY <1>2, <1>3 DEF EnrollInv, TypeOK, Crash, WorkerRow, authority, accounts
<1>5. Quiet
  BY DEF Crash, Quiet, authority, accounts
<1> QED  BY <1>4, <1>5, QuietKeeps

LEMMA WorkerStep ==
  ASSUME EnrollInv, NEW w \in Worker, Work(w) \/ Crash(w)
  PROVE  EnrollInv'
BY ClaimStep, SendStep, MarkStep, CrashStep DEF Work, MarkDelivered, MarkFailed

LEMMA TimeStep ==
  ASSUME EnrollInv,
         \/ \E c \in Code : ReservationLapses(c) \/ CodeExpires(c)
         \/ \E i \in Intent : IntentExpires(i) \/ LinkExpires(i)
  PROVE  EnrollInv'
<1>1. ASSUME NEW c \in Code, ReservationLapses(c) \/ CodeExpires(c) PROVE EnrollInv'
  <2>1. code' \in [Code -> CodeRow]
    BY <1>1, TypedRows DEF ReservationLapses, CodeExpires, CodeRow
  <2>2. TypeOK'
    BY <1>1, <2>1
    DEF EnrollInv, TypeOK, ReservationLapses, CodeExpires, CodeRow, authority, accounts, bounds
  <2>3. Quiet
    BY <1>1, TypedRows
    DEF ReservationLapses, CodeExpires, Quiet, CodeRow, authority, accounts, bounds
  <2> QED  BY <2>2, <2>3, QuietKeeps
<1>2. ASSUME NEW i \in Intent, IntentExpires(i) \/ LinkExpires(i) PROVE EnrollInv'
  <2>1. intent' \in [Intent -> IntentRow]
    <3>1. CASE IntentExpires(i)
      BY <3>1, TypedRows DEF IntentExpires, IntentRow
    <3>2. CASE LinkExpires(i)
      BY <3>2, TypedRows DEF LinkExpires
    <3> QED  BY <1>2, <3>1, <3>2
  <2>5. link' = [link EXCEPT ![i].late = TRUE]
    BY <1>2 DEF IntentExpires, LinkExpires
  <2>4. link' \in [Intent -> LinkRow] /\ link' = [link EXCEPT ![i].late = TRUE]
    BY <2>5, TypedRows DEF LinkRow
  <2>2. TypeOK'
    BY <1>2, <2>1, <2>4
    DEF EnrollInv, TypeOK, IntentExpires, LinkExpires, IntentRow, LinkRow, authority, accounts, bounds
  <2>3. Quiet
    BY <1>2, <2>4, TypedRows
    DEF IntentExpires, LinkExpires, Quiet, IntentRow, LinkRow, authority, accounts, bounds
  <2> QED  BY <2>2, <2>3, QuietKeeps
<1> QED  BY <1>1, <1>2

LEMMA RegisterStep ==
  ASSUME EnrollInv, NEW email \in Email, RegisterByInvitation(email)
  PROVE  EnrollInv'
<1>1. TypeOK'
  BY DEF EnrollInv, TypeOK, RegisterByInvitation, authority, bounds
<1>2. Quiet
  BY DEF RegisterByInvitation, Quiet, authority, bounds
<1> QED  BY <1>1, <1>2, QuietKeeps

-----------------------------------------------------------------------------
(* Steps of the store *)

\* There is a place for every open enrollment, so for one.
LEMMA OpenHasPlace ==
  ASSUME TypeOK, PlacesAreKept, NEW i \in OpenIntents
  PROVE  reserved > 0
<1>1. OpenIntents \in SUBSET Intent /\ {i} \in SUBSET OpenIntents
  BY DEF OpenIntents
<1>2. Cardinality({i}) = 1
  BY FS_Singleton
<1>3. Cardinality(OpenIntents) >= 1 /\ Cardinality(OpenIntents) \in Nat
  BY <1>1, <1>2, Without
<1> QED  BY <1>3, Bounded DEF TypeOK, PlacesAreKept

\* Without the places, which the lemma above gives.
HoldsItsOwn ==
  /\ \A i \in OpenIntents :
       /\ code[intent[i].code].status = "reserved" /\ code[intent[i].code].by = i
       /\ link[i].token = "usable"
       /\ EmailOf[intent[i].code] \notin owners
  /\ \A i, o \in OpenIntents : EmailOf[intent[i].code] = EmailOf[intent[o].code] => i = o

LEMMA Assembled == TypeOK /\ LinksInv /\ PlacesAreKept /\ HoldsItsOwn => EnrollInv
BY OpenHasPlace DEF EnrollInv, HoldsItsOwn, OpenEnrollmentsCanComplete

\* Enrollments that are open after a step that ends some.
LEMMA OpenAfter ==
  ASSUME EnrollInv, NEW E \in SUBSET OpenIntents, NEW ending \in {"expired", "cancelled"},
         intent' = [i \in Intent |-> IF i \in E THEN [intent[i] EXCEPT !.status = ending]
                                                ELSE intent[i]]
  PROVE  /\ OpenIntents' = OpenIntents \ E
         /\ Completed' = Completed
         /\ intent' \in [Intent -> IntentRow]
         /\ \A i \in OpenIntents' : intent'[i] = intent[i]
<1>1. intent' \in [Intent -> IntentRow]
  BY TypedRows DEF IntentRow
<1>2. \A i \in Intent : intent'[i].status = IF i \in E THEN ending ELSE intent[i].status
  BY TypedRows DEF IntentRow
<1>3. \A i \in E : i \in Intent /\ intent[i].status = "verification_sent"
  BY DEF OpenIntents, Open
<1>4. OpenIntents' = OpenIntents \ E
  BY <1>2, <1>3 DEF OpenIntents, Open
<1>5. Completed' = Completed
  BY <1>2, <1>3 DEF Completed
<1>6. \A i \in OpenIntents' : intent'[i] = intent[i]
  BY <1>4 DEF OpenIntents
<1> QED  BY <1>1, <1>4, <1>5, <1>6

\* Ending enrollments gives back their places, their codes and their links.
LEMMA ExpireStep ==
  ASSUME EnrollInv, NEW ended \in SUBSET Intent, ExpireIntents(ended)
  PROVE  EnrollInv'
<1>1. ended \in SUBSET OpenIntents
  BY DEF ExpireIntents, OpenIntents
<1>2. /\ OpenIntents' = OpenIntents \ ended /\ Completed' = Completed
      /\ intent' \in [Intent -> IntentRow]
      /\ \A i \in OpenIntents' : intent'[i] = intent[i]
  BY <1>1, OpenAfter DEF ExpireIntents
<1>3. reserved' = Less(Cardinality(ended)) /\ active' = active /\ owners' = owners /\ resends' = resends
  BY <1>1, EndedHold DEF ExpireIntents, accounts, bounds
<1>4. PlacesAreKept'
  <2>1. /\ reserved' \in Nat /\ reserved' >= Cardinality(OpenIntents \ ended)
        /\ reserved' <= reserved
    BY <1>1, <1>3, PlacesOfEnded
  <2>2. active = Cardinality(Completed)
    BY DEF EnrollInv, PlacesAreKept, Completed
  <2>3. reserved' >= Cardinality(OpenIntents') /\ active' = Cardinality(Completed')
    BY <1>2, <1>3, <2>1, <2>2
  <2>4. reserved' + active' <= MaxTenants
    BY <1>3, <2>1, TypedRows, Bounded
  <2> QED  BY <2>3, <2>4 DEF PlacesAreKept, Completed
<1>5. code' \in [Code -> CodeRow]
  BY GivenCodes DEF ExpireIntents
<1>6. /\ link' \in [Intent -> LinkRow]
      /\ \A i \in Intent : link'[i].n = link[i].n
      /\ \A i \in Intent : link'[i].token = "usable" => link[i].token = "usable" /\ i \notin ended
      /\ \A i \in Intent \ ended : link'[i] = link[i]
  <2>1. \A i \in Intent : link[i] \in LinkRow
    BY TypedRows
  <2>2. \A i \in Intent : LET l == Cancelled(Revoked(link[i]))
                          IN l \in LinkRow /\ l.n = link[i].n /\ l.token # "usable"
    BY <2>1, LinkEdits
  <2> QED  BY <2>1, <2>2 DEF ExpireIntents
<1>7. TypeOK'
  <2>1. reserved' \in 0..MaxTenants /\ active' \in 0..MaxTenants
    <3>1. reserved' \in Nat /\ reserved' <= reserved
      BY <1>1, <1>3, PlacesOfEnded
    <3> QED  BY <1>3, <3>1, TypedRows, Bounded
  <2>2. UNCHANGED <<known, owners, worker, resends, faults>>
    BY DEF ExpireIntents, accounts, bounds
  <2> QED  BY <1>2, <1>5, <1>6, <2>1, <2>2
           DEF EnrollInv, TypeOK, CodeRow, IntentRow, LinkRow
<1>8. LinksInv'
  <2>1. \A i \in Intent : /\ intent'[i].status = "none" => intent[i].status = "none"
                          /\ i \notin ended => intent'[i].status = intent[i].status
    BY TypedRows DEF ExpireIntents, IntentRow
  <2>2. \A i \in Intent : /\ link[i].n \in Nat
                          /\ intent[i].status = "none" => link[i].n = 0
                          /\ link[i].n <= resends + 1
                          /\ link[i].token = "usable" =>
                               /\ link[i].n > 0
                               /\ intent[i].status \in {"verification_sent", "expired"}
    BY TypedRows, Bounded DEF EnrollInv, LinksInv, LinkRow
  <2> QED  BY <1>3, <1>6, <2>1, <2>2 DEF LinksInv
<1>9. HoldsItsOwn'
  <2>1. \A i \in OpenIntents' : i \in Intent \ ended /\ link'[i] = link[i]
    BY <1>2, <1>6 DEF OpenIntents
  <2>2. \A i \in OpenIntents' : intent[i].code \in Code /\ code'[intent[i].code] = code[intent[i].code]
    <3> SUFFICES ASSUME NEW i \in OpenIntents \ ended
                 PROVE  intent[i].code \in Code /\ code'[intent[i].code] = code[intent[i].code]
      BY <1>2
    <3>1. intent[i].code \in Code /\ code[intent[i].code].by = i
      BY TypedRows DEF EnrollInv, OpenEnrollmentsCanComplete, OpenIntents, IntentRow
    <3>2. ~ \E o \in ended : intent[o].code = intent[i].code
      BY <1>1, <3>1 DEF EnrollInv, OpenEnrollmentsCanComplete
    <3> QED  BY <1>1, <3>1, <3>2, EndedHold DEF ExpireIntents
  <2> QED  BY <1>2, <1>3, <2>1, <2>2 DEF EnrollInv, OpenEnrollmentsCanComplete, HoldsItsOwn
<1> QED  BY <1>4, <1>7, <1>8, <1>9, Assembled, PTL

LEMMA RevokeStep ==
  ASSUME EnrollInv, NEW c \in Code, RevokeCode(c)
  PROVE  EnrollInv'
<1> DEFINE ended == Holder(c)
<1>1. ended \in SUBSET OpenIntents
  BY HolderIsOpen
<1> HIDE DEF ended
<1>2. /\ OpenIntents' = OpenIntents \ ended /\ Completed' = Completed
      /\ intent' \in [Intent -> IntentRow]
      /\ \A i \in OpenIntents' : intent'[i] = intent[i]
  BY <1>1, OpenAfter DEF RevokeCode, ended
<1>3. reserved' = Less(Cardinality(ended)) /\ active' = active /\ owners' = owners /\ resends' = resends
  BY DEF RevokeCode, accounts, bounds, ended
<1>4. PlacesAreKept'
  <2>1. /\ reserved' \in Nat /\ reserved' >= Cardinality(OpenIntents \ ended)
        /\ reserved' <= reserved
    BY <1>1, <1>3, PlacesOfEnded
  <2>2. active = Cardinality(Completed)
    BY DEF EnrollInv, PlacesAreKept, Completed
  <2>3. reserved' >= Cardinality(OpenIntents') /\ active' = Cardinality(Completed')
    BY <1>2, <1>3, <2>1, <2>2
  <2>4. reserved' + active' <= MaxTenants
    BY <1>3, <2>1, TypedRows, Bounded
  <2> QED  BY <2>3, <2>4 DEF PlacesAreKept, Completed
<1>5. code' \in [Code -> CodeRow] /\ \A d \in Code \ {c} : code'[d] = code[d]
  BY CodeEnds DEF RevokeCode
<1>6. /\ link' \in [Intent -> LinkRow]
      /\ \A i \in Intent : link'[i].n = link[i].n
      /\ \A i \in Intent : link'[i].token = "usable" => link[i].token = "usable" /\ i \notin ended
      /\ \A i \in Intent \ ended : link'[i] = link[i]
  <2>1. \A i \in Intent : link[i] \in LinkRow
    BY TypedRows
  <2>2. \A i \in Intent : LET l == Void(link[i])
                          IN l \in LinkRow /\ l.n = link[i].n /\ l.token # "usable"
    BY <2>1, LinkEdits
  <2> QED  BY <2>1, <2>2 DEF RevokeCode, ended
<1>7. TypeOK'
  <2>1. reserved' \in 0..MaxTenants /\ active' \in 0..MaxTenants
    <3>1. reserved' \in Nat /\ reserved' <= reserved
      BY <1>1, <1>3, PlacesOfEnded
    <3> QED  BY <1>3, <3>1, TypedRows, Bounded
  <2>2. UNCHANGED <<known, owners, worker, resends, faults>>
    BY DEF RevokeCode, accounts, bounds
  <2> QED  BY <1>2, <1>5, <1>6, <2>1, <2>2
           DEF EnrollInv, TypeOK, CodeRow, IntentRow, LinkRow
<1>8. LinksInv'
  <2>1. \A i \in Intent : /\ intent'[i].status = "none" => intent[i].status = "none"
                          /\ i \notin ended => intent'[i].status = intent[i].status
    BY TypedRows DEF RevokeCode, IntentRow, ended
  <2>2. \A i \in Intent : /\ link[i].n \in Nat
                          /\ intent[i].status = "none" => link[i].n = 0
                          /\ link[i].n <= resends + 1
                          /\ link[i].token = "usable" =>
                               /\ link[i].n > 0
                               /\ intent[i].status \in {"verification_sent", "expired"}
    BY TypedRows, Bounded DEF EnrollInv, LinksInv, LinkRow
  <2> QED  BY <1>3, <1>6, <2>1, <2>2 DEF LinksInv
<1>9. HoldsItsOwn'
  <2>1. \A i \in OpenIntents' : i \in Intent \ ended /\ link'[i] = link[i]
    BY <1>2, <1>6 DEF OpenIntents
  <2>2. \A i \in OpenIntents' : intent[i].code \in Code /\ code'[intent[i].code] = code[intent[i].code]
    <3> SUFFICES ASSUME NEW i \in OpenIntents \ ended
                 PROVE  intent[i].code \in Code /\ code'[intent[i].code] = code[intent[i].code]
      BY <1>2
    <3>1. intent[i].code \in Code /\ code[intent[i].code].by = i
      BY TypedRows DEF EnrollInv, OpenEnrollmentsCanComplete, OpenIntents, IntentRow
    <3>2. intent[i].code # c
      BY <3>1 DEF ended, Holder
    <3> QED  BY <3>1, <3>2, <1>5
  <2> QED  BY <1>2, <1>3, <2>1, <2>2 DEF EnrollInv, OpenEnrollmentsCanComplete, HoldsItsOwn
<1> QED  BY <1>4, <1>7, <1>8, <1>9, Assembled, PTL

\* The code, the address and the place of what ended go to the new enrollment.
LEMMA StartStep ==
  ASSUME EnrollInv, NEW c \in Code, NEW i \in Intent, StartEnrollment(c, i)
  PROVE  EnrollInv'
<1> DEFINE stale == OpenEmail(c)
           ended == Holder(c) \cup stale
<1>1. stale \in SUBSET ended /\ ended \in SUBSET OpenIntents
  BY HolderIsOpen
<1>2. intent[i].status = "none" /\ i \notin OpenIntents /\ i \notin Completed
  BY Bounded DEF StartEnrollment, OpenIntents, Open, Completed, Intent
<1>3. \A o \in OpenIntents \ ended :
        intent[o].code # c /\ EmailOf[intent[o].code] # EmailOf[c]
  BY DEF EnrollInv, OpenEnrollmentsCanComplete, Holder, OpenEmail
<1>4. /\ active + Less(Cardinality(ended)) < MaxTenants
      /\ EmailOf[c] \notin owners
      /\ reserved' = Less(Cardinality(ended)) + 1
      /\ code' = [CodesWithout(stale) EXCEPT
                    ![c] = [@ EXCEPT !.status = "reserved", !.by = i, !.lapsed = FALSE]]
      /\ intent' = [o \in Intent |->
           CASE o = i -> [status |-> "verification_sent", code |-> c,
                          existing |-> EmailOf[c] \in known, late |-> FALSE]
             [] o \in ended -> [intent[o] EXCEPT !.status = "expired"]
             [] OTHER -> intent[o]]
      /\ link' = [o \in Intent |->
           CASE o = i -> Queued(link[i])
             [] o \in stale -> Void(link[o])
             [] o \in ended -> [link[o] EXCEPT !.token = "revoked"]
             [] OTHER -> link[o]]
      /\ active' = active /\ owners' = owners /\ known' = known
      /\ worker' = worker /\ resends' = resends /\ faults' = faults
  BY DEF StartEnrollment, PlaceFree, accounts, bounds
<1> HIDE DEF stale, ended
<1>5. i \notin ended
  BY <1>1, <1>2
<1>6. /\ intent' \in [Intent -> IntentRow]
      /\ intent'[i].status = "verification_sent" /\ intent'[i].code = c
      /\ \A o \in ended : intent'[o].status = "expired"
      /\ \A o \in Intent \ (ended \cup {i}) : intent'[o] = intent[o]
  <2>1. [status |-> "verification_sent", code |-> c,
         existing |-> EmailOf[c] \in known, late |-> FALSE] \in IntentRow
    BY DEF IntentRow
  <2>2. \A o \in Intent : /\ intent[o] \in IntentRow
                          /\ [intent[o] EXCEPT !.status = "expired"] \in IntentRow
                          /\ [intent[o] EXCEPT !.status = "expired"].status = "expired"
    BY TypedRows DEF IntentRow
  <2>3. ended \in SUBSET Intent
    BY <1>1 DEF OpenIntents
  <2> QED  BY <1>4, <1>5, <2>1, <2>2, <2>3
<1>7. OpenIntents' = (OpenIntents \ ended) \cup {i} /\ Completed' = Completed
  BY <1>1, <1>2, <1>5, <1>6 DEF OpenIntents, Open, Completed
<1>8. /\ link' \in [Intent -> LinkRow]
      /\ link'[i].n = 1 /\ link'[i].token = "usable"
      /\ \A o \in ended : link'[o].n = link[o].n /\ link'[o].token = "revoked"
      /\ \A o \in Intent \ (ended \cup {i}) : link'[o] = link[o]
  <2>1. Queued(link[i]) \in LinkRow /\ Queued(link[i]).n = 1 /\ Queued(link[i]).token = "usable"
    BY <1>2, Bounded DEF EnrollInv, LinksInv, Queued, LinkRow
  <2>2. \A o \in Intent :
          /\ link[o] \in LinkRow
          /\ Void(link[o]) \in LinkRow
          /\ Void(link[o]).n = link[o].n /\ Void(link[o]).token = "revoked"
          /\ [link[o] EXCEPT !.token = "revoked"] \in LinkRow
          /\ [link[o] EXCEPT !.token = "revoked"].n = link[o].n
          /\ [link[o] EXCEPT !.token = "revoked"].token = "revoked"
    BY TypedRows DEF LinkRow, Void
  <2>3. ended \in SUBSET Intent
    BY <1>1 DEF OpenIntents
  <2> QED  BY <1>1, <1>4, <1>5, <2>1, <2>2, <2>3
<1>9. /\ code' \in [Code -> CodeRow]
      /\ code'[c].status = "reserved" /\ code'[c].by = i
      /\ \A o \in OpenIntents \ ended : code'[intent[o].code] = code[intent[o].code]
  <2>1. CodesWithout(stale) \in [Code -> CodeRow]
    BY GivenCodes
  <2>2. \A o \in OpenIntents \ ended : CodesWithout(stale)[intent[o].code] = code[intent[o].code]
    <3> SUFFICES ASSUME NEW o \in OpenIntents \ ended
                 PROVE  CodesWithout(stale)[intent[o].code] = code[intent[o].code]
      OBVIOUS
    <3>1. intent[o].code \in Code /\ code[intent[o].code].by = o
      BY TypedRows DEF EnrollInv, OpenEnrollmentsCanComplete, OpenIntents, IntentRow
    <3>2. ~ \E q \in stale : intent[q].code = intent[o].code
      BY <1>1, <3>1 DEF EnrollInv, OpenEnrollmentsCanComplete
    <3>3. stale \in SUBSET OpenIntents
      BY <1>1
    <3> QED  BY <3>1, <3>2, <3>3, EndedHold
  <2>3. code' \in [Code -> CodeRow] /\ code'[c].status = "reserved" /\ code'[c].by = i
    BY <1>4, <2>1 DEF CodeRow
  <2>4. \A d \in Code \ {c} : code'[d] = CodesWithout(stale)[d]
    BY <1>4, <2>1
  <2>5. \A o \in OpenIntents \ ended : intent[o].code \in Code \ {c}
    BY <1>3, TypedRows DEF OpenIntents, IntentRow
  <2> QED  BY <2>2, <2>3, <2>4, <2>5
<1>10. PlacesAreKept' /\ reserved' \in 0..MaxTenants
  <2>1. /\ Less(Cardinality(ended)) \in Nat
        /\ Less(Cardinality(ended)) >= Cardinality(OpenIntents \ ended)
    BY <1>1, PlacesOfEnded
  <2>2. Cardinality(OpenIntents') = Cardinality(OpenIntents \ ended) + 1
    BY <1>2, <1>7, With DEF OpenIntents
  <2>3. Cardinality(OpenIntents \ ended) \in Nat
    BY Countable DEF OpenIntents
  <2>4. reserved' \in Nat /\ reserved' >= Cardinality(OpenIntents') /\ reserved' + active' <= MaxTenants
    BY <1>4, <2>1, <2>2, <2>3, TypedRows, Bounded
  <2>5. active' = Cardinality(Completed')
    BY <1>4, <1>7 DEF EnrollInv, PlacesAreKept, Completed
  <2> QED  BY <1>4, <2>4, <2>5, TypedRows, Bounded DEF PlacesAreKept, Completed
<1>11. TypeOK'
  BY <1>4, <1>6, <1>8, <1>9, <1>10 DEF EnrollInv, TypeOK, CodeRow, IntentRow, LinkRow
<1>12. LinksInv'
  <2>1. \A o \in Intent :
          /\ intent'[o].status = "none" => link'[o].n = 0
          /\ link'[o].n <= resends + 1
          /\ link'[o].token = "usable" =>
               link'[o].n > 0 /\ intent'[o].status \in {"verification_sent", "expired"}
    <3> SUFFICES ASSUME NEW o \in Intent
                 PROVE  /\ intent'[o].status = "none" => link'[o].n = 0
                        /\ link'[o].n <= resends + 1
                        /\ link'[o].token = "usable" =>
                             link'[o].n > 0 /\ intent'[o].status \in {"verification_sent", "expired"}
      OBVIOUS
    <3>1. CASE o = i
      BY <3>1, <1>6, <1>8, TypedRows
    <3>2. CASE o \in ended
      BY <3>2, <1>6, <1>8 DEF EnrollInv, LinksInv
    <3>3. CASE o \notin ended \cup {i}
      BY <3>3, <1>6, <1>8 DEF EnrollInv, LinksInv
    <3> QED  BY <3>1, <3>2, <3>3
  <2> QED  BY <1>4, <2>1 DEF LinksInv
<1>13. HoldsItsOwn'
  <2>1. \A o \in OpenIntents \ ended :
          /\ o # i /\ intent'[o] = intent[o] /\ link'[o] = link[o]
          /\ code'[intent[o].code] = code[intent[o].code]
    BY <1>2, <1>6, <1>8, <1>9 DEF OpenIntents
  <2>2. \A o \in OpenIntents' :
          /\ code'[intent'[o].code].status = "reserved" /\ code'[intent'[o].code].by = o
          /\ link'[o].token = "usable" /\ EmailOf[intent'[o].code] \notin owners'
    <3>1. /\ code'[intent'[i].code].status = "reserved" /\ code'[intent'[i].code].by = i
          /\ link'[i].token = "usable" /\ EmailOf[intent'[i].code] \notin owners'
      BY <1>4, <1>6, <1>8, <1>9
    <3>2. \A o \in OpenIntents \ ended :
            /\ code'[intent'[o].code].status = "reserved" /\ code'[intent'[o].code].by = o
            /\ link'[o].token = "usable" /\ EmailOf[intent'[o].code] \notin owners'
      <4> SUFFICES ASSUME NEW o \in OpenIntents \ ended
                   PROVE  /\ code'[intent[o].code].status = "reserved"
                          /\ code'[intent[o].code].by = o
                          /\ link[o].token = "usable"
                          /\ EmailOf[intent[o].code] \notin owners'
        BY <2>1
      <4>1. code'[intent[o].code] = code[intent[o].code] /\ owners' = owners
        BY <1>4, <2>1
      <4> QED  BY <4>1 DEF EnrollInv, OpenEnrollmentsCanComplete
    <3> QED  BY <1>7, <3>1, <3>2
  <2>3. \A o, q \in OpenIntents' : EmailOf[intent'[o].code] = EmailOf[intent'[q].code] => o = q
    BY <1>3, <1>6, <1>7, <2>1 DEF EnrollInv, OpenEnrollmentsCanComplete
  <2> QED  BY <2>2, <2>3 DEF HoldsItsOwn
<1> QED  BY <1>10, <1>11, <1>12, <1>13, Assembled, PTL

LEMMA ResendStep ==
  ASSUME EnrollInv, NEW i \in Intent, ResendVerification(i)
  PROVE  EnrollInv'
<1>1. /\ resends' = resends + 1 /\ resends' \in 0..MaxResends
      /\ link' = [link EXCEPT ![i] = Queued(@)]
      /\ UNCHANGED <<code, intent, reserved, active, known, owners, worker, faults>>
  BY TypedRows, Bounded DEF ResendVerification, authority, accounts
<1>2. link[i].n \in 0..(resends + 1)
  BY TypedRows DEF EnrollInv, LinksInv, LinkRow
<1>3. /\ link' \in [Intent -> LinkRow]
      /\ link'[i].n = link[i].n + 1 /\ link'[i].token = "usable"
      /\ \A o \in Intent \ {i} : link'[o] = link[o]
  <2>1. Queued(link[i]) \in LinkRow
    BY <1>1, <1>2, TypedRows, Bounded DEF Queued, LinkRow
  <2> QED  BY <1>1, <2>1, TypedRows DEF Queued
<1>4. TypeOK'
  BY <1>1, <1>3 DEF EnrollInv, TypeOK, LinkRow
<1>5. LinksInv'
  <2>1. \A o \in Intent \ {i} : link[o].n \in Nat /\ link[o].n <= resends + 1
    BY TypedRows DEF EnrollInv, LinksInv, LinkRow
  <2> QED  BY <1>1, <1>2, <1>3, <2>1, TypedRows
           DEF EnrollInv, LinksInv, ResendVerification, Open
<1>6. PlacesAreKept'
  BY <1>1 DEF EnrollInv, PlacesAreKept, OpenIntents, Open
<1>7. HoldsItsOwn'
  BY <1>1, <1>3 DEF EnrollInv, OpenEnrollmentsCanComplete, HoldsItsOwn, OpenIntents, Open
<1> QED  BY <1>4, <1>5, <1>6, <1>7, Assembled, PTL

LEMMA CompleteLateStep ==
  ASSUME EnrollInv, NEW i \in Intent, CompleteLate(i)
  PROVE  EnrollInv'
<1>1. intent[i].status \in {"verification_sent", "expired"}
  BY DEF CompleteLate, EnrollInv, LinksInv
<1>2. /\ intent' \in [Intent -> IntentRow]
      /\ intent'[i].status = "expired"
      /\ \A o \in Intent \ {i} : intent'[o] = intent[o]
      /\ UNCHANGED <<code, link, reserved, active, known, owners, worker, resends, faults>>
  BY TypedRows DEF CompleteLate, IntentRow, authority, accounts, bounds
<1>3. OpenIntents' = OpenIntents \ {i} /\ Completed' = Completed
  BY <1>1, <1>2 DEF OpenIntents, Open, Completed
<1>4. TypeOK'
  BY <1>2 DEF EnrollInv, TypeOK, IntentRow
<1>5. LinksInv'
  BY <1>2 DEF EnrollInv, LinksInv
<1>6. PlacesAreKept'
  <2>1. /\ Cardinality(OpenIntents') <= Cardinality(OpenIntents)
        /\ Cardinality(OpenIntents') \in Nat /\ Cardinality(OpenIntents) \in Nat
    BY <1>3, Without DEF OpenIntents
  <2>2. reserved' >= Cardinality(OpenIntents')
    BY <1>2, <2>1, TypedRows DEF EnrollInv, PlacesAreKept
  <2> QED  BY <1>2, <1>3, <2>2 DEF EnrollInv, PlacesAreKept, Completed
<1>7. HoldsItsOwn'
  <2>1. \A o \in OpenIntents' : o \in OpenIntents /\ intent'[o] = intent[o]
    BY <1>2, <1>3 DEF OpenIntents
  <2> QED  BY <1>2, <2>1 DEF EnrollInv, OpenEnrollmentsCanComplete, HoldsItsOwn
<1> QED  BY <1>4, <1>5, <1>6, <1>7, Assembled, PTL

\* The place becomes a workspace, the code and the address are used up.
LEMMA CompleteStep ==
  ASSUME EnrollInv, NEW i \in Intent, CompleteEnrollment(i)
  PROVE  EnrollInv'
<1> DEFINE c == intent[i].code
<1>1. i \in OpenIntents /\ c \in Code
  BY TypedRows DEF CompleteEnrollment, OpenIntents, IntentRow
<1>2. /\ intent' \in [Intent -> IntentRow]
      /\ intent'[i].status = "completed"
      /\ \A o \in Intent \ {i} : intent'[o] = intent[o]
  BY TypedRows DEF CompleteEnrollment, IntentRow
<1>3. OpenIntents' = OpenIntents \ {i} /\ Completed' = Completed \cup {i} /\ i \notin Completed
  BY <1>1, <1>2 DEF OpenIntents, Open, Completed
<1>4. /\ link' \in [Intent -> LinkRow]
      /\ link'[i].n = link[i].n /\ link'[i].token = "consumed"
      /\ \A o \in Intent \ {i} : link'[o] = link[o]
  BY TypedRows DEF CompleteEnrollment, Cancelled, LinkRow
<1>5. code' \in [Code -> CodeRow] /\ \A d \in Code \ {c} : code'[d] = code[d]
  BY <1>1, CodeEnds DEF CompleteEnrollment
<1>6. /\ reserved > 0 /\ reserved' = reserved - 1 /\ active' = active + 1
      /\ known' = known \cup {EmailOf[c]} /\ owners' = owners \cup {EmailOf[c]}
      /\ UNCHANGED <<worker, resends, faults>>
  BY DEF CompleteEnrollment, bounds
<1>7. TypeOK'
  <2>1. reserved' \in 0..MaxTenants /\ active' \in 0..MaxTenants
    BY <1>6, TypedRows, Bounded
  <2>2. EmailOf[c] \in Email
    BY <1>1, Bounded
  <2> QED  BY <1>2, <1>4, <1>5, <1>6, <2>1, <2>2
           DEF EnrollInv, TypeOK, CodeRow, IntentRow, LinkRow
<1>8. LinksInv'
  <2>1. intent[i].status # "none"
    BY <1>1 DEF OpenIntents, Open
  <2> QED  BY <1>2, <1>4, <1>6, <2>1 DEF EnrollInv, LinksInv
<1>9. PlacesAreKept'
  <2>1. {i} \in SUBSET OpenIntents /\ OpenIntents \in SUBSET Intent /\ Completed \in SUBSET Intent
    BY <1>1 DEF OpenIntents, Completed
  <2>2. Cardinality({i}) = 1
    BY FS_Singleton
  <2>3. Cardinality(OpenIntents') = Cardinality(OpenIntents) - 1 /\ Cardinality(OpenIntents) \in Nat
    BY <1>3, <2>1, <2>2, Without
  <2>4. Cardinality(Completed') = Cardinality(Completed) + 1
    BY <1>3, <2>1, With
  <2>5. reserved >= Cardinality(OpenIntents) /\ active = Cardinality(Completed)
    BY DEF EnrollInv, PlacesAreKept, Completed
  <2>6. /\ reserved' >= Cardinality(OpenIntents') /\ active' = Cardinality(Completed')
        /\ reserved' + active' <= MaxTenants
    BY <1>6, <2>3, <2>4, <2>5, TypedRows
  <2> QED  BY <2>6 DEF PlacesAreKept, Completed
<1>10. HoldsItsOwn'
  <2>1. \A o \in OpenIntents' :
          /\ o \in OpenIntents /\ o # i /\ intent'[o] = intent[o] /\ link'[o] = link[o]
          /\ intent[o].code # c /\ EmailOf[intent[o].code] # EmailOf[c]
          /\ intent[o].code \in Code
    BY <1>1, <1>2, <1>3, <1>4, TypedRows
    DEF EnrollInv, OpenEnrollmentsCanComplete, OpenIntents, IntentRow
  <2> QED  BY <1>5, <1>6, <2>1 DEF EnrollInv, OpenEnrollmentsCanComplete, HoldsItsOwn
<1> QED  BY <1>7, <1>8, <1>9, <1>10, Assembled, PTL

-----------------------------------------------------------------------------
(* The theorems *)

LEMMA EnrollInit == Init => EnrollInv
<1> SUFFICES ASSUME Init PROVE EnrollInv
  OBVIOUS
<1>1. NoRow \in IntentRow /\ NoLink \in LinkRow /\ IdleWorker \in WorkerRow
  BY Bounded DEF NoRow, NoLink, IdleWorker, IntentRow, LinkRow, WorkerRow
<1>2. code \in [Code -> CodeRow]
  BY Bounded DEF Init, CodeRow
<1>3. TypeOK
  BY <1>1, <1>2, Bounded DEF Init, TypeOK, CodeRow, IntentRow, LinkRow, WorkerRow
<1>4. OpenIntents = {} /\ Completed = {}
  BY DEF Init, NoRow, OpenIntents, Open, Completed
<1>5. PlacesAreKept
  <2>1. Cardinality(OpenIntents) = 0 /\ Cardinality(Completed) = 0
    BY <1>4, FS_EmptySet
  <2>2. reserved = 0 /\ active = 0
    BY DEF Init
  <2>3. active = Cardinality({i \in Intent : intent[i].status = "completed"})
    BY <2>1, <2>2 DEF Completed
  <2> QED  BY <2>1, <2>2, <2>3, Bounded DEF PlacesAreKept
<1>6. LinksInv
  BY DEF Init, NoLink, LinksInv
<1>7. OpenEnrollmentsCanComplete
  BY <1>4 DEF OpenEnrollmentsCanComplete
<1> QED  BY <1>3, <1>5, <1>6, <1>7 DEF EnrollInv

LEMMA EnrollNext == EnrollInv /\ [Next]_vars => EnrollInv'
<1> SUFFICES ASSUME EnrollInv, [Next]_vars PROVE EnrollInv'
  OBVIOUS
<1>1. CASE Next
  BY <1>1, StartStep, RevokeStep, ResendStep, CompleteStep, CompleteLateStep, ExpireStep,
     RegisterStep, WorkerStep, TimeStep DEF Next
<1>2. CASE UNCHANGED vars
  <2>1. TypeOK' /\ Quiet
    BY <1>2 DEF EnrollInv, TypeOK, Quiet, vars
  <2> QED  BY <2>1, QuietKeeps
<1> QED  BY <1>1, <1>2

\* The inductive invariant: types, the places, the open enrollments, and that a
\* link is never good once its enrollment was completed (else a late click on it
\* would unmake the workspace that active counts).
THEOREM EnrollmentInvariant == Spec => []EnrollInv
BY EnrollInit, EnrollNext, PTL DEF Spec

\* Every variable keeps its type; reserved and active places never exceed the limit.
THEOREM EnrollmentTypeCorrect == Spec => []TypeOK
<1>1. EnrollInv => TypeOK
  BY DEF EnrollInv
<1> QED  BY <1>1, EnrollmentInvariant, PTL

\* The authority's counters never promise more than there is, for any number of
\* signups, expiries, revocations and late links.
THEOREM PlacesKept == Spec => []PlacesAreKept
<1>1. EnrollInv => PlacesAreKept
  BY DEF EnrollInv
<1> QED  BY <1>1, EnrollmentInvariant, PTL

\* Nothing in the store but time refuses the completion of an open enrollment.
THEOREM OpenCanComplete == Spec => []OpenEnrollmentsCanComplete
<1>1. EnrollInv => OpenEnrollmentsCanComplete
  BY DEF EnrollInv
<1> QED  BY <1>1, EnrollmentInvariant, PTL

LEMMA SpentStep ==
  ASSUME EnrollInv, Next, NEW c \in Code, code[c].status \in {"consumed", "revoked"}
  PROVE  /\ code'[c].status = code[c].status
         /\ \A i \in Intent : intent'[i].code = c /\ intent'[i].status = "completed"
                              => intent[i].status = "completed"
<1>1. \A i \in OpenIntents : intent[i].code # c
  BY DEF EnrollInv, OpenEnrollmentsCanComplete
<1>2. ASSUME NEW E \in SUBSET OpenIntents PROVE CodesWithout(E)[c] = code[c]
  BY <1>1, EndedHold
<1>3. ASSUME NEW d \in Code, NEW o \in Intent, StartEnrollment(d, o)
      PROVE  code'[c] = code[c]
  <2>1. d # c
    BY <1>3 DEF StartEnrollment, Available
  <2>2. CodesWithout(OpenEmail(d)) \in [Code -> CodeRow]
    BY GivenCodes
  <2>3. CodesWithout(OpenEmail(d))[c] = code[c]
    BY <1>2, HolderIsOpen
  <2> QED  BY <1>3, <2>1, <2>2, <2>3 DEF StartEnrollment
<1>4. ASSUME NEW o \in Intent, CompleteEnrollment(o)
      PROVE  code'[c] = code[c] /\ intent[o].code # c
  BY <1>4, TypedRows DEF CompleteEnrollment
<1>5. code'[c].status = code[c].status
  <2>1. ASSUME NEW E \in SUBSET Intent, ExpireIntents(E) PROVE code'[c] = code[c]
    BY <2>1, <1>2 DEF ExpireIntents, OpenIntents
  <2>2. ASSUME NEW d \in Code, RevokeCode(d) \/ ReservationLapses(d) \/ CodeExpires(d)
        PROVE  code'[c].status = code[c].status
    BY <2>2, TypedRows DEF RevokeCode, ReservationLapses, CodeExpires, CodeRow
  <2>3. ASSUME NEW i \in Intent, ResendVerification(i) \/ CompleteLate(i)
                                 \/ IntentExpires(i) \/ LinkExpires(i)
        PROVE  code' = code
    BY <2>3 DEF ResendVerification, CompleteLate, IntentExpires, LinkExpires
  <2>4. ASSUME NEW w \in Worker, Work(w) \/ Crash(w) PROVE code' = code
    BY <2>4 DEF Work, ClaimDeliveries, SendVerification, SendFails, MarkDelivered, MarkFailed,
                Mark, Crash
  <2>5. ASSUME NEW e \in Email, RegisterByInvitation(e) PROVE code' = code
    BY <2>5 DEF RegisterByInvitation
  <2> QED  BY <1>3, <1>4, <2>1, <2>2, <2>3, <2>4, <2>5 DEF Next
<1>6. ASSUME NEW i \in Intent, intent'[i].code = c, intent'[i].status = "completed"
      PROVE  intent[i].status = "completed"
  <2>1. ASSUME NEW d \in Code, NEW o \in Intent, StartEnrollment(d, o)
        PROVE  intent[i].status = "completed"
    BY <2>1, <1>6, TypedRows DEF StartEnrollment, IntentRow
  <2>2. ASSUME NEW o \in Intent, CompleteEnrollment(o)
        PROVE  intent[i].status = "completed"
    BY <2>2, <1>4, <1>6, TypedRows DEF CompleteEnrollment, IntentRow
  <2>3. ASSUME NEW E \in SUBSET Intent, ExpireIntents(E) PROVE intent[i].status = "completed"
    BY <2>3, <1>6, TypedRows DEF ExpireIntents, IntentRow
  <2>4. ASSUME NEW d \in Code, RevokeCode(d) \/ ReservationLapses(d) \/ CodeExpires(d)
        PROVE  intent[i].status = "completed"
    BY <2>4, <1>6, TypedRows DEF RevokeCode, ReservationLapses, CodeExpires, IntentRow
  <2>5. ASSUME NEW o \in Intent, ResendVerification(o) \/ CompleteLate(o)
                                 \/ IntentExpires(o) \/ LinkExpires(o)
        PROVE  intent[i].status = "completed"
    BY <2>5, <1>6, TypedRows
    DEF ResendVerification, CompleteLate, IntentExpires, LinkExpires, IntentRow
  <2>6. ASSUME NEW w \in Worker, Work(w) \/ Crash(w) PROVE intent' = intent
    BY <2>6 DEF Work, ClaimDeliveries, SendVerification, SendFails, MarkDelivered, MarkFailed,
                Mark, Crash
  <2>7. ASSUME NEW e \in Email, RegisterByInvitation(e) PROVE intent' = intent
    BY <2>7 DEF RegisterByInvitation
  <2> QED  BY <1>6, <2>1, <2>2, <2>3, <2>4, <2>5, <2>6, <2>7 DEF Next
<1> QED  BY <1>5, <1>6

\* A code buys at most one workspace: used or taken back, it stays so.
THEOREM SpentStaySpent == Spec => SpentCodesStaySpent
<1>1. EnrollInv /\ [Next]_vars =>
        [\A c \in Code : code[c].status \in {"consumed", "revoked"} =>
           /\ code'[c].status = code[c].status
           /\ \A i \in Intent : intent'[i].code = c /\ intent'[i].status = "completed"
                                => intent[i].status = "completed"]_vars
  BY SpentStep
<1> QED  BY <1>1, EnrollmentInvariant, PTL DEF Spec, SpentCodesStaySpent
=============================================================================
