---------------------- MODULE WorkerCoordinationProofs ----------------------
(* The slots and the turns of a worker process, for any number of tenants,  *)
(* slots, turns and pages of a batch.                                       *)
EXTENDS WorkerCoordination, FiniteSetTheorems, TLAPS

-----------------------------------------------------------------------------
(* Lines                                                                    *)

\* Who stays in a line keeps the place behind those who stay.
LEMMA PartIsLine ==
  ASSUME NEW l, IsLine(l), NEW S
  PROVE  /\ IsLine(Part(l, S))
         /\ Members(Part(l, S)) = Members(l) \cap S
<1>1. \A x \in Members(l) : <<x, x>> \in l
  BY DEF IsLine
<1>2. \A e \in l : e = <<e[1], e[2]>> /\ e[1] \in Members(l) /\ e[2] \in Members(l)
  BY DEF IsLine
<1>3. \A x, y : <<x, y>> \in Part(l, S) <=> <<x, y>> \in l /\ x \in S /\ y \in S
  BY DEF Part
<1>4. Members(Part(l, S)) = Members(l) \cap S
  <2>1. \A x \in Members(Part(l, S)) : x \in Members(l) \cap S
    BY <1>2 DEF Members, Part
  <2>2. \A x \in Members(l) \cap S : <<x, x>> \in Part(l, S) /\ <<x, x>>[1] = x
    BY <1>1, <1>3
  <2> QED
    BY <2>1, <2>2 DEF Members
<1>5. Part(l, S) \subseteq (Members(l) \cap S) \X (Members(l) \cap S)
  BY <1>2 DEF Part
<1> QED
  BY <1>3, <1>4, <1>5 DEF IsLine

\* Two lines with no common member make one.
LEMMA FollowedIsLine ==
  ASSUME NEW l, IsLine(l), NEW m, IsLine(m), Members(l) \cap Members(m) = {}
  PROVE  /\ IsLine(Followed(l, m))
         /\ Members(Followed(l, m)) = Members(l) \cup Members(m)
<1> DEFINE L == Members(l)
           M == Members(m)
           f == Followed(l, m)
<1>1. /\ l \subseteq L \X L /\ m \subseteq M \X M
      /\ \A x \in L : <<x, x>> \in l
      /\ \A x \in M : <<x, x>> \in m
  BY DEF IsLine
<1>2. \A x, y : <<x, y>> \in f <=> \/ <<x, y>> \in l \/ <<x, y>> \in m
                                   \/ x \in L /\ y \in M
  BY DEF Followed
<1>3. f \subseteq (L \cup M) \X (L \cup M)
  BY <1>1 DEF Followed
<1>4. Members(f) = L \cup M
  <2>1. \A e \in f : e[1] \in L \cup M
    BY <1>3
  <2>2. \A x \in L \cup M : <<x, x>> \in f /\ <<x, x>>[1] = x
    BY <1>1, <1>2
  <2> HIDE DEF L, M, f
  <2>3. \A x \in Members(f) : x \in L \cup M
    BY <2>1 DEF Members
  <2>4. \A x \in L \cup M : x \in Members(f)
    BY <2>2 DEF Members
  <2> QED
    BY <2>3, <2>4
<1>5. \A x, y \in L \cup M : <<x, y>> \in f \/ <<y, x>> \in f
  BY <1>2 DEF IsLine
<1>6. \A x, y : <<x, y>> \in l => x \in L /\ y \in L
  BY <1>1
<1>7. \A x, y : <<x, y>> \in m => x \in M /\ y \in M
  BY <1>1
<1>8. \A x, y \in L \cup M : <<x, y>> \in f /\ <<y, x>> \in f => x = y
  BY <1>2, <1>6, <1>7 DEF IsLine
<1>9. \A x, y, z \in L \cup M : <<x, y>> \in f /\ <<y, z>> \in f => <<x, z>> \in f
  BY <1>2, <1>6, <1>7 DEF IsLine
<1> QED
  BY <1>3, <1>4, <1>5, <1>8, <1>9 DEF IsLine

\* Tenants line up in the order of their numbers.
LEMMA TenantsLineUp ==
  ASSUME NEW S, S \subseteq Nat
  PROVE  LET l == {e \in S \X S : e[1] <= e[2]}
         IN IsLine(l) /\ Members(l) = S
<1> DEFINE l == {e \in S \X S : e[1] <= e[2]}
<1>1. \A x, y : <<x, y>> \in l <=> x \in S /\ y \in S /\ x <= y
  OBVIOUS
<1>2. Members(l) = S
  <2>1. \A x \in S : <<x, x>> \in l /\ <<x, x>>[1] = x
    BY <1>1
  <2> QED
    BY <2>1 DEF Members
<1>3. l \subseteq S \X S
  OBVIOUS
<1> HIDE DEF l
<1>4. \A x, y \in S : <<x, y>> \in l \/ <<y, x>> \in l
  <2> SUFFICES ASSUME NEW x \in S, NEW y \in S PROVE <<x, y>> \in l \/ <<y, x>> \in l
    OBVIOUS
  <2>1. x <= y \/ y <= x
    OBVIOUS
  <2> QED
    BY <1>1, <2>1
<1>5. \A x, y \in S : <<x, y>> \in l /\ <<y, x>> \in l => x = y
  BY <1>1
<1>6. \A x, y, z \in S : <<x, y>> \in l /\ <<y, z>> \in l => <<x, z>> \in l
  BY <1>1
<1>7. IsLine(l)
  BY <1>2, <1>3, <1>4, <1>5, <1>6 DEF IsLine
<1> QED
  BY <1>2, <1>7 DEF l

\* The pages of a batch line up in the order of their numbers.
LEMMA PagesLineUp ==
  ASSUME NEW t
  PROVE  LET l == {e \in PagesOf(t) \X PagesOf(t) : e[1][2] <= e[2][2]}
         IN IsLine(l) /\ Members(l) = PagesOf(t)
<1> DEFINE S == PagesOf(t)
           l == {e \in S \X S : e[1][2] <= e[2][2]}
<1>0. \A p \in S : p[2] \in Int
  BY DEF PagesOf
<1>a. \A p, q \in S : p[2] = q[2] => p = q
  BY DEF PagesOf
<1> HIDE DEF S
<1>1. \A x, y : <<x, y>> \in l <=> x \in S /\ y \in S /\ x[2] <= y[2]
  OBVIOUS
<1>2. Members(l) = S
  <2>1. \A x \in S : <<x, x>> \in l /\ <<x, x>>[1] = x
    BY <1>0, <1>1
  <2> QED
    BY <2>1 DEF Members
<1>3. l \subseteq S \X S
  OBVIOUS
<1> HIDE DEF l
<1>4. \A x, y \in S : <<x, y>> \in l \/ <<y, x>> \in l
  <2> SUFFICES ASSUME NEW x \in S, NEW y \in S PROVE <<x, y>> \in l \/ <<y, x>> \in l
    OBVIOUS
  <2>1. x[2] <= y[2] \/ y[2] <= x[2]
    BY <1>0
  <2> QED
    BY <1>1, <2>1
<1>5. \A x, y \in S : <<x, y>> \in l /\ <<y, x>> \in l => x = y
  <2> SUFFICES ASSUME NEW x \in S, NEW y \in S, <<x, y>> \in l, <<y, x>> \in l
               PROVE  x = y
    OBVIOUS
  <2>1. x[2] = y[2]
    BY <1>0, <1>1
  <2> QED
    BY <1>a, <2>1
<1>6. \A x, y, z \in S : <<x, y>> \in l /\ <<y, z>> \in l => <<x, z>> \in l
  BY <1>0, <1>1
<1>7. IsLine(l)
  BY <1>2, <1>3, <1>4, <1>5, <1>6 DEF IsLine
<1> QED
  BY <1>2, <1>7 DEF l, S

\* Of those in a line, at most n have fewer than n in front of them.
LEMMA FewAreInFront ==
  ASSUME NEW l, IsLine(l), NEW R \in SUBSET Members(l), IsFiniteSet(R), NEW n \in Nat
  PROVE  LET first == {t \in R : Cardinality({u \in R \ {t} : <<u, t>> \in l}) < n}
         IN IsFiniteSet(first) /\ Cardinality(first) <= n
<1> DEFINE Front(t) == {u \in R \ {t} : <<u, t>> \in l}
           first == {t \in R : Cardinality(Front(t)) < n}
           rank == [t \in first |-> Cardinality(Front(t))]
<1>1. \A t : IsFiniteSet(Front(t)) /\ Cardinality(Front(t)) \in Nat
  <2> SUFFICES ASSUME NEW t PROVE IsFiniteSet(Front(t)) /\ Cardinality(Front(t)) \in Nat
    OBVIOUS
  <2>1. Front(t) \in SUBSET R
    OBVIOUS
  <2> QED
    BY <2>1, FS_Subset, FS_CardinalityType
<1>2. rank \in [first -> 0..(n-1)]
  <2>1. \A k \in Nat : k < n => k \in 0..(n-1)
    OBVIOUS
  <2>2. \A t \in first : Cardinality(Front(t)) \in 0..(n-1)
    <3> HIDE DEF Front
    <3> QED
      BY <1>1, <2>1
  <2> HIDE DEF Front
  <2> QED
    BY <2>2
<1>3. ASSUME NEW s \in first, NEW t \in first, s # t, <<s, t>> \in l
      PROVE  Cardinality(Front(s)) # Cardinality(Front(t))
  <2>1. \A u \in Front(s) : u \in Front(t)
    <3> SUFFICES ASSUME NEW u \in Front(s) PROVE u \in Front(t)
      OBVIOUS
    <3>1. u \in Members(l) /\ s \in Members(l) /\ t \in Members(l) /\ <<u, s>> \in l
      OBVIOUS
    <3>2. <<u, t>> \in l
      BY <1>3, <3>1 DEF IsLine
    <3>3. u # t
      BY <1>3, <3>1 DEF IsLine
    <3> QED
      BY <3>2, <3>3
  <2>2. s \in Front(t) /\ s \notin Front(s)
    BY <1>3
  <2>3. Front(s) \in SUBSET Front(t) /\ Front(s) # Front(t)
    BY <2>1, <2>2
  <2> HIDE DEF Front
  <2> QED
    BY <1>1, <2>3, FS_Subset
<1>4. \A s, t \in first : rank[s] = rank[t] => s = t
  <2> SUFFICES ASSUME NEW s \in first, NEW t \in first, s # t
               PROVE  rank[s] # rank[t]
    OBVIOUS
  <2>1. <<s, t>> \in l \/ <<t, s>> \in l
    BY DEF IsLine
  <2> QED
    BY <1>3, <2>1
<1>5. rank \in Injection(first, 0..(n-1))
  BY <1>2, <1>4 DEF Injection, IsInjective
<1>6. IsFiniteSet(0..(n-1)) /\ Cardinality(0..(n-1)) = n
  BY FS_Interval
<1> HIDE DEF first, rank
<1>7. IsFiniteSet(first) /\ Cardinality(first) <= n
  BY <1>5, <1>6, FS_Injection
<1> QED
  BY <1>7 DEF first

-----------------------------------------------------------------------------
(* The worker process                                                       *)

\* Every state of the process: both invariants together.
Coordinated == TypeOK /\ SlotsAreConserved

LEMMA PagesAreFinite ==
  /\ IsFiniteSet(Page)
  /\ \A S \in SUBSET Page : IsFiniteSet(S) /\ Cardinality(S) \in Nat
<1>1. TenantCount \in Int /\ Concurrency \in Int
  BY BoundsArePositive
<1>2. IsFiniteSet(Tenant) /\ IsFiniteSet(1..Concurrency)
  BY <1>1, FS_Interval DEF Tenant
<1>3. IsFiniteSet(Page)
  BY <1>2, FS_Product DEF Page
<1> QED
  BY <1>3, FS_Subset, FS_CardinalityType

LEMMA TenantsAreFinite ==
  /\ IsFiniteSet(Tenant) /\ Tenant \subseteq Nat
  /\ \A S \in SUBSET Tenant : IsFiniteSet(S) /\ Cardinality(S) \in Nat
<1>1. IsFiniteSet(Tenant) /\ Tenant \subseteq Nat
  BY BoundsArePositive, FS_Interval DEF Tenant
<1> QED
  BY <1>1, FS_Subset, FS_CardinalityType

\* Pages that stop give back what they hold, and no other page is touched.
LEMMA StopKeepsSlots ==
  ASSUME Coordinated, NEW stopped \in SUBSET Tenant, StopPages(stopped)
  PROVE  /\ IsLine(line') /\ Members(line)' \subseteq Page
         /\ held' \subseteq Page /\ hung' \subseteq held'
         /\ free' \in Nat /\ free' + Cardinality(held') = PageSlots
         /\ held' \cap Members(line)' = {}
         /\ \A p \in held' \cup Members(line)' :
              p \in held \cup Members(line) /\ p[1] \notin stopped
<1> DEFINE mine == stopped \X (1..Concurrency)
<1>1. /\ line' = Part(line, Page \ mine)
      /\ held' = held \ mine /\ hung' = hung \ mine
      /\ free' = free + Cardinality(held \cap mine)
  BY DEF StopPages
<1>2. IsLine(line) /\ Members(line) \subseteq Page /\ held \subseteq Page /\ hung \subseteq held
  BY DEF Coordinated, TypeOK
<1>3. free \in Nat /\ PageSlots \in Nat /\ free + Cardinality(held) = PageSlots
  BY BoundsArePositive DEF Coordinated, TypeOK, SlotsAreConserved
<1>4. IsLine(line') /\ Members(line)' = Members(line) \cap (Page \ mine)
  BY <1>1, <1>2, PartIsLine
<1>5. \A p \in Page \ mine : p[1] \notin stopped
  BY DEF Page
<1>6. /\ Cardinality(held \cap mine) \in Nat /\ Cardinality(held) \in Nat
      /\ Cardinality(held \ mine) = Cardinality(held) - Cardinality(held \cap mine)
  <2>1. IsFiniteSet(held) /\ held \cap mine \in SUBSET Page
    BY <1>2, PagesAreFinite
  <2> QED
    BY <1>2, <2>1, PagesAreFinite, FS_Difference
<1>7. free' \in Nat /\ free' + Cardinality(held') = PageSlots
  BY <1>1, <1>3, <1>6
<1>8. held \cap Members(line) = {}
  BY DEF Coordinated, SlotsAreConserved
<1> QED
  BY <1>1, <1>2, <1>4, <1>5, <1>7, <1>8

LEMMA FreeIsBounded ==
  ASSUME NEW f \in Nat, NEW S \in SUBSET Page, f + Cardinality(S) = PageSlots
  PROVE  f \in 0..PageSlots
BY PagesAreFinite, BoundsArePositive

\* The queue a tick works with has each known tenant once.
LEMMA ReconciledIsLine ==
  ASSUME Coordinated, NEW tenants \in SUBSET Tenant
  PROVE  IsLine(Reconciled(tenants)) /\ Members(Reconciled(tenants)) = tenants
<1> DEFINE new == tenants \ Members(queue)
           old == Part(queue, tenants)
           last == {e \in new \X new : e[1] <= e[2]}
<1>1. IsLine(old) /\ Members(old) = Members(queue) \cap tenants
  BY PartIsLine DEF Coordinated, TypeOK
<1>2. IsLine(last) /\ Members(last) = new
  <2>1. new \subseteq Nat
    BY TenantsAreFinite
  <2> HIDE DEF new
  <2> QED
    BY <2>1, TenantsLineUp
<1>3. Reconciled(tenants) = Followed(old, last)
  BY DEF Reconciled
<1>4. Members(old) \cap Members(last) = {}
  BY <1>1, <1>2
<1>5. Members(old) \cup Members(last) = tenants
  BY <1>1, <1>2
<1> HIDE DEF old, last
<1> QED
  BY <1>1, <1>2, <1>3, <1>4, <1>5, FollowedIsLine

LEMMA RotatedIsLine ==
  ASSUME NEW q, IsLine(q), NEW passed
  PROVE  IsLine(Rotated(q, passed)) /\ Members(Rotated(q, passed)) = Members(q)
<1> DEFINE rest == Part(q, Members(q) \ passed)
           turned == Part(q, passed)
<1>1. IsLine(rest) /\ Members(rest) = Members(q) \ passed
  BY PartIsLine
<1>2. IsLine(turned) /\ Members(turned) = Members(q) \cap passed
  BY PartIsLine
<1>3. Rotated(q, passed) = Followed(rest, turned)
  BY DEF Rotated
<1> HIDE DEF rest, turned
<1> QED
  BY <1>1, <1>2, <1>3, FollowedIsLine

\* A tick starts no more runs than there is room for.
LEMMA SelectedAreFew ==
  ASSUME NEW q, IsLine(q), Members(q) \subseteq Tenant, NEW running, NEW n \in Nat
  PROVE  /\ Passed(q, n, running) \cap Ready(q, running) \subseteq Members(q) \ running
         /\ Cardinality(Passed(q, n, running) \cap Ready(q, running)) \in 0..n
<1> DEFINE R == Ready(q, running)
           first == {t \in R : Cardinality({u \in R \ {t} : <<u, t>> \in q}) < n}
<1>1. R \in SUBSET Members(q) /\ R \in SUBSET Tenant /\ R \cap running = {}
  BY DEF Ready
<1>2. IsFiniteSet(R)
  BY <1>1, TenantsAreFinite
<1>3. Passed(q, n, running) \cap R = first
  BY <1>1 DEF Passed
<1> HIDE DEF R
<1>4. IsFiniteSet(first) /\ Cardinality(first) <= n
  BY <1>1, <1>2, FewAreInFront
<1>5. Cardinality(first) \in Nat
  BY <1>4, FS_CardinalityType
<1>6. Cardinality(first) \in 0..n
  BY <1>4, <1>5
<1>7. first \subseteq Members(q) \ running
  BY <1>1
<1> HIDE DEF first
<1> QED
  BY <1>3, <1>6, <1>7 DEF R

LEMMA TickKeeps ==
  ASSUME Coordinated, NEW tenants \in SUBSET Tenant, Tick(tenants)
  PROVE  Coordinated'
<1> DEFINE gone == Active \ tenants
           running == Active \ gone
           room == MaxActiveTenants - Cardinality(running)
<1>1. PICK q \in {Reconciled(tenants)} : \E passed \in {Passed(q, room, running)} :
        LET selected == passed \cap Ready(q, running)
        IN /\ queue' = Rotated(q, passed)
           /\ task' = [t \in Tenant |-> IF t \in selected THEN "running"
                                        ELSE IF t \in gone THEN "none" ELSE task[t]]
           /\ batches' = [t \in Tenant |-> IF t \in selected THEN Quantum
                                           ELSE IF t \in gone THEN 0 ELSE batches[t]]
           /\ phase' = IF selected = {} /\ running = {} THEN "tick" ELSE "wait"
  BY DEF Tick
<1> DEFINE passed == Passed(q, room, running)
           selected == passed \cap Ready(q, running)
<1>2. /\ queue' = Rotated(q, passed)
      /\ task' = [t \in Tenant |-> IF t \in selected THEN "running"
                                   ELSE IF t \in gone THEN "none" ELSE task[t]]
      /\ batches' = [t \in Tenant |-> IF t \in selected THEN Quantum
                                      ELSE IF t \in gone THEN 0 ELSE batches[t]]
      /\ phase' \in {"tick", "wait"}
  BY <1>1
<1>3. /\ catalog' = catalog /\ cached' = tenants /\ resting' = resting \cap tenants
      /\ StopPages(gone)
  BY DEF Tick
<1>4. gone \in SUBSET Tenant /\ running \in SUBSET Tenant /\ running \subseteq Active
  BY DEF Active
<1>5. IsLine(q) /\ Members(q) = tenants
  BY <1>1, ReconciledIsLine
<1>6. IsLine(queue') /\ Members(queue)' = tenants
  BY <1>2, <1>5, RotatedIsLine
<1>7. room \in Nat /\ Cardinality(running) \in Nat
  <2>1. Active \in SUBSET Tenant
    BY DEF Active
  <2>2. Cardinality(running) <= Cardinality(Active)
    BY <1>4, <2>1, TenantsAreFinite, FS_Subset
  <2>3. Cardinality(Active) <= MaxActiveTenants
    BY DEF Coordinated, SlotsAreConserved
  <2> QED
    BY <1>4, <2>1, <2>2, <2>3, TenantsAreFinite, BoundsArePositive
<1>8. selected \subseteq tenants \ running /\ Cardinality(selected) \in 0..room
  <2> HIDE DEF room, running
  <2> QED
    BY <1>5, <1>7, SelectedAreFew
<1> HIDE DEF selected, passed
<1>9. TypeOK'
  <2>1. task' \in [Tenant -> {"none", "running", "progress", "idle"}]
    BY <1>2 DEF Coordinated, TypeOK
  <2>2. batches' \in [Tenant -> 0..Quantum]
    BY <1>2, BoundsArePositive DEF Coordinated, TypeOK
  <2>3. /\ IsLine(line') /\ Members(line)' \subseteq Page
        /\ held' \subseteq Page /\ hung' \subseteq held'
        /\ free' \in 0..PageSlots
    BY <1>3, <1>4, StopKeepsSlots, FreeIsBounded
  <2>4. catalog' \subseteq Tenant /\ cached' \subseteq Tenant /\ resting' \subseteq cached'
    BY <1>3 DEF Coordinated, TypeOK
  <2> QED
    BY <1>2, <1>3, <1>6, <2>1, <2>2, <2>3, <2>4 DEF TypeOK
<1>10. Active' = running \cup selected
  <2>1. Active' = {t \in Tenant : task'[t] # "none"}
    BY DEF Active
  <2>2. selected \subseteq Tenant /\ selected \cap gone = {}
    BY <1>8
  <2> QED
    BY <1>2, <2>1, <2>2 DEF Active
<1>11. Cardinality(Active)' <= MaxActiveTenants
  <2>1. IsFiniteSet(running) /\ IsFiniteSet(selected) /\ running \cap selected = {}
    BY <1>4, <1>8, TenantsAreFinite, FS_Subset
  <2>2. Cardinality(running \cup selected) = Cardinality(running) + Cardinality(selected)
    <3>1. Cardinality(running \cap selected) = 0
      BY <2>1, FS_EmptySet
    <3>2. Cardinality(selected) \in Nat
      BY <1>8
    <3>3. Cardinality(running \cup selected)
             = Cardinality(running) + Cardinality(selected) - Cardinality(running \cap selected)
      BY <2>1, FS_Union
    <3> HIDE DEF running
    <3> QED
      BY <1>7, <3>1, <3>2, <3>3
  <2>3. MaxActiveTenants \in Nat
    BY BoundsArePositive
  <2> QED
    BY <1>7, <1>8, <1>10, <2>2, <2>3
<1>12. \A p \in held' \cup Members(line)' : p[1] \in Running'
  <2> SUFFICES ASSUME NEW p \in held' \cup Members(line)' PROVE p[1] \in Running'
    OBVIOUS
  <2>1. p[1] \in Running /\ p[1] \notin gone
    BY <1>3, <1>4, StopKeepsSlots DEF Coordinated, SlotsAreConserved
  <2> QED
    BY <1>2, <2>1 DEF Running
<1> QED
  BY <1>3, <1>4, <1>9, <1>11, <1>12, StopKeepsSlots DEF Coordinated, SlotsAreConserved

\* A run that ends without pages in hand, or one that is reaped, leaves the
\* pages alone; who ran and still has pages runs on.
LEMMA FewerAtWork ==
  ASSUME Coordinated, Active' \subseteq Active
  PROVE  Cardinality(Active)' <= MaxActiveTenants
<1>1. Active \in SUBSET Tenant
  BY DEF Active
<1>2. Cardinality(Active') <= Cardinality(Active)
  BY <1>1, TenantsAreFinite, FS_Subset
<1>3. Active' \in SUBSET Tenant
  BY <1>1
<1> QED
  BY <1>1, <1>2, <1>3, TenantsAreFinite, BoundsArePositive DEF Coordinated, SlotsAreConserved

LEMMA ReapKeeps ==
  ASSUME Coordinated, Reap
  PROVE  Coordinated'
<1>1. /\ task' = [t \in Tenant |-> IF t \in Running THEN "running" ELSE "none"]
      /\ phase' = "tick" /\ resting' \subseteq resting \cup cached
      /\ UNCHANGED <<catalog, cached, queue, batches, line, held, hung, free>>
  BY DEF Reap, pages
<1>2. TypeOK'
  <2>1. task' \in [Tenant -> {"none", "running", "progress", "idle"}]
    BY <1>1
  <2> QED
    BY <1>1, <2>1 DEF Coordinated, TypeOK
<1>3. Running' = Running
  BY <1>1 DEF Running
<1>4. Active' \subseteq Active
  BY <1>1 DEF Running, Active
<1> QED
  BY <1>1, <1>2, <1>3, <1>4, FewerAtWork DEF Coordinated, SlotsAreConserved

LEMMA StartBatchKeeps ==
  ASSUME Coordinated, NEW t \in Tenant, StartBatch(t)
  PROVE  Coordinated'
<1> DEFINE batch == {e \in PagesOf(t) \X PagesOf(t) : e[1][2] <= e[2][2]}
<1>1. /\ t \in Running /\ batches[t] > 0
      /\ held \cap PagesOf(t) = {} /\ PagesOf(t) \cap Members(line) = {}
      /\ batches' = [batches EXCEPT ![t] = @ - 1]
      /\ line' = Followed(line, batch)
      /\ UNCHANGED <<catalog, cached, queue, resting, phase, task, held, hung, free>>
  BY DEF StartBatch, Waiting, coordinator
<1>2. IsLine(batch) /\ Members(batch) = PagesOf(t)
  BY PagesLineUp
<1> HIDE DEF batch
<1>3. IsLine(line') /\ Members(line)' = Members(line) \cup PagesOf(t)
  BY <1>1, <1>2, FollowedIsLine DEF Coordinated, TypeOK
<1>4. PagesOf(t) \subseteq Page /\ \A p \in PagesOf(t) : p[1] = t
  BY DEF PagesOf, Page
<1>5. batches' \in [Tenant -> 0..Quantum]
  BY <1>1, BoundsArePositive DEF Coordinated, TypeOK
<1>6. TypeOK'
  BY <1>1, <1>3, <1>4, <1>5 DEF Coordinated, TypeOK
<1>7. Running' = Running /\ Active' = Active
  BY <1>1 DEF Running, Active
<1> QED
  BY <1>1, <1>3, <1>4, <1>6, <1>7 DEF Coordinated, SlotsAreConserved

LEMMA AcquirePageKeeps ==
  ASSUME Coordinated, AcquirePage
  PROVE  Coordinated'
<1>1. PICK p \in Members(line) : /\ line' = Part(line, Members(line) \ {p})
                                 /\ held' = held \cup {p}
  BY DEF AcquirePage
<1>2. /\ free > 0 /\ free' = free - 1
      /\ UNCHANGED <<catalog, cached, queue, resting, phase, task, batches, hung>>
  BY DEF AcquirePage, coordinator
<1>3. IsLine(line') /\ Members(line)' = Members(line) \ {p}
  BY <1>1, PartIsLine DEF Coordinated, TypeOK
<1>4. held \subseteq Page /\ p \in Page /\ p \notin held /\ p[1] \in Running
  BY DEF Coordinated, TypeOK, SlotsAreConserved
<1>5. Cardinality(held') = Cardinality(held) + 1
  BY <1>1, <1>4, PagesAreFinite, FS_AddElement
<1>6. free' \in Nat /\ free' + Cardinality(held') = PageSlots
  BY <1>2, <1>4, <1>5, PagesAreFinite, BoundsArePositive
     DEF Coordinated, TypeOK, SlotsAreConserved
<1>7. free' \in 0..PageSlots
  BY <1>1, <1>4, <1>6, FreeIsBounded
<1>8. TypeOK'
  BY <1>1, <1>2, <1>3, <1>4, <1>7 DEF Coordinated, TypeOK
<1>9. Running' = Running /\ Active' = Active
  BY <1>2 DEF Running, Active
<1> QED
  BY <1>1, <1>3, <1>4, <1>6, <1>8, <1>9 DEF Coordinated, SlotsAreConserved

LEMMA ReleasePageKeeps ==
  ASSUME Coordinated, NEW p \in Page, ReleasePage(p)
  PROVE  Coordinated'
<1>1. /\ p \in held /\ p \notin hung /\ held' = held \ {p} /\ free' = free + 1
      /\ UNCHANGED <<catalog, cached, queue, resting, phase, task, batches, line, hung>>
  BY DEF ReleasePage, coordinator
<1>2. held \subseteq Page
  BY DEF Coordinated, TypeOK
<1>3. Cardinality(held') = Cardinality(held) - 1
  BY <1>1, <1>2, PagesAreFinite, FS_RemoveElement
<1>4. free' \in Nat /\ free' + Cardinality(held') = PageSlots
  BY <1>1, <1>2, <1>3, PagesAreFinite, BoundsArePositive
     DEF Coordinated, TypeOK, SlotsAreConserved
<1>5. free' \in 0..PageSlots
  BY <1>1, <1>2, <1>4, FreeIsBounded
<1>6. TypeOK'
  BY <1>1, <1>5 DEF Coordinated, TypeOK
<1>7. Running' = Running /\ Active' = Active
  BY <1>1 DEF Running, Active
<1> QED
  BY <1>1, <1>4, <1>6, <1>7 DEF Coordinated, SlotsAreConserved

LEMMA RunEndsKeeps ==
  ASSUME Coordinated, NEW t \in Tenant, RunEnds(t)
  PROVE  Coordinated'
<1>1. /\ t \in Running /\ held \cap PagesOf(t) = {} /\ PagesOf(t) \cap Members(line) = {}
      /\ \E end \in {"progress", "idle"} : task' = [task EXCEPT ![t] = end]
      /\ batches' = [batches EXCEPT ![t] = 0]
      /\ UNCHANGED <<catalog, cached, queue, resting, phase, line, held, hung, free>>
  BY DEF RunEnds, Waiting, coordinator, pages
<1>2. TypeOK'
  <2>1. task' \in [Tenant -> {"none", "running", "progress", "idle"}]
    BY <1>1 DEF Coordinated, TypeOK
  <2>2. batches' \in [Tenant -> 0..Quantum]
    BY <1>1, BoundsArePositive DEF Coordinated, TypeOK
  <2> QED
    BY <1>1, <2>1, <2>2 DEF Coordinated, TypeOK
<1>3. Running' = Running \ {t} /\ Active' = Active
  BY <1>1 DEF Running, Active, Coordinated, TypeOK
<1>4. \A p \in held \cup Members(line) : p[1] # t
  <2> SUFFICES ASSUME NEW p \in held \cup Members(line) PROVE p[1] # t
    OBVIOUS
  <2>1. p \in Page
    BY DEF Coordinated, TypeOK
  <2>2. p[1] = t => p \in PagesOf(t)
    BY <2>1 DEF Page, PagesOf
  <2> QED
    BY <1>1, <2>2
<1> QED
  BY <1>1, <1>2, <1>3, <1>4 DEF Coordinated, SlotsAreConserved

LEMMA EndsKeeps ==
  ASSUME Coordinated, NEW t \in Tenant, NEW outcome \in {"progress", "idle"}, Ends(t, outcome)
  PROVE  Coordinated'
<1>1. /\ t \in Running /\ task' = [task EXCEPT ![t] = outcome]
      /\ batches' = [batches EXCEPT ![t] = 0]
      /\ StopPages({t})
      /\ UNCHANGED <<catalog, cached, queue, resting, phase>>
  BY DEF Ends, coordinator
<1>2. {t} \in SUBSET Tenant
  OBVIOUS
<1>3. /\ IsLine(line') /\ Members(line)' \subseteq Page
      /\ held' \subseteq Page /\ hung' \subseteq held'
      /\ free' \in 0..PageSlots /\ free' + Cardinality(held') = PageSlots
      /\ held' \cap Members(line)' = {}
      /\ \A p \in held' \cup Members(line)' : p \in held \cup Members(line) /\ p[1] # t
  BY <1>1, <1>2, StopKeepsSlots, FreeIsBounded
<1>4. TypeOK'
  <2>1. task' \in [Tenant -> {"none", "running", "progress", "idle"}]
    BY <1>1 DEF Coordinated, TypeOK
  <2>2. batches' \in [Tenant -> 0..Quantum]
    BY <1>1, BoundsArePositive DEF Coordinated, TypeOK
  <2> QED
    BY <1>1, <1>3, <2>1, <2>2 DEF Coordinated, TypeOK
<1>5. Running' = Running \ {t} /\ Active' = Active
  BY <1>1 DEF Running, Active, Coordinated, TypeOK
<1> QED
  BY <1>3, <1>4, <1>5 DEF Coordinated, SlotsAreConserved

\* Steps that touch neither the slots nor the runs.
LEMMA SmallStepsKeep ==
  ASSUME Coordinated,
         \/ UNCHANGED vars
         \/ ChangeCatalog
         \/ \E t \in Tenant : RestEnds(t)
         \/ \E p \in Page : PageHangs(p)
  PROVE  Coordinated'
<1>1. /\ UNCHANGED <<cached, queue, phase, task, batches, line, held, free>>
      /\ catalog' \subseteq Tenant /\ resting' \subseteq resting /\ hung' \subseteq held
  BY DEF vars, ChangeCatalog, RestEnds, PageHangs, coordinator, pages, Coordinated, TypeOK
<1>2. Running' = Running /\ Active' = Active
  BY <1>1 DEF Running, Active
<1> QED
  BY <1>1, <1>2 DEF Coordinated, TypeOK, SlotsAreConserved

LEMMA CoordinatedHolds == Spec => []Coordinated
<1>1. Init => Coordinated
  <2> SUFFICES ASSUME Init PROVE Coordinated
    OBVIOUS
  <2>1. Members({}) = {} /\ IsLine({})
    BY DEF Members, IsLine
  <2>2. Active = {} /\ Cardinality({}) = 0
    BY FS_EmptySet DEF Init, Active
  <2>3. TypeOK
    BY <2>1, BoundsArePositive DEF Init, TypeOK
  <2> QED
    BY <2>1, <2>2, <2>3, BoundsArePositive DEF Init, Coordinated, SlotsAreConserved
<1>2. Coordinated /\ [Next]_vars => Coordinated'
  <2> SUFFICES ASSUME Coordinated, [Next]_vars PROVE Coordinated'
    OBVIOUS
  <2>1. CASE Discover \/ ReuseDiscovery
    <3>1. catalog \in SUBSET Tenant /\ cached \in SUBSET Tenant
      BY DEF Coordinated, TypeOK
    <3> QED
      BY <2>1, <3>1, TickKeeps DEF Discover, ReuseDiscovery
  <2>2. CASE Reap
    BY <2>2, ReapKeeps
  <2>3. CASE AcquirePage
    BY <2>3, AcquirePageKeeps
  <2>4. ASSUME NEW t \in Tenant, StartBatch(t) \/ RunEnds(t) \/ BatchFails(t) \/ CutOff(t)
        PROVE  Coordinated'
    BY <2>4, StartBatchKeeps, RunEndsKeeps, EndsKeeps DEF BatchFails, CutOff
  <2>5. ASSUME NEW p \in Page, ReleasePage(p)
        PROVE  Coordinated'
    BY <2>5, ReleasePageKeeps
  <2>6. CASE \/ UNCHANGED vars \/ ChangeCatalog
             \/ (\E t \in Tenant : RestEnds(t)) \/ (\E p \in Page : PageHangs(p))
    BY <2>6, SmallStepsKeep
  <2> QED
    BY <2>1, <2>2, <2>3, <2>4, <2>5, <2>6 DEF Next
<1> QED
  BY <1>1, <1>2, PTL DEF Spec

\* The coordinator's own book-keeping: its queue is one line of exactly the
\* tenants it discovered, each of them once, and the semaphore never counts
\* below zero or above its limit.
THEOREM CoordinationTypeCorrect == Spec => []TypeOK
BY CoordinatedHolds, PTL DEF Coordinated

\* No page slot is lost or given back twice, no page waits for a slot it holds,
\* pages are worked on for running tenants only, and no more tenants are at
\* work than may be - for every number of tenants, slots and pages of a batch.
THEOREM SlotsStayConserved == Spec => []SlotsAreConserved
BY CoordinatedHolds, PTL DEF Coordinated

-----------------------------------------------------------------------------
(* The order of the queue                                                   *)

\* Who stays in a queue sees only those in front of him leave; newcomers are
\* behind him.
LEMMA ReconciledKeepsOrder ==
  ASSUME Coordinated, NEW tenants \in SUBSET Tenant, NEW t \in cached \cap tenants
  PROVE  InFront(Reconciled(tenants), t) = InFront(queue, t) \cap tenants
<1> DEFINE new == tenants \ Members(queue)
           old == Part(queue, tenants)
           last == {e \in new \X new : e[1] <= e[2]}
           q == Reconciled(tenants)
<1>1. q = old \cup last \cup (Members(old) \X Members(last))
  BY DEF Reconciled, Followed
<1>2. t \in Members(queue) /\ t \notin new
  BY DEF Coordinated, TypeOK
<1>3. IsLine(last) /\ Members(last) = new
  <2>1. new \subseteq Nat
    BY TenantsAreFinite
  <2> HIDE DEF new
  <2> QED
    BY <2>1, TenantsLineUp
<1>4. \A y : <<y, t>> \in last => t \in new
  BY <1>3 DEF IsLine
<1>5. \A y : <<y, t>> \in q <=> <<y, t>> \in queue /\ y \in tenants
  BY <1>1, <1>2, <1>3, <1>4 DEF Part
<1>6. \A y : <<y, t>> \in queue => y \in Members(queue)
  BY DEF Coordinated, TypeOK, IsLine
<1>7. Members(q) = tenants
  BY ReconciledIsLine
<1> HIDE DEF q
<1> QED
  BY <1>5, <1>6, <1>7 DEF InFront, q

\* Who is not passed when a queue is turned comes closer by those who are.
LEMMA RotatedKeepsOrder ==
  ASSUME NEW q, IsLine(q), NEW passed, NEW t \in Members(q) \ passed
  PROVE  InFront(Rotated(q, passed), t) = InFront(q, t) \ passed
<1> DEFINE rest == Part(q, Members(q) \ passed)
           turned == Part(q, passed)
           r == Rotated(q, passed)
<1>1. r = rest \cup turned \cup (Members(rest) \X Members(turned))
  BY DEF Rotated, Followed
<1>2. Members(turned) = Members(q) \cap passed /\ Members(r) = Members(q)
  BY PartIsLine, RotatedIsLine
<1>3. \A y : <<y, t>> \in q => y \in Members(q)
  BY DEF IsLine
<1>4. \A y : <<y, t>> \in r <=> <<y, t>> \in q /\ y \notin passed
  BY <1>1, <1>2, <1>3 DEF Part
<1> HIDE DEF r
<1> QED
  BY <1>2, <1>4 DEF InFront, r

\* What a step may do to the order.
OrderKept ==
  \A t \in Tenant : Due(t) /\ t \in cached' /\ ~Starts(t) =>
     /\ InFront(queue', t) \subseteq InFront(queue, t)
     /\ (\E u \in Tenant : Starts(u)) => InFront(queue', t) # InFront(queue, t)

LEMMA TickKeepsOrder ==
  ASSUME Coordinated, NEW tenants \in SUBSET Tenant, Tick(tenants)
  PROVE  OrderKept
<1> DEFINE gone == Active \ tenants
           running == Active \ gone
           room == MaxActiveTenants - Cardinality(running)
<1>1. PICK q \in {Reconciled(tenants)} : \E passed \in {Passed(q, room, running)} :
        LET selected == passed \cap Ready(q, running)
        IN /\ queue' = Rotated(q, passed)
           /\ task' = [t \in Tenant |-> IF t \in selected THEN "running"
                                        ELSE IF t \in gone THEN "none" ELSE task[t]]
  BY DEF Tick
<1> DEFINE passed == Passed(q, room, running)
           selected == passed \cap Ready(q, running)
           Rank(t) == Cardinality({u \in Ready(q, running) \ {t} : <<u, t>> \in q})
<1>2. /\ queue' = Rotated(q, passed)
      /\ task' = [t \in Tenant |-> IF t \in selected THEN "running"
                                   ELSE IF t \in gone THEN "none" ELSE task[t]]
  BY <1>1
<1>3. cached' = tenants
  BY DEF Tick
<1>4. IsLine(q) /\ Members(q) = tenants
  BY <1>1, ReconciledIsLine
<1>5. passed = {t \in tenants : Rank(t) < room}
  BY <1>4 DEF Passed
<1>6. Ready(q, running) = (tenants \ running) \ resting
  BY <1>4 DEF Ready
<1>7. SUFFICES ASSUME NEW t \in Tenant, Due(t), t \in tenants, ~Starts(t)
               PROVE  /\ InFront(queue', t) \subseteq InFront(queue, t)
                      /\ (\E u \in Tenant : Starts(u)) => InFront(queue', t) # InFront(queue, t)
  BY <1>3 DEF OrderKept
<1>8. t \in Ready(q, running) /\ t \in cached
  BY <1>6, <1>7 DEF Due, Active
<1>9. t \notin passed
  BY <1>2, <1>7, <1>8 DEF Starts, Due
<1>10. InFront(q, t) = InFront(queue, t) \cap tenants
  BY <1>1, <1>7, <1>8, ReconciledKeepsOrder
<1> HIDE DEF passed, Rank
<1>11. InFront(queue', t) = (InFront(queue, t) \cap tenants) \ passed
  BY <1>2, <1>4, <1>7, <1>9, <1>10, RotatedKeepsOrder
<1>12. ASSUME NEW u \in Tenant, Starts(u)
       PROVE  InFront(queue', t) # InFront(queue, t)
  <2>1. u \in selected
    BY <1>2, <1>12 DEF Starts
  <2>2. u \in passed /\ u \in tenants /\ u # t /\ u \in Ready(q, running)
    BY <1>5, <1>9, <2>1
  <2>3. Rank(u) < room /\ ~(Rank(t) < room)
    BY <1>5, <1>7, <1>9, <2>2
  <2>4. <<t, u>> \notin q
    <3> SUFFICES ASSUME <<t, u>> \in q PROVE FALSE
      OBVIOUS
    <3> DEFINE front(x) == {y \in Ready(q, running) \ {x} : <<y, x>> \in q}
    <3>1. front(t) \subseteq front(u)
      <4> SUFFICES ASSUME NEW y \in front(t) PROVE y \in front(u)
        OBVIOUS
      <4>1. y \in tenants /\ <<y, t>> \in q /\ y # t /\ y \in Ready(q, running)
        BY <1>6
      <4>2. <<y, u>> \in q
        BY <1>4, <1>7, <2>2, <4>1 DEF IsLine
      <4>3. y # u
        BY <1>4, <1>7, <2>2, <4>1 DEF IsLine
      <4> QED
        BY <4>1, <4>2, <4>3
    <3>2. front(u) \in SUBSET Tenant /\ front(t) \in SUBSET Tenant
      BY <1>6
    <3> HIDE DEF front
    <3>3. Cardinality(front(t)) <= Cardinality(front(u))
      BY <3>1, <3>2, TenantsAreFinite, FS_Subset
    <3>4. Cardinality(front(t)) \in Nat /\ Cardinality(front(u)) \in Nat
      BY <3>2, TenantsAreFinite
    <3>5. room \in Int
      <4>1. running \in SUBSET Tenant
        BY DEF Active
      <4> HIDE DEF running
      <4> QED
        BY <4>1, TenantsAreFinite, BoundsArePositive
    <3>6. Rank(t) = Cardinality(front(t)) /\ Rank(u) = Cardinality(front(u))
      BY DEF Rank, front
    <3> HIDE DEF room
    <3> QED
      BY <2>3, <3>3, <3>4, <3>5, <3>6
  <2>5. <<u, t>> \in q
    BY <1>4, <1>7, <2>2, <2>4 DEF IsLine
  <2>6. u \in InFront(q, t)
    BY <1>4, <2>2, <2>5 DEF InFront
  <2> QED
    BY <1>10, <1>11, <2>2, <2>6
<1> QED
  BY <1>11, <1>12

\* Nobody who is due is overtaken: a tick starts him, or leaves before him none
\* but those who were, and fewer of them whenever it starts anybody.
THEOREM NobodyOvertakes == Spec => NobodyIsOvertaken
<1>1. Coordinated /\ [Next]_vars => [OrderKept]_vars
  <2> SUFFICES ASSUME Coordinated, Next PROVE OrderKept \/ UNCHANGED vars
    OBVIOUS
  <2>1. CASE Discover \/ ReuseDiscovery
    <3>1. catalog \in SUBSET Tenant /\ cached \in SUBSET Tenant
      BY DEF Coordinated, TypeOK
    <3> QED
      BY <2>1, <3>1, TickKeepsOrder DEF Discover, ReuseDiscovery
  <2>2. ASSUME queue' = queue, \A u \in Tenant : ~Starts(u)
        PROVE  OrderKept
    BY <2>2 DEF OrderKept
  <2>3. CASE Reap
    <3>1. queue' = queue /\ \A u \in Tenant : ~Starts(u)
      BY <2>3 DEF Reap, Starts, Running
    <3> QED
      BY <2>2, <3>1
  <2>4. ASSUME UNCHANGED <<queue, task>>
        PROVE  OrderKept
    BY <2>2, <2>4 DEF Starts
  <2>5. CASE \/ AcquirePage \/ ChangeCatalog
             \/ \E t \in Tenant : RestEnds(t) \/ StartBatch(t)
             \/ \E p \in Page : ReleasePage(p) \/ PageHangs(p)
    BY <2>4, <2>5 DEF AcquirePage, ChangeCatalog, RestEnds, StartBatch, ReleasePage,
                      PageHangs, coordinator
  <2>6. ASSUME NEW t \in Tenant, RunEnds(t) \/ BatchFails(t) \/ CutOff(t)
        PROVE  OrderKept
    <3>1. queue' = queue /\ \E end \in {"progress", "idle"} : task' = [task EXCEPT ![t] = end]
      BY <2>6 DEF RunEnds, BatchFails, CutOff, Ends, coordinator
    <3>2. \A u \in Tenant : ~Starts(u)
      BY <3>1 DEF Starts, Coordinated, TypeOK
    <3> QED
      BY <2>2, <3>1, <3>2
  <2> QED
    BY <2>1, <2>3, <2>5, <2>6 DEF Next
<1>2. [][OrderKept]_vars <=> NobodyIsOvertaken
  BY PTL DEF NobodyIsOvertaken, OrderKept
<1> QED
  BY <1>1, <1>2, CoordinatedHolds, PTL DEF Spec
=============================================================================
