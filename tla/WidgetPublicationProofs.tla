----------------------- MODULE WidgetPublicationProofs -----------------------
(***************************************************************************)
(* For any number of outbox workers, replicas, publications, failing Redis *)
(* calls and crashes: one version is served, and what was announced had    *)
(* its cached site deleted before.                                         *)
(***************************************************************************)
EXTENDS WidgetPublication, TLAPS

\* No entry is fresh, in the cache or on its way there, that is older than
\* publication p.
Fresh(entry, p) == entry = NoEntry \/ entry.overtaken \/ entry.publication >= p
NothingOlder(p) == Fresh(cache, p) /\ \A r \in Replica : Fresh(reader[r], p)

\* Events are of publications that happened. An event that was announced, or is
\* about to be, had the site deleted; one about to be marked was announced.
OutboxInv ==
  /\ \A i \in DOMAIN events : events[i].publication <= published
  /\ \A i \in DOMAIN events : i \in stream => NothingOlder(events[i].publication)
  /\ \A i \in DOMAIN events : events[i].status = "published" => i \in stream
  /\ \A d \in Dispatcher : worker[d].batch = {} => worker[d].step = "invalidate"
  /\ \A d \in Dispatcher, i \in DOMAIN events :
       /\ At(d, i, "announce") => NothingOlder(events[i].publication)
       /\ At(d, i, "done") => i \in stream

WidgetInv == TypeOK /\ OutboxInv

-----------------------------------------------------------------------------
(* Types *)

EventRow == [publication : Nat,
             status : {"pending", "processing", "failed", "published", "dead_letter"},
             attempts : Nat, leased : BOOLEAN]
WorkerRow == [batch : SUBSET (1..Len(events)),
              step : {"invalidate", "announce", "done", "failed"}]

\* What an event is of never changes; it changes its status.
SameEvents ==
  /\ DOMAIN events' = DOMAIN events
  /\ \A i \in DOMAIN events : events'[i].publication = events[i].publication

LEMMA InitType == Init => TypeOK
<1> SUFFICES ASSUME Init PROVE TypeOK
  OBVIOUS
<1>1. versions \in Seq({"draft", "published", "archived"})
  BY DEF Init
<1>2. events \in Seq(EventRow) /\ Len(events) = 0
  BY DEF Init
<1>3. worker \in [Dispatcher -> WorkerRow]
  BY <1>2 DEF Init, IdleWorker, WorkerRow
<1>4. cache \in Entry /\ reader \in [Replica -> Entry]
  BY DEF Init, NoEntry, Entry
<1>5. faults \in 0..MaxFaults /\ crashes \in 0..MaxCrashes
  BY BoundsAreNatural DEF Init
<1> QED  BY <1>1, <1>2, <1>3, <1>4, <1>5 DEF Init, TypeOK, EventRow, WorkerRow

LEMMA EventType ==
  ASSUME TypeOK, NEW i \in DOMAIN events
  PROVE  /\ events \in Seq(EventRow) /\ DOMAIN events = 1..Len(events)
         /\ events[i] \in EventRow
<1>1. events \in Seq(EventRow)
  BY DEF TypeOK, EventRow
<1> QED  BY <1>1

LEMMA EnqueueType ==
  ASSUME TypeOK, NEW p \in Nat, Enqueue(p), UNCHANGED <<stream, worker>>
  PROVE  /\ events' \in Seq(EventRow)
         /\ stream' \subseteq 1..Len(events')
         /\ worker' \in [Dispatcher -> [batch : SUBSET (1..Len(events')),
                                        step : {"invalidate", "announce", "done", "failed"}]]
<1>1. [publication |-> p, status |-> "pending", attempts |-> 0, leased |-> FALSE] \in EventRow
  BY DEF EventRow
<1>2. events \in Seq(EventRow)
  BY DEF TypeOK, EventRow
<1>3. events' \in Seq(EventRow) /\ Len(events') = Len(events) + 1
  BY <1>1, <1>2 DEF Enqueue
<1>4. 1..Len(events) \subseteq 1..Len(events')
  BY <1>2, <1>3
<1> QED  BY <1>3, <1>4 DEF TypeOK

LEMMA ArchiveType ==
  ASSUME TypeOK
  PROVE  ArchivePublished(versions) \in Seq({"draft", "published", "archived"})
<1>1. /\ ArchivePublished(versions)
           = [v \in 1..Len(versions) |-> ArchivePublished(versions)[v]]
      /\ Len(versions) \in Nat
      /\ \A v \in 1..Len(versions) :
           ArchivePublished(versions)[v] \in {"draft", "published", "archived"}
  BY DEF ArchivePublished, TypeOK
<1> QED  BY <1>1

LEMMA ConfigType ==
  ASSUME TypeOK,
         SaveDraft \/ \E v \in DOMAIN versions : PublishVersion(v) \/ RollBack(v)
  PROVE  TypeOK'
<1>1. published \in Nat
  BY DEF TypeOK
<1>2. CASE SaveDraft
  BY <1>1, <1>2, EnqueueType DEF SaveDraft, TypeOK, EventRow, bounds
<1>3. ASSUME NEW v \in DOMAIN versions, PublishVersion(v)
      PROVE  TypeOK'
  <2>1. versions' \in Seq({"draft", "published", "archived"})
    <3> DEFINE archived == ArchivePublished(versions)
    <3>1. archived \in Seq({"draft", "published", "archived"}) /\ v \in 1..Len(archived)
      BY ArchiveType, <1>3 DEF ArchivePublished, TypeOK
    <3> HIDE DEF archived
    <3>2. [archived EXCEPT ![v] = "published"] \in Seq({"draft", "published", "archived"})
      BY <3>1
    <3> QED  BY <1>3, <3>2 DEF PublishVersion, archived
  <2>2. published + 1 \in Nat /\ Enqueue(published + 1) /\ UNCHANGED <<stream, worker>>
    BY <1>1, <1>3 DEF PublishVersion
  <2> QED  BY <1>3, <2>1, <2>2, EnqueueType DEF PublishVersion, TypeOK, EventRow, bounds
<1>4. ASSUME NEW v \in DOMAIN versions, RollBack(v)
      PROVE  TypeOK'
  <2>1. versions' \in Seq({"draft", "published", "archived"})
    BY ArchiveType, <1>4 DEF RollBack
  <2>2. published + 1 \in Nat /\ Enqueue(published + 1) /\ UNCHANGED <<stream, worker>>
    BY <1>1, <1>4 DEF RollBack
  <2> QED  BY <1>4, <2>1, <2>2, EnqueueType DEF RollBack, TypeOK, EventRow, bounds
<1> QED  BY <1>2, <1>3, <1>4

LEMMA ClaimType ==
  ASSUME TypeOK, NEW d \in Dispatcher, Claim(d)
  PROVE  TypeOK' /\ SameEvents
<1>1. events \in Seq(EventRow)
  BY DEF TypeOK, EventRow
<1>2. PICK batch \in SUBSET DOMAIN events :
        /\ worker' = [worker EXCEPT ![d].batch = batch]
        /\ events' = [i \in DOMAIN events |->
                       IF i \in batch
                         THEN [events[i] EXCEPT !.status = "processing", !.leased = TRUE,
                                                !.attempts = @ + 1]
                         ELSE events[i]]
  BY DEF Claim
<1>3. ASSUME NEW i \in DOMAIN events
      PROVE  events'[i] \in EventRow /\ events'[i].publication = events[i].publication
  <2> DEFINE claimed == [events[i] EXCEPT !.status = "processing", !.leased = TRUE,
                                          !.attempts = events[i].attempts + 1]
  <2>1. events[i] \in EventRow
    BY EventType
  <2>2. claimed \in EventRow /\ claimed.publication = events[i].publication
    <3>1. events[i].attempts + 1 \in Nat
      BY <2>1 DEF EventRow
    <3> QED  BY <2>1, <3>1 DEF EventRow
  <2>3. events'[i] \in {claimed, events[i]}
    BY <1>2
  <2> HIDE DEF claimed
  <2> QED  BY <2>1, <2>2, <2>3
<1>4. /\ DOMAIN events' = 1..Len(events)
      /\ Len(events) \in Nat /\ DOMAIN events = 1..Len(events)
      /\ events' = [i \in 1..Len(events) |-> events'[i]]
  <2>1. DOMAIN events = 1..Len(events) /\ Len(events) \in Nat
    BY <1>1
  <2> QED  BY <1>2, <2>1
<1>5. events' \in Seq(EventRow) /\ Len(events') = Len(events)
  BY <1>3, <1>4
<1>6. worker' \in [Dispatcher -> WorkerRow]
  BY <1>2, <1>4 DEF TypeOK, WorkerRow
<1>7. SameEvents
  BY <1>3, <1>4 DEF SameEvents
<1> QED  BY <1>5, <1>6, <1>7 DEF Claim, TypeOK, EventRow, WorkerRow, config, bounds

\* A change of one event's status, lease or attempts.
LEMMA MarkType ==
  ASSUME TypeOK, NEW i \in DOMAIN events, NEW e \in EventRow,
         e.publication = events[i].publication, events' = [events EXCEPT ![i] = e]
  PROVE  events' \in Seq(EventRow) /\ Len(events') = Len(events) /\ SameEvents
<1>1. events \in Seq(EventRow)
  BY DEF TypeOK, EventRow
<1>2. events' \in Seq(EventRow) /\ Len(events') = Len(events)
  BY <1>1
<1> QED  BY <1>1, <1>2 DEF SameEvents

LEMMA LeaseExpiresType ==
  ASSUME TypeOK, NEW i \in DOMAIN events, LeaseExpires(i)
  PROVE  TypeOK' /\ SameEvents
<1>1. events[i] \in EventRow
  BY EventType
<1> DEFINE e == [events[i] EXCEPT !.leased = FALSE]
<1>2. e \in EventRow /\ e.publication = events[i].publication
  BY <1>1 DEF EventRow
<1>3. events' = [events EXCEPT ![i] = e]
  BY DEF LeaseExpires
<1> HIDE DEF e
<1>4. events' \in Seq(EventRow) /\ Len(events') = Len(events) /\ SameEvents
  BY <1>2, <1>3, MarkType
<1> QED  BY <1>4 DEF LeaseExpires, TypeOK, EventRow, config, bounds

LEMMA WorkType ==
  ASSUME TypeOK, NEW d \in Dispatcher, Work(d)
  PROVE  TypeOK' /\ SameEvents
<1> PICK i \in worker[d].batch :
       \/ InvalidatePublishedWidget(d, i) \/ Announce(d, i)
       \/ MarkPublished(d, i) \/ MarkFailed(d, i) \/ RedisFails(d, i)
  BY DEF Work
<1>0. /\ i \in DOMAIN events /\ events[i] \in EventRow
      /\ worker \in [Dispatcher -> WorkerRow]
  <2>1. worker \in [Dispatcher -> WorkerRow]
    BY DEF TypeOK, WorkerRow
  <2>2. i \in DOMAIN events
    BY <2>1 DEF TypeOK, WorkerRow
  <2> QED  BY <2>1, <2>2, EventType
<1>1. CASE InvalidatePublishedWidget(d, i)
  <2>1. worker' \in [Dispatcher -> WorkerRow]
    BY <1>0, <1>1 DEF InvalidatePublishedWidget, WorkerRow
  <2>2. cache' \in Entry /\ reader' \in [Replica -> Entry]
    <3>1. ASSUME NEW r \in Replica
          PROVE  [reader[r] EXCEPT !.overtaken = TRUE] \in Entry /\ NoEntry \in Entry
      BY DEF TypeOK, Entry, NoEntry
    <3>2. CASE Publishes(i)
      <4>1. NoEntry \in Entry
        BY DEF Entry, NoEntry
      <4>2. /\ cache' = NoEntry
            /\ reader' = [r \in Replica |-> IF reader[r] = NoEntry THEN NoEntry
                                            ELSE [reader[r] EXCEPT !.overtaken = TRUE]]
        BY <1>1, <3>2 DEF InvalidatePublishedWidget
      <4> QED  BY <3>1, <4>1, <4>2
    <3>3. CASE ~Publishes(i)
      BY <1>1, <3>3 DEF InvalidatePublishedWidget, TypeOK
    <3> QED  BY <3>2, <3>3
  <2> QED  BY <1>1, <2>1, <2>2 DEF InvalidatePublishedWidget, TypeOK, WorkerRow, SameEvents,
                                   config, bounds
<1>2. CASE Announce(d, i)
  <2>1. worker' \in [Dispatcher -> WorkerRow]
    BY <1>0, <1>2 DEF Announce, WorkerRow
  <2> QED  BY <1>0, <1>2, <2>1 DEF Announce, TypeOK, WorkerRow, SameEvents, config, bounds
<1>3. CASE MarkPublished(d, i)
  <2> DEFINE e == [events[i] EXCEPT !.status = "published", !.leased = FALSE]
  <2>1. e \in EventRow /\ e.publication = events[i].publication
    BY <1>0 DEF EventRow
  <2>2. events' = [events EXCEPT ![i] = e]
    BY <1>3 DEF MarkPublished
  <2> HIDE DEF e
  <2>3. events' \in Seq(EventRow) /\ Len(events') = Len(events) /\ SameEvents
    BY <1>0, <2>1, <2>2, MarkType
  <2>4. worker' \in [Dispatcher -> WorkerRow]
    BY <1>0, <1>3 DEF MarkPublished, NextEvent, WorkerRow
  <2> QED  BY <1>3, <2>3, <2>4 DEF MarkPublished, TypeOK, EventRow, WorkerRow, config, bounds
<1>4. CASE MarkFailed(d, i)
  <2> DEFINE e == [events[i] EXCEPT !.status = IF events[i].attempts >= MaxAttempts
                                                 THEN "dead_letter" ELSE "failed",
                                    !.leased = FALSE]
  <2>1. e \in EventRow /\ e.publication = events[i].publication
    BY <1>0 DEF EventRow
  <2>2. events' = [events EXCEPT ![i] = e]
    BY <1>4 DEF MarkFailed
  <2> HIDE DEF e
  <2>3. events' \in Seq(EventRow) /\ Len(events') = Len(events) /\ SameEvents
    BY <1>0, <2>1, <2>2, MarkType
  <2>4. worker' \in [Dispatcher -> WorkerRow]
    BY <1>0, <1>4 DEF MarkFailed, NextEvent, WorkerRow
  <2> QED  BY <1>4, <2>3, <2>4 DEF MarkFailed, TypeOK, EventRow, WorkerRow, config, bounds
<1>5. CASE RedisFails(d, i)
  <2>1. worker' \in [Dispatcher -> WorkerRow]
    BY <1>0, <1>5 DEF RedisFails, WorkerRow
  <2>2. faults' \in 0..MaxFaults
    <3>1. MaxFaults \in Nat /\ faults \in 0..MaxFaults /\ faults < MaxFaults
            /\ faults' = faults + 1
      BY <1>5, BoundsAreNatural DEF RedisFails, TypeOK
    <3> QED  BY <3>1
  <2> QED  BY <1>5, <2>1, <2>2 DEF RedisFails, TypeOK, WorkerRow, SameEvents, config
<1> QED  BY <1>1, <1>2, <1>3, <1>4, <1>5

LEMMA CrashType ==
  ASSUME TypeOK, NEW d \in Dispatcher, Crash(d)
  PROVE  TypeOK'
<1>1. worker' \in [Dispatcher -> WorkerRow]
  BY DEF Crash, TypeOK, WorkerRow, IdleWorker
<1>2. crashes' \in 0..MaxCrashes
  BY BoundsAreNatural DEF Crash, TypeOK
<1> QED  BY <1>1, <1>2 DEF Crash, TypeOK, WorkerRow, config

LEMMA CacheType ==
  ASSUME TypeOK,
         \/ \E r \in Replica : ReadSite(r) \/ StoreSite(r) \/ StoreFails(r)
         \/ EntryExpires
  PROVE  TypeOK'
<1>1. ASSUME NEW r \in Replica, ReadSite(r)
      PROVE  TypeOK'
  BY <1>1 DEF ReadSite, TypeOK, Entry, config, bounds
<1>2. ASSUME NEW r \in Replica, StoreSite(r)
      PROVE  TypeOK'
  BY <1>2 DEF StoreSite, TypeOK, Entry, NoEntry, config, bounds
<1>3. ASSUME NEW r \in Replica, StoreFails(r)
      PROVE  TypeOK'
  BY <1>3, BoundsAreNatural DEF StoreFails, TypeOK, Entry, NoEntry, config
<1>4. CASE EntryExpires
  BY <1>4 DEF EntryExpires, TypeOK, Entry, NoEntry, config, bounds
<1> QED  BY <1>1, <1>2, <1>3, <1>4

LEMMA NextType ==
  ASSUME TypeOK, [Next]_vars
  PROVE  TypeOK'
<1>1. CASE UNCHANGED vars
  BY <1>1 DEF vars, TypeOK
<1> QED
  BY <1>1, ConfigType, ClaimType, LeaseExpiresType, WorkType, CrashType, CacheType DEF Next

\* Versions, events, claims and cache entries stay in their declared domains:
\* what a worker claims and a reader is announced exists.
THEOREM WidgetTypeCorrect == Spec => []TypeOK
<1>1. Init => TypeOK
  BY InitType
<1>2. TypeOK /\ [Next]_vars => TypeOK'
  BY NextType
<1> QED  BY <1>1, <1>2, PTL DEF Spec

-----------------------------------------------------------------------------
(* One version is served *)

LEMMA NextServesOne ==
  ASSUME TypeOK, OneVersionIsServed, [Next]_vars
  PROVE  OneVersionIsServed'
<1>0. /\ versions \in Seq({"draft", "published", "archived"})
      /\ ArchivePublished(versions) \in Seq({"draft", "published", "archived"})
      /\ Len(ArchivePublished(versions)) = Len(versions)
      /\ \A w \in DOMAIN versions : ArchivePublished(versions)[w] # "published"
  BY ArchiveType DEF TypeOK, ArchivePublished
<1>1. CASE SaveDraft
  BY <1>0, <1>1 DEF SaveDraft, OneVersionIsServed
<1>2. ASSUME NEW v \in DOMAIN versions, PublishVersion(v)
      PROVE  OneVersionIsServed'
  <2> DEFINE archived == ArchivePublished(versions)
  <2>1. /\ DOMAIN versions' = DOMAIN archived /\ DOMAIN archived = DOMAIN versions
        /\ versions'[v] = "published"
        /\ \A w \in DOMAIN archived \ {v} : versions'[w] # "published"
    BY <1>0, <1>2 DEF PublishVersion, ArchivePublished
  <2> HIDE DEF archived
  <2> QED  BY <2>1 DEF OneVersionIsServed
<1>3. ASSUME NEW v \in DOMAIN versions, RollBack(v)
      PROVE  OneVersionIsServed'
  <2> DEFINE archived == ArchivePublished(versions)
  <2>1. /\ DOMAIN versions' = 1..(Len(archived) + 1)
        /\ versions'[Len(archived) + 1] = "published"
        /\ \A w \in 1..Len(archived) : versions'[w] # "published"
        /\ Len(archived) \in Nat
    BY <1>0, <1>3 DEF RollBack
  <2> HIDE DEF archived
  <2> QED  BY <2>1, SMTT(30) DEF OneVersionIsServed
<1>4. CASE UNCHANGED versions
  BY <1>4 DEF OneVersionIsServed
<1>5. ASSUME NEW d \in Dispatcher, Claim(d) \/ Work(d) \/ Crash(d)
      PROVE  UNCHANGED versions
  BY <1>5 DEF Claim, Work, Crash, InvalidatePublishedWidget, Announce, MarkPublished,
              MarkFailed, RedisFails, config
<1>6. ASSUME \/ \E i \in DOMAIN events : LeaseExpires(i)
             \/ \E r \in Replica : ReadSite(r) \/ StoreSite(r) \/ StoreFails(r)
             \/ EntryExpires
             \/ UNCHANGED vars
      PROVE  UNCHANGED versions
  BY <1>6 DEF LeaseExpires, ReadSite, StoreSite, StoreFails, EntryExpires, config, vars
<1> QED  BY <1>1, <1>2, <1>3, <1>4, <1>5, <1>6 DEF Next

\* However drafts, publications and rollbacks follow each other, exactly one
\* version is published.
THEOREM OneVersionServed == Spec => []OneVersionIsServed
<1>1. Init => OneVersionIsServed
  BY DEF Init, OneVersionIsServed
<1>2. TypeOK /\ OneVersionIsServed /\ [Next]_vars => OneVersionIsServed'
  BY NextServesOne
<1> QED  BY <1>1, <1>2, WidgetTypeCorrect, PTL DEF Spec

-----------------------------------------------------------------------------
(* What is announced was invalidated *)
LEMMA ConfigKeepsOutbox ==
  ASSUME TypeOK, OutboxInv,
         SaveDraft \/ \E v \in DOMAIN versions : PublishVersion(v) \/ RollBack(v)
  PROVE  OutboxInv'
<1>1. PICK p \in Nat : /\ Enqueue(p) /\ p <= published' /\ published <= published'
                       /\ UNCHANGED <<stream, worker, cache, reader>>
  <2>1. published \in Nat
    BY DEF TypeOK
  <2>2. CASE SaveDraft
    BY <2>1, <2>2 DEF SaveDraft
  <2>3. ASSUME NEW v \in DOMAIN versions, PublishVersion(v) \/ RollBack(v)
        PROVE  Enqueue(published + 1) /\ published' = published + 1
                 /\ UNCHANGED <<stream, worker, cache, reader>>
    BY <2>3 DEF PublishVersion, RollBack
  <2> QED  BY <2>1, <2>2, <2>3
<1>2. /\ events \in Seq(EventRow) /\ Len(events) \in Nat
      /\ DOMAIN events = 1..Len(events)
      /\ published \in Nat /\ published' \in Nat
      /\ stream \subseteq 1..Len(events)
      /\ \A d \in Dispatcher : worker[d].batch \subseteq 1..Len(events)
  BY ConfigType, SMTT(30) DEF TypeOK, EventRow
<1>3. /\ DOMAIN events' = 1..(Len(events) + 1)
      /\ \A i \in DOMAIN events : events'[i] = events[i]
      /\ events'[Len(events) + 1].publication = p
      /\ events'[Len(events) + 1].status = "pending"
  BY <1>1, <1>2 DEF Enqueue
<1>4. ASSUME NEW i \in DOMAIN events'
      PROVE  /\ (events[i].publication)' <= published'
             /\ i \in stream => NothingOlder(events[i].publication)'
             /\ (events[i].status)' = "published" => i \in stream
             /\ \A d \in Dispatcher :
                  /\ At(d, i, "announce") => NothingOlder(events[i].publication)'
                  /\ At(d, i, "done") => i \in stream
  <2>1. CASE i \in DOMAIN events
    <3>1. events[i].publication \in Nat
      BY <2>1, EventType DEF EventRow
    <3> QED  BY <1>1, <1>2, <1>3, <2>1, <3>1 DEF OutboxInv, NothingOlder
  <2>2. CASE i = Len(events) + 1
    <3>1. i \notin stream /\ \A d \in Dispatcher : i \notin worker[d].batch
      BY <1>2, <2>2
    <3> QED  BY <1>1, <1>3, <2>2, <3>1 DEF At
  <2> QED  BY <1>2, <1>3, <2>1, <2>2
<1> QED  BY <1>1, <1>4 DEF OutboxInv, At

\* Steps that keep the events' rows keep what was proved about the cache.
LEMMA CacheKeepsOutbox ==
  ASSUME TypeOK, OutboxInv,
         \/ \E r \in Replica : ReadSite(r) \/ StoreSite(r) \/ StoreFails(r)
         \/ EntryExpires
  PROVE  OutboxInv'
<1>1. UNCHANGED <<published, events, stream, worker>>
  BY DEF ReadSite, StoreSite, StoreFails, EntryExpires, config
<1>2. reader \in [Replica -> Entry] /\ published \in Nat
  BY DEF TypeOK, Entry
<1>3. ASSUME NEW p \in Nat, p <= published, NothingOlder(p)
      PROVE  NothingOlder(p)'
  <2>1. ASSUME NEW r \in Replica, ReadSite(r)
        PROVE  NothingOlder(p)'
    BY <1>2, <1>3, <2>1 DEF ReadSite, NothingOlder, Fresh
  <2>2. ASSUME NEW r \in Replica, StoreSite(r)
        PROVE  NothingOlder(p)'
    BY <1>2, <1>3, <2>2 DEF StoreSite, NothingOlder, Fresh
  <2>3. ASSUME NEW r \in Replica, StoreFails(r)
        PROVE  NothingOlder(p)'
    BY <1>2, <1>3, <2>3 DEF StoreFails, NothingOlder, Fresh
  <2>4. CASE EntryExpires
    BY <1>3, <2>4 DEF EntryExpires, NothingOlder, Fresh
  <2> QED  BY <2>1, <2>2, <2>3, <2>4
<1>4. \A i \in DOMAIN events : events[i].publication \in Nat
  BY EventType DEF EventRow
<1> QED  BY <1>1, <1>3, <1>4 DEF OutboxInv, At

LEMMA ClaimKeepsOutbox ==
  ASSUME TypeOK, OutboxInv, NEW d \in Dispatcher, Claim(d)
  PROVE  OutboxInv'
<1>1. PICK batch \in SUBSET DOMAIN events :
        /\ worker' = [worker EXCEPT ![d].batch = batch]
        /\ events' = [i \in DOMAIN events |->
                       IF i \in batch
                         THEN [events[i] EXCEPT !.status = "processing", !.leased = TRUE,
                                                !.attempts = @ + 1]
                         ELSE events[i]]
  BY DEF Claim
<1>2. worker \in [Dispatcher -> WorkerRow]
  BY DEF TypeOK, WorkerRow
<1>3. /\ worker[d].step = "invalidate" /\ (worker[d].step)' = "invalidate"
      /\ \A e \in Dispatcher : e # d => worker'[e] = worker[e]
  BY <1>1, <1>2 DEF Claim, OutboxInv, WorkerRow
<1>4. UNCHANGED <<published, stream, cache, reader>> /\ SameEvents
  BY ClaimType DEF Claim, config
<1>5. \A i \in DOMAIN events : events'[i].status = "published" => events[i].status = "published"
  <2> SUFFICES ASSUME NEW i \in DOMAIN events, events'[i].status = "published"
               PROVE  events[i].status = "published"
    OBVIOUS
  <2>1. events[i] \in EventRow
    BY EventType
  <2>2. i \notin batch
    BY <1>1, <2>1 DEF EventRow
  <2> QED  BY <1>1, <2>2
<1>6. \A p : NothingOlder(p)' <=> NothingOlder(p)
  BY <1>4 DEF NothingOlder
<1>7. ASSUME NEW e \in Dispatcher, NEW i \in DOMAIN events
      PROVE  /\ At(e, i, "announce")' => NothingOlder(events[i].publication)
             /\ At(e, i, "done")' => i \in stream
  <2>1. CASE e = d
    BY <1>3, <2>1 DEF At
  <2>2. CASE e # d
    BY <1>3, <2>2 DEF At, OutboxInv
  <2> QED  BY <2>1, <2>2
<1> QED  BY <1>3, <1>4, <1>5, <1>6, <1>7 DEF OutboxInv, SameEvents

LEMMA LeaseKeepsOutbox ==
  ASSUME TypeOK, OutboxInv, NEW i \in DOMAIN events, LeaseExpires(i)
  PROVE  OutboxInv'
<1>1. UNCHANGED <<published, stream, cache, reader, worker>> /\ SameEvents
  BY LeaseExpiresType DEF LeaseExpires, config
<1>2. ASSUME NEW j \in DOMAIN events
      PROVE  events'[j].status = events[j].status
  <2>1. events[i] \in EventRow /\ events \in Seq(EventRow)
    BY EventType
  <2> QED  BY <2>1 DEF LeaseExpires, EventRow
<1>3. \A p : NothingOlder(p)' <=> NothingOlder(p)
  BY <1>1 DEF NothingOlder
<1> QED  BY <1>1, <1>2, <1>3 DEF OutboxInv, SameEvents, At

LEMMA CrashKeepsOutbox ==
  ASSUME TypeOK, OutboxInv, NEW d \in Dispatcher, Crash(d)
  PROVE  OutboxInv'
<1>1. UNCHANGED <<published, stream, cache, reader, events>>
  BY DEF Crash, config
<1>2. /\ worker'[d] = IdleWorker
      /\ \A e \in Dispatcher : e # d => worker'[e] = worker[e]
  BY DEF Crash, TypeOK
<1>3. \A e \in Dispatcher, i \in DOMAIN events : \A s :
        s # "invalidate" /\ At(e, i, s)' => At(e, i, s)
  BY <1>2 DEF At, IdleWorker
<1>4. \A e \in Dispatcher : worker'[e].batch = {} => worker'[e].step = "invalidate"
  BY <1>2 DEF OutboxInv, IdleWorker
<1>5. \A p : NothingOlder(p)' <=> NothingOlder(p)
  BY <1>1 DEF NothingOlder
<1>6. \A e \in Dispatcher, i \in DOMAIN events :
        /\ At(e, i, "announce")' => NothingOlder(events[i].publication)
        /\ At(e, i, "done")' => i \in stream
  BY <1>3 DEF OutboxInv
<1> QED  BY <1>1, <1>4, <1>5, <1>6 DEF OutboxInv

LEMMA WorkKeepsOutbox ==
  ASSUME TypeOK, OutboxInv, NEW d \in Dispatcher, Work(d)
  PROVE  OutboxInv'
<1> PICK i \in worker[d].batch :
       \/ InvalidatePublishedWidget(d, i) \/ Announce(d, i)
       \/ MarkPublished(d, i) \/ MarkFailed(d, i) \/ RedisFails(d, i)
  BY DEF Work
<1>1. /\ worker \in [Dispatcher -> WorkerRow] /\ worker[d].batch \subseteq DOMAIN events
      /\ i \in DOMAIN events
      /\ events \in Seq(EventRow) /\ events[i] \in EventRow
      /\ SameEvents /\ published' = published
  <2>1. worker \in [Dispatcher -> WorkerRow] /\ worker[d].batch \subseteq DOMAIN events
    BY DEF TypeOK, WorkerRow
  <2> QED  BY <2>1, EventType, WorkType DEF config, InvalidatePublishedWidget, Announce,
                                  MarkPublished, MarkFailed, RedisFails
\* The worker itself: the others keep their places.
<1>2. \A e \in Dispatcher : e # d => worker'[e] = worker[e]
  BY <1>1 DEF InvalidatePublishedWidget, Announce, MarkPublished, MarkFailed, RedisFails,
              NextEvent
<1>3. /\ worker'[d].step = "announce" => InvalidatePublishedWidget(d, i)
      /\ worker'[d].step = "done" => Announce(d, i)
      /\ worker'[d].step # "invalidate" => worker'[d].batch = worker[d].batch
      /\ worker'[d].batch = {} => worker'[d].step = "invalidate"
  BY <1>1 DEF InvalidatePublishedWidget, Announce, MarkPublished, MarkFailed, RedisFails,
              NextEvent, WorkerRow
\* What is served only becomes fresher, and what was announced stays so.
<1>4. ASSUME NEW p \in Nat, NothingOlder(p)
      PROVE  NothingOlder(p)'
  <2>1. CASE InvalidatePublishedWidget(d, i) /\ Publishes(i)
    BY <2>1, <1>4 DEF InvalidatePublishedWidget, NothingOlder, Fresh, TypeOK, Entry, NoEntry
  <2>2. CASE UNCHANGED <<cache, reader>>
    BY <2>2, <1>4 DEF NothingOlder
  <2> QED  BY <2>1, <2>2 DEF InvalidatePublishedWidget, Announce, MarkPublished, MarkFailed,
                             RedisFails
<1>5. InvalidatePublishedWidget(d, i) => NothingOlder(events[i].publication)'
  <2> HAVE InvalidatePublishedWidget(d, i)
  <2>1. events'[i].publication = events[i].publication
    BY <1>1 DEF SameEvents
  <2>2. CASE Publishes(i)
    <3>1. reader \in [Replica -> Entry] /\ NoEntry \in Entry
      BY DEF TypeOK, Entry, NoEntry
    <3>2. cache' = NoEntry
          /\ \A r \in Replica : reader'[r] = NoEntry \/ reader'[r].overtaken
      BY <2>2, <3>1 DEF InvalidatePublishedWidget, Entry
    <3> QED  BY <3>2 DEF NothingOlder, Fresh
  <2>3. CASE ~Publishes(i)
    <3>1. cache' \in Entry /\ reader' \in [Replica -> Entry]
      BY WorkType DEF TypeOK
    <3>2. events'[i].publication = 0
      BY <2>1, <2>3 DEF Publishes
    <3> QED  BY <3>1, <3>2 DEF NothingOlder, Fresh, Entry
  <2> QED  BY <2>2, <2>3
<1>6. stream \subseteq stream' /\ stream' \subseteq stream \cup {i}
      /\ (Announce(d, i) => i \in stream') /\ (i \notin stream /\ i \in stream' => Announce(d, i))
  BY DEF InvalidatePublishedWidget, Announce, MarkPublished, MarkFailed, RedisFails
<1>7. ASSUME NEW j \in DOMAIN events
      PROVE  events'[j].status = "published" =>
               events[j].status = "published" \/ (j = i /\ MarkPublished(d, i))
  BY <1>1, <1>7 DEF InvalidatePublishedWidget, Announce, MarkPublished, MarkFailed, RedisFails,
              EventRow
<1>8. ASSUME NEW j \in DOMAIN events
      PROVE  /\ events'[j].publication <= published'
             /\ events'[j].status = "published" => j \in stream'
             /\ j \in stream' => NothingOlder(events[j].publication)'
  <2>1. events'[j].publication = events[j].publication /\ events[j].publication \in Nat
    BY <1>1, EventType DEF SameEvents, EventRow
  <2>2. Announce(d, i) => NothingOlder(events[i].publication)
    BY <1>1 DEF Announce, OutboxInv
  <2>3. MarkPublished(d, i) => i \in stream
    BY <1>1 DEF MarkPublished, OutboxInv
  <2>4. j \in stream' => NothingOlder(events[j].publication)
    BY <1>6, <2>2 DEF OutboxInv
  <2>5. j \in stream' => NothingOlder(events[j].publication)'
    BY <1>4, <2>1, <2>4
  <2> QED  BY <1>1, <1>6, <1>7, <2>1, <2>3, <2>5 DEF OutboxInv
<1>9. ASSUME NEW e \in Dispatcher, NEW j \in DOMAIN events
      PROVE  /\ At(e, j, "announce")' => NothingOlder(events[j].publication)'
             /\ At(e, j, "done")' => j \in stream'
  <2>1. events'[j].publication = events[j].publication /\ events[j].publication \in Nat
    BY <1>1, EventType DEF SameEvents, EventRow
  <2>2. CASE e # d
    <3>1. \A s : At(e, j, s)' <=> At(e, j, s)
      BY <1>2, <2>2 DEF At
    <3>2. At(e, j, "announce")' => NothingOlder(events[j].publication)
      BY <3>1 DEF OutboxInv
    <3> QED  BY <1>4, <1>6, <2>1, <3>1, <3>2 DEF OutboxInv
  <2>3. CASE e = d
    <3>1. ASSUME At(d, j, "announce")' \/ At(d, j, "done")'
          PROVE  j = i
      <4>1. j \in worker[d].batch /\ \A k \in worker[d].batch : j <= k
        BY <1>3, <3>1 DEF At
      <4>2. \A k \in worker[d].batch : i <= k
        BY <1>3, <3>1 DEF At, InvalidatePublishedWidget, Announce
      <4> QED  BY <1>1, <4>1, <4>2
    <3> QED  BY <1>3, <1>5, <1>6, <2>3, <3>1 DEF At
  <2> QED  BY <2>2, <2>3
<1>10. \A e \in Dispatcher : worker'[e].batch = {} => worker'[e].step = "invalidate"
  BY <1>2, <1>3 DEF OutboxInv
<1>11. DOMAIN events' = DOMAIN events
  BY <1>1 DEF SameEvents
<1> QED  BY <1>8, <1>9, <1>10, <1>11 DEF OutboxInv

LEMMA NextKeepsOutbox ==
  ASSUME TypeOK, OutboxInv, [Next]_vars
  PROVE  OutboxInv'
<1>1. CASE UNCHANGED vars
  BY <1>1 DEF vars, OutboxInv, NothingOlder, At
<1> QED
  BY <1>1, ConfigKeepsOutbox, CacheKeepsOutbox, ClaimKeepsOutbox, LeaseKeepsOutbox,
     CrashKeepsOutbox, WorkKeepsOutbox DEF Next

\* An event is marked published only after it was announced, and a publication
\* is announced only after the cached site was deleted, however claims outlive
\* their leases, calls fail and workers die.
THEOREM AnnouncedAreInvalidated == Spec => []AnnouncedMeansInvalidated
<1>1. Init => OutboxInv
  BY DEF Init, OutboxInv, IdleWorker, At
<1>2. TypeOK /\ OutboxInv /\ [Next]_vars => OutboxInv'
  BY NextKeepsOutbox
<1>3. OutboxInv => AnnouncedMeansInvalidated
  BY DEF OutboxInv, AnnouncedMeansInvalidated, NothingOlder, Fresh
<1> QED  BY <1>1, <1>2, <1>3, WidgetTypeCorrect, PTL DEF Spec
=============================================================================
