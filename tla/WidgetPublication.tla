------------------------- MODULE WidgetPublication -------------------------
(***************************************************************************)
(* From a published widget configuration to the visitors' browsers.        *)
(*                                                                         *)
(* Publishing and rolling back write the version and an audit event in one *)
(* transaction; a trigger copies every audit event into the outbox. The    *)
(* outbox workers claim events under a lease, delete the cached site of a  *)
(* publication, announce the event on the realtime stream and mark it,     *)
(* each in a step of its own. The API replicas fill the cache from the     *)
(* database behind it, with a lifetime of ten seconds.                     *)
(*                                                                         *)
(* Abstracted: time (a lease, a retry delay and a cache entry may end at   *)
(* any moment), replayed idempotency keys (they change nothing), and the   *)
(* content of a configuration, of which only its publication number is     *)
(* kept. Readers of the stream know an event by its id: how often and in   *)
(* which order it was added is not kept.                                   *)
(***************************************************************************)
EXTENDS Naturals, Sequences, FiniteSets

CONSTANTS
  Dispatcher,   \* outbox workers
  Replica,      \* API processes; each fills the cache under its own lock
  BatchSize,    \* events one claim may take
  MaxAttempts,  \* failed attempts after which an event is a dead letter
  MaxWrites,    \* bound: configuration writes
  MaxVersions,  \* bound: versions of the configuration
  MaxFaults,    \* bound: Redis calls that fail
  MaxCrashes    \* bound: outbox workers that die

ASSUME BoundsAreNatural ==
  /\ BatchSize \in Nat \ {0} /\ MaxAttempts \in Nat \ {0}
  /\ MaxWrites \in Nat /\ MaxVersions \in Nat /\ MaxFaults \in Nat /\ MaxCrashes \in Nat

VARIABLES
  versions,   \* status of each widget_config_versions row of the site
  published,  \* how many publications there were: the last one is served
  events,     \* outbox_events rows, by id
  stream,     \* ids of the events that were added to the Redis stream
  worker,     \* each dispatcher's claimed batch and its place in it
  cache,      \* the Redis entry of the site; publication 0 is no entry
  reader,     \* what each replica read and has not yet stored
  faults, crashes

config == <<versions, published>>
bounds == <<faults, crashes>>
vars == <<versions, published, events, stream, worker, cache, reader, faults, crashes>>

\* An entry that was read before an invalidation and stored after it is overtaken.
Entry == [publication : Nat, overtaken : BOOLEAN]
NoEntry == [publication |-> 0, overtaken |-> FALSE]
IdleWorker == [batch |-> {}, step |-> "invalidate"]

TypeOK ==
  /\ versions \in Seq({"draft", "published", "archived"})
  /\ published \in Nat
  /\ events \in Seq([publication : Nat,   \* 0 for an event that publishes nothing
                     status : {"pending", "processing", "failed", "published", "dead_letter"},
                     attempts : Nat, leased : BOOLEAN])
  /\ stream \subseteq 1..Len(events)
  /\ worker \in [Dispatcher -> [batch : SUBSET (1..Len(events)),
                                step : {"invalidate", "announce", "done", "failed"}]]
  /\ cache \in Entry
  /\ reader \in [Replica -> Entry]
  /\ faults \in 0..MaxFaults /\ crashes \in 0..MaxCrashes

Init ==
  /\ versions = <<"published">> /\ published = 1
  /\ events = <<>> /\ stream = {}
  /\ worker = [d \in Dispatcher |-> IdleWorker]
  /\ cache = NoEntry
  /\ reader = [r \in Replica |-> NoEntry]
  /\ faults = 0 /\ crashes = 0

-----------------------------------------------------------------------------
(* Configuration writes, each under the lock of the site                   *)

\* The audit event of the write and, by the trigger, its outbox event.
Enqueue(publication) ==
  events' = Append(events, [publication |-> publication, status |-> "pending",
                            attempts |-> 0, leased |-> FALSE])

ArchivePublished(vs) ==
  [v \in DOMAIN vs |-> IF vs[v] = "published" THEN "archived" ELSE vs[v]]

SaveDraft ==
  /\ Len(events) < MaxWrites /\ Len(versions) < MaxVersions
  /\ versions' = Append(versions, "draft")
  /\ Enqueue(0)
  /\ UNCHANGED <<published, stream, worker, cache, reader, bounds>>

\* Any version can be published, an archived one again too.
PublishVersion(v) ==
  /\ Len(events) < MaxWrites
  /\ versions' = [ArchivePublished(versions) EXCEPT ![v] = "published"]
  /\ published' = published + 1
  /\ Enqueue(published + 1)
  /\ UNCHANGED <<stream, worker, cache, reader, bounds>>

\* A rollback publishes a copy of the source as the newest version.
RollBack(source) ==
  /\ Len(events) < MaxWrites /\ Len(versions) < MaxVersions
  /\ versions' = Append(ArchivePublished(versions), "published")
  /\ published' = published + 1
  /\ Enqueue(published + 1)
  /\ UNCHANGED <<stream, worker, cache, reader, bounds>>

-----------------------------------------------------------------------------
(* Outbox workers                                                          *)

\* Mutant: the lease of a claim is never over.
Claimable_Waiting(i) == events[i].status \in {"pending", "failed"}

Claimable(i) == \/ events[i].status \in {"pending", "failed"}
                \/ events[i].status = "processing" /\ ~events[i].leased

\* The oldest claimable events, as many as a batch holds, each leased and
\* counted.
Claim(d) ==
  LET claimable == {i \in DOMAIN events : Claimable(i)} IN
  /\ worker[d].batch = {}
  /\ \E batch \in SUBSET claimable \ {{}} :
       /\ Cardinality(batch) <= BatchSize
       /\ batch = claimable \/ Cardinality(batch) = BatchSize
       /\ \A i \in batch, j \in claimable \ batch : i < j
       /\ worker' = [worker EXCEPT ![d].batch = batch]
       /\ events' = [i \in DOMAIN events |->
                      IF i \in batch
                        THEN [events[i] EXCEPT !.status = "processing", !.leased = TRUE,
                                               !.attempts = @ + 1]
                        ELSE events[i]]
  /\ UNCHANGED <<config, stream, cache, reader, bounds>>

LeaseExpires(i) ==
  /\ events[i].status = "processing" /\ events[i].leased
  /\ events' = [events EXCEPT ![i].leased = FALSE]
  /\ UNCHANGED <<config, stream, worker, cache, reader, bounds>>

\* The event the worker is at, in the order of the ids, and what it is to do.
At(d, i, step) ==
  /\ worker[d].step = step
  /\ i \in worker[d].batch /\ \A j \in worker[d].batch : i <= j

Publishes(i) == events[i].publication # 0

\* The key is deleted only for events that publish a configuration.
InvalidatePublishedWidget(d, i) ==
  /\ At(d, i, "invalidate")
  /\ worker' = [worker EXCEPT ![d].step = "announce"]
  /\ IF Publishes(i)
       THEN /\ cache' = NoEntry
            /\ reader' = [r \in Replica |->
                 IF reader[r] = NoEntry THEN NoEntry ELSE [reader[r] EXCEPT !.overtaken = TRUE]]
       ELSE UNCHANGED <<cache, reader>>
  /\ UNCHANGED <<config, events, stream, bounds>>

Announce(d, i) ==
  /\ At(d, i, "announce")
  /\ stream' = stream \cup {i}
  /\ worker' = [worker EXCEPT ![d].step = "done"]
  /\ UNCHANGED <<config, events, cache, reader, bounds>>

\* Mutant: a failed deletion is logged and forgotten.
RedisFails_Swallowed(d, i) ==
  /\ faults < MaxFaults
  /\ At(d, i, "invalidate") /\ Publishes(i)
  /\ worker' = [worker EXCEPT ![d].step = "announce"]
  /\ faults' = faults + 1
  /\ UNCHANGED <<config, events, stream, cache, reader, crashes>>

\* Deleting the key or adding to the stream fails.
RedisFails(d, i) ==
  /\ faults < MaxFaults
  /\ At(d, i, "announce") \/ (At(d, i, "invalidate") /\ Publishes(i))
  /\ worker' = [worker EXCEPT ![d].step = "failed"]
  /\ faults' = faults + 1
  /\ UNCHANGED <<config, events, stream, cache, reader, crashes>>

\* Neither mark looks at the event's status or at whose lease it carries.
NextEvent(d, i) ==
  worker' = [worker EXCEPT ![d] = [batch |-> @.batch \ {i}, step |-> "invalidate"]]

MarkPublished(d, i) ==
  /\ At(d, i, "done")
  /\ events' = [events EXCEPT ![i].status = "published", ![i].leased = FALSE]
  /\ NextEvent(d, i)
  /\ UNCHANGED <<config, stream, cache, reader, bounds>>

\* Mutant: the row gets a status the table does not know.
MarkFailed_ApiName(d, i) ==
  /\ At(d, i, "failed")
  /\ events' = [events EXCEPT ![i].status = "dead", ![i].leased = FALSE]
  /\ NextEvent(d, i)
  /\ UNCHANGED <<config, stream, cache, reader, bounds>>

MarkFailed(d, i) ==
  /\ At(d, i, "failed")
  /\ events' = [events EXCEPT
       ![i].status = IF events[i].attempts >= MaxAttempts
                                THEN "dead_letter" ELSE "failed",
       ![i].leased = FALSE]
  /\ NextEvent(d, i)
  /\ UNCHANGED <<config, stream, cache, reader, bounds>>

\* The process dies and is started again; its batch is left to the leases.
Crash(d) ==
  /\ crashes < MaxCrashes
  /\ worker[d] # IdleWorker
  /\ worker' = [worker EXCEPT ![d] = IdleWorker]
  /\ crashes' = crashes + 1
  /\ UNCHANGED <<config, events, stream, cache, reader, faults>>

-----------------------------------------------------------------------------
(* The access cache                                                        *)

\* A miss, seen again under the lock, reads the served publication.
ReadSite(r) ==
  /\ cache = NoEntry /\ reader[r] = NoEntry
  /\ reader' = [reader EXCEPT ![r] = [publication |-> published, overtaken |-> FALSE]]
  /\ UNCHANGED <<config, events, stream, worker, cache, bounds>>

StoreSite(r) ==
  /\ reader[r] # NoEntry
  /\ cache' = reader[r]
  /\ reader' = [reader EXCEPT ![r] = NoEntry]
  /\ UNCHANGED <<config, events, stream, worker, bounds>>

\* A failed SET leaves the cache as it is; the request is answered all the same.
StoreFails(r) ==
  /\ faults < MaxFaults
  /\ reader[r] # NoEntry
  /\ reader' = [reader EXCEPT ![r] = NoEntry]
  /\ faults' = faults + 1
  /\ UNCHANGED <<config, events, stream, worker, cache, crashes>>

EntryExpires_Never == FALSE   \* mutant: an entry is stored without a lifetime

EntryExpires ==
  /\ cache # NoEntry
  /\ cache' = NoEntry
  /\ UNCHANGED <<config, events, stream, worker, reader, bounds>>

-----------------------------------------------------------------------------
Work(d) ==
  \E i \in worker[d].batch :
    \/ InvalidatePublishedWidget(d, i) \/ Announce(d, i)
    \/ MarkPublished(d, i) \/ MarkFailed(d, i) \/ RedisFails(d, i)

Next ==
  \/ SaveDraft
  \/ \E v \in DOMAIN versions : PublishVersion(v) \/ RollBack(v)
  \/ \E d \in Dispatcher : Claim(d) \/ Work(d) \/ Crash(d)
  \/ \E i \in DOMAIN events : LeaseExpires(i)
  \/ \E r \in Replica : ReadSite(r) \/ StoreSite(r) \/ StoreFails(r)
  \/ EntryExpires

Spec == Init /\ [][Next]_vars

\* The workers' loop claims and works for ever, leases and cache entries end
\* with time, and a replica that read the site answers its request. Nobody is
\* obliged to publish or to visit.
Fairness ==
  /\ \A d \in Dispatcher : WF_vars(Claim(d)) /\ WF_vars(Work(d))
  /\ \A i \in 1..MaxWrites : WF_vars(i \in DOMAIN events /\ LeaseExpires(i))
  /\ \A r \in Replica : WF_vars(StoreSite(r) \/ StoreFails(r))
  /\ WF_vars(EntryExpires)

FairSpec == Spec /\ Fairness

-----------------------------------------------------------------------------
(* Properties                                                              *)

\* Visitors are served one configuration: concurrent publications and
\* rollbacks never leave two versions published, nor none.
OneVersionIsServed ==
  \E v \in DOMAIN versions : \A w \in DOMAIN versions : versions[w] = "published" <=> w = v

\* Whatever crashes, leases that run out and marks of stale claims there are,
\* an event is marked published only after it was announced, and a
\* publication is announced only after the cached site was deleted: an entry
\* older than an announced publication was read before that deletion.
AnnouncedMeansInvalidated ==
  /\ \A i \in DOMAIN events : events[i].status = "published" => i \in stream
  /\ \A i \in DOMAIN events :
       i \in stream /\ cache # NoEntry /\ ~cache.overtaken
         => cache.publication >= events[i].publication

\* Every audited write is announced or becomes a dead letter for good, despite
\* crashes, failing Redis calls and claims that outlive their lease.
EventsSettle ==
  <>[](\A i \in DOMAIN events : events[i].status \in {"published", "dead_letter"})

\* Once publishing stops, the cache comes to hold the last publication or
\* nothing, for good, even when a slow replica stores an overtaken entry or
\* the invalidation ends as a dead letter.
CacheConverges == <>[](cache.publication \in {0, published})
=============================================================================
