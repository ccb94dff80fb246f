-------------------------- MODULE AtomicPublication --------------------------
(***************************************************************************)
(* What publishing a site's knowledge promises its visitors: they are      *)
(* answered from one whole publication or not at all, the gate reopens on  *)
(* the publication it closed on or on the one that closed it, and what was *)
(* given up is never shown.  SitePublication shows that the switch over    *)
(* three stores keeps this promise.                                        *)
(***************************************************************************)
CONSTANTS Pub, NoPub

VARIABLES
    open,       \* visitors are admitted
    published,  \* the publication they are shown
    answers,    \* the versions a search can return
    manifest,   \* the versions each publication consists of
    fate        \* what became of each publication

vars == <<open, published, answers, manifest, fate>>

Content(p, m) == IF p = NoPub THEN {} ELSE m[p]

Init ==
    /\ open = TRUE
    /\ published = NoPub
    /\ answers = {}
    /\ manifest = [p \in Pub |-> {}]
    /\ fate = [p \in Pub |-> "none"]

Submit(p) ==
    /\ fate[p] = "none"
    /\ fate' = [fate EXCEPT ![p] = "open"]
    /\ \E versions \in SUBSET Pub : manifest' = [manifest EXCEPT ![p] = versions]
    /\ UNCHANGED <<open, published, answers>>

\* The gate closes for the sake of an open publication.
Close(p) ==
    /\ open /\ fate[p] = "open"
    /\ open' = FALSE
    /\ answers' = {}
    /\ UNCHANGED <<published, manifest, fate>>

Open(p) ==
    /\ ~open
    /\ open' = TRUE
    /\ published' = p
    /\ answers' = Content(p, manifest)
    /\ UNCHANGED <<manifest, fate>>

\* Back to what was shown before, or on to an open publication.
Reopen == Open(published)
Publish(p) == fate[p] = "open" /\ Open(p)

Settle(p) ==
    /\ fate[p] = "open" /\ published = p
    /\ fate' = [fate EXCEPT ![p] = "published"]
    /\ UNCHANGED <<open, published, answers, manifest>>

Discard(p) ==
    /\ fate[p] = "open" /\ published # p
    /\ fate' = [fate EXCEPT ![p] = "ended"]
    /\ UNCHANGED <<open, published, answers, manifest>>

Next ==
    \/ \E p \in Pub : Submit(p) \/ Close(p) \/ Publish(p) \/ Settle(p) \/ Discard(p)
    \/ Reopen

Spec == Init /\ [][Next]_vars
=============================================================================
