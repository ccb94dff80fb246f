----------------------- MODULE ConversationOwnership -----------------------
(***************************************************************************)
(* Who answers one support conversation: the AI, the queue or a human.     *)
(*                                                                         *)
(* Four kinds of writers meet at the row of the conversation:              *)
(*   - chat turns (HandleChatService.execute), which read the routing, run *)
(*     the agent, perhaps open a handoff in a transaction of its own, and  *)
(*     then persist the exchange with a SELECT and an UPDATE of the columns *)
(*     that changed, without a row lock;                                   *)
(*   - operators (SupportOperationsService), who read the workspace in one *)
(*     transaction and write it in another, under a row lock, most of them *)
(*     with the routing version they read;                                 *)
(*   - the automation rules, which run after a widget exchange, and the    *)
(*     visitor's offline form;                                             *)
(*   - the auto-resolution job.                                            *)
(* A turn or an operator that is cut off stops where it is: no step below  *)
(* is forced to happen.                                                    *)
(***************************************************************************)
EXTENDS Naturals, Sequences

CONSTANTS
  Agent,           \* operators with the takeover, reply and resolve scopes
  Manager,         \* the operators that also have support:inbox:manage
  NoAgent,         \* assigned_agent_id IS NULL
  Turn,            \* chat requests, or offline forms, of the customer
  Key              \* idempotency keys of operator requests: bounds their writes

ASSUME ManagersAreAgents == Manager \subseteq Agent
ASSUME NoAgentIsNoAgent == NoAgent \notin Agent

VARIABLES
  conv,       \* the conversations row
  handoffs,   \* statuses of its handoff_requests rows, oldest first
  replied,    \* is there an agent message?
  turn,       \* the chat requests in progress
  op,         \* each operator's request in progress
  used,       \* keys of support_operation_requests
  closer      \* history: whose write made the conversation resolved

vars == <<conv, handoffs, replied, turn, op, used, closer>>

Status == {"open", "waiting_human", "resolved"}
Ownership == {"ai", "queued", "human"}
HandoffStatus == {"pending", "assigned", "resolved"}
Source == {"none", "customer_confirmation", "auto_inactivity"}
Closer == {"none", "customer", "operator", "mark", "inactivity"}

Row == [status : Status, owner : Ownership, agent : Agent \cup {NoAgent},
        version : Nat, unread : BOOLEAN, due : BOOLEAN, source : Source]

IdleTurn == [pc |-> "idle", escalates |-> FALSE, created |-> 0, confirms |-> FALSE,
             answers |-> FALSE, status |-> "open", owner |-> "ai", due |-> FALSE]

TurnState == [pc : {"idle", "thinking", "answered", "loaded", "persisted", "done"},
              escalates : BOOLEAN, created : Nat, confirms : BOOLEAN, answers : BOOLEAN,
              status : Status, owner : Ownership, due : BOOLEAN]

Request == [kind : {"none", "take", "release", "resolve", "read", "reply", "route"},
            target : Agent \cup {NoAgent}, version : Nat, status : Status,
            owner : Ownership, agent : Agent \cup {NoAgent}]

NoRequest == [kind |-> "none", target |-> NoAgent, version |-> 0, status |-> "open",
              owner |-> "ai", agent |-> NoAgent]

TypeOK ==
  /\ conv \in Row
  /\ handoffs \in Seq(HandoffStatus)
  /\ replied \in BOOLEAN
  /\ turn \in [Turn -> TurnState]
  /\ op \in [Agent -> Request]
  /\ used \subseteq Key
  /\ closer \in Closer

OpenHandoffs == {i \in DOMAIN handoffs : handoffs[i] \in {"pending", "assigned"}}
PendingHandoffs == {i \in DOMAIN handoffs : handoffs[i] = "pending"}

\* What a write of the conversation adds to the history. A write that leaves
\* a resolved conversation resolved closes nothing.
ClosedBy(who) == closer' = IF conv'.status # "resolved" THEN "none"
                           ELSE IF conv.status = "resolved" THEN closer ELSE who

\* ConversationRoutingState.requires_human
RequiresHuman == conv.status # "resolved" /\ conv.owner \in {"queued", "human"}

(***************************************************************************)
(* The row as persist_exchange creates it for the first message.           *)
(***************************************************************************)
Init ==
  /\ \/ /\ conv = [status |-> "open", owner |-> "ai", agent |-> NoAgent, version |-> 0,
                   unread |-> TRUE, due |-> TRUE, source |-> "none"]
        /\ handoffs = <<>>
     \/ /\ conv = [status |-> "waiting_human", owner |-> "queued", agent |-> NoAgent,
                   version |-> 0, unread |-> TRUE, due |-> FALSE, source |-> "none"]
        /\ handoffs = <<"pending">>
  /\ replied = FALSE
  /\ turn = [t \in Turn |-> IdleTurn]
  /\ op = [a \in Agent |-> NoRequest]
  /\ used = {}
  /\ closer = "none"

-----------------------------------------------------------------------------
(* Chat turns                                                              *)

\* The routing read: a conversation that requires a human gets the queue
\* message, a confirmation resolves, anything else goes to the agent.
RouteTurn(t) ==
  /\ turn[t].pc = "idle"
  /\ \E confirmation \in BOOLEAN :
       turn' = [turn EXCEPT ![t] =
         IF RequiresHuman
           THEN [@ EXCEPT !.pc = "answered", !.escalates = (OpenHandoffs # {})]
         ELSE IF confirmation
           THEN [@ EXCEPT !.pc = "answered", !.confirms = TRUE, !.answers = TRUE]
         ELSE [@ EXCEPT !.pc = "thinking"]]
  /\ UNCHANGED <<conv, handoffs, replied, op, used, closer>>

\* The agent run answers, asks back, or opens a handoff in its own transaction.
RunAgent(t) ==
  /\ turn[t].pc = "thinking"
  /\ \/ /\ \E answer \in BOOLEAN :
             turn' = [turn EXCEPT ![t].pc = "answered", ![t].answers = answer]
        /\ UNCHANGED handoffs
     \/ /\ handoffs' = Append(handoffs, "pending")
        /\ turn' = [turn EXCEPT ![t].pc = "answered", ![t].escalates = TRUE,
                                ![t].created = Len(handoffs) + 1]
  /\ UNCHANGED <<conv, replied, op, used, closer>>

\* persist_exchange's SELECT of the conversation, which takes no lock.
LoadConversation(t) ==
  /\ turn[t].pc = "answered"
  /\ turn' = [turn EXCEPT ![t].pc = "loaded", ![t].status = conv.status,
                          ![t].owner = conv.owner, ![t].due = conv.due]
  /\ UNCHANGED <<conv, handoffs, replied, op, used, closer>>

\* The columns persist_exchange assigns, given the row it loaded.
Reopens(t) == turn[t].status = "resolved" /\ ~turn[t].confirms
Queues(t) == turn[t].escalates /\ (Reopens(t) \/ turn[t].owner # "human")

NextStatus(t) ==
  IF Queues(t) THEN "waiting_human"
  ELSE IF turn[t].confirms THEN "resolved"
  ELSE IF Reopens(t) THEN "open" ELSE turn[t].status

NextOwner_Status(t) == NextStatus(t)   \* mutant: the status goes into the wrong column

NextOwner(t) ==
  IF Queues(t) THEN "queued"
  ELSE IF turn[t].confirms \/ Reopens(t) THEN "ai" ELSE turn[t].owner

NextSource(t) ==
  IF turn[t].confirms /\ ~Queues(t) THEN "customer_confirmation"
  ELSE IF Reopens(t) THEN "none" ELSE conv.source

\* The mapper writes a column only if its value differs from the loaded one.
Written(new, loaded, stored) == IF new = loaded THEN stored ELSE new

\* persist_exchange's UPDATE. Neither the routing version nor the assigned
\* agent is among the columns it writes.
PersistExchange(t) ==
  /\ turn[t].pc = "loaded"
  /\ conv' = [conv EXCEPT
       !.status = Written(NextStatus(t), turn[t].status, @),
       !.owner = Written(NextOwner(t), turn[t].owner, @),
       !.unread = TRUE,
       !.due = IF Queues(t) \/ turn[t].confirms THEN (~turn[t].due /\ @)
               ELSE (turn[t].answers \/ @),
       !.source = NextSource(t)]
  /\ ClosedBy("customer")
  /\ turn' = [turn EXCEPT ![t] = [IdleTurn EXCEPT !.pc = "persisted"]]
  /\ UNCHANGED <<handoffs, replied, op, used>>

\* A matched automation rule with a direct handoff, after the exchange: it
\* takes the conversation from whoever has it and reuses an open handoff.
DirectHandoff(t) ==
  /\ turn[t].pc = "persisted"
  /\ turn' = [turn EXCEPT ![t].pc = "done"]
  /\ conv' = [conv EXCEPT !.status = "waiting_human", !.owner = "queued", !.agent = NoAgent]
  /\ ClosedBy("customer")
  /\ handoffs' = IF OpenHandoffs = {} THEN Append(handoffs, "pending") ELSE handoffs
  /\ UNCHANGED <<replied, op, used>>

\* The offline form queues the conversation without a handoff.
OfflineForm(t) ==
  /\ turn[t].pc = "idle"
  /\ turn' = [turn EXCEPT ![t].pc = "done"]
  /\ conv' = [conv EXCEPT !.status = "waiting_human", !.owner = "queued", !.agent = NoAgent,
                          !.unread = TRUE]
  /\ ClosedBy("customer")
  /\ UNCHANGED <<handoffs, replied, op, used>>

-----------------------------------------------------------------------------
(* Operators                                                               *)

\* The service's read of the workspace, with the checks it makes on it, and
\* what the request keeps of it.
ReadWorkspace(a, kind, target) ==
  /\ op[a].kind = "none" /\ used # Key
  /\ kind = "take" => a \in Manager \/ conv.owner # "human" \/ conv.agent = a
  /\ kind = "reply" => conv.owner = "human" /\ conv.agent = a
  /\ kind = "read" => conv.unread
  /\ kind # "route" => target = NoAgent
  /\ op' = [op EXCEPT ![a] =
       CASE kind = "read" -> [NoRequest EXCEPT !.kind = kind, !.status = conv.status,
                                               !.owner = conv.owner, !.agent = conv.agent]
         [] kind = "reply" -> [NoRequest EXCEPT !.kind = kind]
         [] OTHER -> [NoRequest EXCEPT !.kind = kind, !.target = target,
                                       !.version = conv.version]]
  /\ UNCHANGED <<conv, handoffs, replied, turn, used, closer>>

\* What every write under the row lock has in common: a key that was used
\* before replays the stored answer and changes nothing.
Write(a, kind, k) ==
  /\ op[a].kind = kind
  /\ k \notin used
  /\ used' = used \cup {k}
  /\ op' = [op EXCEPT ![a] = NoRequest]

SeesVersion(a) == op[a].version = conv.version

\* transition_conversation's columns.
Moved(status, owner, agent) ==
  [conv EXCEPT !.status = status, !.owner = owner, !.agent = agent,
               !.version = @ + 1, !.unread = FALSE]

\* The oldest pending handoff goes to the agent.
TakeOver(a, k) ==
  /\ Write(a, "take", k)
  /\ SeesVersion(a)
  /\ a \in Manager \/ conv.agent \in {NoAgent, a}
  /\ conv' = Moved("open", "human", a) /\ ClosedBy("operator")
  /\ handoffs' = [i \in DOMAIN handoffs |->
       IF i \in PendingHandoffs /\ \A j \in PendingHandoffs : i <= j
         THEN "assigned" ELSE handoffs[i]]
  /\ UNCHANGED <<replied, turn>>

\* The handoffs stay as they are.
ReleaseToAI(a, k) ==
  /\ Write(a, "release", k)
  /\ SeesVersion(a)
  /\ a \in Manager \/ conv.agent = a
  /\ conv' = Moved("open", "ai", NoAgent) /\ ClosedBy("operator")
  /\ UNCHANGED <<handoffs, replied, turn>>

\* The resolution source is not among the columns written.
Resolve(a, k) ==
  /\ Write(a, "resolve", k)
  /\ SeesVersion(a)
  /\ a \in Manager \/ conv.agent = a
  /\ conv' = Moved("resolved", "human", a) /\ closer' = "operator"
  /\ handoffs' = [i \in DOMAIN handoffs |-> "resolved"]
  /\ UNCHANGED <<replied, turn>>

\* The status, ownership and agent that another transaction read are written
\* back; nothing tells whether they still hold.
MarkRead(a, k) ==
  /\ Write(a, "read", k)
  /\ conv' = Moved(op[a].status, op[a].owner, op[a].agent) /\ ClosedBy("mark")
  /\ UNCHANGED <<handoffs, replied, turn>>

SendAgentMessage(a, k) ==
  /\ Write(a, "reply", k)
  /\ conv.owner = "human" /\ conv.agent = a
  /\ conv' = [conv EXCEPT !.unread = FALSE]
  /\ replied' = TRUE
  /\ UNCHANGED <<handoffs, turn, closer>>

\* An assignment makes the conversation human; taking the assignment away
\* leaves its status and ownership as they are.
UpdateRouting(a, k) ==
  /\ Write(a, "route", k)
  /\ SeesVersion(a)
  /\ a \in Manager \/ conv.agent \in {NoAgent, a, op[a].target}
  /\ conv' = IF op[a].target = NoAgent
               THEN [conv EXCEPT !.agent = NoAgent, !.version = @ + 1]
               ELSE [conv EXCEPT !.agent = op[a].target, !.version = @ + 1,
                                 !.status = "open", !.owner = "human"]
  /\ ClosedBy("operator")
  /\ UNCHANGED <<handoffs, replied, turn>>

\* Compares no version and counts none; with an open handoff nothing changes.
CreateManualHandoff(a, k) ==
  /\ op[a].kind = "none" /\ Write(a, "none", k)
  /\ IF OpenHandoffs # {}
       THEN UNCHANGED <<conv, handoffs, closer>>
       ELSE /\ handoffs' = Append(handoffs, "pending")
            /\ conv' = [conv EXCEPT !.status = "waiting_human", !.owner = "queued",
                                    !.agent = NoAgent]
            /\ ClosedBy("operator")
  /\ UNCHANGED <<replied, turn>>

\* The replay of a used key, a refused check and a lost answer end the request.
EndRequest(a) ==
  /\ op[a].kind # "none"
  /\ op' = [op EXCEPT ![a] = NoRequest]
  /\ UNCHANGED <<conv, handoffs, replied, turn, used, closer>>

-----------------------------------------------------------------------------
(* Auto-resolution                                                         *)

\* Mutant: escalations are not looked at.
AutoResolve_Escalated ==
  /\ conv.status = "open" /\ conv.owner = "ai" /\ conv.due
  /\ ~replied
  /\ conv' = [conv EXCEPT !.status = "resolved", !.due = FALSE, !.source = "auto_inactivity"]
  /\ ClosedBy("inactivity")
  /\ UNCHANGED <<handoffs, replied, turn, op, used>>

\* resolve_due: open, owned by the AI, idle for long enough, and never
\* escalated or answered by a human.
AutoResolve ==
  /\ conv.status = "open" /\ conv.owner = "ai" /\ conv.due
  /\ handoffs = <<>> /\ ~replied
  /\ conv' = [conv EXCEPT !.status = "resolved", !.due = FALSE, !.source = "auto_inactivity"]
  /\ ClosedBy("inactivity")
  /\ UNCHANGED <<handoffs, replied, turn, op, used>>

Next ==
  \/ \E t \in Turn : \/ RouteTurn(t) \/ RunAgent(t) \/ LoadConversation(t)
                     \/ PersistExchange(t) \/ DirectHandoff(t) \/ OfflineForm(t)
  \/ \E a \in Agent :
       \/ \E kind \in {"take", "release", "resolve", "read", "reply", "route"},
             target \in Agent \cup {NoAgent} : ReadWorkspace(a, kind, target)
       \/ \E k \in Key : \/ TakeOver(a, k) \/ ReleaseToAI(a, k) \/ Resolve(a, k)
                         \/ MarkRead(a, k) \/ SendAgentMessage(a, k)
                         \/ UpdateRouting(a, k) \/ CreateManualHandoff(a, k)
       \/ EndRequest(a)
  \/ AutoResolve

Spec == Init /\ [][Next]_vars

-----------------------------------------------------------------------------
(* Properties                                                              *)

\* A handoff that an unfinished turn opened and has not yet reported.
InFlight(i) == \E t \in Turn : turn[t].created = i /\ turn[t].pc \in {"answered", "loaded"}

\* The step that carries out the request of operator a.
Writes(a) == used' # used /\ op'[a] # op[a]

\* A conversation closed by an operator or by inactivity leaves no customer
\* waiting: whatever turn, manual handoff, automation rule or stale mark ran
\* next to the closing, every handoff still open belongs to a turn that is about
\* to put the conversation back into the queue. The other two ways to become
\* resolved look at no handoff: a customer who confirms, and a mark that writes
\* an older resolution back.
ClosedLeavesNobodyWaiting ==
  closer \in {"operator", "inactivity"} => \A i \in OpenHandoffs : InFlight(i)

\* Marking a conversation read changes what is unread and nothing else.
\* Violated: a mark writes back the agent it read, whoever has it by then.
ReadingChangesNoOwnership ==
  [][\A a \in Agent : Writes(a) /\ op[a].kind = "read"
       => conv'.agent = conv.agent /\ conv'.owner = conv.owner]_vars
=============================================================================
