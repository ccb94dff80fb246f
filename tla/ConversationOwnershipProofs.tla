--------------------- MODULE ConversationOwnershipProofs ---------------------
(***************************************************************************)
(* For any number of operators, chat turns and requests, whatever exchange *)
(* or mark writes what it read long ago: a conversation that was closed by *)
(* an operator or by inactivity leaves nobody waiting.                     *)
(***************************************************************************)
EXTENDS ConversationOwnership, TLAPS

\* A turn that has not run the agent has nothing to report; one that opened a
\* handoff, which is there for good, reports an escalation and no confirmation.
TurnsInv ==
  \A t \in Turn :
    /\ turn[t].created <= Len(handoffs)
    /\ turn[t].pc \in {"idle", "thinking"} =>
         turn[t].created = 0 /\ ~turn[t].confirms /\ ~turn[t].escalates
    /\ turn[t].created # 0 => turn[t].escalates /\ ~turn[t].confirms

ClosedByOthers == closer \in {"operator", "inactivity"}

\* Only a resolved conversation was closed by anybody.
CloserInv == closer # "none" => conv.status = "resolved"

\* A turn with a handoff that is still open read the conversation after it was
\* closed, so that its update will open it again.
SeenClosedInv ==
  ClosedByOthers =>
    \A t \in Turn : turn[t].pc = "loaded" /\ turn[t].created \in OpenHandoffs
                      => turn[t].status = "resolved"

OwnershipInv == TypeOK /\ TurnsInv /\ CloserInv /\ SeenClosedInv /\ ClosedLeavesNobodyWaiting

-----------------------------------------------------------------------------
(* The history *)

\* A write that reopens forgets who closed, one that leaves a conversation
\* resolved remembers.
LEMMA HistoryStep ==
  ASSUME NEW who, ClosedBy(who)
  PROVE  /\ closer' \in {"none", closer, who}
         /\ conv'.status # "resolved" => closer' = "none"
         /\ conv.status = "resolved" => closer' \in {"none", closer}
  BY DEF ClosedBy

LEMMA HistoryType ==
  ASSUME TypeOK, NEW who \in Closer, ClosedBy(who)
  PROVE  closer' \in Closer
  BY DEF ClosedBy, TypeOK, Closer

LEMMA HistoryIsTrue ==
  ASSUME TypeOK, CloserInv, [Next]_vars
  PROVE  CloserInv'
<1>1. ASSUME NEW t \in Turn,
             RouteTurn(t) \/ RunAgent(t) \/ LoadConversation(t)
               \/ PersistExchange(t) \/ DirectHandoff(t) \/ OfflineForm(t)
      PROVE  CloserInv'
  BY <1>1, HistoryStep DEF RouteTurn, RunAgent, LoadConversation, PersistExchange,
                           DirectHandoff, OfflineForm, CloserInv
<1>2. ASSUME NEW a \in Agent,
             \/ EndRequest(a)
             \/ \E kind \in {"take", "release", "resolve", "read", "reply", "route"},
                   target \in Agent \cup {NoAgent} : ReadWorkspace(a, kind, target)
      PROVE  CloserInv'
  BY <1>2 DEF EndRequest, ReadWorkspace, CloserInv
<1>3. ASSUME NEW a \in Agent, NEW k \in Key,
             \/ TakeOver(a, k) \/ ReleaseToAI(a, k) \/ MarkRead(a, k)
             \/ UpdateRouting(a, k) \/ CreateManualHandoff(a, k)
      PROVE  CloserInv'
  BY <1>3, HistoryStep DEF TakeOver, ReleaseToAI, MarkRead, UpdateRouting,
                           CreateManualHandoff, CloserInv
<1>4. ASSUME NEW a \in Agent, NEW k \in Key, Resolve(a, k) \/ SendAgentMessage(a, k)
      PROVE  CloserInv'
  BY <1>4 DEF Resolve, SendAgentMessage, Moved, CloserInv, TypeOK, Row
<1>5. CASE AutoResolve
  BY <1>5, HistoryStep DEF AutoResolve, CloserInv
<1>6. CASE UNCHANGED vars
  BY <1>6 DEF vars, CloserInv
<1> QED  BY <1>1, <1>2, <1>3, <1>4, <1>5, <1>6 DEF Next

-----------------------------------------------------------------------------
(* Types *)

LEMMA InitType == Init => TypeOK
<1> SUFFICES ASSUME Init PROVE TypeOK
  OBVIOUS
<1> DEFINE answered == [status |-> "open", owner |-> "ai", agent |-> NoAgent,
                        version |-> 0, unread |-> TRUE, due |-> TRUE, source |-> "none"]
           queued == [status |-> "waiting_human", owner |-> "queued", agent |-> NoAgent,
                      version |-> 0, unread |-> TRUE, due |-> FALSE, source |-> "none"]
<1>1. conv \in Row
  <2>1. answered \in Row /\ queued \in Row
    BY DEF Row, Status, Ownership, Source
  <2>2. conv \in {answered, queued}
    BY DEF Init
  <2> HIDE DEF answered, queued
  <2> QED  BY <2>1, <2>2
<1>2. handoffs \in Seq(HandoffStatus)
  <2>1. <<>> \in Seq(HandoffStatus) /\ <<"pending">> \in Seq(HandoffStatus)
    BY DEF HandoffStatus
  <2>2. handoffs \in {<<>>, <<"pending">>}
    BY DEF Init
  <2> QED  BY <2>1, <2>2
<1>3. IdleTurn \in TurnState
  BY DEF IdleTurn, TurnState, Status, Ownership
<1>4. NoRequest \in Request
  BY DEF NoRequest, Request, Status, Ownership
<1> QED  BY <1>1, <1>2, <1>3, <1>4 DEF Init, TypeOK, Closer

LEMMA RouteTurnType ==
  ASSUME TypeOK, NEW t \in Turn, RouteTurn(t)
  PROVE  TypeOK'
<1>1. turn[t] \in TurnState
  BY DEF TypeOK
<1>2. PICK confirmation \in BOOLEAN :
        turn' = [turn EXCEPT ![t] =
          IF RequiresHuman
            THEN [turn[t] EXCEPT !.pc = "answered", !.escalates = (OpenHandoffs # {})]
          ELSE IF confirmation
            THEN [turn[t] EXCEPT !.pc = "answered", !.confirms = TRUE, !.answers = TRUE]
          ELSE [turn[t] EXCEPT !.pc = "thinking"]]
  BY DEF RouteTurn
<1>3. /\ [turn[t] EXCEPT !.pc = "answered", !.escalates = (OpenHandoffs # {})] \in TurnState
      /\ [turn[t] EXCEPT !.pc = "answered", !.confirms = TRUE, !.answers = TRUE] \in TurnState
      /\ [turn[t] EXCEPT !.pc = "thinking"] \in TurnState
  BY <1>1 DEF TurnState
<1>4. turn' \in [Turn -> TurnState]
  BY <1>2, <1>3 DEF TypeOK
<1> QED  BY <1>4 DEF TypeOK, RouteTurn

LEMMA RunAgentType ==
  ASSUME TypeOK, NEW t \in Turn, RunAgent(t)
  PROVE  TypeOK'
<1>1. turn[t] \in TurnState /\ Len(handoffs) + 1 \in Nat
  BY DEF TypeOK
<1>2. turn' \in [Turn -> TurnState]
  <2> DEFINE asks(answer) == [turn[t] EXCEPT !.pc = "answered", !.answers = answer]
             opens == [turn[t] EXCEPT !.pc = "answered", !.escalates = TRUE,
                                      !.created = Len(handoffs) + 1]
  <2>1. opens \in TurnState /\ \A answer \in BOOLEAN : asks(answer) \in TurnState
    BY <1>1 DEF TurnState
  <2>2. \/ turn' = [turn EXCEPT ![t] = opens]
        \/ \E answer \in BOOLEAN : turn' = [turn EXCEPT ![t] = asks(answer)]
    BY DEF RunAgent
  <2> HIDE DEF opens, asks
  <2> QED  BY <2>1, <2>2 DEF TypeOK
<1>3. handoffs' \in Seq(HandoffStatus)
  <2>1. "pending" \in HandoffStatus
    BY DEF HandoffStatus
  <2>2. handoffs \in Seq(HandoffStatus)
    BY DEF TypeOK
  <2>3. handoffs' = handoffs \/ handoffs' = Append(handoffs, "pending")
    BY DEF RunAgent
  <2> QED  BY <2>1, <2>2, <2>3
<1> QED  BY <1>2, <1>3 DEF TypeOK, RunAgent

LEMMA LoadConversationType ==
  ASSUME TypeOK, NEW t \in Turn, LoadConversation(t)
  PROVE  TypeOK'
<1>1. turn[t] \in TurnState /\ conv \in Row
  BY DEF TypeOK
<1>2. turn' \in [Turn -> TurnState]
  BY <1>1 DEF TypeOK, LoadConversation, TurnState, Row
<1> QED  BY <1>2 DEF TypeOK, LoadConversation

LEMMA PersistExchangeType ==
  ASSUME TypeOK, NEW t \in Turn, PersistExchange(t)
  PROVE  TypeOK'
<1>1. turn[t] \in TurnState /\ conv \in Row
  BY DEF TypeOK
<1>2. /\ Written(NextStatus(t), turn[t].status, conv.status) \in Status
      /\ Written(NextOwner(t), turn[t].owner, conv.owner) \in Ownership
      /\ NextSource(t) \in Source
  BY <1>1 DEF Written, NextStatus, NextOwner, NextSource, TurnState, Row, Status, Ownership, Source
<1> DEFINE due == IF Queues(t) \/ turn[t].confirms THEN (~turn[t].due /\ conv.due)
                  ELSE (turn[t].answers \/ conv.due)
<1>3. due \in BOOLEAN
  OBVIOUS
<1>4. conv' = [conv EXCEPT !.status = Written(NextStatus(t), turn[t].status, conv.status),
                           !.owner = Written(NextOwner(t), turn[t].owner, conv.owner),
                           !.unread = TRUE, !.due = due, !.source = NextSource(t)]
  BY DEF PersistExchange
<1> HIDE DEF due
<1>5. conv' \in Row
  BY <1>1, <1>2, <1>3, <1>4 DEF Row
<1>6. turn' \in [Turn -> TurnState]
  BY DEF TypeOK, PersistExchange, TurnState, IdleTurn, Status, Ownership
<1> QED  BY <1>5, <1>6, HistoryType DEF TypeOK, PersistExchange, Closer

LEMMA DirectHandoffType ==
  ASSUME TypeOK, NEW t \in Turn, DirectHandoff(t)
  PROVE  TypeOK'
<1>1. turn' \in [Turn -> TurnState]
  <2>1. turn \in [Turn -> TurnState] /\ turn' = [turn EXCEPT ![t].pc = "done"]
    BY DEF TypeOK, DirectHandoff
  <2> QED  BY <2>1 DEF TurnState
<1>2. conv' \in Row
  BY DEF TypeOK, DirectHandoff, Row, Status, Ownership
<1>3. handoffs' \in Seq(HandoffStatus)
  <2>1. "pending" \in HandoffStatus
    BY DEF HandoffStatus
  <2> QED  BY <2>1 DEF TypeOK, DirectHandoff
<1> QED  BY <1>1, <1>2, <1>3, HistoryType DEF TypeOK, DirectHandoff, Closer

LEMMA OfflineFormType ==
  ASSUME TypeOK, NEW t \in Turn, OfflineForm(t)
  PROVE  TypeOK'
<1>1. turn' \in [Turn -> TurnState]
  <2>1. turn \in [Turn -> TurnState] /\ turn' = [turn EXCEPT ![t].pc = "done"]
    BY DEF TypeOK, OfflineForm
  <2> QED  BY <2>1 DEF TurnState
<1>2. conv' \in Row
  BY DEF TypeOK, OfflineForm, Row, Status, Ownership
<1> QED  BY <1>1, <1>2, HistoryType DEF TypeOK, OfflineForm, Closer

LEMMA ReadWorkspaceType ==
  ASSUME TypeOK, NEW a \in Agent, NEW target \in Agent \cup {NoAgent},
         NEW kind \in {"take", "release", "resolve", "read", "reply", "route"},
         ReadWorkspace(a, kind, target)
  PROVE  TypeOK'
<1> DEFINE reading == [NoRequest EXCEPT !.kind = kind, !.status = conv.status,
                                        !.owner = conv.owner, !.agent = conv.agent]
           replying == [NoRequest EXCEPT !.kind = kind]
           moving == [NoRequest EXCEPT !.kind = kind, !.target = target,
                                       !.version = conv.version]
<1>1. /\ reading \in Request
      /\ replying \in Request
      /\ moving \in Request
  BY DEF TypeOK, Row, Request, NoRequest, Status, Ownership
<1>2. \E r \in {reading, replying, moving} : op' = [op EXCEPT ![a] = r]
  <2>1. CASE kind = "read"
    BY <2>1 DEF ReadWorkspace
  <2>2. CASE kind = "reply"
    BY <2>2 DEF ReadWorkspace
  <2>3. CASE kind \notin {"read", "reply"}
    BY <2>3 DEF ReadWorkspace
  <2> QED  BY <2>1, <2>2, <2>3
<1> HIDE DEF reading, replying, moving
<1>3. op' \in [Agent -> Request]
  BY <1>1, <1>2 DEF TypeOK
<1> QED  BY <1>3 DEF TypeOK, ReadWorkspace

LEMMA WriteType ==
  ASSUME TypeOK, NEW a \in Agent, NEW kind, NEW k \in Key, Write(a, kind, k)
  PROVE  op' \in [Agent -> Request] /\ used' \subseteq Key
<1>1. NoRequest \in Request
  BY DEF NoRequest, Request, Status, Ownership
<1> QED  BY <1>1 DEF TypeOK, Write

LEMMA MovedType ==
  ASSUME TypeOK, NEW s \in Status, NEW o \in Ownership, NEW a \in Agent \cup {NoAgent}
  PROVE  Moved(s, o, a) \in Row
<1>1. conv \in Row /\ conv.version + 1 \in Nat
  BY DEF TypeOK, Row
<1>2. Moved(s, o, a) = [conv EXCEPT !.status = s, !.owner = o, !.agent = a,
                                    !.version = conv.version + 1, !.unread = FALSE]
  BY DEF Moved
<1> QED  BY <1>1, <1>2 DEF Row

\* What every operator's write leaves as it is, it leaves well typed.
LEMMA OperatorType ==
  ASSUME TypeOK, NEW a \in Agent, NEW k \in Key,
         \/ TakeOver(a, k) \/ ReleaseToAI(a, k) \/ Resolve(a, k) \/ MarkRead(a, k)
         \/ SendAgentMessage(a, k) \/ UpdateRouting(a, k) \/ CreateManualHandoff(a, k)
  PROVE  TypeOK'
<1> USE DEF Status, Ownership
<1>0. conv \in Row /\ op[a] \in Request
  BY DEF TypeOK
<1>h. closer' \in Closer
  <2>1. closer \in Closer /\ "operator" \in Closer /\ "mark" \in Closer
    BY DEF TypeOK, Closer
  <2> QED  BY <2>1, HistoryType DEF TakeOver, ReleaseToAI, Resolve, MarkRead,
              SendAgentMessage, UpdateRouting, CreateManualHandoff
<1>1. CASE TakeOver(a, k)
  <2>1. conv' \in Row
    BY <1>1, MovedType DEF TakeOver
  <2>2. handoffs' \in Seq(HandoffStatus)
    <3>1. \A i \in DOMAIN handoffs : handoffs[i] \in HandoffStatus
      BY DEF TypeOK
    <3>2. /\ handoffs' = [i \in 1..Len(handoffs) |-> handoffs'[i]]
          /\ Len(handoffs) \in Nat
          /\ \A i \in 1..Len(handoffs) : handoffs'[i] \in HandoffStatus
      BY <1>1, <3>1 DEF TakeOver, TypeOK, HandoffStatus
    <3> QED  BY <3>2
  <2> QED  BY <1>1, <2>1, <2>2, <1>h, WriteType DEF TypeOK, TakeOver
<1>2. CASE ReleaseToAI(a, k)
  BY <1>2, MovedType, <1>h, WriteType DEF TypeOK, ReleaseToAI
<1>3. CASE Resolve(a, k)
  <2>1. conv' \in Row
    BY <1>3, MovedType DEF Resolve
  <2>2. handoffs' \in Seq(HandoffStatus)
    <3>1. /\ handoffs' = [i \in 1..Len(handoffs) |-> "resolved"]
          /\ Len(handoffs) \in Nat
      BY <1>3 DEF Resolve, TypeOK
    <3> QED  BY <3>1 DEF HandoffStatus
  <2> QED  BY <1>3, <2>1, <2>2, <1>h, WriteType DEF TypeOK, Resolve
<1>4. CASE MarkRead(a, k)
  <2>1. Moved(op[a].status, op[a].owner, op[a].agent) \in Row
    BY <1>0, MovedType DEF Request
  <2> QED  BY <1>4, <2>1, <1>h, WriteType DEF TypeOK, MarkRead
<1>5. CASE SendAgentMessage(a, k)
  <2>1. conv' \in Row
    BY <1>0, <1>5 DEF SendAgentMessage, Row
  <2> QED  BY <1>5, <2>1, <1>h, WriteType DEF TypeOK, SendAgentMessage
<1>6. CASE UpdateRouting(a, k)
  <2>1. conv' \in Row
    <3> DEFINE unassigned == [conv EXCEPT !.agent = NoAgent, !.version = conv.version + 1]
               assigned == [conv EXCEPT !.agent = op[a].target, !.version = conv.version + 1,
                                        !.status = "open", !.owner = "human"]
    <3>0. conv.version + 1 \in Nat /\ op[a].target \in Agent \cup {NoAgent}
      BY <1>0 DEF Row, Request
    <3>1. unassigned \in Row /\ assigned \in Row
      <4>1. unassigned \in Row
        BY <1>0, <3>0 DEF Row
      <4>2. assigned \in Row
        BY <1>0, <3>0 DEF Row
      <4> QED  BY <4>1, <4>2
    <3>2. conv' \in {unassigned, assigned}
      BY <1>6 DEF UpdateRouting
    <3> HIDE DEF unassigned, assigned
    <3> QED  BY <3>1, <3>2
  <2> QED  BY <1>6, <2>1, <1>h, WriteType DEF TypeOK, UpdateRouting
<1>7. CASE CreateManualHandoff(a, k)
  <2>1. conv' \in Row
    BY <1>0, <1>7 DEF CreateManualHandoff, Row
  <2>2. handoffs' \in Seq(HandoffStatus)
    BY <1>7 DEF CreateManualHandoff, TypeOK, HandoffStatus
  <2> QED  BY <1>7, <2>1, <2>2, <1>h, WriteType DEF TypeOK, CreateManualHandoff
<1> QED  BY <1>1, <1>2, <1>3, <1>4, <1>5, <1>6, <1>7

LEMMA EndRequestType ==
  ASSUME TypeOK, NEW a \in Agent, EndRequest(a)
  PROVE  TypeOK'
<1>1. NoRequest \in Request
  BY DEF NoRequest, Request, Status, Ownership
<1> QED  BY <1>1 DEF TypeOK, EndRequest

LEMMA AutoResolveType ==
  ASSUME TypeOK, AutoResolve
  PROVE  TypeOK'
<1>1. conv' \in Row
  BY DEF TypeOK, AutoResolve, Row, Status, Source
<1>2. closer' \in Closer
  BY HistoryType DEF AutoResolve, Closer
<1> QED  BY <1>1, <1>2 DEF TypeOK, AutoResolve

LEMMA NextType ==
  ASSUME TypeOK, [Next]_vars
  PROVE  TypeOK'
<1>1. ASSUME NEW t \in Turn,
             RouteTurn(t) \/ RunAgent(t) \/ LoadConversation(t)
               \/ PersistExchange(t) \/ DirectHandoff(t) \/ OfflineForm(t)
      PROVE  TypeOK'
  BY <1>1, RouteTurnType, RunAgentType, LoadConversationType, PersistExchangeType,
     DirectHandoffType, OfflineFormType
<1>2. ASSUME NEW a \in Agent,
             NEW kind \in {"take", "release", "resolve", "read", "reply", "route"},
             NEW target \in Agent \cup {NoAgent}, ReadWorkspace(a, kind, target)
      PROVE  TypeOK'
  BY <1>2, ReadWorkspaceType
<1>3. ASSUME NEW a \in Agent, NEW k \in Key,
             \/ TakeOver(a, k) \/ ReleaseToAI(a, k) \/ Resolve(a, k) \/ MarkRead(a, k)
             \/ SendAgentMessage(a, k) \/ UpdateRouting(a, k) \/ CreateManualHandoff(a, k)
      PROVE  TypeOK'
  BY <1>3, OperatorType
<1>4. ASSUME NEW a \in Agent, EndRequest(a)
      PROVE  TypeOK'
  BY <1>4, EndRequestType
<1>5. CASE AutoResolve
  BY <1>5, AutoResolveType
<1>6. CASE UNCHANGED vars
  BY <1>6 DEF TypeOK, vars
<1> QED  BY <1>1, <1>2, <1>3, <1>4, <1>5, <1>6 DEF Next

\* Rows, turns and requests stay in their declared domains, whatever the
\* interleaving of stale exchanges and stale marks.
THEOREM ConversationTypeCorrect == Spec => []TypeOK
<1>1. Init => TypeOK
  BY InitType
<1>2. TypeOK /\ [Next]_vars => TypeOK'
  BY NextType
<1> QED  BY <1>1, <1>2, PTL DEF Spec

-----------------------------------------------------------------------------
(* Nobody waits in a closed conversation *)

\* A step that leaves the turns alone keeps both invariants about closed
\* conversations if it opens the conversation, closes every handoff, or
\* neither closes the conversation nor opens a handoff.
LEMMA ClosedIsStable ==
  ASSUME SeenClosedInv, ClosedLeavesNobodyWaiting, turn' = turn,
         \/ ~ClosedByOthers'
         \/ OpenHandoffs' = {}
         \/ closer' = closer /\ OpenHandoffs' \subseteq OpenHandoffs
  PROVE  SeenClosedInv' /\ ClosedLeavesNobodyWaiting'
<1>1. CASE ~ClosedByOthers' \/ OpenHandoffs' = {}
  BY <1>1 DEF SeenClosedInv, ClosedLeavesNobodyWaiting, ClosedByOthers
<1>2. CASE closer' = closer /\ OpenHandoffs' \subseteq OpenHandoffs
  BY <1>2 DEF SeenClosedInv, ClosedLeavesNobodyWaiting, ClosedByOthers, InFlight
<1> QED  BY <1>1, <1>2

\* The same for a step of turn t after which it has nothing in flight.
LEMMA ClosedIsStableFor ==
  ASSUME SeenClosedInv, ClosedLeavesNobodyWaiting,
         NEW t \in Turn, turn' \in [Turn -> TurnState],
         \A u \in Turn \ {t} : turn'[u] = turn[u],
         turn'[t].pc # "loaded",
         \/ ~ClosedByOthers'
         \/ /\ closer' = closer /\ OpenHandoffs' = OpenHandoffs
            /\ turn[t].created \notin OpenHandoffs \/ turn[t].pc \notin {"answered", "loaded"}
  PROVE  SeenClosedInv' /\ ClosedLeavesNobodyWaiting'
<1>1. CASE ~ClosedByOthers'
  BY <1>1 DEF SeenClosedInv, ClosedLeavesNobodyWaiting, ClosedByOthers
<1>2. CASE /\ closer' = closer /\ OpenHandoffs' = OpenHandoffs
           /\ turn[t].created \notin OpenHandoffs \/ turn[t].pc \notin {"answered", "loaded"}
           /\ ClosedByOthers'
  <2>1. SeenClosedInv'
    BY <1>2 DEF SeenClosedInv, ClosedByOthers
  <2>2. ASSUME NEW i \in OpenHandoffs
        PROVE  \E u \in Turn : turn'[u].created = i /\ turn'[u].pc \in {"answered", "loaded"}
    <3>1. PICK u \in Turn : turn[u].created = i /\ turn[u].pc \in {"answered", "loaded"}
      BY <1>2, <2>2 DEF ClosedLeavesNobodyWaiting, ClosedByOthers, InFlight
    <3>2. u # t
      BY <1>2, <2>2, <3>1
    <3> QED  BY <3>1, <3>2
  <2> QED  BY <1>2, <2>1, <2>2 DEF ClosedLeavesNobodyWaiting, InFlight
<1> QED  BY <1>1, <1>2

LEMMA RouteTurnClosed ==
  ASSUME OwnershipInv, NEW t \in Turn, RouteTurn(t)
  PROVE  TurnsInv' /\ SeenClosedInv' /\ ClosedLeavesNobodyWaiting'
<1>1. /\ turn[t].created = 0 /\ turn[t].pc = "idle"
      /\ ~turn[t].confirms /\ ~turn[t].escalates
  BY DEF OwnershipInv, TurnsInv, RouteTurn
<1>2. /\ turn'[t].created = 0 /\ turn'[t].pc \in {"answered", "thinking"}
      /\ turn'[t].pc = "thinking" => ~turn'[t].confirms /\ ~turn'[t].escalates
      /\ \A u \in Turn \ {t} : turn'[u] = turn[u]
  BY <1>1 DEF RouteTurn, OwnershipInv, TypeOK, TurnState
<1>3. TurnsInv'
  BY <1>1, <1>2 DEF OwnershipInv, TurnsInv, RouteTurn
<1>4. OpenHandoffs' = OpenHandoffs /\ closer' = closer
  BY DEF RouteTurn, OpenHandoffs
<1>5. SeenClosedInv' /\ ClosedLeavesNobodyWaiting'
  <2>1. turn' \in [Turn -> TurnState]
    BY RouteTurnType DEF OwnershipInv, TypeOK
  <2> QED  BY <1>1, <1>2, <1>4, <2>1, ClosedIsStableFor DEF OwnershipInv
<1> QED  BY <1>3, <1>5

LEMMA RunAgentClosed ==
  ASSUME OwnershipInv, NEW t \in Turn, RunAgent(t)
  PROVE  TurnsInv' /\ SeenClosedInv' /\ ClosedLeavesNobodyWaiting'
<1>1. /\ turn[t].created = 0 /\ turn[t].pc = "thinking"
      /\ ~turn[t].confirms /\ ~turn[t].escalates
  BY DEF OwnershipInv, TurnsInv, RunAgent
<1>2. /\ turn'[t].pc = "answered" /\ ~turn'[t].confirms
      /\ \A u \in Turn \ {t} : turn'[u] = turn[u]
  BY <1>1 DEF RunAgent, OwnershipInv, TypeOK, TurnState
<1>3. \/ handoffs' = handoffs /\ turn'[t].created = 0
      \/ /\ handoffs' = Append(handoffs, "pending")
         /\ turn'[t].escalates /\ turn'[t].created = Len(handoffs) + 1
  BY <1>1 DEF RunAgent, OwnershipInv, TypeOK, TurnState
<1>4. TurnsInv'
  <2>1. Len(handoffs') >= Len(handoffs) /\ turn'[t].created <= Len(handoffs')
    BY <1>3 DEF OwnershipInv, TypeOK
  <2>2. \A u \in Turn : turn[u].created \in Nat /\ Len(handoffs) \in Nat /\ Len(handoffs') \in Nat
    BY <1>3 DEF OwnershipInv, TypeOK, TurnState
  <2> QED  BY <1>2, <1>3, <2>1, <2>2 DEF OwnershipInv, TurnsInv
<1>5. \A i \in OpenHandoffs' : i \in OpenHandoffs \/ i = turn'[t].created
  BY <1>3 DEF OwnershipInv, TypeOK, OpenHandoffs
<1>6. ClosedByOthers' <=> ClosedByOthers
  BY DEF RunAgent, ClosedByOthers
<1>7. ClosedLeavesNobodyWaiting'
  <2> SUFFICES ASSUME ClosedByOthers', NEW i \in OpenHandoffs'
               PROVE  InFlight(i)'
    BY DEF ClosedLeavesNobodyWaiting, ClosedByOthers
  <2>1. CASE i = turn'[t].created
    BY <1>2, <2>1 DEF InFlight
  <2>2. CASE i \in OpenHandoffs
    <3>1. PICK u \in Turn : turn[u].created = i /\ turn[u].pc \in {"answered", "loaded"}
      BY <1>6, <2>2 DEF OwnershipInv, ClosedLeavesNobodyWaiting, ClosedByOthers, InFlight
    <3>2. u # t
      BY <1>1, <3>1
    <3> QED  BY <1>2, <3>1, <3>2 DEF InFlight
  <2> QED  BY <1>5, <2>1, <2>2
<1>8. SeenClosedInv'
  <2> SUFFICES ASSUME ClosedByOthers', NEW u \in Turn,
                      turn'[u].pc = "loaded", turn'[u].created \in OpenHandoffs'
               PROVE  turn'[u].status = "resolved"
    BY DEF SeenClosedInv
  <2>1. u # t /\ turn'[u] = turn[u]
    BY <1>2
  <2>2. turn[u].created \in OpenHandoffs
    <3>1. CASE handoffs' = handoffs
      BY <2>1, <3>1 DEF OpenHandoffs
    <3>2. CASE turn'[t].created = Len(handoffs) + 1 /\ handoffs' = Append(handoffs, "pending")
      <4>1. turn[u].created # Len(handoffs) + 1
        BY DEF OwnershipInv, TurnsInv, TypeOK, TurnState
      <4> QED  BY <1>5, <2>1, <3>2, <4>1
    <3> QED  BY <1>3, <3>1, <3>2
  <2> QED  BY <1>6, <2>1, <2>2 DEF OwnershipInv, SeenClosedInv
<1> QED  BY <1>4, <1>7, <1>8

LEMMA LoadConversationClosed ==
  ASSUME OwnershipInv, NEW t \in Turn, LoadConversation(t)
  PROVE  TurnsInv' /\ SeenClosedInv' /\ ClosedLeavesNobodyWaiting'
<1>1. /\ turn[t].pc = "answered" /\ turn'[t].pc = "loaded"
      /\ turn'[t].created = turn[t].created /\ turn'[t].status = conv.status
      /\ turn'[t].confirms = turn[t].confirms /\ turn'[t].escalates = turn[t].escalates
      /\ \A u \in Turn \ {t} : turn'[u] = turn[u]
  BY DEF LoadConversation, OwnershipInv, TypeOK, TurnState
<1>2. OpenHandoffs' = OpenHandoffs /\ closer' = closer /\ handoffs' = handoffs
  BY DEF LoadConversation, OpenHandoffs
<1>3. TurnsInv'
  BY <1>1, <1>2 DEF OwnershipInv, TurnsInv
<1>4. SeenClosedInv'
  BY <1>1, <1>2 DEF OwnershipInv, SeenClosedInv, ClosedByOthers, CloserInv
<1>5. ClosedLeavesNobodyWaiting'
  <2> SUFFICES ASSUME ClosedByOthers, NEW i \in OpenHandoffs
               PROVE  InFlight(i)'
    BY <1>2 DEF ClosedLeavesNobodyWaiting, ClosedByOthers
  <2>1. PICK u \in Turn : turn[u].created = i /\ turn[u].pc \in {"answered", "loaded"}
    BY DEF OwnershipInv, ClosedLeavesNobodyWaiting, ClosedByOthers, InFlight
  <2> QED  BY <1>1, <2>1 DEF InFlight
<1> QED  BY <1>3, <1>4, <1>5

\* The turn's own handoff is either closed, or the update opens the
\* conversation again.
LEMMA PersistExchangeClosed ==
  ASSUME OwnershipInv, NEW t \in Turn, PersistExchange(t)
  PROVE  TurnsInv' /\ SeenClosedInv' /\ ClosedLeavesNobodyWaiting'
<1>1. /\ turn[t].pc = "loaded"
      /\ turn'[t].pc = "persisted" /\ turn'[t].created = 0
      /\ \A u \in Turn \ {t} : turn'[u] = turn[u]
      /\ turn' \in [Turn -> TurnState]
  BY PersistExchangeType DEF PersistExchange, OwnershipInv, TypeOK, TurnState, IdleTurn
<1>2. /\ conv'.status = Written(NextStatus(t), turn[t].status, conv.status)
      /\ handoffs' = handoffs /\ OpenHandoffs' = OpenHandoffs
      /\ ClosedBy("customer")
  BY DEF PersistExchange, OwnershipInv, TypeOK, Row, OpenHandoffs
<1>3. TurnsInv'
  BY <1>1, <1>2 DEF OwnershipInv, TurnsInv, TypeOK
<1>4. CASE ClosedByOthers'
  <2>1. closer' = closer /\ conv'.status = "resolved"
    BY <1>2, <1>4, HistoryStep DEF ClosedByOthers
  <2>2. turn[t].created \notin OpenHandoffs
    <3> SUFFICES ASSUME turn[t].created \in OpenHandoffs PROVE FALSE
      OBVIOUS
    <3>1. turn[t].created # 0
      BY DEF OpenHandoffs, OwnershipInv, TypeOK
    <3>2. turn[t].status = "resolved"
      BY <1>1, <1>4, <2>1 DEF OwnershipInv, SeenClosedInv, ClosedByOthers
    <3>3. Queues(t)
      BY <3>1, <3>2 DEF OwnershipInv, TurnsInv, Reopens, Queues
    <3>4. conv'.status = "waiting_human"
      BY <1>2, <3>2, <3>3 DEF Written, NextStatus
    <3> QED  BY <2>1, <3>4
  <2> QED  BY <1>1, <1>2, <1>3, <2>1, <2>2, ClosedIsStableFor DEF OwnershipInv
<1>5. CASE ~ClosedByOthers'
  BY <1>1, <1>3, <1>5, ClosedIsStableFor DEF OwnershipInv
<1> QED  BY <1>4, <1>5

LEMMA DirectHandoffClosed ==
  ASSUME OwnershipInv, NEW t \in Turn, DirectHandoff(t) \/ OfflineForm(t)
  PROVE  TurnsInv' /\ SeenClosedInv' /\ ClosedLeavesNobodyWaiting'
<1>1. /\ turn'[t].pc = "done" /\ turn'[t].created = turn[t].created
      /\ turn'[t].confirms = turn[t].confirms /\ turn'[t].escalates = turn[t].escalates
      /\ \A u \in Turn \ {t} : turn'[u] = turn[u]
  BY DEF DirectHandoff, OfflineForm, OwnershipInv, TypeOK, TurnState
<1>2. ~ClosedByOthers'
  <2>1. conv'.status = "waiting_human"
    BY DEF DirectHandoff, OfflineForm, OwnershipInv, TypeOK, Row
  <2> QED  BY <2>1, HistoryStep DEF DirectHandoff, OfflineForm, ClosedByOthers
<1>3. Len(handoffs') \in Nat /\ Len(handoffs) \in Nat /\ Len(handoffs') >= Len(handoffs)
  BY DEF DirectHandoff, OfflineForm, OwnershipInv, TypeOK
<1>4. \A u \in Turn : turn[u].created \in Nat
  BY DEF OwnershipInv, TypeOK, TurnState
<1>5. TurnsInv'
  BY <1>1, <1>3, <1>4 DEF OwnershipInv, TurnsInv
<1> QED  BY <1>2, <1>5 DEF SeenClosedInv, ClosedLeavesNobodyWaiting, ClosedByOthers

\* Closing a handoff closes it for good, and none is lost.
LEMMA OperatorKeepsTurns ==
  ASSUME OwnershipInv, turn' = turn,
         Len(handoffs') \in Nat, Len(handoffs') >= Len(handoffs)
  PROVE  TurnsInv'
<1>1. \A u \in Turn : turn[u].created \in Nat /\ Len(handoffs) \in Nat
  BY DEF OwnershipInv, TypeOK, TurnState
<1> QED  BY <1>1 DEF OwnershipInv, TurnsInv

LEMMA OperatorClosed ==
  ASSUME OwnershipInv, NEW a \in Agent, NEW k \in Key,
         \/ TakeOver(a, k) \/ ReleaseToAI(a, k) \/ Resolve(a, k) \/ MarkRead(a, k)
         \/ SendAgentMessage(a, k) \/ UpdateRouting(a, k) \/ CreateManualHandoff(a, k)
  PROVE  TurnsInv' /\ SeenClosedInv' /\ ClosedLeavesNobodyWaiting'
<1>0. conv \in Row /\ handoffs \in Seq(HandoffStatus)
  BY DEF OwnershipInv, TypeOK
<1> USE DEF Moved
<1>1. turn' = turn
  BY DEF TakeOver, ReleaseToAI, Resolve, MarkRead, SendAgentMessage, UpdateRouting,
         CreateManualHandoff
<1>2. Len(handoffs') \in Nat /\ Len(handoffs') >= Len(handoffs)
  <2>1. CASE TakeOver(a, k) \/ Resolve(a, k)
    <3>1. \E f : handoffs' = [i \in 1..Len(handoffs) |-> f[i]]
      <4>1. handoffs' = [i \in 1..Len(handoffs) |-> handoffs'[i]]
        BY <1>0, <2>1 DEF TakeOver, Resolve
      <4> QED  BY <4>1
    <3>2. Len(handoffs') = Len(handoffs)
      BY <1>0, <3>1
    <3> QED  BY <1>0, <3>2
  <2>2. CASE ~(TakeOver(a, k) \/ Resolve(a, k))
    BY <1>0, <2>2 DEF ReleaseToAI, MarkRead, SendAgentMessage, UpdateRouting,
                      CreateManualHandoff
  <2> QED  BY <2>1, <2>2
<1>3. TurnsInv'
  BY <1>1, <1>2, OperatorKeepsTurns
<1>4. \/ ~ClosedByOthers'
      \/ OpenHandoffs' = {}
      \/ closer' = closer /\ OpenHandoffs' \subseteq OpenHandoffs
  <2>1. CASE TakeOver(a, k) \/ ReleaseToAI(a, k)
    <3>1. conv'.status = "open"
      BY <1>0, <2>1 DEF TakeOver, ReleaseToAI, Row
    <3> QED  BY <2>1, <3>1, HistoryStep DEF TakeOver, ReleaseToAI, ClosedByOthers
  <2>2. CASE Resolve(a, k)
    BY <1>0, <2>2 DEF Resolve, OpenHandoffs
  <2>3. CASE MarkRead(a, k)
    BY <2>3, HistoryStep DEF MarkRead, OpenHandoffs, ClosedByOthers
  <2>4. CASE SendAgentMessage(a, k)
    BY <2>4 DEF SendAgentMessage, OpenHandoffs
  <2>5. CASE UpdateRouting(a, k)
    <3>1. conv'.status = conv.status \/ conv'.status = "open"
      BY <1>0, <2>5 DEF UpdateRouting, Row
    <3>2. closer' \in {"none", closer}
      BY <2>5, <3>1, HistoryStep DEF UpdateRouting
    <3> QED  BY <2>5, <3>2 DEF UpdateRouting, OpenHandoffs, ClosedByOthers
  <2>6. CASE CreateManualHandoff(a, k)
    <3>1. CASE OpenHandoffs # {}
      BY <2>6, <3>1 DEF CreateManualHandoff, OpenHandoffs
    <3>2. CASE OpenHandoffs = {}
      <4>1. conv'.status = "waiting_human" /\ ClosedBy("operator")
        BY <1>0, <2>6, <3>2 DEF CreateManualHandoff, Row
      <4> QED  BY <4>1, HistoryStep DEF ClosedByOthers
    <3> QED  BY <3>1, <3>2
  <2> QED  BY <2>1, <2>2, <2>3, <2>4, <2>5, <2>6
<1> QED  BY <1>1, <1>3, <1>4, ClosedIsStable DEF OwnershipInv

\* Without a handoff there is nobody to leave waiting.
LEMMA AutoResolveClosed ==
  ASSUME OwnershipInv, AutoResolve
  PROVE  TurnsInv' /\ SeenClosedInv' /\ ClosedLeavesNobodyWaiting'
<1>1. OpenHandoffs' = {} /\ turn' = turn
  BY DEF AutoResolve, OpenHandoffs
<1>2. TurnsInv'
  BY DEF AutoResolve, OwnershipInv, TurnsInv
<1> QED  BY <1>1, <1>2, ClosedIsStable DEF OwnershipInv

LEMMA OwnershipInductive ==
  ASSUME OwnershipInv, [Next]_vars
  PROVE  OwnershipInv'
<1>1. TypeOK' /\ CloserInv'
  BY NextType, HistoryIsTrue DEF OwnershipInv
<1>2. ASSUME NEW t \in Turn,
             RouteTurn(t) \/ RunAgent(t) \/ LoadConversation(t)
               \/ PersistExchange(t) \/ DirectHandoff(t) \/ OfflineForm(t)
      PROVE  TurnsInv' /\ SeenClosedInv' /\ ClosedLeavesNobodyWaiting'
  BY <1>2, RouteTurnClosed, RunAgentClosed, LoadConversationClosed, PersistExchangeClosed,
     DirectHandoffClosed
<1>3. ASSUME NEW a \in Agent, NEW k \in Key,
             \/ TakeOver(a, k) \/ ReleaseToAI(a, k) \/ Resolve(a, k) \/ MarkRead(a, k)
             \/ SendAgentMessage(a, k) \/ UpdateRouting(a, k) \/ CreateManualHandoff(a, k)
      PROVE  TurnsInv' /\ SeenClosedInv' /\ ClosedLeavesNobodyWaiting'
  BY <1>3, OperatorClosed
<1>4. CASE AutoResolve
  BY <1>1, <1>4, AutoResolveClosed DEF OwnershipInv
<1>5. CASE UNCHANGED <<closer, handoffs, turn>>
  BY <1>1, <1>5 DEF OwnershipInv, TurnsInv, SeenClosedInv, ClosedLeavesNobodyWaiting,
                    ClosedByOthers, OpenHandoffs, InFlight
<1>6. ASSUME NEW a \in Agent,
             \/ EndRequest(a)
             \/ \E kind \in {"take", "release", "resolve", "read", "reply", "route"},
                   target \in Agent \cup {NoAgent} : ReadWorkspace(a, kind, target)
      PROVE  UNCHANGED <<closer, handoffs, turn>>
  BY <1>6 DEF EndRequest, ReadWorkspace
<1>7. UNCHANGED vars => UNCHANGED <<closer, handoffs, turn>>
  BY DEF vars
<1> QED  BY <1>1, <1>2, <1>3, <1>4, <1>5, <1>6, <1>7 DEF Next, OwnershipInv

\* Whatever turns, rules, marks and operators run next to the closing, every
\* handoff open in a conversation closed by an operator or by inactivity belongs to a
\* turn that is about to queue the conversation again.
THEOREM NobodyIsLeftWaiting == Spec => []ClosedLeavesNobodyWaiting
<1>1. Init => OwnershipInv
  <2> SUFFICES ASSUME Init PROVE OwnershipInv
    OBVIOUS
  <2>1. closer = "none"
    BY DEF Init
  <2>2. TurnsInv
    <3>1. Len(handoffs) \in Nat
      BY InitType DEF TypeOK
    <3> QED  BY <3>1 DEF Init, TurnsInv, IdleTurn
  <2> QED  BY <2>1, <2>2, InitType DEF OwnershipInv, CloserInv, SeenClosedInv,
                                       ClosedLeavesNobodyWaiting, ClosedByOthers
<1>2. OwnershipInv /\ [Next]_vars => OwnershipInv'
  BY OwnershipInductive
<1>3. OwnershipInv => ClosedLeavesNobodyWaiting
  BY DEF OwnershipInv
<1> QED  BY <1>1, <1>2, <1>3, PTL DEF Spec
=============================================================================
