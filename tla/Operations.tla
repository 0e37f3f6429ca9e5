------------------------------ MODULE Operations ------------------------------
(***************************************************************************)
(* OperationsService: orders and inbox messages, which are the metadata of *)
(* customer events.  A request reads the metadata of its event, merges its *)
(* changes into the copy and writes the copy back; between two of its      *)
(* calls every other request may run, and any call may fail, which ends    *)
(* the request where it is: no handler here undoes what it has done.       *)
(*                                                                         *)
(* The customer that an event belongs to is upserted before the event and  *)
(* is left out; so are amounts, items and texts.                           *)
(*                                                                         *)
(* The operators named Bug... are faulty variants of definitions after     *)
(* them; no specification uses them.                                       *)
(***************************************************************************)
EXTENDS Onboarding, Sequences

CONSTANTS
    Desks,          \* requests in progress at the same time
    Staff,          \* assignees
    ProviderStatus, \* what a message provider reports
    Asks,           \* what the requests may ask for
    MaxOrders,      \* bound on the orders
    MaxMessages     \* bound on the messages

VARIABLES
    orders,     \* the PURCHASE events
    messages,   \* the CUSTOM events
    desk        \* what each request is doing

opsVars == <<checklist, orders, messages, desk>>

OrderStatus == {"PENDING", "CONFIRMED", "FULFILLED", "CANCELED"}
OperationalState == {"UNASSIGNED", "QUEUED", "PROCESSING", "READY_FOR_DELIVERY",
                     "COMPLETED"}
Order == [status : OrderStatus, state : OperationalState,
          assignee : Staff \cup {"nobody"}, source : 0..MaxMessages]
Message == [resolved : BOOLEAN, provider : ProviderStatus \cup {"none"},
            order : 0..MaxOrders]

ORDER_STATUS_FLOW ==
    [s \in OrderStatus |->
        CASE s = "PENDING" -> {"CONFIRMED", "CANCELED"}
          [] s = "CONFIRMED" -> {"FULFILLED", "CANCELED"}
          [] OTHER -> {}]

NewOrder(assignee, source) ==
    [status |-> "PENDING", assignee |-> assignee, source |-> source,
     state |-> IF assignee = "nobody" THEN "UNASSIGNED" ELSE "QUEUED"]
NewMessage == [resolved |-> FALSE, provider |-> "none", order |-> 0]

(* What a request was asked. "keep" is an option that was not given.       *)
CreateInput == [assignee : Staff \cup {"nobody"}, source : 0..MaxMessages]
StatusInput == [order : 1..MaxOrders, status : OrderStatus,
                state : OperationalState \cup {"keep"}, assignee : Staff \cup {"keep"}]
ConvertInput == [message : 1..MaxMessages, assignee : Staff \cup {"nobody"}]
ResolveInput == [message : 1..MaxMessages, resolved : BOOLEAN]
ReconcileInput == [message : 1..MaxMessages, provider : ProviderStatus]
StepInput == [step : Steps, completed : BOOLEAN]
Input == CreateInput \cup StatusInput \cup ConvertInput \cup ResolveInput
         \cup ReconcileInput \cup StepInput

ASSUME OperationsAssumption ==
    /\ MaxOrders \in Nat /\ MaxMessages \in Nat
    /\ "none" \notin ProviderStatus
    /\ {"nobody", "keep"} \cap Staff = {}
    /\ Asks \subseteq Input

(* copy is the metadata that the request read, seen the checklist, made    *)
(* the order it inserted.                                                  *)
Op == {"create", "status", "assign", "convert", "resolve", "reconcile", "step"}
Pc == {"idle", "gate", "find", "insert", "write", "mark", "save", "progress",
       "link"}
Desk == [pc : Pc, op : Op \cup {None}, input : Input \cup {None},
         copy : Order \cup Message \cup {None},
         seen : Checklist \cup {None}, made : 0..MaxOrders]
IdleDesk == [pc |-> "idle", op |-> None, input |-> None, copy |-> None,
             seen |-> None, made |-> 0]

(* Types; see the properties below for what they do not say. *)
OpsTypeOK ==
    /\ OnboardingTypeOK
    /\ orders \in Seq(Order) /\ Len(orders) <= MaxOrders
    /\ messages \in Seq(Message) /\ Len(messages) <= MaxMessages
    /\ desk \in [Desks -> Desk]

OpsInit ==
    /\ OnboardingInit
    /\ orders = <<>>
    /\ messages = <<>>
    /\ desk = [r \in Desks |-> IdleDesk]

-----------------------------------------------------------------------------

Goes(r, pc) == desk' = [desk EXCEPT ![r].pc = pc]
Ends(r) == desk' = [desk EXCEPT ![r] = IdleDesk]
Starts(r, op, pc, input) ==
    /\ desk[r].pc = "idle"
    /\ desk' = [desk EXCEPT ![r] = [IdleDesk EXCEPT !.pc = pc, !.op = op, !.input = input]]
    /\ UNCHANGED <<checklist, orders, messages>>

(* The requests of OperationsController and of OnboardingController.       *)
AskCreateOrder(r) ==
    \E input \in Asks \cap CreateInput :
        /\ input.source <= Len(messages)
        /\ Starts(r, "create", "insert", input)
AskUpdateOrderStatus(r) ==
    \E input \in Asks \cap StatusInput :
        /\ input.order <= Len(orders)
        /\ Starts(r, "status", "find", input)
AskAssignOrder(r) ==
    \E order \in 1..Len(orders), assignee \in Staff :
        Starts(r, "assign", "gate", [order |-> order, status |-> "CONFIRMED",
                                     state |-> "QUEUED", assignee |-> assignee])
AskCreateOrderFromMessage(r) ==
    \E input \in Asks \cap ConvertInput :
        /\ input.message <= Len(messages)
        /\ Starts(r, "convert", "gate", input)
AskResolveMessage(r) ==
    \E input \in Asks \cap ResolveInput :
        /\ input.message <= Len(messages)
        /\ Starts(r, "resolve", "find", input)
AskReconcileProviderEvent(r) ==
    \E input \in Asks \cap ReconcileInput :
        /\ input.message <= Len(messages)
        /\ Starts(r, "reconcile", "find", input)

(* PATCH /onboarding/steps/:step, and the milestones of the services that  *)
(* are not in this module (connecting an integration).                     *)
AskUpdateStep(r) ==
    \E input \in Asks \cap StepInput : Starts(r, "step", "mark", input)

(* createMessage: one INSERT. *)
CreateMessage ==
    /\ Len(messages) < MaxMessages
    /\ messages' = Append(messages, NewMessage)
    /\ UNCHANGED <<checklist, orders, desk>>

-----------------------------------------------------------------------------

(* assertAdvancedWorkflowEnabled: getProgress, and a 403 unless the gate   *)
(* is open.  Without a row getProgress makes the default one.              *)
PassGate(r) ==
    /\ desk[r].pc = "gate"
    /\ RowFound
    /\ IF GateOpen(checklist) THEN Goes(r, "find") ELSE Ends(r)
    /\ UNCHANGED <<checklist, orders, messages>>

MakeRow(r) ==
    /\ desk[r].pc \in {"gate", "mark"}
    /\ InsertRow
    /\ UNCHANGED <<orders, messages, desk>>

BugAnyStatus(from, to) == TRUE

(* The first half of updateOrderStatus: the order is read, and the status  *)
(* that is asked for is checked against the one that was read.             *)
Allowed(from, to) == from = to \/ to \in ORDER_STATUS_FLOW[from]
FindOrder(r) ==
    LET d == desk[r]
        order == orders[d.input.order]
    IN  /\ d.pc = "find" /\ d.op \in {"status", "assign"}
        /\ IF Allowed(order.status, d.input.status)
           THEN desk' = [desk EXCEPT ![r].pc = "write", ![r].copy = order]
           ELSE Ends(r)
        /\ UNCHANGED <<checklist, orders, messages>>

BugKeepIsWritten(copy, input) ==
    [copy EXCEPT !.status = input.status, !.state = input.state]

(* The second half: the copy with the changes replaces the metadata. *)
MergedOrder(copy, input) ==
    [copy EXCEPT !.status = input.status,
                 !.state = IF input.state = "keep" THEN @ ELSE input.state,
                 !.assignee = IF input.assignee = "keep" THEN @ ELSE input.assignee]
WriteOrder(r) ==
    LET d == desk[r]
    IN  /\ d.pc = "write" /\ d.op \in {"status", "assign"}
        /\ orders' = [orders EXCEPT ![d.input.order] = MergedOrder(d.copy, d.input)]
        /\ Ends(r)
        /\ UNCHANGED <<checklist, messages>>

(* createOrder: the INSERT, on its way to the milestone. *)
InsertOrder(r) ==
    LET d == desk[r]
        source == IF d.op = "convert" THEN d.input.message ELSE d.input.source
    IN  /\ d.pc = "insert"
        /\ Len(orders) < MaxOrders
        /\ orders' = Append(orders, NewOrder(d.input.assignee, source))
        /\ desk' = [desk EXCEPT ![r] =
                IF d.op = "convert" THEN [d EXCEPT !.pc = "mark", !.made = Len(orders) + 1]
                ELSE [d EXCEPT !.pc = "mark", !.input = None]]
        /\ UNCHANGED <<checklist, messages>>

-----------------------------------------------------------------------------

(* resolveMessage, reconcileProviderEvent and createOrderFromMessage read  *)
(* the message; the last one makes the order before it writes it back.     *)
FindMessage(r) ==
    LET d == desk[r]
    IN  /\ d.pc = "find" /\ d.op \in {"resolve", "reconcile", "convert"}
        /\ desk' = [desk EXCEPT ![r].copy = messages[d.input.message],
                                ![r].pc = IF d.op = "convert" THEN "insert" ELSE "write"]
        /\ UNCHANGED <<checklist, orders, messages>>

BugMetadataReplaced(copy, op, input) ==
    IF op = "resolve" THEN [NewMessage EXCEPT !.resolved = input.resolved]
    ELSE [NewMessage EXCEPT !.provider = input.provider]

MergedMessage(copy, op, input) ==
    IF op = "resolve" THEN [copy EXCEPT !.resolved = input.resolved]
    ELSE [copy EXCEPT !.provider = input.provider]
WriteMessage(r) ==
    LET d == desk[r]
    IN  /\ d.pc = "write" /\ d.op \in {"resolve", "reconcile"}
        /\ messages' = [messages EXCEPT ![d.input.message] =
                            MergedMessage(d.copy, d.op, d.input)]
        /\ IF d.op = "resolve" /\ d.input.resolved
           THEN desk' = [desk EXCEPT ![r] = [IdleDesk EXCEPT !.pc = "mark", !.op = d.op]]
           ELSE Ends(r)
        /\ UNCHANGED <<checklist, orders>>

BugNewestLinked(r) ==
    LET d == desk[r]
    IN  /\ d.pc = "link"
        /\ messages' = [messages EXCEPT ![d.input.message] =
                            [d.copy EXCEPT !.order = Len(orders), !.resolved = TRUE]]
        /\ Ends(r)
        /\ UNCHANGED <<checklist, orders>>

(* The end of createOrderFromMessage: the message as it was read before    *)
(* the order was made, linked and resolved.                                *)
LinkMessage(r) ==
    LET d == desk[r]
    IN  /\ d.pc = "link"
        /\ messages' = [messages EXCEPT ![d.input.message] =
                            [d.copy EXCEPT !.order = d.made, !.resolved = TRUE]]
        /\ Ends(r)
        /\ UNCHANGED <<checklist, orders>>

-----------------------------------------------------------------------------

(* The milestone that a request marks, and the value it writes. *)
Milestone(d) ==
    CASE d.op \in {"create", "convert"} -> "create_first_order"
      [] d.op = "resolve" -> "resolve_first_message"
      [] d.op = "step" -> d.input.step
MarksDone(d) == d.op = "step" => d.input.completed

(* updateStep reads the checklist, writes it back, and calls getProgress,  *)
(* whose reads change nothing but may refuse.                              *)
ReadChecklist(r) ==
    /\ desk[r].pc = "mark"
    /\ RowFound
    /\ desk' = [desk EXCEPT ![r].pc = "save", ![r].seen = checklist]
    /\ UNCHANGED <<checklist, orders, messages>>

SaveChecklist(r) ==
    LET d == desk[r]
    IN  /\ d.pc = "save"
        /\ SaveStep(d.seen, Milestone(d), MarksDone(d))
        /\ desk' = [desk EXCEPT ![r].pc = "progress", ![r].seen = None]
        /\ UNCHANGED <<orders, messages>>

ReadProgress(r) ==
    LET d == desk[r]
    IN  /\ d.pc = "progress"
        /\ IF d.op = "convert" THEN Goes(r, "link") ELSE Ends(r)
        /\ UNCHANGED <<checklist, orders, messages>>

(* A call fails, assertFeatureAccess finds no subscription, the process    *)
(* restarts: the request ends, and what it has written stays.              *)
GivesUp(r) ==
    /\ desk[r].pc # "idle"
    /\ Ends(r)
    /\ UNCHANGED <<checklist, orders, messages>>

OpsStep(r) ==
    \/ PassGate(r) \/ MakeRow(r)
    \/ FindOrder(r) \/ WriteOrder(r) \/ InsertOrder(r)
    \/ FindMessage(r) \/ WriteMessage(r) \/ LinkMessage(r)
    \/ ReadChecklist(r) \/ SaveChecklist(r) \/ ReadProgress(r)
    \/ GivesUp(r)

OpsAsk(r) ==
    \/ AskCreateOrder(r) \/ AskUpdateOrderStatus(r) \/ AskAssignOrder(r)
    \/ AskCreateOrderFromMessage(r) \/ AskResolveMessage(r)
    \/ AskReconcileProviderEvent(r) \/ AskUpdateStep(r)

OpsNext == CreateMessage \/ \E r \in Desks : OpsAsk(r) \/ OpsStep(r)

OpsSpec == OpsInit /\ [][OpsNext]_opsVars

-----------------------------------------------------------------------------
(* Safety *)

(* An order that a message is linked to was made from that message         *)
(* (operations.service.ts:498-522), whichever requests overlapped between  *)
(* the INSERT of the order and the UPDATE of the message: of two           *)
(* conversions each links its own message to its own order.  (Nothing      *)
(* keeps a message from being converted twice; it names its last link.)    *)
LinkedBothWays ==
    \A m \in DOMAIN messages : messages[m].order # 0 =>
        /\ messages[m].order \in DOMAIN orders
        /\ orders[messages[m].order].source = m

(* The status of an order leaves ORDER_STATUS_FLOW only when the request   *)
(* that writes it validated a copy that is no longer what is stored        *)
(* (operations.service.ts:201-227).                                        *)
FlowUnlessStale ==
    [][\A o \in DOMAIN orders : orders'[o].status # orders[o].status =>
           \/ orders'[o].status \in ORDER_STATUS_FLOW[orders[o].status]
           \/ \E r \in Desks : /\ desk[r].pc = "write"
                              /\ desk[r].op \in {"status", "assign"}
                              /\ desk[r].input.order = o
                              /\ desk[r].copy # orders[o]]_opsVars

(* A resolution, a provider status and a link of a message are changed by  *)
(* the requests that are for them, and otherwise only by a request whose   *)
(* copy of the message is stale (operations.service.ts:422, 510, 559).     *)
WritesMessage(r, m, ops) ==
    /\ desk[r].pc \in {"write", "link"} /\ desk[r].op \in ops
    /\ desk[r].input.message = m
NothingUndoneUnlessStale ==
    [][\A m \in DOMAIN messages :
           LET old == messages[m]
               new == messages'[m]
           IN  \/ \E r \in Desks :
                     /\ WritesMessage(r, m, {"resolve", "reconcile", "convert"})
                     /\ desk[r].copy # old
               \/ /\ new.resolved # old.resolved =>
                        \E r \in Desks : WritesMessage(r, m, {"resolve", "convert"})
                  /\ new.provider # old.provider =>
                        \E r \in Desks : WritesMessage(r, m, {"reconcile"})
                  /\ new.order # old.order =>
                        \E r \in Desks : WritesMessage(r, m, {"convert"})]_opsVars
===============================================================================
