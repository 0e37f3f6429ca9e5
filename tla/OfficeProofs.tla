----------------------------- MODULE OfficeProofs -----------------------------
(***************************************************************************)
(* Theorems about what is entered and filed in a workspace, for any requests*)
(* that overlap and fail.  Operations: types, and the links between messages*)
(* and the orders made from them.  Reports: what its rows say was done, for*)
(* any schedules, overlapping ticks and crashes.  Members: accounts, roles *)
(* and settings.  Records: what an import leaves behind.                   *)
(***************************************************************************)
EXTENDS Operations, Reports, Members, Records, FiniteSetTheorems, SequenceTheorems,
        WellFoundedInduction, TLAPS

(***************************************************************************)
(* Operations                                                              *)
(***************************************************************************)

(* A link of message m: none, or to an order that was made from it.        *)
Links(o, m) == o # 0 => o \in DOMAIN orders /\ orders[o].source = m

(* Where a request of each kind may be, and what it then holds: an order   *)
(* it read has the source of what is stored and may take the status that   *)
(* is asked for, a message it read has a link that a message may have.     *)
OnOrder(d) ==
    /\ d.pc \in {"gate", "find", "write"}
    /\ d.input \in StatusInput /\ d.input.order \in DOMAIN orders
    /\ d.pc = "write" => /\ d.copy \in Order /\ d.copy.source = orders[d.input.order].source
                         /\ Allowed(d.copy.status, d.input.status)
OnMessage(d) ==
    /\ d.input \in ResolveInput \cup ReconcileInput \cup ConvertInput
    /\ d.input.message \in DOMAIN messages
    /\ d.pc \notin {"gate", "find"} => d.copy \in Message /\ Links(d.copy.order, d.input.message)
Converts(d) ==
    /\ d.pc \notin {"idle", "write"} /\ d.input \in ConvertInput
    /\ OnMessage(d)
    /\ d.pc \notin {"gate", "find", "insert"} =>
           d.made \in DOMAIN orders /\ orders[d.made].source = d.input.message
DeskFits(d) ==
    /\ d.op \in Op
    /\ d.op \in {"status", "assign"} => OnOrder(d)
    /\ d.op = "create" => /\ d.pc \in {"insert", "mark", "save", "progress"}
                          /\ d.pc = "insert" => d.input \in CreateInput
    /\ d.op = "convert" => Converts(d)
    /\ d.op = "resolve" => \/ d.pc \in {"find", "write"} /\ d.input \in ResolveInput /\ OnMessage(d)
                           \/ d.pc \in {"mark", "save", "progress"}
    /\ d.op = "reconcile" => d.pc \in {"find", "write"} /\ d.input \in ReconcileInput /\ OnMessage(d)
    /\ d.op = "step" => d.pc \in {"mark", "save", "progress"} /\ d.input \in StepInput
    /\ d.pc = "save" => d.seen \in Checklist

OpsInv ==
    /\ OpsTypeOK
    /\ \A r \in Desks : desk[r].pc # "idle" => DeskFits(desk[r])
    /\ LinkedBothWays

LEMMA IdleDeskTyped == IdleDesk \in Desk /\ IdleDesk.pc = "idle"
<1> QED
  BY OperationsAssumption DEF IdleDesk, Desk, Pc

LEMMA OpsInitInv == OpsInit => OpsInv
<1> SUFFICES ASSUME OpsInit PROVE OpsInv
  OBVIOUS
<1>1. OpsTypeOK
  BY IdleDeskTyped, OnboardingAssumption, OperationsAssumption
  DEF OpsInit, OpsTypeOK, OnboardingInit, OnboardingTypeOK, Checklist
<1>2. \A r \in Desks : desk[r].pc = "idle"
  BY IdleDeskTyped DEF OpsInit
<1> QED
  BY <1>1, <1>2 DEF OpsInit, OpsInv, LinkedBothWays

(***************************************************************************)
(* What every step keeps                                                   *)
(***************************************************************************)

(* Rows are added and changed, but neither deleted nor given a source.     *)
OrdersGrow ==
    /\ DOMAIN orders \subseteq DOMAIN orders' /\ DOMAIN messages \subseteq DOMAIN messages'
    /\ \A o \in DOMAIN orders : orders'[o].source = orders[o].source

LEMMA StillFits ==
  ASSUME OrdersGrow, NEW d, DeskFits(d)
  PROVE  DeskFits(d)'
<1>1. ASSUME NEW o, NEW m, Links(o, m) PROVE Links(o, m)'
  BY <1>1 DEF Links, OrdersGrow
<1>2. OnOrder(d) => OnOrder(d)'
  BY DEF OnOrder, OrdersGrow
<1>3. OnMessage(d) => OnMessage(d)'
  BY <1>1 DEF OnMessage, OrdersGrow
<1>4. Converts(d) => Converts(d)'
  BY <1>3 DEF Converts, OrdersGrow
<1> QED
  BY <1>2, <1>3, <1>4 DEF DeskFits

(* A request goes on to hold d, while the tables grow.                     *)
LEMMA DeskGoesOn ==
  ASSUME OpsInv, OrdersGrow, NEW r \in Desks, NEW d \in Desk,
         desk' = [desk EXCEPT ![r] = d], d.pc # "idle" => DeskFits(d)',
         OnboardingTypeOK',
         orders' \in Seq(Order), Len(orders') <= MaxOrders,
         messages' \in Seq(Message), Len(messages') <= MaxMessages,
         LinkedBothWays'
  PROVE  OpsInv'
<1>1. OpsTypeOK'
  BY DEF OpsInv, OpsTypeOK
<1>2. desk'[r] = d /\ \A q \in Desks \ {r} : desk'[q] = desk[q]
  BY DEF OpsInv, OpsTypeOK
<1>3. ASSUME NEW q \in Desks, desk'[q].pc # "idle" PROVE DeskFits(desk[q])'
  <2>1. PICK e : e = desk'[q]
    OBVIOUS
  <2>2. DeskFits(e)'
    <3>1. CASE q = r
      BY <1>2, <1>3, <2>1, <3>1
    <3>2. CASE q # r
      <4>1. e = desk[q] /\ DeskFits(e)
        BY <1>2, <1>3, <2>1, <3>2 DEF OpsInv
      <4> QED
        BY <4>1, StillFits
    <3> QED
      BY <3>1, <3>2
  <2> QED
    BY <2>1, <2>2
<1> QED
  BY <1>1, <1>3 DEF OpsInv

(* The tables stay as they are.                                            *)
LEMMA OpsTablesKept ==
  ASSUME OpsInv, UNCHANGED <<orders, messages>>
  PROVE  /\ OrdersGrow /\ LinkedBothWays'
         /\ orders' \in Seq(Order) /\ Len(orders') <= MaxOrders
         /\ messages' \in Seq(Message) /\ Len(messages') <= MaxMessages
         /\ \A d : DeskFits(d) => DeskFits(d)'
<1>1. OrdersGrow
  BY DEF OrdersGrow
<1>2. \A d : DeskFits(d) => DeskFits(d)'
  BY <1>1, StillFits
<1> QED
  BY <1>1, <1>2 DEF OpsInv, OpsTypeOK, LinkedBothWays

LEMMA DeskEnds ==
  ASSUME OpsInv, NEW r \in Desks, Ends(r), UNCHANGED <<checklist, orders, messages>>
  PROVE  OpsInv'
<1>1. OnboardingTypeOK'
  BY DEF OpsInv, OpsTypeOK, OnboardingTypeOK
<1> QED
  BY <1>1, IdleDeskTyped, OpsTablesKept, DeskGoesOn DEF Ends

(***************************************************************************)
(* Requests                                                                *)
(***************************************************************************)

LEMMA OpsStartInv ==
  ASSUME OpsInv, NEW r \in Desks, NEW op \in Op, NEW pc \in Pc \ {"idle"}, NEW input \in Input,
         Starts(r, op, pc, input),
         \A d : d.pc = pc /\ d.op = op /\ d.input = input => DeskFits(d)
  PROVE  OpsInv'
<1>1. PICK d : d = [IdleDesk EXCEPT !.pc = pc, !.op = op, !.input = input]
  OBVIOUS
<1>2. d \in Desk /\ d.pc = pc /\ d.op = op /\ d.input = input
  BY <1>1, IdleDeskTyped DEF IdleDesk, Desk
<1>3. desk' = [desk EXCEPT ![r] = d] /\ UNCHANGED <<checklist, orders, messages>>
  BY <1>1 DEF Starts
<1>4. OnboardingTypeOK'
  BY <1>3 DEF OpsInv, OpsTypeOK, OnboardingTypeOK
<1> QED
  BY <1>2, <1>3, <1>4, OpsTablesKept, DeskGoesOn

LEMMA OpsAskInv ==
  ASSUME OpsInv, NEW r \in Desks, OpsAsk(r)
  PROVE  OpsInv'
<1>0. /\ orders \in Seq(Order) /\ Len(orders) <= MaxOrders
      /\ messages \in Seq(Message) /\ Len(messages) <= MaxMessages
      /\ MaxOrders \in Nat /\ MaxMessages \in Nat /\ Asks \subseteq Input
  BY OperationsAssumption DEF OpsInv, OpsTypeOK
<1>1. CASE AskCreateOrder(r)
  <2>1. PICK input \in Asks \cap CreateInput : Starts(r, "create", "insert", input)
    BY <1>1 DEF AskCreateOrder
  <2> QED
    BY <1>0, <2>1, OpsStartInv DEF Op, Pc, DeskFits
<1>2. CASE AskUpdateOrderStatus(r)
  <2>1. PICK input \in Asks \cap StatusInput :
            input.order <= Len(orders) /\ Starts(r, "status", "find", input)
    BY <1>2 DEF AskUpdateOrderStatus
  <2>2. input.order \in DOMAIN orders
    BY <1>0, <2>1 DEF StatusInput
  <2> QED
    BY <1>0, <2>1, <2>2, OpsStartInv DEF Op, Pc, DeskFits, OnOrder
<1>3. CASE AskAssignOrder(r)
  <2>1. PICK order \in 1..Len(orders), assignee \in Staff :
            Starts(r, "assign", "gate", [order |-> order, status |-> "CONFIRMED",
                                         state |-> "QUEUED", assignee |-> assignee])
    BY <1>3 DEF AskAssignOrder
  <2>2. PICK input : input = [order |-> order, status |-> "CONFIRMED",
                              state |-> "QUEUED", assignee |-> assignee]
    OBVIOUS
  <2>3. input \in StatusInput /\ input.order \in DOMAIN orders
    BY <1>0, <2>2 DEF StatusInput, OrderStatus, OperationalState
  <2>4. input \in Input
    BY <2>3 DEF Input
  <2> QED
    BY <2>1, <2>2, <2>3, <2>4, OpsStartInv DEF Op, Pc, DeskFits, OnOrder
<1>4. CASE AskCreateOrderFromMessage(r)
  <2>1. PICK input \in Asks \cap ConvertInput :
            input.message <= Len(messages) /\ Starts(r, "convert", "gate", input)
    BY <1>4 DEF AskCreateOrderFromMessage
  <2>2. input.message \in DOMAIN messages
    BY <1>0, <2>1 DEF ConvertInput
  <2> QED
    BY <1>0, <2>1, <2>2, OpsStartInv DEF Op, Pc, DeskFits, Converts, OnMessage
<1>5. CASE AskResolveMessage(r)
  <2>1. PICK input \in Asks \cap ResolveInput :
            input.message <= Len(messages) /\ Starts(r, "resolve", "find", input)
    BY <1>5 DEF AskResolveMessage
  <2>2. input.message \in DOMAIN messages
    BY <1>0, <2>1 DEF ResolveInput
  <2> QED
    BY <1>0, <2>1, <2>2, OpsStartInv DEF Op, Pc, DeskFits, OnMessage
<1>6. CASE AskReconcileProviderEvent(r)
  <2>1. PICK input \in Asks \cap ReconcileInput :
            input.message <= Len(messages) /\ Starts(r, "reconcile", "find", input)
    BY <1>6 DEF AskReconcileProviderEvent
  <2>2. input.message \in DOMAIN messages
    BY <1>0, <2>1 DEF ReconcileInput
  <2> QED
    BY <1>0, <2>1, <2>2, OpsStartInv DEF Op, Pc, DeskFits, OnMessage
<1>7. CASE AskUpdateStep(r)
  <2>1. PICK input \in Asks \cap StepInput : Starts(r, "step", "mark", input)
    BY <1>7 DEF AskUpdateStep
  <2> QED
    BY <1>0, <2>1, OpsStartInv DEF Op, Pc, DeskFits
<1> QED
  BY <1>1, <1>2, <1>3, <1>4, <1>5, <1>6, <1>7 DEF OpsAsk

LEMMA CreateMessageInv ==
  ASSUME OpsInv, CreateMessage
  PROVE  OpsInv'
<1>0. /\ orders \in Seq(Order) /\ Len(orders) <= MaxOrders
      /\ messages \in Seq(Message) /\ Len(messages) < MaxMessages
      /\ messages' = Append(messages, NewMessage) /\ UNCHANGED <<checklist, orders, desk>>
  BY DEF OpsInv, OpsTypeOK, CreateMessage
<1>1. NewMessage \in Message /\ NewMessage.order = 0
  BY OperationsAssumption DEF NewMessage, Message
<1> HIDE DEF NewMessage
<1>2. /\ messages' \in Seq(Message) /\ Len(messages') = Len(messages) + 1
      /\ DOMAIN messages \subseteq DOMAIN messages'
      /\ \A m \in DOMAIN messages' :
             \/ m \in DOMAIN messages /\ messages'[m] = messages[m]
             \/ messages'[m] = NewMessage
  BY <1>0, <1>1, AppendProperties
<1>3. OpsTypeOK'
  BY <1>0, <1>2, OperationsAssumption DEF OpsInv, OpsTypeOK, OnboardingTypeOK
<1>4. OrdersGrow
  BY <1>0, <1>2 DEF OrdersGrow
<1>5. LinkedBothWays'
  BY <1>0, <1>1, <1>2 DEF OpsInv, LinkedBothWays
<1>6. ASSUME NEW r \in Desks, desk'[r].pc # "idle" PROVE DeskFits(desk[r])'
  <2>1. PICK e : e = desk[r]
    OBVIOUS
  <2>2. DeskFits(e)
    BY <1>0, <1>6, <2>1 DEF OpsInv
  <2>3. DeskFits(e)' /\ e = desk'[r]
    BY <1>0, <1>4, <2>1, <2>2, StillFits
  <2> QED
    BY <2>3
<1> QED
  BY <1>3, <1>5, <1>6 DEF OpsInv

(***************************************************************************)
(* The steps of a request                                                  *)
(***************************************************************************)

(* A request that changes no order and no message.                         *)
LEMMA OpsKeepsTables ==
  ASSUME OpsInv, NEW r \in Desks, NEW d \in Desk, desk' = [desk EXCEPT ![r] = d],
         UNCHANGED <<orders, messages>>, OnboardingTypeOK', DeskFits(d)
  PROVE  OpsInv'
<1> QED
  BY OpsTablesKept, DeskGoesOn

LEMMA DeskMoves ==
  ASSUME OpsInv, NEW r \in Desks, NEW pc \in Pc, Goes(r, pc)
  PROVE  \E d \in Desk : /\ d.pc = pc /\ d.op = desk[r].op
                          /\ d.input = desk[r].input /\ d.copy = desk[r].copy
                          /\ d.seen = desk[r].seen /\ d.made = desk[r].made
                          /\ desk' = [desk EXCEPT ![r] = d]
<1>0. desk[r] \in Desk /\ desk \in [Desks -> Desk]
  BY DEF OpsInv, OpsTypeOK
<1>1. PICK d : d = [desk[r] EXCEPT !.pc = pc]
  OBVIOUS
<1>2. desk' = [desk EXCEPT ![r] = d]
  BY <1>1 DEF Goes
<1> QED
  BY <1>0, <1>1, <1>2 DEF Desk

LEMMA OpsReadInv ==
  ASSUME OpsInv, NEW r \in Desks,
         PassGate(r) \/ MakeRow(r) \/ FindOrder(r) \/ FindMessage(r)
  PROVE  OpsInv'
<1>0. /\ desk[r] \in Desk /\ desk \in [Desks -> Desk]
      /\ desk[r].pc # "idle" => DeskFits(desk[r])
      /\ OnboardingTypeOK
      /\ orders \in Seq(Order) /\ messages \in Seq(Message)
      /\ LinkedBothWays
  BY DEF OpsInv, OpsTypeOK
<1>2. CASE PassGate(r)
  <2>1. CASE Ends(r)
    BY <1>2, <2>1, DeskEnds DEF PassGate
  <2>2. CASE Goes(r, "find")
    <3>1. PICK d \in Desk : /\ d.pc = "find" /\ d.op = desk[r].op
                            /\ d.input = desk[r].input /\ d.copy = desk[r].copy
                            /\ d.seen = desk[r].seen /\ d.made = desk[r].made
                            /\ desk' = [desk EXCEPT ![r] = d]
      BY <2>2, DeskMoves DEF Pc
    <3>2. DeskFits(d)
      BY <1>0, <1>2, <3>1 DEF PassGate, DeskFits, OnOrder, Converts, OnMessage
    <3> QED
      BY <1>0, <1>2, <3>1, <3>2, OpsKeepsTables DEF PassGate, OnboardingTypeOK
  <2> QED
    BY <1>2, <2>1, <2>2 DEF PassGate
<1>3. CASE MakeRow(r)
  <2>1. desk' = [desk EXCEPT ![r] = desk[r]] /\ UNCHANGED <<orders, messages>>
    BY <1>0, <1>3 DEF MakeRow
  <2>2. OnboardingTypeOK'
    BY <1>3 DEF MakeRow, InsertRow, OnboardingTypeOK, DEFAULT_CHECKLIST, Checklist
  <2> QED
    BY <1>0, <1>3, <2>1, <2>2, OpsKeepsTables DEF MakeRow
<1>4. CASE FindOrder(r)
  <2>1. CASE Ends(r)
    BY <1>4, <2>1, DeskEnds DEF FindOrder
  <2>2. CASE ~Ends(r)
    <3>1. PICK d : d = [desk[r] EXCEPT !.pc = "write", !.copy = orders[desk[r].input.order]]
      OBVIOUS
    <3>2. /\ desk' = [desk EXCEPT ![r].pc = "write", ![r].copy = orders[desk[r].input.order]]
          /\ UNCHANGED <<checklist, orders, messages>>
      BY <1>4, <2>2 DEF FindOrder
    <3>3. desk' = [desk EXCEPT ![r] = d]
      BY <1>0, <3>1, <3>2 DEF Desk
    <3>4. desk[r].input.order \in DOMAIN orders /\ orders[desk[r].input.order] \in Order
          /\ desk[r].pc = "find" /\ desk[r].op \in {"status", "assign"} /\ OnOrder(desk[r])
          /\ Allowed(orders[desk[r].input.order].status, desk[r].input.status)
      BY <1>0, <1>4, <2>2 DEF FindOrder, DeskFits, OnOrder
    <3>5. d \in Desk /\ d.pc = "write" /\ d.op = desk[r].op /\ d.input = desk[r].input
          /\ d.copy = orders[desk[r].input.order]
      BY <1>0, <3>1, <3>4 DEF Desk, Pc
    <3>6. OnOrder(d)
      BY <3>4, <3>5 DEF OnOrder
    <3>7. DeskFits(d)
      BY <1>0, <3>4, <3>5, <3>6 DEF DeskFits
    <3> QED
      BY <1>0, <3>2, <3>3, <3>5, <3>7, OpsKeepsTables DEF OnboardingTypeOK
  <2> QED
    BY <2>1, <2>2
<1>5. CASE FindMessage(r)
  <2>1. PICK pc \in {"insert", "write"} : pc = IF desk[r].op = "convert" THEN "insert" ELSE "write"
    OBVIOUS
  <2>2. PICK d : d = [desk[r] EXCEPT !.pc = pc, !.copy = messages[desk[r].input.message]]
    OBVIOUS
  <2>3. /\ desk' = [desk EXCEPT ![r].copy = messages[desk[r].input.message], ![r].pc = pc]
        /\ UNCHANGED <<checklist, orders, messages>>
    BY <1>5, <2>1 DEF FindMessage
  <2>4. desk' = [desk EXCEPT ![r] = d]
    BY <1>0, <2>2, <2>3 DEF Desk
  <2>5. /\ desk[r].input.message \in DOMAIN messages
        /\ messages[desk[r].input.message] \in Message
        /\ Links(messages[desk[r].input.message].order, desk[r].input.message)
        /\ desk[r].pc = "find" /\ desk[r].op \in {"resolve", "reconcile", "convert"}
        /\ OnMessage(desk[r])
    <3>1. desk[r].pc = "find" /\ desk[r].op \in {"resolve", "reconcile", "convert"} /\ OnMessage(desk[r])
      BY <1>0, <1>5 DEF FindMessage, DeskFits, Converts
    <3> QED
      BY <1>0, <3>1 DEF OnMessage, LinkedBothWays, Links
  <2>6. d \in Desk /\ d.pc = pc /\ d.op = desk[r].op /\ d.input = desk[r].input
        /\ d.copy = messages[desk[r].input.message]
    BY <1>0, <2>2, <2>5 DEF Desk, Pc
  <2>7. OnMessage(d)
    BY <2>5, <2>6 DEF OnMessage
  <2>8. DeskFits(d)
    BY <1>0, <2>1, <2>5, <2>6, <2>7 DEF DeskFits, Converts
  <2> QED
    BY <1>0, <2>3, <2>4, <2>6, <2>8, OpsKeepsTables DEF OnboardingTypeOK
<1> QED
  BY <1>2, <1>3, <1>4, <1>5

LEMMA WriteOrderInv ==
  ASSUME OpsInv, NEW r \in Desks, WriteOrder(r)
  PROVE  OpsInv'
<1>0. /\ desk[r].pc = "write" /\ desk[r].op \in {"status", "assign"} /\ OnOrder(desk[r])
      /\ orders \in Seq(Order) /\ Len(orders) <= MaxOrders
      /\ messages \in Seq(Message) /\ Len(messages) <= MaxMessages /\ OnboardingTypeOK
      /\ LinkedBothWays
  BY DEF OpsInv, OpsTypeOK, WriteOrder, DeskFits
<1>1. PICK o \in DOMAIN orders, input \in StatusInput, copy \in Order :
          /\ o = desk[r].input.order /\ input = desk[r].input /\ copy = desk[r].copy
          /\ copy.source = orders[o].source
  BY <1>0 DEF OnOrder
<1>2. PICK order : order = MergedOrder(copy, input)
  OBVIOUS
<1>3. order \in Order /\ order.source = orders[o].source
  BY <1>1, <1>2 DEF MergedOrder, Order, StatusInput
<1>4. orders' = [orders EXCEPT ![o] = order] /\ Ends(r) /\ UNCHANGED <<checklist, messages>>
  BY <1>1, <1>2 DEF WriteOrder
<1>5. orders' \in Seq(Order) /\ Len(orders') = Len(orders) /\ DOMAIN orders' = DOMAIN orders
      /\ \A i \in DOMAIN orders : orders'[i].source = orders[i].source
  BY <1>0, <1>3, <1>4, ExceptSeq
<1>6. OrdersGrow
  BY <1>4, <1>5 DEF OrdersGrow
<1>7. LinkedBothWays'
  BY <1>0, <1>4, <1>5 DEF LinkedBothWays
<1> QED
  BY <1>0, <1>4, <1>5, <1>6, <1>7, IdleDeskTyped, DeskGoesOn DEF Ends, OnboardingTypeOK

LEMMA InsertOrderInv ==
  ASSUME OpsInv, NEW r \in Desks, InsertOrder(r)
  PROVE  OpsInv'
<1>0. /\ desk[r] \in Desk /\ desk[r].pc = "insert" /\ DeskFits(desk[r])
      /\ desk \in [Desks -> Desk]
      /\ orders \in Seq(Order) /\ Len(orders) < MaxOrders /\ MaxOrders \in Nat /\ MaxMessages \in Nat
      /\ messages \in Seq(Message) /\ Len(messages) <= MaxMessages /\ OnboardingTypeOK
      /\ LinkedBothWays
  BY OperationsAssumption DEF OpsInv, OpsTypeOK, InsertOrder
<1>1. desk[r].op = "create" \/ desk[r].op = "convert"
  BY <1>0 DEF DeskFits, OnOrder, Op
<1>2. desk[r].input \in (IF desk[r].op = "convert" THEN ConvertInput ELSE CreateInput)
  BY <1>0, <1>1 DEF DeskFits, Converts
<1>3. PICK source : source = IF desk[r].op = "convert" THEN desk[r].input.message
                             ELSE desk[r].input.source
  OBVIOUS
<1>4. PICK order : order = NewOrder(desk[r].input.assignee, source)
  OBVIOUS
<1>5. order \in Order /\ order.source = source
  <2>1. desk[r].input.assignee \in Staff \cup {"nobody"} /\ source \in 0..MaxMessages
    <3>1. CASE desk[r].op = "convert"
      BY <1>0, <1>2, <1>3, <3>1 DEF ConvertInput
    <3>2. CASE desk[r].op # "convert"
      BY <1>0, <1>2, <1>3, <3>2 DEF CreateInput
    <3> QED
      BY <3>1, <3>2
  <2> QED
    BY <1>4, <2>1 DEF NewOrder, Order, OrderStatus, OperationalState
<1>6. orders' = Append(orders, order) /\ UNCHANGED <<checklist, messages>>
  BY <1>3, <1>4 DEF InsertOrder
<1>7. /\ orders' \in Seq(Order) /\ Len(orders') = Len(orders) + 1
      /\ DOMAIN orders \subseteq DOMAIN orders'
      /\ \A i \in DOMAIN orders : orders'[i] = orders[i]
      /\ Len(orders) + 1 \in DOMAIN orders' /\ orders'[Len(orders) + 1] = order
      /\ Len(orders) + 1 \in 0..MaxOrders /\ Len(orders') <= MaxOrders
  BY <1>0, <1>5, <1>6, AppendProperties
<1>8. OrdersGrow /\ LinkedBothWays' /\ OnboardingTypeOK' /\ messages' = messages
  BY <1>0, <1>6, <1>7 DEF OrdersGrow, LinkedBothWays, OnboardingTypeOK
<1>9. CASE desk[r].op = "convert"
  <2>1. PICK made : made = Len(orders) + 1
    OBVIOUS
  <2>2. PICK d : d = [desk[r] EXCEPT !.pc = "mark", !.made = made]
    OBVIOUS
  <2>3. desk' = [desk EXCEPT ![r] = d]
    BY <1>9, <2>1, <2>2 DEF InsertOrder
  <2>4. d \in Desk /\ d.pc = "mark" /\ d.op = "convert" /\ d.input = desk[r].input
        /\ d.copy = desk[r].copy /\ d.made = made
    BY <1>0, <1>7, <1>9, <2>1, <2>2 DEF Desk, Pc
  <2>5. DeskFits(d)'
    <3>1. PICK e : e = desk[r]
      OBVIOUS
    <3>2. DeskFits(e)'
      BY <1>0, <1>8, <3>1, StillFits
    <3>3. Converts(e)' /\ OnMessage(e)'
      BY <1>0, <1>9, <3>1, <3>2 DEF DeskFits, Converts
    <3>4. OnMessage(d)'
      BY <1>0, <2>4, <3>1, <3>3 DEF OnMessage
    <3>5. Converts(d)'
      BY <1>0, <1>2, <1>3, <1>5, <1>7, <1>9, <2>1, <2>4, <3>4 DEF Converts
    <3> QED
      BY <2>4, <3>5 DEF DeskFits, Op
  <2> QED
    BY <1>0, <1>7, <1>8, <2>3, <2>4, <2>5, DeskGoesOn
<1>10. CASE desk[r].op = "create"
  <2>1. PICK d : d = [desk[r] EXCEPT !.pc = "mark", !.input = None]
    OBVIOUS
  <2>2. desk' = [desk EXCEPT ![r] = d]
    BY <1>10, <2>1 DEF InsertOrder
  <2>3. d \in Desk /\ d.pc = "mark" /\ d.op = "create"
    BY <1>0, <1>10, <2>1 DEF Desk, Pc
  <2>4. DeskFits(d)'
    BY <2>3 DEF DeskFits, Op
  <2> QED
    BY <1>0, <1>7, <1>8, <2>2, <2>3, <2>4, DeskGoesOn
<1> QED
  BY <1>1, <1>9, <1>10

(* A message is replaced by one whose link is right.                       *)
LEMMA MessageSet ==
  ASSUME OpsInv, NEW m \in DOMAIN messages, NEW message \in Message, Links(message.order, m),
         messages' = [messages EXCEPT ![m] = message], UNCHANGED orders
  PROVE  /\ OrdersGrow /\ LinkedBothWays'
         /\ messages' \in Seq(Message) /\ Len(messages') = Len(messages)
<1>1. messages \in Seq(Message)
  BY DEF OpsInv, OpsTypeOK
<1>2. /\ messages' \in Seq(Message) /\ Len(messages') = Len(messages)
      /\ DOMAIN messages' = DOMAIN messages
      /\ messages'[m] = message
      /\ \A i \in DOMAIN messages \ {m} : messages'[i] = messages[i]
  BY <1>1, ExceptSeq
<1>3. OrdersGrow
  BY <1>2 DEF OrdersGrow
<1>4. LinkedBothWays'
  BY <1>2 DEF OpsInv, LinkedBothWays, Links
<1> QED
  BY <1>2, <1>3, <1>4

LEMMA WriteMessageInv ==
  ASSUME OpsInv, NEW r \in Desks, WriteMessage(r)
  PROVE  OpsInv'
<1>0. /\ desk[r] \in Desk /\ desk \in [Desks -> Desk]
      /\ desk[r].pc = "write" /\ desk[r].op \in {"resolve", "reconcile"} /\ DeskFits(desk[r])
      /\ orders \in Seq(Order) /\ Len(orders) <= MaxOrders
      /\ messages \in Seq(Message) /\ Len(messages) <= MaxMessages /\ OnboardingTypeOK
  BY DEF OpsInv, OpsTypeOK, WriteMessage
<1>1. /\ OnMessage(desk[r])
      /\ desk[r].input \in (IF desk[r].op = "resolve" THEN ResolveInput ELSE ReconcileInput)
  BY <1>0 DEF DeskFits
<1>2. PICK m \in DOMAIN messages, copy \in Message :
          m = desk[r].input.message /\ copy = desk[r].copy /\ Links(copy.order, m)
  BY <1>0, <1>1 DEF OnMessage
<1>3. PICK message : message = MergedMessage(copy, desk[r].op, desk[r].input)
  OBVIOUS
<1>4. message \in Message /\ message.order = copy.order
  BY <1>0, <1>1, <1>3 DEF MergedMessage, Message, ResolveInput, ReconcileInput
<1>5. messages' = [messages EXCEPT ![m] = message] /\ UNCHANGED <<checklist, orders>>
  BY <1>2, <1>3 DEF WriteMessage
<1>6. /\ OrdersGrow /\ LinkedBothWays'
      /\ messages' \in Seq(Message) /\ Len(messages') = Len(messages)
  BY <1>2, <1>4, <1>5, MessageSet
<1>7. \E d \in Desk : desk' = [desk EXCEPT ![r] = d] /\ (d.pc # "idle" => DeskFits(d)')
  <2>1. CASE Ends(r)
    BY <2>1, IdleDeskTyped DEF Ends
  <2>2. CASE ~Ends(r)
    <3>1. desk[r].op = "resolve"
          /\ desk' = [desk EXCEPT ![r] = [IdleDesk EXCEPT !.pc = "mark", !.op = desk[r].op]]
      BY <1>0, <2>2 DEF WriteMessage
    <3>2. PICK d : d = [IdleDesk EXCEPT !.pc = "mark", !.op = "resolve"]
      OBVIOUS
    <3>3. d \in Desk /\ d.pc = "mark" /\ d.op = "resolve"
      BY <3>2, IdleDeskTyped DEF IdleDesk, Desk, Pc, Op
    <3>4. DeskFits(d)'
      BY <3>3 DEF DeskFits, Op
    <3> QED
      BY <3>1, <3>2, <3>3, <3>4
  <2> QED
    BY <2>1, <2>2
<1> QED
  BY <1>0, <1>5, <1>6, <1>7, DeskGoesOn DEF OnboardingTypeOK

LEMMA LinkMessageInv ==
  ASSUME OpsInv, NEW r \in Desks, LinkMessage(r)
  PROVE  OpsInv'
<1>0. /\ desk[r] \in Desk /\ desk[r].pc = "link" /\ DeskFits(desk[r])
      /\ orders \in Seq(Order) /\ Len(orders) <= MaxOrders
      /\ messages \in Seq(Message) /\ Len(messages) <= MaxMessages /\ OnboardingTypeOK
  BY DEF OpsInv, OpsTypeOK, LinkMessage
<1>1. Converts(desk[r])
  BY <1>0 DEF DeskFits, OnOrder, Op
<1>2. PICK m \in DOMAIN messages, copy \in Message, made \in DOMAIN orders :
          /\ m = desk[r].input.message /\ copy = desk[r].copy /\ made = desk[r].made
          /\ orders[made].source = m
  BY <1>0, <1>1 DEF Converts, OnMessage
<1>3. PICK message : message = [copy EXCEPT !.order = made, !.resolved = TRUE]
  OBVIOUS
<1>4. message \in Message /\ message.order = made
  <2>1. made \in 0..MaxOrders
    BY <1>0, <1>2 DEF Desk
  <2> QED
    BY <1>3, <2>1 DEF Message
<1>5. /\ messages' = [messages EXCEPT ![m] = message]
      /\ Ends(r) /\ UNCHANGED <<checklist, orders>>
  BY <1>2, <1>3 DEF LinkMessage
<1>6. Links(message.order, m)
  BY <1>2, <1>4 DEF Links
<1>7. /\ OrdersGrow /\ LinkedBothWays'
      /\ messages' \in Seq(Message) /\ Len(messages') = Len(messages)
  BY <1>4, <1>5, <1>6, MessageSet
<1> QED
  BY <1>0, <1>5, <1>7, IdleDeskTyped, DeskGoesOn DEF Ends, OnboardingTypeOK

LEMMA ChecklistInv ==
  ASSUME OpsInv, NEW r \in Desks, ReadChecklist(r) \/ SaveChecklist(r) \/ ReadProgress(r)
  PROVE  OpsInv'
<1>0. /\ desk[r] \in Desk /\ desk \in [Desks -> Desk]
      /\ desk[r].pc \in {"mark", "save", "progress"} /\ DeskFits(desk[r]) /\ OnboardingTypeOK
  BY DEF OpsInv, OpsTypeOK, ReadChecklist, SaveChecklist, ReadProgress
<1>1. CASE ReadChecklist(r)
  <2>1. PICK d : d = [desk[r] EXCEPT !.pc = "save", !.seen = checklist]
    OBVIOUS
  <2>2. UNCHANGED <<checklist, orders, messages>> /\ checklist \in Checklist
    BY <1>0, <1>1 DEF ReadChecklist, RowFound, OnboardingTypeOK
  <2>3. desk' = [desk EXCEPT ![r] = d]
    BY <1>0, <1>1, <2>1 DEF ReadChecklist, Desk
  <2>4. d \in Desk /\ d.pc = "save" /\ d.op = desk[r].op /\ d.input = desk[r].input
        /\ d.copy = desk[r].copy /\ d.made = desk[r].made /\ d.seen \in Checklist
    BY <1>0, <2>1, <2>2 DEF Desk, Pc
  <2>5. desk[r].pc = "mark"
    BY <1>1 DEF ReadChecklist
  <2>6. DeskFits(d)
    BY <1>0, <2>4, <2>5 DEF DeskFits, OnOrder, Converts, OnMessage
  <2> QED
    BY <1>0, <2>2, <2>3, <2>4, <2>6, OpsKeepsTables DEF OnboardingTypeOK
<1>2. CASE SaveChecklist(r)
  <2>1. PICK d : d = [desk[r] EXCEPT !.pc = "progress", !.seen = None]
    OBVIOUS
  <2>2. UNCHANGED <<orders, messages>>
    BY <1>2 DEF SaveChecklist
  <2>3. desk' = [desk EXCEPT ![r] = d]
    BY <1>0, <1>2, <2>1 DEF SaveChecklist, Desk
  <2>4. d \in Desk /\ d.pc = "progress" /\ d.op = desk[r].op /\ d.input = desk[r].input
        /\ d.copy = desk[r].copy /\ d.made = desk[r].made
    BY <1>0, <2>1 DEF Desk, Pc
  <2>5. desk[r].pc = "save"
    BY <1>2 DEF SaveChecklist
  <2>6. DeskFits(d)
    BY <1>0, <2>4, <2>5 DEF DeskFits, OnOrder, Converts, OnMessage
  <2>7. MarksDone(desk[r]) \in BOOLEAN
    BY <1>0 DEF MarksDone, DeskFits, StepInput
  <2>8. OnboardingTypeOK'
    <3>1. desk[r].seen \in Checklist
      BY <1>0, <2>5 DEF DeskFits
    <3>2. checklist' = [desk[r].seen EXCEPT ![Milestone(desk[r])] = MarksDone(desk[r])]
      BY <1>2 DEF SaveChecklist, SaveStep
    <3> QED
      BY <2>7, <3>1, <3>2 DEF OnboardingTypeOK, Checklist
  <2> QED
    BY <1>0, <2>2, <2>3, <2>4, <2>6, <2>8, OpsKeepsTables
<1>3. CASE ReadProgress(r)
  <2>1. CASE Ends(r)
    BY <1>3, <2>1, DeskEnds DEF ReadProgress
  <2>2. CASE desk[r].op = "convert" /\ Goes(r, "link")
    <3>1. PICK d \in Desk : /\ d.pc = "link" /\ d.op = desk[r].op
                            /\ d.input = desk[r].input /\ d.copy = desk[r].copy
                            /\ d.seen = desk[r].seen /\ d.made = desk[r].made
                            /\ desk' = [desk EXCEPT ![r] = d]
      BY <2>2, DeskMoves DEF Pc
    <3>2. DeskFits(d)
      BY <1>0, <2>2, <3>1 DEF DeskFits, OnOrder, Converts, OnMessage
    <3> QED
      BY <1>0, <1>3, <3>1, <3>2, OpsKeepsTables DEF ReadProgress, OnboardingTypeOK
  <2> QED
    BY <1>3, <2>1, <2>2 DEF ReadProgress
<1> QED
  BY <1>1, <1>2, <1>3

LEMMA OpsNextInv == OpsInv /\ [OpsNext]_opsVars => OpsInv'
<1> SUFFICES ASSUME OpsInv, [OpsNext]_opsVars PROVE OpsInv'
  OBVIOUS
<1>1. ASSUME NEW r \in Desks, OpsStep(r) PROVE OpsInv'
  <2>1. CASE GivesUp(r)
    BY <2>1, DeskEnds DEF GivesUp
  <2> QED
    BY <1>1, <2>1, OpsReadInv, WriteOrderInv, InsertOrderInv, WriteMessageInv, LinkMessageInv,
       ChecklistInv DEF OpsStep
<1>2. CASE UNCHANGED opsVars
  <2>1. UNCHANGED <<checklist, orders, messages, desk>>
    BY <1>2 DEF opsVars
  <2>2. OpsTypeOK'
    BY <2>1 DEF OpsInv, OpsTypeOK, OnboardingTypeOK
  <2>3. \A r \in Desks : desk'[r].pc # "idle" => DeskFits(desk[r])'
    <3> SUFFICES ASSUME NEW r \in Desks, desk'[r].pc # "idle" PROVE DeskFits(desk[r])'
      OBVIOUS
    <3>1. PICK e : e = desk[r]
      OBVIOUS
    <3>2. DeskFits(e)
      BY <2>1, <3>1 DEF OpsInv
    <3>3. DeskFits(e)' /\ e = desk'[r]
      BY <2>1, <3>1, <3>2, OpsTablesKept
    <3> QED
      BY <3>3
  <2> QED
    BY <2>1, <2>2, <2>3, OpsTablesKept DEF OpsInv
<1> QED
  BY <1>1, <1>2, OpsAskInv, CreateMessageInv DEF OpsNext

(***************************************************************************)
(* Theorems                                                                *)
(***************************************************************************)

(* Orders, messages, the checklist and the requests keep their types.      *)
THEOREM OpsTypeCorrect == OpsSpec => []OpsTypeOK
<1>1. OpsInv => OpsTypeOK
  BY DEF OpsInv
<1> QED
  BY <1>1, OpsInitInv, OpsNextInv, PTL DEF OpsSpec

(* A message is linked to an order only if the order was made from it,     *)
(* although what links them reads the message before it makes the order    *)
(* and other requests write both meanwhile (createOrderFromMessage).       *)
THEOREM LinksHold == OpsSpec => []LinkedBothWays
<1>1. OpsInv => LinkedBothWays
  BY DEF OpsInv
<1> QED
  BY <1>1, OpsInitInv, OpsNextInv, PTL DEF OpsSpec

LEMMA OpsInvHolds == OpsSpec => []OpsInv
<1> QED
  BY OpsInitInv, OpsNextInv, PTL DEF OpsSpec

(* The steps that write a row.                                             *)
LEMMA OrderWriters ==
  ASSUME OpsInv, [OpsNext]_opsVars, NEW o \in DOMAIN orders, orders'[o] # orders[o]
  PROVE  \E r \in Desks : WriteOrder(r) /\ desk[r].input.order = o
<1>0. orders \in Seq(Order)
  BY DEF OpsInv, OpsTypeOK
<1>1. ASSUME NEW r \in Desks, InsertOrder(r) PROVE FALSE
  <2>1. PICK order : orders' = Append(orders, order)
    BY <1>1 DEF InsertOrder
  <2>2. orders \in Seq(Order \cup {order}) /\ order \in Order \cup {order}
    BY <1>0
  <2> QED
    BY <2>1, <2>2, AppendProperties
<1>2. \E r \in Desks : WriteOrder(r)
  BY <1>1 DEF opsVars, OpsNext, CreateMessage, OpsAsk, AskCreateOrder, AskUpdateOrderStatus,
     AskAssignOrder, AskCreateOrderFromMessage, AskResolveMessage, AskReconcileProviderEvent,
     AskUpdateStep, Starts, OpsStep, PassGate, MakeRow, FindOrder, FindMessage, WriteMessage,
     LinkMessage, ReadChecklist, SaveChecklist, ReadProgress, GivesUp
<1> QED
  BY <1>0, <1>2 DEF WriteOrder

LEMMA MessageWriters ==
  ASSUME OpsInv, [OpsNext]_opsVars, NEW m \in DOMAIN messages, messages'[m] # messages[m]
  PROVE  \E r \in Desks : (WriteMessage(r) \/ LinkMessage(r)) /\ desk[r].input.message = m
<1>0. messages \in Seq(Message)
  BY DEF OpsInv, OpsTypeOK
<1>1. CASE CreateMessage
  <2>1. PICK message : messages' = Append(messages, message)
    BY <1>1 DEF CreateMessage
  <2>2. messages \in Seq(Message \cup {message}) /\ message \in Message \cup {message}
    BY <1>0
  <2> QED
    BY <2>1, <2>2, AppendProperties
<1>2. ~CreateMessage => \E r \in Desks : WriteMessage(r) \/ LinkMessage(r)
  BY DEF opsVars, OpsNext, OpsAsk, AskCreateOrder, AskUpdateOrderStatus,
     AskAssignOrder, AskCreateOrderFromMessage, AskResolveMessage, AskReconcileProviderEvent,
     AskUpdateStep, Starts, OpsStep, PassGate, MakeRow, FindOrder, FindMessage, WriteOrder,
     InsertOrder, ReadChecklist, SaveChecklist, ReadProgress, GivesUp
<1> QED
  BY <1>0, <1>1, <1>2 DEF WriteMessage, LinkMessage

(* A new status follows the one before it, or comes from a stale copy.     *)
OrderFlows(o) ==
    orders'[o].status # orders[o].status =>
        \/ orders'[o].status \in ORDER_STATUS_FLOW[orders[o].status]
        \/ \E r \in Desks : /\ desk[r].pc = "write"
                           /\ desk[r].op \in {"status", "assign"}
                           /\ desk[r].input.order = o
                           /\ desk[r].copy # orders[o]

LEMMA FlowStep == OpsInv /\ [OpsNext]_opsVars => [\A o \in DOMAIN orders : OrderFlows(o)]_opsVars
<1>1. ASSUME OpsInv, [OpsNext]_opsVars, NEW o \in DOMAIN orders PROVE OrderFlows(o)
  <2>1. SUFFICES ASSUME orders'[o].status # orders[o].status,
                        NEW r \in Desks, WriteOrder(r), desk[r].input.order = o
                 PROVE  OrderFlows(o)
    BY <1>1, OrderWriters DEF OrderFlows
  <2>2. /\ desk[r].pc = "write" /\ desk[r].op \in {"status", "assign"} /\ OnOrder(desk[r])
        /\ orders \in Seq(Order)
    BY <1>1, <2>1 DEF WriteOrder, OpsInv, OpsTypeOK, DeskFits
  <2>3. CASE desk[r].copy = orders[o]
    <3>1. orders'[o] = MergedOrder(desk[r].copy, desk[r].input) /\ desk[r].copy \in Order
      BY <2>1, <2>2 DEF WriteOrder, OnOrder
    <3>2. orders'[o].status = desk[r].input.status
      BY <3>1 DEF MergedOrder, Order
    <3> QED
      BY <2>1, <2>2, <2>3, <3>2 DEF OnOrder, Allowed, OrderFlows
  <2> QED
    BY <2>1, <2>2, <2>3 DEF OrderFlows
<1> QED
  BY <1>1

(* An order gets a status that may not follow the one it has only from a   *)
(* request whose copy of the order is stale (updateOrderStatus).           *)
THEOREM FlowIsKept == OpsSpec => FlowUnlessStale
<1>1. OpsSpec => [][\A o \in DOMAIN orders : OrderFlows(o)]_opsVars
  BY FlowStep, OpsInvHolds, PTL DEF OpsSpec
<1> QED
  BY <1>1 DEF FlowUnlessStale, OrderFlows

(* What a message says is undone only by a stale copy.                     *)
MessageKeeps(m) ==
    \/ \E r \in Desks :
          /\ WritesMessage(r, m, {"resolve", "reconcile", "convert"})
          /\ desk[r].copy # messages[m]
    \/ /\ messages'[m].resolved # messages[m].resolved =>
             \E r \in Desks : WritesMessage(r, m, {"resolve", "convert"})
       /\ messages'[m].provider # messages[m].provider =>
             \E r \in Desks : WritesMessage(r, m, {"reconcile"})
       /\ messages'[m].order # messages[m].order =>
             \E r \in Desks : WritesMessage(r, m, {"convert"})

LEMMA KeepStep == OpsInv /\ [OpsNext]_opsVars => [\A m \in DOMAIN messages : MessageKeeps(m)]_opsVars
<1> USE DEF MessageKeeps
<1>1. ASSUME OpsInv, [OpsNext]_opsVars, NEW m \in DOMAIN messages PROVE MessageKeeps(m)
  <2>0. messages \in Seq(Message)
    BY <1>1 DEF OpsInv, OpsTypeOK
  <2>1. SUFFICES ASSUME NEW r \in Desks, WriteMessage(r) \/ LinkMessage(r), desk[r].input.message = m
                 PROVE  MessageKeeps(m)
    BY <1>1, MessageWriters
  <2>2. CASE desk[r].copy # messages[m]
    <3>1. desk[r].op \in {"resolve", "reconcile", "convert"}
      BY <1>1, <2>1 DEF WriteMessage, LinkMessage, OpsInv, DeskFits, OnOrder, Op
    <3> QED
      BY <2>1, <2>2, <3>1 DEF WritesMessage, WriteMessage, LinkMessage
  <2>3. CASE desk[r].copy = messages[m] /\ WriteMessage(r)
    <3>1. /\ messages'[m] = MergedMessage(messages[m], desk[r].op, desk[r].input)
          /\ desk[r].pc = "write" /\ desk[r].op \in {"resolve", "reconcile"}
      BY <2>0, <2>1, <2>3 DEF WriteMessage
    <3>2. messages[m] \in Message
      BY <2>0
    <3>3. CASE desk[r].op = "resolve"
      <4>1. messages'[m].provider = messages[m].provider /\ messages'[m].order = messages[m].order
        BY <3>1, <3>2, <3>3 DEF MergedMessage, Message
      <4>2. WritesMessage(r, m, {"resolve", "convert"})
        BY <2>1, <3>1, <3>3 DEF WritesMessage
      <4> QED
        BY <4>1, <4>2
    <3>4. CASE desk[r].op = "reconcile"
      <4>1. messages'[m].resolved = messages[m].resolved /\ messages'[m].order = messages[m].order
        BY <3>1, <3>2, <3>4 DEF MergedMessage, Message
      <4>2. WritesMessage(r, m, {"reconcile"})
        BY <2>1, <3>1, <3>4 DEF WritesMessage
      <4> QED
        BY <4>1, <4>2
    <3> QED
      BY <3>1, <3>3, <3>4
  <2>4. CASE desk[r].copy = messages[m] /\ LinkMessage(r)
    <3>1. /\ messages'[m] = [messages[m] EXCEPT !.order = desk[r].made, !.resolved = TRUE]
          /\ desk[r].pc = "link"
      BY <2>0, <2>1, <2>4 DEF LinkMessage
    <3>2. messages[m] \in Message /\ desk[r].op = "convert"
      BY <1>1, <2>0, <3>1 DEF OpsInv, DeskFits, OnOrder, Op
    <3>3. messages'[m].provider = messages[m].provider
      BY <3>1, <3>2 DEF Message
    <3>4. WritesMessage(r, m, {"resolve", "convert"}) /\ WritesMessage(r, m, {"convert"})
      BY <2>1, <3>1, <3>2 DEF WritesMessage
    <3> QED
      BY <3>3, <3>4
  <2> QED
    BY <2>1, <2>2, <2>3, <2>4
<1> QED
  BY <1>1

(* What one kind of request writes into a message is undone only by a      *)
(* request whose copy of the message is stale (resolveMessage,             *)
(* reconcileProviderEvent, createOrderFromMessage).                        *)
THEOREM NothingIsUndone == OpsSpec => NothingUndoneUnlessStale
<1>1. OpsSpec => [][\A m \in DOMAIN messages : MessageKeeps(m)]_opsVars
  BY KeepStep, OpsInvHolds, PTL DEF OpsSpec
<1> QED
  BY <1>1 DEF NothingUndoneUnlessStale, MessageKeeps

(***************************************************************************)
(* Reports                                                                 *)
(***************************************************************************)

Gens == Clerks \cup Tickers
AskedPc == {"access", "create"}
OpenPc == {"running", "build", "complete", "fail"}
DonePc == {"reread", "trigger", "dispatch"}
RowPc == OpenPc \cup DonePc

MadeBy(g) == IF g \in Tickers THEN "cron" ELSE "user"

(* What d says of a request or tick g: a tick works for its schedule, and  *)
(* between its CREATE and its end it has a row of its own kind, which is   *)
(* completed when there is only to tell of it.                             *)
HasRow(g, d) ==
    /\ d.run \in DOMAIN reports
    /\ reports[d.run].by = MadeBy(g) /\ reports[d.run].template = d.template
    /\ d.pc \in OpenPc => reports[d.run].status # "COMPLETED"
    /\ d.pc \in DonePc => reports[d.run].status = "COMPLETED"
GenFits(g, d) ==
    /\ g \in Clerks => d.pc \notin {"next", "trigger", "dispatch"}
    /\ g \in Tickers => d.pc \in {"idle", "next"} \cup AskedPc \cup RowPc
    /\ d.pc \in {"gate", "insertSchedule"} => d.on \in Schedules
    /\ d.pc = "save" => d.seen \in Checklist
    /\ d.pc \in AskedPc \cup RowPc =>
           /\ d.template \in Template
           /\ g \in Tickers => d.on \in Schedules /\ d.template = Terms[d.on].template
    /\ IF d.pc \in RowPc THEN HasRow(g, d) ELSE d.run = 0

(* No two of them have the same row.                                       *)
OwnRows == \A g, h \in Gens : g # h /\ gen[g].run # 0 => gen[g].run # gen[h].run

RowsInv ==
    /\ ReportsTypeOK
    /\ \A g \in Gens : GenFits(g, gen[g])
    /\ OwnRows /\ TriggeredMeansCompleted /\ UnfinishedIsInProgress

LEMMA IdleGenTyped == IdleGen \in Gen /\ IdleGen.pc = "idle" /\ IdleGen.run = 0
<1> QED
  BY DEF IdleGen, Gen, GenPc

LEMMA IdleGenFits == ASSUME NEW g \in Gens PROVE GenFits(g, IdleGen)
<1> QED
  BY IdleGenTyped DEF GenFits, AskedPc, RowPc, OpenPc, DonePc

LEMMA RowsInit == ReportsInit => RowsInv
<1> SUFFICES ASSUME ReportsInit PROVE RowsInv
  OBVIOUS
<1>1. ReportsTypeOK
  BY IdleGenTyped, OnboardingAssumption, ReportsAssumption
  DEF ReportsInit, ReportsTypeOK, OnboardingInit, OnboardingTypeOK, Checklist, LastTriggered
<1>2. \A g \in Gens : gen[g] = IdleGen
  BY DEF ReportsInit, Gens
<1>3. \A g \in Gens : GenFits(g, gen[g])
  BY <1>2, IdleGenFits
<1>4. OwnRows
  BY <1>2, IdleGenTyped DEF OwnRows
<1> QED
  BY <1>1, <1>3, <1>4 DEF ReportsInit, RowsInv, TriggeredMeansCompleted, UnfinishedIsInProgress

(***************************************************************************)
(* What every step keeps                                                   *)
(***************************************************************************)

(* Rows are added, and one that is completed stays so.                     *)
RowsGrow ==
    /\ DOMAIN reports \subseteq DOMAIN reports'
    /\ \A i \in DOMAIN reports :
           /\ reports'[i].template = reports[i].template /\ reports'[i].by = reports[i].by
           /\ reports'[i].day = reports[i].day
           /\ reports[i].status = "COMPLETED" => reports'[i].status = "COMPLETED"

(* The parts of the type that a step of a request may change.              *)
RowsTyped ==
    /\ OnboardingTypeOK /\ reports \in Seq(Report) /\ schedules \subseteq Schedules
    /\ last \in [Schedules -> LastTriggered] /\ reporters \subseteq Actors
    /\ fired \in [Tickers -> Nat \cup {None}]
    /\ clock \in 0..MaxClock /\ reportFaults \in 0..ReportFaults

LEMMA TriggeredKept ==
  ASSUME TriggeredMeansCompleted, RowsGrow, UNCHANGED last
  PROVE  TriggeredMeansCompleted'
<1> QED
  BY DEF TriggeredMeansCompleted, RowsGrow

(* g goes on to hold d; no row but its own has changed.                    *)
LEMMA GenGoesOn ==
  ASSUME RowsInv, NEW g \in Gens, NEW d \in Gen, gen' = [gen EXCEPT ![g] = d],
         RowsTyped', RowsGrow, GenFits(g, d)', TriggeredMeansCompleted',
         reportFaults' = 0 => reportFaults = 0,
         \A i \in DOMAIN reports : i # gen[g].run => reports'[i] = reports[i],
         d.run # 0 => d.run = gen[g].run \/ d.run \notin DOMAIN reports,
         reportFaults' = 0 =>
             \A i \in DOMAIN reports' \ {d.run} :
                 /\ i \in DOMAIN reports
                 /\ i = gen[g].run => reports'[i].status \notin {"QUEUED", "RUNNING"}
  PROVE  RowsInv'
<1>0. gen \in [Gens -> Gen] /\ Gens = Clerks \cup Tickers
  BY DEF RowsInv, ReportsTypeOK, Gens
<1>1. gen'[g] = d /\ \A h \in Gens \ {g} : gen'[h] = gen[h]
  BY <1>0
<1>2. ReportsTypeOK'
  BY <1>0 DEF RowsTyped, ReportsTypeOK
<1>3. ASSUME NEW h \in Gens PROVE GenFits(h, gen[h])'
  <2>1. PICK e : e = gen'[h]
    OBVIOUS
  <2>2. CASE h = g
    BY <1>1, <2>1, <2>2
  <2>3. CASE h # g
    <3>1. e = gen[h] /\ GenFits(h, e)
      BY <1>1, <2>1, <2>3 DEF RowsInv
    <3>2. e.pc \in RowPc => e.run # gen[g].run
      <4>1. e.pc \in RowPc => e.run # 0
        BY <3>1 DEF GenFits, HasRow, RowsInv, ReportsTypeOK
      <4> QED
        BY <2>3, <3>1, <4>1 DEF RowsInv, OwnRows
    <3>3. e.pc \in RowPc => HasRow(h, e)'
      BY <3>1, <3>2 DEF GenFits, HasRow, RowsGrow
    <3>4. GenFits(h, e)'
      BY <3>1, <3>3 DEF GenFits
    <3> QED
      BY <2>1, <3>4
  <2> QED
    BY <2>2, <2>3
<1>4. OwnRows'
  <2>1. \A h \in Gens : gen[h].run # 0 => gen[h].run \in DOMAIN reports
    BY DEF RowsInv, GenFits, HasRow
  <2> QED
    BY <1>1, <2>1 DEF RowsInv, OwnRows
<1>5. UnfinishedIsInProgress'
  <2> SUFFICES ASSUME reportFaults' = 0, NEW i \in DOMAIN reports', reports'[i].status \in {"QUEUED", "RUNNING"}
               PROVE  \E h \in DOMAIN gen' : gen'[h].run = i
    BY DEF UnfinishedIsInProgress
  <2>1. CASE i = d.run
    BY <1>0, <1>1, <2>1
  <2>2. CASE i # d.run
    <3>1. i \in DOMAIN reports /\ i # gen[g].run /\ reports[i].status \in {"QUEUED", "RUNNING"}
      BY <2>2
    <3>2. PICK h \in DOMAIN gen : gen[h].run = i
      BY <3>1 DEF RowsInv, UnfinishedIsInProgress
    <3> QED
      BY <1>0, <1>1, <3>1, <3>2
  <2> QED
    BY <2>1, <2>2
<1> QED
  BY <1>2, <1>3, <1>4, <1>5 DEF RowsInv

(* A step of g that changes no row and keeps its own.                      *)
LEMMA KeepsRows ==
  ASSUME RowsInv, NEW g \in Gens, NEW d \in Gen, gen' = [gen EXCEPT ![g] = d],
         RowsTyped', UNCHANGED <<reports, last, reportFaults>>, GenFits(g, d), d.run = gen[g].run
  PROVE  RowsInv'
<1>1. RowsGrow
  BY DEF RowsGrow
<1>2. TriggeredMeansCompleted'
  BY <1>1, TriggeredKept DEF RowsInv
<1>3. GenFits(g, d)'
  BY DEF GenFits, HasRow
<1> QED
  BY <1>1, <1>2, <1>3, GenGoesOn

(* g ends with its row finished, or with a fault.                          *)
LEMMA GenEnds ==
  ASSUME RowsInv, NEW g \in Gens, Stops(g), RowsTyped', UNCHANGED <<reports, last>>,
         reportFaults' = 0 => reportFaults = 0 /\ gen[g].pc \notin OpenPc
  PROVE  RowsInv'
<1>1. RowsGrow
  BY DEF RowsGrow
<1>2. TriggeredMeansCompleted'
  BY <1>1, TriggeredKept DEF RowsInv
<1>3. \A d : GenFits(g, d) => GenFits(g, d)'
  BY DEF GenFits, HasRow
<1>4. gen[g].pc \notin OpenPc => gen[g].run = 0 \/ reports[gen[g].run].status = "COMPLETED"
  BY DEF RowsInv, GenFits, HasRow, RowPc
<1>5. reports \in Seq(Report) /\ \A i \in DOMAIN reports : i # 0
  BY DEF RowsInv, ReportsTypeOK
<1> QED
  BY <1>1, <1>2, <1>3, <1>4, <1>5, IdleGenTyped, IdleGenFits, GenGoesOn DEF Stops

(***************************************************************************)
(* The steps                                                               *)
(***************************************************************************)

LEMMA RowsTypedNow == RowsInv => /\ RowsTyped /\ gen \in [Gens -> Gen] /\ Gens = Clerks \cup Tickers
                             /\ Clerks \cap Tickers = {}
                             /\ \A g \in Gens : GenFits(g, gen[g]) /\ gen[g] \in Gen
<1> QED
  BY ReportsAssumption DEF RowsInv, ReportsTypeOK, RowsTyped, Gens

(* Days do not run backwards.                                              *)
LEMMA DayIsNat ==
  ASSUME NEW c \in Nat
  PROVE  c \div Day \in Nat /\ (c + 1) \div Day \in Nat /\ c \div Day <= (c + 1) \div Day
<1>1. Day \in Nat \ {0}
  BY ReportsAssumption
<1>2. PICK q \in Int : q = c \div Day
  BY <1>1
<1>3. PICK p \in Int : p = (c + 1) \div Day
  BY <1>1
<1>4. q * Day <= c /\ c < (q + 1) * Day
  BY <1>1, <1>2, Z3
<1>5. p * Day <= c + 1 /\ c + 1 < (p + 1) * Day
  BY <1>1, <1>3, Z3
<1>6. q < p + 1
  BY <1>1, <1>4, <1>5, Z3
<1>7. q >= 0 /\ p >= 0
  BY <1>1, <1>4, <1>5, Z3
<1> QED
  BY <1>2, <1>3, <1>6, <1>7

LEMMA GenOnlyTyped == ASSUME RowsTyped, GenOnly PROVE RowsTyped'
<1> QED
  BY DEF RowsTyped, GenOnly, OnboardingTypeOK

LEMMA GenMoves ==
  ASSUME RowsInv, NEW g \in Gens, NEW pc \in GenPc, Moves(g, pc)
  PROVE  \E d \in Gen : /\ d = [gen[g] EXCEPT !.pc = pc] /\ d.pc = pc /\ d.on = gen[g].on
                         /\ d.template = gen[g].template /\ d.run = gen[g].run /\ d.seen = gen[g].seen
                         /\ gen' = [gen EXCEPT ![g] = d]
<1>0. gen[g] \in Gen /\ gen \in [Gens -> Gen]
  BY RowsTypedNow
<1>1. PICK d : d = [gen[g] EXCEPT !.pc = pc]
  OBVIOUS
<1>2. gen' = [gen EXCEPT ![g] = d]
  BY <1>1 DEF Moves
<1>3. d \in Gen /\ d.pc = pc /\ d.on = gen[g].on /\ d.template = gen[g].template
      /\ d.run = gen[g].run /\ d.seen = gen[g].seen
  BY <1>0, <1>1 DEF Gen
<1> QED
  BY <1>1, <1>2, <1>3

(* A step that changes where g is and nothing else.                        *)
LEMMA MoveInv ==
  ASSUME RowsInv, NEW g \in Gens, NEW pc \in GenPc, Moves(g, pc), RowsTyped',
         UNCHANGED <<reports, last, reportFaults>>,
         \A d : /\ d.pc = pc /\ d.on = gen[g].on /\ d.template = gen[g].template
                /\ d.run = gen[g].run /\ d.seen = gen[g].seen
                => GenFits(g, d)
  PROVE  RowsInv'
<1>1. PICK d \in Gen : /\ d.pc = pc /\ d.on = gen[g].on
                       /\ d.template = gen[g].template /\ d.run = gen[g].run /\ d.seen = gen[g].seen
                       /\ gen' = [gen EXCEPT ![g] = d]
  BY GenMoves
<1> QED
  BY <1>1, KeepsRows

LEMMA ReportAskInv ==
  ASSUME RowsInv, NEW c \in Clerks, AskReport(c) \/ AskSchedule(c)
  PROVE  RowsInv'
<1>0. /\ RowsTyped /\ c \in Gens /\ c \notin Tickers /\ gen[c].pc = "idle" /\ gen[c].run = 0
      /\ GenOnly
  BY RowsTypedNow DEF GenFits, AskReport, AskSchedule, RowPc, OpenPc, DonePc
<1>1. RowsTyped' /\ UNCHANGED <<reports, last, reportFaults>>
  BY <1>0, GenOnlyTyped DEF GenOnly
<1>2. CASE AskReport(c)
  <2>1. PICK t \in UserTemplates :
            gen' = [gen EXCEPT ![c] = [IdleGen EXCEPT !.pc = "access", !.template = t]]
    BY <1>2 DEF AskReport
  <2>2. PICK d : d = [IdleGen EXCEPT !.pc = "access", !.template = t]
    OBVIOUS
  <2>3. d \in Gen /\ d.pc = "access" /\ d.template \in Template /\ d.run = 0
    BY <2>2, IdleGenTyped, ReportsAssumption DEF IdleGen, Gen, GenPc
  <2>4. GenFits(c, d)
    BY <1>0, <2>3 DEF GenFits, RowPc, OpenPc, DonePc
  <2> QED
    BY <1>0, <1>1, <2>1, <2>2, <2>3, <2>4, KeepsRows
<1>3. CASE AskSchedule(c)
  <2>1. PICK s \in Schedules : gen' = [gen EXCEPT ![c] = [IdleGen EXCEPT !.pc = "gate", !.on = s]]
    BY <1>3 DEF AskSchedule
  <2>2. PICK d : d = [IdleGen EXCEPT !.pc = "gate", !.on = s]
    OBVIOUS
  <2>3. d \in Gen /\ d.pc = "gate" /\ d.on \in Schedules /\ d.run = 0
    BY <2>2, IdleGenTyped DEF IdleGen, Gen, GenPc
  <2>4. GenFits(c, d)
    BY <1>0, <2>3 DEF GenFits, AskedPc, RowPc, OpenPc, DonePc
  <2> QED
    BY <1>0, <1>1, <2>1, <2>2, <2>3, <2>4, KeepsRows
<1> QED
  BY <1>2, <1>3

LEMMA ClerkInv ==
  ASSUME RowsInv, NEW c \in Clerks, ClerkStep(c)
  PROVE  RowsInv'
<1>0. /\ RowsTyped /\ gen \in [Gens -> Gen] /\ c \in Gens /\ c \notin Tickers /\ gen[c] \in Gen
      /\ GenFits(c, gen[c])
  BY RowsTypedNow
<1>1. CASE PassReportGate(c)
  <2>1. RowsTyped' /\ UNCHANGED <<reports, last, reportFaults>>
    BY <1>0, <1>1, GenOnlyTyped DEF PassReportGate, GenOnly
  <2>2. CASE Stops(c)
    BY <1>0, <1>1, <2>1, <2>2, GenEnds DEF PassReportGate, OpenPc
  <2>3. CASE Moves(c, "insertSchedule")
    BY <1>0, <1>1, <2>1, <2>3, MoveInv
    DEF PassReportGate, GenFits, GenPc, AskedPc, RowPc, OpenPc, DonePc
  <2> QED
    BY <1>1, <2>2, <2>3 DEF PassReportGate
<1>2. CASE MakeReportRow(c)
  <2>1. gen' = [gen EXCEPT ![c] = gen[c]] /\ UNCHANGED <<reports, schedules, last, reporters, fired, clock, reportFaults>>
    BY <1>0, <1>2 DEF MakeReportRow
  <2>2. OnboardingTypeOK'
    BY <1>2 DEF MakeReportRow, InsertRow, OnboardingTypeOK, DEFAULT_CHECKLIST, Checklist
  <2>3. RowsTyped'
    BY <1>0, <2>1, <2>2 DEF RowsTyped
  <2> QED
    BY <1>0, <2>1, <2>3, KeepsRows
<1>3. CASE InsertSchedule(c)
  <2>1. RowsTyped' /\ UNCHANGED <<reports, last, reportFaults>>
    BY <1>0, <1>3 DEF InsertSchedule, RowsTyped, OnboardingTypeOK, GenFits
  <2> QED
    BY <1>0, <1>3, <2>1, MoveInv
    DEF InsertSchedule, GenFits, GenPc, AskedPc, RowPc, OpenPc, DonePc
<1>4. CASE ReadForSchedule(c)
  <2>1. RowsTyped' /\ UNCHANGED <<reports, last, reportFaults>> /\ checklist \in Checklist
    BY <1>0, <1>4, GenOnlyTyped DEF ReadForSchedule, GenOnly, RowsTyped, OnboardingTypeOK, RowFound
  <2>2. PICK d : d = [gen[c] EXCEPT !.pc = "save", !.seen = checklist]
    OBVIOUS
  <2>3. gen' = [gen EXCEPT ![c] = d]
    BY <1>0, <1>4, <2>2 DEF ReadForSchedule, Gen
  <2>4. d \in Gen /\ d.pc = "save" /\ d.run = gen[c].run /\ d.seen \in Checklist
    BY <1>0, <2>1, <2>2 DEF Gen, GenPc
  <2>5. GenFits(c, d)
    BY <1>0, <1>4, <2>4 DEF ReadForSchedule, GenFits, AskedPc, RowPc, OpenPc, DonePc
  <2> QED
    BY <1>0, <2>1, <2>3, <2>4, <2>5, KeepsRows
<1>5. CASE SaveForSchedule(c)
  <2>1. checklist' \in Checklist
    BY <1>0, <1>5 DEF SaveForSchedule, SaveStep, Checklist, GenFits
  <2>2. RowsTyped' /\ UNCHANGED <<reports, last, reportFaults>>
    BY <1>0, <1>5, <2>1 DEF SaveForSchedule, RowsTyped, OnboardingTypeOK
  <2> QED
    BY <1>0, <1>5, <2>2, GenEnds DEF SaveForSchedule, OpenPc
<1> QED
  BY <1>1, <1>2, <1>3, <1>4, <1>5 DEF ClerkStep

LEMMA TickInv ==
  ASSUME RowsInv, NEW t \in Tickers, TickStep(t)
  PROVE  RowsInv'
<1>0. /\ RowsTyped /\ gen \in [Gens -> Gen] /\ t \in Gens /\ t \notin Clerks /\ gen[t] \in Gen
      /\ GenFits(t, gen[t])
  BY RowsTypedNow
<1>1. CASE StartTick(t)
  <2>1. RowsTyped' /\ UNCHANGED <<reports, last, reportFaults>>
    BY <1>0, <1>1, ReportsAssumption DEF StartTick, RowsTyped, OnboardingTypeOK
  <2>2. PICK d : d = [IdleGen EXCEPT !.pc = "next", !.todo = schedules, !.rows = last, !.at = clock]
    OBVIOUS
  <2>3. gen' = [gen EXCEPT ![t] = d]
    BY <1>1, <2>2 DEF StartTick
  <2>4. /\ last \in [Schedules -> LastTriggered] /\ schedules \in SUBSET Schedules
        /\ clock \in Nat
    BY <1>0, ReportsAssumption DEF RowsTyped
  <2>5. d \in Gen /\ d.pc = "next" /\ d.run = 0
    BY <2>2, <2>4, IdleGenTyped DEF IdleGen, Gen, GenPc
  <2>6. GenFits(t, d) /\ gen[t].run = 0
    BY <1>0, <1>1, <2>5 DEF StartTick, GenFits, AskedPc, RowPc, OpenPc, DonePc
  <2> QED
    BY <1>0, <2>1, <2>3, <2>5, <2>6, KeepsRows
<1>2. CASE NextSchedule(t)
  <2>1. RowsTyped' /\ UNCHANGED <<reports, last, reportFaults>>
    BY <1>0, <1>2, GenOnlyTyped DEF NextSchedule, GenOnly
  <2>2. PICK s \in gen[t].todo :
            gen' = [gen EXCEPT ![t] =
                IF IsScheduleDue(s, gen[t].rows, gen[t].at) /\ WithinLimit(s)
                THEN [[gen[t] EXCEPT !.todo = @ \ {s}] EXCEPT
                         !.pc = "access", !.on = s, !.template = Terms[s].template]
                ELSE [gen[t] EXCEPT !.todo = @ \ {s}]]
    BY <1>2 DEF NextSchedule
  <2>3. PICK e : e = [gen[t] EXCEPT !.todo = @ \ {s}]
    OBVIOUS
  <2>4. e \in Gen /\ e.pc = "next" /\ e.run = gen[t].run /\ e.run = 0
    BY <1>0, <1>2, <2>3 DEF NextSchedule, Gen, GenFits, RowPc, OpenPc, DonePc
  <2>5. PICK d : d = [e EXCEPT !.pc = "access", !.on = s, !.template = Terms[s].template]
    OBVIOUS
  <2>6. s \in Schedules /\ Terms[s].template \in Template
    BY <1>0, <2>2, ReportsAssumption DEF Gen
  <2>7. d \in Gen /\ d.pc = "access" /\ d.run = 0 /\ d.on = s /\ d.template = Terms[s].template
    BY <2>4, <2>5, <2>6 DEF Gen, GenPc
  <2>8. GenFits(t, d) /\ GenFits(t, e)
    BY <1>0, <1>2, <2>4, <2>6, <2>7 DEF NextSchedule, GenFits, AskedPc, RowPc, OpenPc, DonePc
  <2>9. gen' = [gen EXCEPT ![t] = d] \/ gen' = [gen EXCEPT ![t] = e]
    BY <2>2, <2>3, <2>5
  <2> QED
    BY <1>0, <2>1, <2>4, <2>7, <2>8, <2>9, KeepsRows
<1>3. CASE EndTick(t)
  BY <1>0, <1>3, GenOnlyTyped, GenEnds DEF EndTick, GenOnly, OpenPc
<1>4. CASE TriggerSchedule(t)
  <2>1. PICK s \in Schedules : /\ s = gen[t].on /\ gen[t].template = Terms[s].template
                               /\ last' = [last EXCEPT ![s] = clock]
    BY <1>0, <1>4 DEF TriggerSchedule, GenFits, RowPc, DonePc
  <2>2. UNCHANGED <<checklist, reports, schedules, reporters, fired, clock, reportFaults>>
    BY <1>4 DEF TriggerSchedule
  <2>3. RowsTyped'
    <3>1. clock \in LastTriggered
      BY <1>0, ReportsAssumption DEF RowsTyped, LastTriggered
    <3> QED
      BY <1>0, <2>1, <2>2, <3>1 DEF RowsTyped, OnboardingTypeOK
  <2>4. PICK d \in Gen : /\ d.pc = "dispatch" /\ d.on = gen[t].on
                         /\ d.template = gen[t].template /\ d.run = gen[t].run
                         /\ gen' = [gen EXCEPT ![t] = d]
    BY <1>0, <1>4, GenMoves DEF TriggerSchedule, GenPc
  <2>5. HasRow(t, gen[t]) /\ gen[t].pc = "trigger"
    BY <1>0, <1>4 DEF TriggerSchedule, GenFits, RowPc, DonePc
  <2>6. GenFits(t, d)
    BY <1>0, <2>4, <2>5 DEF GenFits, HasRow, AskedPc, RowPc, OpenPc, DonePc
  <2>7. TriggeredMeansCompleted'
    <3>1. \E i \in DOMAIN reports : /\ reports[i].by = "cron" /\ reports[i].status = "COMPLETED"
                                    /\ reports[i].template = Terms[s].template
      BY <2>1, <2>5 DEF HasRow, MadeBy, DonePc
    <3> QED
      BY <1>0, <2>1, <2>2, <3>1 DEF RowsInv, RowsTyped, TriggeredMeansCompleted
  <2>8. RowsGrow /\ GenFits(t, d)'
    BY <2>2, <2>6 DEF RowsGrow, GenFits, HasRow
  <2> QED
    BY <1>0, <2>2, <2>3, <2>4, <2>7, <2>8, GenGoesOn
<1>5. CASE DispatchReport(t)
  <2>1. RowsTyped' /\ UNCHANGED <<reports, last, reportFaults>>
    BY <1>0, <1>5, GenOnlyTyped DEF DispatchReport, GenOnly
  <2>2. PICK d : d = [gen[t] EXCEPT !.pc = "next", !.on = None, !.template = None, !.run = 0]
    OBVIOUS
  <2>3. gen' = [gen EXCEPT ![t] = d]
    BY <1>5, <2>2 DEF DispatchReport
  <2>4. d \in Gen /\ d.pc = "next" /\ d.run = 0
    BY <1>0, <2>2 DEF Gen, GenPc
  <2> QED
    <3>1. RowsGrow /\ TriggeredMeansCompleted'
      BY <2>1, TriggeredKept DEF RowsGrow, RowsInv
    <3>2. gen[t].pc = "dispatch" /\ HasRow(t, gen[t])
      BY <1>0, <1>5 DEF DispatchReport, GenFits, RowPc, DonePc
    <3>3. reports[gen[t].run].status = "COMPLETED"
      BY <3>2 DEF HasRow, DonePc
    <3>4. GenFits(t, d)'
      BY <1>0, <2>4 DEF GenFits, AskedPc, RowPc, OpenPc, DonePc
    <3> QED
      BY <1>0, <2>1, <2>3, <2>4, <3>1, <3>3, <3>4, GenGoesOn
<1> QED
  BY <1>1, <1>2, <1>3, <1>4, <1>5 DEF TickStep

(* A run that is not completed gets another status.                        *)
LEMMA RowSet ==
  ASSUME RowsInv, NEW g \in Gens, gen[g].pc \in OpenPc, NEW status \in ReportStatus,
         SetRun(g, status), UNCHANGED last
  PROVE  /\ reports' \in Seq(Report) /\ RowsGrow /\ TriggeredMeansCompleted'
         /\ DOMAIN reports' = DOMAIN reports
         /\ gen[g].run \in DOMAIN reports /\ reports'[gen[g].run].status = status
         /\ \A i \in DOMAIN reports : i # gen[g].run => reports'[i] = reports[i]
<1>0. reports \in Seq(Report) /\ HasRow(g, gen[g])
  BY DEF RowsInv, ReportsTypeOK, GenFits, RowPc
<1>1. PICK i \in DOMAIN reports : i = gen[g].run /\ reports[i].status # "COMPLETED" /\ reports[i] \in Report
  BY <1>0 DEF HasRow
<1>2. PICK row : row = [reports[i] EXCEPT !.status = status]
  OBVIOUS
<1>3. row \in Report /\ row.status = status /\ row.template = reports[i].template
      /\ row.by = reports[i].by /\ row.day = reports[i].day
  BY <1>1, <1>2 DEF Report
<1>4. reports' = [reports EXCEPT ![i] = row]
  BY <1>1, <1>2 DEF SetRun
<1>5. /\ reports' \in Seq(Report) /\ DOMAIN reports' = DOMAIN reports /\ reports'[i] = row
      /\ \A j \in DOMAIN reports : j # i => reports'[j] = reports[j]
  BY <1>0, <1>3, <1>4, ExceptSeq
<1>6. RowsGrow
  BY <1>1, <1>3, <1>5 DEF RowsGrow
<1> QED
  BY <1>1, <1>3, <1>5, <1>6, TriggeredKept DEF RowsInv

LEMMA GenerateInv ==
  ASSUME RowsInv, NEW g \in Gens, GenerateStep(g)
  PROVE  RowsInv'
<1>0. /\ RowsTyped /\ gen \in [Gens -> Gen] /\ gen[g] \in Gen /\ GenFits(g, gen[g])
      /\ Clerks \cap Tickers = {} /\ Gens = Clerks \cup Tickers
      /\ reports \in Seq(Report)
  BY RowsTypedNow DEF RowsTyped
<1> USE DEF AskedPc, OpenPc, DonePc, RowPc
<1>1. CASE AccessReport(g)
  <2>1. RowsTyped' /\ UNCHANGED <<reports, last, reportFaults>>
    BY <1>0, <1>1, GenOnlyTyped DEF AccessReport, GenOnly
  <2>2. CASE Stops(g)
    BY <1>0, <1>1, <2>1, <2>2, GenEnds DEF AccessReport
  <2>3. CASE Moves(g, "create")
    BY <1>0, <1>1, <2>1, <2>3, MoveInv DEF AccessReport, GenFits, GenPc
  <2> QED
    BY <1>1, <2>2, <2>3 DEF AccessReport
<1>2. CASE CreateRun(g)
  <2>0. gen[g].pc = "create" /\ gen[g].run = 0 /\ gen[g].template \in Template
        /\ (g \in Tickers => gen[g].on \in Schedules /\ gen[g].template = Terms[gen[g].on].template)
    BY <1>0, <1>2 DEF CreateRun, GenFits
  <2>1. PICK row : row = [template |-> gen[g].template, status |-> "QUEUED",
                          by |-> MadeBy(g), day |-> clock \div Day]
    OBVIOUS
  <2>2. row \in Report /\ row.template = gen[g].template /\ row.by = MadeBy(g) /\ row.status = "QUEUED"
    <3>1. clock \div Day \in Nat
      <4>1. clock \in Nat
        BY <1>0, ReportsAssumption DEF RowsTyped
      <4> QED
        BY <4>1, DayIsNat
    <3> QED
      BY <2>0, <2>1, <3>1 DEF Report, ReportStatus, MadeBy
  <2>3. reports' = Append(reports, row)
        /\ UNCHANGED <<checklist, schedules, last, reporters, fired, clock, reportFaults>>
    BY <1>2, <2>1 DEF CreateRun, RowOnly, MadeBy
  <2>4. PICK n : n = Len(reports) + 1
    OBVIOUS
  <2>5. /\ reports' \in Seq(Report) /\ n \in Nat \ {0} /\ n \notin DOMAIN reports
        /\ n \in DOMAIN reports' /\ reports'[n] = row
        /\ DOMAIN reports \subseteq DOMAIN reports'
        /\ \A i \in DOMAIN reports : reports'[i] = reports[i]
        /\ \A i \in DOMAIN reports' : i # n => i \in DOMAIN reports
    BY <1>0, <2>2, <2>3, <2>4, AppendProperties
  <2>6. PICK d : d = [gen[g] EXCEPT !.pc = "running", !.run = n]
    OBVIOUS
  <2>7. gen' = [gen EXCEPT ![g] = d]
    BY <1>2, <2>4, <2>6 DEF CreateRun
  <2>8. d \in Gen /\ d.pc = "running" /\ d.on = gen[g].on /\ d.template = gen[g].template
        /\ d.run = n
    BY <1>0, <2>5, <2>6 DEF Gen, GenPc
  <2>9. RowsTyped'
    BY <1>0, <2>3, <2>5 DEF RowsTyped, OnboardingTypeOK
  <2>10. RowsGrow /\ TriggeredMeansCompleted'
    <3>1. RowsGrow
      BY <2>5 DEF RowsGrow
    <3> QED
      BY <2>3, <3>1, TriggeredKept DEF RowsInv
  <2>11. GenFits(g, d)'
    BY <1>0, <2>0, <2>2, <2>5, <2>8 DEF GenFits, HasRow
  <2>12. n # gen[g].run /\ gen[g].run = 0 /\ 0 \notin DOMAIN reports
    BY <1>0, <2>0, <2>5
  <2> QED
    BY <1>0, <2>3, <2>5, <2>7, <2>8, <2>9, <2>10, <2>11, <2>12, GenGoesOn
<1>3. CASE StartRun(g) \/ CompleteRun(g)
  <2>1. PICK pc \in {"build", "reread"}, status \in {"RUNNING", "COMPLETED"} :
            /\ SetRun(g, status) /\ Moves(g, pc)
            /\ pc = "reread" <=> status = "COMPLETED"
    BY <1>3 DEF StartRun, CompleteRun
  <2>2. /\ gen[g].pc \in OpenPc /\ gen[g].pc # "fail"
        /\ UNCHANGED <<checklist, schedules, last, reporters, fired, clock, reportFaults>>
    BY <1>3 DEF StartRun, CompleteRun, RowOnly
  <2>3. /\ reports' \in Seq(Report) /\ RowsGrow /\ TriggeredMeansCompleted'
        /\ DOMAIN reports' = DOMAIN reports
        /\ gen[g].run \in DOMAIN reports /\ reports'[gen[g].run].status = status
        /\ \A i \in DOMAIN reports : i # gen[g].run => reports'[i] = reports[i]
    BY <2>1, <2>2, RowSet DEF ReportStatus
  <2>4. PICK d \in Gen : /\ d.pc = pc /\ d.on = gen[g].on
                         /\ d.template = gen[g].template /\ d.run = gen[g].run
                         /\ gen' = [gen EXCEPT ![g] = d]
    BY <2>1, GenMoves DEF GenPc
  <2>5. RowsTyped'
    BY <1>0, <2>2, <2>3 DEF RowsTyped, OnboardingTypeOK
  <2>6. GenFits(g, d)'
    BY <1>0, <2>1, <2>2, <2>3, <2>4 DEF GenFits, HasRow, RowsGrow
  <2> QED
    BY <2>2, <2>3, <2>4, <2>5, <2>6, GenGoesOn
<1>4. CASE BuildPayload(g)
  <2>1. RowsTyped' /\ UNCHANGED <<reports, last, reportFaults>>
    BY <1>0, <1>4, GenOnlyTyped DEF BuildPayload, GenOnly
  <2>2. PICK pc \in {"complete", "fail"} : Moves(g, pc)
    BY <1>4 DEF BuildPayload
  <2> QED
    BY <1>0, <1>4, <2>1, <2>2, MoveInv DEF BuildPayload, GenFits, HasRow, GenPc
<1>5. CASE FailRun(g)
  <2>1. /\ gen[g].pc \in OpenPc /\ SetRun(g, "FAILED") /\ Stops(g)
        /\ UNCHANGED <<checklist, schedules, last, reporters, fired, clock, reportFaults>>
    BY <1>5 DEF FailRun, RowOnly
  <2>2. /\ reports' \in Seq(Report) /\ RowsGrow /\ TriggeredMeansCompleted'
        /\ DOMAIN reports' = DOMAIN reports
        /\ gen[g].run \in DOMAIN reports /\ reports'[gen[g].run].status = "FAILED"
        /\ \A i \in DOMAIN reports : i # gen[g].run => reports'[i] = reports[i]
    BY <2>1, RowSet DEF ReportStatus
  <2>3. RowsTyped'
    BY <1>0, <2>1, <2>2 DEF RowsTyped, OnboardingTypeOK
  <2>4. GenFits(g, IdleGen)'
    BY IdleGenTyped DEF GenFits
  <2> QED
    BY <2>1, <2>2, <2>3, <2>4, IdleGenTyped, GenGoesOn DEF Stops
<1>6. CASE RereadRun(g)
  <2>1. RowsTyped' /\ UNCHANGED <<reports, last, reportFaults>>
    BY <1>0, <1>6, GenOnlyTyped DEF RereadRun, GenOnly
  <2>2. CASE g \notin Tickers
    BY <1>0, <1>6, <2>1, <2>2, GenEnds DEF RereadRun
  <2>3. CASE g \in Tickers
    BY <1>0, <1>6, <2>1, <2>3, MoveInv DEF RereadRun, GenFits, HasRow, GenPc
  <2> QED
    BY <2>2, <2>3
<1> QED
  BY <1>1, <1>2, <1>3, <1>4, <1>5, <1>6 DEF GenerateStep

LEMMA OthersInv ==
  ASSUME RowsInv,
         \/ \E g \in Gens : ReportCallFails(g)
         \/ ReportCrash \/ AccessChanges \/ ReportClock \/ UNCHANGED repVars
  PROVE  RowsInv'
<1>0. /\ RowsTyped /\ gen \in [Gens -> Gen] /\ Gens = Clerks \cup Tickers
      /\ \A g \in Gens : GenFits(g, gen[g]) /\ gen[g] \in Gen
      /\ ReportFaults \in Nat /\ MaxClock \in Nat
  BY RowsTypedNow, ReportsAssumption
<1>1. ASSUME NEW g \in Gens, ReportCallFails(g) PROVE RowsInv'
  <2>1. /\ UNCHANGED <<checklist, reports, schedules, last, reporters, fired, clock>>
        /\ reportFaults' = reportFaults + 1 /\ reportFaults < ReportFaults
    BY <1>1 DEF ReportCallFails
  <2>2. RowsTyped' /\ reportFaults' # 0
    BY <1>0, <2>1 DEF RowsTyped, OnboardingTypeOK
  <2>3. CASE Stops(g)
    BY <2>1, <2>2, <2>3, GenEnds
  <2>4. CASE gen[g].pc \in InTry /\ Moves(g, "fail")
    <3>1. PICK d \in Gen : /\ d.pc = "fail" /\ d.on = gen[g].on
                           /\ d.template = gen[g].template /\ d.run = gen[g].run
                           /\ gen' = [gen EXCEPT ![g] = d]
      BY <2>4, GenMoves DEF GenPc
    <3>2. RowsGrow /\ TriggeredMeansCompleted'
      BY <2>1, TriggeredKept DEF RowsGrow, RowsInv
    <3>3. GenFits(g, gen[g])
      BY <1>0
    <3>4. GenFits(g, d)'
      BY <2>1, <2>4, <3>1, <3>3 DEF GenFits, HasRow, InTry, AskedPc, RowPc, OpenPc, DonePc
    <3> QED
      BY <2>1, <2>2, <3>1, <3>2, <3>4, GenGoesOn
  <2> QED
    BY <1>1, <2>3, <2>4 DEF ReportCallFails, AfterFailure
<1>2. CASE ReportCrash
  <2>1. /\ UNCHANGED <<checklist, reports, schedules, last, reporters, fired, clock>>
        /\ reportFaults' = reportFaults + 1 /\ reportFaults < ReportFaults
        /\ gen' = [g \in Gens |-> IdleGen]
    BY <1>0, <1>2 DEF ReportCrash
  <2>2. ReportsTypeOK' /\ reportFaults' # 0
    BY <1>0, <2>1, IdleGenTyped DEF RowsTyped, ReportsTypeOK, OnboardingTypeOK
  <2>3. \A g \in Gens : GenFits(g, gen[g])'
    BY <2>1, IdleGenTyped DEF GenFits, AskedPc, RowPc, OpenPc, DonePc
  <2>4. OwnRows'
    BY <2>1, IdleGenTyped DEF OwnRows
  <2>5. TriggeredMeansCompleted' /\ UnfinishedIsInProgress'
    BY <2>1, <2>2 DEF RowsInv, TriggeredMeansCompleted, UnfinishedIsInProgress
  <2> QED
    BY <2>2, <2>3, <2>4, <2>5 DEF RowsInv
<1>3. CASE UNCHANGED <<checklist, reports, schedules, last, gen, fired, reportFaults>>
           /\ reporters' \subseteq Actors /\ clock' \in 0..MaxClock
  <2>1. ReportsTypeOK'
    BY <1>3 DEF RowsInv, ReportsTypeOK, OnboardingTypeOK
  <2>2. \A g \in Gens : GenFits(g, gen[g])'
    BY <1>0, <1>3 DEF GenFits, HasRow
  <2> QED
    BY <1>3, <2>1, <2>2 DEF RowsInv, OwnRows, TriggeredMeansCompleted, UnfinishedIsInProgress
<1>4. CASE AccessChanges
  BY <1>0, <1>3, <1>4 DEF AccessChanges, RowsTyped
<1>5. CASE ReportClock
  BY <1>0, <1>3, <1>5 DEF ReportClock, RowsTyped
<1>6. CASE UNCHANGED repVars
  BY <1>0, <1>3, <1>6 DEF repVars, RowsTyped
<1> QED
  BY <1>1, <1>2, <1>4, <1>5, <1>6

LEMMA RowsNext == RowsInv /\ [ReportsNext]_repVars => RowsInv'
<1> QED
  BY ReportAskInv, ClerkInv, TickInv, GenerateInv, OthersInv DEF ReportsNext, ReportWorks, Gens

LEMMA RowsHold == ReportsSpec => []RowsInv
<1> QED
  BY RowsInit, RowsNext, PTL DEF ReportsSpec

(***************************************************************************)
(* What is written into the rows                                           *)
(***************************************************************************)

(* A row is made, or the open row of a request or tick gets a status.      *)
GenWrites(g) == CreateRun(g) \/ (gen[g].pc \in OpenPc /\ \E status \in ReportStatus : SetRun(g, status))

LEMMA RowWritten ==
  ASSUME RowsInv, [ReportsNext]_repVars, ~UNCHANGED reports
  PROVE  \E g \in Gens : GenWrites(g)
<1>1. \E g \in Gens : GenerateStep(g)
  BY DEF ReportsNext, repVars, AskReport, AskSchedule, GenOnly, ReportWorks, ClerkStep,
     PassReportGate, MakeReportRow, InsertSchedule, ReadForSchedule, SaveForSchedule, TickStep,
     StartTick, NextSchedule, EndTick, TriggerSchedule, DispatchReport, ReportCallFails, ReportCrash,
     AccessChanges, ReportClock, Gens
<1> QED
  BY <1>1 DEF GenerateStep, AccessReport, GenOnly, StartRun, BuildPayload, CompleteRun, FailRun,
     RereadRun, GenWrites, OpenPc, ReportStatus

LEMMA RowAppended ==
  ASSUME RowsInv, NEW g \in Gens, CreateRun(g)
  PROVE  \E n \in Nat : /\ n \notin DOMAIN reports /\ DOMAIN reports' = DOMAIN reports \cup {n}
                        /\ reports'[n] = [template |-> gen[g].template, status |-> "QUEUED",
                                          by |-> MadeBy(g), day |-> clock \div Day]
                        /\ \A i \in DOMAIN reports : reports'[i] = reports[i]
<1>1. PICK row : row = [template |-> gen[g].template, status |-> "QUEUED",
                        by |-> MadeBy(g), day |-> clock \div Day]
  OBVIOUS
<1>2. reports' = Append(reports, row)
  BY <1>1 DEF CreateRun, MadeBy
<1>3. reports \in Seq(Report \cup {row}) /\ row \in Report \cup {row}
  BY DEF RowsInv, ReportsTypeOK
<1>4. PICK n \in Nat : n = Len(reports) + 1
  BY <1>3
<1> QED
  BY <1>1, <1>2, <1>3, <1>4, AppendProperties

(* A completed run stays as it is.                                         *)
LEMMA CompletedKept ==
  ASSUME RowsInv, [ReportsNext]_repVars, NEW i \in DOMAIN reports, reports[i].status = "COMPLETED"
  PROVE  reports'[i] = reports[i]
<1>1. SUFFICES ASSUME NEW g \in Gens, GenWrites(g) PROVE reports'[i] = reports[i]
  BY RowWritten
<1>2. CASE CreateRun(g)
  BY <1>2, RowAppended
<1>3. CASE gen[g].pc \in OpenPc /\ \E status \in ReportStatus : SetRun(g, status)
  <2>1. i # gen[g].run
    BY <1>3 DEF RowsInv, GenFits, HasRow, RowPc
  <2>2. reports \in Seq(Report)
    BY DEF RowsInv, ReportsTypeOK
  <2> QED
    BY <1>3, <2>1, <2>2 DEF SetRun
<1> QED
  BY <1>1, <1>2, <1>3 DEF GenWrites

(***************************************************************************)
(* The limit of a day                                                      *)
(***************************************************************************)

CronRuns(t, d) == {i \in DOMAIN reports : /\ reports[i].by = "cron"
                                          /\ reports[i].template = t
                                          /\ reports[i].day = d}
(* The ticks that have counted the runs and have not inserted theirs.      *)
PendingTick(t) == {g \in Tickers : gen[g].pc \in AskedPc /\ gen[g].template = t}
MostRuns(s) == \A s2 \in Schedules : Terms[s2].template = Terms[s].template => Terms[s2].limit <= Terms[s].limit
RunsBound(s) == Terms[s].limit + Cardinality(Tickers) - 1

LimitOf(s) ==
    LET t == Terms[s].template
    IN  /\ PendingTick(t) # {} => Terms[s].limit >= 1
        /\ \A d \in Nat : Cardinality(CronRuns(t, d)) <= RunsBound(s)
        /\ Cardinality(CronRuns(t, clock \div Day)) + Cardinality(PendingTick(t)) <= RunsBound(s)
LimitInv ==
    /\ \A i \in DOMAIN reports : reports[i].day <= clock \div Day
    /\ \A s \in Schedules : MostRuns(s) => LimitOf(s)

LEMMA RunsCounted ==
  ASSUME RowsInv, NEW t
  PROVE  /\ \A d : IsFiniteSet(CronRuns(t, d)) /\ Cardinality(CronRuns(t, d)) \in Nat
         /\ IsFiniteSet(PendingTick(t)) /\ Cardinality(PendingTick(t)) \in Nat
         /\ Cardinality(PendingTick(t)) <= Cardinality(Tickers)
         /\ Cardinality(Tickers) \in Nat \ {0}
         /\ IsFiniteSet(DOMAIN reports)
<1>1. IsFiniteSet(DOMAIN reports)
  <2>1. DOMAIN reports = 1..Len(reports) /\ Len(reports) \in Nat
    BY DEF RowsInv, ReportsTypeOK
  <2> QED
    BY <2>1, FS_Interval
<1>2. \A d : IsFiniteSet(CronRuns(t, d)) /\ Cardinality(CronRuns(t, d)) \in Nat
  <2> SUFFICES ASSUME NEW d PROVE IsFiniteSet(CronRuns(t, d)) /\ Cardinality(CronRuns(t, d)) \in Nat
    OBVIOUS
  <2>1. CronRuns(t, d) \in SUBSET DOMAIN reports
    BY DEF CronRuns
  <2> QED
    BY <1>1, <2>1, FS_Subset, FS_CardinalityType
<1>3. IsFiniteSet(Tickers) /\ Cardinality(Tickers) \in Nat \ {0}
  BY ReportsAssumption, FS_CardinalityType, FS_EmptySet
<1>4. PendingTick(t) \in SUBSET Tickers
  BY DEF PendingTick
<1> QED
  BY <1>1, <1>2, <1>3, <1>4, FS_Subset, FS_CardinalityType

LEMMA LimitIsNat == ASSUME NEW s \in Schedules PROVE Terms[s].limit \in Nat /\ Terms[s].template \in Template
<1> QED
  BY ReportsAssumption

LEMMA LimitInit == ReportsInit => LimitInv
<1> SUFFICES ASSUME ReportsInit PROVE LimitInv
  OBVIOUS
<1>1. reports = <<>> /\ \A g \in Tickers : gen[g].pc = "idle"
  BY IdleGenTyped DEF ReportsInit
<1>2. ASSUME NEW t PROVE PendingTick(t) = {} /\ \A d : CronRuns(t, d) = {}
  BY <1>1 DEF PendingTick, CronRuns, AskedPc
<1>3. Cardinality(Tickers) \in Nat \ {0} /\ Cardinality({}) = 0
  BY RowsInit, RunsCounted, FS_EmptySet
<1>4. ASSUME NEW s \in Schedules PROVE LimitOf(s)
  <2>1. PICK none : none = Cardinality({}) /\ none = 0
    BY <1>3
  <2>2. /\ PendingTick(Terms[s].template) = {} /\ Cardinality(PendingTick(Terms[s].template)) = none
        /\ \A d : Cardinality(CronRuns(Terms[s].template, d)) = none
    BY <1>2, <2>1
  <2>3. none <= RunsBound(s) /\ none + none <= RunsBound(s)
    BY <1>3, <2>1, LimitIsNat DEF RunsBound
  <2> QED
    BY <2>2, <2>3 DEF LimitOf
<1> QED
  BY <1>1, <1>4 DEF LimitInv

(* Nothing is counted anew, and no tick passes the limit.                  *)
LEMMA LimitKept ==
  ASSUME RowsInv, LimitInv, UNCHANGED clock, DOMAIN reports' = DOMAIN reports,
         \A i \in DOMAIN reports : /\ reports'[i].by = reports[i].by
                                   /\ reports'[i].template = reports[i].template
                                   /\ reports'[i].day = reports[i].day,
         \A g \in Tickers : gen'[g].pc \in AskedPc =>
             gen[g].pc \in AskedPc /\ gen[g].template = gen'[g].template
  PROVE  LimitInv'
<1>1. ASSUME NEW s \in Schedules, MostRuns(s) PROVE LimitOf(s)'
  <2>1. PICK t, today : t = Terms[s].template /\ today = clock \div Day
    OBVIOUS
  <2>2. \A d : CronRuns(t, d)' = CronRuns(t, d)
    BY DEF CronRuns
  <2>3. PendingTick(t)' \in SUBSET PendingTick(t)
    BY DEF PendingTick
  <2>4. /\ IsFiniteSet(PendingTick(t)) /\ Cardinality(PendingTick(t)) \in Nat
        /\ \A d : Cardinality(CronRuns(t, d)) \in Nat /\ Cardinality(Tickers) \in Nat
    BY RunsCounted
  <2>5. /\ Cardinality(PendingTick(t)') <= Cardinality(PendingTick(t))
        /\ Cardinality(PendingTick(t)') \in Nat
    BY <2>3, <2>4, FS_Subset, FS_CardinalityType
  <2>6. LimitOf(s)
    BY <1>1 DEF LimitInv
  <2>7. /\ PendingTick(t)' # {} => Terms[s].limit >= 1
        /\ \A d \in Nat : Cardinality(CronRuns(t, d)') <= RunsBound(s)
    BY <2>1, <2>2, <2>3, <2>6 DEF LimitOf
  <2>8. Cardinality(CronRuns(t, today)') + Cardinality(PendingTick(t)') <= RunsBound(s)
    BY <2>1, <2>2, <2>4, <2>5, <2>6, LimitIsNat DEF LimitOf, RunsBound
  <2> QED
    BY <2>1, <2>7, <2>8 DEF LimitOf, RunsBound
<1>2. \A i \in DOMAIN reports' : reports'[i].day <= clock' \div Day
  BY DEF LimitInv
<1> QED
  BY <1>1, <1>2 DEF LimitInv, MostRuns

(* A tick that finds the limit not yet reached is pending from here on.    *)
LEMMA LimitNext ==
  ASSUME RowsInv, LimitInv, NEW t \in Tickers, NextSchedule(t), RowsInv'
  PROVE  LimitInv'
<1>0. /\ UNCHANGED <<reports, clock>> /\ gen \in [Gens -> Gen] /\ t \in Gens /\ gen[t].pc = "next"
      /\ gen[t] \in Gen
  BY RowsTypedNow DEF NextSchedule, GenOnly
<1>1. PICK s \in gen[t].todo :
          gen' = [gen EXCEPT ![t] =
              IF IsScheduleDue(s, gen[t].rows, gen[t].at) /\ WithinLimit(s)
              THEN [[gen[t] EXCEPT !.todo = @ \ {s}] EXCEPT
                       !.pc = "access", !.on = s, !.template = Terms[s].template]
              ELSE [gen[t] EXCEPT !.todo = @ \ {s}]]
  BY DEF NextSchedule
<1>2. \A g \in Tickers : g # t => gen'[g] = gen[g]
  BY <1>0, <1>1 DEF Gens
<1>3. s \in Schedules
  BY <1>0, <1>1 DEF Gen
<1>4. CASE IsScheduleDue(s, gen[t].rows, gen[t].at) /\ WithinLimit(s)
  <2>1. gen'[t].pc = "access" /\ gen'[t].template = Terms[s].template
    BY <1>0, <1>1, <1>4 DEF Gen
  <2>2. ASSUME NEW m \in Schedules, MostRuns(m), Terms[m].template = Terms[s].template
        PROVE  LimitOf(m)'
    <3>1. PICK u, today : u = Terms[m].template /\ today = clock \div Day
      OBVIOUS
    <3>2. Terms[s].limit <= Terms[m].limit /\ Terms[s].limit \in Nat /\ Terms[m].limit \in Nat
      BY <1>3, <2>2, LimitIsNat DEF MostRuns
    <3>3. CronRuns(u, today) \in SUBSET Today(u) /\ IsFiniteSet(Today(u))
      <4>1. Today(u) \in SUBSET DOMAIN reports
        BY DEF Today
      <4>2. CronRuns(u, today) \in SUBSET Today(u)
        BY <3>1 DEF Today, CronRuns
      <4> QED
        BY <4>1, <4>2, RunsCounted, FS_Subset
    <3>4. Cardinality(CronRuns(u, today)) < Terms[s].limit
      <4>1. Cardinality(Today(u)) < Terms[s].limit /\ Cardinality(Today(u)) \in Nat
        BY <1>4, <2>2, <3>1, <3>3, FS_CardinalityType DEF WithinLimit
      <4>2. Cardinality(CronRuns(u, today)) <= Cardinality(Today(u))
            /\ Cardinality(CronRuns(u, today)) \in Nat
        BY <3>3, FS_Subset, RunsCounted
      <4> QED
        BY <3>2, <4>1, <4>2
    <3>5. /\ Cardinality(PendingTick(u)') \in Nat /\ Cardinality(PendingTick(u)') <= Cardinality(Tickers)
          /\ Cardinality(Tickers) \in Nat \ {0} /\ Cardinality(CronRuns(u, today)) \in Nat
      <4>1. PendingTick(u)' \in SUBSET Tickers
        BY DEF PendingTick
      <4>2. IsFiniteSet(Tickers)
        BY ReportsAssumption
      <4> QED
        BY <4>1, <4>2, RunsCounted, FS_Subset, FS_CardinalityType
    <3>6. \A d : CronRuns(u, d)' = CronRuns(u, d)
      BY <1>0 DEF CronRuns
    <3>7. Terms[m].limit >= 1 /\ Cardinality(CronRuns(u, today)) + Cardinality(PendingTick(u)') <= RunsBound(m)
      BY <3>2, <3>4, <3>5 DEF RunsBound
    <3>8. \A d \in Nat : Cardinality(CronRuns(u, d)') <= RunsBound(m)
      BY <2>2, <3>1, <3>6 DEF LimitInv, LimitOf
    <3> QED
      BY <1>0, <3>1, <3>6, <3>7, <3>8 DEF LimitOf, RunsBound
  <2>3. ASSUME NEW m \in Schedules, MostRuns(m), Terms[m].template # Terms[s].template
        PROVE  LimitOf(m)'
    <3>1. PICK u, today : u = Terms[m].template /\ today = clock \div Day
      OBVIOUS
    <3>2. PendingTick(u)' = PendingTick(u)
      BY <1>0, <1>2, <2>1, <2>3, <3>1 DEF PendingTick, AskedPc
    <3>3. \A d : CronRuns(u, d)' = CronRuns(u, d)
      BY <1>0 DEF CronRuns
    <3>4. LimitOf(m)
      BY <2>3 DEF LimitInv
    <3> QED
      BY <1>0, <3>1, <3>2, <3>3, <3>4 DEF LimitOf, RunsBound
  <2>4. \A m \in Schedules : MostRuns(m)' => LimitOf(m)'
    BY <2>2, <2>3 DEF MostRuns
  <2> QED
    BY <1>0, <2>4 DEF LimitInv
<1>5. CASE ~(IsScheduleDue(s, gen[t].rows, gen[t].at) /\ WithinLimit(s))
  <2>1. gen'[t].pc = "next"
    BY <1>0, <1>1, <1>5 DEF Gen
  <2> QED
    BY <1>0, <1>2, <2>1, LimitKept DEF AskedPc
<1> QED
  BY <1>4, <1>5

(* Its run then counts instead of the tick.                                *)
LEMMA LimitCreate ==
  ASSUME RowsInv, LimitInv, NEW g \in Gens, CreateRun(g)
  PROVE  LimitInv'
<1>0. /\ gen \in [Gens -> Gen] /\ gen[g] \in Gen /\ GenFits(g, gen[g]) /\ gen[g].pc = "create"
      /\ UNCHANGED clock /\ clock \in Nat /\ Gens = Clerks \cup Tickers
  BY RowsTypedNow, ReportsAssumption DEF CreateRun, RowOnly, RowsTyped
<1>1. PICK n \in Nat : /\ n \notin DOMAIN reports /\ DOMAIN reports' = DOMAIN reports \cup {n}
                       /\ reports'[n] = [template |-> gen[g].template, status |-> "QUEUED",
                                         by |-> MadeBy(g), day |-> clock \div Day]
                       /\ \A i \in DOMAIN reports : reports'[i] = reports[i]
  BY RowAppended
<1>2. gen'[g].pc = "running" /\ \A h \in Gens : h # g => gen'[h] = gen[h]
  BY <1>0 DEF CreateRun, Gen
<1>3. clock \div Day \in Nat
  BY <1>0, DayIsNat
<1>4. ASSUME NEW s \in Schedules, MostRuns(s) PROVE LimitOf(s)'
  <2>1. PICK t \in Template, today \in Nat : t = Terms[s].template /\ today = clock \div Day
    BY <1>3, LimitIsNat
  <2>2. LimitOf(s) /\ Terms[s].limit \in Nat
    BY <1>4, LimitIsNat DEF LimitInv
  <2>3. /\ \A d : IsFiniteSet(CronRuns(t, d)) /\ Cardinality(CronRuns(t, d)) \in Nat
        /\ IsFiniteSet(PendingTick(t)) /\ Cardinality(PendingTick(t)) \in Nat
        /\ Cardinality(Tickers) \in Nat \ {0}
    BY RunsCounted
  <2>4. CASE g \in Tickers /\ gen[g].template = t
    <3>1. PendingTick(t)' = PendingTick(t) \ {g} /\ g \in PendingTick(t)
      BY <1>0, <1>2, <2>4 DEF PendingTick, AskedPc
    <3>2. CronRuns(t, today)' = CronRuns(t, today) \cup {n} /\ n \notin CronRuns(t, today)
      BY <1>1, <2>1, <2>4 DEF CronRuns, MadeBy
    <3>3. \A d : d # today => CronRuns(t, d)' = CronRuns(t, d)
      BY <1>1, <2>1 DEF CronRuns
    <3>4. Cardinality(PendingTick(t)') = Cardinality(PendingTick(t)) - 1
      BY <2>3, <3>1, FS_RemoveElement
    <3>5. Cardinality(CronRuns(t, today)') = Cardinality(CronRuns(t, today)) + 1
      BY <2>3, <3>2, FS_AddElement
    <3>6. Cardinality(PendingTick(t)') \in Nat
      BY <2>3, <3>1, FS_RemoveElement, FS_CardinalityType
    <3>7. /\ Terms[s].limit >= 1 /\ RunsBound(s) \in Int
          /\ Cardinality(CronRuns(t, today)) + Cardinality(PendingTick(t)) <= RunsBound(s)
          /\ \A d \in Nat : Cardinality(CronRuns(t, d)) <= RunsBound(s)
      BY <2>1, <2>2, <2>3, <3>1 DEF LimitOf, RunsBound
    <3>8. Cardinality(CronRuns(t, today)') + Cardinality(PendingTick(t)') <= RunsBound(s)
      BY <2>3, <3>4, <3>5, <3>7
    <3>9. \A d \in Nat : Cardinality(CronRuns(t, d)') <= RunsBound(s)
      <4> SUFFICES ASSUME NEW d \in Nat PROVE Cardinality(CronRuns(t, d)') <= RunsBound(s)
        OBVIOUS
      <4>1. CASE d = today
        BY <2>3, <3>5, <3>6, <3>7, <3>8, <4>1
      <4>2. CASE d # today
        BY <3>3, <3>7, <4>2
      <4> QED
        BY <4>1, <4>2
    <3> QED
      BY <1>0, <2>1, <3>7, <3>8, <3>9 DEF LimitOf, RunsBound
  <2>5. CASE ~(g \in Tickers /\ gen[g].template = t)
    <3>1. PendingTick(t)' = PendingTick(t)
      BY <1>0, <1>2, <2>5 DEF PendingTick, AskedPc
    <3>2. \A d : CronRuns(t, d)' = CronRuns(t, d)
      BY <1>1, <2>5 DEF CronRuns, MadeBy
    <3> QED
      BY <1>0, <2>1, <2>2, <3>1, <3>2 DEF LimitOf, RunsBound
  <2> QED
    BY <2>4, <2>5
<1>5. \A i \in DOMAIN reports' : reports'[i].day <= clock' \div Day
  BY <1>0, <1>1, <1>3 DEF LimitInv
<1> QED
  BY <1>4, <1>5 DEF LimitInv, MostRuns

(* The next day has no runs yet, and at most every tick pending.           *)
LEMMA LimitClock ==
  ASSUME RowsInv, LimitInv, ReportClock
  PROVE  LimitInv'
<1>0. /\ UNCHANGED <<reports, gen>> /\ clock \in Nat /\ clock' = clock + 1
      /\ reports \in Seq(Report)
  BY RowsTypedNow, ReportsAssumption DEF ReportClock, RowsTyped
<1>1. PICK today \in Nat, next \in Nat :
          today = clock \div Day /\ next = clock' \div Day /\ today <= next
  BY <1>0, DayIsNat
<1>2. \A i \in DOMAIN reports : reports[i].day \in Nat /\ reports[i].day <= today
  <2>1. \A i \in DOMAIN reports : reports[i] \in Report
    BY <1>0
  <2> QED
    BY <1>1, <2>1 DEF LimitInv, Report
<1>3. ASSUME NEW s \in Schedules, MostRuns(s) PROVE LimitOf(s)'
  <2>1. PICK t \in Template : t = Terms[s].template
    BY LimitIsNat
  <2>2. LimitOf(s) /\ Terms[s].limit \in Nat
    BY <1>3, LimitIsNat DEF LimitInv
  <2>3. /\ Cardinality(PendingTick(t)) \in Nat /\ IsFiniteSet(PendingTick(t))
        /\ Cardinality(PendingTick(t)) <= Cardinality(Tickers)
        /\ Cardinality(Tickers) \in Nat \ {0}
        /\ \A d : Cardinality(CronRuns(t, d)) \in Nat
    BY RunsCounted
  <2>4. PendingTick(t)' = PendingTick(t) /\ \A d : CronRuns(t, d)' = CronRuns(t, d)
    BY <1>0 DEF PendingTick, CronRuns
  <2>5. Cardinality(CronRuns(t, next)) + Cardinality(PendingTick(t)) <= RunsBound(s)
    <3>1. CASE next = today
      BY <1>1, <2>1, <2>2, <3>1 DEF LimitOf
    <3>2. CASE next # today
      <4>1. CronRuns(t, next) = {}
        BY <1>1, <1>2, <3>2 DEF CronRuns
      <4>2. Cardinality(CronRuns(t, next)) = 0
        BY <4>1, FS_EmptySet
      <4>3. Cardinality(PendingTick(t)) = 0 \/ Terms[s].limit >= 1
        BY <2>1, <2>2, FS_EmptySet DEF LimitOf
      <4> QED
        BY <2>2, <2>3, <4>2, <4>3 DEF RunsBound
    <3> QED
      BY <3>1, <3>2
  <2> QED
    BY <1>1, <2>1, <2>2, <2>4, <2>5 DEF LimitOf, RunsBound
<1>4. \A i \in DOMAIN reports' : reports'[i].day <= clock' \div Day
  BY <1>0, <1>1, <1>2
<1> QED
  BY <1>3, <1>4 DEF LimitInv, MostRuns

LEMMA LimitStep == RowsInv /\ RowsInv' /\ LimitInv /\ [ReportsNext]_repVars => LimitInv'
<1> SUFFICES ASSUME RowsInv, RowsInv', LimitInv, [ReportsNext]_repVars PROVE LimitInv'
  OBVIOUS
<1>0. gen \in [Gens -> Gen] /\ Gens = Clerks \cup Tickers /\ Clerks \cap Tickers = {}
      /\ \A g \in Gens : gen[g] \in Gen
  BY RowsTypedNow
<1>1. CASE UNCHANGED <<reports, clock>> /\ \A g \in Tickers : gen'[g].pc \in AskedPc =>
               gen[g].pc \in AskedPc /\ gen[g].template = gen'[g].template
  BY <1>1, LimitKept
<1>2. ASSUME NEW g \in Gens, NEW pc \in GenPc, Moves(g, pc) \/ Stops(g),
             pc \in AskedPc => g \in Clerks \/ gen[g].pc \in AskedPc
      PROVE  \A h \in Tickers : gen'[h].pc \in AskedPc =>
                 gen[h].pc \in AskedPc /\ gen[h].template = gen'[h].template
  BY <1>0, <1>2, IdleGenTyped DEF Moves, Stops, Gen, AskedPc
<1>3. ASSUME NEW c \in Clerks, gen' = [gen EXCEPT ![c] = gen'[c]]
      PROVE  \A h \in Tickers : gen'[h] = gen[h]
  BY <1>0, <1>3
<1>4. ASSUME NEW g \in Gens, gen[g].pc \in OpenPc, NEW status \in ReportStatus, SetRun(g, status),
             UNCHANGED clock, NEW pc \in {"idle", "build", "reread"}, Moves(g, pc) \/ Stops(g)
      PROVE  LimitInv'
  <2>1. /\ DOMAIN reports' = DOMAIN reports
        /\ \A i \in DOMAIN reports : /\ reports'[i].by = reports[i].by
                                     /\ reports'[i].template = reports[i].template
                                     /\ reports'[i].day = reports[i].day
    <3>1. \A i \in DOMAIN reports : reports[i] \in Report
      BY DEF RowsInv, ReportsTypeOK
    <3> QED
      BY <1>4, <3>1 DEF SetRun, Report
  <2> QED
    BY <1>2, <1>4, <2>1, LimitKept DEF GenPc, AskedPc
<1>5. ASSUME NEW c \in Clerks, AskReport(c) \/ AskSchedule(c) \/ ClerkStep(c) PROVE LimitInv'
  <2>1. UNCHANGED <<reports, clock>> /\ \A h \in Tickers : gen'[h] = gen[h]
    BY <1>0, <1>5 DEF AskReport, AskSchedule, GenOnly, ClerkStep, PassReportGate, MakeReportRow,
       InsertSchedule, ReadForSchedule, SaveForSchedule, Moves, Stops
  <2> QED
    BY <1>1, <2>1
<1>6. ASSUME NEW t \in Tickers, TickStep(t) PROVE LimitInv'
  <2>1. CASE NextSchedule(t)
    BY <2>1, LimitNext
  <2>2. CASE EndTick(t) \/ TriggerSchedule(t)
    BY <1>0, <1>1, <1>2, <2>2 DEF EndTick, TriggerSchedule, GenOnly, GenPc, AskedPc
  <2>3. CASE StartTick(t) \/ DispatchReport(t)
    <3>1. UNCHANGED <<reports, clock>> /\ \A h \in Tickers : h # t => gen'[h] = gen[h]
      BY <1>0, <2>3 DEF StartTick, DispatchReport, GenOnly
    <3>2. gen'[t].pc = "next"
      <4>1. CASE StartTick(t)
        BY <1>0, <4>1 DEF StartTick, IdleGen
      <4>2. CASE DispatchReport(t)
        BY <1>0, <4>2 DEF DispatchReport, Gen
      <4> QED
        BY <2>3, <4>1, <4>2
    <3> QED
      BY <1>1, <3>1, <3>2 DEF AskedPc
  <2> QED
    BY <1>6, <2>1, <2>2, <2>3 DEF TickStep
<1>7. ASSUME NEW g \in Gens, GenerateStep(g) PROVE LimitInv'
  <2>1. CASE CreateRun(g)
    BY <2>1, LimitCreate
  <2>2. CASE AccessReport(g) \/ BuildPayload(g) \/ RereadRun(g)
    BY <1>1, <1>2, <2>2 DEF AccessReport, BuildPayload, RereadRun, GenOnly, GenPc, AskedPc
  <2>3. CASE StartRun(g) \/ CompleteRun(g) \/ FailRun(g)
    BY <1>4, <2>3 DEF StartRun, CompleteRun, FailRun, RowOnly, OpenPc, ReportStatus
  <2> QED
    BY <1>7, <2>1, <2>2, <2>3 DEF GenerateStep
<1>8. ASSUME NEW g \in Gens, ReportCallFails(g) PROVE LimitInv'
  BY <1>1, <1>2, <1>8 DEF ReportCallFails, GenPc, AskedPc
<1>9. CASE ReportCrash
  BY <1>0, <1>1, <1>9, IdleGenTyped DEF ReportCrash, AskedPc
<1>10. CASE AccessChanges \/ UNCHANGED repVars
  BY <1>1, <1>10 DEF AccessChanges, repVars
<1> QED
  BY <1>5, <1>6, <1>7, <1>8, <1>9, <1>10, LimitClock DEF ReportsNext, ReportWorks, Gens

(***************************************************************************)
(* Theorems                                                                *)
(***************************************************************************)

(* Schedules, runs, requests and ticks keep their types.                   *)
THEOREM ReportsTypeCorrect == ReportsSpec => []ReportsTypeOK
<1>1. RowsInv => ReportsTypeOK
  BY DEF RowsInv
<1> QED
  BY <1>1, RowsHold, PTL

LEMMA RowsGive == RowsInv /\ LimitInv => ReportsTypeOK /\ ReportsAreAccountedFor
<1>1. RowsInv /\ LimitInv => ScheduledWithinLimit
  <2> SUFFICES ASSUME RowsInv, LimitInv, NEW s \in Schedules, NEW d \in {reports[i].day : i \in DOMAIN reports},
                      MostRuns(s)
               PROVE  Cardinality(CronRuns(Terms[s].template, d)) <= RunsBound(s)
    BY DEF ScheduledWithinLimit, MostRuns, RunsBound, CronRuns
  <2>1. d \in Nat
    <3>1. \A i \in DOMAIN reports : reports[i] \in Report
      BY DEF RowsInv, ReportsTypeOK
    <3> QED
      BY <3>1 DEF Report
  <2> QED
    BY <2>1 DEF LimitInv, LimitOf
<1> QED
  BY <1>1 DEF RowsInv, ReportsAreAccountedFor

(* What the rows of reports and schedules say is what was done: scheduled  *)
(* runs exceed the limit of a day by at most one for each overlapping      *)
(* tick, a schedule was triggered only by a run that was completed, and a  *)
(* run that is not finished is in progress unless a call failed or the     *)
(* process crashed (generateReport, runDueSchedules).                      *)
THEOREM RowsTellWhatWasDone == ReportsSpec => []ReportsAreAccountedFor
<1> QED
  BY RowsGive, RowsInit, RowsNext, LimitInit, LimitStep, PTL DEF ReportsSpec

(* A completed run is not written again.                                   *)
ReportStays(i) == reports[i].status = "COMPLETED" => reports'[i] = reports[i]

LEMMA StayStep == RowsInv /\ [ReportsNext]_repVars => [\A i \in DOMAIN reports : ReportStays(i)]_repVars
<1>1. ASSUME RowsInv, [ReportsNext]_repVars, NEW i \in DOMAIN reports PROVE ReportStays(i)
  BY <1>1, CompletedKept DEF ReportStays
<1> QED
  BY <1>1

(* A run that was completed stays as it is, whatever fails or overlaps     *)
(* after it (generateReport).                                              *)
THEOREM CompletedStays == ReportsSpec => CompletedIsFinal
<1>1. ReportsSpec => [][\A i \in DOMAIN reports : ReportStays(i)]_repVars
  BY StayStep, RowsHold, PTL DEF ReportsSpec
<1> QED
  BY <1>1 DEF CompletedIsFinal, ReportStays

(***************************************************************************)
(* Accounts                                                                *)
(***************************************************************************)

(* A visitor has given an address once it waits for the password's hash or *)
(* was told something.                                                     *)
GaveAddress ==
    \A v \in Visitors : visitor[v].pc # "away" => visitor[v].email \in Emails

(* A request that is to write has a target of the kind that it writes.     *)
Targeted ==
    \A m \in Members : member[m].pc \in {"gate", "write"} =>
        /\ member[m].op \in MemberOp
        /\ member[m].op = "role" =>
               member[m].target \in Members /\ member[m].grant \in Role
        /\ member[m].op = "settings" => member[m].target \in SettingsValues
        /\ member[m].op = "govern" => member[m].target \in GovernanceKeys

MembersInv == MembersTypeOK /\ GaveAddress /\ Targeted /\ RegisteredIsMine

LEMMA FirstsTyped == Away \in Visitor /\ NoRequest \in Request
  BY DEF Away, Visitor, NoRequest, Request

LEMMA MembersInitInv == MembersInit => MembersInv
<1> SUFFICES ASSUME MembersInit PROVE MembersInv
  OBVIOUS
<1>1. MembersTypeOK
  BY FirstsTyped, MembersAssumption DEF MembersInit, MembersTypeOK
<1>2. GaveAddress /\ Targeted /\ RegisteredIsMine
  BY DEF MembersInit, GaveAddress, Targeted, RegisteredIsMine, Away, NoRequest
<1> QED
  BY <1>1, <1>2 DEF MembersInv

(***************************************************************************)
(* Visitors                                                                *)
(***************************************************************************)

(* Registrations and logins: an address is given to one visitor, and       *)
(* whoever was told of a registration still has it.                        *)
LEMMA VisitorInv ==
  ASSUME MembersInv, NEW v \in Visitors, VisitorStep(v)
  PROVE  MembersInv'
<1> USE DEF MembersInv, MembersTypeOK
<1>0. UNCHANGED <<role, settings, governed, member>> /\ visitor[v] \in Visitor
  BY DEF VisitorStep, roleVars
<1>1. Targeted'
  BY <1>0 DEF Targeted
<1>2. CASE FindUser(v)
  <2>1. PICK a \in Emails : visitor' = [visitor EXCEPT ![v] =
            IF accounts[a] = Nobody THEN [Away EXCEPT !.pc = "hash", !.email = a]
            ELSE [pc |-> "told", email |-> a, told |-> "refused"]]
    BY <1>2 DEF FindUser
  <2>2. visitor'[v] \in Visitor /\ visitor'[v].email \in Emails
        /\ visitor'[v].told # "registered"
    BY <2>1 DEF Away, Visitor
  <2>3. UNCHANGED accounts /\ \A u \in Visitors \ {v} : visitor'[u] = visitor[u]
    BY <1>2, <2>1 DEF FindUser
  <2>4. MembersTypeOK'
    BY <1>0, <2>1, <2>2, <2>3
  <2> QED
    BY <1>1, <2>2, <2>3, <2>4 DEF GaveAddress, RegisteredIsMine
<1>3. ASSUME NEW what \in {"registered", "logged in", "refused"}, Told(v, what),
             visitor[v].pc # "away"
      PROVE  /\ visitor' \in [Visitors -> Visitor] /\ GaveAddress'
             /\ visitor'[v].email = visitor[v].email /\ visitor'[v].told = what
             /\ \A u \in Visitors \ {v} : visitor'[u] = visitor[u]
  <2>1. visitor' = [visitor EXCEPT ![v] = [@ EXCEPT !.pc = "told", !.told = what]]
    BY <1>3 DEF Told
  <2>2. [visitor[v] EXCEPT !.pc = "told", !.told = what] \in Visitor
    BY <1>0, <1>3 DEF Visitor
  <2> QED
    BY <1>0, <1>3, <2>1, <2>2 DEF GaveAddress, Visitor
<1>4. CASE CreateUser(v)
  <2>1. visitor[v].pc = "hash" /\ visitor[v].email \in Emails
    BY <1>4 DEF CreateUser, GaveAddress
  <2>2. NewAccount(v) \in Account
    BY DEF NewAccount, Account
  <2>3. accounts' = [accounts EXCEPT ![visitor[v].email] = NewAccount(v)]
        /\ accounts[visitor[v].email] = Nobody /\ Told(v, "registered")
    BY <1>4 DEF CreateUser
  <2>4. MembersTypeOK' /\ GaveAddress'
    BY <1>0, <1>3, <2>1, <2>2, <2>3
  <2>5. ASSUME NEW u \in Visitors, visitor'[u].told = "registered"
        PROVE  accounts'[visitor'[u].email] = [password |-> u, owner |-> u]
    <3>1. CASE u = v
      BY <1>3, <2>1, <2>3, <3>1 DEF NewAccount
    <3>2. CASE u # v
      <4>1. visitor'[u] = visitor[u]
        BY <1>3, <2>1, <2>3, <3>2
      <4>2. accounts[visitor[u].email] = [password |-> u, owner |-> u]
        BY <2>5, <4>1 DEF RegisteredIsMine
      <4>3. visitor[u].email # visitor[v].email
        BY <2>3, <4>2, MembersAssumption
      <4> QED
        BY <2>1, <2>3, <4>1, <4>2, <4>3
    <3> QED
      BY <3>1, <3>2
  <2> QED
    BY <1>1, <2>4, <2>5 DEF RegisteredIsMine
<1>5. CASE AddressTaken(v) \/ Login(v)
  <2>1. PICK what \in {"logged in", "refused"} : Told(v, what)
    BY <1>5 DEF AddressTaken, Login
  <2>2. visitor[v].pc # "away" /\ UNCHANGED accounts
    BY <1>5 DEF AddressTaken, Login
  <2>3. MembersTypeOK' /\ GaveAddress'
    BY <1>0, <1>3, <2>1, <2>2
  <2>4. RegisteredIsMine'
    BY <1>3, <2>1, <2>2 DEF RegisteredIsMine
  <2> QED
    BY <1>1, <2>3, <2>4
<1> QED
  BY <1>2, <1>4, <1>5 DEF VisitorStep

(***************************************************************************)
(* Members                                                                 *)
(***************************************************************************)

(* A request that begins, goes on or ends keeps a target that it may have. *)
LEMMA RequestKept ==
  ASSUME MembersInv, NEW m \in Members, NEW r \in Request,
         member' = [member EXCEPT ![m] = r],
         r.pc \in {"gate", "write"} =>
            /\ r.op \in MemberOp
            /\ r.op = "role" => r.target \in Members /\ r.grant \in Role
            /\ r.op = "settings" => r.target \in SettingsValues
            /\ r.op = "govern" => r.target \in GovernanceKeys
  PROVE  member' \in [Members -> Request] /\ Targeted'
BY DEF MembersInv, MembersTypeOK, Targeted

LEMMA MemberInv ==
  ASSUME MembersInv, NEW m \in Members, MemberStep(m)
  PROVE  MembersInv'
<1> USE DEF MembersInv, MembersTypeOK
<1>0. member[m] \in Request /\ UNCHANGED <<accounts, visitor>>
  BY DEF MemberStep, accountVars
<1>1. GaveAddress' /\ RegisteredIsMine'
  BY <1>0 DEF GaveAddress, RegisteredIsMine
<1>2. ASSUME RequestEnds(m) PROVE member' \in [Members -> Request] /\ Targeted'
  <2>1. NoRequest.pc = "idle"
    BY DEF NoRequest
  <2> QED
    BY <1>2, <2>1, FirstsTyped, RequestKept DEF RequestEnds
<1>3. CASE AskUpdateMemberRole(m) \/ AskUpsertSettings(m) \/ AskUpsertGovernance(m)
  <2>1. ASSUME NEW op, NEW target, NEW grant, MemberStarts(m, op, target, grant),
               [pc |-> "gate", op |-> op, target |-> target, grant |-> grant] \in Request,
               op \in MemberOp,
               op = "role" => target \in Members /\ grant \in Role,
               op = "settings" => target \in SettingsValues,
               op = "govern" => target \in GovernanceKeys
        PROVE  MembersInv'
    <3> DEFINE r == [pc |-> "gate", op |-> op, target |-> target, grant |-> grant]
    <3>1. r \in Request /\ r.op = op /\ r.target = target /\ r.grant = grant
      BY <2>1
    <3>2. member' = [member EXCEPT ![m] = r] /\ UNCHANGED <<role, settings, governed>>
      BY <2>1 DEF MemberStarts
    <3> HIDE DEF r
    <3>3. member' \in [Members -> Request] /\ Targeted'
      BY <2>1, <3>1, <3>2, RequestKept
    <3> QED
      BY <1>0, <1>1, <3>2, <3>3
  <2>2. CASE AskUpdateMemberRole(m)
    BY <2>1, <2>2 DEF AskUpdateMemberRole, Request, MemberOp
  <2>3. CASE AskUpsertSettings(m)
    BY <2>1, <2>3 DEF AskUpsertSettings, Request, MemberOp
  <2>4. CASE AskUpsertGovernance(m)
    BY <2>1, <2>4 DEF AskUpsertGovernance, Request, MemberOp
  <2> QED
    BY <1>3, <2>2, <2>3, <2>4
<1>4. ASSUME NEW pc \in {"write", "answer"}, RequestGoes(m, pc), pc = "write" => member[m].pc = "gate"
      PROVE  member' \in [Members -> Request] /\ Targeted'
  <2> DEFINE r == [member[m] EXCEPT !.pc = pc]
  <2>1. r \in Request /\ r.pc = pc /\ r.op = member[m].op /\ r.target = member[m].target
        /\ r.grant = member[m].grant
    BY <1>0 DEF Request
  <2>2. member' = [member EXCEPT ![m] = r]
    BY <1>4 DEF RequestGoes
  <2> HIDE DEF r
  <2> QED
    BY <1>4, <2>1, <2>2, RequestKept DEF Targeted
<1>5. CASE CheckActor(m)
  BY <1>0, <1>1, <1>2, <1>4, <1>5 DEF CheckActor
<1>6. CASE UpdateRole(m)
  <2>1. member[m].target \in Members /\ member[m].grant \in Role
    BY <1>6 DEF UpdateRole, Targeted
  <2> QED
    BY <1>0, <1>1, <1>2, <1>6, <2>1 DEF UpdateRole
<1>7. CASE UpsertSettings(m)
  <2>1. member[m].target \in SettingsValues
    BY <1>7 DEF UpsertSettings, Targeted
  <2> QED
    BY <1>0, <1>1, <1>2, <1>7, <2>1 DEF UpsertSettings
<1>8. CASE UpsertGovernance(m)
  <2>1. member[m].target \in GovernanceKeys
    BY <1>8 DEF UpsertGovernance, Targeted
  <2>2. member' \in [Members -> Request] /\ Targeted'
    BY <1>4, <1>8 DEF UpsertGovernance
  <2> QED
    BY <1>0, <1>1, <1>8, <2>1, <2>2 DEF UpsertGovernance
<1>9. CASE ListGovernance(m) \/ RequestFails(m)
  BY <1>0, <1>1, <1>2, <1>9 DEF ListGovernance, RequestFails
<1>10. CASE CreateSettings
  <2>1. UNCHANGED <<role, governed, member>>
        /\ settings' \in SettingsValues \cup {DefaultSettings, Nobody}
    BY <1>10 DEF CreateSettings
  <2> QED
    BY <1>0, <1>1, <2>1 DEF Targeted
<1> QED
  BY <1>3, <1>5, <1>6, <1>7, <1>8, <1>9, <1>10 DEF MemberStep

LEMMA MembersStepInv == MembersInv /\ [MembersNext]_memberVars => MembersInv'
<1> SUFFICES ASSUME MembersInv, [MembersNext]_memberVars PROVE MembersInv'
  OBVIOUS
<1>1. CASE UNCHANGED memberVars
  BY <1>1 DEF memberVars, accountVars, roleVars, MembersInv, MembersTypeOK, GaveAddress,
     Targeted, RegisteredIsMine
<1> QED
  BY <1>1, VisitorInv, MemberInv DEF MembersNext

(***************************************************************************)
(* The theorems                                                            *)
(***************************************************************************)

(* Whoever was told that its registration succeeded has the account, with  *)
(* its own password and organization, whichever registrations overlap.     *)
THEOREM RegisteredKeepIt == MembersSpec => []RegisteredIsMine
<1>1. MembersInv => RegisteredIsMine
  BY DEF MembersInv
<1> QED
  BY <1>1, MembersInitInv, MembersStepInv, PTL DEF MembersSpec

(* The step that takes a workspace its last administrator is a change of a *)
(* role that an administrator made of itself, or that was asked by someone *)
(* who is none any more.                                                   *)
THEOREM LockedOutOnlyByOverlap == MembersSpec => LockedOutByOneselfOrOverlap
<1> DEFINE Out == AdministratorsOf(role) # {} /\ AdministratorsOf(role') = {} =>
               \E m \in Members :
                   /\ member[m].pc = "write" /\ member[m].op = "role"
                   /\ \/ member[m].target = m
                      \/ m \notin AdministratorsOf(role)
<1>1. MembersInv /\ [MembersNext]_memberVars => [Out]_memberVars
  <2> SUFFICES ASSUME MembersInv, [MembersNext]_memberVars,
                      AdministratorsOf(role) # {}, AdministratorsOf(role') = {}
               PROVE  \E m \in Members :
                          /\ member[m].pc = "write" /\ member[m].op = "role"
                          /\ \/ member[m].target = m
                             \/ m \notin AdministratorsOf(role)
    OBVIOUS
  <2>1. role' # role
    BY DEF AdministratorsOf
  <2>2. PICK m \in Members : UpdateRole(m)
    BY <2>1 DEF MembersNext, memberVars, roleVars, accountVars, VisitorStep, MemberStep,
       AskUpdateMemberRole, AskUpsertSettings, AskUpsertGovernance, MemberStarts, CheckActor,
       UpsertSettings, UpsertGovernance, ListGovernance, RequestFails, CreateSettings
  <2>3. \A n \in Members : n # member[m].target => role'[n] = role[n]
    BY <2>2 DEF UpdateRole, MembersInv, MembersTypeOK
  <2>4. m = member[m].target \/ m \notin AdministratorsOf(role)
    BY <2>3 DEF AdministratorsOf
  <2> QED
    BY <2>2, <2>4 DEF UpdateRole
<1> HIDE DEF Out
<1>2. MembersSpec => [][Out]_memberVars
  BY <1>1, MembersInitInv, MembersStepInv, PTL DEF MembersSpec
<1> QED
  BY <1>2 DEF LockedOutByOneselfOrOverlap, Out

(* Settings that an administrator saved are never replaced by the defaults *)
(* that a read creates, whichever comes first.                             *)
THEOREM SettingsStaySaved == MembersSpec => SavedSettingsStay
<1> DEFINE Stay == (settings \in SettingsValues) => (settings' \in SettingsValues)
<1>1. MembersInv /\ [MembersNext]_memberVars => [Stay]_memberVars
  <2> SUFFICES ASSUME MembersInv, [MembersNext]_memberVars, settings \in SettingsValues,
                      settings' # settings
               PROVE  settings' \in SettingsValues
    OBVIOUS
  <2>1. settings # Nobody
    BY MembersAssumption
  <2> QED
    BY <2>1 DEF MembersNext, memberVars, roleVars, accountVars, VisitorStep, MemberStep,
       AskUpdateMemberRole, AskUpsertSettings, AskUpsertGovernance, MemberStarts, CheckActor,
       UpdateRole, UpsertSettings, UpsertGovernance, ListGovernance, RequestFails,
       CreateSettings, MembersInv, Targeted
<1> HIDE DEF Stay
<1>2. MembersSpec => [][Stay]_memberVars
  BY <1>1, MembersInitInv, MembersStepInv, PTL DEF MembersSpec
<1> QED
  BY <1>2 DEF SavedSettingsStay, Stay

(***************************************************************************)
(* Imports                                                                 *)
(***************************************************************************)

Rec(t) == t.batch[t.at]

(* What a fact is of, as it is to be stored.                               *)
IsUnder(fact, batch, upper, lower) ==
    /\ HasParent(batch[fact.index]) => ParentRow(fact.by, batch[fact.index]) \in upper
    /\ HasChild(batch[fact.index]) =>
           fact.under \in lower /\ SameChild(fact.by, fact.under, batch[fact.index])

(* A transaction has filed what comes before its record, each once, under  *)
(* rows that are there or that it has locked and made.  A campaign is made *)
(* only under a channel that is locked.                                    *)
FiledBefore(i, t) ==
    /\ \A f \in t.filed : /\ f.by = i /\ f.index \in Accepted(t.batch)
                          /\ IsUnder(f, t.batch, parents \cup t.locks, children \cup t.made)
    /\ \A f, g \in t.filed : f.index = g.index => f = g
    /\ \A n \in Accepted(t.batch) :
           t.pc = "commit" \/ n < t.at => \E f \in t.filed : f.index = n
    /\ t.pc # "commit" => \A f \in t.filed : f.index < t.at
AtItsRecord(i, t) ==
    /\ t.at \in Accepted(t.batch)
    /\ t.pc \in {"upsert", "find", "create"} => HasParent(Rec(t))
    /\ t.pc \in {"find", "create", "insert"} /\ HasParent(Rec(t)) =>
           ParentRow(i, Rec(t)) \in parents \cup t.locks
    /\ t.pc \in {"find", "create"} =>
           HasChild(Rec(t)) /\ (Updates(Rec(t)) => ParentRow(i, Rec(t)) \in t.locks)
    /\ t.pc = "create" /\ Updates(Rec(t)) =>
           \A row \in children \cup t.made : ~SameChild(i, row, Rec(t))
    /\ t.pc = "insert" /\ HasChild(Rec(t)) =>
           t.child \in children \cup t.made /\ SameChild(i, t.child, Rec(t))
MadeUnderLocks(t) == \A row \in t.made : row.of.table = "channel" => row.of \in t.locks

ImportFits(i, t) ==
    /\ t.pc \in InTransaction =>
           /\ t.batch \in Batches /\ SyncStatus(t.batch) # "FAILED"
           /\ FiledBefore(i, t) /\ MadeUnderLocks(t)
    /\ t.pc \in AtRecord => AtItsRecord(i, t)
    /\ t.pc \notin InTransaction => t.locks = {} /\ t.made = {} /\ t.filed = {}

(* What is stored of a sync, by how far it got and what was logged of it.  *)
Silent(t) == t.logs = {} /\ ~t.late
Tells(stored, t) ==
    /\ stored \in {{}, Accepted(t.batch)}
    /\ t.logs \cap {"SUCCESS", "PARTIAL"} # {} => stored = Accepted(t.batch)
    /\ "FAILED" \in t.logs => stored = {} \/ t.late
    /\ t.pc \in {"idle"} \cup InTransaction => stored = {} /\ Silent(t)
    /\ t.pc \in Telling =>
           stored = (IF SyncStatus(t.batch) = "FAILED" THEN {} ELSE Accepted(t.batch))
    /\ t.pc \in TellingFailure => stored = {} \/ t.late

LocksApart == \A i, j \in Importers : i # j => import[i].locks \cap import[j].locks = {}
(* Of all the children that are stored or made, no two are the same.       *)
Twin(a, b) == a.of = b.of /\ a.name = b.name
NoTwins ==
    \A i, j \in Importers : \A a \in children \cup import[i].made, b \in children \cup import[j].made :
        Twin(a, b) => a = b
FactsOnce ==
    \A f, g \in facts : f.by = g.by /\ f.index = g.index => f = g

RecordsInv ==
    /\ RecordsTypeOK
    /\ \A i \in Importers : ImportFits(i, import[i])
    /\ LocksApart /\ NoTwins /\ NoChildTwice
    /\ FactsOnce /\ FactsAreFiled
    /\ \A i \in Importers : Tells(StoredOf(i), import[i])

-----------------------------------------------------------------------------

LEMMA LeastNat == ASSUME NEW S \in SUBSET Nat, S # {} PROVE \E x \in S : \A y \in S : x <= y
<1> DEFINE R == OpToRel(<, Nat)
<1>1. IsWellFoundedOn(R, Nat)
  BY NatLessThanWellFounded
<1>2. \A x, y \in Nat : <<x, y>> \in R <=> x < y
  BY DEF OpToRel
<1> HIDE DEF R
<1>3. PICK x \in S : \A y \in S : ~(<<y, x>> \in R)
  BY <1>1, WFMin, Zenon
<1>4. ASSUME NEW y \in S PROVE x <= y
  <2>1. x \in Nat /\ y \in Nat /\ ~(<<y, x>> \in R)
    BY <1>3
  <2>2. ~(y < x)
    BY <1>2, <2>1
  <2> QED
    BY <2>1, <2>2
<1> QED
  BY <1>4

LEMMA BatchTyped ==
  ASSUME NEW b \in Batches \cup {<<>>}
  PROVE  /\ b \in Seq(Record) /\ DOMAIN b \subseteq Nat \ {0}
         /\ Accepted(b) \subseteq DOMAIN b
         /\ \A n \in DOMAIN b : b[n] \in Record
<1>1. b \in Seq(Record)
  BY RecordsAssumption, EmptySeq
<1> QED
  BY <1>1 DEF Accepted

(* An accepted record is valid, and unlike those that are accepted with it.*)
LEMMA AcceptedValid ==
  ASSUME NEW b \in Batches \cup {<<>>}
  PROVE  /\ \A n \in Accepted(b) : Valid(b[n]) /\ b[n] \in Record /\ n \in Nat \ {0}
         /\ \A m, n \in Accepted(b) : b[m] = b[n] => m = n
<1>1. \A n \in Accepted(b) : Valid(b[n]) /\ b[n] \in Record /\ n \in Nat \ {0} /\ ~Duplicate(b, n)
  BY BatchTyped DEF Accepted
<1>2. ASSUME NEW m \in Accepted(b), NEW n \in Accepted(b), b[m] = b[n], m < n PROVE FALSE
  BY <1>1, <1>2 DEF Duplicate
<1> QED
  BY <1>1, <1>2

LEMMA ChildHasParent ==
  ASSUME NEW r \in Record, Valid(r), HasChild(r)
  PROVE  HasParent(r)
BY DEF Record, RecordType, Valid, HasChild, HasParent

LEMMA StatusOf ==
  ASSUME NEW b \in Batches \cup {<<>>}
  PROVE  /\ SyncStatus(b) \in {"SUCCESS", "PARTIAL", "FAILED"}
         /\ SyncStatus(b) # "FAILED" => b = <<>> \/ Accepted(b) # {}
BY DEF SyncStatus

LEMMA NoChildTyped == NoChild \in Child
BY RecordsAssumption DEF NoChild, Child

(* The next record is the first of the accepted ones that are left.        *)
LEMMA NextRecordIs ==
  ASSUME NEW t \in Import, t.batch \in Batches, NEW n \in Nat, t.at = n
  PROVE  /\ NextRecord(t) \in Import
         /\ \/ /\ NextRecord(t) = [t EXCEPT !.pc = "commit"]
               /\ \A k \in Accepted(t.batch) : k <= n
            \/ \E m \in Accepted(t.batch) :
                   /\ n < m /\ \A k \in Accepted(t.batch) : n < k => m <= k
                   /\ NextRecord(t) = [t EXCEPT !.at = m, !.child = NoChild,
                          !.pc = IF HasParent(t.batch[m]) THEN "upsert" ELSE "insert"]
<1> DEFINE rest == {k \in Accepted(t.batch) : k > n}
           next == CHOOSE m \in rest : \A k \in rest : m <= k
<1>1. rest \subseteq Nat
  BY AcceptedValid
<1>2. CASE rest = {}
  <2>1. NextRecord(t) = [t EXCEPT !.pc = "commit"]
    BY <1>2 DEF NextRecord
  <2>2. \A k \in Accepted(t.batch) : k <= n
    BY <1>2, AcceptedValid
  <2>3. [t EXCEPT !.pc = "commit"] \in Import
    BY DEF Import, ImportPc, InTransaction, AtRecord
  <2> QED
    BY <2>1, <2>2, <2>3
<1>3. CASE rest # {}
  <2>1. next \in rest /\ \A k \in rest : next <= k
    <3>1. \E m \in rest : \A k \in rest : m <= k
      BY <1>1, <1>3, LeastNat
    <3> QED
      BY <3>1
  <2>2. NextRecord(t) = [t EXCEPT !.at = next, !.child = NoChild,
                !.pc = IF HasParent(t.batch[next]) THEN "upsert" ELSE "insert"]
    BY <1>3 DEF NextRecord
  <2>3. PICK m \in rest : m = next
    BY <2>1
  <2>4. m \in Nat /\ NoChild \in Child
    BY <1>1, <2>3, NoChildTyped
  <2>5. [t EXCEPT !.at = m, !.child = NoChild,
                !.pc = IF HasParent(t.batch[m]) THEN "upsert" ELSE "insert"] \in Import
    BY <2>4 DEF Import, ImportPc, InTransaction, AtRecord
  <2> QED
    BY <2>1, <2>2, <2>3, <2>5
<1> QED
  BY <1>2, <1>3

LEMMA NoImportTyped ==
  /\ NoImport \in Import /\ NoImport.pc = "idle" /\ NoImport.locks = {} /\ NoImport.made = {}
  /\ NoImport.filed = {} /\ Silent(NoImport) /\ NoImport.batch = <<>> /\ NoImport.at = 0
BY NoChildTyped DEF NoImport, Import, ImportPc, Silent

LEMMA RecordsInitInv == RecordsInit => RecordsInv
<1> SUFFICES ASSUME RecordsInit PROVE RecordsInv
  OBVIOUS
<1>1. parents = {} /\ children = {} /\ facts = {} /\ import = [i \in Importers |-> NoImport]
  BY DEF RecordsInit
<1>2. \A i \in Importers : import[i] = NoImport
  BY <1>1
<1>3. RecordsTypeOK
  BY <1>1, NoImportTyped DEF RecordsTypeOK
<1>4. \A i \in Importers : ImportFits(i, import[i])
  BY <1>2, NoImportTyped DEF ImportFits, InTransaction, AtRecord
<1>7. ASSUME NEW i \in Importers PROVE Tells(StoredOf(i), import[i])
  <2>1. StoredOf(i) = {}
    BY <1>1 DEF StoredOf
  <2> QED
    BY <1>2, <2>1, NoImportTyped DEF Tells, Silent, Telling, TellingFailure
<1>5. LocksApart /\ NoTwins /\ NoChildTwice
  BY <1>1, <1>2, NoImportTyped DEF LocksApart, NoTwins, NoChildTwice
<1>6. FactsOnce /\ FactsAreFiled
  BY <1>1 DEF FactsOnce, FactsAreFiled
<1> QED
  BY <1>3, <1>4, <1>5, <1>6, <1>7 DEF RecordsInv

-----------------------------------------------------------------------------

LEMMA RowsOf ==
  ASSUME NEW i \in Importers, NEW r \in Record
  PROVE  ParentRow(i, r) \in ParentKey /\ ChildName(r) \in RecordNames
         /\ (ParentRow(i, r).table = "channel" <=> r.recordType = "marketingMetric")
<1>1. r.parent \in RecordNames /\ r.child \in RecordNames
  BY DEF Record
<1>2. TableOf(r) \in {"channel", "pipeline", "customer"}
      /\ (TableOf(r) = "channel" <=> r.recordType = "marketingMetric")
  BY DEF TableOf
<1>3. CustomerId[r.parent] \in RecordNames
  BY <1>1, RecordsAssumption
<1>4. ParentRow(i, r) \in ParentKey
      /\ (ParentRow(i, r).table = "channel" <=> r.recordType = "marketingMetric")
  BY <1>1, <1>2, <1>3 DEF ParentRow, ParentKey
<1>5. ChildName(r) \in RecordNames
  BY <1>1, RecordsAssumption DEF ChildName, StageType
<1> QED
  BY <1>4, <1>5

LEMMA RecordsTypedNow ==
  RecordsInv =>
      /\ import \in [Importers -> Import]
      /\ parents \subseteq ParentKey /\ children \subseteq Child /\ facts \subseteq Fact
      /\ \A i \in Importers : import[i] \in Import /\ ImportFits(i, import[i])
BY DEF RecordsInv, RecordsTypeOK

(* Where a transaction has not ended, it has stored nothing yet.           *)
LEMMA NothingStored ==
  ASSUME RecordsInv, NEW i \in Importers, import[i].pc \in {"idle"} \cup InTransaction
  PROVE  StoredOf(i) = {} /\ Silent(import[i]) /\ \A f \in facts : f.by # i
<1>1. StoredOf(i) = {} /\ Silent(import[i])
  BY DEF RecordsInv, Tells
<1> QED
  BY <1>1 DEF StoredOf

LEMMA SilentTells ==
  ASSUME NEW t, t.pc \in {"idle", "error", "ended"} \cup InTransaction, Silent(t)
  PROVE  Tells({}, t)
BY DEF Tells, Silent, Telling, TellingFailure, InTransaction, AtRecord

LEMMA StillNothing ==
  ASSUME RecordsInv, NEW i \in Importers, import[i].pc \in {"idle"} \cup InTransaction,
         NEW new, new.pc \in {"error"} \cup InTransaction, Silent(new)
  PROVE  StoredOf(i) = {} /\ Tells(StoredOf(i), new)
<1>1. StoredOf(i) = {}
  BY NothingStored
<1> QED
  BY <1>1, SilentTells

(* A step of one sync that stores nothing.                                 *)
LEMMA RestKept ==
  ASSUME RecordsInv, NEW i \in Importers, NEW new \in Import, import' = [import EXCEPT ![i] = new],
         UNCHANGED <<parents, children, facts>>,
         StoredOf(i) = {} \/ new.batch = import[i].batch,
         ImportFits(i, new), Tells(StoredOf(i), new),
         \A j \in Importers : j # i => new.locks \cap import[j].locks = {},
         \A j \in Importers : \A a \in children \cup new.made :
             \A b \in children \cup (IF j = i THEN new.made ELSE import[j].made) : Twin(a, b) => a = b
  PROVE  RecordsInv'
<1>1. /\ import' \in [Importers -> Import] /\ import'[i] = new
      /\ \A j \in Importers : j # i => import'[j] = import[j]
  BY RecordsTypedNow
<1>2. RecordsTypeOK'
  BY <1>1, RecordsTypedNow DEF RecordsTypeOK
<1>3. ASSUME NEW j \in Importers PROVE ImportFits(j, import'[j])
  BY <1>1, RecordsTypedNow
<1>4. ASSUME NEW j \in Importers PROVE ImportFits(j, import[j])'
  <2>1. PICK t \in Import : t = import'[j]
    BY <1>1
  <2>2. FiledBefore(j, t) => FiledBefore(j, import[j])'
    BY <2>1 DEF FiledBefore
  <2>3. AtItsRecord(j, t) => AtItsRecord(j, import[j])'
    BY <2>1 DEF AtItsRecord
  <2> QED
    BY <1>3, <2>1, <2>2, <2>3 DEF ImportFits
<1>5. LocksApart'
  BY <1>1 DEF RecordsInv, LocksApart
<1>6. NoTwins'
  <2> SUFFICES ASSUME NEW j \in Importers, NEW k \in Importers,
                      NEW a \in children \cup import'[j].made, NEW b \in children \cup import'[k].made,
                      Twin(a, b)
               PROVE  a = b
    BY DEF NoTwins, Twin
  <2>1. CASE j = i
    BY <1>1, <2>1
  <2>2. CASE j # i /\ k = i
    <3>1. Twin(b, a)
      BY DEF Twin
    <3> QED
      BY <1>1, <2>2, <3>1
  <2>3. CASE j # i /\ k # i
    BY <1>1, <2>3 DEF RecordsInv, NoTwins
  <2> QED
    BY <2>1, <2>2, <2>3
<1>7. NoChildTwice' /\ FactsOnce'
  BY DEF RecordsInv, NoChildTwice, FactsOnce
<1>8. FactsAreFiled'
  <2>1. ASSUME NEW f \in facts PROVE import'[f.by].batch = import[f.by].batch
    <3>1. f.by \in Importers /\ (f.by = i => StoredOf(i) # {})
      BY RecordsTypedNow DEF Fact, StoredOf
    <3> QED
      BY <1>1, <3>1
  <2> QED
    BY <2>1 DEF RecordsInv, FactsAreFiled
<1>9. ASSUME NEW j \in Importers PROVE Tells(StoredOf(j), import[j])'
  <2>1. PICK stored : stored = StoredOf(j) /\ stored = StoredOf(j)'
    BY DEF StoredOf
  <2>2. PICK t \in Import : t = import'[j]
    BY <1>1
  <2>3. Tells(stored, t)
    BY <1>1, <2>1, <2>2 DEF RecordsInv
  <2> QED
    BY <2>1, <2>2, <2>3 DEF Tells, Silent
<1> QED
  BY <1>2, <1>4, <1>5, <1>6, <1>7, <1>8, <1>9 DEF RecordsInv

(* A step of a sync that locks nothing and makes nothing.                  *)
LEMMA OnlyGoesOn ==
  ASSUME RecordsInv, NEW i \in Importers, NEW new \in Import, import' = [import EXCEPT ![i] = new],
         UNCHANGED <<parents, children, facts>>,
         StoredOf(i) = {} \/ new.batch = import[i].batch,
         ImportFits(i, new), Tells(StoredOf(i), new),
         new.locks \subseteq import[i].locks, new.made \subseteq import[i].made
  PROVE  RecordsInv'
<1>1. \A j \in Importers : j # i => new.locks \cap import[j].locks = {}
  BY DEF RecordsInv, LocksApart
<1>2. ASSUME NEW j \in Importers, NEW a \in children \cup new.made,
             NEW b \in children \cup (IF j = i THEN new.made ELSE import[j].made), Twin(a, b)
      PROVE  a = b
  <2>1. a \in children \cup import[i].made /\ b \in children \cup import[j].made
    BY <1>2
  <2> QED
    BY <1>2, <2>1 DEF RecordsInv, NoTwins
<1> QED
  BY <1>1, <1>2, RestKept

(* What is left after a record fits, if the record is filed.               *)
LEMMA NextFits ==
  ASSUME NEW i \in Importers, NEW t \in Import, t.batch \in Batches, SyncStatus(t.batch) # "FAILED",
         Silent(t), MadeUnderLocks(t),
         \A f \in t.filed : /\ f.by = i /\ f.index \in Accepted(t.batch)
                            /\ IsUnder(f, t.batch, parents \cup t.locks, children \cup t.made)
                            /\ f.index <= t.at,
         \A f, g \in t.filed : f.index = g.index => f = g,
         \A n \in Accepted(t.batch) : n <= t.at => \E f \in t.filed : f.index = n
  PROVE  /\ NextRecord(t) \in Import /\ ImportFits(i, NextRecord(t))
         /\ NextRecord(t).locks = t.locks /\ NextRecord(t).made = t.made
         /\ Silent(NextRecord(t)) /\ NextRecord(t).pc \in InTransaction
<1> DEFINE new == NextRecord(t)
<1>0. t.at \in Nat /\ Accepted(t.batch) \subseteq Nat /\ \A f \in t.filed : f.index \in Nat
  BY AcceptedValid DEF Import, Fact
<1>1. CASE new = [t EXCEPT !.pc = "commit"] /\ \A k \in Accepted(t.batch) : k <= t.at
  <2>1. /\ new.pc = "commit" /\ new.filed = t.filed /\ new.locks = t.locks /\ new.made = t.made
        /\ new.logs = t.logs /\ new.late = t.late /\ new.batch = t.batch
    BY <1>1 DEF Import
  <2> HIDE DEF new
  <2>2. FiledBefore(i, new)
    BY <1>1, <2>1 DEF FiledBefore
  <2>3. ImportFits(i, new) /\ new.pc \in InTransaction
    BY <2>1, <2>2 DEF ImportFits, InTransaction, AtRecord, MadeUnderLocks
  <2>4. Silent(new)
    BY <2>1 DEF Silent
  <2> QED
    BY <1>0, <2>1, <2>3, <2>4, NextRecordIs DEF new
<1>2. CASE \E m \in Accepted(t.batch) :
               /\ t.at < m /\ \A k \in Accepted(t.batch) : t.at < k => m <= k
               /\ new = [t EXCEPT !.at = m, !.child = NoChild,
                          !.pc = IF HasParent(t.batch[m]) THEN "upsert" ELSE "insert"]
  <2>1. PICK m \in Accepted(t.batch) :
               /\ t.at < m /\ \A k \in Accepted(t.batch) : t.at < k => m <= k
               /\ new = [t EXCEPT !.at = m, !.child = NoChild,
                          !.pc = IF HasParent(t.batch[m]) THEN "upsert" ELSE "insert"]
    BY <1>2
  <2>2. /\ new.pc = (IF HasParent(t.batch[m]) THEN "upsert" ELSE "insert") /\ new.at = m
        /\ new.filed = t.filed /\ new.locks = t.locks /\ new.made = t.made
        /\ new.logs = t.logs /\ new.late = t.late /\ new.batch = t.batch
    BY <2>1 DEF Import
  <2> HIDE DEF new
  <2>3. m \in Nat /\ \A k \in Accepted(t.batch) : k < m => k <= t.at
    BY <1>0, <2>1
  <2>4. FiledBefore(i, new)
    <3>1. \A f \in t.filed : f.index < m
      BY <1>0, <2>1, <2>3
    <3>2. \A n \in Accepted(t.batch) : n < m => \E f \in t.filed : f.index = n
      BY <2>3
    <3>3. new.pc # "commit"
      BY <2>2
    <3> QED
      BY <2>2, <3>1, <3>2, <3>3 DEF FiledBefore
  <2>5. AtItsRecord(i, new)
    <3>1. Valid(t.batch[m]) /\ t.batch[m] \in Record
      BY AcceptedValid
    <3>2. HasChild(t.batch[m]) => HasParent(t.batch[m])
      BY <3>1, ChildHasParent
    <3> QED
      BY <2>1, <2>2, <3>2 DEF AtItsRecord, Rec
  <2>6. new.pc \in AtRecord /\ new.pc \in InTransaction /\ new.pc \notin {"idle", "ended"}
    BY <2>2 DEF AtRecord, InTransaction
  <2>7. ImportFits(i, new)
    BY <2>2, <2>4, <2>5, <2>6 DEF ImportFits, MadeUnderLocks
  <2>8. Silent(new)
    BY <2>2 DEF Silent
  <2> QED
    BY <1>0, <2>2, <2>6, <2>7, <2>8, NextRecordIs DEF new
<1> QED
  BY <1>0, <1>1, <1>2, NextRecordIs

LEMMA ReceiveBatchInv == ASSUME RecordsInv, NEW i \in Importers, ReceiveBatch(i) PROVE RecordsInv'
<1>1. PICK b \in Batches :
          import' = [import EXCEPT ![i] =
               IF SyncStatus(b) = "FAILED"
               THEN [NoImport EXCEPT !.pc = "status", !.batch = b]
               ELSE NextRecord([NoImport EXCEPT !.batch = b])]
  BY DEF ReceiveBatch
<1>2. /\ UNCHANGED <<parents, children, facts>> /\ import[i].pc = "idle"
      /\ StoredOf(i) = {} /\ import[i].locks = {} /\ import[i].made = {}
  BY RecordsTypedNow, NothingStored DEF ReceiveBatch, ImportFits, InTransaction, AtRecord
<1>3. CASE SyncStatus(b) = "FAILED"
  <2> DEFINE new == [NoImport EXCEPT !.pc = "status", !.batch = b]
  <2>1. /\ new \in Import /\ new.pc = "status" /\ new.logs = {} /\ ~new.late /\ new.locks = {}
        /\ new.made = {} /\ new.filed = {} /\ new.batch = b
    BY NoImportTyped DEF Import, ImportPc, Telling, Silent
  <2>2. import' = [import EXCEPT ![i] = new]
    BY <1>1, <1>3
  <2> HIDE DEF new
  <2>3. ImportFits(i, new)
    BY <2>1 DEF ImportFits, InTransaction, AtRecord
  <2>4. Tells(StoredOf(i), new)
    BY <1>2, <1>3, <2>1 DEF Tells, InTransaction, AtRecord, TellingFailure
  <2> QED
    BY <1>2, <2>1, <2>2, <2>3, <2>4, OnlyGoesOn
<1>4. CASE SyncStatus(b) # "FAILED"
  <2> DEFINE t == [NoImport EXCEPT !.batch = b]
  <2>1. /\ t \in Import /\ t.batch = b /\ t.at = 0 /\ Silent(t) /\ t.locks = {}
        /\ t.made = {} /\ t.filed = {}
    BY NoImportTyped DEF Import, ImportPc, Silent
  <2>2. import' = [import EXCEPT ![i] = NextRecord(t)]
    BY <1>1, <1>4
  <2> HIDE DEF t
  <2>3. \A n \in Accepted(t.batch) : ~(n <= t.at)
    BY <2>1, AcceptedValid
  <2>4. /\ NextRecord(t) \in Import /\ ImportFits(i, NextRecord(t))
        /\ NextRecord(t).locks = t.locks /\ NextRecord(t).made = t.made
        /\ Silent(NextRecord(t)) /\ NextRecord(t).pc \in InTransaction
    BY <1>4, <2>1, <2>3, NextFits DEF MadeUnderLocks
  <2>5. Tells(StoredOf(i), NextRecord(t))
    BY <1>2, <2>4, StillNothing
  <2> QED
    BY <1>2, <2>1, <2>2, <2>4, <2>5, OnlyGoesOn
<1> QED
  BY <1>3, <1>4
(* Every other step of a transaction, from what its invariant says of it.  *)
LEMMA AtWork ==
  ASSUME RecordsInv, NEW i \in Importers, import[i].pc \in InTransaction
  PROVE  /\ import[i] \in Import /\ Silent(import[i]) /\ import[i].batch \in Batches
         /\ SyncStatus(import[i].batch) # "FAILED"
         /\ FiledBefore(i, import[i]) /\ MadeUnderLocks(import[i])
         /\ import[i].pc \in AtRecord =>
                /\ AtItsRecord(i, import[i]) /\ Current(i) = Rec(import[i])
                /\ Current(i) \in Record /\ Valid(Current(i))
                /\ ParentRow(i, Current(i)) \in ParentKey /\ ChildName(Current(i)) \in RecordNames
<1>1. import[i] \in Import /\ ImportFits(i, import[i]) /\ Silent(import[i])
  BY RecordsTypedNow, NothingStored
<1>2. /\ Silent(import[i]) /\ import[i].batch \in Batches
      /\ SyncStatus(import[i].batch) # "FAILED"
      /\ FiledBefore(i, import[i]) /\ MadeUnderLocks(import[i])
  BY <1>1 DEF ImportFits
<1>3. ASSUME import[i].pc \in AtRecord
      PROVE  /\ AtItsRecord(i, import[i]) /\ Current(i) = Rec(import[i])
             /\ Current(i) \in Record /\ Valid(Current(i))
             /\ ParentRow(i, Current(i)) \in ParentKey /\ ChildName(Current(i)) \in RecordNames
  <2>1. AtItsRecord(i, import[i]) /\ Current(i) = Rec(import[i])
    BY <1>1, <1>3 DEF ImportFits, Current, Rec
  <2>2. Current(i) \in Record /\ Valid(Current(i))
    BY <1>2, <2>1, AcceptedValid DEF AtItsRecord, Rec
  <2> QED
    BY <2>1, <2>2, RowsOf
<1> QED
  BY <1>1, <1>2, <1>3

(* What a transaction has filed stays filed, when it locks or makes more.  *)
LEMMA FiledStays ==
  ASSUME NEW i \in Importers, NEW t \in Import, NEW u \in Import, FiledBefore(i, t), t.pc \in AtRecord, u.pc \in AtRecord,
         u.at = t.at, u.batch = t.batch, u.filed = t.filed,
         t.locks \subseteq u.locks, t.made \subseteq u.made
  PROVE  FiledBefore(i, u)
<1>1. t.pc # "commit" /\ u.pc # "commit"
  BY DEF AtRecord
<1>2. ASSUME NEW f \in t.filed
      PROVE  /\ f.by = i /\ f.index \in Accepted(t.batch) /\ f.index < t.at
             /\ IsUnder(f, t.batch, parents \cup u.locks, children \cup u.made)
  BY <1>1 DEF FiledBefore, IsUnder
<1>3. /\ \A f, g \in t.filed : f.index = g.index => f = g
      /\ \A n \in Accepted(t.batch) : n < t.at => \E f \in t.filed : f.index = n
  BY DEF FiledBefore
<1> QED
  BY <1>1, <1>2, <1>3 DEF FiledBefore

LEMMA UpsertParentInv == ASSUME RecordsInv, NEW i \in Importers, UpsertParent(i) PROVE RecordsInv'
<1> DEFINE t == import[i]
           r == Current(i)
           row == ParentRow(i, r)
<1>1. t.pc = "upsert" /\ UNCHANGED <<parents, children, facts>>
  BY DEF UpsertParent
<1>2. /\ t \in Import /\ Silent(t) /\ t.batch \in Batches /\ SyncStatus(t.batch) # "FAILED"
      /\ FiledBefore(i, t) /\ MadeUnderLocks(t)
      /\ AtItsRecord(i, t) /\ r = Rec(t) /\ r \in Record /\ row \in ParentKey /\ t.pc \in AtRecord
  BY <1>1, AtWork DEF AtRecord, InTransaction
<1>3. HasParent(r) /\ t.at \in Accepted(t.batch)
  BY <1>1, <1>2 DEF AtItsRecord
<1>4. /\ AfterParent(r) \in {"find", "insert"}
      /\ AfterParent(r) = "find" <=> HasChild(r)
  BY DEF AfterParent
<1>5. CASE ~LockedByOther(i, row)
           /\ import' = [import EXCEPT ![i].pc = AfterParent(r), ![i].locks = @ \cup {row}]
  <2> DEFINE new == [t EXCEPT !.pc = AfterParent(r), !.locks = @ \cup {row}]
  <2>1. import' = [import EXCEPT ![i] = new]
    BY <1>5, RecordsTypedNow
  <2>2. new \in Import
    BY <1>2, <1>4 DEF Import, ImportPc, InTransaction, AtRecord
  <2>3. /\ new.pc = AfterParent(r) /\ new.locks = t.locks \cup {row} /\ new.made = t.made
        /\ new.filed = t.filed /\ new.at = t.at /\ new.batch = t.batch /\ new.logs = t.logs /\ new.late = t.late
    BY <1>2 DEF Import
  <2> HIDE DEF new
  <2>4. new.pc \in AtRecord /\ new.pc \in InTransaction /\ new.pc \notin {"idle", "ended"}
    BY <1>4, <2>3 DEF AtRecord, InTransaction
  <2>5. FiledBefore(i, new)
    BY <1>2, <2>2, <2>3, <2>4, FiledStays
  <2>6. AtItsRecord(i, new)
    BY <1>2, <1>3, <1>4, <2>3 DEF AtItsRecord, Rec
  <2>7. ImportFits(i, new)
    BY <1>2, <2>3, <2>4, <2>5, <2>6 DEF ImportFits, MadeUnderLocks
  <2>8. \A j \in Importers : j # i => new.locks \cap import[j].locks = {}
    BY <1>5, <2>3 DEF RecordsInv, LocksApart, LockedByOther
  <2>9. \A j \in Importers : \A a \in children \cup new.made :
             \A b \in children \cup (IF j = i THEN new.made ELSE import[j].made) : Twin(a, b) => a = b
    BY <2>3 DEF RecordsInv, NoTwins
  <2> QED
    <3>1. StoredOf(i) = {} /\ Tells(StoredOf(i), new)
      BY <1>1, <1>2, <2>3, <2>4, StillNothing DEF Silent, InTransaction, AtRecord
    <3> HIDE DEF t, r, row
    <3> QED
      BY <1>1, <2>1, <2>2, <2>7, <2>8, <2>9, <3>1, RestKept
<1>6. CASE ~Updates(r) /\ row \in parents /\ ImportGoes(i, AfterParent(r))
  <2> DEFINE new == [t EXCEPT !.pc = AfterParent(r)]
  <2>1. import' = [import EXCEPT ![i] = new]
    BY <1>6, RecordsTypedNow DEF ImportGoes
  <2>2. new \in Import
    BY <1>2, <1>4 DEF Import, ImportPc, InTransaction, AtRecord
  <2>3. /\ new.pc = AfterParent(r) /\ new.locks = t.locks /\ new.made = t.made
        /\ new.filed = t.filed /\ new.at = t.at /\ new.batch = t.batch /\ new.logs = t.logs /\ new.late = t.late
    BY <1>2 DEF Import
  <2> HIDE DEF new
  <2>4. new.pc \in AtRecord /\ new.pc \in InTransaction /\ new.pc \notin {"idle", "ended"}
    BY <1>4, <2>3 DEF AtRecord, InTransaction
  <2>5. FiledBefore(i, new)
    BY <1>2, <2>2, <2>3, <2>4, FiledStays
  <2>6. AtItsRecord(i, new)
    BY <1>2, <1>3, <1>4, <1>6, <2>3 DEF AtItsRecord, Rec
  <2>7. ImportFits(i, new)
    BY <1>2, <2>3, <2>4, <2>5, <2>6 DEF ImportFits, MadeUnderLocks
  <2>8. StoredOf(i) = {} /\ Tells(StoredOf(i), new)
    BY <1>1, <1>2, <2>3, <2>4, StillNothing DEF Silent, InTransaction, AtRecord
  <2> QED
    BY <1>1, <2>1, <2>2, <2>3, <2>7, <2>8, OnlyGoesOn
<1> QED
  BY <1>5, <1>6 DEF UpsertParent

LEMMA FindChildInv == ASSUME RecordsInv, NEW i \in Importers, FindChild(i) PROVE RecordsInv'
<1> DEFINE t == import[i]
           r == Current(i)
<1>1. t.pc = "find" /\ UNCHANGED <<parents, children, facts>>
  BY DEF FindChild
<1>2. /\ t \in Import /\ Silent(t) /\ t.batch \in Batches /\ SyncStatus(t.batch) # "FAILED"
      /\ FiledBefore(i, t) /\ MadeUnderLocks(t)
      /\ AtItsRecord(i, t) /\ r = Rec(t) /\ r \in Record /\ t.pc \in AtRecord
  BY <1>1, AtWork DEF AtRecord, InTransaction
<1>3. CASE Found(i) = {} /\ ImportGoes(i, "create")
  <2> DEFINE new == [t EXCEPT !.pc = "create"]
  <2>1. import' = [import EXCEPT ![i] = new]
    BY <1>3, RecordsTypedNow DEF ImportGoes
  <2>2. new \in Import
    BY <1>2 DEF Import, ImportPc, InTransaction, AtRecord
  <2>3. /\ new.pc = "create" /\ new.locks = t.locks /\ new.made = t.made
        /\ new.filed = t.filed /\ new.at = t.at /\ new.batch = t.batch /\ new.logs = t.logs /\ new.late = t.late
    BY <1>2 DEF Import
  <2> HIDE DEF new
  <2>4. new.pc \in AtRecord /\ new.pc \in InTransaction /\ new.pc \notin {"idle", "ended"}
    BY <2>3 DEF AtRecord, InTransaction
  <2>5. FiledBefore(i, new)
    BY <1>2, <2>2, <2>3, <2>4, FiledStays
  <2>6. \A row \in children \cup t.made : ~SameChild(i, row, r)
    BY <1>3 DEF Found
  <2>7. AtItsRecord(i, new)
    BY <1>1, <1>2, <2>3, <2>6 DEF AtItsRecord, Rec
  <2>8. ImportFits(i, new)
    BY <1>2, <2>3, <2>4, <2>5, <2>7 DEF ImportFits, MadeUnderLocks
  <2>9. StoredOf(i) = {} /\ Tells(StoredOf(i), new)
    BY <1>1, <1>2, <2>3, <2>4, StillNothing DEF Silent, InTransaction, AtRecord
  <2> QED
    BY <1>1, <2>1, <2>2, <2>3, <2>8, <2>9, OnlyGoesOn
<1>4. ASSUME NEW row \in Found(i),
             import' = [import EXCEPT ![i].pc = "insert", ![i].child = row]
      PROVE  RecordsInv'
  <2> DEFINE new == [t EXCEPT !.pc = "insert", !.child = row]
  <2>1. import' = [import EXCEPT ![i] = new]
    BY <1>4, RecordsTypedNow
  <2>2. row \in children \cup t.made /\ SameChild(i, row, r)
    BY DEF Found
  <2>3. row \in Child
    BY <1>2, <2>2, RecordsTypedNow DEF Import
  <2>4. new \in Import
    BY <1>2, <2>3 DEF Import, ImportPc, InTransaction, AtRecord
  <2>5. /\ new.pc = "insert" /\ new.locks = t.locks /\ new.made = t.made /\ new.child = row
        /\ new.filed = t.filed /\ new.at = t.at /\ new.batch = t.batch /\ new.logs = t.logs /\ new.late = t.late
    BY <1>2 DEF Import
  <2> HIDE DEF new
  <2>6. new.pc \in AtRecord /\ new.pc \in InTransaction /\ new.pc \notin {"idle", "ended"}
    BY <2>5 DEF AtRecord, InTransaction
  <2>7. FiledBefore(i, new)
    BY <1>2, <2>4, <2>5, <2>6, FiledStays
  <2>8. AtItsRecord(i, new)
    BY <1>1, <1>2, <2>2, <2>5 DEF AtItsRecord, Rec
  <2>9. ImportFits(i, new)
    BY <1>2, <2>5, <2>6, <2>7, <2>8 DEF ImportFits, MadeUnderLocks
  <2>10. StoredOf(i) = {} /\ Tells(StoredOf(i), new)
    BY <1>1, <1>2, <2>5, <2>6, StillNothing DEF Silent, InTransaction, AtRecord
  <2> QED
    BY <1>1, <2>1, <2>4, <2>5, <2>9, <2>10, OnlyGoesOn
<1> QED
  BY <1>3, <1>4 DEF FindChild

LEMMA CreateChildInv == ASSUME RecordsInv, NEW i \in Importers, CreateChild(i) PROVE RecordsInv'
<1> DEFINE t == import[i]
           r == Current(i)
           c == NewChild(i)
           new == [t EXCEPT !.pc = "insert", !.child = c, !.made = @ \cup {c}]
<1>1. t.pc = "create" /\ UNCHANGED <<parents, children, facts>>
  BY DEF CreateChild
<1>2. /\ t \in Import /\ Silent(t) /\ t.batch \in Batches /\ SyncStatus(t.batch) # "FAILED"
      /\ FiledBefore(i, t) /\ MadeUnderLocks(t)
      /\ AtItsRecord(i, t) /\ r = Rec(t) /\ r \in Record /\ t.pc \in AtRecord
      /\ ParentRow(i, r) \in ParentKey /\ ChildName(r) \in RecordNames
  BY <1>1, AtWork DEF AtRecord, InTransaction
<1>3. /\ c \in Child /\ SameChild(i, c, r) /\ c.of = ParentRow(i, r)
  BY <1>2 DEF NewChild, Child, SameChild
<1>4. /\ HasChild(r) /\ (Updates(r) => ParentRow(i, r) \in t.locks)
      /\ Updates(r) => \A row \in children \cup t.made : ~SameChild(i, row, r)
  BY <1>1, <1>2 DEF AtItsRecord
<1>5. import' = [import EXCEPT ![i] = new]
  BY RecordsTypedNow DEF CreateChild
<1>6. new \in Import
  BY <1>2, <1>3 DEF Import, ImportPc, InTransaction, AtRecord
<1>7. /\ new.pc = "insert" /\ new.locks = t.locks /\ new.made = t.made \cup {c} /\ new.child = c
      /\ new.filed = t.filed /\ new.at = t.at /\ new.batch = t.batch /\ new.logs = t.logs /\ new.late = t.late
  BY <1>2 DEF Import
<1> HIDE DEF new, c
<1>8. new.pc \in AtRecord /\ new.pc \in InTransaction /\ new.pc \notin {"idle", "ended"}
  BY <1>7 DEF AtRecord, InTransaction
<1>9. FiledBefore(i, new)
  BY <1>2, <1>6, <1>7, <1>8, FiledStays
<1>10. AtItsRecord(i, new)
  BY <1>1, <1>2, <1>3, <1>7 DEF AtItsRecord, Rec
<1>11. MadeUnderLocks(new)
  <2>1. c.of.table = "channel" => ParentRow(i, r) \in t.locks
    BY <1>2, <1>3, <1>4, RowsOf DEF Updates
  <2> QED
    BY <1>2, <1>3, <1>7, <2>1 DEF MadeUnderLocks
<1>12. ImportFits(i, new)
  BY <1>2, <1>7, <1>8, <1>9, <1>10, <1>11 DEF ImportFits
<1>13. \A j \in Importers : j # i => new.locks \cap import[j].locks = {}
  BY <1>7 DEF RecordsInv, LocksApart
(* There is no other child like it.                                        *)
<1>14. ASSUME NEW j \in Importers, NEW b \in children \cup import[j].made PROVE ~Twin(c, b)
  <2> SUFFICES ASSUME Twin(c, b) PROVE FALSE
    OBVIOUS
  <2>1. SameChild(i, b, r) /\ b.of = ParentRow(i, r)
    BY <1>3 DEF Twin, SameChild
  <2>2. CASE Unique(r)
    <3>1. Found(i) = {} /\ ~MadeByOther(i)
      BY <2>2 DEF CreateChild
    <3>2. b \notin children \cup t.made
      BY <2>1, <3>1 DEF Found
    <3>3. j # i /\ b \in import[j].made
      BY <3>2
    <3> QED
      BY <2>1, <3>1, <3>3 DEF MadeByOther
  <2>3. CASE ~Unique(r)
    <3>1. r.recordType = "marketingMetric" /\ Updates(r)
      BY <1>4, <2>3 DEF HasChild, Unique, Updates
    <3>2. b \notin children \cup t.made /\ ParentRow(i, r) \in t.locks /\ b.of.table = "channel"
      BY <1>2, <1>4, <2>1, <3>1, RowsOf
    <3>3. j # i /\ b \in import[j].made
      BY <3>2
    <3>4. MadeUnderLocks(import[j])
      <4>1. import[j].made # {} /\ ImportFits(j, import[j]) /\ import[j] \in Import
        BY <3>3, RecordsTypedNow
      <4>2. import[j].pc \in InTransaction
        BY <4>1 DEF ImportFits, InTransaction, AtRecord, Import, ImportPc
      <4> QED
        BY <4>1, <4>2 DEF ImportFits
    <3>5. ParentRow(i, r) \in import[j].locks
      BY <2>1, <3>2, <3>3, <3>4 DEF MadeUnderLocks
    <3> QED
      BY <3>2, <3>3, <3>5 DEF RecordsInv, LocksApart
  <2> QED
    BY <2>2, <2>3
<1>15. ASSUME NEW j \in Importers, NEW a \in children \cup new.made,
              NEW b \in children \cup (IF j = i THEN new.made ELSE import[j].made), Twin(a, b)
       PROVE  a = b
  <2>1. a = c \/ a \in children \cup import[i].made
    BY <1>7
  <2>2. b = c \/ b \in children \cup import[j].made
    BY <1>7
  <2>3. Twin(b, a)
    BY <1>15 DEF Twin
  <2>4. CASE a = c
    BY <1>14, <1>15, <2>2, <2>4
  <2>5. CASE a # c /\ b = c
    BY <1>14, <2>1, <2>3, <2>5
  <2>6. CASE a # c /\ b # c
    BY <1>15, <2>1, <2>2, <2>6 DEF RecordsInv, NoTwins
  <2> QED
    BY <2>4, <2>5, <2>6
<1>16. StoredOf(i) = {} /\ Tells(StoredOf(i), new)
  BY <1>1, <1>2, <1>7, <1>8, StillNothing DEF Silent, InTransaction, AtRecord
<1> HIDE DEF t, r
<1> QED
  BY <1>1, <1>5, <1>6, <1>12, <1>13, <1>15, <1>16, RestKept

LEMMA InsertFactInv == ASSUME RecordsInv, NEW i \in Importers, InsertFact(i) PROVE RecordsInv'
<1> DEFINE t == import[i]
           r == Current(i)
           fact == [by |-> i, index |-> import[i].at, under |-> import[i].child]
           u == [t EXCEPT !.filed = @ \cup {fact}]
<1>1. t.pc = "insert" /\ UNCHANGED <<parents, children, facts>>
  BY DEF InsertFact
<1>2. /\ t \in Import /\ Silent(t) /\ t.batch \in Batches /\ SyncStatus(t.batch) # "FAILED"
      /\ FiledBefore(i, t) /\ MadeUnderLocks(t)
      /\ AtItsRecord(i, t) /\ r = Rec(t) /\ r \in Record /\ t.pc \in AtRecord
  BY <1>1, AtWork DEF AtRecord, InTransaction
<1>3. /\ fact \in Fact /\ fact.by = i /\ fact.index = t.at /\ fact.under = t.child
  BY <1>2 DEF Fact, Import
<1> HIDE DEF fact
<1>4. import' = [import EXCEPT ![i] = NextRecord(u)]
  BY RecordsTypedNow, Zenon DEF InsertFact, fact
<1>5. u \in Import
  BY <1>2, <1>3 DEF Import
<1>6. /\ u.pc = t.pc /\ u.locks = t.locks /\ u.made = t.made
      /\ u.filed = t.filed \cup {fact} /\ u.at = t.at /\ u.batch = t.batch /\ u.logs = t.logs /\ u.late = t.late
  BY <1>2 DEF Import
<1> HIDE DEF u
<1>7. IsUnder(fact, t.batch, parents \cup t.locks, children \cup t.made)
  BY <1>1, <1>2, <1>3 DEF AtItsRecord, IsUnder, Rec
<1>8. t.at \in Accepted(t.batch) /\ t.at \in Nat /\ \A f \in t.filed : f.index < t.at /\ f.index \in Nat
  BY <1>1, <1>2 DEF AtItsRecord, FiledBefore, Import, Fact
<1>9. \A f \in u.filed : /\ f.by = i /\ f.index \in Accepted(u.batch)
                         /\ IsUnder(f, u.batch, parents \cup u.locks, children \cup u.made)
                         /\ f.index <= u.at
  <2>1. \A f \in t.filed : /\ f.by = i /\ f.index \in Accepted(t.batch)
                           /\ IsUnder(f, t.batch, parents \cup t.locks, children \cup t.made)
    BY <1>2 DEF FiledBefore
  <2>2. \A f \in t.filed \cup {fact} : f.index <= t.at
    BY <1>3, <1>8
  <2> HIDE DEF t
  <2> QED
    BY <1>3, <1>6, <1>7, <1>8, <2>1, <2>2
<1>10. \A f, g \in u.filed : f.index = g.index => f = g
  BY <1>2, <1>3, <1>6, <1>8 DEF FiledBefore
<1>11. ASSUME NEW n \in Accepted(u.batch), n <= u.at PROVE \E f \in u.filed : f.index = n
  <2>1. n \in Nat
    BY <1>2, <1>6, AcceptedValid
  <2>2. CASE n = t.at
    BY <1>3, <1>6, <2>2
  <2>3. CASE n < t.at
    BY <1>2, <1>6, <2>3 DEF FiledBefore
  <2> QED
    BY <1>6, <1>8, <1>11, <2>1, <2>2, <2>3
<1>12. MadeUnderLocks(u) /\ u.batch \in Batches /\ SyncStatus(u.batch) # "FAILED" /\ Silent(u)
  BY <1>2, <1>6 DEF MadeUnderLocks, Silent
<1>13. /\ NextRecord(u) \in Import /\ ImportFits(i, NextRecord(u))
       /\ NextRecord(u).locks = u.locks /\ NextRecord(u).made = u.made
       /\ Silent(NextRecord(u)) /\ NextRecord(u).pc \in InTransaction
  BY <1>5, <1>9, <1>10, <1>11, <1>12, NextFits
<1>14. StoredOf(i) = {} /\ Tells(StoredOf(i), NextRecord(u))
  BY <1>1, <1>13, StillNothing DEF InTransaction, AtRecord
<1> QED
  BY <1>1, <1>4, <1>6, <1>13, <1>14, OnlyGoesOn

LEMMA RollBackInv ==
  ASSUME RecordsInv, NEW i \in Importers, import[i].pc \in InTransaction, RollBack(i)
  PROVE  RecordsInv'
<1> DEFINE new == [NoImport EXCEPT !.pc = "error", !.batch = import[i].batch]
<1>1. import' = [import EXCEPT ![i] = new] /\ UNCHANGED <<parents, children, facts>>
  BY DEF RollBack
<1>2. import[i] \in Import /\ Silent(import[i])
  BY AtWork
<1>3. /\ new \in Import /\ new.pc = "error" /\ new.logs = {} /\ ~new.late
      /\ new.locks = {} /\ new.made = {} /\ new.filed = {}
  BY <1>2, NoImportTyped DEF Import, ImportPc, TellingFailure, Silent
<1> HIDE DEF new
<1>4. ImportFits(i, new)
  BY <1>3 DEF ImportFits, InTransaction, AtRecord
<1>5. StoredOf(i) = {} /\ Tells(StoredOf(i), new)
  BY <1>3, StillNothing DEF Silent
<1> QED
  BY <1>1, <1>3, <1>4, <1>5, OnlyGoesOn

(* The calls that follow a transaction, and those of a failure.            *)
LEMMA TellInv ==
  ASSUME RecordsInv, NEW i \in Importers, Tell(i) \/ TellFailure(i) \/ TellingFails(i)
  PROVE  RecordsInv'
<1> DEFINE t == import[i]
<1>1. t \in Import /\ ImportFits(i, t) /\ Tells(StoredOf(i), t) /\ UNCHANGED <<parents, children, facts>>
  BY RecordsTypedNow DEF RecordsInv, Tell, TellFailure, TellingFails
<1>2. t.batch \in Batches \cup {<<>>}
  BY <1>1 DEF Import
<1>3. ASSUME NEW pc \in {"log", "issue", "error", "errorlog", "ended"}, NEW late \in BOOLEAN,
             NEW logs \in SUBSET {"SUCCESS", "PARTIAL", "FAILED"}, t.pc \in Telling \cup TellingFailure,
             import' = [import EXCEPT ![i] = [t EXCEPT !.pc = pc, !.logs = logs, !.late = late]],
             \A new : /\ new.pc = pc /\ new.logs = logs /\ new.late = late /\ new.batch = t.batch
                      => Tells(StoredOf(i), new)
      PROVE  RecordsInv'
  <2> DEFINE new == [t EXCEPT !.pc = pc, !.logs = logs, !.late = late]
  <2>1. /\ new \in Import /\ new.pc = pc /\ new.logs = logs /\ new.late = late /\ new.batch = t.batch
        /\ new.locks = t.locks /\ new.made = t.made /\ new.filed = t.filed
    BY <1>1 DEF Import, ImportPc, Telling, TellingFailure
  <2>2. t.pc \notin InTransaction /\ pc \notin InTransaction
    BY <1>3 DEF Telling, TellingFailure, InTransaction, AtRecord
  <2>3. import' = [import EXCEPT ![i] = new]
    BY <1>3
  <2> HIDE DEF new
  <2>4. ImportFits(i, new)
    BY <1>1, <2>1, <2>2 DEF ImportFits, InTransaction
  <2>5. Tells(StoredOf(i), new)
    BY <1>3, <2>1
  <2> QED
    BY <1>1, <2>1, <2>3, <2>4, <2>5, OnlyGoesOn
<1>4. \A pc : ImportGoes(i, pc) =>
          import' = [import EXCEPT ![i] = [t EXCEPT !.pc = pc, !.logs = t.logs, !.late = t.late]]
  BY <1>1, RecordsTypedNow DEF ImportGoes, Import
<1>5. t.logs \in SUBSET {"SUCCESS", "PARTIAL", "FAILED"} /\ t.late \in BOOLEAN
  BY <1>1 DEF Import
<1>6. CASE UpdateIntegration(i)
  <2>1. t.pc = "status" /\ ImportGoes(i, "log")
    BY <1>6 DEF UpdateIntegration
  <2>2. \A new : /\ new.pc = "log" /\ new.logs = t.logs /\ new.late = t.late /\ new.batch = t.batch
                 => Tells(StoredOf(i), new)
    BY <1>1, <2>1 DEF Tells, Telling, TellingFailure, InTransaction, AtRecord
  <2> QED
    BY <1>3, <1>4, <1>5, <2>1, <2>2 DEF Telling
<1>7. CASE WriteSyncLog(i)
  <2> DEFINE pc == IF Rejects(t.batch) THEN "issue" ELSE "ended"
             logs == {SyncStatus(t.batch)}
  <2>1. /\ t.pc = "log" /\ pc \in {"issue", "ended"}
        /\ import' = [import EXCEPT ![i] = [t EXCEPT !.pc = pc, !.logs = logs, !.late = t.late]]
    BY <1>1, <1>7, RecordsTypedNow DEF WriteSyncLog, Import
  <2>2. logs \in SUBSET {"SUCCESS", "PARTIAL", "FAILED"}
    BY <1>2, StatusOf
  <2>3. StoredOf(i) = (IF SyncStatus(t.batch) = "FAILED" THEN {} ELSE Accepted(t.batch))
    BY <1>1, <2>1 DEF Tells, Telling
  <2>4. logs = {SyncStatus(t.batch)}
    OBVIOUS
  <2> HIDE DEF pc, logs
  <2>5. \A new : /\ new.pc = pc /\ new.logs = logs /\ new.late = t.late /\ new.batch = t.batch
                 => Tells(StoredOf(i), new)
    BY <2>1, <2>3, <2>4 DEF Tells, Telling, TellingFailure, InTransaction, AtRecord
  <2> QED
    BY <1>3, <1>5, <2>1, <2>2, <2>5 DEF Telling
<1>8. CASE LogIssues(i)
  <2>1. t.pc = "issue" /\ ImportGoes(i, "ended")
    BY <1>8 DEF LogIssues
  <2>2. \A new : /\ new.pc = "ended" /\ new.logs = t.logs /\ new.late = t.late /\ new.batch = t.batch
                 => Tells(StoredOf(i), new)
    BY <1>1, <2>1 DEF Tells, Telling, TellingFailure, InTransaction, AtRecord
  <2> QED
    BY <1>3, <1>4, <1>5, <2>1, <2>2 DEF Telling
<1>9. CASE t.pc = "error" /\ ImportGoes(i, "errorlog")
  <2>1. \A new : /\ new.pc = "errorlog" /\ new.logs = t.logs /\ new.late = t.late /\ new.batch = t.batch
                 => Tells(StoredOf(i), new)
    BY <1>1, <1>9 DEF Tells, Telling, TellingFailure, InTransaction, AtRecord
  <2> QED
    BY <1>3, <1>4, <1>5, <1>9, <2>1 DEF TellingFailure
<1>10. CASE LogFailedSync(i)
  <2> DEFINE logs == t.logs \cup {"FAILED"}
  <2>1. /\ t.pc = "errorlog" /\ logs \in SUBSET {"SUCCESS", "PARTIAL", "FAILED"}
        /\ import' = [import EXCEPT ![i] = [t EXCEPT !.pc = "ended", !.logs = logs, !.late = t.late]]
    BY <1>1, <1>5, <1>10, RecordsTypedNow DEF LogFailedSync, Import
  <2>2. \A new : /\ new.pc = "ended" /\ new.logs = logs /\ new.late = t.late /\ new.batch = t.batch
                 => Tells(StoredOf(i), new)
    BY <1>1, <2>1 DEF Tells, Telling, TellingFailure, InTransaction, AtRecord
  <2> QED
    BY <1>3, <1>5, <2>1, <2>2 DEF TellingFailure
<1>11. CASE /\ t.pc \in Telling
            /\ import' = [import EXCEPT ![i].pc = "error", ![i].late = TRUE]
  <2>1. import' = [import EXCEPT ![i] = [t EXCEPT !.pc = "error", !.logs = t.logs, !.late = TRUE]]
    BY <1>1, <1>11, RecordsTypedNow DEF Import
  <2>2. \A new : /\ new.pc = "error" /\ new.logs = t.logs /\ new.late = TRUE /\ new.batch = t.batch
                 => Tells(StoredOf(i), new)
    BY <1>1, <1>11 DEF Tells, Telling, TellingFailure, InTransaction, AtRecord
  <2> QED
    BY <1>3, <1>5, <1>11, <2>1, <2>2
<1>12. CASE t.pc \in TellingFailure /\ ImportGoes(i, "ended")
  <2>1. \A new : /\ new.pc = "ended" /\ new.logs = t.logs /\ new.late = t.late /\ new.batch = t.batch
                 => Tells(StoredOf(i), new)
    BY <1>1, <1>12 DEF Tells, Telling, TellingFailure, InTransaction, AtRecord
  <2> QED
    BY <1>3, <1>4, <1>5, <1>12, <2>1
<1> QED
  BY <1>6, <1>7, <1>8, <1>9, <1>10, <1>11, <1>12 DEF Tell, TellFailure, TellingFails

(* A worker that dies leaves what is committed and logged.                 *)
LEMMA WorkerDiesInv == ASSUME RecordsInv, NEW i \in Importers, WorkerDies(i) PROVE RecordsInv'
<1> DEFINE t == import[i]
           new == [NoImport EXCEPT !.pc = "ended", !.batch = import[i].batch, !.logs = import[i].logs,
                                   !.late = import[i].late]
<1>1. import' = [import EXCEPT ![i] = new] /\ UNCHANGED <<parents, children, facts>>
  BY DEF WorkerDies
<1>2. t \in Import /\ Tells(StoredOf(i), t)
  BY RecordsTypedNow DEF RecordsInv
<1>3. /\ new \in Import /\ new.pc = "ended" /\ new.logs = t.logs /\ new.late = t.late
      /\ new.batch = t.batch /\ new.locks = {} /\ new.made = {} /\ new.filed = {}
  BY <1>2, NoImportTyped DEF Import, ImportPc
<1> HIDE DEF new
<1>4. ImportFits(i, new)
  BY <1>3 DEF ImportFits, InTransaction, AtRecord
<1>5. Tells(StoredOf(i), new)
  BY <1>2, <1>3 DEF Tells, Telling, TellingFailure, InTransaction, AtRecord
<1> QED
  BY <1>1, <1>3, <1>4, <1>5, OnlyGoesOn

LEMMA CommitInv == ASSUME RecordsInv, NEW i \in Importers, Commit(i) PROVE RecordsInv'
<1> DEFINE t == import[i]
           new == [NoImport EXCEPT !.pc = "status", !.batch = import[i].batch]
<1>1. /\ t.pc = "commit" /\ import' = [import EXCEPT ![i] = new]
      /\ parents' = parents \cup t.locks /\ children' = children \cup t.made
      /\ facts' = facts \cup t.filed
  BY DEF Commit
<1>2. /\ t \in Import /\ Silent(t) /\ t.batch \in Batches /\ SyncStatus(t.batch) # "FAILED"
      /\ FiledBefore(i, t) /\ MadeUnderLocks(t)
  BY <1>1, AtWork DEF InTransaction
<1>4. /\ new \in Import /\ new.pc = "status" /\ new.logs = {} /\ ~new.late
      /\ new.locks = {} /\ new.made = {} /\ new.filed = {} /\ new.batch = t.batch
  BY <1>2, NoImportTyped DEF Import, ImportPc, Telling, Silent
<1> HIDE DEF new
<1>5. /\ import' \in [Importers -> Import] /\ import'[i] = new
      /\ \A j \in Importers : j # i => import'[j] = import[j]
  BY <1>1, <1>4, RecordsTypedNow
<1>6. RecordsTypeOK'
  BY <1>1, <1>2, <1>5, RecordsTypedNow DEF RecordsTypeOK, Import
<1>7. ASSUME NEW j \in Importers PROVE ImportFits(j, import[j])'
  <2>1. CASE j = i
    <3>1. import'[j] = new
      BY <1>5, <2>1
    <3> QED
      BY <1>4, <3>1 DEF ImportFits, InTransaction, AtRecord
  <2>2. CASE j # i
    <3>1. PICK u \in Import : u = import'[j] /\ u = import[j]
      BY <1>5, <2>2, RecordsTypedNow
    <3>2. ImportFits(j, u)
      BY <3>1, RecordsTypedNow
    <3>3. FiledBefore(j, u) => FiledBefore(j, import[j])'
      <4> SUFFICES ASSUME FiledBefore(j, u) PROVE FiledBefore(j, import[j])'
        OBVIOUS
      <4>1. ASSUME NEW f \in u.filed
            PROVE  IsUnder(f, u.batch, parents' \cup u.locks, children' \cup u.made)
        BY <1>1 DEF FiledBefore, IsUnder
      <4> QED
        BY <3>1, <4>1 DEF FiledBefore
    <3>4. u.pc \in AtRecord => AtItsRecord(j, import[j])'
      <4> SUFFICES ASSUME u.pc \in AtRecord PROVE AtItsRecord(j, import[j])'
        OBVIOUS
      <4>1. AtItsRecord(j, u) /\ u.batch \in Batches
        BY <3>2 DEF ImportFits, InTransaction
      <4>2. Rec(u) \in Record
        BY <4>1, AcceptedValid DEF AtItsRecord, Rec
      <4>3. ASSUME u.pc = "create", Updates(Rec(u)), NEW row \in children' \cup u.made
            PROVE  ~SameChild(j, row, Rec(u))
        <5> SUFFICES ASSUME SameChild(j, row, Rec(u)) PROVE FALSE
          OBVIOUS
        <5>1. row \in t.made
          BY <1>1, <4>1, <4>3 DEF AtItsRecord
        <5>2. row.of = ParentRow(j, Rec(u)) /\ row.of.table = "channel"
          BY <4>2, <4>3, RowsOf DEF SameChild, Updates
        <5>3. ParentRow(j, Rec(u)) \in t.locks
          BY <1>2, <5>1, <5>2 DEF MadeUnderLocks
        <5>4. ParentRow(j, Rec(u)) \in u.locks
          BY <4>1, <4>3 DEF AtItsRecord
        <5> QED
          BY <2>2, <3>1, <5>3, <5>4 DEF RecordsInv, LocksApart
      <4> QED
        BY <1>1, <3>1, <4>1, <4>3 DEF AtItsRecord
    <3> QED
      BY <3>1, <3>2, <3>3, <3>4 DEF ImportFits
  <2> QED
    BY <2>1, <2>2
<1>8. LocksApart'
  BY <1>4, <1>5 DEF RecordsInv, LocksApart
<1>9. \A a, b \in children' : Twin(a, b) => a = b
  BY <1>1 DEF RecordsInv, NoTwins
<1>10. NoTwins'
  <2> SUFFICES ASSUME NEW j \in Importers, NEW k \in Importers,
                      NEW a \in children' \cup import'[j].made, NEW b \in children' \cup import'[k].made,
                      Twin(a, b)
               PROVE  a = b
    BY DEF NoTwins, Twin
  <2>1. \E m \in Importers : a \in children \cup import[m].made
    BY <1>1, <1>4, <1>5
  <2>2. \E m \in Importers : b \in children \cup import[m].made
    BY <1>1, <1>4, <1>5
  <2> QED
    BY <2>1, <2>2 DEF RecordsInv, NoTwins
<1>11. NoChildTwice'
  BY <1>9 DEF NoChildTwice, Twin
<1>12. \A f \in facts : f.by # i /\ f.by \in Importers
  BY <1>1, NothingStored, RecordsTypedNow DEF Fact, InTransaction
<1>13. \A f \in t.filed : f.by = i
  BY <1>2 DEF FiledBefore
<1>14. FactsOnce'
  BY <1>1, <1>2, <1>12, <1>13 DEF RecordsInv, FactsOnce, FiledBefore
<1>15. FactsAreFiled'
  <2>1. ASSUME NEW f \in facts
        PROVE  LET r == import'[f.by].batch[f.index]
               IN  /\ HasParent(r) => ParentRow(f.by, r) \in parents'
                   /\ HasChild(r) => f.under \in children' /\ SameChild(f.by, f.under, r)
    BY <1>1, <1>5, <1>12 DEF RecordsInv, FactsAreFiled
  <2>2. ASSUME NEW f \in t.filed
        PROVE  LET r == import'[f.by].batch[f.index]
               IN  /\ HasParent(r) => ParentRow(f.by, r) \in parents'
                   /\ HasChild(r) => f.under \in children' /\ SameChild(f.by, f.under, r)
    <3>1. import'[f.by].batch = t.batch
      BY <1>4, <1>5, <1>13
    <3> QED
      BY <1>1, <1>2, <3>1 DEF FiledBefore, IsUnder
  <2> QED
    BY <1>1, <2>1, <2>2 DEF FactsAreFiled
<1>16. ASSUME NEW j \in Importers PROVE Tells(StoredOf(j), import[j])'
  <2>1. CASE j = i
    <3>1. StoredOf(j)' = {f.index : f \in t.filed}
      BY <1>1, <1>12, <1>13, <2>1 DEF StoredOf
    <3>2. {f.index : f \in t.filed} = Accepted(t.batch)
      BY <1>1, <1>2 DEF FiledBefore
    <3>3. StoredOf(j)' = Accepted(new.batch) /\ import'[j] = new /\ SyncStatus(new.batch) # "FAILED"
      BY <1>2, <1>4, <1>5, <2>1, <3>1, <3>2
    <3> QED
      BY <1>4, <3>3 DEF Tells, InTransaction, AtRecord, Telling, TellingFailure
  <2>2. CASE j # i
    <3>1. PICK stored : stored = StoredOf(j) /\ stored = StoredOf(j)'
      BY <1>1, <1>13, <2>2 DEF StoredOf
    <3>2. PICK u \in Import : u = import'[j] /\ u = import[j]
      BY <1>5, <2>2, RecordsTypedNow
    <3>3. Tells(stored, u)
      BY <3>1, <3>2 DEF RecordsInv
    <3> QED
      BY <3>1, <3>2, <3>3 DEF Tells, Silent
  <2> QED
    BY <2>1, <2>2
<1> QED
  BY <1>6, <1>7, <1>8, <1>10, <1>11, <1>14, <1>15, <1>16 DEF RecordsInv

LEMMA RecordsNextInv == RecordsInv /\ [RecordsNext]_recordVars => RecordsInv'
<1> SUFFICES ASSUME RecordsInv, [RecordsNext]_recordVars PROVE RecordsInv'
  OBVIOUS
<1>1. ASSUME NEW i \in Importers, ImportStep(i) PROVE RecordsInv'
  <2>1. CASE ReceiveBatch(i)
    BY <2>1, ReceiveBatchInv
  <2>2. CASE UpsertParent(i)
    BY <2>2, UpsertParentInv
  <2>3. CASE FindChild(i)
    BY <2>3, FindChildInv
  <2>4. CASE CreateChild(i)
    BY <2>4, CreateChildInv
  <2>5. CASE InsertFact(i)
    BY <2>5, InsertFactInv
  <2>6. CASE Commit(i)
    BY <2>6, CommitInv
  <2>7. CASE CallFails(i)
    BY <2>7, RollBackInv DEF CallFails
  <2>8. CASE IndexViolated(i)
    <3>1. import[i].pc \in InTransaction
      BY <2>8 DEF IndexViolated, InTransaction, AtRecord
    <3> QED
      BY <2>8, <3>1, RollBackInv DEF IndexViolated
  <2>9. CASE DeadlockVictim(i)
    <3>1. WaitsFor(i) # {}
      BY <2>9 DEF DeadlockVictim
    <3>2. import[i].pc \in InTransaction
      BY <3>1 DEF WaitsFor, InTransaction, AtRecord
    <3> QED
      BY <2>9, <3>2, RollBackInv DEF DeadlockVictim
  <2>10. CASE Tell(i) \/ TellFailure(i) \/ TellingFails(i)
    BY <2>10, TellInv
  <2>11. CASE WorkerDies(i)
    BY <2>11, WorkerDiesInv
  <2> QED
    BY <1>1, <2>1, <2>2, <2>3, <2>4, <2>5, <2>6, <2>7, <2>8, <2>9, <2>10, <2>11
    DEF ImportStep, ImportGoesOn, ImportFails
<1>2. CASE UNCHANGED recordVars
  <2>1. /\ parents' = parents /\ children' = children /\ facts' = facts /\ import' = import
    BY <1>2 DEF recordVars
  <2>2. ASSUME NEW j \in Importers PROVE ImportFits(j, import[j])'
    BY <2>1, RecordsTypedNow DEF ImportFits, FiledBefore, AtItsRecord
  <2>3. RecordsTypeOK' /\ LocksApart' /\ NoTwins' /\ NoChildTwice' /\ FactsOnce'
    BY <2>1 DEF RecordsInv, RecordsTypeOK, LocksApart, NoTwins, NoChildTwice, FactsOnce
  <2>4. FactsAreFiled'
    BY <2>1 DEF RecordsInv, FactsAreFiled
  <2>5. ASSUME NEW j \in Importers PROVE Tells(StoredOf(j), import[j])'
    BY <2>1 DEF RecordsInv, Tells, Silent, StoredOf
  <2> QED
    BY <2>2, <2>3, <2>4, <2>5 DEF RecordsInv
<1> QED
  BY <1>1, <1>2 DEF RecordsNext

LEMMA RecordsInvHolds == RecordsSpec => []RecordsInv
<1>1. RecordsInit => RecordsInv
  BY RecordsInitInv
<1>2. RecordsInv /\ [RecordsNext]_recordVars => RecordsInv'
  BY RecordsNextInv
<1> QED
  BY <1>1, <1>2, PTL DEF RecordsSpec

(* Two records of one sync that are stored differ, as the second of two    *)
(* that are the same is no accepted record.                                *)
LEMMA RecordsInvWhole == RecordsInv => RecordsTypeOK /\ ImportsAreWhole
<1> SUFFICES ASSUME RecordsInv PROVE RecordsTypeOK /\ ImportsAreWhole
  OBVIOUS
<1>1. ASSUME NEW f \in facts, NEW g \in facts, f.by = g.by,
             import[f.by].batch[f.index] = import[g.by].batch[g.index]
      PROVE  f = g
  <2>1. PICK i \in Importers : i = f.by /\ i = g.by
    BY <1>1, RecordsTypedNow DEF Fact
  <2>2. import[i].batch \in Batches \cup {<<>>}
    BY RecordsTypedNow DEF Import
  <2>3. f.index \in StoredOf(i) /\ g.index \in StoredOf(i)
    BY <2>1 DEF StoredOf
  <2>4. f.index \in Accepted(import[i].batch) /\ g.index \in Accepted(import[i].batch)
    BY <2>3 DEF RecordsInv, Tells
  <2>5. f.index = g.index
    BY <1>1, <2>1, <2>2, <2>4, AcceptedValid
  <2> QED
    BY <2>1, <2>5 DEF RecordsInv, FactsOnce
<1>2. AllOrNothing
  BY DEF RecordsInv, AllOrNothing, Tells
<1> QED
  BY <1>1, <1>2 DEF RecordsInv, ImportsAreWhole, StoredOnce

(* What a sync files of its batch is all of its valid rows or nothing, each*)
(* once and under its own parent, for any batches, whichever transactions  *)
(* overlap and whichever calls fail; a log that says SUCCESS or PARTIAL is *)
(* of a sync that is stored, one that says FAILED of one that is not, or   *)
(* that failed only after its transaction (IntegrationSyncProcessor).      *)
THEOREM ImportsWhole == RecordsSpec => []ImportsAreWhole
BY RecordsInvHolds, RecordsInvWhole, PTL
==============================================================================
