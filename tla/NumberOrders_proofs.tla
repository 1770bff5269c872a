------------------------ MODULE NumberOrders_proofs ------------------------
(***************************************************************************)
(* Proofs about NumberOrders for every number of orders, customers,        *)
(* handlers and activations.  Every action changes at most one row, and    *)
(* only in a few ways (RowChange); the theorems follow from that.          *)
(***************************************************************************)
EXTENDS NumberOrders, FiniteNumbers

TypeInv == TypeOK /\ IdentifiersKnown

OrderTypeOK == order \in [Orders -> RowType]

LedgerTypeOK == /\ posted \in SUBSET Keys
                /\ balance \in [Users -> Int]
                /\ payable \in Int /\ revenue \in Int

\* The money of an order moves together with its status, or neither does.
MoneyChange(o) ==
    \/ /\ UNCHANGED ledger
       /\ \/ {order[o].status, order'[o].status} \subseteq MoneyOpen
          \/ /\ order'[o].status = order[o].status
             /\ order'[o].why = order[o].why
             /\ order[o].status \in Refunded => order'[o].inbox = order[o].inbox
    \/ /\ order[o].status = "none" /\ order'[o].status = "reserved"
       /\ Price[o] <= balance[Owner[o]] /\ PostReserve(o)
    \/ order[o].status \in MoneyOpen /\ order'[o].status = "delivered" /\ PostSettle(o)
    \/ order[o].status \in MoneyOpen /\ order'[o].status \in Refunded /\ PostRefund(o)

\* What a step may do to the row of o.
RowChange(o) ==
    /\ OrderTypeOK' /\ LedgerTypeOK'
    /\ \A p \in Orders \ {o} : order'[p] = order[p]
    /\ order[o].status # "none" =>
          /\ order'[o].status # "none"
          /\ order[o].pid \in Activations => order'[o].pid \in Activations
    /\ order'[o].status \in {"awaiting_code", "delivered"} => order'[o].pid \in Activations
    /\ order'[o].status = "expired" /\ order[o].status # "expired" => order'[o].inbox = {}
    /\ MoneyChange(o)

-----------------------------------------------------------------------------
(* The ways a row is written.                                              *)

LEMMA WriteRow ==
    ASSUME NumberOrdersAssumption, TypeOK, NEW o \in Orders, NEW row \in RowType, Write(o, row)
    PROVE  /\ OrderTypeOK' /\ order'[o] = row
           /\ \A p \in Orders \ {o} : order'[p] = order[p]
BY DEF TypeOK, OrderTypeOK, Write

LEMMA ClaimTypes ==
    ASSUME NumberOrdersAssumption, NEW row \in RowType, NEW who \in Orders \cup Tasks
    PROVE  Unclaimed(row) \in RowType /\ ClaimedBy(row, who) \in RowType
BY DEF RowType, Unclaimed, ClaimedBy

LEMMA PostTypes ==
    ASSUME NumberOrdersAssumption, TypeOK, NEW o \in Orders,
           PostReserve(o) \/ PostSettle(o) \/ PostRefund(o) \/ UNCHANGED ledger
    PROVE  LedgerTypeOK'
BY DEF NumberOrdersAssumption, TypeOK, LedgerTypeOK, PostReserve, PostSettle, PostRefund,
       Post, ledger, Keys

\* A write that touches none of what the properties read.
LEMMA SameRow ==
    ASSUME NumberOrdersAssumption, TypeInv, NEW o \in Orders, NEW row \in RowType,
           Write(o, row), UNCHANGED ledger,
           row.status = order[o].status, row.pid = order[o].pid,
           row.why = order[o].why, row.inbox = order[o].inbox
    PROVE  RowChange(o)
<1>1. /\ OrderTypeOK' /\ order'[o] = row
      /\ \A p \in Orders \ {o} : order'[p] = order[p]
  BY WriteRow DEF TypeInv
<1>2. LedgerTypeOK'
  BY PostTypes DEF TypeInv
<1> QED
  BY <1>1, <1>2 DEF RowChange, MoneyChange, TypeInv, IdentifiersKnown, OrderKnows

LEMMA NoRowChange ==
    ASSUME NumberOrdersAssumption, TypeInv, NEW o \in Orders, UNCHANGED <<order, ledger>>
    PROVE  RowChange(o)
<1>1. LedgerTypeOK'
  BY PostTypes DEF TypeInv
<1> QED
  BY <1>1 DEF RowChange, MoneyChange, TypeInv, TypeOK, OrderTypeOK, IdentifiersKnown, OrderKnows

LEMMA ClaimChange ==
    ASSUME NumberOrdersAssumption, TypeInv, NEW o \in Orders, NEW who \in Orders \cup Tasks,
           \/ Write(o, ClaimedBy(order[o], who))
           \/ Write(o, [ClaimedBy(order[o], who) EXCEPT !.started = TRUE])
           \/ Write(o, [order[o] EXCEPT !.live = FALSE])
           \/ Release(o, who),
           UNCHANGED ledger
    PROVE  RowChange(o)
<1>1. order[o] \in RowType
  BY DEF TypeInv, TypeOK
<1>2. CASE Write(o, ClaimedBy(order[o], who))
  BY ZenonT(60), <1>1, <1>2, ClaimTypes, SameRow DEF ClaimedBy, RowType
<1>3. CASE Write(o, [ClaimedBy(order[o], who) EXCEPT !.started = TRUE])
  <2> DEFINE row == [ClaimedBy(order[o], who) EXCEPT !.started = TRUE]
  <2>1. /\ row \in RowType
        /\ row.status = order[o].status /\ row.pid = order[o].pid
        /\ row.why = order[o].why /\ row.inbox = order[o].inbox
    BY <1>1 DEF ClaimedBy, RowType
  <2> QED
    BY <1>3, <2>1, SameRow
<1>4. CASE Write(o, [order[o] EXCEPT !.live = FALSE])
  <2> DEFINE row == [order[o] EXCEPT !.live = FALSE]
  <2>1. /\ row \in RowType
        /\ row.status = order[o].status /\ row.pid = order[o].pid
        /\ row.why = order[o].why /\ row.inbox = order[o].inbox
    BY <1>1 DEF RowType
  <2> QED
    BY <1>4, <2>1, SameRow
<1>5. CASE Release(o, who)
  <2> DEFINE row == IF order[o].claim = who THEN Unclaimed(order[o]) ELSE order[o]
  <2>1. /\ row \in RowType
        /\ row.status = order[o].status /\ row.pid = order[o].pid
        /\ row.why = order[o].why /\ row.inbox = order[o].inbox
    BY ZenonT(60), <1>1, ClaimTypes DEF Unclaimed, RowType
  <2> QED
    BY <1>5, <2>1, SameRow DEF Release
<1> QED
  BY <1>2, <1>3, <1>4, <1>5

LEMMA RefundChange ==
    ASSUME NumberOrdersAssumption, TypeInv, NEW o \in Orders, NEW who \in Orders \cup Tasks,
           NEW status \in {"cancelled", "failed"}, NEW why \in Failures,
           ApplyRefund(o, who, status, why)
    PROVE  RowChange(o)
<1>1. CASE UNCHANGED <<order, ledger>>
  BY <1>1, NoRowChange
<1>2. CASE order[o].status \in MoneyOpen /\ RefundOpen(o, order[o], status, why)
  <2> DEFINE row == [Unclaimed(order[o]) EXCEPT !.status = status, !.why = why, !.open = FALSE]
  <2>1. order[o] \in RowType /\ Unclaimed(order[o]) \in RowType
    BY ClaimTypes DEF TypeInv, TypeOK
  <2>2. row \in RowType /\ row.status = status /\ row.pid = order[o].pid
    BY ZenonT(60), <2>1 DEF RowType, Statuses, Refunded, Unclaimed
  <2>3. Write(o, row) /\ PostRefund(o)
    BY <1>2 DEF RefundOpen
  <2>4. /\ OrderTypeOK' /\ order'[o] = row
        /\ \A p \in Orders \ {o} : order'[p] = order[p]
    BY <2>2, <2>3, WriteRow DEF TypeInv
  <2>5. LedgerTypeOK'
    BY <2>3, PostTypes DEF TypeInv
  <2> HIDE DEF row
  <2> QED
    BY <1>2, <2>2, <2>3, <2>4, <2>5 DEF RowChange, MoneyChange, Refunded
<1> QED
  BY <1>1, <1>2 DEF ApplyRefund

LEMMA CheckChange ==
    ASSUME NumberOrdersAssumption, TypeInv, NEW o \in Orders, NEW who \in Orders \cup Tasks,
           NEW claimed \in BOOLEAN, NEW ans \in Answers, order[o].pid \in Activations,
           ApplyCheck(o, who, claimed, ans)
    PROVE  RowChange(o)
<1> DEFINE row == [order[o] EXCEPT !.expiry = Later(@, ans.until), !.inbox = @ \cup ans.sms]
           stay == ~ans.closed /\ ~Past(row.expiry)
           held == order[o].status \in MoneyOpen
<1>1. order[o] \in RowType
  BY DEF TypeInv, TypeOK
<1>2. Later(order[o].expiry, ans.until) \in Nat /\ order[o].inbox \cup ans.sms \in SUBSET Sms
  BY <1>1 DEF RowType, Answers, Later
<1>3. /\ row \in RowType /\ row.status = order[o].status /\ row.pid = order[o].pid
      /\ row.why = order[o].why
  BY <1>1, <1>2 DEF RowType
<1>4. /\ Unclaimed(row) \in RowType /\ Unclaimed(row).status = order[o].status
      /\ Unclaimed(row).pid = order[o].pid /\ Unclaimed(row).why = order[o].why
      /\ Unclaimed(row).inbox = row.inbox
  BY ZenonT(60), <1>3, ClaimTypes DEF Unclaimed, RowType
<1>5. stay \in BOOLEAN
  OBVIOUS
<1>6. \/ held /\ SettleOpen(o, row, stay)
      \/ (held \/ order[o].status = "delivered")
         /\ \E b \in BOOLEAN : ScheduleOpen(o, row, b)
      \/ held /\ ReviewOpen(o, row)
      \/ held /\ row.inbox = {} /\ RefundOpen(o, row, "expired", "expired")
      \/ UNCHANGED <<order, ledger>>
  BY <1>3 DEF ApplyCheck
<1> HIDE DEF row, stay
<1>7. CASE held /\ SettleOpen(o, row, stay)
  <2> DEFINE new == [Unclaimed(row) EXCEPT !.status = "delivered", !.open = stay]
  <2>1. new \in RowType /\ new.status = "delivered" /\ new.pid = order[o].pid
    BY ZenonT(60), <1>4, <1>5 DEF RowType, Statuses
  <2>2. Write(o, new) /\ PostSettle(o)
    BY <1>7 DEF SettleOpen
  <2>3. /\ OrderTypeOK' /\ order'[o] = new
        /\ \A p \in Orders \ {o} : order'[p] = order[p]
    BY <2>1, <2>2, WriteRow DEF TypeInv
  <2>4. LedgerTypeOK'
    BY <2>2, PostTypes DEF TypeInv
  <2> HIDE DEF new
  <2> QED
    BY <1>7, <2>1, <2>2, <2>3, <2>4 DEF RowChange, MoneyChange
<1>8. CASE /\ held \/ order[o].status = "delivered"
           /\ \E b \in BOOLEAN : ScheduleOpen(o, row, b)
  <2>1. PICK b \in BOOLEAN : ScheduleOpen(o, row, b)
    BY <1>8
  <2> DEFINE new == [Unclaimed(row) EXCEPT !.open = b]
  <2>2. /\ new \in RowType /\ new.status = order[o].status /\ new.pid = order[o].pid
        /\ new.why = order[o].why
    BY <1>4 DEF RowType
  <2>3. Write(o, new) /\ UNCHANGED ledger
    BY <2>1 DEF ScheduleOpen
  <2>4. /\ OrderTypeOK' /\ order'[o] = new
        /\ \A p \in Orders \ {o} : order'[p] = order[p]
    BY <2>2, <2>3, WriteRow DEF TypeInv
  <2>5. LedgerTypeOK'
    BY <2>3, PostTypes DEF TypeInv
  <2> HIDE DEF new
  <2> QED
    BY <1>8, <2>2, <2>3, <2>4, <2>5 DEF RowChange, MoneyChange, MoneyOpen, Refunded
<1>9. CASE held /\ ReviewOpen(o, row)
  <2> DEFINE new == [Unclaimed(row) EXCEPT !.status = "review_required",
                                           !.review = "without_code", !.open = FALSE]
  <2>1. new \in RowType /\ new.status = "review_required" /\ new.pid = order[o].pid
    BY <1>4 DEF RowType, Statuses, MoneyOpen, Reviews
  <2>2. Write(o, new) /\ UNCHANGED ledger
    BY <1>9 DEF ReviewOpen
  <2>3. /\ OrderTypeOK' /\ order'[o] = new
        /\ \A p \in Orders \ {o} : order'[p] = order[p]
    BY <2>1, <2>2, WriteRow DEF TypeInv
  <2>4. LedgerTypeOK'
    BY <2>2, PostTypes DEF TypeInv
  <2> HIDE DEF new
  <2> QED
    BY <1>9, <2>1, <2>2, <2>3, <2>4 DEF RowChange, MoneyChange, MoneyOpen
<1>10. CASE held /\ row.inbox = {} /\ RefundOpen(o, row, "expired", "expired")
  <2> DEFINE new == [Unclaimed(row) EXCEPT !.status = "expired", !.why = "expired",
                                           !.open = FALSE]
  <2>1. /\ new \in RowType /\ new.status = "expired" /\ new.pid = order[o].pid
        /\ new.inbox = {}
    BY <1>4, <1>10 DEF RowType, Statuses, Refunded, Failures
  <2>2. Write(o, new) /\ PostRefund(o)
    BY <1>10 DEF RefundOpen
  <2>3. /\ OrderTypeOK' /\ order'[o] = new
        /\ \A p \in Orders \ {o} : order'[p] = order[p]
    BY <2>1, <2>2, WriteRow DEF TypeInv
  <2>4. LedgerTypeOK'
    BY <2>2, PostTypes DEF TypeInv
  <2> HIDE DEF new
  <2> QED
    BY <1>10, <2>1, <2>2, <2>3, <2>4 DEF RowChange, MoneyChange, Refunded
<1>11. CASE UNCHANGED <<order, ledger>>
  BY <1>11, NoRowChange
<1> QED
  BY <1>6, <1>7, <1>8, <1>9, <1>10, <1>11

LEMMA ReviewChange ==
    ASSUME NumberOrdersAssumption, TypeInv, NEW o \in Orders, NEW who \in Orders \cup Tasks,
           MarkReview(o, who), UNCHANGED ledger
    PROVE  RowChange(o)
<1>1. CASE UNCHANGED order
  BY <1>1, NoRowChange
<1>2. CASE /\ order[o].status \in {"reserved", "awaiting_code"}
           /\ Write(o, [Unclaimed(order[o]) EXCEPT !.status = "review_required",
                                                   !.review = "purchase_unknown"])
  <2> DEFINE new == [Unclaimed(order[o]) EXCEPT !.status = "review_required",
                                                !.review = "purchase_unknown"]
  <2>1. Unclaimed(order[o]) \in RowType /\ Unclaimed(order[o]).pid = order[o].pid
    BY ZenonT(60), ClaimTypes DEF TypeInv, TypeOK, Unclaimed, RowType
  <2>2. new \in RowType /\ new.status = "review_required" /\ new.pid = order[o].pid
    BY <2>1 DEF RowType, Statuses, MoneyOpen, Reviews
  <2>3. Write(o, new)
    BY <1>2
  <2>4. /\ OrderTypeOK' /\ order'[o] = new
        /\ \A p \in Orders \ {o} : order'[p] = order[p]
    BY <2>2, <2>3, WriteRow DEF TypeInv
  <2>5. LedgerTypeOK'
    BY PostTypes DEF TypeInv
  <2> HIDE DEF new
  <2> QED
    BY <1>2, <2>2, <2>4, <2>5 DEF RowChange, MoneyChange, MoneyOpen
<1> QED
  BY <1>1, <1>2 DEF MarkReview

LEMMA AssignChange ==
    ASSUME NumberOrdersAssumption, TypeInv, NEW o \in Orders, NEW a \in Activations,
           order[o].status \in {"reserved", "review_required"},
           Write(o, Assigned(order[o], a)), UNCHANGED ledger
    PROVE  RowChange(o)
<1> DEFINE new == Assigned(order[o], a)
<1>1. supplier[a].until \in Nat
  BY DEF TypeInv, TypeOK, SupplierTypeOK
<1>2. Unclaimed(order[o]) \in RowType
  BY ClaimTypes DEF TypeInv, TypeOK
<1>3. new \in RowType /\ new.status = "awaiting_code" /\ new.pid = a
  BY <1>1, <1>2 DEF Assigned, RowType, Statuses, MoneyOpen
<1>4. Write(o, new)
  OBVIOUS
<1>5. /\ OrderTypeOK' /\ order'[o] = new
      /\ \A p \in Orders \ {o} : order'[p] = order[p]
  BY <1>3, <1>4, WriteRow DEF TypeInv
<1>6. LedgerTypeOK'
  BY PostTypes DEF TypeInv
<1> HIDE DEF new
<1> QED
  BY <1>3, <1>5, <1>6 DEF RowChange, MoneyChange, MoneyOpen

LEMMA ReserveChange ==
    ASSUME NumberOrdersAssumption, TypeInv, NEW o \in Orders, Reserve(o)
    PROVE  RowChange(o)
<1> DEFINE new == [NoRow EXCEPT !.status = "reserved", !.created = now]
<1>1. new \in RowType /\ new.status = "reserved"
  BY DEF TypeInv, TypeOK, NoRow, RowType, Statuses, MoneyOpen, Reviews, Failures
<1>2. /\ Write(o, new) /\ PostReserve(o) /\ order[o].status = "none"
      /\ Price[o] <= balance[Owner[o]]
  BY DEF Reserve
<1>3. /\ OrderTypeOK' /\ order'[o] = new
      /\ \A p \in Orders \ {o} : order'[p] = order[p]
  BY <1>1, <1>2, WriteRow DEF TypeInv
<1>4. LedgerTypeOK'
  BY <1>2, PostTypes DEF TypeInv
<1> HIDE DEF new
<1> QED
  BY <1>1, <1>2, <1>3, <1>4 DEF RowChange, MoneyChange

-----------------------------------------------------------------------------
(* The rest of the state: the supplier, the buyers, the tasks.             *)

BuyersOK == /\ buyer \in [Orders -> BuyerType]
            /\ \A o \in Orders : buyer[o].pc \in {"assign", "giveback"} =>
                                     buyer[o].act \in Activations

TasksOK == /\ task \in [Tasks -> TaskType]
           /\ \A t \in Tasks : TaskKnows(t)

CountersOK == now \in Nat /\ crashes \in Nat

\* The invariant, taken apart and put together again.
LEMMA Parts ==
    TypeInv <=> /\ SupplierTypeOK /\ OrderTypeOK /\ LedgerTypeOK /\ CountersOK
                /\ BuyersOK /\ TasksOK
                /\ \A o \in Orders : order[o].status \in {"awaiting_code", "delivered"} =>
                                         order[o].pid \in Activations
BY DEF TypeInv, TypeOK, IdentifiersKnown, OrderKnows, OrderTypeOK, LedgerTypeOK, CountersOK,
       BuyersOK, TasksOK

LEMMA Together ==
    ASSUME TypeInv, NEW o \in Orders, RowChange(o),
           SupplierTypeOK', CountersOK', BuyersOK', TasksOK'
    PROVE  TypeInv'
<1>1. \A p \in Orders : order'[p].status \in {"awaiting_code", "delivered"} =>
                           order'[p].pid \in Activations
  BY Parts DEF RowChange
<1> QED
  BY <1>1 DEF RowChange, TypeInv, TypeOK, IdentifiersKnown, OrderKnows, OrderTypeOK,
              LedgerTypeOK, CountersOK, BuyersOK, TasksOK

LEMMA SupplierTypes ==
    ASSUME NumberOrdersAssumption, TypeInv, NEW a, NEW until \in Nat,
           \/ a \in Activations /\ Sell(a, until)
           \/ \E m \in Sms : Receive(a, m)
           \/ Close(a)
           \/ Extend(a, until)
           \/ CancelHonoured(a)
           \/ UNCHANGED supplierVars
    PROVE  SupplierTypeOK'
BY DEF TypeInv, TypeOK, SupplierTypeOK, Sell, Receive, Close, Extend, CancelHonoured,
       supplierVars, Lifecycles

\* A row only gains what other handlers count on.
LEMMA Gains ==
    ASSUME TypeInv, NEW o \in Orders, RowChange(o), NEW p \in Orders, order[p].status # "none"
    PROVE  /\ order'[p].status # "none"
           /\ order[p].pid \in Activations => order'[p].pid \in Activations
BY DEF RowChange

LEMMA TasksKept ==
    ASSUME TypeInv, NEW o \in Orders, RowChange(o), UNCHANGED task
    PROVE  TasksOK'
<1>1. ASSUME NEW t \in Tasks PROVE TaskKnows(t)'
  <2>1. TaskKnows(t)
    BY DEF TypeInv, IdentifiersKnown
  <2> QED
    BY <2>1, Gains DEF TaskKnows
<1> QED
  BY <1>1 DEF TasksOK, TypeInv, TypeOK

LEMMA TaskWrite ==
    ASSUME TypeInv, NEW o \in Orders, RowChange(o), NEW t \in Tasks, NEW v \in TaskType,
           task' = [task EXCEPT ![t] = v],
           v.pc # "idle" => v.order \in Orders /\ order'[v.order].status # "none",
           v.pc \in {"check", "handback", "apply"} \/ (v.pc = "claim" /\ v.then = "check") =>
               v.pid \in Activations /\ order'[v.order].pid \in Activations,
           v.pc \in {"taken", "adopt"} => v.pid \in Activations
    PROVE  TasksOK'
<1>1. ASSUME NEW u \in Tasks, u # t PROVE TaskKnows(u)'
  <2>1. TaskKnows(u) /\ task'[u] = task[u]
    BY <1>1 DEF TypeInv, IdentifiersKnown, TypeOK
  <2> QED
    BY <2>1, Gains DEF TaskKnows
<1>2. task'[t] = v
  BY DEF TypeInv, TypeOK
<1>3. TaskKnows(t)'
  BY <1>2 DEF TaskKnows
<1> QED
  BY <1>1, <1>3 DEF TasksOK, TypeInv, TypeOK

LEMMA IdleType == ASSUME NumberOrdersAssumption PROVE Idle \in TaskType /\ Idle.pc = "idle"
BY DEF Idle, TaskType, JobKinds, Answers, ClosedAnswer

LEMMA TaskFinishes ==
    ASSUME NumberOrdersAssumption, TypeInv, NEW o \in Orders, RowChange(o), NEW t \in Tasks,
           Finish(t)
    PROVE  TasksOK'
BY IdleType, TaskWrite DEF Finish

-----------------------------------------------------------------------------
(* create_order, action by action.                                         *)

LEMMA BuyerMoves ==
    ASSUME NumberOrdersAssumption, TypeInv, NEW o \in Orders, NEW b \in BuyerType,
           b.pc \in {"assign", "giveback"} => b.act \in Activations,
           buyer' = [buyer EXCEPT ![o] = b]
    PROVE  BuyersOK'
BY Parts DEF BuyersOK

LEMMA BuyerAtTypes ==
    ASSUME NumberOrdersAssumption, TypeInv, NEW o \in Orders, NEW from,
           NEW to \in {"reserved", "buying", "lookup", "rejected", "ambiguous",
                   "giveback", "done"},
           BuyerAt(o, from, to), to = "giveback" => from = "assign"
    PROVE  BuyersOK'
<1> DEFINE b == [buyer[o] EXCEPT !.pc = to]
<1>1. BuyersOK
  BY Parts
<1>2. b \in BuyerType /\ b.pc = to /\ b.act = buyer[o].act
  BY <1>1 DEF BuyersOK, BuyerType
<1>3. buyer' = [buyer EXCEPT ![o] = b] /\ buyer[o].pc = from
  BY DEF BuyerAt
<1>4. b.pc \in {"assign", "giveback"} => b.act \in Activations
  BY <1>1, <1>2, <1>3 DEF BuyersOK
<1> HIDE DEF b
<1> QED
  BY <1>2, <1>3, <1>4, BuyerMoves

LEMMA HoldUntilType == ASSUME NumberOrdersAssumption, TypeInv PROVE HoldUntil \in Nat
BY DEF NumberOrdersAssumption, TypeInv, TypeOK, HoldUntil

LEMMA PurchaseStep ==
    ASSUME NumberOrdersAssumption, TypeInv, NEW o \in Orders, Purchase(o)
    PROVE  RowChange(o) /\ TypeInv'
<1>1. UNCHANGED task /\ (RowChange(o) => TasksOK')
  BY TasksKept DEF Purchase, Reserve, StartPurchase, Bought, BuyRejected, BuyAmbiguous,
     BuyUnreadable, RecoverRecentBuy, RefundRejected, MarkAmbiguous, Assign, GiveBack
<1>2. CountersOK'
  BY Parts DEF CountersOK, Purchase, Reserve, StartPurchase, Bought, BuyRejected, BuyAmbiguous,
     BuyUnreadable, RecoverRecentBuy, RefundRejected, MarkAmbiguous, Assign, GiveBack
<1>3. CASE Reserve(o)
  <2>1. BuyersOK'
    BY <1>3, BuyerAtTypes DEF Reserve
  <2>2. SupplierTypeOK'
    BY <1>3, SupplierTypes DEF Reserve
  <2> QED
    BY <1>1, <1>2, <1>3, <2>1, <2>2, ReserveChange, Together
<1>4. CASE StartPurchase(o)
  <2>1. BuyersOK'
    BY <1>4, BuyerAtTypes DEF StartPurchase
  <2>2. SupplierTypeOK'
    BY <1>4, SupplierTypes DEF StartPurchase
  <2>3. RowChange(o)
    BY <1>4, ClaimChange, NoRowChange DEF StartPurchase
  <2> QED
    BY <1>1, <1>2, <2>1, <2>2, <2>3, Together
<1>5. CASE Bought(o)
  <2>1. PICK a \in Activations :
           Sell(a, HoldUntil) /\ buyer' = [buyer EXCEPT ![o] = [pc |-> "assign", act |-> a]]
    BY <1>5 DEF Bought
  <2>2. BuyersOK'
    <3> DEFINE b == [pc |-> "assign", act |-> a]
    <3>1. b \in BuyerType /\ b.act \in Activations
      BY DEF BuyerType
    <3> QED
      BY <2>1, <3>1, BuyerMoves
  <2>3. SupplierTypeOK'
    BY <2>1, HoldUntilType, SupplierTypes
  <2>4. RowChange(o)
    BY <1>5, NoRowChange DEF Bought
  <2> QED
    BY <1>1, <1>2, <2>2, <2>3, <2>4, Together
<1>6. CASE BuyRejected(o)
  <2>1. BuyersOK'
    BY <1>6, BuyerAtTypes DEF BuyRejected
  <2>2. SupplierTypeOK'
    BY <1>6, SupplierTypes DEF BuyRejected
  <2>3. RowChange(o)
    BY <1>6, NoRowChange DEF BuyRejected
  <2> QED
    BY <1>1, <1>2, <2>1, <2>2, <2>3, Together
<1>7. CASE BuyAmbiguous(o) \/ BuyUnreadable(o)
  <2>1. BuyersOK'
    BY <1>7, BuyerAtTypes DEF BuyAmbiguous, BuyUnreadable
  <2>2. SupplierTypeOK'
    BY <1>7, HoldUntilType, SupplierTypes DEF BuyAmbiguous, BuyUnreadable
  <2>3. RowChange(o)
    BY <1>7, NoRowChange DEF BuyAmbiguous, BuyUnreadable
  <2> QED
    BY <1>1, <1>2, <2>1, <2>2, <2>3, Together
<1>12. CASE RecoverRecentBuy(o)
  <2>1. PICK a \in Recoverable :
           buyer' = [buyer EXCEPT ![o] = [pc |-> IF a = NoActivation THEN "ambiguous" ELSE "assign",
                                          act |-> a]]
    BY <1>12 DEF RecoverRecentBuy
  <2>2. a \in Activations \cup {NoActivation}
    BY Parts DEF SupplierTypeOK, Recoverable
  <2>3. BuyersOK'
    <3> DEFINE b == [pc |-> IF a = NoActivation THEN "ambiguous" ELSE "assign", act |-> a]
    <3>1. b \in BuyerType /\ (b.pc \in {"assign", "giveback"} => b.act \in Activations)
      BY <2>2 DEF BuyerType
    <3> HIDE DEF b
    <3> QED
      BY <2>1, <3>1, BuyerMoves DEF b
  <2>4. SupplierTypeOK'
    BY <1>12, SupplierTypes DEF RecoverRecentBuy
  <2>5. RowChange(o)
    BY <1>12, NoRowChange DEF RecoverRecentBuy
  <2> QED
    BY <1>1, <1>2, <2>3, <2>4, <2>5, Together
<1>8. CASE RefundRejected(o)
  <2>1. BuyersOK'
    BY <1>8, BuyerAtTypes DEF RefundRejected
  <2>2. SupplierTypeOK'
    BY <1>8, SupplierTypes DEF RefundRejected
  <2>3. RowChange(o)
    BY <1>8, RefundChange DEF RefundRejected, Failures
  <2> QED
    BY <1>1, <1>2, <2>1, <2>2, <2>3, Together
<1>9. CASE MarkAmbiguous(o)
  <2>1. BuyersOK'
    BY <1>9, BuyerAtTypes DEF MarkAmbiguous
  <2>2. SupplierTypeOK'
    BY <1>9, SupplierTypes DEF MarkAmbiguous
  <2>3. RowChange(o)
    BY <1>9, ReviewChange DEF MarkAmbiguous
  <2> QED
    BY <1>1, <1>2, <2>1, <2>2, <2>3, Together
<1>10. CASE Assign(o)
  <2>1. BuyersOK'
    BY <1>10, BuyerAtTypes DEF Assign
  <2>2. SupplierTypeOK'
    BY <1>10, SupplierTypes DEF Assign
  <2>3. RowChange(o)
    <3>1. buyer[o].act \in Activations
      BY <1>10, Parts DEF Assign, BuyerAt, BuyersOK
    <3> QED
      BY <1>10, <3>1, AssignChange, NoRowChange DEF Assign
  <2> QED
    BY <1>1, <1>2, <2>1, <2>2, <2>3, Together
<1>11. CASE GiveBack(o)
  <2>1. BuyersOK'
    BY <1>11, BuyerAtTypes DEF GiveBack
  <2>2. SupplierTypeOK'
    BY <1>11, SupplierTypes DEF GiveBack, CancelRefused
  <2>3. RowChange(o)
    BY <1>11, NoRowChange DEF GiveBack
  <2> QED
    BY <1>1, <1>2, <2>1, <2>2, <2>3, Together
<1> QED
  BY <1>3, <1>4, <1>5, <1>6, <1>7, <1>8, <1>9, <1>10, <1>11, <1>12 DEF Purchase

-----------------------------------------------------------------------------
(* Every other handler begins.                                             *)

LEMMA TaskStep ==
    ASSUME NumberOrdersAssumption, TypeInv, NEW o \in Orders, RowChange(o),
           UNCHANGED <<supplierVars, buyer, now, crashes>>, TasksOK'
    PROVE  TypeInv'
<1>1. BuyersOK' /\ CountersOK'
  BY Parts DEF BuyersOK, CountersOK
<1>2. SupplierTypeOK'
  BY Parts DEF SupplierTypeOK, supplierVars
<1> QED
  BY <1>1, <1>2, Together

LEMMA RowKnown ==
    ASSUME NumberOrdersAssumption, TypeInv, NEW o \in Orders
    PROVE  /\ order[o] \in RowType
           /\ order[o].pid \in Activations \/ order[o].pid = NoActivation
           /\ order[o].expiry \in Nat
           /\ Needs(order[o]) \in {"refund", "mark", "check"}
           /\ Needs(order[o]) = "check" /\ order[o].status \in {"reserved", "awaiting_code", "delivered"}
                => order[o].pid \in Activations
BY Parts DEF OrderTypeOK, RowType, Needs

LEMMA SweepStep ==
    ASSUME NumberOrdersAssumption, TypeInv, NEW t \in Tasks, NEW o \in Orders, Sweep(t, o)
    PROVE  RowChange(o) /\ TypeInv'
<1>1. RowChange(o)
  BY ClaimChange DEF Sweep
<1> DEFINE next == IF order[o].status = "review_required" THEN "recover" ELSE Needs(order[o])
<1> DEFINE late == Past(order[o].expiry)
<1> DEFINE sent == order[o].status = "delivered"
<1> DEFINE v == [Idle EXCEPT !.pc = next, !.job = "reconcile", !.order = o, !.pid = order[o].pid,
                   !.claimed = TRUE, !.delivered = sent, !.lapsed = late]
<1>2. late \in BOOLEAN /\ sent \in BOOLEAN
  BY DEF Past
<1>8. Needs(order[o]) \in {"refund", "mark", "check"}
  BY RowKnown
<1>9. /\ next \in {"recover", Needs(order[o])}
      /\ order[o].status = "review_required" <=> next = "recover"
      /\ next \in {"refund", "mark", "check", "recover"}
  BY <1>8
<1>10. order[o].pid \in Activations \cup {NoActivation}
  BY RowKnown
<1>11. task' = [task EXCEPT ![t] = v]
  BY DEF Sweep, Begin
<1> HIDE DEF next, late, sent
<1>12. v \in TaskType
  BY ZenonT(60), <1>2, <1>9, <1>10, IdleType DEF TaskType, JobKinds
<1>13. v.pc = next /\ v.order = o /\ v.pid = order[o].pid
  BY IdleType DEF TaskType
<1>3. /\ v \in TaskType /\ v.order = o /\ v.pid = order[o].pid
      /\ v.pc \in {"recover", Needs(order[o])}
      /\ order[o].status = "review_required" <=> v.pc = "recover"
  BY <1>9, <1>12, <1>13
<1>4. order[o].status \in {"reserved", "awaiting_code", "delivered", "review_required"}
  BY DEF Sweep, Due
<1> HIDE DEF v
<1>6. v.pc = "check" => order[o].pid \in Activations
  BY <1>3, <1>4, RowKnown
<1>7. TasksOK'
  BY ZenonT(60), <1>1, <1>3, <1>4, <1>6, <1>11, RowKnown, Gains, TaskWrite
<1> QED
  BY <1>1, <1>7, TaskStep DEF Sweep

LEMMA RequestStep ==
    ASSUME NumberOrdersAssumption, TypeInv, NEW t \in Tasks, NEW o \in Orders, Request(t, o)
    PROVE  RowChange(o) /\ TypeInv'
<1>1. CASE Sweep(t, o)
  BY <1>1, SweepStep
<1>2. CASE Poll(t, o)
  <2> DEFINE v == [Idle EXCEPT !.pc = "check", !.order = o, !.pid = order[o].pid]
  <2>1. RowChange(o)
    BY <1>2, NoRowChange DEF Poll
  <2>2. order[o].pid \in Activations /\ order[o].status # "none"
    BY <1>2, RowKnown DEF Poll
  <2>3. v \in TaskType /\ v.pc = "check" /\ v.order = o /\ v.pid = order[o].pid
    BY ZenonT(60), <2>2, IdleType DEF Idle, TaskType
  <2>4. task' = [task EXCEPT ![t] = v]
    BY <1>2 DEF Poll, Begin
  <2> HIDE DEF v
  <2>5. TasksOK'
    BY <2>1, <2>2, <2>3, <2>4, Gains, TaskWrite
  <2> QED
    BY <1>2, <2>1, <2>5, TaskStep DEF Poll
<1>3. CASE Cancel(t, o)
  <2> DEFINE v == [Idle EXCEPT !.pc = "claim", !.job = "cancel", !.order = o,
                     !.pid = order[o].pid,
                     !.then = IF order[o].pid = NoActivation THEN "refund" ELSE "check"]
  <2>1. RowChange(o)
    BY <1>3, NoRowChange DEF Cancel
  <2>2. order[o].status # "none"
    BY <1>3 DEF Cancel
  <2>3. /\ v \in TaskType /\ v.pc = "claim" /\ v.order = o /\ v.pid = order[o].pid
        /\ v.then = "check" => order[o].pid # NoActivation
    BY ZenonT(60), RowKnown, IdleType DEF Idle, TaskType, JobKinds
  <2>4. task' = [task EXCEPT ![t] = v]
    BY <1>3 DEF Cancel, Begin
  <2> HIDE DEF v
  <2>5. TasksOK'
    BY <2>1, <2>2, <2>3, <2>4, RowKnown, Gains, TaskWrite
  <2> QED
    BY <1>3, <2>1, <2>5, TaskStep DEF Cancel
<1>4. CASE Recheck(t, o)
  <2> DEFINE v == [Idle EXCEPT !.pc = "claim", !.job = "recheck", !.order = o,
                     !.pid = order[o].pid, !.expiry = order[o].expiry, !.then = Needs(order[o])]
  <2>1. RowChange(o)
    BY <1>4, NoRowChange DEF Recheck
  <2>2. /\ order[o].status \in {"reserved", "awaiting_code", "review_required"}
        /\ order[o].status = "review_required" => order[o].pid # NoActivation
    BY <1>4 DEF Recheck, MoneyOpen
  <2>3. /\ v \in TaskType /\ v.pc = "claim" /\ v.order = o /\ v.pid = order[o].pid
        /\ v.then = Needs(order[o])
    BY ZenonT(60), RowKnown, IdleType DEF Idle, TaskType, JobKinds
  <2>4. task' = [task EXCEPT ![t] = v]
    BY <1>4 DEF Recheck, Begin
  <2> HIDE DEF v
  <2>5. TasksOK'
    BY ZenonT(60), <2>1, <2>2, <2>3, <2>4, RowKnown, Gains, TaskWrite
  <2> QED
    BY <1>4, <2>1, <2>5, TaskStep DEF Recheck
<1>5. CASE OperatorRefund(t, o)
  <2> DEFINE v == [Idle EXCEPT !.pc = "claim", !.job = "refund", !.order = o, !.then = "refund"]
  <2>1. RowChange(o)
    BY <1>5, NoRowChange DEF OperatorRefund
  <2>2. order[o].status # "none"
    BY <1>5 DEF OperatorRefund, MoneyOpen
  <2>3. v \in TaskType /\ v.pc = "claim" /\ v.order = o /\ v.then = "refund"
    BY ZenonT(60), IdleType DEF Idle, TaskType, JobKinds
  <2>4. task' = [task EXCEPT ![t] = v]
    BY <1>5 DEF OperatorRefund, Begin
  <2> HIDE DEF v
  <2>5. TasksOK'
    BY <2>1, <2>2, <2>3, <2>4, Gains, TaskWrite
  <2> QED
    BY <1>5, <2>1, <2>5, TaskStep DEF OperatorRefund
<1> QED
  BY <1>1, <1>2, <1>3, <1>4, <1>5 DEF Request

-----------------------------------------------------------------------------
(* Their later steps.                                                      *)

LEMMA TaskKnown ==
    ASSUME NumberOrdersAssumption, TypeInv, NEW t \in Tasks, task[t].pc # "idle"
    PROVE  /\ task[t] \in TaskType /\ task[t].order \in Orders
           /\ order[task[t].order].status # "none"
           /\ task[t].pc \in {"check", "handback", "apply"}
                \/ (task[t].pc = "claim" /\ task[t].then = "check") =>
              task[t].pid \in Activations /\ order[task[t].order].pid \in Activations
           /\ task[t].pc \in {"taken", "adopt"} => task[t].pid \in Activations
BY Parts DEF TasksOK, TaskKnows

\* Replacing the pc of a task by one that needs no more than it knows.
LEMMA PcMoves ==
    ASSUME NumberOrdersAssumption, TypeInv, NEW t \in Tasks, task[t].pc # "idle",
           RowChange(task[t].order),
           NEW v \in TaskType, v.order = task[t].order, v.pid = task[t].pid,
           v.pc \in {"check", "handback", "apply"} =>
               \/ task[t].pc \in {"check", "handback", "apply"}
               \/ task[t].pc = "claim" /\ task[t].then = "check"
               \/ v.pid \in Activations /\ order'[v.order].pid \in Activations,
           v.pc \in {"taken", "adopt"} => v.pid \in Activations,
           v.pc # "claim",
           task' = [task EXCEPT ![t] = v]
    PROVE  TasksOK'
BY TaskKnown, Gains, TaskWrite

LEMMA ContinueStep ==
    ASSUME NumberOrdersAssumption, TypeInv, NEW t \in Tasks, Continue(t)
    PROVE  task[t].order \in Orders /\ RowChange(task[t].order) /\ TypeInv'
<1> DEFINE o == task[t].order
<1>0. task[t].pc # "idle"
  BY DEF Continue, TryClaim, RefundClaimed, MarkUnknown, CheckBusy, CheckAnswers, CheckFails,
     HandBack, Apply, Recover, Taken, Adopt, Unconfirmed
<1>1. o \in Orders /\ task[t] \in TaskType
  BY <1>0, TaskKnown
<1>2. CASE TryClaim(t)
  <2>1. RowChange(o)
    BY <1>1, <1>2, ClaimChange, NoRowChange DEF TryClaim
  <2>2. CASE Finish(t)
    BY <1>1, <1>2, <2>1, <2>2, TaskFinishes, TaskStep DEF TryClaim
  <2>3. CASE task' = [task EXCEPT ![t].pc = task[t].then, ![t].claimed = TRUE]
    <3> DEFINE v == [task[t] EXCEPT !.pc = task[t].then, !.claimed = TRUE]
    <3>1. /\ v \in TaskType /\ v.order = task[t].order /\ v.pid = task[t].pid
          /\ v.pc = task[t].then /\ v.pc \in {"refund", "mark", "check"}
      BY <1>1 DEF TaskType
    <3>2. task' = [task EXCEPT ![t] = v] /\ task[t].pc = "claim"
      BY <1>2, <2>3 DEF TryClaim
    <3> HIDE DEF v
    <3>3. TasksOK'
      BY <1>0, <2>1, <3>1, <3>2, PcMoves
    <3> QED
      BY <1>1, <1>2, <2>1, <3>3, TaskStep DEF TryClaim
  <2> QED
    BY <1>2, <2>2, <2>3 DEF TryClaim
<1>3. CASE RefundClaimed(t)
  <2>1. RowChange(o)
    BY <1>1, <1>3, RefundChange DEF RefundClaimed, Failures
  <2> QED
    BY <1>1, <1>3, <2>1, TaskFinishes, TaskStep DEF RefundClaimed
<1>4. CASE MarkUnknown(t)
  <2>1. RowChange(o)
    BY <1>1, <1>4, ReviewChange DEF MarkUnknown
  <2> QED
    BY <1>1, <1>4, <2>1, TaskFinishes, TaskStep DEF MarkUnknown
<1>5. CASE CheckBusy(t)
  <2>1. RowChange(o)
    BY <1>1, <1>5, ClaimChange DEF CheckBusy
  <2> QED
    BY <1>1, <1>5, <2>1, TaskFinishes, TaskStep DEF CheckBusy
<1>6. CASE CheckAnswers(t)
  <2> DEFINE ans == Answer(task[t].pid)
  <2>1. RowChange(o)
    BY <1>1, <1>6, NoRowChange DEF CheckAnswers
  <2>2. PICK pc \in {"handback", "apply"} :
           task' = [task EXCEPT ![t].ans = ans, ![t].pc = pc]
    BY <1>6 DEF CheckAnswers
  <2>3. ans \in Answers
    <3>1. task[t].pid \in Activations
      BY <1>0, <1>6, TaskKnown DEF CheckAnswers
    <3> QED
      BY <3>1, Parts DEF SupplierTypeOK, Answer, Answers
  <2> HIDE DEF ans
  <2> DEFINE v == [task[t] EXCEPT !.ans = ans, !.pc = pc]
  <2>4. /\ v \in TaskType /\ v.order = task[t].order /\ v.pid = task[t].pid
        /\ v.pc = pc
    BY <1>1, <2>3 DEF TaskType
  <2>5. task' = [task EXCEPT ![t] = v] /\ task[t].pc = "check"
    BY ZenonT(60), <1>6, <2>2 DEF CheckAnswers
  <2> HIDE DEF v
  <2>6. TasksOK'
    BY <1>0, <2>1, <2>4, <2>5, PcMoves
  <2> QED
    BY <1>1, <1>6, <2>1, <2>6, TaskStep DEF CheckAnswers
<1>7. CASE CheckFails(t)
  <2>1. RowChange(o)
    BY <1>1, <1>7, ClaimChange, NoRowChange DEF CheckFails
  <2>2. CASE Finish(t)
    BY <1>1, <1>7, <2>1, <2>2, TaskFinishes, TaskStep DEF CheckFails
  <2>3. CASE task' = [task EXCEPT ![t].ans = ClosedAnswer, ![t].pc = "apply"]
    <3> DEFINE v == [task[t] EXCEPT !.ans = ClosedAnswer, !.pc = "apply"]
    <3>1. /\ v \in TaskType /\ v.order = task[t].order /\ v.pid = task[t].pid
          /\ v.pc = "apply"
      BY <1>1 DEF TaskType, ClosedAnswer, Answers
    <3>2. task' = [task EXCEPT ![t] = v] /\ task[t].pc = "check"
      BY <1>7, <2>3 DEF CheckFails
    <3> HIDE DEF v
    <3>3. TasksOK'
      BY <1>0, <2>1, <3>1, <3>2, PcMoves
    <3> QED
      BY <1>1, <1>7, <2>1, <3>3, TaskStep DEF CheckFails
  <2> QED
    BY <1>7, <2>2, <2>3 DEF CheckFails
<1>8. CASE HandBack(t)
  <2>1. RowChange(o)
    BY <1>1, <1>8, ClaimChange, NoRowChange DEF HandBack
  <2>2. SupplierTypeOK'
    BY <1>8, SupplierTypes DEF HandBack, CancelRefused
  <2>3. BuyersOK' /\ CountersOK'
    BY <1>8, Parts DEF HandBack, BuyersOK, CountersOK
  <2>4. CASE Finish(t)
    BY <1>1, <2>1, <2>2, <2>3, <2>4, TaskFinishes, Together
  <2>5. CASE Step(t, "apply") \/ Step(t, "refund")
    <3>1. PICK pc \in {"apply", "refund"} : Step(t, pc)
      BY <2>5
    <3> DEFINE v == [task[t] EXCEPT !.pc = pc]
    <3>2. /\ v \in TaskType /\ v.order = task[t].order /\ v.pid = task[t].pid
          /\ v.pc = pc
      BY <1>1 DEF TaskType
    <3>3. task' = [task EXCEPT ![t] = v] /\ task[t].pc = "handback"
      BY <1>8, <3>1 DEF HandBack, Step
    <3> HIDE DEF v
    <3>4. TasksOK'
      BY <1>0, <2>1, <3>2, <3>3, PcMoves
    <3> QED
      BY <1>1, <2>1, <2>2, <2>3, <3>4, Together
  <2> QED
    BY <1>8, <2>4, <2>5, <2>1, <1>1 DEF HandBack
<1>9. CASE Apply(t)
  <2>1. RowChange(o)
    BY <1>0, <1>1, <1>9, TaskKnown, CheckChange DEF Apply, TaskType
  <2> QED
    BY <1>1, <1>9, <2>1, TaskFinishes, TaskStep DEF Apply
<1>10. CASE Recover(t)
  <2>1. RowChange(o)
    BY <1>1, <1>10, NoRowChange DEF Recover
  <2>2. PICK a \in Recoverable :
           task' = [task EXCEPT ![t].pid = a,
                      ![t].pc = IF a = NoActivation THEN "unconfirmed" ELSE "taken"]
    BY <1>10 DEF Recover
  <2>3. a \in Activations \cup {NoActivation}
    BY Parts DEF SupplierTypeOK, Recoverable
  <2> DEFINE v == [task[t] EXCEPT !.pid = a,
                     !.pc = IF a = NoActivation THEN "unconfirmed" ELSE "taken"]
  <2>4. /\ v \in TaskType /\ v.order = task[t].order /\ v.pid = a
        /\ v.pc = IF a = NoActivation THEN "unconfirmed" ELSE "taken"
    BY ZenonT(60), <1>1, <2>3 DEF TaskType
  <2>5. task' = [task EXCEPT ![t] = v]
    BY <2>2
  <2> HIDE DEF v
  <2>6. TasksOK'
    BY <1>0, <1>1, <2>1, <2>3, <2>4, <2>5, TaskKnown, Gains, TaskWrite
  <2> QED
    BY <1>1, <1>10, <2>1, <2>6, TaskStep DEF Recover
<1>11. CASE Taken(t)
  <2>1. RowChange(o)
    BY <1>1, <1>11, NoRowChange DEF Taken
  <2>2. PICK pc \in {"unconfirmed", "adopt"} : Step(t, pc)
    BY <1>11 DEF Taken
  <2> DEFINE v == [task[t] EXCEPT !.pc = pc]
  <2>3. /\ v \in TaskType /\ v.order = task[t].order /\ v.pid = task[t].pid
        /\ v.pc = pc
    BY <1>1 DEF TaskType
  <2>4. task' = [task EXCEPT ![t] = v] /\ task[t].pid \in Activations
    BY <1>0, <1>11, <2>2, TaskKnown DEF Taken, Step
  <2> HIDE DEF v
  <2>5. TasksOK'
    BY <1>0, <2>1, <2>3, <2>4, PcMoves
  <2> QED
    BY <1>1, <1>11, <2>1, <2>5, TaskStep DEF Taken
<1>12. CASE Adopt(t)
  <2>1. task[t].pid \in Activations
    BY <1>0, <1>12, TaskKnown DEF Adopt
  <2>2. RowChange(o)
    BY <1>1, <1>12, <2>1, AssignChange, NoRowChange DEF Adopt
  <2>3. CASE /\ Write(o, Assigned(order[o], task[t].pid))
             /\ task' = [task EXCEPT ![t].pc = "check", ![t].claimed = FALSE]
    <3> DEFINE v == [task[t] EXCEPT !.pc = "check", !.claimed = FALSE]
    <3>1. /\ v \in TaskType /\ v.order = task[t].order /\ v.pid = task[t].pid
          /\ v.pc = "check"
      BY <1>1 DEF TaskType
    <3>2. task' = [task EXCEPT ![t] = v]
      BY <2>3
    <3> HIDE DEF v
    <3>3. order'[o].pid = task[t].pid
      <4> DEFINE row == Unclaimed(order[o])
                 new == Assigned(order[o], task[t].pid)
      <4>1. row \in RowType
        BY <1>1, ClaimTypes, RowKnown
      <4>2. new.pid = task[t].pid
        BY <4>1 DEF Assigned, RowType
      <4> HIDE DEF new
      <4>3. order' = [order EXCEPT ![o] = new]
        BY <2>3 DEF Write, new
      <4> QED
        BY <1>1, <4>2, <4>3, Parts DEF OrderTypeOK
    <3>4. TasksOK'
      BY <1>0, <2>1, <2>2, <3>1, <3>2, <3>3, PcMoves
    <3> QED
      BY <1>1, <1>12, <2>2, <3>4, TaskStep DEF Adopt
  <2>4. CASE Step(t, "unconfirmed")
    <3> DEFINE v == [task[t] EXCEPT !.pc = "unconfirmed"]
    <3>1. /\ v \in TaskType /\ v.order = task[t].order /\ v.pid = task[t].pid
          /\ v.pc = "unconfirmed"
      BY <1>1 DEF TaskType
    <3>2. task' = [task EXCEPT ![t] = v]
      BY <2>4 DEF Step
    <3> HIDE DEF v
    <3>3. TasksOK'
      BY <1>0, <2>2, <3>1, <3>2, PcMoves
    <3> QED
      BY <1>1, <1>12, <2>2, <3>3, TaskStep DEF Adopt
  <2> QED
    BY <1>12, <2>3, <2>4 DEF Adopt
<1>13. CASE Unconfirmed(t)
  <2>1. RowChange(o)
    BY <1>1, <1>13, RefundChange, ClaimChange DEF Unconfirmed, Failures
  <2> QED
    BY <1>1, <1>13, <2>1, TaskFinishes, TaskStep DEF Unconfirmed
<1> QED
  BY <1>1, <1>2, <1>3, <1>4, <1>5, <1>6, <1>7, <1>8, <1>9, <1>10, <1>11, <1>12, <1>13
     DEF Continue

-----------------------------------------------------------------------------
(* Every step.                                                             *)

LEMMA OutsideStep ==
    ASSUME NumberOrdersAssumption, TypeInv, NEW o \in Orders,
           \/ Lapse(o) \/ LoseBuyer(o) \/ Tick
           \/ \E a \in Activations : SupplierActs(a)
           \/ \E t \in Tasks : LoseTask(t)
           \/ UNCHANGED vars
    PROVE  RowChange(o) /\ TypeInv'
<1>1. CASE Lapse(o)
  <2>1. RowChange(o)
    BY <1>1, ClaimChange DEF Lapse
  <2>2. TasksOK'
    BY <1>1, <2>1, TasksKept DEF Lapse
  <2> QED
    BY <1>1, <2>1, <2>2, TaskStep DEF Lapse
<1>2. CASE LoseBuyer(o)
  <2>1. RowChange(o)
    BY <1>2, NoRowChange DEF LoseBuyer
  <2>2. TasksOK' /\ CountersOK' /\ SupplierTypeOK'
    BY <1>2, <2>1, TasksKept, Parts, SupplierTypes DEF LoseBuyer, CountersOK
  <2>3. BuyersOK'
    BY <1>2, BuyerAtTypes DEF LoseBuyer, BuyerAt
  <2> QED
    BY <2>1, <2>2, <2>3, Together
<1>3. CASE Tick
  <2>1. RowChange(o)
    BY <1>3, NoRowChange DEF Tick
  <2>2. TasksOK'
    BY <1>3, <2>1, TasksKept DEF Tick
  <2>3. CountersOK' /\ BuyersOK'
    BY <1>3, Parts DEF Tick, CountersOK, BuyersOK
  <2>4. SupplierTypeOK'
    BY <1>3, Parts DEF Tick, SupplierTypeOK, supplierVars
  <2> QED
    BY <2>1, <2>2, <2>3, <2>4, Together
<1>4. CASE \E a \in Activations : SupplierActs(a)
  <2>1. RowChange(o)
    BY <1>4, NoRowChange DEF SupplierActs
  <2>2. TasksOK' /\ CountersOK' /\ BuyersOK'
    BY <1>4, <2>1, TasksKept, Parts DEF SupplierActs, CountersOK, BuyersOK
  <2>3. MaxTime \in Nat
    BY DEF NumberOrdersAssumption
  <2>4. SupplierTypeOK'
    BY <1>4, <2>3, SupplierTypes DEF SupplierActs
  <2> QED
    BY <2>1, <2>2, <2>4, Together
<1>5. CASE \E t \in Tasks : LoseTask(t)
  <2>1. RowChange(o)
    BY <1>5, NoRowChange DEF LoseTask
  <2>2. TasksOK'
    BY <1>5, <2>1, TaskFinishes DEF LoseTask
  <2>3. CountersOK' /\ BuyersOK'
    BY <1>5, Parts DEF LoseTask, CountersOK, BuyersOK
  <2>4. SupplierTypeOK'
    BY <1>5, Parts DEF LoseTask, SupplierTypeOK, supplierVars
  <2> QED
    BY <2>1, <2>2, <2>3, <2>4, Together
<1>6. CASE UNCHANGED vars
  <2>1. RowChange(o)
    BY <1>6, NoRowChange DEF vars
  <2>2. TasksOK'
    BY <1>6, <2>1, TasksKept DEF vars
  <2> QED
    BY <1>6, <2>1, <2>2, TaskStep DEF vars
<1> QED
  BY <1>1, <1>2, <1>3, <1>4, <1>5, <1>6

\* With no order at all nothing moves but the clock, the supplier and the
\* crash counter.
LEMMA EmptyStep ==
    ASSUME NumberOrdersAssumption, TypeInv, Orders = {}, [Next]_vars
    PROVE  TypeInv' /\ UNCHANGED <<order, ledger>>
<1>1. ASSUME NEW t \in Tasks PROVE task[t].pc = "idle"
  BY TaskKnown
<1>2. ~ \E t \in Tasks : Continue(t) \/ LoseTask(t)
  BY ZenonT(60), <1>1 DEF Continue, TryClaim, RefundClaimed, MarkUnknown, CheckBusy, CheckAnswers,
     CheckFails, HandBack, Apply, Recover, Taken, Adopt, Unconfirmed, LoseTask
<1>3. \/ \E a \in Activations : SupplierActs(a)
      \/ Tick
      \/ UNCHANGED vars
  BY <1>2 DEF Next
<1>4. UNCHANGED <<order, buyer, task, ledger>> /\ CountersOK'
  BY <1>3, Parts DEF SupplierActs, Tick, vars, CountersOK
<1>5. MaxTime \in Nat
  BY DEF NumberOrdersAssumption
<1>6. SupplierTypeOK'
  BY <1>3, <1>5, SupplierTypes DEF SupplierActs, Tick, vars
<1> QED
  BY <1>4, <1>6 DEF TypeInv, TypeOK, IdentifiersKnown, TaskKnows, OrderKnows, CountersOK, ledger

LEMMA EveryStep ==
    ASSUME NumberOrdersAssumption, TypeInv, [Next]_vars
    PROVE  /\ TypeInv'
           /\ (\E o \in Orders : RowChange(o)) \/ UNCHANGED <<order, ledger>>
<1>1. CASE Orders = {}
  BY <1>1, EmptyStep
<1>2. CASE \E o \in Orders : Purchase(o)
  BY <1>2, PurchaseStep
<1>3. CASE \E t \in Tasks, o \in Orders : Request(t, o)
  BY <1>3, RequestStep
<1>4. CASE \E t \in Tasks : Continue(t)
  BY <1>4, ContinueStep
<1>5. CASE /\ Orders # {}
           /\ \/ \E o \in Orders : Lapse(o) \/ LoseBuyer(o)
              \/ Tick
              \/ \E a \in Activations : SupplierActs(a)
              \/ \E t \in Tasks : LoseTask(t)
              \/ UNCHANGED vars
  <2>1. PICK o \in Orders :
           \/ Lapse(o) \/ LoseBuyer(o) \/ Tick
           \/ \E a \in Activations : SupplierActs(a)
           \/ \E t \in Tasks : LoseTask(t)
           \/ UNCHANGED vars
    BY <1>5
  <2> QED
    BY <2>1, OutsideStep
<1> QED
  BY <1>1, <1>2, <1>3, <1>4, <1>5 DEF Next

LEMMA InitTypes == ASSUME NumberOrdersAssumption, Init PROVE TypeInv
<1>1. SupplierTypeOK
  BY DEF Init, SupplierInit, SupplierTypeOK, Lifecycles
<1>2. OrderTypeOK /\ \A o \in Orders : order[o].status = "none"
  BY DEF Init, NoRow, OrderTypeOK, RowType, Statuses, Reviews, Failures
<1>3. LedgerTypeOK /\ CountersOK
  BY DEF Init, LedgerTypeOK, CountersOK, NumberOrdersAssumption
<1>4. BuyersOK
  BY DEF Init, BuyersOK, BuyerType
<1>5. TasksOK
  BY IdleType DEF Init, TasksOK, TaskKnows
<1> QED
  BY <1>1, <1>2, <1>3, <1>4, <1>5, Parts

-----------------------------------------------------------------------------
(* Theorems.                                                               *)

\* The state is always of its type, and identifiers are there when a handler
\* needs them: the inductive invariant of every handler of number_orders.
THEOREM TypeCorrect == Spec => [](TypeOK /\ IdentifiersKnown)
<1> USE NumberOrdersAssumption
<1>1. Init => TypeInv
  BY InitTypes
<1>2. TypeInv /\ [Next]_vars => TypeInv'
  BY EveryStep
<1>3. Spec => []TypeInv
  BY <1>1, <1>2, PTL DEF Spec
<1> QED
  BY <1>3, PTL DEF TypeInv

LEMMA JournalsStep ==
    ASSUME NumberOrdersAssumption, TypeInv, [Next]_vars, JournalsMatchStatus
    PROVE  JournalsMatchStatus'
<1>1. CASE UNCHANGED <<order, ledger>>
  BY <1>1 DEF JournalsMatchStatus, ledger
<1>2. CASE \E o \in Orders : RowChange(o)
  <2>1. PICK o \in Orders : RowChange(o)
    BY <1>2
  <2>2. posted' \ posted \subseteq {<<o, "reserve">>, <<o, "settle">>, <<o, "refund">>}
    BY <2>1 DEF RowChange, MoneyChange, PostReserve, PostSettle, PostRefund, Post, ledger
  <2>3. posted \subseteq posted'
    BY <2>1 DEF RowChange, MoneyChange, PostReserve, PostSettle, PostRefund, Post, ledger
  <2>4. ASSUME NEW p \in Orders, p # o
        PROVE  /\ order'[p] = order[p]
               /\ \A k \in {"reserve", "settle", "refund"} : <<p, k>> \in posted' <=> <<p, k>> \in posted
    BY <2>1, <2>2, <2>3, <2>4 DEF RowChange
  <2>5. /\ <<o, "reserve">> \in posted' <=> order'[o].status # "none"
        /\ <<o, "settle">> \in posted' <=> order'[o].status = "delivered"
        /\ <<o, "refund">> \in posted' <=> order'[o].status \in Refunded
    <3>1. /\ <<o, "reserve">> \in posted <=> order[o].status # "none"
          /\ <<o, "settle">> \in posted <=> order[o].status = "delivered"
          /\ <<o, "refund">> \in posted <=> order[o].status \in Refunded
      BY DEF JournalsMatchStatus
    <3> QED
      BY <2>1, <3>1 DEF RowChange, MoneyChange, PostReserve, PostSettle, PostRefund, Post,
         ledger, MoneyOpen, Refunded
  <2> QED
    BY <2>4, <2>5 DEF JournalsMatchStatus
<1> QED
  BY <1>1, <1>2, EveryStep

\* Every order is reserved once, and settled or refunded exactly as its status
\* says, in every interleaving of any number of handlers (apply_check, apply_inner).
THEOREM JournalsCorrect == Spec => []JournalsMatchStatus
<1> USE NumberOrdersAssumption
<1>1. Init => JournalsMatchStatus
  BY DEF Init, NoRow, JournalsMatchStatus, Refunded
<1>2. TypeInv /\ JournalsMatchStatus /\ [Next]_vars => JournalsMatchStatus'
  BY JournalsStep
<1>3. Spec => []TypeInv
  BY TypeCorrect, PTL DEF TypeInv
<1> QED
  BY <1>1, <1>2, <1>3, PTL DEF Spec

\* No customer's naira balance ever goes below zero: create_order checks it in the
\* transaction that takes the price.
THEOREM NeverOverdrawn == Spec => []NoOverdraft
<1> USE NumberOrdersAssumption
<1>1. Init => NoOverdraft
  BY DEF Init, NoOverdraft, NumberOrdersAssumption
<1>2. TypeInv /\ NoOverdraft /\ [Next]_vars => NoOverdraft'
  <2> SUFFICES ASSUME TypeInv, NoOverdraft, [Next]_vars PROVE NoOverdraft'
    OBVIOUS
  <2>1. CASE UNCHANGED <<order, ledger>>
    BY <2>1 DEF NoOverdraft, ledger
  <2>2. ASSUME NEW o \in Orders, RowChange(o) PROVE NoOverdraft'
    <3>1. balance \in [Users -> Int] /\ Price[o] \in Nat /\ Owner[o] \in Users
      BY Parts DEF LedgerTypeOK, NumberOrdersAssumption
    <3>2. \/ balance' = balance
          \/ balance' = [balance EXCEPT ![Owner[o]] = @ + Price[o]]
          \/ /\ balance' = [balance EXCEPT ![Owner[o]] = @ - Price[o]]
             /\ Price[o] <= balance[Owner[o]]
      BY <2>2 DEF RowChange, MoneyChange, PostReserve, PostSettle, PostRefund, Post, ledger
    <3> QED
      BY <3>1, <3>2 DEF NoOverdraft
  <2> QED
    BY <2>1, <2>2, EveryStep
<1>3. Spec => []TypeInv
  BY TypeCorrect, PTL DEF TypeInv
<1> QED
  BY <1>1, <1>2, <1>3, PTL DEF Spec

\* An order is refunded as expired only with an empty inbox, for any number of
\* polls, sweeps and late answers (apply_check decides under the row lock).
THEOREM ExpiredEmpty == Spec => []ExpiredInboxEmpty
<1> USE NumberOrdersAssumption
<1>1. Init => ExpiredInboxEmpty
  BY DEF Init, NoRow, ExpiredInboxEmpty
<1>2. TypeInv /\ ExpiredInboxEmpty /\ [Next]_vars => ExpiredInboxEmpty'
  <2> SUFFICES ASSUME TypeInv, ExpiredInboxEmpty, [Next]_vars PROVE ExpiredInboxEmpty'
    OBVIOUS
  <2>1. CASE UNCHANGED <<order, ledger>>
    BY <2>1 DEF ExpiredInboxEmpty
  <2>2. ASSUME NEW o \in Orders, RowChange(o) PROVE ExpiredInboxEmpty'
    BY <2>2 DEF ExpiredInboxEmpty, RowChange, MoneyChange, MoneyOpen, Refunded
  <2> QED
    BY <2>1, <2>2, EveryStep
<1>3. Spec => []TypeInv
  BY TypeCorrect, PTL DEF TypeInv
<1> QED
  BY <1>1, <1>2, <1>3, PTL DEF Spec

\* A delivered or refunded order stays what it is and a refunded inbox is frozen,
\* whatever late handlers still hold.
THEOREM TerminalFinal == Spec => TerminalIsFinal
<1> USE NumberOrdersAssumption
<1>1. TypeInv /\ [Next]_vars =>
        [\A o \in Orders :
          /\ order[o].status \in Refunded \cup {"delivered"}
                => order'[o].status = order[o].status /\ order'[o].why = order[o].why
          /\ order[o].status \in Refunded => order'[o].inbox = order[o].inbox]_vars
  <2> SUFFICES ASSUME TypeInv, [Next]_vars, NEW p \in Orders
               PROVE  /\ order[p].status \in Refunded \cup {"delivered"}
                            => order'[p].status = order[p].status /\ order'[p].why = order[p].why
                      /\ order[p].status \in Refunded => order'[p].inbox = order[p].inbox
    OBVIOUS
  <2>1. CASE UNCHANGED <<order, ledger>>
    BY <2>1
  <2>2. ASSUME NEW o \in Orders, RowChange(o)
        PROVE  /\ order[p].status \in Refunded \cup {"delivered"}
                     => order'[p].status = order[p].status /\ order'[p].why = order[p].why
               /\ order[p].status \in Refunded => order'[p].inbox = order[p].inbox
    BY <2>2 DEF RowChange, MoneyChange, MoneyOpen, Refunded
  <2> QED
    BY <2>1, <2>2, EveryStep
<1>2. Spec => []TypeInv
  BY TypeCorrect, PTL DEF TypeInv
<1> QED
  BY <1>1, <1>2, PTL DEF Spec, TerminalIsFinal

-----------------------------------------------------------------------------
(* The escrow.                                                             *)

PlaceOf(status) ==
    IF status = "delivered" THEN "earned"
    ELSE IF status \in Refunded THEN "returned"
    ELSE IF status \in MoneyOpen THEN "held"
    ELSE "customer"

LEMMA MoneyByStatus ==
    ASSUME NumberOrdersAssumption, TypeInv, JournalsMatchStatus
    PROVE  \A o \in Orders : MoneyOf(o) = PlaceOf(order[o].status)
<1> SUFFICES ASSUME NEW o \in Orders PROVE MoneyOf(o) = PlaceOf(order[o].status)
  OBVIOUS
<1>1. order[o].status \in Statuses
  BY Parts DEF OrderTypeOK, RowType
<1> QED
  BY <1>1 DEF JournalsMatchStatus, MoneyOf, PlaceOf, Statuses, MoneyOpen, Refunded

LEMMA EscrowStep ==
    ASSUME NumberOrdersAssumption, TypeInv, JournalsMatchStatus, [Next]_vars,
           \A o \in Orders : MoneyOf(o) = PlaceOf(order[o].status),
           \A o \in Orders : MoneyOf(o)' = PlaceOf(order'[o].status)
    PROVE  [E!Next]_([o \in Orders |-> MoneyOf(o)])
<1> DEFINE money == [o \in Orders |-> MoneyOf(o)]
<1>1. CASE UNCHANGED <<order, ledger>>
  <2>1. money' = money
    BY <1>1
  <2> QED
    BY <2>1
<1>2. ASSUME NEW o \in Orders, RowChange(o)
      PROVE  [E!Next]_money
  <2>1. \A p \in Orders \ {o} : MoneyOf(p)' = MoneyOf(p)
    BY <1>2 DEF RowChange
  <2>2. \/ MoneyOf(o)' = MoneyOf(o)
        \/ MoneyOf(o) = "customer" /\ MoneyOf(o)' = "held"
        \/ MoneyOf(o) = "held" /\ MoneyOf(o)' = "earned"
        \/ MoneyOf(o) = "held" /\ MoneyOf(o)' = "returned"
    BY <1>2 DEF RowChange, MoneyChange, PlaceOf, MoneyOpen, Refunded
  <2>3. CASE MoneyOf(o)' = MoneyOf(o)
    <3>1. money' = money
      BY <2>1, <2>3
    <3> QED
      BY <3>1
  <2>4. ASSUME NEW from, NEW to, MoneyOf(o) = from, MoneyOf(o)' = to
        PROVE  E!Move(o, from, to)
    <3>1. money[o] = from
      BY <2>4
    <3>2. money' = [money EXCEPT ![o] = to]
      BY <2>1, <2>4
    <3> QED
      BY <3>1, <3>2 DEF E!Move
  <2>5. CASE MoneyOf(o) = "customer" /\ MoneyOf(o)' = "held"
    BY <2>4, <2>5 DEF E!Next, E!Hold
  <2>6. CASE MoneyOf(o) = "held" /\ MoneyOf(o)' = "earned"
    BY <2>4, <2>6 DEF E!Next, E!Earn
  <2>7. CASE MoneyOf(o) = "held" /\ MoneyOf(o)' = "returned"
    BY <2>4, <2>7 DEF E!Next, E!Return
  <2> QED
    BY <2>2, <2>3, <2>5, <2>6, <2>7
<1> QED
  BY <1>1, <1>2, EveryStep

\* The handlers, workers and journals implement the escrow: whatever they do, the
\* price of an order is held once and then earned once or returned once.
THEOREM EscrowImplemented == Spec => ImplementsEscrow
<1> USE NumberOrdersAssumption
<1> DEFINE Good == TypeInv /\ JournalsMatchStatus
           ByStatus == \A o \in Orders : MoneyOf(o) = PlaceOf(order[o].status)
<1>1. Init => E!Init
  BY DEF Init, E!Init, MoneyOf
<1>2. Good => ByStatus
  BY MoneyByStatus
<1>3. Good /\ ByStatus /\ ByStatus' /\ [Next]_vars => [E!Next]_([o \in Orders |-> MoneyOf(o)])
  BY EscrowStep
<1>4. Spec => []Good
  BY TypeCorrect, JournalsCorrect, PTL DEF TypeInv
<1> QED
  BY <1>1, <1>2, <1>3, <1>4, PTL DEF Spec, ImplementsEscrow, E!Spec

-----------------------------------------------------------------------------
(* The money adds up: each sum of MoneyAddsUp is over the orders in some   *)
(* status, and a step moves one order from one of these sets to another.   *)

\* What the sums of the ledger are taken over.
OpenOrders  == {o \in Orders : order[o].status \in MoneyOpen}
Earned      == {o \in Orders : order[o].status = "delivered"}
BoughtBy(u) == {o \in Orders : Owner[o] = u /\ order[o].status \in MoneyOpen \cup {"delivered"}}

\* Only finitely many orders are placed, however many there may be.
FinitelyPlaced == IsFiniteSet({o \in Orders : order[o].status # "none"})

LEMMA PriceIsSum == \A os : PriceOf(os) = SumOf(Price, os)
BY DEF PriceOf, SumOf

\* One more order, or one less, is its price more or less.
LEMMA OneMore ==
    ASSUME NumberOrdersAssumption, NEW os \in SUBSET Orders, IsFiniteSet(os),
           NEW o \in Orders, o \notin os
    PROVE  PriceOf(os) \in Int /\ PriceOf(os \cup {o}) = PriceOf(os) + Price[o]
<1>1. \A x \in os \cup {o} : Price[x] \in Int
  BY DEF NumberOrdersAssumption
<1> QED
  BY <1>1, PriceIsSum, SumAdds, SumIsInt

LEMMA OneLess ==
    ASSUME NumberOrdersAssumption, NEW os \in SUBSET Orders, IsFiniteSet(os), NEW o \in os
    PROVE  PriceOf(os) \in Int /\ PriceOf(os \ {o}) = PriceOf(os) - Price[o]
<1>1. IsFiniteSet(os \ {o}) /\ o \notin os \ {o} /\ (os \ {o}) \cup {o} = os
  BY FS_Subset
<1>2. PriceOf(os \ {o}) \in Int /\ PriceOf(os) = PriceOf(os \ {o}) + Price[o]
  BY <1>1, OneMore
<1>3. Price[o] \in Int
  BY DEF NumberOrdersAssumption
<1> QED
  BY <1>2, <1>3

LEMMA FinitelySummed ==
    ASSUME FinitelyPlaced
    PROVE  IsFiniteSet(OpenOrders) /\ IsFiniteSet(Earned) /\ \A u : IsFiniteSet(BoughtBy(u))
BY FS_Subset DEF FinitelyPlaced, OpenOrders, Earned, BoughtBy, MoneyOpen

LEMMA PlacedStep ==
    ASSUME NumberOrdersAssumption, TypeInv, FinitelyPlaced, [Next]_vars
    PROVE  FinitelyPlaced'
<1> DEFINE placed == {o \in Orders : order[o].status # "none"}
<1>1. CASE UNCHANGED <<order, ledger>>
  BY <1>1 DEF FinitelyPlaced
<1>2. ASSUME NEW o \in Orders, RowChange(o) PROVE FinitelyPlaced'
  <2>1. placed' \subseteq placed \cup {o}
    BY <1>2 DEF RowChange
  <2>2. IsFiniteSet(placed \cup {o})
    BY FS_AddElement DEF FinitelyPlaced
  <2> QED
    BY <2>1, <2>2, FS_Subset DEF FinitelyPlaced
<1> QED
  BY <1>1, <1>2, EveryStep

\* What an order leaves of the sums when its money moves.
LEMMA SumsMove ==
    ASSUME NumberOrdersAssumption, TypeInv, JournalsMatchStatus, FinitelyPlaced, MoneyAddsUp,
           NEW o \in Orders, RowChange(o)
    PROVE  MoneyAddsUp'
<1>1. /\ IsFiniteSet(OpenOrders) /\ OpenOrders \subseteq Orders
      /\ IsFiniteSet(Earned) /\ Earned \subseteq Orders
      /\ \A u \in Users : IsFiniteSet(BoughtBy(u)) /\ BoughtBy(u) \subseteq Orders
  BY FinitelySummed DEF OpenOrders, Earned, BoughtBy
<1>2. /\ payable = PriceOf(OpenOrders) /\ revenue = PriceOf(Earned)
      /\ \A u \in Users : balance[u] + PriceOf(BoughtBy(u)) = Funds[u]
  BY DEF MoneyAddsUp, OpenOrders, Earned, BoughtBy
<1>3. SUFFICES /\ payable' = PriceOf(OpenOrders') /\ revenue' = PriceOf(Earned')
               /\ \A u \in Users : balance'[u] + PriceOf(BoughtBy(u)') = Funds[u]
  BY DEF MoneyAddsUp, OpenOrders, Earned, BoughtBy
<1>4. /\ balance \in [Users -> Int] /\ payable \in Int /\ revenue \in Int
      /\ Owner[o] \in Users /\ Price[o] \in Int
  BY Parts DEF LedgerTypeOK, NumberOrdersAssumption
<1>5. \A p \in Orders \ {o} : order'[p] = order[p]
  BY DEF RowChange
<1>6. CASE UNCHANGED ledger /\ \/ {order[o].status, order'[o].status} \subseteq MoneyOpen
                               \/ order'[o].status = order[o].status
  <2>1. OpenOrders' = OpenOrders /\ Earned' = Earned
    BY <1>5, <1>6 DEF OpenOrders, Earned, MoneyOpen
  <2>2. \A u \in Users : BoughtBy(u)' = BoughtBy(u)
    BY <1>5, <1>6 DEF BoughtBy, MoneyOpen
  <2> QED
    BY <1>2, <1>6, <2>1, <2>2 DEF ledger
<1>7. CASE order[o].status = "none" /\ order'[o].status = "reserved" /\ PostReserve(o)
  <2>1. /\ payable' = payable + Price[o] /\ revenue' = revenue
        /\ balance' = [balance EXCEPT ![Owner[o]] = @ - Price[o]]
    BY <1>7 DEF JournalsMatchStatus, PostReserve, Post
  <2>2. OpenOrders' = OpenOrders \cup {o} /\ o \notin OpenOrders /\ Earned' = Earned
    BY <1>5, <1>7 DEF OpenOrders, Earned, MoneyOpen
  <2>3. ASSUME NEW u \in Users PROVE balance'[u] + PriceOf(BoughtBy(u)') = Funds[u]
    <3>1. CASE u = Owner[o]
      <4>1. BoughtBy(u)' = BoughtBy(u) \cup {o} /\ o \notin BoughtBy(u)
        BY <1>5, <1>7, <3>1 DEF BoughtBy, MoneyOpen
      <4>2. PriceOf(BoughtBy(u)') = PriceOf(BoughtBy(u)) + Price[o] /\ PriceOf(BoughtBy(u)) \in Int
        BY <1>1, <4>1, OneMore
      <4>3. balance[u] + PriceOf(BoughtBy(u)) = Funds[u] /\ balance'[u] = balance[u] - Price[o]
        BY <1>2, <1>4, <2>1, <3>1
      <4>4. balance[u] \in Int
        BY <1>4
      <4> QED
        BY <1>4, <4>2, <4>3, <4>4
    <3>2. CASE u # Owner[o]
      <4>1. BoughtBy(u)' = BoughtBy(u)
        BY <1>5, <3>2 DEF BoughtBy
      <4> QED
        BY <1>2, <1>4, <2>1, <3>2, <4>1
    <3> QED
      BY <3>1, <3>2
  <2>4. PriceOf(OpenOrders') = PriceOf(OpenOrders) + Price[o]
    BY <1>1, <2>2, OneMore
  <2> QED
    BY <1>2, <2>1, <2>2, <2>3, <2>4
<1>8. CASE order[o].status \in MoneyOpen /\ order'[o].status = "delivered" /\ PostSettle(o)
  <2>1. /\ payable' = payable - Price[o] /\ revenue' = revenue + Price[o] /\ balance' = balance
    BY <1>8 DEF JournalsMatchStatus, PostSettle, Post, MoneyOpen
  <2>2. /\ OpenOrders' = OpenOrders \ {o} /\ o \in OpenOrders
        /\ Earned' = Earned \cup {o} /\ o \notin Earned
    BY <1>5, <1>8 DEF OpenOrders, Earned, MoneyOpen
  <2>3. \A u \in Users : BoughtBy(u)' = BoughtBy(u)
    BY <1>5, <1>8 DEF BoughtBy, MoneyOpen
  <2>4. PriceOf(OpenOrders') = PriceOf(OpenOrders) - Price[o]
    BY <1>1, <2>2, OneLess
  <2>5. PriceOf(Earned') = PriceOf(Earned) + Price[o]
    BY <1>1, <2>2, OneMore
  <2> QED
    BY <1>2, <2>1, <2>3, <2>4, <2>5
<1>9. CASE order[o].status \in MoneyOpen /\ order'[o].status \in Refunded /\ PostRefund(o)
  <2>1. /\ payable' = payable - Price[o] /\ revenue' = revenue
        /\ balance' = [balance EXCEPT ![Owner[o]] = @ + Price[o]]
    BY <1>9 DEF JournalsMatchStatus, PostRefund, Post, MoneyOpen, Refunded
  <2>2. OpenOrders' = OpenOrders \ {o} /\ o \in OpenOrders /\ Earned' = Earned
    BY <1>5, <1>9 DEF OpenOrders, Earned, MoneyOpen, Refunded
  <2>3. ASSUME NEW u \in Users PROVE balance'[u] + PriceOf(BoughtBy(u)') = Funds[u]
    <3>1. CASE u = Owner[o]
      <4>1. BoughtBy(u)' = BoughtBy(u) \ {o} /\ o \in BoughtBy(u)
        BY <1>5, <1>9, <3>1 DEF BoughtBy, MoneyOpen, Refunded
      <4>2. PriceOf(BoughtBy(u)') = PriceOf(BoughtBy(u)) - Price[o] /\ PriceOf(BoughtBy(u)) \in Int
        BY <1>1, <4>1, OneLess
      <4>3. balance[u] + PriceOf(BoughtBy(u)) = Funds[u] /\ balance'[u] = balance[u] + Price[o]
        BY <1>2, <1>4, <2>1, <3>1
      <4>4. balance[u] \in Int
        BY <1>4
      <4> QED
        BY <1>4, <4>2, <4>3, <4>4
    <3>2. CASE u # Owner[o]
      <4>1. BoughtBy(u)' = BoughtBy(u)
        BY <1>5, <3>2 DEF BoughtBy
      <4> QED
        BY <1>2, <1>4, <2>1, <3>2, <4>1
    <3> QED
      BY <3>1, <3>2
  <2>4. PriceOf(OpenOrders') = PriceOf(OpenOrders) - Price[o]
    BY <1>1, <2>2, OneLess
  <2> QED
    BY <1>2, <2>1, <2>2, <2>3, <2>4
<1> QED
  BY <1>6, <1>7, <1>8, <1>9 DEF RowChange, MoneyChange

\* Money is neither made nor lost, whoever races for an order: what the open
\* orders hold, what the delivered ones earned and what the customers have left
\* add up to what there was (apply_check, apply_inner and the ledger they post to).
THEOREM MoneyConserved == Spec => []MoneyAddsUp
<1> USE NumberOrdersAssumption
<1> DEFINE Good == TypeInv /\ JournalsMatchStatus
           Sum  == FinitelyPlaced /\ MoneyAddsUp
<1>1. Init => Sum
  <2> SUFFICES ASSUME Init PROVE Sum
    OBVIOUS
  <2>1. \A o \in Orders : order[o].status = "none"
    BY DEF Init, NoRow
  <2>2. /\ {o \in Orders : order[o].status # "none"} = {}
        /\ {o \in Orders : order[o].status \in MoneyOpen} = {}
        /\ {o \in Orders : order[o].status = "delivered"} = {}
        /\ \A u : {o \in Orders : Owner[o] = u /\ order[o].status \in MoneyOpen \cup {"delivered"}} = {}
    BY <2>1 DEF MoneyOpen
  <2>3. PriceOf({}) = 0
    BY PriceIsSum, SumEmpty
  <2>4. payable = 0 /\ revenue = 0 /\ \A u \in Users : balance[u] + 0 = Funds[u]
    BY DEF Init, NumberOrdersAssumption
  <2>5. FinitelyPlaced
    BY <2>2, FS_EmptySet DEF FinitelyPlaced
  <2>6. MoneyAddsUp
    BY <2>2, <2>3, <2>4 DEF MoneyAddsUp
  <2> QED
    BY <2>5, <2>6
<1>2. Good /\ Sum /\ [Next]_vars => Sum'
  <2> SUFFICES ASSUME Good, Sum, [Next]_vars PROVE Sum'
    OBVIOUS
  <2>1. FinitelyPlaced'
    BY PlacedStep
  <2>2. CASE UNCHANGED <<order, ledger>>
    BY <2>1, <2>2 DEF MoneyAddsUp, ledger
  <2>3. CASE \E o \in Orders : RowChange(o)
    BY <2>1, <2>3, SumsMove
  <2> QED
    BY <2>2, <2>3, EveryStep
<1>3. Spec => []Good
  BY TypeCorrect, JournalsCorrect, PTL DEF TypeInv
<1> QED
  BY <1>1, <1>2, <1>3, PTL DEF Spec
-----------------------------------------------------------------------------
(* Claims. Whoever writes a row holds its claim, and gives it up in the    *)
(* same step, or takes a claim nobody holds; only the customer's poll      *)
(* writes without one, and only on a row that has its activation.          *)

Unknown(o) == order[o].status = "review_required" /\ order[o].review = "purchase_unknown"

\* A write that ends a claim.
Ended(o) ==
    /\ order'[o].claim = None /\ ~order'[o].live
    /\ order'[o].started = order[o].started
    /\ \/ order'[o].status = order[o].status
       \/ order[o].status \in MoneyOpen /\ order'[o].status \notin {"none", "reserved"}
    /\ \/ order'[o].pid = order[o].pid
       \/ /\ order[o].status \in {"reserved", "review_required"}
          /\ order'[o].status = "awaiting_code"

\* ... of a purchase that the step does not call off or put in doubt.
SameStory(o) ==
    /\ order'[o].why = "not_started" => order[o].why = "not_started"
    /\ Unknown(o)' => Unknown(o)

LEMMA Fields ==
    ASSUME NumberOrdersAssumption, NEW row \in RowType, NEW w \in Orders \cup Tasks
    PROVE  /\ Unclaimed(row) \in RowType /\ ClaimedBy(row, w) \in RowType
           /\ Unclaimed(row).claim = None /\ ~Unclaimed(row).live
           /\ Unclaimed(row).status = row.status /\ Unclaimed(row).pid = row.pid
           /\ Unclaimed(row).started = row.started /\ Unclaimed(row).why = row.why
           /\ Unclaimed(row).review = row.review
           /\ ClaimedBy(row, w).claim = w /\ ClaimedBy(row, w).live
           /\ ClaimedBy(row, w).status = row.status /\ ClaimedBy(row, w).pid = row.pid
           /\ ClaimedBy(row, w).started = row.started /\ ClaimedBy(row, w).why = row.why
           /\ ClaimedBy(row, w).review = row.review
BY DEF RowType, Unclaimed, ClaimedBy

LEMMA ReleaseEnds ==
    ASSUME NumberOrdersAssumption, TypeInv, NEW o \in Orders, NEW w \in Orders \cup Tasks,
           Release(o, w)
    PROVE  /\ \A p \in Orders \ {o} : order'[p] = order[p]
           /\ order'[o] = order[o] \/ (order[o].claim = w /\ Ended(o) /\ SameStory(o))
<1>1. order[o] \in RowType
  BY DEF TypeInv, TypeOK
<1>2. /\ \A p \in Orders \ {o} : order'[p] = order[p]
      /\ \/ order'[o] = order[o]
         \/ order[o].claim = w /\ order'[o] = Unclaimed(order[o])
  BY DEF TypeInv, TypeOK, Release, Write
<1> QED
  BY <1>1, <1>2, Fields DEF Ended, SameStory, Unknown

LEMMA RefundEnds ==
    ASSUME NumberOrdersAssumption, TypeInv, NEW o \in Orders, NEW w \in Orders \cup Tasks,
           NEW status \in {"cancelled", "failed"}, NEW why \in Failures,
           ApplyRefund(o, w, status, why)
    PROVE  /\ \A p \in Orders \ {o} : order'[p] = order[p]
           /\ \/ order'[o] = order[o]
              \/ /\ Current(o, w) /\ Ended(o)
                 /\ order'[o].status = status /\ order'[o].why = why
                 /\ order'[o].pid = order[o].pid
<1>1. CASE UNCHANGED order
  BY <1>1
<1>2. CASE /\ Current(o, w) /\ order[o].status \in MoneyOpen
           /\ RefundOpen(o, order[o], status, why)
  <2> DEFINE row == [Unclaimed(order[o]) EXCEPT !.status = status, !.why = why, !.open = FALSE]
  <2>1. order[o] \in RowType
    BY DEF TypeInv, TypeOK
  <2>2. Unclaimed(order[o]) \in RowType
    BY <2>1, ClaimTypes
  <2>3. /\ row.status = status /\ row.why = why
        /\ row.claim = Unclaimed(order[o]).claim /\ row.live = Unclaimed(order[o]).live
        /\ row.started = Unclaimed(order[o]).started /\ row.pid = Unclaimed(order[o]).pid
    BY <2>2 DEF RowType
  <2>4. order'[o] = row /\ \A p \in Orders \ {o} : order'[p] = order[p]
    BY <1>2 DEF RefundOpen, Write, TypeInv, TypeOK
  <2> HIDE DEF row
  <2> QED
    BY <1>2, <2>1, <2>3, <2>4, Fields DEF Ended
<1> QED
  BY <1>1, <1>2 DEF ApplyRefund

LEMMA ReviewEnds ==
    ASSUME NumberOrdersAssumption, TypeInv, NEW o \in Orders, NEW w \in Orders \cup Tasks,
           MarkReview(o, w)
    PROVE  /\ \A p \in Orders \ {o} : order'[p] = order[p]
           /\ \/ order'[o] = order[o]
              \/ /\ Current(o, w) /\ Ended(o) /\ Unknown(o)'
                 /\ order'[o].why = order[o].why /\ order'[o].pid = order[o].pid
<1>1. CASE UNCHANGED order
  BY <1>1
<1>2. CASE /\ Current(o, w) /\ order[o].status \in {"reserved", "awaiting_code"}
           /\ Write(o, [Unclaimed(order[o]) EXCEPT !.status = "review_required",
                                                   !.review = "purchase_unknown"])
  <2> DEFINE row == [Unclaimed(order[o]) EXCEPT !.status = "review_required",
                                                !.review = "purchase_unknown"]
  <2>1. order[o] \in RowType
    BY DEF TypeInv, TypeOK
  <2>2. Unclaimed(order[o]) \in RowType
    BY <2>1, ClaimTypes
  <2>3. /\ row.status = "review_required" /\ row.review = "purchase_unknown"
        /\ row.claim = Unclaimed(order[o]).claim /\ row.live = Unclaimed(order[o]).live
        /\ row.started = Unclaimed(order[o]).started /\ row.pid = Unclaimed(order[o]).pid
        /\ row.why = Unclaimed(order[o]).why
    BY <2>2 DEF RowType
  <2>4. order'[o] = row /\ \A p \in Orders \ {o} : order'[p] = order[p]
    BY <1>2 DEF Write, TypeInv, TypeOK
  <2> HIDE DEF row
  <2> QED
    BY <1>2, <2>1, <2>3, <2>4, Fields DEF Ended, Unknown, MoneyOpen
<1> QED
  BY <1>1, <1>2 DEF MarkReview

LEMMA CheckEnds ==
    ASSUME NumberOrdersAssumption, TypeInv, NEW o \in Orders, NEW w \in Orders \cup Tasks,
           NEW claimed \in BOOLEAN, NEW ans \in Answers, ApplyCheck(o, w, claimed, ans)
    PROVE  /\ \A p \in Orders \ {o} : order'[p] = order[p]
           /\ \/ order'[o] = order[o]
              \/ /\ claimed => Current(o, w)
                 /\ Ended(o) /\ SameStory(o)
<1> DEFINE row == [order[o] EXCEPT !.expiry = Later(@, ans.until), !.inbox = @ \cup ans.sms]
           stay == ~ans.closed /\ ~Past(row.expiry)
           accepted == claimed => Current(o, w)
           held == accepted /\ row.status \in MoneyOpen
<1>1. order[o] \in RowType
  BY DEF TypeInv, TypeOK
<1>2. Later(order[o].expiry, ans.until) \in Nat /\ order[o].inbox \cup ans.sms \in SUBSET Sms
  BY <1>1 DEF RowType, Answers, Later
<1>3. /\ row \in RowType /\ row.status = order[o].status /\ row.pid = order[o].pid
      /\ row.why = order[o].why /\ row.started = order[o].started
      /\ row.review = order[o].review
  BY <1>1, <1>2 DEF RowType
<1>4. /\ Unclaimed(row) \in RowType /\ Unclaimed(row).claim = None /\ ~Unclaimed(row).live
      /\ Unclaimed(row).status = order[o].status
      /\ Unclaimed(row).pid = order[o].pid /\ Unclaimed(row).why = order[o].why
      /\ Unclaimed(row).started = order[o].started
      /\ Unclaimed(row).review = order[o].review
  BY ZenonT(60), <1>3, Fields
<1>5. \/ held /\ SettleOpen(o, row, stay)
      \/ accepted /\ \E b \in BOOLEAN : ScheduleOpen(o, row, b)
      \/ held /\ ReviewOpen(o, row)
      \/ held /\ RefundOpen(o, row, "expired", "expired")
      \/ UNCHANGED order
  BY <1>3 DEF ApplyCheck
<1> HIDE DEF row, stay
<1>6. \/ UNCHANGED order
      \/ accepted /\ \E new :
            /\ Write(o, new)
            /\ new.claim = None /\ ~new.live
            /\ new.started = order[o].started /\ new.pid = order[o].pid
            /\ \/ new.status = order[o].status
               \/ /\ order[o].status \in MoneyOpen
                  /\ new.status \in {"delivered", "review_required", "expired"}
            /\ new.why \in {order[o].why, "expired"}
            /\ \/ new.status = order[o].status /\ new.review = order[o].review
               \/ new.status # "review_required"
               \/ new.review = "without_code"
  <2>1. CASE held /\ SettleOpen(o, row, stay)
    <3> DEFINE new == [Unclaimed(row) EXCEPT !.status = "delivered", !.open = stay]
    <3>1. /\ new.status = "delivered" /\ new.claim = Unclaimed(row).claim
          /\ new.live = Unclaimed(row).live /\ new.started = Unclaimed(row).started
          /\ new.pid = Unclaimed(row).pid /\ new.why = Unclaimed(row).why
      BY <1>4 DEF RowType
    <3>2. Write(o, new)
      BY <2>1 DEF SettleOpen
    <3> HIDE DEF new
    <3> QED
      BY <1>3, <1>4, <2>1, <3>1, <3>2
  <2>2. CASE accepted /\ \E b \in BOOLEAN : ScheduleOpen(o, row, b)
    <3>1. PICK b \in BOOLEAN : ScheduleOpen(o, row, b)
      BY <2>2
    <3> DEFINE new == [Unclaimed(row) EXCEPT !.open = b]
    <3>2. /\ new.status = Unclaimed(row).status /\ new.claim = Unclaimed(row).claim
          /\ new.live = Unclaimed(row).live /\ new.started = Unclaimed(row).started
          /\ new.pid = Unclaimed(row).pid /\ new.why = Unclaimed(row).why
          /\ new.review = Unclaimed(row).review
      BY <1>4 DEF RowType
    <3>3. Write(o, new)
      BY <3>1 DEF ScheduleOpen
    <3> HIDE DEF new
    <3> QED
      BY <1>4, <2>2, <3>2, <3>3
  <2>3. CASE held /\ ReviewOpen(o, row)
    <3> DEFINE new == [Unclaimed(row) EXCEPT !.status = "review_required",
                                             !.review = "without_code", !.open = FALSE]
    <3>1. /\ new.status = "review_required" /\ new.claim = Unclaimed(row).claim
          /\ new.live = Unclaimed(row).live /\ new.started = Unclaimed(row).started
          /\ new.pid = Unclaimed(row).pid /\ new.why = Unclaimed(row).why
          /\ new.review = "without_code"
      BY <1>4 DEF RowType
    <3>2. Write(o, new)
      BY <2>3 DEF ReviewOpen
    <3> HIDE DEF new
    <3> QED
      BY <1>3, <1>4, <2>3, <3>1, <3>2
  <2>4. CASE held /\ RefundOpen(o, row, "expired", "expired")
    <3> DEFINE new == [Unclaimed(row) EXCEPT !.status = "expired", !.why = "expired",
                                             !.open = FALSE]
    <3>1. /\ new.status = "expired" /\ new.claim = Unclaimed(row).claim
          /\ new.live = Unclaimed(row).live /\ new.started = Unclaimed(row).started
          /\ new.pid = Unclaimed(row).pid /\ new.why = "expired"
      BY <1>4 DEF RowType
    <3>2. Write(o, new)
      BY <2>4 DEF RefundOpen
    <3> HIDE DEF new
    <3> QED
      BY <1>3, <1>4, <2>4, <3>1, <3>2
  <2> QED
    BY <1>5, <2>1, <2>2, <2>3, <2>4
<1>7. CASE UNCHANGED order
  BY <1>7
<1>8. ASSUME accepted, NEW new, Write(o, new), new.claim = None, ~new.live,
             new.started = order[o].started, new.pid = order[o].pid,
             \/ new.status = order[o].status
             \/ /\ order[o].status \in MoneyOpen
                /\ new.status \in {"delivered", "review_required", "expired"},
             new.why \in {order[o].why, "expired"},
             \/ new.status = order[o].status /\ new.review = order[o].review
             \/ new.status # "review_required"
             \/ new.review = "without_code"
      PROVE  /\ \A p \in Orders \ {o} : order'[p] = order[p]
             /\ Ended(o) /\ SameStory(o)
  <2>1. order'[o] = new /\ \A p \in Orders \ {o} : order'[p] = order[p]
    BY <1>8 DEF Write, TypeInv, TypeOK
  <2> QED
    BY <1>8, <2>1 DEF Ended, SameStory, Unknown
<1> QED
  BY <1>6, <1>7, <1>8

LEMMA AssignEnds ==
    ASSUME NumberOrdersAssumption, TypeInv, NEW o \in Orders, NEW a \in Activations,
           order[o].status \in {"reserved", "review_required"},
           Write(o, Assigned(order[o], a))
    PROVE  /\ \A p \in Orders \ {o} : order'[p] = order[p]
           /\ Ended(o) /\ SameStory(o) /\ order'[o].status = "awaiting_code"
<1>1. order[o] \in RowType
  BY DEF TypeInv, TypeOK
<1>2. Unclaimed(order[o]) \in RowType
  BY <1>1, ClaimTypes
<1> DEFINE row == Assigned(order[o], a)
<1>3. /\ row.status = "awaiting_code"
      /\ row.claim = Unclaimed(order[o]).claim /\ row.live = Unclaimed(order[o]).live
      /\ row.started = Unclaimed(order[o]).started /\ row.why = Unclaimed(order[o]).why
  BY <1>2 DEF RowType, Assigned
<1>4. order'[o] = row /\ \A p \in Orders \ {o} : order'[p] = order[p]
  BY DEF Write, TypeInv, TypeOK
<1> HIDE DEF row
<1> QED
  BY <1>1, <1>3, <1>4, Fields DEF Ended, SameStory, Unknown, MoneyOpen

\* What a step of task t may do to the row of o.
Touches(t, o) ==
    \/ order'[o] = order[o]
    \/ ~order[o].live /\ order'[o] = ClaimedBy(order[o], t)
    \/ /\ task[t].order = o
       /\ order[o].claim = t \/ order[o].pid \in Activations
       /\ Ended(o)
       /\ \/ SameStory(o)
          \/ /\ order[o].claim = t /\ order'[o].pid = order[o].pid
             /\ Unknown(o)' => task[t].pc = "mark" \/ Unknown(o)
             /\ order'[o].why = "not_started" =>
                   \/ order[o].why = "not_started"
                   \/ /\ task[t].pc = "refund" /\ task[t].job \in {"reconcile", "recheck"}
                      /\ order'[o].status = "failed"

LEMMA RequestTouches ==
    ASSUME NumberOrdersAssumption, TypeInv, NEW t \in Tasks, NEW p \in Orders, Request(t, p),
           NEW o \in Orders
    PROVE  Touches(t, o)
BY DEF Request, Sweep, Poll, Cancel, Recheck, OperatorRefund, Write, Touches, TypeInv, TypeOK

LEMMA ContinueTouches ==
    ASSUME NumberOrdersAssumption, TypeInv, NEW t \in Tasks, Continue(t), NEW o \in Orders
    PROVE  Touches(t, o)
<1>0. task[t].pc # "idle"
  BY DEF Continue, TryClaim, RefundClaimed, MarkUnknown, CheckBusy, CheckAnswers, CheckFails,
     HandBack, Apply, Recover, Taken, Adopt, Unconfirmed
<1>1. PICK p \in Orders : p = task[t].order /\ task[t] \in TaskType
  BY <1>0, TaskKnown
<1>2. CASE UNCHANGED order
  BY <1>2 DEF Touches
<1>3. CASE ~order[p].live /\ Write(p, ClaimedBy(order[p], t))
  BY <1>1, <1>3 DEF Touches, Write, TypeInv, TypeOK
<1>4. CASE Release(p, t)
  BY <1>1, <1>4, ReleaseEnds DEF Touches
<1>5. CASE RefundClaimed(t)
  <2>1. PICK status \in {"cancelled", "failed"}, why \in Failures :
           /\ ApplyRefund(p, t, status, why)
           /\ why = "not_started" => status = "failed" /\ task[t].job \in {"reconcile", "recheck"}
    BY <1>1, <1>5 DEF RefundClaimed, Failures
  <2>2. /\ \A q \in Orders \ {p} : order'[q] = order[q]
        /\ \/ order'[p] = order[p]
           \/ /\ Current(p, t) /\ Ended(p)
              /\ order'[p].status = status /\ order'[p].why = why
              /\ order'[p].pid = order[p].pid
    BY <1>1, <2>1, RefundEnds
  <2>3. task[t].pc = "refund"
    BY <1>5 DEF RefundClaimed
  <2> QED
    BY <1>1, <2>1, <2>2, <2>3 DEF Touches, Current, Unknown
<1>6. CASE MarkUnknown(t)
  <2>1. MarkReview(p, t) /\ task[t].pc = "mark"
    BY <1>1, <1>6 DEF MarkUnknown
  <2>2. /\ \A q \in Orders \ {p} : order'[q] = order[q]
        /\ \/ order'[p] = order[p]
           \/ /\ Current(p, t) /\ Ended(p) /\ Unknown(p)'
              /\ order'[p].why = order[p].why /\ order'[p].pid = order[p].pid
    BY <1>1, <2>1, ReviewEnds
  <2>3. CASE o = p /\ order'[p] # order[p]
    <3>1. /\ task[t].order = o /\ order[o].claim = t /\ Ended(o)
          /\ order'[o].why = order[o].why /\ order'[o].pid = order[o].pid
      BY <1>1, <2>2, <2>3 DEF Current
    <3> QED
      BY <2>1, <3>1 DEF Touches
  <2> QED
    BY <1>1, <2>2, <2>3 DEF Touches
<1>7. CASE Apply(t)
  <2>1. ApplyCheck(p, t, task[t].claimed, task[t].ans) /\ task[t].pc = "apply"
    BY <1>1, <1>7 DEF Apply
  <2>2. task[t].claimed \in BOOLEAN /\ task[t].ans \in Answers
    BY <1>1 DEF TaskType
  <2>3. order[p].pid \in Activations
    BY <1>1, <2>1, TaskKnown
  <2>4. /\ \A q \in Orders \ {p} : order'[q] = order[q]
        /\ order'[p] = order[p] \/ (Ended(p) /\ SameStory(p))
    BY <1>1, <2>1, <2>2, CheckEnds
  <2> QED
    BY <1>1, <2>3, <2>4 DEF Touches
<1>8. CASE Adopt(t)
  <2>1. task[t].pid \in Activations
    BY <1>8, TaskKnown DEF Adopt
  <2>2. CASE /\ order[p].status = "review_required" /\ order[p].claim = t
             /\ Write(p, Assigned(order[p], task[t].pid))
    <3>1. /\ \A q \in Orders \ {p} : order'[q] = order[q]
          /\ Ended(p) /\ SameStory(p)
      BY <1>1, <2>1, <2>2, AssignEnds
    <3> QED
      BY <1>1, <2>2, <3>1 DEF Touches
  <2> QED
    BY <1>1, <1>2, <1>8, <2>2 DEF Adopt
<1>9. CASE Unconfirmed(t)
  <2>1. CASE ApplyRefund(p, t, "failed", "unconfirmed")
    <3>1. /\ \A q \in Orders \ {p} : order'[q] = order[q]
          /\ \/ order'[p] = order[p]
             \/ /\ Current(p, t) /\ Ended(p)
                /\ order'[p].status = "failed" /\ order'[p].why = "unconfirmed"
                /\ order'[p].pid = order[p].pid
      BY <1>1, <2>1, RefundEnds DEF Failures
    <3> QED
      BY <1>1, <3>1 DEF Touches, Current, Unknown
  <2> QED
    BY <1>1, <1>4, <1>9, <2>1 DEF Unconfirmed
<1>10. CASE TryClaim(t)
  BY <1>1, <1>2, <1>3, <1>10 DEF TryClaim
<1>11. CASE CheckBusy(t) \/ CheckAnswers(t) \/ CheckFails(t)
  BY <1>1, <1>2, <1>4, <1>11 DEF CheckBusy, CheckAnswers, CheckFails
<1>12. CASE HandBack(t) \/ Recover(t) \/ Taken(t)
  BY <1>1, <1>2, <1>4, <1>12 DEF HandBack, Recover, Taken
<1> QED
  BY <1>5, <1>6, <1>7, <1>8, <1>9, <1>10, <1>11, <1>12 DEF Continue

Buying == {"buying", "lookup", "rejected", "ambiguous", "assign"}

\* What a step of its purchase may do to the row of o.
Buys(o) ==
    \/ order'[o] = order[o] /\ (buyer'[o].pc \in Buying => buyer[o].pc \in Buying)
    \/ /\ buyer'[o].pc \notin Buying
       /\ order'[o].status = "reserved" /\ order'[o].pid = NoActivation
       /\ ~order'[o].live /\ order'[o].claim = None /\ order'[o].why = "none"
    \/ /\ ~order[o].live /\ order[o].status = "reserved" /\ order'[o].status = "reserved"
       /\ order'[o].pid = order[o].pid /\ order'[o].why = order[o].why
       /\ order'[o].claim = o
    \/ /\ buyer[o].pc \in Buying /\ Current(o, o) /\ Ended(o)
       /\ buyer'[o].pc \notin Buying
       /\ \/ SameStory(o)
          \/ order'[o].why = order[o].why /\ order'[o].pid = order[o].pid
          \/ order'[o].why = "rejected" /\ ~Unknown(o)'

LEMMA PurchaseBuys ==
    ASSUME NumberOrdersAssumption, TypeInv, NEW o \in Orders, Purchase(o)
    PROVE  /\ Buys(o) /\ buyer'[o] # buyer[o] /\ UNCHANGED task
           /\ \A p \in Orders \ {o} : order'[p] = order[p] /\ buyer'[p] = buyer[p]
<1>1. /\ UNCHANGED task
      /\ \A p \in Orders \ {o} : order'[p] = order[p] /\ buyer'[p] = buyer[p]
  <2>1. \A from, to : BuyerAt(o, from, to) => \A p \in Orders \ {o} : buyer'[p] = buyer[p]
    BY DEF BuyerAt, TypeInv, TypeOK
  <2>2. \/ UNCHANGED order \/ \E row : Write(o, row)
        \/ ApplyRefund(o, o, "failed", "rejected") \/ MarkReview(o, o)
    BY DEF Purchase, Reserve, StartPurchase, Bought, BuyRejected, BuyAmbiguous, BuyUnreadable,
       RecoverRecentBuy, RefundRejected, MarkAmbiguous, Assign, GiveBack
  <2>3. \A p \in Orders \ {o} : order'[p] = order[p]
    BY <2>2 DEF Write, TypeInv, TypeOK, ApplyRefund, RefundOpen, MarkReview
  <2>4. \A p \in Orders \ {o} : buyer'[p] = buyer[p]
    BY <2>1 DEF Purchase, Reserve, StartPurchase, Bought, BuyRejected, BuyAmbiguous,
       BuyUnreadable, RecoverRecentBuy, RefundRejected, MarkAmbiguous, Assign, GiveBack, TypeInv, TypeOK
  <2> QED
    BY <2>3, <2>4 DEF Purchase, Reserve, StartPurchase, Bought, BuyRejected, BuyAmbiguous,
       BuyUnreadable, RecoverRecentBuy, RefundRejected, MarkAmbiguous, Assign, GiveBack
<1>2. ASSUME NEW from, NEW to, BuyerAt(o, from, to)
      PROVE  buyer[o].pc = from /\ buyer'[o].pc = to
  BY <1>2 DEF BuyerAt, TypeInv, TypeOK, BuyerType
<1>3. order[o] \in RowType
  BY DEF TypeInv, TypeOK
<1>4. CASE Reserve(o)
  <2> DEFINE new == [NoRow EXCEPT !.status = "reserved", !.created = now]
  <2>1. /\ new.status = "reserved" /\ new.pid = NoActivation /\ ~new.live
        /\ new.claim = None /\ new.why = "none"
    BY DEF NoRow
  <2>2. order'[o] = new
    BY <1>4 DEF Reserve, Write, TypeInv, TypeOK
  <2>3. buyer[o].pc = "idle" /\ buyer'[o].pc = "reserved"
    BY <1>2, <1>4 DEF Reserve
  <2> HIDE DEF new
  <2> QED
    BY <1>1, <2>1, <2>2, <2>3 DEF Buys, Buying
<1>5. CASE StartPurchase(o)
  <2>1. CASE BuyerAt(o, "reserved", "done") /\ UNCHANGED order
    BY <1>1, <1>2, <2>1 DEF Buys, Buying
  <2>2. CASE /\ BuyerAt(o, "reserved", "buying") /\ order[o].status = "reserved"
             /\ ~order[o].live /\ Write(o, [ClaimedBy(order[o], o) EXCEPT !.started = TRUE])
    <3> DEFINE new == [ClaimedBy(order[o], o) EXCEPT !.started = TRUE]
    <3>1. ClaimedBy(order[o], o) \in RowType
      BY <1>3, ClaimTypes
    <3>2. /\ new.status = ClaimedBy(order[o], o).status /\ new.pid = ClaimedBy(order[o], o).pid
          /\ new.why = ClaimedBy(order[o], o).why /\ new.claim = ClaimedBy(order[o], o).claim
      BY <3>1 DEF RowType
    <3>3. order'[o] = new
      BY <2>2 DEF Write, TypeInv, TypeOK
    <3>4. buyer[o].pc = "reserved" /\ buyer'[o].pc = "buying"
      BY <1>2, <2>2
    <3> HIDE DEF new
    <3> QED
      BY <1>1, <1>3, <2>2, <3>2, <3>3, <3>4, Fields DEF Buys
  <2> QED
    BY <1>5, <2>1, <2>2 DEF StartPurchase
<1>6. CASE Bought(o)
  <2>1. PICK a \in Activations : buyer' = [buyer EXCEPT ![o] = [pc |-> "assign", act |-> a]]
    BY <1>6 DEF Bought
  <2>2. buyer'[o].pc = "assign" /\ buyer[o].pc = "buying" /\ order'[o] = order[o]
    BY <1>6, <2>1 DEF Bought, TypeInv, TypeOK
  <2> QED
    BY <1>1, <2>2 DEF Buys, Buying
<1>7. CASE BuyRejected(o) \/ BuyAmbiguous(o) \/ BuyUnreadable(o) \/ GiveBack(o)
  <2>1. UNCHANGED order
    BY <1>7 DEF BuyRejected, BuyAmbiguous, BuyUnreadable, GiveBack
  <2>2. /\ buyer[o].pc \in {"buying", "giveback"}
        /\ buyer'[o].pc \in {"lookup", "rejected", "ambiguous", "done"}
        /\ buyer'[o].pc # "done" => buyer[o].pc = "buying"
    BY <1>2, <1>7 DEF BuyRejected, BuyAmbiguous, BuyUnreadable, GiveBack
  <2> QED
    BY <1>1, <2>1, <2>2 DEF Buys, Buying
<1>11. CASE RecoverRecentBuy(o)
  <2>1. PICK a \in Recoverable :
           buyer' = [buyer EXCEPT ![o] = [pc |-> IF a = NoActivation THEN "ambiguous" ELSE "assign",
                                          act |-> a]]
    BY <1>11 DEF RecoverRecentBuy
  <2>2. /\ buyer[o].pc = "lookup" /\ buyer'[o].pc \in {"ambiguous", "assign"}
        /\ order'[o] = order[o]
    BY <1>11, <2>1 DEF RecoverRecentBuy, TypeInv, TypeOK
  <2> QED
    BY <1>1, <2>2 DEF Buys, Buying
<1>8. CASE RefundRejected(o)
  <2>1. buyer[o].pc = "rejected" /\ buyer'[o].pc = "done"
    BY <1>2, <1>8 DEF RefundRejected
  <2>2. \/ order'[o] = order[o]
        \/ /\ Current(o, o) /\ Ended(o)
           /\ order'[o].status = "failed" /\ order'[o].why = "rejected"
    BY <1>8, RefundEnds DEF RefundRejected, Failures
  <2> QED
    BY <1>1, <2>1, <2>2 DEF Buys, Buying, Unknown
<1>9. CASE MarkAmbiguous(o)
  <2>1. buyer[o].pc = "ambiguous" /\ buyer'[o].pc = "done"
    BY <1>2, <1>9 DEF MarkAmbiguous
  <2>2. \/ order'[o] = order[o]
        \/ /\ Current(o, o) /\ Ended(o)
           /\ order'[o].why = order[o].why /\ order'[o].pid = order[o].pid
    BY <1>9, ReviewEnds DEF MarkAmbiguous
  <2> QED
    BY <1>1, <2>1, <2>2 DEF Buys, Buying
<1>10. CASE Assign(o)
  <2>1. CASE UNCHANGED order
    BY <1>1, <1>2, <1>10, <2>1 DEF Assign, Buys, Buying
  <2>2. CASE /\ BuyerAt(o, "assign", "done") /\ order[o].status = "reserved" /\ Current(o, o)
             /\ Write(o, Assigned(order[o], buyer[o].act))
    <3>1. buyer[o].pc = "assign" /\ buyer'[o].pc = "done"
      BY <1>2, <2>2
    <3>2. buyer[o].act \in Activations
      BY <3>1, Parts DEF BuyersOK
    <3>3. Ended(o) /\ SameStory(o)
      BY <2>2, <3>2, AssignEnds
    <3> QED
      BY <1>1, <2>2, <3>1, <3>3 DEF Buys, Buying
  <2> QED
    BY <1>10, <2>1, <2>2 DEF Assign
<1> QED
  BY <1>4, <1>5, <1>6, <1>7, <1>8, <1>9, <1>10, <1>11 DEF Purchase

\* A row without an activation on it is one that never had it, and an order whose
\* buyer holds its lease is as the buyer reserved it.
ClaimInv ==
    /\ \A o \in Orders : order[o].status \in {"none", "reserved"} => order[o].pid = NoActivation
    /\ \A o \in Orders :
          buyer[o].pc \in Buying /\ Current(o, o) => order[o].status = "reserved"

\* A lease that the buyer of o holds is not touched by anybody else.
Fenced(o) ==
    buyer[o].pc \in Buying /\ Current(o, o) /\ buyer'[o] = buyer[o]
        => order'[o] \in {order[o], [order[o] EXCEPT !.live = FALSE]}

\* What anybody else does leaves a buyer's claim alone or ends it.
LEMMA TouchesFenced ==
    ASSUME NumberOrdersAssumption, TypeInv, ClaimInv, NEW t \in Tasks, NEW o \in Orders,
           Touches(t, o), UNCHANGED buyer
    PROVE  /\ Fenced(o)
           /\ order'[o] = order[o] \/ order'[o].claim # o
           /\ order'[o].status \in {"none", "reserved"} =>
                 order[o].status = order'[o].status /\ order'[o].pid = order[o].pid
<1>1. order[o] \in RowType /\ o \in Orders \cup Tasks /\ t \in Orders \cup Tasks
  BY DEF TypeInv, TypeOK
<1>2. o # t /\ None # o /\ NoActivation \notin Activations
  BY DEF NumberOrdersAssumption
<1>3. CASE order'[o] = order[o]
  BY <1>3 DEF Fenced
<1>4. CASE ~order[o].live /\ order'[o] = ClaimedBy(order[o], t)
  BY <1>1, <1>2, <1>4, Fields DEF Fenced, Current
<1>5. CASE /\ order[o].claim = t \/ order[o].pid \in Activations
           /\ Ended(o)
  <2>1. ~(buyer[o].pc \in Buying /\ Current(o, o))
    BY <1>2, <1>5 DEF ClaimInv, Current
  <2> QED
    BY <1>2, <1>5, <2>1 DEF Fenced, Ended
<1> QED
  BY <1>3, <1>4, <1>5 DEF Touches

LEMMA LapseFenced ==
    ASSUME NumberOrdersAssumption, TypeInv, NEW o \in Orders, Lapse(o)
    PROVE  /\ order'[o] = [order[o] EXCEPT !.live = FALSE]
           /\ ~order'[o].live /\ order'[o].claim = order[o].claim
           /\ order'[o].status = order[o].status /\ order'[o].pid = order[o].pid
           /\ order'[o].started = order[o].started /\ order'[o].why = order[o].why
           /\ order'[o].review = order[o].review
           /\ \A p \in Orders \ {o} : order'[p] = order[p]
           /\ UNCHANGED <<buyer, task>>
<1>1. order[o] \in RowType
  BY DEF TypeInv, TypeOK
<1>2. order' = [order EXCEPT ![o] = [order[o] EXCEPT !.live = FALSE]] /\ UNCHANGED <<buyer, task>>
  BY DEF Lapse, Write
<1>3. order'[o] = [order[o] EXCEPT !.live = FALSE] /\ \A p \in Orders \ {o} : order'[p] = order[p]
  BY <1>2 DEF TypeInv, TypeOK
<1> QED
  BY <1>1, <1>2, <1>3 DEF RowType

\* The steps of Next by what they do to the rows.
LEMMA Steps ==
    ASSUME NumberOrdersAssumption, TypeInv, [Next]_vars
    PROVE  \/ \E o \in Orders : Purchase(o)
           \/ \E o \in Orders : Lapse(o)
           \/ /\ UNCHANGED buyer
              /\ \E t \in Tasks : /\ Continue(t) \/ \E o \in Orders : Request(t, o)
                                  /\ \A p \in Orders : Touches(t, p)
           \/ /\ UNCHANGED order
              /\ \A o \in Orders : buyer'[o] = buyer[o] \/ buyer'[o].pc = "done"
              /\ UNCHANGED task \/ \E t \in Tasks : Finish(t)
<1>1. ASSUME NEW t \in Tasks, Continue(t) \/ \E o \in Orders : Request(t, o)
      PROVE  UNCHANGED buyer /\ \A p \in Orders : Touches(t, p)
  <2>1. UNCHANGED buyer
    BY <1>1 DEF Continue, TryClaim, RefundClaimed, MarkUnknown, CheckBusy, CheckAnswers,
       CheckFails, HandBack, Apply, Recover, Taken, Adopt, Unconfirmed,
       Request, Sweep, Poll, Cancel, Recheck, OperatorRefund
  <2> QED
    BY <1>1, <2>1, RequestTouches, ContinueTouches, SMTT(30)
<1>2. ASSUME NEW o \in Orders, LoseBuyer(o)
      PROVE  /\ UNCHANGED <<order, task>>
             /\ \A p \in Orders : buyer'[p] = buyer[p] \/ buyer'[p].pc = "done"
  BY <1>2 DEF LoseBuyer, TypeInv, TypeOK, BuyerType
<1>3. CASE Tick \/ (\E a \in Activations : SupplierActs(a)) \/ UNCHANGED vars
  BY <1>3 DEF Tick, SupplierActs, vars
<1>4. CASE \E t \in Tasks : LoseTask(t)
  BY <1>4 DEF LoseTask
<1> QED
  BY <1>1, <1>2, <1>3, <1>4 DEF Next

LEMMA FenceStep ==
    ASSUME NumberOrdersAssumption, TypeInv, ClaimInv, [Next]_vars
    PROVE  ClaimInv' /\ \A o \in Orders : Fenced(o)
<1> USE DEF Buying
<1>1. ASSUME NEW o \in Orders, Purchase(o)
      PROVE  ClaimInv' /\ \A p \in Orders : Fenced(p)
  <2>1. /\ Buys(o) /\ buyer'[o] # buyer[o]
        /\ \A p \in Orders \ {o} : order'[p] = order[p] /\ buyer'[p] = buyer[p]
    BY <1>1, PurchaseBuys
  <2>2. \A p \in Orders : Fenced(p)
    BY <2>1 DEF Fenced
  <2>3. None # o
    BY DEF NumberOrdersAssumption
  <2>4. order'[o].status \in {"none", "reserved"} => order'[o].pid = NoActivation
    BY <2>1 DEF Buys, ClaimInv, Ended, MoneyOpen
  <2>5. buyer'[o].pc \in Buying /\ Current(o, o)' => order'[o].status = "reserved"
    BY <2>1, <2>3 DEF Buys, ClaimInv, Current
  <2> QED
    BY <2>1, <2>2, <2>4, <2>5 DEF ClaimInv, Current
<1>2. ASSUME NEW o \in Orders, Lapse(o)
      PROVE  ClaimInv' /\ \A p \in Orders : Fenced(p)
  <2>1. /\ order'[o] = [order[o] EXCEPT !.live = FALSE]
        /\ ~order'[o].live
        /\ order'[o].status = order[o].status /\ order'[o].pid = order[o].pid
        /\ \A p \in Orders \ {o} : order'[p] = order[p]
        /\ UNCHANGED buyer
    BY <1>2, LapseFenced
  <2>2. \A p \in Orders : Fenced(p)
    BY <2>1 DEF Fenced
  <2> QED
    BY <2>1, <2>2 DEF ClaimInv, Current
<1>3. ASSUME UNCHANGED buyer, NEW t \in Tasks, \A p \in Orders : Touches(t, p)
      PROVE  ClaimInv' /\ \A p \in Orders : Fenced(p)
  <2>1. \A p \in Orders :
           /\ Fenced(p)
           /\ order'[p] = order[p] \/ order'[p].claim # p
           /\ order'[p].status \in {"none", "reserved"} =>
                 order[p].status = order'[p].status /\ order'[p].pid = order[p].pid
    BY <1>3, TouchesFenced
  <2> QED
    BY <1>3, <2>1 DEF ClaimInv, Current
<1>4. ASSUME UNCHANGED order, \A o \in Orders : buyer'[o] = buyer[o] \/ buyer'[o].pc = "done"
      PROVE  ClaimInv' /\ \A p \in Orders : Fenced(p)
  BY <1>4 DEF ClaimInv, Current, Fenced
<1> QED
  BY <1>1, <1>2, <1>3, <1>4, Steps

LEMMA ClaimsHold == Spec => [](TypeInv /\ ClaimInv)
<1> USE NumberOrdersAssumption
<1>1. Init => ClaimInv
  BY DEF Init, NoRow, ClaimInv, Buying
<1>2. TypeInv /\ ClaimInv /\ [Next]_vars => ClaimInv'
  BY FenceStep
<1>3. Spec => []TypeInv
  BY TypeCorrect, PTL DEF TypeInv
<1> QED
  BY <1>1, <1>2, <1>3, PTL DEF Spec

\* While a buyer's lease is live, no sweep, poll, cancel or operator writes its order.
THEOREM BuyersAreFenced == Spec => PurchaseFenced
<1> USE NumberOrdersAssumption
<1>1. TypeInv /\ ClaimInv /\ [Next]_vars =>
        [\A o \in Orders :
            /\ buyer[o].pc \in {"buying", "lookup", "rejected", "ambiguous", "assign"}
            /\ Current(o, o)
            /\ buyer'[o] = buyer[o]
            => order'[o] \in {order[o], [order[o] EXCEPT !.live = FALSE]}]_vars
  BY FenceStep DEF Fenced, Buying
<1> QED
  BY <1>1, ClaimsHold, PTL DEF Spec, PurchaseFenced

\* What the sweep read when it claimed a row still stands while it holds the claim.
ReadStands(t) ==
    /\ task[t].job # "recheck"
    /\ task[t].pc = "claim" => task[t].job \in {"cancel", "refund"} /\ task[t].then # "mark"
    /\ task[t].pc = "mark" => task[t].job = "reconcile"
    /\ LET row == order[task[t].order] IN
       row.claim = t =>
          /\ task[t].pc = "refund" /\ task[t].job = "reconcile" =>
                ~row.started /\ row.pid = NoActivation
          /\ task[t].pc = "mark" => row.pid = NoActivation

CalledOff(o) == order[o].why = "not_started" =>
    order[o].status = "failed" /\ ~order[o].started /\ order[o].pid = NoActivation

InDoubt(o) == Unknown(o) => order[o].pid = NoActivation

ReadInv == /\ \A t \in Tasks : ReadStands(t)
           /\ \A o \in Orders : CalledOff(o) /\ InDoubt(o)

LEMMA RowsRead ==
    ASSUME NumberOrdersAssumption, TypeInv, ClaimInv, ReadInv, NEW t \in Tasks, NEW o \in Orders,
           task[t].pc # "idle", Touches(t, o)
    PROVE  CalledOff(o)' /\ InDoubt(o)'
<1>1. order[o] \in RowType /\ t \in Orders \cup Tasks
  BY DEF TypeInv, TypeOK
<1>2. CalledOff(o) /\ InDoubt(o) /\ ReadStands(t)
  BY DEF ReadInv
<1>3. CASE order'[o] = order[o]
  BY <1>2, <1>3 DEF CalledOff, InDoubt, Unknown
<1>4. CASE order'[o] = ClaimedBy(order[o], t)
  <2>1. /\ order'[o].status = order[o].status /\ order'[o].pid = order[o].pid
        /\ order'[o].started = order[o].started /\ order'[o].why = order[o].why
        /\ order'[o].review = order[o].review
    BY <1>1, <1>4 DEF ClaimedBy, RowType
  <2> QED
    BY <1>2, <2>1 DEF CalledOff, InDoubt, Unknown
<1>5. CASE Ended(o) /\ SameStory(o)
  BY <1>2, <1>5 DEF CalledOff, InDoubt, Unknown, Ended, SameStory, MoneyOpen
<1>6. CASE /\ task[t].order = o /\ Ended(o)
           /\ order[o].claim = t /\ order'[o].pid = order[o].pid
           /\ Unknown(o)' => task[t].pc = "mark" \/ Unknown(o)
           /\ order'[o].why = "not_started" =>
                 \/ order[o].why = "not_started"
                 \/ /\ task[t].pc = "refund" /\ task[t].job \in {"reconcile", "recheck"}
                    /\ order'[o].status = "failed"
  BY <1>2, <1>6 DEF CalledOff, InDoubt, Unknown, Ended, ReadStands, MoneyOpen
<1> QED
  BY <1>3, <1>4, <1>5, <1>6 DEF Touches

\* A task keeps what it read when another one moves.
LEMMA OthersRead ==
    ASSUME NumberOrdersAssumption, TypeInv, ReadInv, NEW t \in Tasks, task'[t] = task[t],
           task[t].pc # "idle" =>
              \/ order'[task[t].order] = order[task[t].order]
              \/ order'[task[t].order].claim # t
              \/ /\ order'[task[t].order].claim = order[task[t].order].claim
                 /\ order'[task[t].order].pid = order[task[t].order].pid
                 /\ order'[task[t].order].started = order[task[t].order].started
    PROVE  ReadStands(t)'
BY DEF ReadInv, ReadStands

LEMMA RequestReads ==
    ASSUME NumberOrdersAssumption, TypeInv, ClaimInv, ReadInv, "recheck" \notin Jobs,
           NEW t \in Tasks, NEW o \in Orders, Request(t, o)
    PROVE  /\ \A s \in Tasks \ {t} : task'[s] = task[s]
           /\ ReadStands(t)'
<1>1. order[o] \in RowType /\ Needs(order[o]) \in {"refund", "mark", "check"}
  BY RowKnown
<1>2. CASE Sweep(t, o)
  <2> DEFINE next == IF order[o].status = "review_required" THEN "recover" ELSE Needs(order[o])
             late == Past(order[o].expiry)
             sent == order[o].status = "delivered"
             v == [Idle EXCEPT !.pc = next, !.job = "reconcile", !.order = o, !.pid = order[o].pid,
                     !.claimed = TRUE, !.delivered = sent, !.lapsed = late]
  <2>1. task' = [task EXCEPT ![t] = v] /\ order'[o] = ClaimedBy(order[o], t)
    BY <1>2 DEF Sweep, Begin, Write, TypeInv, TypeOK
  <2>2. /\ next = "refund" => order[o].status = "reserved" /\ ~order[o].started
        /\ next = "mark" => order[o].pid = NoActivation
        /\ next # "claim"
    BY <1>1 DEF Needs
  <2> HIDE DEF next, late, sent
  <2>3. v.pc = next /\ v.job = "reconcile" /\ v.order = o
    BY DEF Idle
  <2>4. task'[t] = v /\ \A s \in Tasks \ {t} : task'[s] = task[s]
    BY <2>1 DEF TypeInv, TypeOK
  <2> HIDE DEF v
  <2>5. order'[o].pid = order[o].pid /\ order'[o].started = order[o].started
    BY <1>1, <2>1 DEF ClaimedBy, RowType
  <2> QED
    BY <2>2, <2>3, <2>4, <2>5 DEF ReadStands, ClaimInv
<1>3. CASE Poll(t, o)
  <2> DEFINE v == [Idle EXCEPT !.pc = "check", !.order = o, !.pid = order[o].pid]
  <2>1. v.pc = "check" /\ v.job = "poll"
    BY DEF Idle
  <2>2. task'[t] = v /\ \A s \in Tasks \ {t} : task'[s] = task[s]
    BY <1>3 DEF Poll, Begin, TypeInv, TypeOK
  <2> HIDE DEF v
  <2> QED
    BY <2>1, <2>2 DEF ReadStands
<1>4. CASE Cancel(t, o)
  <2> DEFINE v == [Idle EXCEPT !.pc = "claim", !.job = "cancel", !.order = o,
                     !.pid = order[o].pid,
                     !.then = IF order[o].pid = NoActivation THEN "refund" ELSE "check"]
  <2>1. v.pc = "claim" /\ v.job = "cancel" /\ v.then # "mark"
    BY DEF Idle
  <2>2. task'[t] = v /\ \A s \in Tasks \ {t} : task'[s] = task[s]
    BY <1>4 DEF Cancel, Begin, TypeInv, TypeOK
  <2> HIDE DEF v
  <2> QED
    BY <2>1, <2>2 DEF ReadStands
<1>5. CASE OperatorRefund(t, o)
  <2> DEFINE v == [Idle EXCEPT !.pc = "claim", !.job = "refund", !.order = o, !.then = "refund"]
  <2>1. v.pc = "claim" /\ v.job = "refund" /\ v.then # "mark"
    BY DEF Idle
  <2>2. task'[t] = v /\ \A s \in Tasks \ {t} : task'[s] = task[s]
    BY <1>5 DEF OperatorRefund, Begin, TypeInv, TypeOK
  <2> HIDE DEF v
  <2> QED
    BY <2>1, <2>2 DEF ReadStands
<1> QED
  BY <1>2, <1>3, <1>4, <1>5 DEF Request, Recheck

LEMMA ContinueReads ==
    ASSUME NumberOrdersAssumption, TypeInv, ReadInv, NEW t \in Tasks, Continue(t) \/ Finish(t)
    PROVE  /\ \A s \in Tasks \ {t} : task'[s] = task[s]
           /\ ReadStands(t)'
<1>1. task \in [Tasks -> TaskType] /\ task[t] \in TaskType /\ ReadStands(t)
  BY DEF TypeInv, TypeOK, ReadInv
<1>2. CASE Finish(t)
  <2>1. task'[t] = Idle /\ \A s \in Tasks \ {t} : task'[s] = task[s]
    BY <1>1, <1>2 DEF Finish
  <2> QED
    BY <2>1 DEF ReadStands, Idle
<1>3. ASSUME NEW v \in TaskType, task' = [task EXCEPT ![t] = v], v.job = task[t].job,
             v.pc \notin {"claim", "mark"}, v.pc = "refund" => v.job # "reconcile"
      PROVE  /\ \A s \in Tasks \ {t} : task'[s] = task[s]
             /\ ReadStands(t)'
  <2>1. task'[t] = v /\ \A s \in Tasks \ {t} : task'[s] = task[s]
    BY <1>1, <1>3
  <2> QED
    BY <1>1, <1>3, <2>1 DEF ReadStands
<1>4. ASSUME NEW pc \in {"check", "handback", "apply", "adopt", "unconfirmed", "refund"},
             Step(t, pc), pc = "refund" => task[t].job = "cancel"
      PROVE  /\ \A s \in Tasks \ {t} : task'[s] = task[s]
             /\ ReadStands(t)'
  <2> DEFINE v == [task[t] EXCEPT !.pc = pc]
  <2>1. v \in TaskType /\ v.job = task[t].job /\ v.pc = pc
    BY <1>1 DEF TaskType
  <2>2. task' = [task EXCEPT ![t] = v]
    BY <1>4 DEF Step
  <2> HIDE DEF v
  <2> QED
    BY <1>3, <1>4, <2>1, <2>2
<1>5. CASE TryClaim(t) /\ ~Finish(t)
  <2> DEFINE v == [task[t] EXCEPT !.pc = task[t].then, !.claimed = TRUE]
  <2>1. v \in TaskType /\ v.job = task[t].job /\ v.pc = task[t].then
    BY <1>1 DEF TaskType
  <2>2. task' = [task EXCEPT ![t] = v] /\ task[t].pc = "claim"
    BY <1>5 DEF TryClaim
  <2>3. task[t].job \in {"cancel", "refund"} /\ task[t].then \in {"refund", "check"}
    BY <1>1, <2>2 DEF ReadStands, TaskType
  <2> HIDE DEF v
  <2> QED
    BY <1>3, <2>1, <2>2, <2>3
<1>6. CASE CheckAnswers(t)
  <2> DEFINE ans == Answer(task[t].pid)
  <2>1. PICK pc \in {"handback", "apply"} :
           task' = [task EXCEPT ![t].ans = ans, ![t].pc = pc]
    BY <1>6 DEF CheckAnswers
  <2> DEFINE v == [task[t] EXCEPT !.ans = ans, !.pc = pc]
  <2>2. task[t].pid \in Activations
    BY <1>6, TaskKnown DEF CheckAnswers
  <2>3. ans \in Answers
    BY <2>2 DEF Answer, Answers, TypeInv, TypeOK, SupplierTypeOK
  <2>4. v \in TaskType /\ v.job = task[t].job /\ v.pc = pc
    BY <1>1, <2>3 DEF TaskType
  <2>5. task' = [task EXCEPT ![t] = v]
    BY <2>1
  <2> HIDE DEF v
  <2> QED
    BY <1>3, <2>4, <2>5
<1>7. CASE CheckFails(t) /\ ~Finish(t)
  <2> DEFINE v == [task[t] EXCEPT !.ans = ClosedAnswer, !.pc = "apply"]
  <2>1. v \in TaskType /\ v.job = task[t].job /\ v.pc = "apply"
    BY <1>1 DEF TaskType, ClosedAnswer, Answers
  <2>2. task' = [task EXCEPT ![t] = v]
    BY <1>7 DEF CheckFails
  <2> HIDE DEF v
  <2> QED
    BY <1>3, <2>1, <2>2
<1>8. CASE Recover(t)
  <2>1. PICK a \in Recoverable :
           task' = [task EXCEPT ![t].pid = a,
                      ![t].pc = IF a = NoActivation THEN "unconfirmed" ELSE "taken"]
    BY <1>8 DEF Recover
  <2> DEFINE pc == IF a = NoActivation THEN "unconfirmed" ELSE "taken"
             v == [task[t] EXCEPT !.pid = a, !.pc = pc]
  <2>2. a \in Activations \cup {NoActivation}
    BY <2>1 DEF Recoverable, TypeInv, TypeOK, SupplierTypeOK
  <2>3. pc \in {"unconfirmed", "taken"} /\ task' = [task EXCEPT ![t] = v]
    BY <2>1
  <2> HIDE DEF pc
  <2>4. v \in TaskType /\ v.job = task[t].job /\ v.pc = pc
    BY <1>1, <2>2, <2>3 DEF TaskType
  <2> HIDE DEF v
  <2> QED
    BY <1>3, <2>3, <2>4
<1>9. CASE Adopt(t)
  <2>1. CASE Step(t, "unconfirmed")
    BY <1>4, <2>1
  <2>2. CASE task' = [task EXCEPT ![t].pc = "check", ![t].claimed = FALSE]
    <3> DEFINE v == [task[t] EXCEPT !.pc = "check", !.claimed = FALSE]
    <3>1. v \in TaskType /\ v.job = task[t].job /\ v.pc = "check"
      BY <1>1 DEF TaskType
    <3>2. task' = [task EXCEPT ![t] = v]
      BY <2>2
    <3> HIDE DEF v
    <3> QED
      BY <1>3, <3>1, <3>2
  <2> QED
    BY <1>9, <2>1, <2>2 DEF Adopt
<1>10. CASE HandBack(t) \/ Taken(t)
  BY <1>2, <1>4, <1>10 DEF HandBack, Taken
<1>11. CASE RefundClaimed(t) \/ MarkUnknown(t) \/ CheckBusy(t) \/ Apply(t) \/ Unconfirmed(t)
  BY <1>2, <1>11 DEF RefundClaimed, MarkUnknown, CheckBusy, Apply, Unconfirmed
<1> QED
  BY <1>2, <1>5, <1>6, <1>7, <1>8, <1>9, <1>10, <1>11 DEF Continue

LEMMA PurchaseReads ==
    ASSUME NumberOrdersAssumption, TypeInv, ClaimInv, ReadInv, NEW o \in Orders, Purchase(o)
    PROVE  ReadInv'
<1>1. /\ Buys(o) /\ UNCHANGED task
      /\ \A p \in Orders \ {o} : order'[p] = order[p]
  BY PurchaseBuys
<1>2. CalledOff(o) /\ InDoubt(o) /\ o \notin Tasks /\ None \notin Tasks
  BY DEF ReadInv, NumberOrdersAssumption
<1>3. CASE order'[o] = order[o]
  <2>1. \A p \in Orders : order'[p] = order[p]
    BY <1>1, <1>3
  <2>2. \A t \in Tasks : ReadStands(t)'
    BY <1>1, <2>1, OthersRead, TaskKnown
  <2> QED
    BY <2>1, <2>2 DEF ReadInv, CalledOff, InDoubt, Unknown
<1>4. CASE /\ order'[o].claim \notin Tasks
           /\ CalledOff(o)' /\ InDoubt(o)'
  <2>1. \A t \in Tasks : ReadStands(t)'
    BY <1>1, <1>4, OthersRead, TaskKnown
  <2> QED
    BY <1>1, <1>4, <2>1 DEF ReadInv, CalledOff, InDoubt, Unknown
<1>5. CASE /\ order'[o].status = "reserved" /\ order'[o].why = "none"
           /\ order'[o].claim = None
  BY <1>2, <1>4, <1>5 DEF CalledOff, InDoubt, Unknown
<1>6. CASE /\ order[o].status = "reserved" /\ order'[o].status = "reserved"
           /\ order'[o].why = order[o].why /\ order'[o].claim = o
  BY <1>2, <1>4, <1>6 DEF CalledOff, InDoubt, Unknown
<1>7. CASE /\ buyer[o].pc \in Buying /\ Current(o, o) /\ Ended(o)
           /\ \/ SameStory(o)
              \/ order'[o].why = order[o].why /\ order'[o].pid = order[o].pid
              \/ order'[o].why = "rejected" /\ ~Unknown(o)'
  <2>1. order[o].status = "reserved" /\ order[o].pid = NoActivation
    BY <1>7 DEF ClaimInv
  <2>2. order'[o].claim = None
    BY <1>7 DEF Ended
  <2>3. order[o].why # "not_started"
    BY <1>2, <2>1 DEF CalledOff
  <2>4. CalledOff(o)'
    BY <1>7, <2>3 DEF CalledOff, SameStory
  <2>5. InDoubt(o)'
    BY <1>7, <2>1 DEF InDoubt, Unknown, SameStory, Ended
  <2> QED
    BY <1>2, <1>4, <2>2, <2>4, <2>5
<1> QED
  BY <1>1, <1>3, <1>5, <1>6, <1>7 DEF Buys

LEMMA LapseReads ==
    ASSUME NumberOrdersAssumption, TypeInv, ReadInv, NEW o \in Orders, Lapse(o)
    PROVE  ReadInv'
<1>1. /\ order'[o].claim = order[o].claim
      /\ order'[o].status = order[o].status /\ order'[o].pid = order[o].pid
      /\ order'[o].started = order[o].started /\ order'[o].why = order[o].why
      /\ order'[o].review = order[o].review
      /\ \A p \in Orders \ {o} : order'[p] = order[p]
      /\ UNCHANGED task
  BY LapseFenced
<1>2. \A t \in Tasks : ReadStands(t)'
  BY <1>1, OthersRead, TaskKnown
<1> QED
  BY <1>1, <1>2 DEF ReadInv, CalledOff, InDoubt, Unknown

LEMMA TaskReads ==
    ASSUME NumberOrdersAssumption, TypeInv, ClaimInv, ReadInv, NEW t \in Tasks,
           \A o \in Orders : Touches(t, o),
           \A s \in Tasks \ {t} : task'[s] = task[s], ReadStands(t)',
           \A o \in Orders : CalledOff(o)' /\ InDoubt(o)'
    PROVE  ReadInv'
<1>1. ASSUME NEW s \in Tasks \ {t} PROVE ReadStands(s)'
  <2>1. CASE task[s].pc = "idle"
    BY <1>1, <2>1, OthersRead
  <2>2. CASE task[s].pc # "idle"
    <3>1. PICK o \in Orders : o = task[s].order
      BY <1>1, <2>2, TaskKnown
    <3>2. None # s /\ order[o] \in RowType /\ t \in Orders \cup Tasks
      BY <1>1, <3>1 DEF NumberOrdersAssumption, TypeInv, TypeOK
    <3>3. ClaimedBy(order[o], t).claim # s
      BY <1>1, <3>2 DEF ClaimedBy, RowType
    <3>4. order'[o] = order[o] \/ order'[o].claim # s
      BY <1>1, <3>1, <3>2, <3>3 DEF Touches, Ended
    <3> QED
      BY <1>1, <3>1, <3>4, OthersRead
  <2> QED
    BY <2>1, <2>2
<1> QED
  BY <1>1 DEF ReadInv

LEMMA ReadStep ==
    ASSUME NumberOrdersAssumption, "recheck" \notin Jobs, TypeInv, ClaimInv, ReadInv,
           [Next]_vars
    PROVE  ReadInv'
<1>1. ASSUME NEW t \in Tasks, Continue(t), \A p \in Orders : Touches(t, p)
      PROVE  ReadInv'
  <2>1. task[t].pc # "idle"
    BY <1>1 DEF Continue, TryClaim, RefundClaimed, MarkUnknown, CheckBusy, CheckAnswers, CheckFails,
       HandBack, Apply, Recover, Taken, Adopt, Unconfirmed
  <2>2. \A o \in Orders : CalledOff(o)' /\ InDoubt(o)'
    BY <1>1, <2>1, RowsRead
  <2> QED
    BY <1>1, <2>2, ContinueReads, TaskReads
<1>2. ASSUME NEW t \in Tasks, NEW p \in Orders, Request(t, p), \A o \in Orders : Touches(t, o)
      PROVE  ReadInv'
  <2>1. ASSUME NEW o \in Orders PROVE CalledOff(o)' /\ InDoubt(o)'
    <3>1. order[o] \in RowType /\ CalledOff(o) /\ InDoubt(o)
      BY DEF TypeInv, TypeOK, ReadInv
    <3>2. order'[o] \in {order[o], ClaimedBy(order[o], t)}
      BY <1>2 DEF Request, Sweep, Poll, Cancel, Recheck, OperatorRefund, Write, TypeInv, TypeOK
    <3>3. /\ order'[o].status = order[o].status /\ order'[o].pid = order[o].pid
          /\ order'[o].started = order[o].started /\ order'[o].why = order[o].why
          /\ order'[o].review = order[o].review
      BY <3>1, <3>2 DEF ClaimedBy, RowType
    <3> QED
      BY <3>1, <3>3 DEF CalledOff, InDoubt, Unknown
  <2> QED
    BY <1>2, <2>1, RequestReads, TaskReads
<1>3. ASSUME UNCHANGED order, UNCHANGED task \/ \E t \in Tasks : Finish(t)
      PROVE  ReadInv'
  <2>1. ASSUME NEW t \in Tasks PROVE ReadStands(t)'
    <3>1. CASE UNCHANGED task
      BY <1>3, <3>1 DEF ReadInv, ReadStands
    <3>2. CASE Finish(t)
      BY <3>2, ContinueReads
    <3>3. CASE \E s \in Tasks \ {t} : Finish(s)
      <4>1. task'[t] = task[t]
        BY <3>3 DEF Finish, TypeInv, TypeOK
      <4> QED
        BY <1>3, <4>1, OthersRead
    <3> QED
      BY <1>3, <3>1, <3>2, <3>3
  <2> QED
    BY <1>3, <2>1 DEF ReadInv, CalledOff, InDoubt, Unknown
<1> QED
  BY <1>1, <1>2, <1>3, PurchaseReads, LapseReads, Steps

LEMMA ReadsHold == "recheck" \notin Jobs => (Spec => []ReadInv)
<1> SUFFICES ASSUME "recheck" \notin Jobs PROVE Spec => []ReadInv
  OBVIOUS
<1> USE NumberOrdersAssumption
<1>1. Init => ReadInv
  BY DEF Init, NoRow, Idle, ReadInv, ReadStands, CalledOff, InDoubt, Unknown
<1>2. TypeInv /\ ClaimInv /\ ReadInv /\ [Next]_vars => ReadInv'
  BY ReadStep
<1> QED
  BY <1>1, <1>2, ClaimsHold, PTL DEF Spec

\* Without operators who recheck, an order that is called off as not started never
\* started: the sweep reads and claims the row in one statement.
THEOREM CalledOffNeverStarted == "recheck" \notin Jobs => (Spec => []NotStartedIsTrue)
<1> SUFFICES ASSUME "recheck" \notin Jobs PROVE Spec => []NotStartedIsTrue
  OBVIOUS
<1>1. ReadInv => NotStartedIsTrue
  BY DEF ReadInv, CalledOff, NotStartedIsTrue
<1> QED
  BY <1>1, ReadsHold, PTL

\* ... and an order under review for an unknown purchase is one the sweep looks for.
THEOREM DoubtsAreSwept == "recheck" \notin Jobs => (Spec => []UnknownIsSwept)
<1> SUFFICES ASSUME "recheck" \notin Jobs PROVE Spec => []UnknownIsSwept
  OBVIOUS
<1>1. ReadInv => UnknownIsSwept
  BY DEF ReadInv, InDoubt, Unknown, UnknownIsSwept
<1> QED
  BY <1>1, ReadsHold, PTL

-----------------------------------------------------------------------------
(* One order for each activation, but for recovery.                        *)

\* An activation that the supplier has sold, and one that is an order's: it is
\* recorded, or the purchase is about to record it.
Sold(a)   == a \in Activations /\ supplier[a].state # "unsold"
Has(o, a) == order[o].pid = a \/ (buyer[o].pc = "assign" /\ buyer[o].act = a)

\* No other order has, or is about to have, the activation that t recovered.
Unshared(t) == \A p \in Orders \ {task[t].order} : ~Has(p, task[t].pid)

\* The purchase of o takes the newest of the supplier's history for its own, and
\* no other order has, or is about to have, that one.
LooksUp(o)        == RecoverRecentBuy(o) /\ buyer'[o].pc = "assign"
NewestUnshared(o) == \A p \in Orders \ {o} : ~Has(p, latest)

LooksUpUnshared == [][\A o \in Orders : LooksUp(o) => NewestUnshared(o)]_vars

AdoptsUnshared == [][\A t \in Tasks : Adopt(t) /\ order' # order => Unshared(t)]_vars

HeldInv ==
    /\ latest # NoActivation => Sold(latest)
    /\ \A t \in Tasks : task[t].pc \in {"taken", "adopt"} => Sold(task[t].pid)
    /\ \A o \in Orders, a \in Activations : Has(o, a) => Sold(a)
    /\ \A o, p \in Orders, a \in Activations : Has(o, a) /\ Has(p, a) => o = p

LEMMA HeldStart == ASSUME NumberOrdersAssumption, Init PROVE HeldInv
BY DEF NumberOrdersAssumption, Init, SupplierInit, NoRow, Idle, HeldInv, Has

\* What is sold stays sold, and what was sold last is sold.
LEMMA SalesStand ==
    ASSUME NumberOrdersAssumption, TypeInv, HeldInv, [Next]_vars
    PROVE  /\ \A a \in Activations : Sold(a) => Sold(a)'
           /\ latest' # NoActivation => Sold(latest)'
<1> DEFINE Stands == /\ \A a \in Activations : Sold(a) => Sold(a)'
                     /\ latest' # NoActivation => Sold(latest)'
<1>1. CASE UNCHANGED supplierVars
  BY <1>1 DEF supplierVars, HeldInv, Sold
<1>0. /\ supplier \in [Activations -> [state : Lifecycles, sms : SUBSET Sms, until : Nat]]
      /\ latest # NoActivation => Sold(latest)
  BY DEF TypeInv, TypeOK, SupplierTypeOK, HeldInv
<1>2. ASSUME NEW b \in Activations, NEW until, Sell(b, until) PROVE Stands
  BY <1>0, <1>2 DEF Sell, Sold
<1>3. ASSUME NEW b, (\E m \in Sms : Receive(b, m)) \/ Close(b) \/ CancelHonoured(b)
                   \/ (\E until : Extend(b, until))
      PROVE  Stands
  BY <1>0, <1>3 DEF Receive, Close, CancelHonoured, Extend, Sold
<1>4. ASSUME NEW o \in Orders, Purchase(o) PROVE Stands
  <2>1. CASE Bought(o) \/ BuyAmbiguous(o) \/ BuyUnreadable(o)
    BY <1>1, <1>2, <2>1 DEF Bought, BuyAmbiguous, BuyUnreadable
  <2>2. CASE GiveBack(o)
    BY <1>1, <1>3, <2>2 DEF GiveBack, CancelRefused
  <2> QED
    BY <1>1, <1>4, <2>1, <2>2 DEF Purchase, Reserve, StartPurchase, BuyRejected,
       RecoverRecentBuy, RefundRejected, MarkAmbiguous, Assign
<1>5. ASSUME NEW t \in Tasks, Continue(t) PROVE Stands
  <2>1. CASE HandBack(t)
    BY <1>1, <1>3, <2>1 DEF HandBack, CancelRefused
  <2> QED
    BY <1>1, <1>5, <2>1 DEF Continue, TryClaim, RefundClaimed, MarkUnknown, CheckBusy,
       CheckAnswers, CheckFails, Apply, Recover, Taken, Adopt, Unconfirmed
<1>6. ASSUME NEW b \in Activations, SupplierActs(b) PROVE Stands
  BY <1>2, <1>3, <1>6 DEF SupplierActs
<1>7. ASSUME NEW t \in Tasks, NEW o \in Orders, Request(t, o) PROVE Stands
  BY <1>1, <1>7 DEF Request, Sweep, Poll, Cancel, Recheck, OperatorRefund
<1>8. ASSUME NEW o \in Orders, Lapse(o) \/ LoseBuyer(o) PROVE Stands
  BY <1>1, <1>8 DEF Lapse, LoseBuyer
<1>9. CASE Tick \/ (\E t \in Tasks : LoseTask(t)) \/ UNCHANGED vars
  BY <1>1, <1>9 DEF Tick, LoseTask, vars
<1> QED
  BY <1>4, <1>5, <1>6, <1>7, <1>8, <1>9 DEF Next

\* The ways a row is written that keep its activation.
LEMMA RowsKeepPid ==
    ASSUME NumberOrdersAssumption, TypeInv, NEW o \in Orders, NEW w \in Orders \cup Tasks,
           \/ Release(o, w)
           \/ Write(o, ClaimedBy(order[o], w))
           \/ \E status \in Statuses, why \in Failures : ApplyRefund(o, w, status, why)
           \/ MarkReview(o, w)
           \/ \E claimed \in BOOLEAN, ans \in Answers : ApplyCheck(o, w, claimed, ans)
    PROVE  \A p \in Orders : order'[p].pid = order[p].pid
<1>1. order[o] \in RowType
  BY DEF TypeInv, TypeOK
<1>2. ASSUME NEW row \in RowType, row.pid = order[o].pid, Write(o, row)
      PROVE  \A p \in Orders : order'[p].pid = order[p].pid
  BY <1>2 DEF Write, TypeInv, TypeOK
<1>3. ASSUME NEW row \in RowType
      PROVE  Unclaimed(row) \in RowType /\ Unclaimed(row).pid = row.pid
  BY <1>3 DEF RowType, Unclaimed
<1>4. CASE Release(o, w)
  BY <1>1, <1>2, <1>3, <1>4 DEF Release
<1>5. CASE Write(o, ClaimedBy(order[o], w))
  <2> DEFINE to == ClaimedBy(order[o], w)
  <2>1. to \in RowType /\ to.pid = order[o].pid
    BY <1>1, Fields
  <2>2. Write(o, to)
    BY <1>5
  <2> HIDE DEF to
  <2> QED
    BY <1>2, <2>1, <2>2
<1>6. ASSUME NEW status \in Statuses, NEW why \in Failures, NEW row \in RowType,
             row.pid = order[o].pid, RefundOpen(o, row, status, why)
      PROVE  \A p \in Orders : order'[p].pid = order[p].pid
  <2> DEFINE to == [Unclaimed(row) EXCEPT !.status = status, !.why = why, !.open = FALSE]
  <2>1. to \in RowType /\ to.pid = row.pid
    BY <1>3 DEF RowType
  <2>2. Write(o, to)
    BY <1>6 DEF RefundOpen
  <2> HIDE DEF to
  <2> QED
    BY <1>2, <1>6, <2>1, <2>2
<1>7. ASSUME NEW status \in Statuses, NEW why \in Failures, ApplyRefund(o, w, status, why)
      PROVE  \A p \in Orders : order'[p].pid = order[p].pid
  BY <1>1, <1>6, <1>7 DEF ApplyRefund
<1>8. CASE MarkReview(o, w)
  <2> DEFINE to == [Unclaimed(order[o]) EXCEPT !.status = "review_required",
                                               !.review = "purchase_unknown"]
  <2>1. to \in RowType /\ to.pid = order[o].pid
    BY <1>1, <1>3 DEF RowType, Statuses, MoneyOpen, Reviews
  <2>2. UNCHANGED order \/ Write(o, to)
    BY <1>8 DEF MarkReview
  <2> HIDE DEF to
  <2> QED
    BY <1>2, <2>1, <2>2
<1>9. ASSUME NEW claimed \in BOOLEAN, NEW ans \in Answers, ApplyCheck(o, w, claimed, ans)
      PROVE  \A p \in Orders : order'[p].pid = order[p].pid
  <2> DEFINE row == [order[o] EXCEPT !.expiry = Later(@, ans.until), !.inbox = @ \cup ans.sms]
  <2> DEFINE stay == ~ans.closed /\ ~Past(row.expiry)
  <2>1. row \in RowType /\ row.pid = order[o].pid /\ stay \in BOOLEAN
    BY <1>1 DEF RowType, Answers, Later
  <2>2. \/ UNCHANGED order
        \/ SettleOpen(o, row, stay) \/ ScheduleOpen(o, row, TRUE) \/ ScheduleOpen(o, row, stay)
        \/ ReviewOpen(o, row) \/ RefundOpen(o, row, "expired", "expired")
    BY <1>9 DEF ApplyCheck
  <2> HIDE DEF row, stay
  <2>3. ASSUME NEW open \in BOOLEAN, SettleOpen(o, row, open) \/ ScheduleOpen(o, row, open)
        PROVE  \A p \in Orders : order'[p].pid = order[p].pid
    <3>1. /\ [Unclaimed(row) EXCEPT !.status = "delivered", !.open = open] \in RowType
          /\ [Unclaimed(row) EXCEPT !.status = "delivered", !.open = open].pid = row.pid
          /\ [Unclaimed(row) EXCEPT !.open = open] \in RowType
          /\ [Unclaimed(row) EXCEPT !.open = open].pid = row.pid
      BY <1>3, <2>1 DEF RowType, Statuses
    <3> QED
      BY <1>2, <2>1, <2>3, <3>1 DEF SettleOpen, ScheduleOpen
  <2>4. CASE ReviewOpen(o, row)
    <3> DEFINE to == [Unclaimed(row) EXCEPT !.status = "review_required",
                                            !.review = "without_code", !.open = FALSE]
    <3>1. to \in RowType /\ to.pid = row.pid
      BY <1>3, <2>1 DEF RowType, Statuses, MoneyOpen, Reviews
    <3>2. Write(o, to)
      BY <2>4 DEF ReviewOpen
    <3> HIDE DEF to
    <3> QED
      BY <1>2, <2>1, <3>1, <3>2
  <2> QED
    BY <1>6, <2>1, <2>2, <2>3, <2>4 DEF Statuses, Refunded, Failures
<1> QED
  BY <1>4, <1>5, <1>7, <1>8, <1>9

\* An order gets an activation from its buyer or from recovery.
LEMMA PidSteps ==
    ASSUME NumberOrdersAssumption, TypeInv, [Next]_vars, NEW o \in Orders
    PROVE  \/ order'[o].pid \in {order[o].pid, NoActivation}
           \/ buyer[o].pc = "assign" /\ order'[o].pid = buyer[o].act
           \/ \E t \in Tasks : /\ Adopt(t) /\ order' # order
                              /\ task[t].order = o /\ order'[o].pid = task[t].pid
<1> DEFINE Goal == \/ order'[o].pid \in {order[o].pid, NoActivation}
                   \/ buyer[o].pc = "assign" /\ order'[o].pid = buyer[o].act
                   \/ \E t \in Tasks : /\ Adopt(t) /\ order' # order
                                      /\ task[t].order = o /\ order'[o].pid = task[t].pid
<1>0. /\ \A p \in Orders : order[p] \in RowType
      /\ order \in [Orders -> RowType] /\ NoRow \in RowType /\ NoRow.pid = NoActivation
  BY DEF TypeInv, TypeOK, NoRow, RowType, NumberOrdersAssumption, Statuses, Reviews, Failures
<1>1. ASSUME NEW p \in Orders, NEW a \in Activations, Write(p, Assigned(order[p], a))
      PROVE  /\ \A q \in Orders \ {p} : order'[q] = order[q]
             /\ order'[p].pid = a
  <2>1. Unclaimed(order[p]) \in RowType
    BY <1>0, Fields
  <2>2. Assigned(order[p], a).pid = a
    BY <2>1 DEF Assigned, RowType
  <2> QED
    BY <1>0, <1>1, <2>2 DEF Write
<1>2. ASSUME NEW p \in Orders, Purchase(p) PROVE Goal
  <2>1. CASE Reserve(p)
    <3> DEFINE row == [NoRow EXCEPT !.status = "reserved", !.created = now]
    <3>1. row.pid = NoActivation
      BY DEF NoRow
    <3>2. Write(p, row)
      BY <2>1 DEF Reserve
    <3> HIDE DEF row
    <3>3. order'[o] = order[o] \/ order'[o] = row
      BY <1>0, <3>2 DEF Write
    <3> QED
      BY <3>1, <3>3
  <2>2. CASE StartPurchase(p)
    <3>0. ClaimedBy(order[p], p) \in RowType /\ ClaimedBy(order[p], p).pid = order[p].pid
      BY <1>0, Fields
    <3>1. [ClaimedBy(order[p], p) EXCEPT !.started = TRUE].pid = order[p].pid
      BY <3>0 DEF RowType
    <3> QED
      BY <1>0, <2>2, <3>1 DEF StartPurchase, Write
  <2>3. CASE RefundRejected(p)
    BY <2>3, RowsKeepPid DEF RefundRejected, Statuses, Refunded, Failures
  <2>4. CASE MarkAmbiguous(p)
    BY <2>4, RowsKeepPid DEF MarkAmbiguous
  <2>5. CASE Assign(p)
    <3>1. buyer[p].pc = "assign" /\ buyer[p].act \in Activations
      BY <2>5 DEF Assign, BuyerAt, TypeInv, IdentifiersKnown, OrderKnows
    <3> QED
      BY <1>1, <2>5, <3>1 DEF Assign
  <2> QED
    BY <1>2, <2>1, <2>2, <2>3, <2>4, <2>5
       DEF Purchase, Bought, BuyRejected, BuyAmbiguous, BuyUnreadable, RecoverRecentBuy, GiveBack
<1>3. ASSUME NEW p \in Orders, Lapse(p) PROVE Goal
  BY <1>3, LapseFenced
<1>4. ASSUME NEW t \in Tasks, NEW p \in Orders, Request(t, p) PROVE Goal
  BY <1>4, RowsKeepPid DEF Request, Sweep, Poll, Cancel, Recheck, OperatorRefund
<1>5. ASSUME NEW t \in Tasks, Continue(t) PROVE Goal
  <2>0. task[t].pc # "idle"
    BY <1>5 DEF Continue, TryClaim, RefundClaimed, MarkUnknown, CheckBusy, CheckAnswers, CheckFails,
       HandBack, Apply, Recover, Taken, Adopt, Unconfirmed
  <2>1. PICK p \in Orders : p = task[t].order /\ task[t] \in TaskType
    BY <2>0, TaskKnown
  <2>2. CASE TryClaim(t)
    BY <2>1, <2>2, RowsKeepPid DEF TryClaim
  <2>3. CASE RefundClaimed(t)
    BY <2>1, <2>3, RowsKeepPid DEF RefundClaimed, Statuses, Refunded, Failures
  <2>4. CASE MarkUnknown(t)
    BY <2>1, <2>4, RowsKeepPid DEF MarkUnknown
  <2>5. CASE CheckBusy(t) \/ CheckAnswers(t) \/ CheckFails(t) \/ HandBack(t)
    BY <2>1, <2>5, RowsKeepPid DEF CheckBusy, CheckAnswers, CheckFails, HandBack
  <2>6. CASE Apply(t)
    <3>1. task[t].claimed \in BOOLEAN /\ task[t].ans \in Answers
      BY <2>1 DEF TaskType
    <3> QED
      BY <2>1, <2>6, <3>1, RowsKeepPid DEF Apply
  <2>7. CASE Recover(t) \/ Taken(t)
    BY <2>7 DEF Recover, Taken
  <2>8. CASE Adopt(t)
    <3>1. task[t].pid \in Activations
      BY <2>8, TaskKnown DEF Adopt
    <3>2. \/ UNCHANGED order
          \/ /\ Write(p, Assigned(order[p], task[t].pid))
             /\ order'[p] # order[p]
      BY <1>0, <2>1, <2>8 DEF Adopt, Write
    <3>3. ASSUME Write(p, Assigned(order[p], task[t].pid)), order'[p] # order[p]
          PROVE  Goal
      <4>1. /\ order' # order
            /\ order'[p].pid = task[t].pid
            /\ \A q \in Orders \ {p} : order'[q] = order[q]
        BY <1>1, <3>1, <3>3
      <4> QED
        BY <2>1, <2>8, <4>1
    <3> QED
      BY <3>2, <3>3
  <2>9. CASE Unconfirmed(t)
    BY <2>1, <2>9, RowsKeepPid DEF Unconfirmed, Statuses, Refunded, Failures
  <2> QED
    BY <1>5, <2>2, <2>3, <2>4, <2>5, <2>6, <2>7, <2>8, <2>9 DEF Continue
<1>6. CASE UNCHANGED order
  BY <1>6
<1> QED
  BY <1>2, <1>3, <1>4, <1>5, <1>6 DEF Next, LoseBuyer, LoseTask, SupplierActs, Tick, vars

\* A purchase that comes to hold an activation has just been sold it, or found
\* it the newest of the supplier's history.
LEMMA BuyerSteps ==
    ASSUME NumberOrdersAssumption, TypeInv, [Next]_vars, NEW o \in Orders, buyer'[o].pc = "assign"
    PROVE  \/ buyer'[o] = buyer[o]
           \/ \E a \in Activations : /\ buyer'[o].act = a /\ ~Sold(a) /\ Sold(a)'
                                     /\ UNCHANGED <<order, task>>
                                     /\ \A p \in Orders \ {o} : buyer'[p] = buyer[p]
           \/ /\ RecoverRecentBuy(o) /\ buyer'[o].act = latest
              /\ \A p \in Orders \ {o} : buyer'[p] = buyer[p]
<1> DEFINE Goal == \/ buyer'[o] = buyer[o]
                   \/ \E a \in Activations : /\ buyer'[o].act = a /\ ~Sold(a) /\ Sold(a)'
                                             /\ UNCHANGED <<order, task>>
                                             /\ \A p \in Orders \ {o} : buyer'[p] = buyer[p]
                   \/ /\ RecoverRecentBuy(o) /\ buyer'[o].act = latest
                      /\ \A p \in Orders \ {o} : buyer'[p] = buyer[p]
<1>0. /\ buyer \in [Orders -> BuyerType]
      /\ supplier \in [Activations -> [state : Lifecycles, sms : SUBSET Sms, until : Nat]]
  BY DEF TypeInv, TypeOK, SupplierTypeOK
<1>1. ASSUME NEW p \in Orders, Purchase(p) PROVE Goal
  <2>1. CASE Bought(p)
    <3>1. PICK a \in Activations : /\ Sell(a, HoldUntil)
                                   /\ buyer' = [buyer EXCEPT ![p] = [pc |-> "assign", act |-> a]]
      BY <2>1 DEF Bought
    <3>2. ~Sold(a) /\ Sold(a)'
      BY <1>0, <3>1 DEF Sell, Sold
    <3> QED
      BY <1>0, <2>1, <3>1, <3>2 DEF Bought
  <2>2. ASSUME NEW from, NEW to \in {"reserved", "buying", "lookup", "rejected", "ambiguous",
                   "giveback", "done"},
               BuyerAt(p, from, to)
        PROVE  Goal
    <3>1. buyer'[o] = buyer[o] \/ buyer'[o].pc = to
      BY <1>0, <2>2 DEF BuyerAt, BuyerType
    <3> QED
      BY <3>1
  <2>3. CASE RecoverRecentBuy(p)
    <3>1. PICK a \in Recoverable :
             buyer' = [buyer EXCEPT ![p] = [pc |-> IF a = NoActivation THEN "ambiguous" ELSE "assign",
                                            act |-> a]]
      BY <2>3 DEF RecoverRecentBuy
    <3>2. CASE p = o
      <4>1. /\ buyer'[o].act = a
            /\ buyer'[o].pc = IF a = NoActivation THEN "ambiguous" ELSE "assign"
            /\ \A q \in Orders \ {o} : buyer'[q] = buyer[q]
        BY <1>0, <3>1, <3>2
      <4>2. a = latest
        BY <3>1, <4>1 DEF Recoverable
      <4> QED
        BY <2>3, <3>2, <4>1, <4>2
    <3>3. CASE p # o
      BY <1>0, <3>1, <3>3
    <3> QED
      BY <3>2, <3>3
  <2> QED
    BY <1>1, <2>1, <2>2, <2>3 DEF Purchase, Reserve, StartPurchase, BuyRejected, BuyAmbiguous,
       BuyUnreadable, RefundRejected, MarkAmbiguous, Assign, GiveBack
<1>2. ASSUME NEW p \in Orders, LoseBuyer(p) PROVE Goal
  BY <1>0, <1>2 DEF LoseBuyer
<1>3. CASE UNCHANGED buyer
  BY <1>3
<1>4. ASSUME NEW t \in Tasks, Continue(t) PROVE UNCHANGED buyer
  BY <1>4 DEF Continue, TryClaim, RefundClaimed, MarkUnknown, CheckBusy, CheckAnswers, CheckFails,
     HandBack, Apply, Recover, Taken, Adopt, Unconfirmed
<1>5. ASSUME NEW t \in Tasks, NEW p \in Orders, Request(t, p) PROVE UNCHANGED buyer
  BY <1>5 DEF Request, Sweep, Poll, Cancel, Recheck, OperatorRefund
<1> QED
  BY <1>1, <1>2, <1>3, <1>4, <1>5 DEF Next, Lapse, LoseTask, SupplierActs, Tick, vars

\* What a task takes for the activation of its order was sold last.
LEMMA TasksRecover ==
    ASSUME NumberOrdersAssumption, TypeInv, [Next]_vars, NEW t \in Tasks,
           task'[t].pc \in {"taken", "adopt"}
    PROVE  \/ task[t].pc \in {"taken", "adopt"} /\ task'[t].pid = task[t].pid
           \/ task'[t].pid = latest /\ latest # NoActivation
<1> DEFINE Goal == \/ task[t].pc \in {"taken", "adopt"} /\ task'[t].pid = task[t].pid
                   \/ task'[t].pid = latest /\ latest # NoActivation
<1>0. task \in [Tasks -> TaskType]
  BY DEF TypeInv, TypeOK
<1>1. CASE task'[t] = task[t]
  BY <1>1
<1>2. ASSUME NEW s \in Tasks, NEW to, task' = [task EXCEPT ![s] = to],
             to.pc \notin {"taken", "adopt"}
      PROVE  Goal
  BY <1>0, <1>1, <1>2
<1>3. Idle.pc = "idle"
  BY DEF Idle
<1>4. ASSUME NEW s \in Tasks, Finish(s) PROVE Goal
  BY <1>2, <1>3, <1>4 DEF Finish
<1>5. ASSUME NEW s \in Tasks, NEW p \in Orders, Request(s, p) PROVE Goal
  <2>1. CASE s # t
    <3>1. \E view : Begin(s, view)
      BY <1>5 DEF Request, Sweep, Poll, Cancel, Recheck, OperatorRefund
    <3> QED
      BY <1>0, <1>1, <2>1, <3>1 DEF Begin
  <2>2. CASE s = t
    <3>1. CASE Sweep(t, p)
      <4> DEFINE first == IF order[p].status = "review_required" THEN "recover" ELSE Needs(order[p])
      <4>1. first \in {"recover", "refund", "mark", "check"}
        BY DEF Needs
      <4> DEFINE view == [Idle EXCEPT !.pc = first, !.job = "reconcile", !.order = p,
                            !.pid = order[p].pid, !.claimed = TRUE,
                            !.delivered = order[p].status = "delivered",
                            !.lapsed = Past(order[p].expiry)]
      <4>2. view.pc = first
        BY DEF Idle
      <4>3. task' = [task EXCEPT ![t] = view]
        BY <3>1 DEF Sweep, Begin
      <4> HIDE DEF view, first
      <4> QED
        BY <1>2, <4>1, <4>2, <4>3
    <3>2. CASE Poll(t, p)
      BY <1>0, <3>2 DEF Poll, Begin, Idle
    <3>3. CASE Cancel(t, p)
      BY <1>0, <3>3 DEF Cancel, Begin, Idle
    <3>4. CASE Recheck(t, p)
      BY <1>0, <3>4 DEF Recheck, Begin, Idle
    <3>5. CASE OperatorRefund(t, p)
      BY <1>0, <3>5 DEF OperatorRefund, Begin, Idle
    <3> QED
      BY <1>5, <2>2, <3>1, <3>2, <3>3, <3>4, <3>5 DEF Request
  <2> QED
    BY <2>1, <2>2
<1>6. ASSUME NEW s \in Tasks, Continue(s) PROVE Goal
  <2>1. CASE s # t
    BY <1>0, <1>1, <1>6, <2>1 DEF Continue, TryClaim, RefundClaimed, MarkUnknown, CheckBusy,
       CheckAnswers, CheckFails, HandBack, Apply, Recover, Taken, Adopt, Unconfirmed, Finish, Step
  <2>2. CASE s = t /\ (RefundClaimed(t) \/ MarkUnknown(t) \/ CheckBusy(t) \/ Apply(t)
                        \/ Unconfirmed(t))
    BY <1>4, <2>2 DEF RefundClaimed, MarkUnknown, CheckBusy, Apply, Unconfirmed
  <2>3. CASE s = t /\ TryClaim(t)
    <3>1. task[t] \in TaskType
      BY <1>0
    <3>2. Finish(t) \/ task'[t].pc = task[t].then
      BY <1>0, <2>3, <3>1 DEF TryClaim, TaskType
    <3> QED
      BY <1>4, <3>1, <3>2 DEF TaskType
  <2>4. CASE s = t /\ (CheckAnswers(t) \/ CheckFails(t) \/ HandBack(t))
    <3>1. task[t] \in TaskType
      BY <1>0
    <3>2. Finish(t) \/ task'[t].pc \in {"handback", "apply", "refund"}
      <4>1. CASE CheckAnswers(t)
        BY <1>0, <3>1, <4>1 DEF CheckAnswers, TaskType
      <4>2. CASE CheckFails(t)
        BY <1>0, <3>1, <4>2 DEF CheckFails, TaskType
      <4>3. CASE HandBack(t)
        BY <1>0, <3>1, <4>3 DEF HandBack, Step, TaskType
      <4> QED
        BY <2>4, <4>1, <4>2, <4>3
    <3> QED
      BY <1>4, <3>2
  <2>5. CASE s = t /\ Recover(t)
    <3>1. PICK a \in Recoverable :
             task' = [task EXCEPT ![t].pid = a,
                        ![t].pc = IF a = NoActivation THEN "unconfirmed" ELSE "taken"]
      BY <2>5 DEF Recover
    <3>2. /\ task'[t].pid = a
          /\ task'[t].pc = IF a = NoActivation THEN "unconfirmed" ELSE "taken"
      BY <1>0, <3>1 DEF TaskType
    <3> QED
      BY <3>1, <3>2 DEF Recoverable
  <2>6. CASE s = t /\ (Taken(t) \/ Adopt(t))
    BY <1>0, <2>6 DEF Taken, Adopt, Step, TaskType
  <2> QED
    BY <1>6, <2>1, <2>2, <2>3, <2>4, <2>5, <2>6 DEF Continue
<1>7. ASSUME NEW s \in Tasks, LoseTask(s) PROVE Goal
  BY <1>0, <1>4, <1>7 DEF LoseTask
<1>8. CASE UNCHANGED task
  BY <1>1, <1>8
<1>9. ASSUME NEW p \in Orders, Purchase(p) PROVE UNCHANGED task
  BY <1>9 DEF Purchase, Reserve, StartPurchase, Bought, BuyRejected, BuyAmbiguous, BuyUnreadable,
     RecoverRecentBuy, RefundRejected, MarkAmbiguous, Assign, GiveBack
<1> QED
  BY <1>5, <1>6, <1>7, <1>8, <1>9 DEF Next, Lapse, LoseBuyer, SupplierActs, Tick, vars

\* Who has an activation after a step had it before, or a recovery gave it to
\* them, the sweep's or the purchase's own, or the supplier has just sold it to them.
LEMMA Holders ==
    ASSUME NumberOrdersAssumption, TypeInv, [Next]_vars, NEW o \in Orders, NEW a \in Activations,
           Has(o, a)'
    PROVE  \/ Has(o, a)
           \/ \E t \in Tasks : /\ Adopt(t) /\ order' # order /\ UNCHANGED buyer
                              /\ task[t].order = o /\ task[t].pid = a
                              /\ \A p \in Orders \ {o} : order'[p] = order[p]
           \/ ~Sold(a) /\ Sold(a)' /\ \A p \in Orders \ {o} : Has(p, a)' => Has(p, a)
           \/ /\ LooksUp(o) /\ a = latest
              /\ \A p \in Orders \ {o} : Has(p, a)' => Has(p, a)
<1>1. a # NoActivation
  BY DEF NumberOrdersAssumption
<1>2. CASE order'[o].pid = a
  <2>1. CASE order'[o].pid \in {order[o].pid, NoActivation}
    BY <1>1, <1>2, <2>1 DEF Has
  <2>2. CASE buyer[o].pc = "assign" /\ order'[o].pid = buyer[o].act
    BY <1>2, <2>2 DEF Has
  <2>3. ASSUME NEW t \in Tasks, Adopt(t), order' # order, task[t].order = o,
               order'[o].pid = task[t].pid
        PROVE  /\ UNCHANGED buyer
               /\ \A p \in Orders \ {o} : order'[p] = order[p]
    BY <2>3 DEF Adopt, Write, TypeInv, TypeOK
  <2> QED
    BY <1>2, <2>1, <2>2, <2>3, PidSteps
<1>3. CASE buyer'[o].pc = "assign" /\ buyer'[o].act = a
  <2>1. CASE buyer'[o] = buyer[o]
    BY <1>3, <2>1 DEF Has
  <2>2. CASE /\ ~Sold(a) /\ Sold(a)' /\ UNCHANGED <<order, task>>
             /\ \A p \in Orders \ {o} : buyer'[p] = buyer[p]
    BY <2>2 DEF Has
  <2>3. CASE /\ RecoverRecentBuy(o) /\ a = latest
             /\ \A p \in Orders \ {o} : buyer'[p] = buyer[p]
    BY <1>3, <2>3 DEF Has, RecoverRecentBuy, LooksUp
  <2> QED
    BY <1>3, <2>1, <2>2, <2>3, BuyerSteps
<1> QED
  BY <1>2, <1>3 DEF Has

LEMMA HeldStep ==
    ASSUME NumberOrdersAssumption, TypeInv, HeldInv, [Next]_vars,
           \A t \in Tasks : Adopt(t) /\ order' # order => Unshared(t),
           \A o \in Orders : LooksUp(o) => NewestUnshared(o)
    PROVE  HeldInv'
<1>1. latest' # NoActivation => Sold(latest)'
  BY SalesStand
<1>2. ASSUME NEW t \in Tasks, task'[t].pc \in {"taken", "adopt"}
      PROVE  \E a \in Activations : a = task'[t].pid /\ Sold(a)'
  <2>1. PICK a \in Activations : a = task'[t].pid /\ Sold(a)
    BY <1>2, TasksRecover DEF HeldInv, Sold
  <2> QED
    BY <2>1, SalesStand
<1>3. ASSUME NEW o \in Orders, NEW a \in Activations, Has(o, a)' PROVE Sold(a)'
  <2>1. CASE Has(o, a)
    BY <2>1, SalesStand DEF HeldInv
  <2>2. ASSUME NEW t \in Tasks, Adopt(t), task[t].pid = a PROVE Sold(a)'
    <3>1. Sold(a)
      BY <2>2 DEF HeldInv, Adopt
    <3> QED
      BY <3>1, SalesStand
  <2>3. CASE a = latest
    BY <1>1, <2>3, SalesStand DEF HeldInv, Sold
  <2> QED
    BY <1>3, <2>1, <2>2, <2>3, Holders
<1>4. ASSUME NEW o \in Orders, NEW p \in Orders, NEW a \in Activations,
             Has(o, a)', Has(p, a)', o # p
      PROVE  FALSE
  <2>1. ASSUME NEW q \in Orders, NEW r \in Orders, q # r, Has(q, a)', Has(r, a)',
               NEW t \in Tasks, Adopt(t), order' # order, UNCHANGED buyer,
               task[t].order = q, task[t].pid = a, \A s \in Orders \ {q} : order'[s] = order[s]
        PROVE  FALSE
    <3>1. Has(r, a)
      BY <2>1 DEF Has
    <3> QED
      BY <2>1, <3>1 DEF Unshared
  <2>2. ASSUME NEW q \in Orders, NEW r \in Orders, q # r, Has(r, a)', ~Sold(a),
               \A s \in Orders \ {q} : Has(s, a)' => Has(s, a)
        PROVE  FALSE
    BY <2>2 DEF HeldInv
  <2>3. ASSUME NEW q \in Orders, NEW r \in Orders, q # r, Has(r, a)', LooksUp(q),
               a = latest, \A s \in Orders \ {q} : Has(s, a)' => Has(s, a)
        PROVE  FALSE
    BY <2>3 DEF NewestUnshared
  <2>4. Has(o, a) /\ Has(p, a)
    BY <1>4, <2>1, <2>2, <2>3, Holders
  <2> QED
    BY <1>4, <2>4 DEF HeldInv
<1> QED
  BY <1>1, <1>2, <1>3, <1>4 DEF HeldInv, Sold

\* number_orders.provider_order_id: an activation serves one order, if neither
\* recovery, the sweep's or that of a purchase answered unreadably, takes from
\* the supplier's history one that another order has or its buyer is about to
\* record.  The supplier sells each activation once, and no other handler gives
\* an order an activation.
THEOREM SharedByRecoveryOnly ==
    Spec /\ AdoptsUnshared /\ LooksUpUnshared => []ActivationServesOneOrder
<1> USE NumberOrdersAssumption
<1>1. Init => HeldInv
  BY HeldStart
<1>2. TypeInv /\ HeldInv /\ [Next]_vars
      /\ [\A t \in Tasks : Adopt(t) /\ order' # order => Unshared(t)]_vars
      /\ [\A o \in Orders : LooksUp(o) => NewestUnshared(o)]_vars => HeldInv'
  <2>1. ASSUME UNCHANGED vars PROVE UNCHANGED <<order, buyer>>
    BY <2>1 DEF vars
  <2>2. ASSUME UNCHANGED <<order, buyer>>
        PROVE  /\ \A t \in Tasks : Adopt(t) /\ order' # order => Unshared(t)
               /\ \A o \in Orders : ~LooksUp(o)
    BY <2>2 DEF LooksUp, RecoverRecentBuy
  <2> QED
    BY <2>1, <2>2, HeldStep
<1>3. TypeInv /\ HeldInv => ActivationServesOneOrder
  <2> SUFFICES ASSUME TypeInv, HeldInv PROVE ActivationServesOneOrder
    OBVIOUS
  <2>1. \A o \in Orders : order[o].pid \in Activations \/ order[o].pid = NoActivation
    BY RowKnown
  <2> QED
    BY <2>1 DEF HeldInv, ActivationServesOneOrder, Has
<1> QED
  BY <1>1, <1>2, <1>3, TypeCorrect, PTL DEF Spec, AdoptsUnshared, LooksUpUnshared, TypeInv

===============================================================================
