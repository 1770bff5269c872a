---------------------------- MODULE NumberOrders ----------------------------
(***************************************************************************)
(* The life of virtual-number orders: the purchase handler (create_order), *)
(* the reconciler's workers, the customer's poll and cancel, and the       *)
(* operator's recheck and refund, all writing the same number_orders row   *)
(* and the same ledger.  Every action is what one handler does between two *)
(* awaits on the outside world; a database transaction is one action.      *)
(*                                                                         *)
(* A writer either holds the row's claim (a token with a 60 second lease)  *)
(* or, on the customer's poll, none at all.  A lease lapses whenever its   *)
(* holder is slow, and any handler may be dropped between two steps.       *)
(***************************************************************************)
EXTENDS NumberSupplier, FiniteSetsExt

CONSTANTS Orders,           \* purchases: one per (user, Idempotency-Key)
          Users, Owner,     \* the customer of each order
          Price,            \* price_ngn of each order
          Funds,            \* each customer's naira balance at the start
          Tasks,            \* handlers and reconciler workers, one order each
          Jobs,             \* what they may be asked to do
          None,             \* SQL NULL, for claims and for no order
          MaxTime,          \* bound: the last instant of the coarse clock
          HoldTime,             \* how long the supplier holds a number
          ConfirmBy,        \* the 20 minutes an unknown purchase may wait
          Misheard,         \* bound: orders whose purchase may be answered unreadably
          MaxCrashes        \* bound: handlers and workers that may be lost

JobKinds == {"reconcile", "poll", "cancel", "recheck", "refund"}

ASSUME NumberOrdersAssumption ==
    /\ Owner \in [Orders -> Users]
    /\ Price \in [Orders -> Nat \ {0}]
    /\ Funds \in [Users -> Nat]
    /\ Jobs \subseteq JobKinds
    /\ Misheard \subseteq Orders
    /\ None \notin Orders \cup Tasks
    /\ NoActivation \notin Activations
    /\ Orders \cap Tasks = {}
    /\ MaxTime \in Nat /\ HoldTime \in Nat \ {0} /\ ConfirmBy \in Nat
    /\ MaxCrashes \in Nat

VARIABLES order,            \* the number_orders rows, with their inbox
          buyer,            \* the create_order call of each order
          task,             \* every other handler or worker
          posted,           \* ledger_journals, by idempotency key
          balance,          \* user_ngn of each customer
          payable,          \* number_payable_pending
          revenue,          \* number_revenue
          now,              \* a coarse clock
          crashes

ledger == <<posted, balance, payable, revenue>>
vars   == <<supplierVars, order, buyer, task, ledger, now, crashes>>

MoneyOpen == {"reserved", "awaiting_code", "review_required"}
Refunded  == {"expired", "cancelled", "failed"}
Statuses  == {"none", "delivered"} \cup MoneyOpen \cup Refunded

\* review_reason and failure_reason, as far as the code branches on them or
\* a property reads them.
Reviews  == {"none", "purchase_unknown", "without_code"}
Failures == {"none", "not_started", "rejected", "unconfirmed", "expired",
             "cancelled", "operator"}

NoRow == [status |-> "none", pid |-> NoActivation, claim |-> None, live |-> FALSE,
          started |-> FALSE, created |-> 0, expiry |-> 0, open |-> FALSE,
          inbox |-> {}, review |-> "none", why |-> "none"]

Idle == [pc |-> "idle", job |-> "poll", then |-> "check", order |-> None,
         pid |-> NoActivation, claimed |-> FALSE, delivered |-> FALSE,
         lapsed |-> FALSE, expiry |-> 0, ans |-> ClosedAnswer]

RowType == [status : Statuses, pid : Activations \cup {NoActivation},
            claim : Orders \cup Tasks \cup {None}, live : BOOLEAN,
            started : BOOLEAN, created : Nat, expiry : Nat, open : BOOLEAN,
            inbox : SUBSET Sms, review : Reviews, why : Failures]

BuyerType == [pc : {"idle", "reserved", "buying", "lookup", "rejected", "ambiguous", "assign",
                    "giveback", "done"},
              act : Activations \cup {NoActivation}]

TaskType == [pc : {"idle", "claim", "refund", "mark", "check", "handback", "apply",
                   "recover", "taken", "adopt", "unconfirmed"},
             job : JobKinds, then : {"refund", "mark", "check"},
             order : Orders \cup {None}, pid : Activations \cup {NoActivation},
             claimed : BOOLEAN, delivered : BOOLEAN, lapsed : BOOLEAN,
             expiry : Nat, ans : Answers]

Keys == Orders \X {"reserve", "settle", "refund"}

TypeOK ==
    /\ SupplierTypeOK
    /\ order \in [Orders -> RowType]
    /\ buyer \in [Orders -> BuyerType]
    /\ task \in [Tasks -> TaskType]
    /\ posted \in SUBSET Keys
    /\ balance \in [Users -> Int]
    /\ payable \in Int /\ revenue \in Int
    /\ now \in Nat /\ crashes \in Nat

Init ==
    /\ SupplierInit
    /\ order = [o \in Orders |-> NoRow]
    /\ buyer = [o \in Orders |-> [pc |-> "idle", act |-> NoActivation]]
    /\ task = [t \in Tasks |-> Idle]
    /\ posted = {}
    /\ balance = Funds
    /\ payable = 0 /\ revenue = 0
    /\ now = 1 /\ crashes = 0

-----------------------------------------------------------------------------
(* The ledger: a journal is written at most once per idempotency key.      *)

Post(key, newBalance, newPayable, newRevenue) ==
    IF key \in posted
    THEN UNCHANGED ledger
    ELSE /\ posted' = posted \cup {key}
         /\ balance' = newBalance
         /\ payable' = newPayable
         /\ revenue' = newRevenue

PostReserve(o) ==
    Post(<<o, "reserve">>, [balance EXCEPT ![Owner[o]] = @ - Price[o]],
         payable + Price[o], revenue)

PostSettle(o) ==
    Post(<<o, "settle">>, balance, payable - Price[o], revenue + Price[o])

\* Mutant: the customer is credited and nothing is released.
PostRefundOneLeg(o) ==
    Post(<<o, "refund">>, [balance EXCEPT ![Owner[o]] = @ + Price[o]], payable, revenue)

PostRefund(o) ==
    Post(<<o, "refund">>, [balance EXCEPT ![Owner[o]] = @ + Price[o]],
         payable - Price[o], revenue)

-----------------------------------------------------------------------------
(* The row: claims and transitions.                                        *)

Write(o, row)   == order' = [order EXCEPT ![o] = row]
Unclaimed(row)  == [row EXCEPT !.claim = None, !.live = FALSE]
ClaimedBy(row, who) == [row EXCEPT !.claim = who, !.live = TRUE]

\* The token stored in the row is this one and its lease has not lapsed.
Current(o, who) == order[o].claim = who /\ order[o].live

Past(expiry) == expiry # 0 /\ expiry <= now

Later(a, b) == IF b > a THEN b ELSE a

\* UPDATE ... SET reconcile_claim_token = NULL WHERE reconcile_claim_token = $2
Release(o, who) ==
    Write(o, IF order[o].claim = who THEN Unclaimed(order[o]) ELSE order[o])

SettleOpen(o, row, stay) ==
    /\ PostSettle(o)
    /\ Write(o, [Unclaimed(row) EXCEPT !.status = "delivered", !.open = stay])

RefundOpen(o, row, status, why) ==
    /\ PostRefund(o)
    /\ Write(o, [Unclaimed(row) EXCEPT !.status = status, !.why = why, !.open = FALSE])

ReviewOpen(o, row) ==
    /\ Write(o, [Unclaimed(row) EXCEPT !.status = "review_required",
                                       !.review = "without_code", !.open = FALSE])
    /\ UNCHANGED ledger

ScheduleOpen(o, row, open) ==
    /\ Write(o, [Unclaimed(row) EXCEPT !.open = open])
    /\ UNCHANGED ledger

\* apply_claimed with a Refund: a lost claim is a Conflict, an order that no
\* longer holds money is AlreadyTerminal, and neither changes anything.
ApplyRefund(o, who, status, why) ==
    \/ /\ Current(o, who) /\ order[o].status \in MoneyOpen
       /\ RefundOpen(o, order[o], status, why)
    \/ /\ ~(Current(o, who) /\ order[o].status \in MoneyOpen)
       /\ UNCHANGED <<order, ledger>>

\* Mutant: whether the inbox is empty is read off the answer, not the table.
ApplyCheckAnswerOnly(o, who, claimed, ans) ==
    LET held == (claimed => Current(o, who)) /\ order[o].status \in MoneyOpen
        row  == [order[o] EXCEPT !.expiry = Later(@, ans.until), !.inbox = @ \cup ans.sms]
        stay == ~ans.closed /\ ~Past(row.expiry)
    IN \/ held /\ "code" \in ans.sms /\ SettleOpen(o, row, stay)
       \/ held /\ stay /\ "code" \notin ans.sms /\ ScheduleOpen(o, row, TRUE)
       \/ held /\ ~stay /\ ans.sms = {"text"} /\ ReviewOpen(o, row)
       \/ held /\ ~stay /\ ans.sms = {} /\ RefundOpen(o, row, "expired", "expired")
       \/ ~held /\ UNCHANGED <<order, ledger>>

\* Mutant: a late answer is applied to an order that was refunded meanwhile.
ApplyCheckLate(o, who, claimed, ans) ==
    LET row == [order[o] EXCEPT !.inbox = @ \cup ans.sms]
    IN /\ claimed => Current(o, who)
       /\ IF "code" \in row.inbox THEN SettleOpen(o, row, ~ans.closed)
          ELSE ScheduleOpen(o, row, ~ans.closed)

\* apply_check: one supplier answer applied under the row lock.  The customer's
\* poll passes no claim, and then none is checked.
ApplyCheck(o, who, claimed, ans) ==
    LET accepted == /\ claimed => Current(o, who)
                    /\ order[o].status \notin Refunded
        row  == [order[o] EXCEPT !.expiry = Later(@, ans.until),
                                 !.inbox = @ \cup ans.sms]
        stay == ~ans.closed /\ ~Past(row.expiry)
        held == accepted /\ row.status \in MoneyOpen
    IN \/ held /\ "code" \in row.inbox /\ SettleOpen(o, row, stay)
       \/ /\ held /\ "code" \notin row.inbox
          /\ \/ stay /\ ScheduleOpen(o, row, TRUE)
             \/ ~stay /\ row.inbox # {} /\ ReviewOpen(o, row)
             \/ ~stay /\ row.inbox = {} /\ RefundOpen(o, row, "expired", "expired")
       \/ accepted /\ row.status = "delivered" /\ ScheduleOpen(o, row, stay)
       \/ ~accepted /\ UNCHANGED <<order, ledger>>

\* Mutant: the claim is not compared.
MarkReviewUnclaimed(o, who) ==
    \/ /\ order[o].status \in {"reserved", "awaiting_code"}
       /\ Write(o, [Unclaimed(order[o]) EXCEPT !.status = "review_required",
                                               !.review = "purchase_unknown"])
    \/ order[o].status \notin {"reserved", "awaiting_code"} /\ UNCHANGED order

\* mark_review_required: fence an order whose purchase may or may not exist.
MarkReview(o, who) ==
    \/ /\ Current(o, who) /\ order[o].status \in {"reserved", "awaiting_code"}
       /\ Write(o, [Unclaimed(order[o]) EXCEPT !.status = "review_required",
                                               !.review = "purchase_unknown"])
    \/ /\ ~(Current(o, who) /\ order[o].status \in {"reserved", "awaiting_code"})
       /\ UNCHANGED order

\* The row once a supplier's activation is recorded on it.
Assigned(row, a) ==
    [Unclaimed(row) EXCEPT !.status = "awaiting_code", !.pid = a,
                           !.expiry = supplier[a].until, !.open = TRUE]

-----------------------------------------------------------------------------
(* create_order: reserve, take the claim, buy, assign.                     *)

BuyerAt(o, from, to) ==
    /\ buyer[o].pc = from
    /\ buyer' = [buyer EXCEPT ![o].pc = to]

\* Mutant: the balance was looked at before the row was locked.
ReserveUnchecked(o) ==
    /\ BuyerAt(o, "idle", "reserved")
    /\ order[o].status = "none"
    /\ now + ConfirmBy < MaxTime
    /\ PostReserve(o)
    /\ Write(o, [NoRow EXCEPT !.status = "reserved", !.created = now])
    /\ UNCHANGED <<supplierVars, task, now, crashes>>

\* One transaction under FOR UPDATE on the customer's naira account.  The
\* clock bound leaves every order time to run its course.
Reserve(o) ==
    /\ BuyerAt(o, "idle", "reserved")
    /\ order[o].status = "none"
    /\ now + ConfirmBy < MaxTime
    /\ Price[o] <= balance[Owner[o]]
    /\ PostReserve(o)
    /\ Write(o, [NoRow EXCEPT !.status = "reserved", !.created = now])
    /\ UNCHANGED <<supplierVars, task, now, crashes>>

StartPurchase(o) ==
    /\ \/ /\ BuyerAt(o, "reserved", "buying")
          /\ order[o].status = "reserved" /\ ~order[o].started /\ ~order[o].live
          /\ Write(o, [ClaimedBy(order[o], o) EXCEPT !.started = TRUE])
       \/ /\ BuyerAt(o, "reserved", "done")
          /\ ~(order[o].status = "reserved" /\ ~order[o].started /\ ~order[o].live)
          /\ UNCHANGED order
    /\ UNCHANGED <<supplierVars, task, ledger, now, crashes>>

HoldUntil == IF now + HoldTime < MaxTime THEN now + HoldTime ELSE MaxTime

Bought(o) ==
    /\ buyer[o].pc = "buying"
    /\ \E a \in Activations :
          /\ Sell(a, HoldUntil)
          /\ buyer' = [buyer EXCEPT ![o] = [pc |-> "assign", act |-> a]]
    /\ UNCHANGED <<order, task, ledger, now, crashes>>

\* Every source refused, or one refused in a way that ends the loop.
BuyRejected(o) ==
    /\ BuyerAt(o, "buying", "rejected")
    /\ UNCHANGED <<supplierVars, order, task, ledger, now, crashes>>

\* A timeout or a server error: the supplier may have sold the number.
BuyAmbiguous(o) ==
    /\ BuyerAt(o, "buying", "ambiguous")
    /\ (\E a \in Activations : Sell(a, HoldUntil)) \/ UNCHANGED supplierVars
    /\ UNCHANGED <<order, task, ledger, now, crashes>>

\* An answer without an order in it, or an order without its identifier or phone.
BuyUnreadable(o) ==
    /\ o \in Misheard
    /\ BuyerAt(o, "buying", "lookup")
    /\ (\E a \in Activations : Sell(a, HoldUntil)) \/ UNCHANGED supplierVars
    /\ UNCHANGED <<order, task, ledger, now, crashes>>

\* purchase goes on to recover_recent_buy: the newest of the supplier's history
\* is the number bought, whichever order it is of.
RecoverRecentBuy(o) ==
    /\ buyer[o].pc = "lookup"
    /\ \E a \in Recoverable :
          buyer' = [buyer EXCEPT ![o] = [pc |-> IF a = NoActivation THEN "ambiguous" ELSE "assign",
                                         act |-> a]]
    /\ UNCHANGED <<supplierVars, order, task, ledger, now, crashes>>

RefundRejected(o) ==
    /\ BuyerAt(o, "rejected", "done")
    /\ ApplyRefund(o, o, "failed", "rejected")
    /\ UNCHANGED <<supplierVars, task, now, crashes>>

MarkAmbiguous(o) ==
    /\ BuyerAt(o, "ambiguous", "done")
    /\ MarkReview(o, o)
    /\ UNCHANGED <<supplierVars, task, ledger, now, crashes>>

Assign(o) ==
    /\ \/ /\ BuyerAt(o, "assign", "done")
          /\ order[o].status = "reserved" /\ Current(o, o)
          /\ Write(o, Assigned(order[o], buyer[o].act))
       \/ /\ BuyerAt(o, "assign", "giveback")
          /\ ~(order[o].status = "reserved" /\ Current(o, o))
          /\ UNCHANGED order
    /\ UNCHANGED <<supplierVars, task, ledger, now, crashes>>

\* The claim was lost while buying: hand the number back, best effort.
GiveBack(o) ==
    /\ BuyerAt(o, "giveback", "done")
    /\ CancelHonoured(buyer[o].act) \/ CancelRefused
    /\ UNCHANGED <<order, task, ledger, now, crashes>>

-----------------------------------------------------------------------------
(* Every other handler.  A task remembers what it read when it began; its  *)
(* later steps act on that memory.                                         *)

Begin(t, view) == task[t].pc = "idle" /\ task' = [task EXCEPT ![t] = view]
Step(t, pc)    == task' = [task EXCEPT ![t].pc = pc]
Finish(t)      == task' = [task EXCEPT ![t] = Idle]

\* Mutant: no supplier's identifier is taken for no purchase.
NeedsByIdentifier(row) ==
    IF row.status = "reserved" /\ row.pid = NoActivation THEN "refund" ELSE "check"

\* What a reserved order needs, or a supplier check for any other.
Needs(row) ==
    CASE row.status = "reserved" /\ ~row.started -> "refund"
      [] row.status = "reserved" /\ row.started /\ row.pid = NoActivation -> "mark"
      [] OTHER -> "check"

\* Mutants: the sweep forgets unknown purchases, or delivered numbers.
DueWithoutUnknown(row) ==
    \/ row.status \in {"reserved", "awaiting_code"}
    \/ row.status = "delivered" /\ row.open

DueWithoutDelivered(row) ==
    \/ row.status \in {"reserved", "awaiting_code"}
    \/ /\ row.status = "review_required" /\ row.pid = NoActivation
       /\ row.review = "purchase_unknown"

Due(row) ==
    \/ row.status \in {"reserved", "awaiting_code"}
    \/ row.status = "delivered" /\ row.open
    \/ /\ row.status = "review_required" /\ row.pid = NoActivation
       /\ row.review = "purchase_unknown"

\* The sweep claims and reads the row in one statement.
Sweep(t, o) ==
    /\ "reconcile" \in Jobs
    /\ Due(order[o]) /\ ~order[o].live
    /\ Write(o, ClaimedBy(order[o], t))
    /\ Begin(t, [Idle EXCEPT
          !.pc = IF order[o].status = "review_required" THEN "recover" ELSE Needs(order[o]),
          !.job = "reconcile", !.order = o, !.pid = order[o].pid, !.claimed = TRUE,
          !.delivered = order[o].status = "delivered", !.lapsed = Past(order[o].expiry)])
    /\ UNCHANGED <<supplierVars, buyer, ledger, now, crashes>>

\* get_order, and a cancel that finds a message already: check with no claim.
Poll(t, o) ==
    /\ \/ "poll" \in Jobs
       \/ "cancel" \in Jobs /\ order[o].inbox # {}
    /\ order[o].status \in {"reserved", "awaiting_code"}
    /\ order[o].pid # NoActivation
    /\ Begin(t, [Idle EXCEPT !.pc = "check", !.order = o, !.pid = order[o].pid])
    /\ UNCHANGED <<supplierVars, order, buyer, ledger, now, crashes>>

Cancel(t, o) ==
    /\ "cancel" \in Jobs
    /\ order[o].status \in {"reserved", "awaiting_code"}
    /\ order[o].inbox = {}
    /\ Begin(t, [Idle EXCEPT !.pc = "claim", !.job = "cancel", !.order = o,
          !.pid = order[o].pid,
          !.then = IF order[o].pid = NoActivation THEN "refund" ELSE "check"])
    /\ UNCHANGED <<supplierVars, order, buyer, ledger, now, crashes>>

\* Mutant: an unknown purchase is rechecked like any other order.
RecheckUnknown(t, o) ==
    /\ "recheck" \in Jobs
    /\ order[o].status \in MoneyOpen
    /\ Begin(t, [Idle EXCEPT !.pc = "claim", !.job = "recheck", !.order = o,
          !.pid = order[o].pid, !.expiry = order[o].expiry, !.then = Needs(order[o])])
    /\ UNCHANGED <<supplierVars, order, buyer, ledger, now, crashes>>

Recheck(t, o) ==
    /\ "recheck" \in Jobs
    /\ order[o].status \in MoneyOpen
    /\ ~(order[o].status = "review_required" /\ order[o].pid = NoActivation)
    /\ Begin(t, [Idle EXCEPT !.pc = "claim", !.job = "recheck", !.order = o,
          !.pid = order[o].pid, !.expiry = order[o].expiry, !.then = Needs(order[o])])
    /\ UNCHANGED <<supplierVars, order, buyer, ledger, now, crashes>>

OperatorRefund(t, o) ==
    /\ "refund" \in Jobs
    /\ order[o].status \in MoneyOpen
    /\ Begin(t, [Idle EXCEPT !.pc = "claim", !.job = "refund", !.order = o,
          !.then = "refund"])
    /\ UNCHANGED <<supplierVars, order, buyer, ledger, now, crashes>>

\* try_claim_order for the customer, try_claim_held_order for the operator.
Claimable(job) ==
    IF job = "cancel" THEN {"reserved", "awaiting_code"} ELSE MoneyOpen

\* Mutant: a claim is taken over while its lease is live.
TryClaimAnyway(t) ==
    /\ task[t].pc = "claim"
    /\ LET o == task[t].order
           free == order[o].status \in Claimable(task[t].job)
       IN \/ /\ free
             /\ Write(o, ClaimedBy(order[o], t))
             /\ task' = [task EXCEPT ![t].pc = task[t].then, ![t].claimed = TRUE]
          \/ ~free /\ UNCHANGED order /\ Finish(t)
    /\ UNCHANGED <<supplierVars, buyer, ledger, now, crashes>>

TryClaim(t) ==
    /\ task[t].pc = "claim"
    /\ LET o == task[t].order
           free == order[o].status \in Claimable(task[t].job) /\ ~order[o].live
       IN \/ /\ free
             /\ Write(o, ClaimedBy(order[o], t))
             /\ task' = [task EXCEPT ![t].pc = task[t].then, ![t].claimed = TRUE]
          \/ ~free /\ UNCHANGED order /\ Finish(t)
    /\ UNCHANGED <<supplierVars, buyer, ledger, now, crashes>>

RefundClaimed(t) ==
    /\ task[t].pc = "refund"
    /\ \/ /\ task[t].job \in {"reconcile", "recheck"}
          /\ ApplyRefund(task[t].order, t, "failed", "not_started")
       \/ /\ task[t].job = "cancel"
          /\ ApplyRefund(task[t].order, t, "cancelled", "cancelled")
       \/ /\ task[t].job = "refund"
          /\ ApplyRefund(task[t].order, t, "cancelled", "operator")
    /\ Finish(t)
    /\ UNCHANGED <<supplierVars, buyer, now, crashes>>

MarkUnknown(t) ==
    /\ task[t].pc = "mark"
    /\ MarkReview(task[t].order, t)
    /\ Finish(t)
    /\ UNCHANGED <<supplierVars, buyer, ledger, now, crashes>>

\* All ten provider slots are taken: put the order back for a second.
CheckBusy(t) ==
    /\ task[t].pc = "check" /\ task[t].job \in {"reconcile", "recheck"}
    /\ task[t].claimed
    /\ Release(task[t].order, t)
    /\ Finish(t)
    /\ UNCHANGED <<supplierVars, buyer, ledger, now, crashes>>

CheckAnswers(t) ==
    /\ task[t].pc = "check"
    /\ LET ans == Answer(task[t].pid)
           over == ans.closed \/ task[t].lapsed \/ Past(task[t].expiry)
           handback ==
              \/ task[t].job \in {"reconcile", "recheck"} /\ task[t].claimed /\ over
              \/ task[t].job = "cancel" /\ ~ans.closed
       IN task' = [task EXCEPT ![t].ans = ans,
                     ![t].pc = IF ans.sms = {} /\ handback THEN "handback" ELSE "apply"]
    /\ UNCHANGED <<supplierVars, order, buyer, ledger, now, crashes>>

CheckFails(t) ==
    /\ task[t].pc = "check"
    /\ \/ /\ task[t].delivered /\ task[t].lapsed
          /\ task' = [task EXCEPT ![t].ans = ClosedAnswer, ![t].pc = "apply"]
          /\ UNCHANGED order
       \/ /\ ~(task[t].delivered /\ task[t].lapsed)
          /\ IF task[t].claimed THEN Release(task[t].order, t) ELSE UNCHANGED order
          /\ Finish(t)
    /\ UNCHANGED <<supplierVars, buyer, ledger, now, crashes>>

\* cancel_for.  Only the customer's cancel depends on the supplier's answer.
HandBack(t) ==
    /\ task[t].pc = "handback"
    /\ \/ /\ task[t].job # "cancel"
          /\ CancelHonoured(task[t].pid) \/ CancelRefused
          /\ Step(t, "apply") /\ UNCHANGED order
       \/ /\ task[t].job = "cancel" /\ CancelHonoured(task[t].pid)
          /\ Step(t, "refund") /\ UNCHANGED order
       \/ /\ task[t].job = "cancel" /\ CancelRefused
          /\ Release(task[t].order, t) /\ Finish(t)
    /\ UNCHANGED <<buyer, ledger, now, crashes>>

Apply(t) ==
    /\ task[t].pc = "apply"
    /\ ApplyCheck(task[t].order, t, task[t].claimed, task[t].ans)
    /\ Finish(t)
    /\ UNCHANGED <<supplierVars, buyer, now, crashes>>

-----------------------------------------------------------------------------
(* recover_unknown_purchase: find the activation in the supplier's order   *)
(* history, see that no order has it, and record it.                       *)

Recover(t) ==
    /\ task[t].pc = "recover"
    /\ \E a \in Recoverable :
          task' = [task EXCEPT ![t].pid = a,
                     ![t].pc = IF a = NoActivation THEN "unconfirmed" ELSE "taken"]
    /\ UNCHANGED <<supplierVars, order, buyer, ledger, now, crashes>>

Taken(t) ==
    /\ task[t].pc = "taken"
    /\ IF \E p \in Orders \ {task[t].order} : order[p].pid = task[t].pid
       THEN Step(t, "unconfirmed")
       ELSE Step(t, "adopt")
    /\ UNCHANGED <<supplierVars, order, buyer, ledger, now, crashes>>

\* Only the token is compared here, not its lease.
Adopt(t) ==
    /\ task[t].pc = "adopt"
    /\ LET o == task[t].order
           mine == order[o].status = "review_required" /\ order[o].claim = t
       IN \/ /\ mine
             /\ Write(o, Assigned(order[o], task[t].pid))
             /\ task' = [task EXCEPT ![t].pc = "check", ![t].claimed = FALSE]
          \/ ~mine /\ UNCHANGED order /\ Step(t, "unconfirmed")
    /\ UNCHANGED <<supplierVars, buyer, ledger, now, crashes>>

\* Not found: keep waiting for twenty minutes, then give the money back.
Unconfirmed(t) ==
    /\ task[t].pc = "unconfirmed"
    /\ LET o == task[t].order
       IN \/ /\ now > order[o].created + ConfirmBy
             /\ ApplyRefund(o, t, "failed", "unconfirmed")
          \/ /\ now <= order[o].created + ConfirmBy
             /\ Release(o, t) /\ UNCHANGED ledger
    /\ Finish(t)
    /\ UNCHANGED <<supplierVars, buyer, now, crashes>>

-----------------------------------------------------------------------------
(* Time, leases, the supplier, and lost handlers.                          *)

Lapse(o) ==
    /\ order[o].live
    /\ Write(o, [order[o] EXCEPT !.live = FALSE])
    /\ UNCHANGED <<supplierVars, buyer, task, ledger, now, crashes>>

Tick ==
    /\ now < MaxTime
    /\ now' = now + 1
    /\ UNCHANGED <<supplierVars, order, buyer, task, ledger, crashes>>

SupplierActs(a) ==
    /\ \/ \E m \in Sms : Receive(a, m)
       \/ Close(a)
       \/ Extend(a, MaxTime)
    /\ UNCHANGED <<order, buyer, task, ledger, now, crashes>>

\* The client disconnects or the process restarts: the handler's future is
\* dropped, the database keeps what was committed, claims stay until they lapse.
LoseBuyer(o) ==
    /\ buyer[o].pc \notin {"idle", "done"}
    /\ crashes < MaxCrashes
    /\ crashes' = crashes + 1
    /\ buyer' = [buyer EXCEPT ![o].pc = "done"]
    /\ UNCHANGED <<supplierVars, order, task, ledger, now>>

LoseTask(t) ==
    /\ task[t].pc # "idle"
    /\ crashes < MaxCrashes
    /\ crashes' = crashes + 1
    /\ Finish(t)
    /\ UNCHANGED <<supplierVars, order, buyer, ledger, now>>

-----------------------------------------------------------------------------
Purchase(o) ==
    \/ Reserve(o) \/ StartPurchase(o) \/ Bought(o) \/ BuyRejected(o) \/ BuyAmbiguous(o)
    \/ BuyUnreadable(o) \/ RecoverRecentBuy(o) \/ RefundRejected(o) \/ MarkAmbiguous(o) \/ Assign(o) \/ GiveBack(o)

Request(t, o) ==
    \/ Sweep(t, o) \/ Poll(t, o) \/ Cancel(t, o) \/ Recheck(t, o) \/ OperatorRefund(t, o)

Continue(t) ==
    \/ TryClaim(t) \/ RefundClaimed(t) \/ MarkUnknown(t)
    \/ CheckBusy(t) \/ CheckAnswers(t) \/ CheckFails(t) \/ HandBack(t) \/ Apply(t)
    \/ Recover(t) \/ Taken(t) \/ Adopt(t) \/ Unconfirmed(t)

Next ==
    \/ \E o \in Orders : Purchase(o) \/ Lapse(o) \/ LoseBuyer(o)
    \/ \E t \in Tasks, o \in Orders : Request(t, o)
    \/ \E t \in Tasks : Continue(t) \/ LoseTask(t)
    \/ \E a \in Activations : SupplierActs(a)
    \/ Tick

Spec == Init /\ [][Next]_vars
-----------------------------------------------------------------------------
(* Fairness.  Handlers keep running, leases and holds run out, the sweep   *)
(* comes back to an order it can claim, a supplier that is asked again and *)
(* again answers in the end, and from some time on no worker outlives its  *)
(* lease (a supplier call times out after 20 seconds, a lease after 60).   *)
(* Nothing is assumed of customers, operators, the supplier's decisions or *)
(* the end of a purchase.                                                  *)

Working(t, o) == task[t].claimed /\ task[t].order = o /\ order[o].claim = t

EventuallyTimely ==
    <>[][\A o \in Orders : Lapse(o) => \A t \in Tasks : ~Working(t, o)]_vars

Fairness ==
    /\ WF_vars(Tick)
    /\ \A o \in Orders : WF_vars(Lapse(o)) /\ SF_vars(\E t \in Tasks : Sweep(t, o))
    /\ \A t \in Tasks : WF_vars(Continue(t)) /\ SF_vars(CheckAnswers(t))
    /\ EventuallyTimely

FairSpec == Spec /\ Fairness

-----------------------------------------------------------------------------
(* What must hold.                                                         *)

\* The journals of an order agree with its row: it is reserved once, settled
\* exactly when delivered, refunded exactly when expired, cancelled or failed,
\* whichever handler got there first (apply_check, apply_inner).
JournalsMatchStatus ==
    \A o \in Orders :
        /\ <<o, "reserve">> \in posted <=> order[o].status # "none"
        /\ <<o, "settle">> \in posted <=> order[o].status = "delivered"
        /\ <<o, "refund">> \in posted <=> order[o].status \in Refunded

\* Identifiers are there when they are needed: a handler that asks the supplier
\* or applies its answer knows an activation, and the order it works on has one,
\* however the row changed since it was read.  The internal errors "awaiting order
\* has no provider id" and "delivery has no provider order" are never raised.
TaskKnows(t) ==
    /\ task[t].pc # "idle" =>
          task[t].order \in Orders /\ order[task[t].order].status # "none"
    /\ \/ task[t].pc \in {"check", "handback", "apply"}
       \/ task[t].pc = "claim" /\ task[t].then = "check"
       => task[t].pid \in Activations /\ order[task[t].order].pid \in Activations
    /\ task[t].pc \in {"taken", "adopt"} => task[t].pid \in Activations

OrderKnows(o) ==
    /\ buyer[o].pc \in {"assign", "giveback"} => buyer[o].act \in Activations
    /\ order[o].status \in {"awaiting_code", "delivered"} => order[o].pid \in Activations

IdentifiersKnown == (\A t \in Tasks : TaskKnows(t)) /\ (\A o \in Orders : OrderKnows(o))

PriceOf(os) == MapThenSumSet(LAMBDA o : Price[o], os)

\* number_payable_pending is what the open orders hold, number_revenue what
\* the delivered ones earned, and every customer has the rest: money is
\* neither made nor lost by racing transitions.
MoneyAddsUp ==
    /\ payable = PriceOf({o \in Orders : order[o].status \in MoneyOpen})
    /\ revenue = PriceOf({o \in Orders : order[o].status = "delivered"})
    /\ \A u \in Users :
          balance[u] + PriceOf({o \in Orders : /\ Owner[o] = u
                                               /\ order[o].status \in MoneyOpen \cup {"delivered"}})
             = Funds[u]

\* Two purchases of one customer never spend the same naira: reservations are
\* checked against the balance the earlier ones left (FOR UPDATE in create_order).
NoOverdraft == \A u \in Users : balance[u] >= 0

\* An order is refunded as expired only if its number received nothing at all;
\* with an unreadable SMS in the inbox it goes to review (review_open).
ExpiredInboxEmpty ==
    \A o \in Orders : order[o].status = "expired" => order[o].inbox = {}

\* An order refunded because its purchase never started really never started:
\* no handler can still be buying for it (the claim taken by create_order).
NotStartedIsTrue ==
    \A o \in Orders : order[o].why = "not_started" =>
        ~order[o].started /\ order[o].pid = NoActivation

\* An order under review for an unknown purchase has no activation recorded,
\* so the sweep, which looks for exactly that, still picks it up.
UnknownIsSwept ==
    \A o \in Orders :
        order[o].status = "review_required" /\ order[o].review = "purchase_unknown"
            => order[o].pid = NoActivation

\* One supplier activation is on one order only: a code sent to a number is
\* never shown to, and charged to, two customers (the look-up in
\* recover_unknown_purchase).
ActivationServesOneOrder ==
    \A o, p \in Orders :
        o # p /\ order[o].pid # NoActivation => order[o].pid # order[p].pid

\* While the buyer's lease is live nobody else writes its order: a sweep, a
\* cancel or an operator that overlaps the supplier call leaves it alone.
PurchaseFenced ==
    [][\A o \in Orders :
          /\ buyer[o].pc \in {"buying", "lookup", "rejected", "ambiguous", "assign"}
          /\ Current(o, o)
          /\ buyer'[o] = buyer[o]
          => order'[o] \in {order[o], [order[o] EXCEPT !.live = FALSE]}]_vars

\* A delivered or refunded order stays what it is, whatever a late handler
\* still holds, and its inbox is frozen once the money is back.
TerminalIsFinal ==
    [][\A o \in Orders :
          /\ order[o].status \in Refunded \cup {"delivered"}
                => order'[o].status = order[o].status /\ order'[o].why = order[o].why
          /\ order[o].status \in Refunded => order'[o].inbox = order[o].inbox]_vars

\* Money set aside does not stay in limbo: an order that waits, or whose
\* purchase is unknown, is delivered, refunded or handed to an operator, through
\* lost handlers and lapsed leases.
EventuallyResolved ==
    \A o \in Orders :
        order[o].status \in MoneyOpen ~>
            \/ order[o].status \in Refunded \cup {"delivered"}
            \/ order[o].review = "without_code"

\* A delivered number does not stay open for ever: its hold ends and the sweep
\* closes it.
DeliveredCloses ==
    \A o \in Orders :
        order[o].status = "delivered" ~> order[o].status = "delivered" /\ ~order[o].open

-----------------------------------------------------------------------------
(* The ledger as an escrow.                                                *)

MoneyOf(o) ==
    CASE <<o, "settle">> \in posted -> "earned"
      [] <<o, "refund">> \in posted -> "returned"
      [] <<o, "reserve">> \in posted /\ {<<o, "settle">>, <<o, "refund">>} \cap posted = {} -> "held"
      [] OTHER -> "customer"

E == INSTANCE Escrow WITH Items <- Orders, money <- [o \in Orders |-> MoneyOf(o)]

\* Each order's money follows the escrow: held once, then earned or returned.
ImplementsEscrow == E!Spec
=============================================================================
