---------------------------- MODULE NairaAccount ----------------------------
(***************************************************************************)
(* One customer's naira: top-ups by card (funding_routes.rs,               *)
(* funding_reconciler.rs) put money in, payouts to a bank                  *)
(* (payout_routes.rs) reserve it.  A top-up is a row without a ledger      *)
(* entry until the provider says the charge succeeded; the customer's page *)
(* asks, and so does a sweep that every worker runs on a timer.  Every      *)
(* journal of the program has its idempotency key in one column.           *)
(***************************************************************************)
EXTENDS Integers, FiniteSets, FiniteSetsExt

CONSTANTS Intents,          \* top-ups the customer may start
          Amount,           \* amount_ngn of each
          Keys,             \* ledger_journals.idempotency_key, of every kind of journal
          CreditKey,        \* the key of each top-up: {reference}:credit
          Foreign,          \* keys that other journals of the program may take
          Requests,         \* payouts the customer asks for
          PayoutAmount,     \* amount_ngn of each
          ClientKey,        \* its Idempotency-Key header, as it came
          Cap,              \* KycTier::daily_payout_cap
          Day,              \* the rolling window of payout_usage_24h
          Tasks,            \* request handlers
          Sweeper,          \* the funding reconciler
          None,
          SettleAfter, AbandonAfter, Batch,
          LinkLife,         \* how long the provider's checkout link can be paid
          MaxTime,          \* bound: the clock
          MaxErrors         \* bound: calls to the provider that fail

Askers == Tasks \cup {Sweeper}

ASSUME NairaConstants ==
    /\ Amount \in [Intents -> Nat \ {0}]
    /\ CreditKey \in [Intents -> Keys]
    /\ \A i, j \in Intents : CreditKey[i] = CreditKey[j] => i = j
    /\ Foreign \subseteq Keys
    /\ PayoutAmount \in [Requests -> Nat \ {0}]
    /\ ClientKey \in [Requests -> Keys]
    /\ Cap \in Nat /\ Day \in Nat
    /\ Sweeper \notin Tasks
    /\ None \notin Intents \cup Requests
    /\ SettleAfter \in Nat /\ AbandonAfter \in Nat /\ Batch \in Nat \ {0}
    /\ LinkLife \in Nat /\ MaxTime \in Nat /\ MaxErrors \in Nat

VARIABLES now,
          intents,          \* ngn_deposits
          place,            \* of each in the order of created_at, 0 before
          charge,           \* the provider's side of each
          journals,         \* ledger_journals: the kind of each key's journal
          available,        \* the balance of user_ngn
          payouts,          \* the payouts table, by the key of reserved_journal_id
          asking, heard,    \* settle: the intent a caller asks about, the answer
          sweeping, queue,  \* the sweep's rows
          swept,            \* whether a sweep ended since the last tick
          paying,           \* create_payout between the cap and the lock
          errors

fundingVars == <<intents, place, charge>>
askVars     == <<asking, heard>>
sweepVars   == <<sweeping, queue, swept>>
moneyVars   == <<journals, available>>
vars == <<now, fundingVars, moneyVars, payouts, askVars, sweepVars, paying, errors>>

Times == 0..MaxTime

NoPayout == [amount |-> 0, at |-> 0]

TypeOK ==
    /\ now \in Times
    /\ intents \in [Intents -> [status : {"none", "pending", "succeeded", "failed", "abandoned"},
                                created : Times]]
    /\ place \in [Intents -> 0..Cardinality(Intents)]
    /\ charge \in [Intents -> {"none", "open", "paid", "failed"}]
    /\ journals \in [Keys -> {"none", "credit", "reserve", "other"}]
    /\ available \in Nat
    /\ payouts \in [Keys -> [amount : Nat, at : Times]]
    /\ asking \in [Askers -> Intents \cup {None}]
    /\ heard \in [Askers -> {"nothing", "paid", "failed"}]
    /\ sweeping \in BOOLEAN
    /\ queue \subseteq Intents
    /\ swept \in BOOLEAN
    /\ paying \in [Tasks -> Requests \cup {None}]
    /\ errors \in 0..MaxErrors

Init ==
    /\ now = 0
    /\ intents = [i \in Intents |-> [status |-> "none", created |-> 0]]
    /\ place = [i \in Intents |-> 0]
    /\ charge = [i \in Intents |-> "none"]
    /\ journals = [k \in Keys |-> "none"]
    /\ available = 0
    /\ payouts = [k \in Keys |-> NoPayout]
    /\ asking = [w \in Askers |-> None]
    /\ heard = [w \in Askers |-> "nothing"]
    /\ sweeping = FALSE
    /\ queue = {}
    /\ swept = FALSE
    /\ paying = [t \in Tasks |-> None]
    /\ errors = 0

Idle(t) == asking[t] = None /\ paying[t] = None

Age(i) == now - intents[i].created

Pending(i) == intents[i].status = "pending"

-----------------------------------------------------------------------------
(* Top-ups.                                                                *)

\* create_intent: the row first, then the provider, which may refuse.
CreateIntent(i) ==
    /\ intents[i].status = "none"
    /\ intents' = [intents EXCEPT ![i] = [status |-> "pending", created |-> now]]
    /\ place' = [place EXCEPT ![i] = 1 + Cardinality({j \in Intents : place[j] # 0})]
    /\ charge' \in {charge, [charge EXCEPT ![i] = "open"]}
    /\ UNCHANGED <<now, moneyVars, payouts, askVars, sweepVars, paying, errors>>

\* The payer's card is charged on the provider's page, or declined.
Pay(i) ==
    /\ charge[i] = "open"
    /\ Age(i) <= LinkLife
    /\ \E outcome \in {"paid", "failed"} : charge' = [charge EXCEPT ![i] = outcome]
    /\ UNCHANGED <<now, intents, place, moneyVars, payouts, askVars, sweepVars, paying, errors>>

\* get_intent asks the provider about a row that it read as pending.
Confirm(t, i) ==
    /\ Idle(t)
    /\ Pending(i)
    /\ asking' = [asking EXCEPT ![t] = i]
    /\ UNCHANGED <<now, fundingVars, moneyVars, payouts, heard, sweepVars, paying, errors>>

Done(w) == asking' = [asking EXCEPT ![w] = None] /\ heard' = [heard EXCEPT ![w] = "nothing"]

VerifyStubbed(w) ==
    /\ asking[w] # None
    /\ heard[w] = "nothing"
    /\ heard' = [heard EXCEPT ![w] = "paid"]
    /\ UNCHANGED <<now, fundingVars, moneyVars, payouts, asking, sweepVars, paying, errors>>

\* settle asks; a call that fails leaves the intent open.
Verify(w) ==
    /\ asking[w] # None
    /\ heard[w] = "nothing"
    /\ \/ /\ charge[asking[w]] \in {"paid", "failed"}
          /\ heard' = [heard EXCEPT ![w] = charge[asking[w]]]
          /\ UNCHANGED <<asking, errors>>
       \/ /\ charge[asking[w]] \notin {"paid", "failed"}
          /\ Done(w)
          /\ UNCHANGED errors
       \/ /\ errors < MaxErrors
          /\ errors' = errors + 1
          /\ Done(w)
    /\ UNCHANGED <<now, fundingVars, moneyVars, payouts, sweepVars, paying>>

\* UPDATE ngn_deposits ... WHERE id = $1 AND status = 'pending'.
Close(i, status) ==
    intents' = [intents EXCEPT ![i].status = IF Pending(i) THEN status ELSE @]

CreditAgain(i) ==
    /\ available' = available + Amount[i]
    /\ journals' = [journals EXCEPT ![CreditKey[i]] = "credit"]
    /\ Close(i, "succeeded")

CreditUnposted(i) == Close(i, "succeeded") /\ UNCHANGED moneyVars

\* JournalBuilder::post: a key that has a journal, whatever its kind, is a replay.
Post(k, kind, amount) ==
    \/ /\ journals[k] = "none"
       /\ journals' = [journals EXCEPT ![k] = kind]
       /\ available' = available + amount
    \/ /\ journals[k] # "none"
       /\ UNCHANGED moneyVars

\* credit_deposit: a second credit of one charge is a replay of its journal.
Credit(i) == Post(CreditKey[i], "credit", Amount[i]) /\ Close(i, "succeeded")

\* settle acts on what it heard.
Settle(w) ==
    /\ \/ heard[w] = "paid" /\ Credit(asking[w])
       \/ heard[w] = "failed" /\ Close(asking[w], "failed") /\ UNCHANGED moneyVars
    /\ Done(w)
    /\ UNCHANGED <<now, place, charge, payouts, sweepVars, paying, errors>>

Due(i) == Pending(i) /\ Age(i) > SettleAfter /\ Age(i) < AbandonAfter

\* ORDER BY created_at
Older(i, j) == place[i] < place[j]

\* sweep: the oldest pending rows within the window, a batch of them.
Select ==
    /\ ~sweeping
    /\ sweeping' = TRUE
    /\ queue' = {i \in Intents : Due(i) /\ Cardinality({j \in Intents : Due(j) /\ Older(j, i)}) < Batch}
    /\ UNCHANGED <<now, fundingVars, moneyVars, payouts, askVars, swept, paying, errors>>

\* The next row of the sweep, asked about whatever it has become.
Chase ==
    /\ asking[Sweeper] = None
    /\ \E i \in queue : /\ \A j \in queue : ~Older(j, i)
                       /\ asking' = [asking EXCEPT ![Sweeper] = i]
                       /\ queue' = queue \ {i}
    /\ UNCHANGED <<now, fundingVars, moneyVars, payouts, heard, sweeping, swept, paying, errors>>

ExpiredEarly(i) == Pending(i) /\ Age(i) > SettleAfter

Expired(i) == Pending(i) /\ Age(i) > AbandonAfter

\* The sweep ends by closing what is older than the window.
Abandon ==
    /\ sweeping
    /\ queue = {}
    /\ asking[Sweeper] = None
    /\ sweeping' = FALSE
    /\ swept' = TRUE
    /\ intents' = [i \in Intents |->
                     IF Expired(i) THEN [intents[i] EXCEPT !.status = "abandoned"] ELSE intents[i]]
    /\ UNCHANGED <<now, place, charge, moneyVars, payouts, askVars, queue, paying, errors>>

-----------------------------------------------------------------------------
(* Payouts.                                                                *)

UsedToday == MapThenSumSet(LAMBDA k : payouts[k].amount,
                           {k \in Keys : payouts[k] # NoPayout /\ payouts[k].at > now - Day})

\* create_payout checks the cap before it takes any lock.
CheckPayout(t, r) ==
    /\ Idle(t)
    /\ PayoutAmount[r] <= Cap - UsedToday
    /\ paying' = [paying EXCEPT ![t] = r]
    /\ UNCHANGED <<now, fundingVars, moneyVars, payouts, askVars, sweepVars, errors>>

\* The row of the journal with key k, which is inserted when it has none.
InsertPayout(k, amount) ==
    payouts' = [payouts EXCEPT ![k] = IF @ = NoPayout THEN [amount |-> amount, at |-> now] ELSE @]

\* The reservation: the account locked, the balance, the journal and its row in
\* one transaction.  The journal is a replay if the header's value is a key that
\* any journal has, the payout if that journal has a row.
ReservePayout(t) ==
    LET r == paying[t]
    IN /\ r # None
       /\ paying' = [paying EXCEPT ![t] = None]
       /\ \/ /\ PayoutAmount[r] <= available
             /\ Post(ClientKey[r], "reserve", -PayoutAmount[r])
             /\ InsertPayout(ClientKey[r], PayoutAmount[r])
          \/ /\ PayoutAmount[r] > available
             /\ UNCHANGED <<moneyVars, payouts>>
       /\ UNCHANGED <<now, fundingVars, askVars, sweepVars, errors>>

\* Another part of the program posts a journal that has no payout and leaves this
\* balance alone.
PostElsewhere(k) ==
    /\ journals[k] = "none"
    /\ journals' = [journals EXCEPT ![k] = "other"]
    /\ UNCHANGED <<now, fundingVars, available, payouts, askVars, sweepVars, paying, errors>>

-----------------------------------------------------------------------------
\* A handler is dropped with its connection, between any two statements.
Drop(t) ==
    /\ ~Idle(t)
    /\ Done(t)
    /\ paying' = [paying EXCEPT ![t] = None]
    /\ UNCHANGED <<now, fundingVars, moneyVars, payouts, sweepVars, errors>>

\* Time: a tick is hours, a sweep minutes, so one ends in every tick.
Tick ==
    /\ now < MaxTime
    /\ swept /\ ~sweeping
    /\ now' = now + 1
    /\ swept' = FALSE
    /\ UNCHANGED <<fundingVars, moneyVars, payouts, askVars, sweeping, queue, paying, errors>>

SweepStep ==
    \/ Select
    \/ Chase
    \/ Verify(Sweeper)
    \/ Settle(Sweeper)
    \/ Abandon

Next ==
    \/ \E i \in Intents : CreateIntent(i) \/ Pay(i)
    \/ \E t \in Tasks, i \in Intents : Confirm(t, i)
    \/ \E t \in Tasks : Verify(t) \/ Settle(t) \/ Drop(t)
    \/ \E t \in Tasks, r \in Requests : CheckPayout(t, r)
    \/ \E k \in Foreign : PostElsewhere(k)
    \/ \E t \in Tasks : ReservePayout(t)
    \/ SweepStep
    \/ Tick

Spec == Init /\ [][Next]_vars

\* The sweep runs on a timer of every worker and time passes; customers, payers
\* and their handlers owe nothing.
FairSpec == Spec /\ WF_vars(SweepStep) /\ SF_vars(Tick)

-----------------------------------------------------------------------------
(* Properties.                                                             *)

SumOver(f, S) == MapThenSumSet(LAMBDA x : f[x], S)

\* The kind of a top-up's journal says that its money was added.
Credited(i) == journals[CreditKey[i]] = "credit"

Reserved == {k \in Keys : journals[k] = "reserve"}

\* The balance is every charge that was credited, once, less every payout that
\* has a reservation of its own, once, however many handlers and sweeps saw the
\* same charge, however often a payout was sent again and whatever amount it was
\* sent with, and no two payouts overdraw it; a payout's row without a
\* reservation is under the journal of something else, whose key the client sent
\* (credit_deposit, create_payout).
BalanceAddsUp ==
    /\ available >= 0
    /\ available = SumOver(Amount, {i \in Intents : Credited(i)})
                   - SumOver([k \in Keys |-> payouts[k].amount], Reserved)
    /\ \A k \in Keys : /\ k \in Reserved => payouts[k] # NoPayout
                       /\ payouts[k] # NoPayout /\ k \notin Reserved => journals[k] \in {"credit", "other"}

\* Money is credited for a charge the provider took and for no other.
CreditedWasCharged == \A i \in Intents : Credited(i) => charge[i] = "paid"

\* A top-up closed as abandoned was never paid ("abandoned top-ups that were
\* never paid", funding_reconciler.rs).
AbandonedWasNotPaid ==
    \A i \in Intents : intents[i].status = "abandoned" /\ ~Credited(i) => charge[i] # "paid"

\* Keys that only the top-up with this key uses.
OwnKey(i) == CreditKey[i] \notin Foreign /\ \A r \in Requests : ClientKey[r] # CreditKey[i]

\* A charge the provider took is credited in the end, whether or not anyone is
\* looking at the page (NUMBERS.md section 2).  A top-up whose window ends after
\* the clock of the instance stops is left out, and one whose key another journal
\* may take.
PaidIsCredited ==
    \A i \in Intents :
        (OwnKey(i) /\ charge[i] = "paid" /\ intents[i].created + AbandonAfter <= MaxTime)
            ~> Credited(i)

\* The payouts of a rolling day stay within the cap of the customer's tier
\* ("Naira that may be withdrawn per rolling 24 hours", tier.rs).
CapHolds == UsedToday <= Cap
=============================================================================
