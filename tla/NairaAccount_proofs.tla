------------------------- MODULE NairaAccount_proofs -------------------------
(***************************************************************************)
(* Proofs about NairaAccount for any top-ups, payouts, handlers, batches   *)
(* and windows.  The provider's answer is heard in one step and written in *)
(* another; that a paid charge stays paid is what makes the answer last.   *)
(* A sweep ends in every tick, which bounds how long a charge stays open.  *)
(***************************************************************************)
EXTENDS NairaAccount, FiniteNumbers

IntentType == [status : {"none", "pending", "succeeded", "failed", "abandoned"}, created : Times]

AccountType ==
    /\ now \in Times
    /\ intents \in [Intents -> IntentType]
    /\ charge \in [Intents -> {"none", "open", "paid", "failed"}]
    /\ available \in Nat
    /\ asking \in [Askers -> Intents \cup {None}]
    /\ heard \in [Askers -> {"nothing", "paid", "failed"}]
    /\ queue \subseteq Intents
    /\ journals \in [Keys -> {"none", "credit", "reserve", "other"}]
    /\ paying \in [Tasks -> Requests \cup {None}]

\* What a caller heard is still so.
HeardStands ==
    \A w \in Askers : /\ heard[w] # "nothing" => asking[w] \in Intents
                      /\ heard[w] = "paid" => charge[asking[w]] = "paid"

\* A charge begins with its row.
ChargeHasRow == \A i \in Intents : intents[i].status = "none" => charge[i] = "none"

NairaInv == AccountType /\ HeardStands /\ ChargeHasRow /\ CreditedWasCharged

-----------------------------------------------------------------------------
LEMMA NairaStarts == ASSUME NairaConstants, Init PROVE NairaInv
BY DEF NairaConstants, Init, NairaInv, AccountType, IntentType, Times, HeardStands, ChargeHasRow,
       CreditedWasCharged, Credited

\* A journal is posted under a key that had none, and the others stay.
LEMMA PostKeeps ==
    ASSUME NairaInv, NEW k \in Keys, NEW kind \in {"credit", "reserve"}, NEW amount, Post(k, kind, amount)
    PROVE  /\ journals' \in [Keys -> {"none", "credit", "reserve", "other"}]
           /\ \A j \in Keys : journals'[j] = journals[j] \/ (j = k /\ journals[j] = "none" /\ journals'[j] = kind)
BY DEF Post, NairaInv, AccountType, moneyVars

\* Closing a row leaves the others, and every status that is not pending.
LEMMA CloseKeeps ==
    ASSUME NairaInv, NEW i \in Intents, NEW status \in {"succeeded", "failed"}, Close(i, status)
    PROVE  /\ intents' \in [Intents -> IntentType]
           /\ \A j \in Intents : intents'[j].status = "none" <=> intents[j].status = "none"
<1>1. intents[i] \in IntentType
  BY DEF NairaInv, AccountType
<1>2. PICK s \in {status, intents[i].status} :
         /\ intents' = [intents EXCEPT ![i].status = s]
         /\ s = "none" <=> intents[i].status = "none"
  BY DEF Close, Pending
<1>3. [intents[i] EXCEPT !.status = s] \in IntentType /\ [intents[i] EXCEPT !.status = s].status = s
  BY <1>1, <1>2 DEF IntentType
<1> QED
  BY <1>2, <1>3 DEF NairaInv, AccountType

\* A caller stops asking.
LEMMA DoneKeeps ==
    ASSUME NairaInv, NEW w \in Askers, Done(w), UNCHANGED charge
    PROVE  /\ asking' \in [Askers -> Intents \cup {None}]
           /\ heard' \in [Askers -> {"nothing", "paid", "failed"}]
           /\ HeardStands'
BY DEF NairaInv, AccountType, HeardStands, Done

\* A step that moves no money, no row and no charge.
LEMMA AsksOnly ==
    ASSUME NairaInv, UNCHANGED <<intents, charge, journals, available>>, now' \in Times,
           asking' \in [Askers -> Intents \cup {None}],
           heard' \in [Askers -> {"nothing", "paid", "failed"}],
           queue' \subseteq Intents, paying' \in [Tasks -> Requests \cup {None}], HeardStands'
    PROVE  NairaInv'
BY DEF NairaInv, AccountType, ChargeHasRow, CreditedWasCharged, Credited

LEMMA CreateKeeps == ASSUME NairaConstants, NairaInv, NEW i \in Intents, CreateIntent(i) PROVE NairaInv'
<1>1. intents' \in [Intents -> IntentType]
  BY DEF CreateIntent, NairaInv, AccountType, IntentType
<1>2. /\ charge' \in [Intents -> {"none", "open", "paid", "failed"}]
      /\ \A j \in Intents \ {i} : charge'[j] = charge[j] /\ intents'[j] = intents[j]
      /\ intents'[i].status = "pending"
      /\ charge[i] = "none"
  BY DEF CreateIntent, NairaInv, AccountType, ChargeHasRow
<1>3. \A j \in Intents : charge[j] = "paid" => charge'[j] = "paid"
  BY <1>2
<1> QED
  BY <1>1, <1>2, <1>3
     DEF CreateIntent, NairaInv, AccountType, HeardStands, ChargeHasRow, CreditedWasCharged, Credited,
         moneyVars, askVars, sweepVars

LEMMA PayKeeps == ASSUME NairaInv, NEW i \in Intents, Pay(i) PROVE NairaInv'
<1>1. /\ charge[i] = "open"
      /\ charge' \in [Intents -> {"none", "open", "paid", "failed"}]
      /\ \A j \in Intents \ {i} : charge'[j] = charge[j]
  BY DEF Pay, NairaInv, AccountType
<1>2. intents[i].status # "none"
  BY <1>1 DEF NairaInv, ChargeHasRow
<1>3. \A j \in Intents : /\ charge[j] = "paid" => charge'[j] = "paid"
                         /\ intents[j].status = "none" => charge'[j] = "none"
  BY <1>1, <1>2 DEF NairaInv, ChargeHasRow
<1> QED
  BY <1>1, <1>3
     DEF Pay, NairaInv, AccountType, HeardStands, ChargeHasRow, CreditedWasCharged, Credited,
         moneyVars, askVars, sweepVars

LEMMA VerifyKeeps == ASSUME NairaConstants, NairaInv, NEW w \in Askers, Verify(w) PROVE NairaInv'
<1>1. UNCHANGED <<now, intents, charge, journals, available, queue, paying>>
  BY DEF Verify, fundingVars, moneyVars, sweepVars
<1>2. CASE Done(w)
  BY <1>1, <1>2, DoneKeeps, AsksOnly DEF NairaInv, AccountType
<1>3. CASE /\ charge[asking[w]] \in {"paid", "failed"}
           /\ heard' = [heard EXCEPT ![w] = charge[asking[w]]]
           /\ UNCHANGED asking
  <2>1. asking[w] \in Intents
    BY DEF Verify, NairaInv, AccountType
  <2>2. heard' \in [Askers -> {"nothing", "paid", "failed"}] /\ HeardStands'
    BY <1>1, <1>3, <2>1 DEF NairaInv, AccountType, HeardStands
  <2> QED
    BY <1>1, <1>3, <2>2, AsksOnly DEF NairaInv, AccountType
<1> QED
  BY <1>2, <1>3 DEF Verify

LEMMA SettleKeeps == ASSUME NairaConstants, NairaInv, NEW w \in Askers, Settle(w) PROVE NairaInv'
<1>1. asking[w] \in Intents /\ (heard[w] = "paid" => charge[asking[w]] = "paid")
  BY DEF Settle, NairaInv, HeardStands
<1>2. /\ intents' \in [Intents -> IntentType]
      /\ \A j \in Intents : intents'[j].status = "none" <=> intents[j].status = "none"
  BY <1>1, CloseKeeps DEF Settle, Credit
<1>3. available' \in Nat
  BY <1>1 DEF Settle, Credit, Post, moneyVars, NairaInv, AccountType, NairaConstants
<1>4. /\ journals' \in [Keys -> {"none", "credit", "reserve", "other"}]
      /\ \A i \in Intents : Credited(i)' => Credited(i) \/ charge[i] = "paid"
  <2>1. CASE heard[w] = "paid"
    <3>1. Post(CreditKey[asking[w]], "credit", Amount[asking[w]]) /\ CreditKey[asking[w]] \in Keys
      BY <1>1, <2>1 DEF Settle, Credit, NairaConstants
    <3> QED
      BY <1>1, <2>1, <3>1, PostKeeps DEF Credited, NairaConstants
  <2> QED
    BY <2>1 DEF Settle, moneyVars, Credited, NairaInv, AccountType
<1>5. Done(w) /\ UNCHANGED <<now, charge, queue, paying>>
  BY DEF Settle, sweepVars
<1> QED
  BY <1>2, <1>3, <1>4, <1>5, DoneKeeps DEF NairaInv, AccountType, ChargeHasRow, CreditedWasCharged

LEMMA SelectKeeps == ASSUME NairaInv, Select PROVE NairaInv'
BY AsksOnly DEF Select, NairaInv, AccountType, HeardStands, fundingVars, moneyVars, askVars

LEMMA AskKeeps ==
    ASSUME NairaInv, NEW w \in Askers, NEW i \in Intents, heard[w] = "nothing" \/ asking[w] = None,
           NairaConstants,
           asking' = [asking EXCEPT ![w] = i], queue' \subseteq queue,
           UNCHANGED <<now, intents, charge, journals, available, heard, paying>>
    PROVE  NairaInv'
<1>1. asking' \in [Askers -> Intents \cup {None}]
  BY DEF NairaInv, AccountType
<1>2. heard[w] = "nothing"
  BY DEF NairaInv, HeardStands, NairaConstants
<1>3. HeardStands'
  BY <1>2 DEF NairaInv, AccountType, HeardStands
<1> QED
  BY <1>1, <1>3, AsksOnly DEF NairaInv, AccountType

LEMMA AbandonKeeps == ASSUME NairaInv, Abandon PROVE NairaInv'
<1>1. /\ intents' \in [Intents -> IntentType]
      /\ \A i \in Intents : intents'[i].status = "none" => intents[i].status = "none"
  <2> SUFFICES ASSUME NEW i \in Intents
               PROVE  /\ intents'[i] \in IntentType
                      /\ intents'[i].status = "none" => intents[i].status = "none"
    BY DEF Abandon
  <2>1. intents[i] \in IntentType
    BY DEF NairaInv, AccountType
  <2>2. intents'[i] = intents[i] \/ intents'[i] = [intents[i] EXCEPT !.status = "abandoned"]
    BY DEF Abandon
  <2> QED
    BY <2>1, <2>2 DEF IntentType
<1> QED
  BY <1>1 DEF Abandon, NairaInv, AccountType, HeardStands, ChargeHasRow, CreditedWasCharged, Credited,
              moneyVars, askVars

LEMMA ReserveKeeps == ASSUME NairaConstants, NairaInv, NEW t \in Tasks, ReservePayout(t) PROVE NairaInv'
<1>1. paying[t] \in Requests /\ paying' \in [Tasks -> Requests \cup {None}]
  BY DEF ReservePayout, NairaInv, AccountType
<1>2. available' \in Nat
  BY <1>1 DEF ReservePayout, Post, NairaInv, AccountType, NairaConstants, moneyVars
<1>3. /\ journals' \in [Keys -> {"none", "credit", "reserve", "other"}]
      /\ \A i \in Intents : Credited(i)' => Credited(i)
  <2>1. ASSUME NEW amount, Post(ClientKey[paying[t]], "reserve", amount)
        PROVE  /\ journals' \in [Keys -> {"none", "credit", "reserve", "other"}]
               /\ \A k \in Keys : journals'[k] = "credit" => journals[k] = "credit"
    <3>1. ClientKey[paying[t]] \in Keys
      BY <1>1 DEF NairaConstants
    <3> QED
      BY <2>1, <3>1, PostKeeps
  <2> QED
    BY <2>1 DEF ReservePayout, moneyVars, Credited, NairaConstants, NairaInv, AccountType
<1> QED
  BY <1>1, <1>2, <1>3
     DEF ReservePayout, NairaInv, AccountType, HeardStands, ChargeHasRow, CreditedWasCharged,
         fundingVars, askVars, sweepVars

LEMMA ElsewhereKeeps == ASSUME NairaConstants, NairaInv, NEW k \in Foreign, PostElsewhere(k) PROVE NairaInv'
<1>1. /\ journals' \in [Keys -> {"none", "credit", "reserve", "other"}]
      /\ \A i \in Intents : Credited(i)' => Credited(i)
  BY DEF PostElsewhere, NairaConstants, NairaInv, AccountType, Credited
<1> QED
  BY <1>1 DEF PostElsewhere, NairaInv, AccountType, HeardStands, ChargeHasRow, CreditedWasCharged,
              fundingVars, askVars, sweepVars

LEMMA NairaSteps == ASSUME NairaConstants, NairaInv, [Next]_vars PROVE NairaInv'
<1> USE DEF fundingVars, moneyVars, askVars, sweepVars
<1>1. CASE UNCHANGED vars
  BY <1>1, AsksOnly DEF vars, NairaInv, AccountType, HeardStands
<1>2. ASSUME NEW t \in Tasks, NEW i \in Intents, Confirm(t, i) PROVE NairaInv'
  BY <1>2, AskKeeps DEF Confirm, Idle, Askers
<1>3. ASSUME NEW t \in Tasks, NEW r \in Requests, CheckPayout(t, r) PROVE NairaInv'
  BY <1>3, AsksOnly DEF CheckPayout, NairaInv, AccountType, HeardStands
<1>4. ASSUME NEW t \in Tasks, Drop(t) PROVE NairaInv'
  <2>1. Done(t) /\ t \in Askers
    BY <1>4 DEF Drop, Askers
  <2> QED
    BY <1>4, <2>1, DoneKeeps, AsksOnly DEF Drop, NairaInv, AccountType
<1>5. CASE Chase
  BY <1>5, AskKeeps DEF Chase, Askers, NairaInv, AccountType
<1>6. CASE Tick
  BY <1>6, AsksOnly DEF Tick, NairaInv, AccountType, HeardStands, Times, NairaConstants
<1>7. \A t \in Tasks : t \in Askers
  BY DEF Askers
<1>8. Sweeper \in Askers
  BY DEF Askers
<1> QED
  BY <1>1, <1>2, <1>3, <1>4, <1>5, <1>6, <1>7, <1>8, CreateKeeps, PayKeeps, VerifyKeeps, SettleKeeps,
     SelectKeeps, AbandonKeeps, ReserveKeeps, ElsewhereKeeps DEF Next, SweepStep

-----------------------------------------------------------------------------
\* However a customer's page and the sweeps interleave, are dropped or hear an
\* answer late, money is credited only for a charge the provider took (settle,
\* credit_deposit).
THEOREM CreditsCharged == ASSUME NairaConstants PROVE Spec => []CreditedWasCharged
<1>1. Init => NairaInv
  BY NairaStarts
<1>2. NairaInv /\ [Next]_vars => NairaInv'
  BY NairaSteps
<1>3. NairaInv => CreditedWasCharged
  BY DEF NairaInv
<1> QED
  BY <1>1, <1>2, <1>3, PTL DEF Spec

\* The rows of payouts.
BookType == payouts \in [Keys -> [amount : Nat, at : Times]]

\* A journal is posted: its key had none, and the amount moves.
Moves(k, kind, amount) ==
    /\ journals[k] = "none"
    /\ journals' = [journals EXCEPT ![k] = kind]
    /\ available' = available + amount

\* The balance moves only with a journal under a key that had none of any kind,
\* by what that top-up or payout is worth; journals and payouts' rows stay as
\* they were made; so each charge counts once and each key once, however many
\* requests send it and whatever else is posted under it, and no payout overdraws
\* (the UNIQUE column of ledger_journals, create_payout).
OneMovePerKey ==
    [][/\ \A k \in Keys : /\ journals[k] # "none" => journals'[k] = journals[k]
                          /\ payouts[k] # NoPayout => payouts'[k] = payouts[k]
       /\ available' >= 0
       /\ available' # available =>
            \/ \E i \in Intents : Moves(CreditKey[i], "credit", Amount[i])
            \/ \E r \in Requests : Moves(ClientKey[r], "reserve", -PayoutAmount[r])]_vars

\* What a step does to the books.
Inserts(r) ==
    /\ journals[ClientKey[r]] # "none"
    /\ UNCHANGED moneyVars
    /\ InsertPayout(ClientKey[r], PayoutAmount[r])

Reserves(r) ==
    /\ Moves(ClientKey[r], "reserve", -PayoutAmount[r])
    /\ InsertPayout(ClientKey[r], PayoutAmount[r])

Credits(i) == Moves(CreditKey[i], "credit", Amount[i]) /\ UNCHANGED payouts

Others(k) ==
    /\ journals[k] = "none"
    /\ journals' = [journals EXCEPT ![k] = "other"]
    /\ UNCHANGED <<available, payouts>>

Books == <<journals, available, payouts>>

LEMMA BookSteps ==
    ASSUME NairaConstants, NairaInv, [Next]_vars
    PROVE  \/ UNCHANGED Books
           \/ \E i \in Intents : Credits(i)
           \/ \E r \in Requests : Reserves(r) \/ Inserts(r)
           \/ \E k \in Keys : Others(k)
<1> USE DEF Books
<1>1. CASE UNCHANGED vars
  BY <1>1 DEF vars, moneyVars
<1>2. ASSUME NEW w \in Askers, Settle(w)
      PROVE  UNCHANGED Books \/ \E i \in Intents : Credits(i)
  <2>1. CASE heard[w] = "paid"
    <3>1. PICK i \in Intents : Credit(i)
      BY <1>2, <2>1 DEF Settle, NairaInv, HeardStands
    <3> QED
      BY <1>2, <3>1 DEF Credit, Settle, Post, Credits, Moves, moneyVars
  <2> QED
    BY <1>2, <2>1 DEF Settle, moneyVars
<1>3. ASSUME NEW t \in Tasks, ReservePayout(t)
      PROVE  UNCHANGED Books \/ \E r \in Requests : Reserves(r) \/ Inserts(r)
  <2>1. paying[t] \in Requests
    BY <1>3 DEF ReservePayout, NairaInv, AccountType
  <2> QED
    BY <1>3, <2>1 DEF ReservePayout, Post, Reserves, Inserts, Moves, moneyVars
<1>4. ASSUME NEW w, Verify(w) PROVE UNCHANGED Books
  BY <1>4 DEF Verify, moneyVars
<1>5. ASSUME NEW k \in Foreign, PostElsewhere(k) PROVE k \in Keys /\ Others(k)
  BY <1>5 DEF PostElsewhere, Others, NairaConstants
<1>6. ASSUME Next
      PROVE  \/ UNCHANGED Books
             \/ \E w \in Askers : Settle(w)
             \/ \E t \in Tasks : ReservePayout(t)
             \/ \E k \in Foreign : PostElsewhere(k)
  BY <1>4, <1>6 DEF Next, SweepStep, Askers, CreateIntent, Pay, Confirm, Drop, CheckPayout, Select,
                    Chase, Abandon, Tick, moneyVars
<1> QED
  BY <1>1, <1>2, <1>3, <1>5, <1>6

LEMMA BookTypeKeeps == ASSUME NairaConstants, NairaInv, BookType, [Next]_vars PROVE BookType'
<1>1. ASSUME NEW r \in Requests, InsertPayout(ClientKey[r], PayoutAmount[r]) PROVE BookType'
  BY <1>1 DEF InsertPayout, BookType, NairaConstants, NairaInv, AccountType
<1> QED
  BY <1>1, BookSteps DEF Books, Credits, Reserves, Inserts, Others, BookType

\* For any number of top-ups, payouts, handlers and sharers of a key the balance
\* is moved once by each key, which is the step by step form of BalanceAddsUp.
THEOREM MovesOnce == ASSUME NairaConstants PROVE Spec => OneMovePerKey
<1>1. ASSUME NairaInv, BookType, [Next]_vars
      PROVE  /\ \A k \in Keys : /\ journals[k] # "none" => journals'[k] = journals[k]
                                /\ payouts[k] # NoPayout => payouts'[k] = payouts[k]
             /\ available' # available =>
                  \/ \E i \in Intents : Moves(CreditKey[i], "credit", Amount[i])
                  \/ \E r \in Requests : Moves(ClientKey[r], "reserve", -PayoutAmount[r])
  <2>1. CASE UNCHANGED Books
    BY <2>1 DEF Books
  <2>2. ASSUME NEW i \in Intents, Credits(i) PROVE Moves(CreditKey[i], "credit", Amount[i]) /\ UNCHANGED payouts
    BY <2>2 DEF Credits
  <2>3. ASSUME NEW r \in Requests, Reserves(r) \/ Inserts(r)
        PROVE  /\ \A k \in Keys : payouts[k] # NoPayout => payouts'[k] = payouts[k]
               /\ Moves(ClientKey[r], "reserve", -PayoutAmount[r]) \/ UNCHANGED <<journals, available>>
    BY <1>1, <2>3 DEF Reserves, Inserts, InsertPayout, BookType, moneyVars
  <2>4. ASSUME NEW k \in Keys, NEW kind, NEW amount, Moves(k, kind, amount)
        PROVE  \A j \in Keys : journals[j] # "none" => journals'[j] = journals[j]
    BY <1>1, <2>4 DEF Moves, NairaInv, AccountType
  <2>5. ASSUME NEW k \in Keys, Others(k)
        PROVE  UNCHANGED <<available, payouts>> /\ \A j \in Keys : journals[j] # "none" => journals'[j] = journals[j]
    BY <1>1, <2>5 DEF Others, NairaInv, AccountType
  <2>6. /\ \A i \in Intents : CreditKey[i] \in Keys
        /\ \A r \in Requests : ClientKey[r] \in Keys
    BY DEF NairaConstants
  <2> QED
    BY <1>1, <2>1, <2>2, <2>3, <2>4, <2>5, <2>6, BookSteps
<1>2. NairaInv' => available' >= 0
  BY DEF NairaInv, AccountType
<1>3. Init => NairaInv /\ BookType
  <2>1. Init => BookType
    BY DEF Init, BookType, NairaConstants, NoPayout, Times
  <2> QED
    BY <2>1, NairaStarts
<1>4. NairaInv /\ BookType /\ [Next]_vars => NairaInv' /\ BookType'
  BY NairaSteps, BookTypeKeeps
<1> QED
  BY <1>1, <1>2, <1>3, <1>4, PTL DEF Spec, OneMovePerKey

-----------------------------------------------------------------------------
(* The balance adds up: a credit or a payout is booked by whoever makes its *)
(* journal, and finitely many are.                                         *)

CreditedOnes == {i \in Intents : Credited(i)}
PaidOut      == {k \in Keys : payouts[k] # NoPayout}
Asked        == [k \in Keys |-> payouts[k].amount]

BookInv ==
    /\ BookType
    /\ IsFiniteSet(CreditedOnes) /\ IsFiniteSet(PaidOut)
    /\ BalanceAddsUp

LEMMA SumIsSum == \A f, S : SumOver(f, S) = SumOf(f, S)
BY DEF SumOver, SumOf

\* The two sums of a state.
LEMMA SumsAreInts ==
    ASSUME NairaConstants, BookInv
    PROVE  /\ Reserved \subseteq PaidOut /\ IsFiniteSet(Reserved)
           /\ \A k \in Keys : Asked[k] = payouts[k].amount /\ Asked[k] \in Nat
           /\ SumOver(Amount, CreditedOnes) \in Int /\ SumOver(Asked, Reserved) \in Int
           /\ available = SumOver(Amount, CreditedOnes) - SumOver(Asked, Reserved)
<1>1. Reserved \subseteq PaidOut /\ IsFiniteSet(Reserved)
  <2>1. Reserved \subseteq PaidOut
    BY DEF BookInv, BalanceAddsUp, Reserved, PaidOut
  <2> QED
    BY <2>1, FS_Subset DEF BookInv
<1>2. \A k \in Keys : Asked[k] = payouts[k].amount /\ Asked[k] \in Nat
  BY DEF BookInv, BookType, Asked
<1>3. SumOver(Asked, Reserved) \in Int
  <2>1. \A x \in Reserved : Asked[x] \in Int
    BY <1>2 DEF Reserved
  <2> QED
    BY <1>1, <2>1, SumIsSum, SumIsInt
<1>4. SumOver(Amount, CreditedOnes) \in Int
  <2>1. \A x \in CreditedOnes : Amount[x] \in Int
    BY DEF NairaConstants, CreditedOnes
  <2> QED
    BY <2>1, SumIsSum, SumIsInt DEF BookInv
<1> QED
  BY <1>1, <1>2, <1>3, <1>4 DEF BookInv, BalanceAddsUp, CreditedOnes, Asked

\* A step that leaves the reservations and their rows alone.
LEMMA RowsAlone ==
    ASSUME NairaConstants, BookInv, BookType', Reserved' = Reserved,
           \A k \in Reserved : payouts'[k] = payouts[k]
    PROVE  SumOver(Asked', Reserved') = SumOver(Asked, Reserved)
<1>1. \A x \in Reserved : Asked'[x] = Asked[x]
  BY DEF Asked, Reserved
<1> QED
  BY <1>1, SumsAreInts, SumIsSum, SumSame

\* A charge that was not credited is one summand more.
LEMMA CreditAdds ==
    ASSUME NairaConstants, NairaInv, BookInv, NEW i \in Intents, Credits(i), NairaInv', BookType'
    PROVE  BookInv'
<1>1. /\ journals[CreditKey[i]] = "none" /\ CreditKey[i] \in Keys
      /\ journals' = [journals EXCEPT ![CreditKey[i]] = "credit"]
      /\ available' = available + Amount[i] /\ payouts' = payouts
  BY DEF Credits, Moves, NairaConstants
<1>2. CreditedOnes' = CreditedOnes \cup {i} /\ i \notin CreditedOnes
  BY <1>1 DEF Credited, CreditedOnes, NairaInv, AccountType, NairaConstants
<1>3. /\ Reserved' = Reserved /\ PaidOut' = PaidOut
      /\ \A k \in Keys : k \notin Reserved' /\ payouts'[k] # NoPayout => journals'[k] \in {"credit", "other"}
  BY <1>1 DEF Reserved, PaidOut, NairaInv, AccountType, BookInv, BalanceAddsUp
<1>4. /\ SumOver(Amount, CreditedOnes') = SumOver(Amount, CreditedOnes) + Amount[i]
      /\ IsFiniteSet(CreditedOnes')
  <2>1. \A x \in CreditedOnes \cup {i} : Amount[x] \in Int
    BY DEF NairaConstants, CreditedOnes
  <2> QED
    BY <1>2, <2>1, SumIsSum, SumAdds, FS_AddElement DEF BookInv
<1>5. SumOver(Asked', Reserved') = SumOver(Asked, Reserved)
  BY <1>1, <1>3, RowsAlone
<1>6. available' = SumOver(Amount, CreditedOnes') - SumOver(Asked', Reserved')
  <2>1. Amount[i] \in Int
    BY DEF NairaConstants
  <2> QED
    BY <1>1, <1>4, <1>5, <2>1, SumsAreInts
<1>7. available' >= 0
  BY DEF NairaInv, AccountType
<1>8. \A k \in Keys : k \in Reserved' => payouts'[k] # NoPayout
  BY <1>1, <1>3 DEF BookInv, BalanceAddsUp
<1>9. BalanceAddsUp'
  BY <1>3, <1>6, <1>7, <1>8 DEF BalanceAddsUp, CreditedOnes, Asked
<1> QED
  BY <1>3, <1>4, <1>9 DEF BookInv

\* ... a reservation one summand less.
LEMMA ReserveTakes ==
    ASSUME NairaConstants, NairaInv, BookInv, NEW r \in Requests, Reserves(r), NairaInv', BookType'
    PROVE  BookInv'
<1> DEFINE k == ClientKey[r]
<1>1. /\ journals[k] = "none" /\ k \in Keys /\ PayoutAmount[r] \in Nat \ {0}
      /\ journals' = [journals EXCEPT ![k] = "reserve"]
      /\ available' = available - PayoutAmount[r]
      /\ payouts[k] = NoPayout
      /\ payouts' = [payouts EXCEPT ![k] = [amount |-> PayoutAmount[r], at |-> now]]
  <2>1. /\ journals[k] = "none" /\ k \in Keys /\ PayoutAmount[r] \in Nat \ {0}
        /\ journals' = [journals EXCEPT ![k] = "reserve"]
        /\ available' = available + (-PayoutAmount[r]) /\ available \in Int
    BY DEF Reserves, Moves, NairaConstants, NairaInv, AccountType
  <2>2. payouts[k] = NoPayout
    BY <2>1 DEF BookInv, BalanceAddsUp, Reserved
  <2> QED
    BY <2>1, <2>2 DEF Reserves, InsertPayout
<1> HIDE DEF k
<1>2. Reserved' = Reserved \cup {k} /\ k \notin Reserved
  BY <1>1 DEF Reserved, NairaInv, AccountType
<1>3. /\ payouts'[k] = [amount |-> PayoutAmount[r], at |-> now] /\ payouts'[k] # NoPayout
      /\ \A j \in Keys \ {k} : payouts'[j] = payouts[j] /\ journals'[j] = journals[j]
  BY <1>1 DEF BookInv, BookType, NoPayout, NairaInv, AccountType
<1>4. PaidOut' = PaidOut \cup {k}
  BY <1>1, <1>3 DEF PaidOut
<1>5. CreditedOnes' = CreditedOnes
  BY <1>1, <1>3 DEF CreditedOnes, Credited, NairaConstants, NairaInv, AccountType
<1>6. SumOver(Asked', Reserved') = SumOver(Asked, Reserved) + PayoutAmount[r]
  <2>1. /\ \A x \in Reserved : Asked'[x] = Asked[x]
        /\ Asked'[k] = PayoutAmount[r]
        /\ \A x \in Reserved \cup {k} : Asked'[x] \in Int
    <3>1. \A x \in Keys : Asked'[x] = payouts'[x].amount /\ Asked[x] = payouts[x].amount
      BY DEF Asked
    <3>2. \A x \in Keys : payouts'[x].amount \in Nat
      BY DEF BookType
    <3> QED
      BY <1>1, <1>2, <1>3, <3>1, <3>2 DEF Reserved
  <2>2. SumOf(Asked', Reserved) = SumOf(Asked, Reserved)
    BY <2>1, SumsAreInts, SumSame
  <2> QED
    BY <1>2, <2>1, <2>2, SumsAreInts, SumIsSum, SumAdds
<1>7. available' = SumOver(Amount, CreditedOnes') - SumOver(Asked', Reserved')
  BY <1>1, <1>5, <1>6, SumsAreInts
<1>8. available' >= 0 /\ IsFiniteSet(PaidOut') /\ IsFiniteSet(CreditedOnes')
  BY <1>4, <1>5, FS_AddElement DEF NairaInv, AccountType, BookInv
<1>9. \A j \in Keys : /\ j \in Reserved' => payouts'[j] # NoPayout
                      /\ payouts'[j] # NoPayout /\ j \notin Reserved' => journals'[j] \in {"credit", "other"}
  BY <1>2, <1>3 DEF BookInv, BalanceAddsUp
<1>10. BalanceAddsUp'
  BY <1>7, <1>8, <1>9 DEF BalanceAddsUp, CreditedOnes, Asked
<1> QED
  BY <1>8, <1>10 DEF BookInv

\* ... and a row under the journal of something else, or a replay, is none.
LEMMA InsertMovesNothing ==
    ASSUME NairaConstants, NairaInv, BookInv, NEW r \in Requests, Inserts(r), NairaInv', BookType'
    PROVE  BookInv'
<1> DEFINE k == ClientKey[r]
<1>1. /\ journals[k] # "none" /\ k \in Keys /\ journals' = journals /\ available' = available
      /\ payouts' = [payouts EXCEPT ![k] = IF @ = NoPayout THEN [amount |-> PayoutAmount[r], at |-> now] ELSE @]
  BY DEF Inserts, InsertPayout, moneyVars, NairaConstants
<1> HIDE DEF k
<1>2. \A j \in Keys : payouts[j] # NoPayout \/ j # k => payouts'[j] = payouts[j]
  BY <1>1 DEF BookInv, BookType
<1>3. Reserved' = Reserved /\ \A j \in Reserved : payouts'[j] = payouts[j]
  BY <1>1, <1>2 DEF Reserved, BookInv, BalanceAddsUp
<1>4. SumOver(Asked', Reserved') = SumOver(Asked, Reserved) /\ CreditedOnes' = CreditedOnes
  BY <1>1, <1>3, RowsAlone DEF CreditedOnes, Credited
<1>5. IsFiniteSet(PaidOut')
  <2>1. PaidOut' \subseteq PaidOut \cup {k}
    BY <1>2 DEF PaidOut
  <2>2. IsFiniteSet(PaidOut \cup {k})
    BY FS_AddElement DEF BookInv
  <2> QED
    BY <2>1, <2>2, FS_Subset
<1>6. \A j \in Keys : /\ j \in Reserved' => payouts'[j] # NoPayout
                      /\ payouts'[j] # NoPayout /\ j \notin Reserved' => journals'[j] \in {"credit", "other"}
  BY <1>1, <1>2, <1>3 DEF BookInv, BalanceAddsUp, Reserved, NairaInv, AccountType
<1>7. available' >= 0 /\ available' = SumOver(Amount, CreditedOnes') - SumOver(Asked', Reserved')
  BY <1>1, <1>4, SumsAreInts DEF BookInv, BalanceAddsUp
<1>8. BalanceAddsUp'
  BY <1>6, <1>7 DEF BalanceAddsUp, CreditedOnes, Asked
<1> QED
  BY <1>4, <1>5, <1>8 DEF BookInv

LEMMA OthersMoveNothing ==
    ASSUME NairaConstants, NairaInv, BookInv, NEW k \in Keys, Others(k), NairaInv', BookType'
    PROVE  BookInv'
<1>1. /\ journals[k] = "none" /\ available' = available /\ payouts' = payouts
      /\ \A j \in Keys : journals'[j] = IF j = k THEN "other" ELSE journals[j]
  BY DEF Others, NairaInv, AccountType
<1>2. Reserved' = Reserved /\ CreditedOnes' = CreditedOnes /\ PaidOut' = PaidOut
  BY <1>1 DEF Reserved, CreditedOnes, Credited, PaidOut, NairaConstants
<1>3. SumOver(Asked', Reserved') = SumOver(Asked, Reserved)
  BY <1>1, <1>2, RowsAlone
<1>4. /\ available' >= 0 /\ available' = SumOver(Amount, CreditedOnes') - SumOver(Asked', Reserved')
      /\ \A j \in Keys : /\ j \in Reserved' => payouts'[j] # NoPayout
                         /\ payouts'[j] # NoPayout /\ j \notin Reserved' => journals'[j] \in {"credit", "other"}
  BY <1>1, <1>2, <1>3, SumsAreInts DEF BookInv, BalanceAddsUp
<1>5. BalanceAddsUp'
  BY <1>4 DEF BalanceAddsUp, CreditedOnes, Asked
<1> QED
  BY <1>2, <1>5 DEF BookInv

LEMMA BookStarts == ASSUME NairaConstants, Init PROVE BookInv
<1>1. CreditedOnes = {} /\ PaidOut = {} /\ Reserved = {} /\ available = 0
  BY DEF Init, CreditedOnes, Credited, PaidOut, Reserved, NairaConstants
<1>2. SumOver(Amount, CreditedOnes) = 0 /\ SumOver(Asked, Reserved) = 0
  BY <1>1, SumIsSum, SumEmpty
<1>3. BalanceAddsUp
  BY <1>1, <1>2 DEF BalanceAddsUp, CreditedOnes, Asked, PaidOut
<1> QED
  BY <1>1, <1>3, FS_EmptySet DEF BookInv, BookType, Init, NairaConstants, NoPayout, Times

LEMMA BookKeeps ==
    ASSUME NairaConstants, NairaInv, BookInv, NairaInv', [Next]_vars PROVE BookInv'
<1>1. BookType'
  BY BookTypeKeeps DEF BookInv
<1>2. CASE UNCHANGED Books
  BY <1>2 DEF Books, BookInv, BookType, BalanceAddsUp, CreditedOnes, Credited, PaidOut, Reserved
<1> QED
  BY <1>1, <1>2, BookSteps, CreditAdds, ReserveTakes, InsertMovesNothing, OthersMoveNothing

\* For any number of top-ups, payouts, handlers and sweeps, and any keys, the
\* balance is every charge that was credited, once, less every payout that has a
\* reservation, once (credit_deposit, create_payout).
THEOREM BalanceExact == ASSUME NairaConstants PROVE Spec => []BalanceAddsUp
<1>1. Init => NairaInv /\ BookInv
  BY NairaStarts, BookStarts
<1>2. NairaInv /\ BookInv /\ [Next]_vars => NairaInv' /\ BookInv'
  BY NairaSteps, BookKeeps
<1>3. BookInv => BalanceAddsUp
  BY DEF BookInv
<1> QED
  BY <1>1, <1>2, <1>3, PTL DEF Spec

-----------------------------------------------------------------------------
(* A sweep ends in every tick, and what it does not close after its link   *)
(* has ended costs an error: so the errors run out before the window does. *)

Late == IF SettleAfter < LinkLife THEN LinkLife ELSE SettleAfter

\* A batch has room for every top-up, and the provider fails fewer calls than
\* there are sweeps between the end of a link and the end of the window.
SweepsAreEnough ==
    /\ IsFiniteSet(Intents) /\ Cardinality(Intents) <= Batch
    /\ Late + 1 + MaxErrors < AbandonAfter

\* Paid, and not closed yet.
Owing(i) == Pending(i) /\ charge[i] = "paid"

\* A sweep that should have closed it failed, in this tick as in each before.
Excused(i) == Age(i) <= Late + errors

SweepInv ==
    /\ errors \in 0..MaxErrors /\ place \in [Intents -> Int]
    /\ ~sweeping => queue = {} /\ asking[Sweeper] = None
    /\ \A w \in Askers : heard[w] = "failed" => charge[asking[w]] = "failed"
    /\ \A i \in Intents : Owing(i) =>
          /\ Age(i) <= Late + 1 + errors
          /\ swept => Excused(i)
          /\ sweeping => i \in queue \/ asking[Sweeper] = i \/ Excused(i)
    /\ \A i \in Intents : intents[i].status = "abandoned" => charge[i] # "paid" /\ Age(i) > LinkLife

LEMMA LateBounds ==
    ASSUME NairaConstants, SweepsAreEnough
    PROVE  /\ Late \in Nat /\ Late >= SettleAfter /\ Late >= LinkLife
           /\ Late + 1 + MaxErrors < AbandonAfter /\ LinkLife < AbandonAfter
BY DEF NairaConstants, SweepsAreEnough, Late

LEMMA AgeIsInt ==
    ASSUME NairaConstants, NairaInv, NEW i \in Intents
    PROVE  Age(i) \in Int /\ now \in Int /\ intents[i].created \in Int
BY DEF NairaConstants, NairaInv, AccountType, IntentType, Times, Age

\* A step in one tick after which no more is owed, and what is owed and was to
\* be asked about still is, or an error excuses it.
LEMMA NoMoreOwing ==
    ASSUME NairaConstants, SweepsAreEnough, NairaInv, SweepInv, UNCHANGED <<now, sweeping, swept>>,
           place' \in [Intents -> Int], errors' \in 0..MaxErrors, errors' = errors \/ errors' = errors + 1,
           \A i \in Intents : intents[i].status # "none" => intents'[i].created = intents[i].created,
           \A i \in Intents : Owing(i)' => Owing(i),
           ~sweeping => queue' = {} /\ asking'[Sweeper] = None,
           \A i \in Intents : Owing(i)' /\ (i \in queue \/ asking[Sweeper] = i) =>
              i \in queue' \/ asking'[Sweeper] = i \/ errors' = errors + 1,
           \A w \in Askers : heard'[w] = "failed" => charge'[asking'[w]] = "failed",
           \A i \in Intents : intents'[i].status = "abandoned" =>
              /\ intents[i].status = "abandoned"
              /\ charge'[i] = "paid" => charge[i] = "paid"
    PROVE  SweepInv'
<1>1. errors \in Int /\ Late \in Int /\ LinkLife \in Int
  BY LateBounds DEF SweepInv, NairaConstants
<1>2. ASSUME NEW i \in Intents, Owing(i) \/ intents[i].status = "abandoned" PROVE Age(i)' = Age(i)
  BY <1>2 DEF Owing, Pending, Age
<1>3. ASSUME NEW i \in Intents, Owing(i)'
      PROVE  /\ Age(i)' <= Late + 1 + errors'
             /\ swept' => Excused(i)'
             /\ sweeping' => i \in queue' \/ asking'[Sweeper] = i \/ Excused(i)'
  <2>1. Owing(i) /\ Age(i)' = Age(i) /\ Age(i) \in Int
    BY <1>2, <1>3, AgeIsInt
  <2>2. PICK e \in Int : e = errors' /\ (e = errors \/ e = errors + 1)
    BY <1>1
  <2>3. Age(i) <= Late + 1 + errors /\ (swept => Age(i) <= Late + errors)
    BY <2>1 DEF SweepInv, Excused
  <2>4. /\ Age(i) <= Late + 1 + e
        /\ swept => Age(i) <= Late + e
        /\ Age(i) <= Late + errors => Age(i) <= Late + e
        /\ e = errors + 1 => Age(i) <= Late + e
    BY <1>1, <2>1, <2>2, <2>3
  <2>5. sweeping => i \in queue \/ asking[Sweeper] = i \/ Age(i) <= Late + errors
    BY <2>1 DEF SweepInv, Excused
  <2> QED
    BY <1>3, <2>1, <2>2, <2>4, <2>5 DEF Excused
<1>4. ASSUME NEW i \in Intents, intents'[i].status = "abandoned"
      PROVE  charge'[i] # "paid" /\ Age(i)' > LinkLife
  BY <1>2, <1>4 DEF SweepInv
<1> QED
  BY <1>3, <1>4 DEF SweepInv

\* Closing a row takes it out of what is pending.
LEMMA CloseCloses ==
    ASSUME NairaInv, NEW i \in Intents, NEW status \in {"succeeded", "failed"}, Close(i, status)
    PROVE  /\ \A j \in Intents : intents'[j].created = intents[j].created
           /\ \A j \in Intents : intents'[j].status \in {"pending", "abandoned"} =>
                                    intents'[j] = intents[j] /\ (j = i => ~Pending(j))
<1>1. intents[i] \in IntentType
  BY DEF NairaInv, AccountType
<1>2. PICK s : /\ intents' = [intents EXCEPT ![i].status = s]
               /\ s = IF Pending(i) THEN status ELSE intents[i].status
  BY DEF Close
<1>3. \A j \in Intents \ {i} : intents'[j] = intents[j]
  BY <1>2 DEF NairaInv, AccountType
<1>4. /\ intents'[i].created = intents[i].created /\ intents'[i].status = s
      /\ s = intents[i].status => intents'[i] = intents[i]
  BY <1>1, <1>2 DEF NairaInv, AccountType, IntentType
<1> QED
  BY <1>2, <1>3, <1>4 DEF Pending

LEMMA SweeperApart ==
    ASSUME NairaConstants
    PROVE  /\ Sweeper \in Askers /\ None \notin Intents
           /\ \A t \in Tasks : t \in Askers /\ t # Sweeper
BY DEF NairaConstants, Askers

LEMMA CreateOwes ==
    ASSUME NairaConstants, SweepsAreEnough, NairaInv, SweepInv, NEW i \in Intents, CreateIntent(i)
    PROVE  SweepInv'
<1>1. /\ charge[i] = "none" /\ intents[i].status = "none"
      /\ intents' = [intents EXCEPT ![i] = [status |-> "pending", created |-> now]]
      /\ charge' = charge \/ charge' = [charge EXCEPT ![i] = "open"]
      /\ UNCHANGED <<now, asking, heard, sweeping, queue, swept, errors>>
  BY DEF CreateIntent, NairaInv, ChargeHasRow, askVars, sweepVars
<1>2. /\ \A j \in Intents \ {i} : intents'[j] = intents[j] /\ charge'[j] = charge[j]
      /\ intents'[i].status = "pending" /\ charge'[i] # "paid"
  BY <1>1 DEF NairaInv, AccountType
<1>3. \A j \in Intents : Owing(j)' => Owing(j)
  BY <1>2 DEF Owing, Pending
<1>4. \A w \in Askers : heard'[w] = "failed" => charge'[asking'[w]] = "failed"
  <2> SUFFICES ASSUME NEW w \in Askers, heard[w] = "failed" PROVE charge'[asking[w]] = "failed"
    BY <1>1
  <2>1. charge[asking[w]] = "failed" /\ asking[w] \in Intents
    BY DEF SweepInv, NairaInv, HeardStands
  <2> QED
    BY <1>1, <1>2, <2>1
<1>5. place' \in [Intents -> Int]
  <2>1. 1 + Cardinality({j \in Intents : place[j] # 0}) \in Int
    BY FS_Subset, FS_CardinalityType DEF SweepsAreEnough
  <2> QED
    BY <2>1 DEF CreateIntent, SweepInv
<1> QED
  BY <1>1, <1>2, <1>3, <1>4, <1>5, NoMoreOwing DEF SweepInv

\* A charge that is taken in the last moment of its link is young.
LEMMA PayOwes ==
    ASSUME NairaConstants, SweepsAreEnough, NairaInv, SweepInv, NEW i \in Intents, Pay(i)
    PROVE  SweepInv'
<1>1. /\ charge[i] = "open" /\ Age(i) <= LinkLife
      /\ UNCHANGED <<now, intents, place, asking, heard, sweeping, queue, swept, errors>>
      /\ \A j \in Intents \ {i} : charge'[j] = charge[j]
  BY DEF Pay, NairaInv, AccountType, askVars, sweepVars
<1>2. /\ Age(i) \in Int /\ Late \in Int /\ errors \in Int /\ errors >= 0 /\ LinkLife \in Int
      /\ LinkLife <= Late
  BY AgeIsInt, LateBounds DEF SweepInv, NairaConstants
<1>3. Age(i) <= Late + 1 + errors /\ Age(i) <= Late + errors /\ ~(Age(i) > LinkLife)
  BY <1>1, <1>2
<1>4. \A j \in Intents : Age(j)' = Age(j) /\ (Excused(j)' <=> Excused(j))
  BY <1>1 DEF Age, Excused
<1>5. \A w \in Askers : heard'[w] = "failed" => charge'[asking'[w]] = "failed"
  BY <1>1 DEF SweepInv, NairaInv, HeardStands
<1>6. ASSUME NEW j \in Intents, Owing(j)'
      PROVE  /\ Age(j)' <= Late + 1 + errors'
             /\ swept' => Excused(j)'
             /\ sweeping' => j \in queue' \/ asking'[Sweeper] = j \/ Excused(j)'
  <2>1. CASE j = i
    BY <1>1, <1>3, <1>4, <2>1 DEF Excused
  <2>2. CASE j # i
    <3>1. Owing(j)
      BY <1>1, <1>6, <2>2 DEF Owing, Pending
    <3> QED
      BY <1>1, <1>4, <3>1 DEF SweepInv
  <2> QED
    BY <2>1, <2>2
<1>7. \A j \in Intents : intents'[j].status = "abandoned" => charge'[j] # "paid" /\ Age(j)' > LinkLife
  BY <1>1, <1>3, <1>4 DEF SweepInv
<1> QED
  BY <1>1, <1>5, <1>6, <1>7 DEF SweepInv

LEMMA VerifyOwes ==
    ASSUME NairaConstants, SweepsAreEnough, NairaInv, SweepInv, NEW w \in Askers, Verify(w)
    PROVE  SweepInv'
<1>1. /\ asking[w] \in Intents
      /\ UNCHANGED <<now, intents, place, charge, sweeping, queue, swept>>
  BY DEF Verify, NairaInv, AccountType, fundingVars, sweepVars
<1>2. /\ \A i \in Intents : Owing(i)' => Owing(i)
      /\ \A i \in Intents : intents'[i].status = "abandoned" => intents[i].status = "abandoned"
  BY <1>1 DEF Owing, Pending
<1>3. CASE /\ charge[asking[w]] \in {"paid", "failed"}
           /\ heard' = [heard EXCEPT ![w] = charge[asking[w]]]
           /\ UNCHANGED <<asking, errors>>
  <2>1. \A v \in Askers : heard'[v] = "failed" => charge'[asking'[v]] = "failed"
    BY <1>1, <1>3 DEF SweepInv, NairaInv, AccountType
  <2> QED
    BY <1>1, <1>2, <1>3, <2>1, NoMoreOwing DEF SweepInv
<1>4. CASE /\ Done(w)
           /\ \/ errors' = errors + 1 /\ errors < MaxErrors
              \/ errors' = errors /\ charge[asking[w]] \notin {"paid", "failed"}
  <2>1. /\ asking' = [asking EXCEPT ![w] = None]
        /\ \A v \in Askers : heard'[v] = "failed" => heard[v] = "failed" /\ asking'[v] = asking[v]
    BY <1>4, SweeperApart DEF Done, NairaInv, AccountType
  <2>2. \A v \in Askers : heard'[v] = "failed" => charge'[asking'[v]] = "failed"
    BY <1>1, <2>1 DEF SweepInv
  <2>3. ~sweeping => queue' = {} /\ asking'[Sweeper] = None
    BY <1>1, <2>1, SweeperApart DEF SweepInv, NairaInv, AccountType
  <2>4. errors' \in 0..MaxErrors
    BY <1>4 DEF SweepInv, NairaConstants
  <2>5. \A i \in Intents : Owing(i)' /\ (i \in queue \/ asking[Sweeper] = i) =>
            i \in queue' \/ asking'[Sweeper] = i \/ errors' = errors + 1
    BY <1>1, <1>2, <1>4, <2>1, SweeperApart DEF Owing, NairaInv, AccountType
  <2> QED
    BY <1>1, <1>2, <1>4, <2>2, <2>3, <2>4, <2>5, NoMoreOwing DEF SweepInv
<1>5. \/ /\ Done(w)
         /\ \/ errors' = errors + 1 /\ errors < MaxErrors
            \/ errors' = errors /\ charge[asking[w]] \notin {"paid", "failed"}
      \/ /\ charge[asking[w]] \in {"paid", "failed"}
         /\ heard' = [heard EXCEPT ![w] = charge[asking[w]]]
         /\ UNCHANGED <<asking, errors>>
  BY Zenon DEF Verify
<1> QED
  BY <1>3, <1>4, <1>5

\* Settling closes the row that was asked about.
LEMMA SettleOwes ==
    ASSUME NairaConstants, SweepsAreEnough, NairaInv, SweepInv, NEW w \in Askers, Settle(w)
    PROVE  SweepInv'
<1>1. /\ asking[w] \in Intents /\ Done(w)
      /\ UNCHANGED <<now, place, charge, sweeping, queue, swept, errors>>
      /\ Close(asking[w], "succeeded") \/ Close(asking[w], "failed")
  BY DEF Settle, Credit, NairaInv, HeardStands, sweepVars
<1>2. /\ \A j \in Intents : intents'[j].created = intents[j].created
      /\ \A j \in Intents : intents'[j].status \in {"pending", "abandoned"} =>
                               intents'[j] = intents[j] /\ (j = asking[w] => ~Pending(j))
  <2>1. "succeeded" \in {"succeeded", "failed"} /\ "failed" \in {"succeeded", "failed"}
    OBVIOUS
  <2> QED
    BY <1>1, <2>1, CloseCloses
<1>3. \A j \in Intents : Owing(j)' => Owing(j) /\ j # asking[w]
  BY <1>1, <1>2 DEF Owing, Pending
<1>4. /\ asking' = [asking EXCEPT ![w] = None]
      /\ \A v \in Askers : heard'[v] = "failed" => heard[v] = "failed" /\ asking'[v] = asking[v]
  BY <1>1, SweeperApart DEF Done, NairaInv, AccountType
<1>5. \A v \in Askers : heard'[v] = "failed" => charge'[asking'[v]] = "failed"
  BY <1>1, <1>4 DEF SweepInv
<1>6. ~sweeping => queue' = {} /\ asking'[Sweeper] = None
  BY <1>1, <1>4, SweeperApart DEF SweepInv, NairaInv, AccountType
<1>7. \A i \in Intents : Owing(i)' /\ (i \in queue \/ asking[Sweeper] = i) =>
          i \in queue' \/ asking'[Sweeper] = i
  BY <1>1, <1>3, <1>4, SweeperApart DEF NairaInv, AccountType
<1>8. \A j \in Intents : intents'[j].status = "abandoned" => intents[j].status = "abandoned"
  BY <1>2
<1> QED
  BY <1>1, <1>2, <1>3, <1>5, <1>6, <1>7, <1>8, NoMoreOwing DEF SweepInv

\* A batch has room for whatever is due.
LEMMA SelectOwes ==
    ASSUME NairaConstants, SweepsAreEnough, NairaInv, SweepInv, Select
    PROVE  SweepInv'
<1>1. /\ UNCHANGED <<now, intents, place, charge, asking, heard, swept, errors>>
      /\ ~sweeping /\ sweeping' = TRUE
      /\ queue' = {i \in Intents : Due(i) /\ Cardinality({j \in Intents : Due(j) /\ Older(j, i)}) < Batch}
  BY DEF Select, fundingVars, askVars
<1>2. ASSUME NEW i \in Intents, Due(i) PROVE i \in queue'
  <2> DEFINE ahead == {j \in Intents : Due(j) /\ Older(j, i)}
  <2>1. i \notin ahead /\ ahead \in SUBSET Intents
    BY DEF Older, SweepInv
  <2>2. /\ Cardinality(ahead) \in Nat /\ Cardinality(Intents) \in Nat
        /\ Cardinality(ahead) <= Cardinality(Intents)
        /\ Cardinality(ahead) # Cardinality(Intents)
    BY <2>1, FS_Subset, FS_CardinalityType DEF SweepsAreEnough
  <2>3. Cardinality(ahead) < Batch
    BY <2>2 DEF SweepsAreEnough, NairaConstants
  <2> QED
    BY <1>1, <1>2, <2>3
<1>3. ASSUME NEW i \in Intents, Owing(i) PROVE i \in queue' \/ Excused(i)
  <2>1. /\ Age(i) \in Int /\ Late \in Int /\ errors \in Int /\ Late >= SettleAfter
        /\ SettleAfter \in Int /\ AbandonAfter \in Int /\ MaxErrors \in Int
        /\ errors >= 0 /\ errors <= MaxErrors /\ Late + 1 + MaxErrors < AbandonAfter
        /\ Age(i) <= Late + 1 + errors
    BY <1>3, AgeIsInt, LateBounds DEF SweepInv, NairaConstants
  <2>2. CASE Age(i) <= Late
    BY <2>1, <2>2 DEF Excused
  <2>3. CASE ~(Age(i) <= Late)
    <3>1. Age(i) > SettleAfter /\ Age(i) < AbandonAfter
      BY <2>1, <2>3
    <3> QED
      BY <1>2, <1>3, <3>1 DEF Due, Owing
  <2> QED
    BY <2>2, <2>3
<1>4. \A i \in Intents : /\ Age(i)' = Age(i) /\ (Excused(i)' <=> Excused(i))
                         /\ Owing(i)' <=> Owing(i)
  BY <1>1 DEF Age, Excused, Owing, Pending
<1> QED
  BY <1>1, <1>3, <1>4 DEF SweepInv

LEMMA ChaseOwes ==
    ASSUME NairaConstants, SweepsAreEnough, NairaInv, SweepInv, Chase
    PROVE  SweepInv'
<1>1. PICK i \in queue : asking' = [asking EXCEPT ![Sweeper] = i] /\ queue' = queue \ {i}
  BY DEF Chase
<1>2. /\ UNCHANGED <<now, intents, place, charge, heard, sweeping, swept, errors>>
      /\ asking[Sweeper] = None /\ sweeping
  BY <1>1 DEF Chase, fundingVars, SweepInv
<1>3. asking'[Sweeper] = i /\ \A w \in Askers \ {Sweeper} : asking'[w] = asking[w]
  BY <1>1, SweeperApart DEF NairaInv, AccountType
<1>4. \A w \in Askers : heard'[w] = "failed" => w # Sweeper /\ heard[w] = "failed"
  BY <1>2, SweeperApart DEF NairaInv, HeardStands
<1>5. \A w \in Askers : heard'[w] = "failed" => charge'[asking'[w]] = "failed"
  BY <1>2, <1>3, <1>4 DEF SweepInv
<1>6. \A j \in Intents : (Owing(j)' => Owing(j))
                         /\ (j \in queue \/ asking[Sweeper] = j => j \in queue' \/ asking'[Sweeper] = j)
  BY <1>1, <1>2, <1>3, SweeperApart DEF Owing, Pending
<1> QED
  BY <1>2, <1>5, <1>6, NoMoreOwing DEF SweepInv

\* What a sweep leaves open is younger than what it abandons.
LEMMA AbandonOwes ==
    ASSUME NairaConstants, SweepsAreEnough, NairaInv, SweepInv, Abandon
    PROVE  SweepInv'
<1>1. /\ UNCHANGED <<now, place, charge, asking, heard, queue, errors>>
      /\ sweeping /\ ~sweeping' /\ swept' /\ queue = {} /\ asking[Sweeper] = None
      /\ intents' = [i \in Intents |->
                       IF Expired(i) THEN [intents[i] EXCEPT !.status = "abandoned"] ELSE intents[i]]
  BY DEF Abandon, askVars
<1>2. ASSUME NEW i \in Intents
      PROVE  /\ intents'[i].created = intents[i].created
             /\ intents'[i].status = "pending" => intents[i].status = "pending"
             /\ intents'[i].status = "abandoned" => Expired(i) \/ intents[i].status = "abandoned"
  <2>1. intents[i] \in IntentType
    BY DEF NairaInv, AccountType
  <2>2. intents'[i] = IF Expired(i) THEN [intents[i] EXCEPT !.status = "abandoned"] ELSE intents[i]
    BY <1>1
  <2> QED
    BY <2>1, <2>2 DEF IntentType
<1>3. ASSUME NEW i \in Intents, Expired(i) PROVE charge[i] # "paid" /\ Age(i) > LinkLife
  <2>1. /\ Age(i) \in Int /\ Late \in Int /\ errors \in Int /\ Late >= LinkLife /\ LinkLife \in Int
        /\ AbandonAfter \in Int /\ MaxErrors \in Int
        /\ errors >= 0 /\ errors <= MaxErrors /\ Late + 1 + MaxErrors < AbandonAfter
        /\ LinkLife < AbandonAfter /\ Age(i) > AbandonAfter
    BY <1>3, AgeIsInt, LateBounds DEF SweepInv, NairaConstants, Expired
  <2>2. ~(Age(i) <= Late + 1 + errors) /\ Age(i) > LinkLife
    BY <2>1
  <2> QED
    BY <1>3, <2>2 DEF SweepInv, Owing, Expired
<1>4. \A i \in Intents : /\ Age(i)' = Age(i) /\ (Excused(i)' <=> Excused(i))
                         /\ Owing(i)' => Owing(i)
  BY <1>1, <1>2 DEF Age, Excused, Owing, Pending
<1>5. ASSUME NEW i \in Intents, Owing(i)
      PROVE  Age(i) <= Late + 1 + errors /\ Excused(i)
  BY <1>1, <1>5, SweeperApart DEF SweepInv
<1>6. \A i \in Intents : intents'[i].status = "abandoned" => charge'[i] # "paid" /\ Age(i)' > LinkLife
  BY <1>1, <1>2, <1>3, <1>4 DEF SweepInv
<1>7. \A i \in Intents : Owing(i)' => Age(i)' <= Late + 1 + errors' /\ Excused(i)'
  BY <1>1, <1>4, <1>5
<1> QED
  BY <1>1, <1>6, <1>7 DEF SweepInv

\* Between two ticks a sweep ended, which closed or excused whatever is owed.
LEMMA TickOwes ==
    ASSUME NairaConstants, SweepsAreEnough, NairaInv, SweepInv, Tick
    PROVE  SweepInv'
<1>1. /\ UNCHANGED <<intents, place, charge, asking, heard, sweeping, queue, errors>>
      /\ now' = now + 1 /\ swept /\ ~sweeping /\ ~swept'
  BY DEF Tick, fundingVars, askVars
<1>2. \A i \in Intents : Age(i) \in Int /\ Age(i)' = Age(i) + 1 /\ (Owing(i)' <=> Owing(i))
  BY <1>1, AgeIsInt DEF Age, Owing, Pending
<1>3. Late \in Int /\ errors \in Int /\ LinkLife \in Int
  BY LateBounds DEF SweepInv, NairaConstants
<1>4. ASSUME NEW i \in Intents, Owing(i) PROVE Age(i) + 1 <= Late + 1 + errors
  <2>1. Age(i) <= Late + errors
    BY <1>1, <1>4 DEF SweepInv, Excused
  <2> QED
    BY <1>2, <1>3, <2>1
<1>5. \A i \in Intents : Owing(i)' => Age(i)' <= Late + 1 + errors'
  BY <1>1, <1>2, <1>4
<1>6. ASSUME NEW i \in Intents, intents[i].status = "abandoned"
      PROVE  charge[i] # "paid" /\ Age(i) + 1 > LinkLife
  <2>1. charge[i] # "paid" /\ Age(i) > LinkLife
    BY <1>6 DEF SweepInv
  <2> QED
    BY <1>2, <1>3, <2>1
<1> QED
  BY <1>1, <1>2, <1>5, <1>6 DEF SweepInv

LEMMA SweepStarts ==
    ASSUME NairaConstants, Init PROVE SweepInv
BY SweeperApart DEF Init, SweepInv, Owing, Pending, NairaConstants

LEMMA SweepSteps ==
    ASSUME NairaConstants, SweepsAreEnough, NairaInv, SweepInv, [Next]_vars
    PROVE  SweepInv'
<1>1. ASSUME UNCHANGED <<now, intents, place, charge, sweeping, queue, swept, errors>>,
             asking'[Sweeper] = asking[Sweeper],
             \A w \in Askers : heard'[w] = "failed" => heard[w] = "failed" /\ asking'[w] = asking[w]
      PROVE  SweepInv'
  <2>1. \A i \in Intents : Owing(i)' => Owing(i)
    BY <1>1 DEF Owing, Pending
  <2>2. \A w \in Askers : heard'[w] = "failed" => charge'[asking'[w]] = "failed"
    BY <1>1 DEF SweepInv
  <2> QED
    BY <1>1, <2>1, <2>2, NoMoreOwing DEF SweepInv
<1>2. CASE UNCHANGED vars
  BY <1>1, <1>2 DEF vars, fundingVars, askVars, sweepVars
<1>3. ASSUME NEW t \in Tasks, NEW i \in Intents, Confirm(t, i) PROVE SweepInv'
  <2>1. \A w \in Askers : w # t => asking'[w] = asking[w]
    BY <1>3 DEF Confirm, NairaInv, AccountType
  <2>2. heard[t] = "nothing"
    BY <1>3, SweeperApart DEF Confirm, Idle, NairaInv, AccountType, HeardStands
  <2> QED
    BY <1>1, <1>3, <2>1, <2>2, SweeperApart DEF Confirm, fundingVars, sweepVars
<1>4. ASSUME NEW t \in Tasks, Drop(t) PROVE SweepInv'
  <2>1. /\ \A w \in Askers : w # t => asking'[w] = asking[w] /\ heard'[w] = heard[w]
        /\ heard'[t] = "nothing"
    BY <1>4, SweeperApart DEF Drop, Done, NairaInv, AccountType
  <2> QED
    BY <1>1, <1>4, <2>1, SweeperApart DEF Drop, fundingVars, sweepVars
<1>5. ASSUME NEW t \in Tasks, NEW r \in Requests, CheckPayout(t, r) PROVE SweepInv'
  BY <1>1, <1>5 DEF CheckPayout, fundingVars, askVars, sweepVars
<1>6. ASSUME NEW t \in Tasks, ReservePayout(t) PROVE SweepInv'
  BY <1>1, <1>6 DEF ReservePayout, fundingVars, askVars, sweepVars
<1>7. ASSUME NEW k \in Foreign, PostElsewhere(k) PROVE SweepInv'
  BY <1>1, <1>7 DEF PostElsewhere, fundingVars, askVars, sweepVars
<1> QED
  BY <1>2, <1>3, <1>4, <1>5, <1>6, <1>7, SweeperApart, CreateOwes, PayOwes, VerifyOwes, SettleOwes,
     SelectOwes, ChaseOwes, AbandonOwes, TickOwes DEF Next, SweepStep

\* A top-up that is closed as abandoned was never paid, for any number of top-ups
\* that fit a batch and any failures fewer than the sweeps that ask about it
\* between the end of its link and the end of its window (sweep).
THEOREM AbandonedUnpaid ==
    ASSUME NairaConstants, SweepsAreEnough PROVE Spec => []AbandonedWasNotPaid
<1>1. Init => NairaInv /\ SweepInv
  BY NairaStarts, SweepStarts
<1>2. NairaInv /\ SweepInv /\ [Next]_vars => (NairaInv /\ SweepInv)'
  BY NairaSteps, SweepSteps
<1>3. SweepInv => AbandonedWasNotPaid
  BY DEF SweepInv, AbandonedWasNotPaid
<1> QED
  BY <1>1, <1>2, <1>3, PTL DEF Spec

-----------------------------------------------------------------------------
(* The cap, if one request at a time is between its check and its payout.  *)

OnePayer == \A s, t \in Tasks : paying[s] # None /\ paying[t] # None => s = t

Recent  == {k \in Keys : payouts[k] # NoPayout /\ payouts[k].at > now - Day}

\* Within the cap, with whatever a request that has passed the check will add.
CapInv ==
    /\ UsedToday <= Cap
    /\ \A t \in Tasks : paying[t] # None => PayoutAmount[paying[t]] <= Cap - UsedToday

UsedSum ==
    /\ IsFiniteSet(Recent) /\ \A k \in Keys : Asked[k] = payouts[k].amount /\ Asked[k] \in Nat
    /\ UsedToday = SumOf(Asked, Recent) /\ UsedToday \in Int

LEMMA UsedIsSum == BookInv => UsedSum
<1> SUFFICES ASSUME BookInv PROVE UsedSum
  OBVIOUS
<1> DEFINE Counts(g) ==
             g = [s \in SUBSET Recent |->
                    IF s = {} THEN 0 ELSE payouts[First(s)].amount + g[s \ {First(s)}]]
<1>1. IsFiniteSet(Recent)
  <2>1. Recent \subseteq PaidOut
    BY DEF Recent, PaidOut
  <2> QED
    BY <2>1, FS_Subset DEF BookInv
<1>2. \A k \in Keys : Asked[k] = payouts[k].amount /\ Asked[k] \in Nat
  BY DEF Asked, BookInv, BookType
<1>3. UsedToday = (CHOOSE g : Counts(g))[Recent]
  BY DEF UsedToday, MapThenSumSet, MapThenFoldSet, First, Recent
<1>4. ASSUME NEW g PROVE Sums(Asked, Recent, g) <=> Counts(g)
  <2>1. \A s \in SUBSET Recent : s # {} => Asked[First(s)] = payouts[First(s)].amount
    BY <1>2 DEF First, Recent
  <2> QED
    BY <2>1 DEF Sums
<1>5. PICK g : g = (CHOOSE k : Sums(Asked, Recent, k)) /\ Sums(Asked, Recent, g)
  BY <1>1, SumsExist
<1>6. PICK h : h = (CHOOSE k : Counts(k)) /\ Counts(h)
  <2>1. Counts(g)
    BY <1>4, <1>5
  <2> HIDE DEF Counts
  <2> QED
    BY <2>1
<1> HIDE DEF Counts
<1>7. g[Recent] = h[Recent]
  BY <1>1, <1>4, <1>5, <1>6, SumsAgree
<1>8. UsedToday = SumOf(Asked, Recent)
  BY <1>3, <1>5, <1>6, <1>7, SumUnfolds
<1>9. SumOf(Asked, Recent) \in Int
  BY <1>1, <1>2, SumIsInt DEF Recent
<1> QED
  BY <1>1, <1>2, <1>8, <1>9 DEF UsedSum

LEMMA UsedIsSumStill == BookInv' => UsedSum'
BY UsedIsSum, PTL

\* A payout adds what it pays, and time only takes payouts out of the window.
LEMMA UsedGrows ==
    ASSUME NairaConstants, NairaInv, BookInv, BookInv', NEW k \in Keys, NEW amount \in Nat,
           payouts[k] = NoPayout, InsertPayout(k, amount), now' = now
    PROVE  UsedToday' <= UsedToday + amount
<1>1. /\ payouts'[k] = [amount |-> amount, at |-> now]
      /\ \A j \in Keys \ {k} : payouts'[j] = payouts[j]
      /\ k \notin Recent
  BY DEF InsertPayout, BookInv, BookType, Recent
<1>2. Recent' = Recent \/ Recent' = Recent \cup {k}
  BY <1>1 DEF Recent
<1>3. /\ IsFiniteSet(Recent) /\ UsedToday = SumOf(Asked, Recent) /\ UsedToday \in Int
      /\ UsedToday' = SumOf(Asked', Recent')
      /\ \A x \in Recent \cup {k} : Asked'[x] \in Int
  BY UsedIsSum, UsedIsSumStill DEF UsedSum, NairaConstants, Recent
<1>4. SumOf(Asked', Recent) = UsedToday /\ Asked'[k] = amount
  <2>1. \A x \in Recent : Asked'[x] = Asked[x]
    BY <1>1 DEF Asked, Recent
  <2> QED
    BY <1>1, <1>3, <2>1, SumSame DEF Asked
<1>5. SumOf(Asked', Recent \cup {k}) = SumOf(Asked', Recent) + amount
  BY <1>1, <1>3, <1>4, SumAdds
<1>6. CASE Recent' = Recent
  BY <1>3, <1>4, <1>6
<1>7. CASE Recent' = Recent \cup {k}
  BY <1>3, <1>4, <1>5, <1>7
<1> QED
  BY <1>2, <1>6, <1>7

LEMMA UsedShrinks ==
    ASSUME NairaConstants, NairaInv, BookInv, BookInv', Tick
    PROVE  UsedToday' <= UsedToday
<1>1. payouts' = payouts /\ now' = now + 1 /\ now \in Int /\ Day \in Nat
  BY DEF Tick, NairaInv, AccountType, Times, NairaConstants
<1>2. \A k \in Keys : payouts[k].at \in Int
  BY DEF BookInv, BookType, Times
<1>3. Recent' \in SUBSET Recent /\ Asked' = Asked
  BY <1>1, <1>2 DEF Recent, Asked
<1>4. /\ IsFiniteSet(Recent) /\ UsedToday = SumOf(Asked, Recent)
      /\ UsedToday' = SumOf(Asked', Recent')
      /\ \A x \in Recent : Asked[x] \in Nat
  BY UsedIsSum, UsedIsSumStill DEF UsedSum, Recent
<1> QED
  BY <1>3, <1>4, SumOfPart

LEMMA CapStep ==
    ASSUME NairaConstants, NairaInv, BookInv, BookInv', OnePayer, OnePayer', CapInv, [Next]_vars
    PROVE  CapInv'
<1>0. /\ paying \in [Tasks -> Requests \cup {None}] /\ None \notin Requests
      /\ UsedToday \in Int /\ UsedToday' \in Int /\ Cap \in Nat
      /\ \A r \in Requests : PayoutAmount[r] \in Nat /\ ClientKey[r] \in Keys
  BY UsedIsSum, UsedIsSumStill DEF UsedSum, NairaInv, AccountType, NairaConstants
<1>1. ASSUME UsedToday' <= UsedToday, \A t \in Tasks : paying'[t] \in {paying[t], None}
      PROVE  CapInv'
  <2>1. ASSUME NEW t \in Tasks, paying'[t] # None PROVE PayoutAmount[paying'[t]] <= Cap - UsedToday'
    BY <1>0, <1>1, <2>1 DEF CapInv
  <2> QED
    BY <1>0, <1>1, <2>1 DEF CapInv
<1>2. ASSUME UNCHANGED <<payouts, now>> PROVE UsedToday' = UsedToday
  <2>1. Asked' = Asked /\ Recent' = Recent
    BY <1>2 DEF Asked, Recent
  <2> QED
    BY <2>1, UsedIsSum, UsedIsSumStill DEF UsedSum
<1>3. ASSUME NEW t \in Tasks, NEW r \in Requests, CheckPayout(t, r) PROVE CapInv'
  BY <1>0, <1>2, <1>3 DEF CheckPayout, CapInv
<1>4. ASSUME NEW t \in Tasks, ReservePayout(t) PROVE CapInv'
  <2>1. CASE UNCHANGED payouts
    BY <1>0, <1>1, <1>2, <1>4, <2>1 DEF ReservePayout
  <2>2. ASSUME payouts' # payouts PROVE CapInv'
    <3>1. paying[t] \in Requests /\ paying[t] # None /\ now' = now
      BY <1>0, <1>4 DEF ReservePayout
    <3>2. UsedToday' <= UsedToday + PayoutAmount[paying[t]]
      <4>1. InsertPayout(ClientKey[paying[t]], PayoutAmount[paying[t]])
        BY <1>4, <2>2 DEF ReservePayout
      <4>2. payouts[ClientKey[paying[t]]] = NoPayout
        BY <2>2, <4>1 DEF InsertPayout, BookInv, BookType
      <4> QED
        BY <1>0, <3>1, <4>1, <4>2, UsedGrows
    <3>3. PayoutAmount[paying[t]] <= Cap - UsedToday
      BY <3>1 DEF CapInv
    <3>4. \A s \in Tasks : paying'[s] = None
      BY <1>0, <1>4, <3>1 DEF ReservePayout, OnePayer
    <3> QED
      BY <1>0, <3>1, <3>2, <3>3, <3>4 DEF CapInv
  <2> QED
    BY <2>1, <2>2
<1>5. ASSUME NEW t \in Tasks, Drop(t) PROVE CapInv'
  BY <1>0, <1>1, <1>2, <1>5 DEF Drop
<1>6. CASE Tick
  BY <1>1, <1>6, UsedShrinks DEF Tick
<1>7. ASSUME UNCHANGED <<payouts, now, paying>> PROVE CapInv'
  BY <1>0, <1>1, <1>2, <1>7
<1>8. ASSUME NEW w, Verify(w) \/ Settle(w) PROVE UNCHANGED <<payouts, now, paying>>
  BY <1>8 DEF Verify, Settle
<1> QED
  BY <1>3, <1>4, <1>5, <1>6, <1>7, <1>8
     DEF Next, SweepStep, CreateIntent, Pay, Confirm, Select, Chase, Abandon, PostElsewhere, vars

\* payout_usage_24h: the payouts of a rolling day stay within the cap, if no two
\* requests are between the check of the cap and the lock of the account at once
\* (create_payout, which does nothing to keep them apart).
THEOREM CapHoldsAlone == ASSUME NairaConstants PROVE Spec /\ []OnePayer => []CapHolds
<1>1. Init => NairaInv /\ BookInv /\ CapInv
  <2> SUFFICES ASSUME Init PROVE CapInv /\ BookInv
    BY NairaStarts
  <2>1. BookInv
    BY BookStarts
  <2>2. Recent = {} /\ \A t \in Tasks : paying[t] = None
    BY DEF Init, Recent
  <2>3. UsedToday = 0
    BY <2>1, <2>2, UsedIsSum, SumEmpty DEF UsedSum
  <2> QED
    BY <2>1, <2>2, <2>3 DEF CapInv, NairaConstants
<1>2. NairaInv /\ BookInv /\ [Next]_vars => NairaInv' /\ BookInv'
  BY NairaSteps, BookKeeps
<1>3. /\ NairaInv /\ BookInv /\ BookInv' /\ OnePayer /\ OnePayer' /\ CapInv /\ [Next]_vars
      => CapInv'
  BY CapStep
<1>4. CapInv => CapHolds
  BY DEF CapInv, CapHolds
<1> QED
  BY <1>1, <1>2, <1>3, <1>4, PTL DEF Spec
===============================================================================
