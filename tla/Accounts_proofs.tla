--------------------------- MODULE Accounts_proofs ----------------------------
(***************************************************************************)
(* Proofs about what a customer or an operator may do: Reviews, Operators  *)
(* and Payees, for any submissions, staff, callers, keys, rates, orders    *)
(* and lockout; at the end, about all parts side by side (MCAccounts).     *)
(***************************************************************************)
EXTENDS SignIn_proofs, MCAccounts

-----------------------------------------------------------------------------
(* Reviews. A submission decides on a tier it read before, so what it      *)
(* remembers must have been earned, and so must every tier below the one a *)
(* row asks for.                                                           *)

Verification == [target : 1..MaxTier, status : {"pending", "manual_review", "approved", "rejected"}]

FormType == [pc : {"idle", "kyc", "file", "card", "priced"}, tier : 0..MaxTier,
             key : CardKeys \cup {NoRate}, rate : Rates \cup {NoRate}]

\* Every tier up to t is approved by some row.
Climbed(rows, t) ==
    \A u \in 1..t : \E i \in DOMAIN rows : rows[i].target = u /\ rows[i].status = "approved"

KycInv ==
    /\ tier \in 0..MaxTier
    /\ filed \in Seq(Verification)
    /\ form \in [Forms -> FormType]
    /\ Climbed(filed, tier)
    /\ \A i \in DOMAIN filed : Climbed(filed, filed[i].target - 1)
    /\ \A f \in Forms : /\ Climbed(filed, form[f].tier)
                        /\ form[f].pc \in {"kyc", "file"} => form[f].tier < MaxTier

CardsInv ==
    /\ rate \in Rates \cup {NoRate}
    /\ cards \in [CardKeys -> Rates \cup {NoRate}]
    /\ quotes \in [CardKeys -> SUBSET Rates]
    /\ \A f \in Forms : /\ form[f].pc = "priced" => form[f].rate \in Rates
                        /\ form[f].pc \in {"card", "priced"} => form[f].key \in CardKeys
    /\ \A k \in CardKeys : cards[k] = NoRate => quotes[k] = {}
    /\ QuoteIsBinding

-----------------------------------------------------------------------------
(* Verification.                                                           *)

LEMMA NoFormType ==
    /\ NoForm \in FormType /\ NoForm.pc = "idle" /\ NoForm.tier = 0
    /\ \A rows : Climbed(rows, NoForm.tier)
BY DEF NoForm, FormType, MaxTier, Climbed

AskedCard(rec, k)  == [rec EXCEPT !.pc = "card", !.key = k]
PricedCard(rec, r) == [rec EXCEPT !.pc = "priced", !.rate = r]

LEMMA AskedType ==
    ASSUME NEW rec \in FormType, NEW k \in CardKeys
    PROVE  /\ AskedCard(rec, k) \in FormType
           /\ AskedCard(rec, k).pc = "card" /\ AskedCard(rec, k).tier = rec.tier
           /\ AskedCard(rec, k).key = k
BY DEF FormType, AskedCard

LEMMA PricedType ==
    ASSUME NEW rec \in FormType, NEW r \in Rates \cup {NoRate}
    PROVE  /\ PricedCard(rec, r) \in FormType
           /\ PricedCard(rec, r).pc = "priced" /\ PricedCard(rec, r).tier = rec.tier
           /\ PricedCard(rec, r).key = rec.key /\ PricedCard(rec, r).rate = r
BY DEF FormType, PricedCard

LEMMA KycStarts == ASSUME ReviewsInit PROVE KycInv
BY NoFormType DEF ReviewsInit, KycInv, Climbed, MaxTier, Verification

\* What was climbed stays climbed while approvals stay.
LEMMA StaysClimbed ==
    ASSUME NEW rows, NEW more, NEW t,
           \A i \in DOMAIN rows : rows[i].status = "approved" => i \in DOMAIN more /\ more[i] = rows[i],
           Climbed(rows, t)
    PROVE  Climbed(more, t)
BY DEF Climbed

\* A step of a form that files nothing.
LEMMA FormMoves ==
    ASSUME KycInv, NEW f \in Forms, NEW to \in FormType,
           form' = [form EXCEPT ![f] = to], UNCHANGED <<tier, filed>>,
           Climbed(filed, to.tier),
           to.pc \in {"kyc", "file"} => to.tier < MaxTier
    PROVE  KycInv'
BY DEF KycInv

\* A row is added, and the tier may become the one it asks for.
LEMMA SubmitKeeps == ASSUME KycInv, NEW f \in Forms, Submit(f) PROVE KycInv'
<1> DEFINE target == Target(form[f].tier)
           entry == [target |-> target, status |-> IF auto THEN "approved" ELSE "pending"]
<1>1. /\ target \in 1..MaxTier /\ target - 1 = form[f].tier
      /\ Climbed(filed, target - 1)
      /\ form' = [form EXCEPT ![f] = NoForm]
  BY DEF Submit, KycInv, Target, MaxTier, Filled, FormType
<1>2. /\ entry \in Verification /\ entry.target = target
      /\ auto => entry.status = "approved"
  BY <1>1 DEF Verification
<1>3. \/ UNCHANGED <<tier, filed>>
      \/ filed' = Append(filed, entry) /\ tier' = IF auto THEN target ELSE tier
  BY DEF Submit
<1> HIDE DEF target, entry
<1>4. CASE UNCHANGED <<tier, filed>>
  BY <1>1, <1>4, NoFormType, FormMoves
<1>5. CASE filed' = Append(filed, entry) /\ tier' = IF auto THEN target ELSE tier
  <2>1. /\ filed' \in Seq(Verification)
        /\ DOMAIN filed' = DOMAIN filed \cup {Len(filed) + 1}
        /\ \A i \in DOMAIN filed : filed'[i] = filed[i]
        /\ filed'[Len(filed) + 1] = entry
    BY <1>2, <1>5 DEF KycInv
  <2>2. \A t : Climbed(filed, t) => Climbed(filed', t)
    BY <2>1, StaysClimbed
  <2>3. tier' \in 0..MaxTier /\ Climbed(filed', tier')
    <3>1. CASE auto
      <4>1. \A u \in 1..target : u = target \/ u \in 1..(target - 1)
        BY <1>1
      <4>2. Climbed(filed', target)
        BY <1>1, <1>2, <2>1, <2>2, <3>1, <4>1 DEF Climbed
      <4> QED
        BY <1>1, <1>5, <3>1, <4>2
    <3>2. CASE ~auto
      BY <1>5, <2>2, <3>2 DEF KycInv
    <3> QED
      BY <3>1, <3>2
  <2>4. \A i \in DOMAIN filed' : Climbed(filed', filed'[i].target - 1)
    BY <1>1, <1>2, <2>1, <2>2 DEF KycInv
  <2>5. \A g \in Forms : /\ form'[g] \in FormType /\ Climbed(filed', form'[g].tier)
                         /\ form'[g].pc \in {"kyc", "file"} => form'[g].tier < MaxTier
    BY <1>1, <2>2, NoFormType DEF KycInv
  <2> QED
    BY <1>1, <2>1, <2>3, <2>4, <2>5, NoFormType DEF KycInv
<1> QED
  BY <1>3, <1>4, <1>5

\* The reviewer approves a row: the tiers below it were climbed already.
LEMMA ReviewKeeps == ASSUME KycInv, NEW i \in DOMAIN filed, Review(i) PROVE KycInv'
<1>1. PICK status \in {"approved", "rejected", "manual_review"} :
        /\ filed' = [filed EXCEPT ![i].status = status]
        /\ tier' = IF status = "approved" THEN filed[i].target ELSE tier
  BY DEF Review
<1>2. filed[i].status # "approved" /\ filed[i] \in Verification
  BY DEF Review, Waiting, KycInv
<1>3. /\ DOMAIN filed' = DOMAIN filed
      /\ filed' \in Seq(Verification)
      /\ \A j \in DOMAIN filed : filed'[j].target = filed[j].target
      /\ \A j \in DOMAIN filed \ {i} : filed'[j] = filed[j]
      /\ filed'[i].status = status
  BY <1>1, <1>2 DEF KycInv, Verification
<1>4. \A t : Climbed(filed, t) => Climbed(filed', t)
  BY <1>2, <1>3, StaysClimbed
<1>5. tier' \in 0..MaxTier /\ Climbed(filed', tier')
  <2>1. CASE status = "approved"
    <3>1. filed[i].target \in 1..MaxTier /\ Climbed(filed', filed[i].target - 1)
      BY <1>2, <1>4 DEF KycInv, Verification
    <3>2. \A u \in 1..filed[i].target : u = filed[i].target \/ u \in 1..(filed[i].target - 1)
      BY <3>1 DEF MaxTier
    <3> QED
      BY <1>1, <1>3, <2>1, <3>1, <3>2 DEF Climbed, MaxTier
  <2>2. CASE status # "approved"
    BY <1>1, <1>4, <2>2 DEF KycInv
  <2> QED
    BY <2>1, <2>2
<1> QED
  BY <1>3, <1>4, <1>5 DEF KycInv, Review

LEMMA KycSteps == ASSUME KycInv, CardsInv, [ReviewsNext]_reviewVars PROVE KycInv'
<1>1. CASE UNCHANGED <<tier, filed, form>>
  BY <1>1 DEF KycInv
<1>2. ASSUME NEW f \in Forms, SubmitReads(f) PROVE KycInv'
  <2>1. [NoForm EXCEPT !.pc = "kyc", !.tier = tier] \in FormType
    BY DEF NoForm, FormType, KycInv
  <2> QED
    BY <1>2, <2>1, FormMoves DEF SubmitReads, Filled, KycInv, NoForm
<1>3. ASSUME NEW f \in Forms, SubmitLooks(f) PROVE KycInv'
  <2>1. /\ [form[f] EXCEPT !.pc = "file"] \in FormType
        /\ [form[f] EXCEPT !.pc = "file"].tier = form[f].tier
        /\ form[f].pc = "kyc"
    BY <1>3 DEF KycInv, FormType, SubmitLooks
  <2> QED
    BY <1>3, <2>1, NoFormType, FormMoves DEF SubmitLooks, Filled, KycInv
<1>4. ASSUME NEW f \in Forms, CardPriced(f) PROVE KycInv'
  <2>1. /\ form[f] \in FormType /\ rate \in Rates \cup {NoRate} /\ Climbed(filed, form[f].tier)
        /\ form' = [form EXCEPT ![f] = IF rate = NoRate THEN NoForm ELSE PricedCard(form[f], rate)]
        /\ UNCHANGED <<tier, filed>>
    BY <1>4 DEF CardPriced, PricedCard, Filled, KycInv, CardsInv
  <2> QED
    BY <2>1, NoFormType, PricedType, FormMoves
<1>5. ASSUME NEW f \in Forms, CardInserted(f) PROVE KycInv'
  BY <1>5, NoFormType, FormMoves DEF CardInserted, Filled
<1>6. ASSUME NEW f \in Forms, NEW k \in CardKeys, CardReads(f, k) PROVE KycInv'
  <2>1. \/ UNCHANGED form
        \/ form' = [form EXCEPT ![f] = AskedCard(NoForm, k)]
    BY <1>6 DEF CardReads, AskedCard, Filled
  <2> QED
    BY <1>1, <1>6, <2>1, NoFormType, AskedType, FormMoves DEF CardReads
<1>7. ASSUME NEW r \in Rates \cup {NoRate}, Retuned(r) PROVE KycInv'
  BY <1>1, <1>7 DEF Retuned
<1> QED
  BY <1>1, <1>2, <1>3, <1>4, <1>5, <1>6, <1>7, SubmitKeeps, ReviewKeeps DEF ReviewsNext, reviewVars

-----------------------------------------------------------------------------
(* Gift cards.                                                             *)

LEMMA CardsStart == ASSUME ReviewsInit PROVE CardsInv
BY DEF ReviewsInit, CardsInv, QuoteIsBinding, NoForm

\* An answer names the payout of the key's row.
LEMMA CardSteps == ASSUME ReviewsConstants, KycInv, CardsInv, [ReviewsNext]_reviewVars PROVE CardsInv'
<1> USE DEF Filled, Tell, QuoteIsBinding
<1>1. CASE UNCHANGED <<rate, cards, quotes, form>>
  BY <1>1 DEF CardsInv
<1>2. ASSUME NEW f \in Forms, NEW to \in FormType, form' = [form EXCEPT ![f] = to],
             to.pc = "priced" => to.rate \in Rates,
             to.pc \in {"card", "priced"} => to.key \in CardKeys,
             UNCHANGED <<rate, cards, quotes>>
      PROVE  CardsInv'
  BY <1>2 DEF CardsInv, KycInv
<1>3. ASSUME NEW f \in Forms, SubmitReads(f) \/ SubmitLooks(f) \/ Submit(f) PROVE CardsInv'
  <2>1. /\ UNCHANGED <<rate, cards, quotes>>
        /\ \E to \in FormType : to.pc \in {"idle", "kyc", "file"} /\ form' = [form EXCEPT ![f] = to]
    <3>1. CASE SubmitReads(f)
      BY <3>1 DEF SubmitReads, NoForm, FormType, KycInv
    <3>2. CASE SubmitLooks(f)
      BY <3>2, NoFormType DEF SubmitLooks, FormType, KycInv
    <3>3. CASE Submit(f)
      BY <3>3, NoFormType DEF Submit
    <3> QED
      BY <1>3, <3>1, <3>2, <3>3
  <2> QED
    BY <1>2, <2>1
<1>4. ASSUME NEW f \in Forms, CardPriced(f) PROVE CardsInv'
  <2>1. /\ form[f] \in FormType /\ form[f].key \in CardKeys
        /\ rate \in Rates \cup {NoRate}
        /\ UNCHANGED <<rate, cards, quotes>>
        /\ form' = [form EXCEPT ![f] = IF rate = NoRate THEN NoForm ELSE PricedCard(form[f], rate)]
    BY <1>4 DEF CardPriced, PricedCard, CardsInv, KycInv
  <2> QED
    BY <1>2, <2>1, NoFormType, PricedType
<1>5. ASSUME NEW f \in Forms, CardInserted(f) PROVE CardsInv'
  <2>1. PICK k \in CardKeys, r \in Rates : k = form[f].key /\ r = form[f].rate /\ form[f].pc = "priced"
    BY <1>5 DEF CardInserted, CardsInv
  <2>2. /\ form' = [form EXCEPT ![f] = NoForm] /\ UNCHANGED rate
        /\ NoForm.pc = "idle"
    BY <1>5 DEF CardInserted, NoForm
  <2>3. CASE cards[k] = NoRate
    <3>1. /\ cards' = [cards EXCEPT ![k] = r]
          /\ quotes' = [quotes EXCEPT ![k] = @ \cup {r}]
      BY <1>5, <2>1, <2>3 DEF CardInserted
    <3> QED
      BY <2>1, <2>2, <2>3, <3>1 DEF ReviewsConstants, CardsInv, KycInv
  <2>4. CASE cards[k] # NoRate
    <3>1. UNCHANGED <<cards, quotes>>
      BY <1>5, <2>1, <2>4 DEF CardInserted
    <3> QED
      BY <2>2, <3>1 DEF CardsInv, KycInv
  <2> QED
    BY <2>3, <2>4
<1>6. ASSUME NEW f \in Forms, NEW k \in CardKeys, CardReads(f, k) PROVE CardsInv'
  <2>1. CASE cards[k] # NoRate
    BY <1>6, <2>1 DEF CardReads, CardsInv, KycInv
  <2>2. CASE cards[k] = NoRate
    <3>1. /\ form' = [form EXCEPT ![f] = AskedCard(NoForm, k)]
          /\ UNCHANGED <<rate, cards, quotes>>
      BY <1>6, <2>2 DEF CardReads, AskedCard
    <3> QED
      BY <1>2, <3>1, NoFormType, AskedType
  <2> QED
    BY <2>1, <2>2
<1>7. ASSUME NEW r \in Rates \cup {NoRate}, Retuned(r) PROVE CardsInv'
  BY <1>7 DEF Retuned, CardsInv
<1>8. ASSUME NEW i \in DOMAIN filed, Review(i) PROVE CardsInv'
  BY <1>1, <1>8 DEF Review
<1> QED
  BY <1>1, <1>3, <1>4, <1>5, <1>6, <1>7, <1>8 DEF ReviewsNext, reviewVars

-----------------------------------------------------------------------------
\* Whoever has a tier had every tier up to it approved, however many submissions
\* decide at once on a tier that is no longer the customer's (submit).
THEOREM TiersEarned == ASSUME ReviewsConstants PROVE ReviewsSpec => []EarnedStepByStep
<1>1. ReviewsInit => KycInv /\ CardsInv
  BY KycStarts, CardsStart
<1>2. KycInv /\ CardsInv /\ [ReviewsNext]_reviewVars => (KycInv /\ CardsInv)'
  BY KycSteps, CardSteps
<1>3. KycInv => EarnedStepByStep
  BY DEF KycInv, EarnedStepByStep, Climbed
<1> QED
  BY <1>1, <1>2, <1>3, PTL DEF ReviewsSpec

\* All the answers an Idempotency-Key ever got name the payout of its row,
\* whatever the desk did to the rate in between (giftcard_routes.rs submit).
THEOREM QuotesBind == ASSUME ReviewsConstants PROVE ReviewsSpec => []QuoteIsBinding
<1>1. ReviewsInit => KycInv /\ CardsInv
  BY KycStarts, CardsStart
<1>2. KycInv /\ CardsInv /\ [ReviewsNext]_reviewVars => (KycInv /\ CardsInv)'
  BY KycSteps, CardSteps
<1>3. CardsInv => QuoteIsBinding
  BY DEF CardsInv
<1> QED
  BY <1>1, <1>2, <1>3, PTL DEF ReviewsSpec

-----------------------------------------------------------------------------
(* Operators. The log: a refund row is owed by one request alone, the one  *)
(* that closed the order, since an order is held at most once. The         *)
(* authenticator: a code that may still be wrong was let in while a        *)
(* failure was to spare.                                                   *)

DeskType ==
    [pc : {"idle", "totp", "issue", "look", "claim", "apply", "check", "hash", "write", "alert",
           "revoke", "unseat"},
     who : Staff \cup {Nobody}, job : Jobs, case : Cases \cup {Nobody}, key : Keys \cup {Nobody},
     prev : Nat]

\* An order that was refunded; one that has its refund row; the request that is
\* about to write it.
WasRefunded(c) == ~cases[c].held /\ cases[c].refunds >= 1
Audited(c)     == \E i \in DOMAIN audit : audit[i].action = "refund" /\ audit[i].case = c
Owes(d, c)     == desk[d].pc \in {"hash", "write"} /\ desk[d].job = "refund" /\ desk[d].case = c

\* What the step a request is at says about the request.
Fits(w) ==
    /\ w.pc \in {"look", "claim", "apply", "check", "hash", "write"} => w.case \in Cases
    /\ w.pc \in {"look", "claim"} => w.job \in {"refund", "recheck"}
    /\ w.pc = "apply" => w.job = "refund"
    /\ w.pc = "check" => w.job = "recheck"
    /\ w.pc = "alert" => w.prev \in DOMAIN audit /\ audit[w.prev].action = "refund"

\* A token is only on an order that is held: what closes it takes it off.
Kept == {x \in Case : x.claim = Nobody \/ x.held}

LogTypes ==
    /\ clock \in Nat
    /\ audit \in Seq(Line)
    /\ cases \in [Cases -> Kept]
    /\ desk \in [Desks -> DeskType]
    /\ alerts \subseteq DOMAIN audit

RowsAreTrue ==
    \A i \in DOMAIN audit : audit[i].action = "refund" =>
        audit[i].case \in Cases /\ WasRefunded(audit[i].case)

LogInv ==
    /\ LogTypes
    /\ \A d \in Desks : Fits(desk[d])
    /\ \A d \in Desks, c \in Cases : Owes(d, c) => WasRefunded(c) /\ ~Audited(c)
    /\ \A d, e \in Desks, c \in Cases : Owes(d, c) /\ Owes(e, c) => d = e
    /\ RowsAreTrue
    /\ AuditedWasRefunded

-----------------------------------------------------------------------------
LEMMA NoWorkType == NoWork \in DeskType /\ NoWork.pc = "idle"
BY DEF NoWork, DeskType, Jobs

LEMMA NobodyIsNoCase == ASSUME OperatorsConstants PROVE Nobody \notin Cases /\ Nobody \notin Staff
BY DEF OperatorsConstants

LEMMA LogStarts == ASSUME OperatorsInit PROVE LogInv
BY NoWorkType DEF OperatorsInit, LogInv, LogTypes, Fits, Owes, RowsAreTrue, AuditedWasRefunded, Case, Kept

\* What an order is once it is closed, and once its token is off.
LEMMA ClosedCase ==
    ASSUME NEW x \in Case, NEW n \in {0, 1}
    PROVE  /\ Close(x, n) \in Kept /\ ~Close(x, n).held
           /\ n = 1 => Close(x, n).refunds >= 1
           /\ Loose(x) \in Kept /\ Loose(x).held = x.held /\ Loose(x).refunds = x.refunds
<1>1. /\ Loose(x) \in Case /\ Loose(x).held = x.held /\ Loose(x).refunds = x.refunds
      /\ Loose(x).claim = Nobody /\ x.refunds \in Nat
  BY DEF Loose, Case
<1> DEFINE y == Loose(x)
<1> HIDE DEF y
<1>2. y \in Case /\ y.claim = Nobody /\ y.refunds \in Nat
  BY <1>1 DEF y
<1>3. LET shut == [y EXCEPT !.held = FALSE, !.refunds = @ + n]
      IN  shut \in Case /\ ~shut.held /\ shut.claim = Nobody /\ (n = 1 => shut.refunds >= 1)
  <2>1. y.refunds + n \in Nat /\ (n = 1 => y.refunds + n >= 1)
    BY <1>2
  <2> DEFINE m == y.refunds + n
  <2> HIDE DEF m
  <2>2. LET shut == [y EXCEPT !.held = FALSE, !.refunds = m]
        IN  shut \in Case /\ ~shut.held /\ shut.claim = Nobody /\ shut.refunds = m
    BY <1>2, <2>1 DEF Case, m
  <2> QED
    BY <2>1, <2>2 DEF m
<1>4. Close(x, n) = [y EXCEPT !.held = FALSE, !.refunds = @ + n]
  BY DEF Close, y
<1> QED
  BY <1>1, <1>3, <1>4 DEF Kept

\* Closing an order that is held leaves it closed, and takes no refund back.
LEMMA CaseCloses ==
    ASSUME LogInv, NEW c \in Cases, NEW n \in {0, 1},
           cases' = [cases EXCEPT ![c] = Close(cases[c], n)], cases[c].held
    PROVE  /\ cases' \in [Cases -> Kept]
           /\ \A q \in Cases : WasRefunded(q) => WasRefunded(q)'
           /\ n = 1 => WasRefunded(c)'
           /\ ~Audited(c)
           /\ \A d \in Desks : ~Owes(d, c)
<1> DEFINE shut == Close(cases[c], n)
<1>1. cases \in [Cases -> Kept] /\ cases[c] \in Case
  BY DEF LogInv, LogTypes, Kept
<1>2. shut \in Kept /\ ~shut.held /\ (n = 1 => shut.refunds >= 1)
  BY <1>1, ClosedCase
<1> HIDE DEF shut
<1>4. /\ cases' \in [Cases -> Kept]
      /\ \A q \in Cases : cases'[q] = (IF q = c THEN shut ELSE cases[q])
  BY <1>1, <1>2 DEF shut
<1>5. ~WasRefunded(c)
  BY DEF WasRefunded
<1>6. ~Audited(c) /\ \A d \in Desks : ~Owes(d, c)
  BY <1>5 DEF LogInv, RowsAreTrue, Audited
<1> QED
  BY <1>2, <1>4, <1>5, <1>6 DEF WasRefunded

\* Taking the token off, whoever's it is, takes no refund back either.
LEMMA CaseLoosens ==
    ASSUME LogInv, NEW c \in Cases, cases' = [cases EXCEPT ![c] = Loose(cases[c])]
    PROVE  /\ cases' \in [Cases -> Kept]
           /\ \A q \in Cases : WasRefunded(q) => WasRefunded(q)'
<1> DEFINE freed == Loose(cases[c])
<1>1. cases \in [Cases -> Kept] /\ cases[c] \in Case
  BY DEF LogInv, LogTypes, Kept
<1>2. freed \in Kept /\ freed.held = cases[c].held /\ freed.refunds = cases[c].refunds
  BY <1>1, ClosedCase
<1> HIDE DEF freed
<1>3. /\ cases' \in [Cases -> Kept]
      /\ \A q \in Cases : cases'[q].held = cases[q].held /\ cases'[q].refunds = cases[q].refunds
  BY <1>1, <1>2 DEF freed
<1> QED
  BY <1>3 DEF WasRefunded

\* Whose token it is finds the order held.
LEMMA CurrentIsHeld ==
    ASSUME OperatorsConstants, LogInv, NEW d \in Desks, desk[d].case \in Cases, Current(d)
    PROVE  cases[desk[d].case].held
BY DEF OperatorsConstants, LogInv, LogTypes, Kept, Current

\* A request moves on and the log stays; it may owe a row if nobody else does.
LEMMA DeskMoves ==
    ASSUME LogInv, NEW d \in Desks, NEW to \in DeskType,
           desk' = [desk EXCEPT ![d] = to], Fits(to),
           clock' \in Nat, cases' \in [Cases -> Kept], UNCHANGED <<audit, alerts>>,
           \A q \in Cases : WasRefunded(q) => WasRefunded(q)',
           to.pc \in {"hash", "write"} /\ to.job = "refund" =>
               /\ WasRefunded(to.case)' /\ ~Audited(to.case)
               /\ \A e \in Desks : Owes(e, to.case) => e = d
    PROVE  LogInv'
<1>1. /\ desk' \in [Desks -> DeskType]
      /\ desk'[d] = to
      /\ \A e \in Desks \ {d} : desk'[e] = desk[e]
  BY DEF LogInv, LogTypes
<1>2. LogTypes'
  BY <1>1 DEF LogInv, LogTypes
<1>3. ASSUME NEW e \in Desks PROVE Fits(desk[e])'
  BY <1>1 DEF LogInv, Fits
<1>4. ASSUME NEW e \in Desks, NEW c \in Cases, Owes(e, c)'
      PROVE  WasRefunded(c)' /\ ~Audited(c)' /\ (e # d => Owes(e, c)) /\ (e = d => c = to.case)
  BY <1>1, <1>4 DEF LogInv, Owes, Audited
<1>5. ASSUME NEW e \in Desks, NEW b \in Desks, NEW c \in Cases, Owes(e, c)', Owes(b, c)'
      PROVE  e = b
  <2>1. CASE e # d /\ b # d
    BY <1>4, <1>5, <2>1 DEF LogInv
  <2>2. CASE e = d \/ b = d
    <3>1. to.pc \in {"hash", "write"} /\ to.job = "refund" /\ to.case = c
      BY <1>1, <1>5, <2>2 DEF Owes
    <3> QED
      BY <1>4, <1>5, <2>2, <3>1
  <2> QED
    BY <2>1, <2>2
<1>6. RowsAreTrue'
  BY DEF LogInv, RowsAreTrue
<1>7. AuditedWasRefunded'
  BY <1>6 DEF LogInv, AuditedWasRefunded, RowsAreTrue, WasRefunded
<1> QED
  BY <1>2, <1>3, <1>4, <1>5, <1>6, <1>7 DEF LogInv

\* ... and it may do so while orders are as they were.
LEMMA DeskTurns ==
    ASSUME LogInv, NEW d \in Desks, NEW to \in DeskType,
           desk' = [desk EXCEPT ![d] = to], Fits(to),
           UNCHANGED <<clock, cases, audit, alerts>>,
           to.pc \in {"hash", "write"} /\ to.job = "refund" => Owes(d, to.case) /\ to.case \in Cases
    PROVE  LogInv'
<1>1. /\ cases' \in [Cases -> Kept] /\ clock' \in Nat
      /\ \A q \in Cases : WasRefunded(q) => WasRefunded(q)'
  BY DEF LogInv, LogTypes, WasRefunded
<1>2. to.pc \in {"hash", "write"} /\ to.job = "refund" =>
               /\ WasRefunded(to.case)' /\ ~Audited(to.case)
               /\ \A e \in Desks : Owes(e, to.case) => e = d
  BY <1>1 DEF LogInv
<1> QED
  BY <1>1, <1>2, DeskMoves

\* A request that only goes elsewhere, or leaves.
LEMMA DeskGoes ==
    ASSUME LogInv, NEW d \in Desks, NEW pc \in {"issue", "claim", "unseat"},
           Goes(d, pc), pc = "claim" => desk[d].case \in Cases /\ desk[d].job # "revoke",
           UNCHANGED <<clock, cases, audit, alerts>>
    PROVE  LogInv'
<1> DEFINE to == [desk[d] EXCEPT !.pc = pc]
<1>1. desk[d] \in DeskType /\ desk' = [desk EXCEPT ![d] = to]
  BY DEF LogInv, LogTypes, Goes
<1>2. to \in DeskType /\ to.pc = pc /\ to.case = desk[d].case /\ to.job = desk[d].job
  BY <1>1 DEF DeskType
<1> HIDE DEF to
<1> QED
  BY <1>1, <1>2, DeskTurns DEF Fits, DeskType, Jobs

LEMMA DeskLeaves ==
    ASSUME LogInv, NEW d \in Desks, Leaves(d), UNCHANGED <<clock, cases, audit, alerts>>
    PROVE  LogInv'
BY NoWorkType, DeskTurns DEF Leaves, Fits

\* An order changes in a way that takes back no refund.
LEMMA CasesMove ==
    ASSUME LogInv, cases' \in [Cases -> Kept], clock' \in Nat,
           \A q \in Cases : WasRefunded(q) => WasRefunded(q)',
           UNCHANGED <<desk, audit, alerts>>
    PROVE  LogInv'
<1>1. LogTypes' /\ \A d \in Desks : Fits(desk[d])'
  BY DEF LogInv, LogTypes, Fits
<1>2. RowsAreTrue'
  BY DEF LogInv, RowsAreTrue
<1>3. AuditedWasRefunded'
  BY <1>2 DEF LogInv, AuditedWasRefunded, RowsAreTrue, WasRefunded
<1>4. \A d \in Desks, c \in Cases : (Owes(d, c)' <=> Owes(d, c)) /\ (Audited(c)' <=> Audited(c))
  BY DEF Owes, Audited
<1> QED
  BY <1>1, <1>2, <1>3, <1>4 DEF LogInv

-----------------------------------------------------------------------------
(* The requests about orders.                                              *)

LEMMA LookKeeps == ASSUME LogInv, NEW d \in Desks, Look(d) PROVE LogInv'
<1>1. /\ desk[d].case \in Cases /\ desk[d].job # "revoke"
      /\ UNCHANGED <<clock, cases, audit, alerts>>
  BY DEF LogInv, Fits, Look, At
<1>2. Leaves(d) \/ Goes(d, "claim")
  BY DEF Look
<1> QED
  BY <1>1, <1>2, DeskLeaves, DeskGoes

LEMMA ClaimKeeps == ASSUME OperatorsConstants, LogInv, NEW d \in Desks, ClaimCase(d) PROVE LogInv'
<1> DEFINE c == desk[d].case
<1>0. c \in Cases /\ desk[d] \in DeskType /\ Fits(desk[d]) /\ desk[d].pc = "claim"
  BY DEF LogInv, LogTypes, Fits, ClaimCase, At
<1>1. CASE cases[c].held /\ Free(c)
  <2> DEFINE to == [desk[d] EXCEPT !.pc = IF desk[d].job = "refund" THEN "apply" ELSE "check"]
             mine == [[cases[c] EXCEPT !.claim = d] EXCEPT !.until = clock + Lease]
  <2>1. to \in DeskType /\ Fits(to) /\ to.pc \in {"apply", "check"}
    BY <1>0 DEF DeskType, Fits, Jobs
  <2>2. mine \in Kept /\ mine.held = cases[c].held /\ mine.refunds = cases[c].refunds
    <3>1. cases[c] \in Case /\ clock + Lease \in Nat /\ cases[c].held
      BY <1>0, <1>1 DEF LogInv, LogTypes, Kept, OperatorsConstants
    <3> QED
      BY <3>1 DEF Case, Kept
  <2>3. desk' = [desk EXCEPT ![d] = to] /\ UNCHANGED <<clock, audit, alerts>>
    BY <1>1 DEF ClaimCase, Goes, LogInv, LogTypes
  <2>4. cases' = [cases EXCEPT ![c] = mine]
    BY <1>0, <1>1 DEF ClaimCase, LogInv, LogTypes, Kept, Case
  <2> HIDE DEF to, mine, c
  <2>5. /\ cases' \in [Cases -> Kept]
        /\ \A q \in Cases : cases'[q].held = cases[q].held /\ cases'[q].refunds = cases[q].refunds
    BY <1>0, <2>2, <2>4 DEF LogInv, LogTypes
  <2>6. \A q \in Cases : WasRefunded(q) => WasRefunded(q)'
    BY <2>5 DEF WasRefunded
  <2>7. clock' \in Nat
    BY <2>3 DEF LogInv, LogTypes
  <2> QED
    BY <2>1, <2>3, <2>5, <2>6, <2>7, DeskMoves
<1>2. CASE ~(cases[c].held /\ Free(c))
  BY <1>2, DeskLeaves DEF ClaimCase
<1> QED
  BY <1>1, <1>2

\* The request that closes an order with a refund owes its row, and no other does.
LEMMA ApplyKeeps ==
    ASSUME OperatorsConstants, LogInv, NEW d \in Desks, ApplyRefund(d) PROVE LogInv'
<1>0. PICK c \in Cases, w \in DeskType : w = desk[d] /\ c = w.case /\ w.job = "refund"
  BY DEF LogInv, LogTypes, Fits, ApplyRefund, At
<1>1. CASE Current(d)
  <2>1. PICK to \in DeskType : /\ to = [w EXCEPT !.pc = "hash"]
                              /\ to.pc = "hash" /\ to.case = c
    <3>1. LET to == [w EXCEPT !.pc = "hash"]
          IN  to \in DeskType /\ to.pc = "hash" /\ to.case = c
      BY <1>0 DEF DeskType
    <3> QED
      BY <3>1
  <2>2. /\ cases[c].held /\ cases' = [cases EXCEPT ![c] = Close(cases[c], 1)]
        /\ UNCHANGED <<clock, audit, alerts>>
    <3>1. cases[c].held
      BY <1>0, <1>1, CurrentIsHeld
    <3>2. cases' = [cases EXCEPT ![c] = IF cases[c].held THEN Close(cases[c], 1) ELSE cases[c]]
      BY <1>0, <1>1 DEF ApplyRefund
    <3> QED
      BY <3>1, <3>2 DEF ApplyRefund
  <2>3. desk' = [desk EXCEPT ![d] = to]
    BY <1>0, <1>1, <2>1 DEF ApplyRefund, Goes, LogInv, LogTypes
  <2>4. /\ cases' \in [Cases -> Kept]
        /\ \A q \in Cases : WasRefunded(q) => WasRefunded(q)'
        /\ WasRefunded(c)' /\ ~Audited(c) /\ \A e \in Desks : ~Owes(e, c)
    BY <1>0, <2>2, CaseCloses
  <2>5. clock' \in Nat /\ Fits(to)
    BY <1>0, <2>1, <2>2 DEF LogInv, LogTypes, Fits
  <2> QED
    BY <2>1, <2>2, <2>3, <2>4, <2>5, DeskMoves
<1>2. CASE ~Current(d)
  BY <1>2, DeskLeaves DEF ApplyRefund
<1> QED
  BY <1>1, <1>2

LEMMA RecheckKeeps ==
    ASSUME OperatorsConstants, LogInv, NEW d \in Desks, ApplyRecheck(d) PROVE LogInv'
<1> DEFINE c == desk[d].case
           to == [desk[d] EXCEPT !.pc = "hash"]
<1>0. c \in Cases /\ desk[d] \in DeskType /\ desk[d].job = "recheck"
  BY DEF LogInv, LogTypes, Fits, ApplyRecheck, At
<1>1. to \in DeskType /\ to.pc = "hash" /\ to.job = "recheck" /\ Fits(to)
  BY <1>0 DEF DeskType, Fits
<1>2. Goes(d, "hash") => desk' = [desk EXCEPT ![d] = to]
  BY DEF Goes, LogInv, LogTypes
<1>3. UNCHANGED <<clock, audit, alerts>> /\ clock' \in Nat
  BY DEF ApplyRecheck, LogInv, LogTypes
<1>4. Leaves(d) => desk' = [desk EXCEPT ![d] = NoWork]
  BY DEF Leaves
<1>5. ASSUME cases' \in [Cases -> Kept], \A q \in Cases : WasRefunded(q) => WasRefunded(q)',
             Goes(d, "hash") \/ Leaves(d)
      PROVE  LogInv'
  <2> HIDE DEF to
  <2>1. CASE Goes(d, "hash")
    BY <1>1, <1>2, <1>3, <1>5, <2>1, DeskMoves
  <2>2. CASE Leaves(d)
    BY <1>3, <1>4, <1>5, <2>2, DeskMoves, NoWorkType DEF Fits
  <2> QED
    BY <1>5, <2>1, <2>2
<1>6. ASSUME NEW n \in {0, 1}, Current(d), Goes(d, "hash"),
             cases' = [cases EXCEPT ![c] = IF cases[c].held THEN Close(cases[c], n) ELSE cases[c]]
      PROVE  LogInv'
  <2>1. cases[c].held
    BY <1>0, <1>6, CurrentIsHeld
  <2> HIDE DEF c, to
  <2>2. cases' = [cases EXCEPT ![c] = Close(cases[c], n)]
    BY <1>6, <2>1
  <2>3. cases' \in [Cases -> Kept] /\ \A q \in Cases : WasRefunded(q) => WasRefunded(q)'
    BY <1>0, <2>1, <2>2, CaseCloses
  <2> QED
    BY <1>5, <1>6, <2>3
<1>7. ASSUME cases' = [cases EXCEPT ![c] = Loose(cases[c])], Goes(d, "hash") \/ Leaves(d)
      PROVE  LogInv'
  <2> HIDE DEF c, to
  <2>1. cases' \in [Cases -> Kept] /\ \A q \in Cases : WasRefunded(q) => WasRefunded(q)'
    BY <1>0, <1>7, CaseLoosens
  <2> QED
    BY <1>5, <1>7, <2>1
<1>8. ASSUME UNCHANGED cases \/ cases' = [cases EXCEPT ![c] = cases[c]], Leaves(d) PROVE LogInv'
  <2>1. UNCHANGED cases
    BY <1>0, <1>8 DEF LogInv, LogTypes
  <2> QED
    BY <1>3, <1>8, <2>1, DeskLeaves
<1>9. \/ \E n \in {0, 1} : /\ Current(d) /\ Goes(d, "hash")
                          /\ cases' = [cases EXCEPT ![c] = IF cases[c].held THEN Close(cases[c], n)
                                                           ELSE cases[c]]
      \/ cases' = [cases EXCEPT ![c] = Loose(cases[c])] /\ (Goes(d, "hash") \/ Leaves(d))
      \/ (UNCHANGED cases \/ cases' = [cases EXCEPT ![c] = cases[c]]) /\ Leaves(d)
  BY DEF ApplyRecheck
<1> HIDE DEF c, to
<1> QED
  BY <1>6, <1>7, <1>8, <1>9

LEMMA HashKeeps == ASSUME LogInv, NEW d \in Desks, ReadHash(d) PROVE LogInv'
<1> DEFINE to == [[desk[d] EXCEPT !.pc = "write"] EXCEPT !.prev = Len(audit)]
<1>0. desk[d] \in DeskType /\ Fits(desk[d]) /\ desk[d].pc = "hash" /\ Len(audit) \in Nat
  BY DEF LogInv, LogTypes, ReadHash, At
<1>1. /\ to \in DeskType /\ to.pc = "write" /\ to.job = desk[d].job /\ to.case = desk[d].case
      /\ to.case \in Cases
  BY <1>0 DEF DeskType, Fits
<1>2. desk' = [desk EXCEPT ![d] = to] /\ UNCHANGED <<clock, cases, audit, alerts>>
  BY <1>0 DEF ReadHash, LogInv, LogTypes, DeskType
<1> HIDE DEF to
<1> QED
  BY <1>0, <1>1, <1>2, DeskTurns DEF Fits, Owes

\* The row that is written is the only one of its order.
LEMMA WriteKeeps == ASSUME LogInv, NEW d \in Desks, WriteAudit(d) PROVE LogInv'
<1>0. PICK w \in DeskType : w = desk[d] /\ w.pc = "write" /\ w.case \in Cases
  BY DEF LogInv, LogTypes, Fits, WriteAudit, At
<1> DEFINE entry == [action |-> w.job, case |-> w.case, key |-> w.key, prev |-> w.prev]
           n == Len(audit) + 1
<1>1. /\ entry \in Line /\ entry.action = w.job /\ entry.case = w.case
      /\ audit' = Append(audit, entry) /\ audit \in Seq(Line) /\ n = Len(audit) + 1
      /\ UNCHANGED <<clock, cases, alerts>>
  BY <1>0 DEF WriteAudit, LogInv, LogTypes, Line, DeskType
<1> HIDE DEF entry, n
<1>2. /\ audit' \in Seq(Line) /\ DOMAIN audit = 1..Len(audit) /\ DOMAIN audit' = 1..n
      /\ n \in Nat /\ n \in DOMAIN audit' /\ n \notin DOMAIN audit
      /\ \A i \in DOMAIN audit' : audit'[i] = (IF i = n THEN entry ELSE audit[i])
      /\ \A i \in DOMAIN audit' : i = n \/ i \in DOMAIN audit
      /\ DOMAIN audit \subseteq DOMAIN audit'
  BY <1>1
<1>3. PICK to \in DeskType :
         /\ desk' = [desk EXCEPT ![d] = to]
         /\ \/ to.pc = "idle"
            \/ to.pc = "alert" /\ to.prev = n /\ w.job = "refund"
  <2>1. CASE w.job = "refund"
    <3> DEFINE to == [[desk[d] EXCEPT !.pc = "alert"] EXCEPT !.prev = n]
    <3>1. to \in DeskType /\ to.pc = "alert" /\ to.prev = n
      BY <1>0, <1>2 DEF DeskType
    <3>2. desk' = [desk EXCEPT ![d] = to]
      BY <1>0, <1>1, <2>1 DEF WriteAudit, LogInv, LogTypes, DeskType
    <3> QED
      BY <2>1, <3>1, <3>2
  <2>2. CASE w.job # "refund"
    BY <1>0, <2>2, NoWorkType DEF WriteAudit, Leaves
  <2> QED
    BY <2>1, <2>2
<1>4. /\ desk' \in [Desks -> DeskType]
      /\ desk'[d] = to
      /\ \A e \in Desks \ {d} : desk'[e] = desk[e]
  BY <1>3 DEF LogInv, LogTypes
<1>5. w.job = "refund" => Owes(d, w.case)
  BY <1>0 DEF Owes
<1>6. LogTypes'
  BY <1>1, <1>2, <1>4 DEF LogInv, LogTypes
<1>7. ASSUME NEW e \in Desks PROVE Fits(desk[e])'
  <2>1. CASE e = d
    BY <1>1, <1>2, <1>3, <1>4, <2>1 DEF Fits
  <2>2. CASE e # d
    <3>1. desk'[e] = desk[e] /\ Fits(desk[e])
      BY <1>4, <2>2 DEF LogInv
    <3>2. desk[e].pc = "alert" => audit'[desk[e].prev] = audit[desk[e].prev]
      BY <1>2, <3>1 DEF Fits
    <3> QED
      BY <1>2, <3>1, <3>2 DEF Fits
  <2> QED
    BY <2>1, <2>2
<1>8. ASSUME NEW e \in Desks, NEW c \in Cases, Owes(e, c)' PROVE Owes(e, c) /\ e # d
  BY <1>3, <1>4, <1>8 DEF Owes
<1>9. ASSUME NEW c \in Cases, Audited(c)' PROVE Audited(c) \/ (w.job = "refund" /\ c = w.case)
  BY <1>1, <1>2, <1>9 DEF Audited
<1>10. ASSUME NEW e \in Desks, NEW c \in Cases, Owes(e, c)' PROVE WasRefunded(c)' /\ ~Audited(c)'
  <2>1. Owes(e, c) /\ e # d /\ WasRefunded(c) /\ ~Audited(c)
    BY <1>8, <1>10 DEF LogInv
  <2>2. ~(w.job = "refund" /\ c = w.case)
    BY <1>5, <2>1 DEF LogInv
  <2> QED
    BY <1>1, <1>9, <2>1, <2>2 DEF WasRefunded
<1>11. RowsAreTrue'
  BY <1>0, <1>1, <1>2, <1>5 DEF LogInv, RowsAreTrue, WasRefunded
<1>12. ASSUME NEW i \in DOMAIN audit', NEW j \in DOMAIN audit',
              audit'[i].action = "refund", audit'[j].action = "refund",
              audit'[i].case = audit'[j].case
       PROVE  i = j
  <2>1. CASE i # n /\ j # n
    BY <1>2, <1>12, <2>1 DEF LogInv, AuditedWasRefunded
  <2>2. CASE (i = n /\ j # n) \/ (i # n /\ j = n)
    <3>1. w.job = "refund" /\ Audited(w.case)
      BY <1>1, <1>2, <1>12, <2>2 DEF Audited
    <3> QED
      BY <1>0, <1>5, <3>1 DEF LogInv
  <2> QED
    BY <2>1, <2>2
<1>13. AuditedWasRefunded'
  BY <1>1, <1>2, <1>11, <1>12 DEF LogInv, LogTypes, AuditedWasRefunded, RowsAreTrue, WasRefunded
<1> QED
  BY <1>6, <1>7, <1>8, <1>10, <1>11, <1>13 DEF LogInv

LEMMA AlertKeeps == ASSUME LogInv, NEW d \in Desks, Alert(d) PROVE LogInv'
<1>1. /\ desk[d].prev \in DOMAIN audit /\ audit[desk[d].prev].action = "refund"
      /\ alerts' = alerts \cup {desk[d].prev}
      /\ desk' = [desk EXCEPT ![d] = NoWork]
      /\ UNCHANGED <<clock, audit, cases>>
  BY DEF Alert, LogInv, Fits, At, Leaves
<1>2. /\ desk' \in [Desks -> DeskType]
      /\ \A e \in Desks : desk'[e] = (IF e = d THEN NoWork ELSE desk[e])
  BY <1>1, NoWorkType DEF LogInv, LogTypes
<1>3. LogTypes' /\ AuditedWasRefunded' /\ RowsAreTrue'
  BY <1>1, <1>2 DEF LogInv, LogTypes, AuditedWasRefunded, RowsAreTrue, WasRefunded
<1>4. \A e \in Desks : Fits(desk[e])'
  BY <1>1, <1>2, NoWorkType DEF LogInv, Fits
<1>5. \A e \in Desks, c \in Cases : Owes(e, c)' => Owes(e, c) /\ WasRefunded(c)' /\ ~Audited(c)'
  BY <1>1, <1>2, NoWorkType DEF LogInv, Owes, WasRefunded, Audited
<1> QED
  BY <1>3, <1>4, <1>5 DEF LogInv

-----------------------------------------------------------------------------
(* The requests about people, and the clock.                               *)

LEMMA SeatsKeep == ASSUME LogInv, SeatStep PROVE LogInv'
<1>1. ASSUME NEW d \in Desks, NEW e \in Staff, Enroll(d, e) PROVE LogInv'
  BY <1>1, CasesMove DEF Enroll, LogInv, LogTypes, WasRefunded
<1>2. ASSUME NEW d \in Desks, NEW e \in Staff, CreateSession(d, e) PROVE LogInv'
  <2>1. PICK to \in DeskType : to = [NoWork EXCEPT !.pc = "totp", !.who = e] /\ to.pc = "totp"
    <3>1. LET to == [NoWork EXCEPT !.pc = "totp", !.who = e] IN to \in DeskType /\ to.pc = "totp"
      BY DEF NoWork, DeskType, Jobs
    <3> QED
      BY <3>1
  <2> QED
    BY <1>2, <2>1, DeskTurns DEF CreateSession, Arrive, Fits
<1>3. ASSUME NEW d \in Desks, TotpWrong(d) \/ IssueSeat(d) \/ Revoke2(d) PROVE LogInv'
  BY <1>3, DeskLeaves DEF TotpWrong, IssueSeat, Revoke2
<1>4. ASSUME NEW d \in Desks, TotpRight(d) PROVE LogInv'
  BY <1>4, DeskGoes DEF TotpRight
<1>5. ASSUME NEW d \in Desks, Revoke1(d) PROVE LogInv'
  BY <1>5, DeskLeaves, DeskGoes DEF Revoke1
<1>6. ASSUME NEW s \in DOMAIN seats, DeleteSession(s) PROVE LogInv'
  BY <1>6, CasesMove DEF DeleteSession, LogInv, LogTypes, WasRefunded
<1>7. ASSUME NEW s \in DOMAIN seats, NEW e \in Staff, Invite(s, e) PROVE LogInv'
  BY <1>7, CasesMove DEF Invite, LogInv, LogTypes, WasRefunded
<1> QED
  BY <1>1, <1>2, <1>3, <1>4, <1>5, <1>6, <1>7 DEF SeatStep

LEMMA AdmitKeeps ==
    ASSUME LogInv, NEW d \in Desks, NEW s \in DOMAIN seats, NEW job \in Jobs,
           NEW c \in Cases \cup {Nobody}, NEW k \in Keys \cup {Nobody},
           NEW e \in Staff \cup {Nobody}, job # "revoke" => c \in Cases,
           Admit(d, s, job, c, k, e)
    PROVE  LogInv'
<1> DEFINE pc == IF job = "revoke" THEN job ELSE "look"
           to == [NoWork EXCEPT !.pc = pc, !.job = job, !.case = c, !.key = k, !.who = e]
<1>1. to \in DeskType /\ to.pc = pc /\ to.job = job /\ to.case = c
  BY DEF NoWork, DeskType, Jobs
<1>2. desk' = [desk EXCEPT ![d] = to] /\ UNCHANGED <<clock, cases, audit, alerts>>
  BY DEF Admit
<1>3. Fits(to)
  BY <1>1 DEF Fits, Jobs
<1> HIDE DEF to
<1> QED
  BY <1>1, <1>2, <1>3, DeskTurns

LEMMA ElsewhereKeeps == ASSUME LogInv, NEW c \in Cases, Elsewhere(c) PROVE LogInv'
<1>1. \/ \E n \in {0, 1} : cases' = [cases EXCEPT ![c] = Close(cases[c], n)]
      \/ cases' = [cases EXCEPT ![c] = Loose(cases[c])]
  BY DEF Elsewhere
<1>2. /\ cases' \in [Cases -> Kept]
      /\ \A q \in Cases : WasRefunded(q) => WasRefunded(q)'
  BY <1>1, CaseCloses, CaseLoosens DEF Elsewhere
<1> QED
  BY <1>2, CasesMove DEF Elsewhere, LogInv, LogTypes

LEMMA RestartKeeps == ASSUME LogInv, Restart PROVE LogInv'
<1>1. /\ \A d \in Desks : desk'[d] = NoWork
      /\ desk' \in [Desks -> DeskType]
      /\ UNCHANGED <<clock, audit, alerts, cases>>
  BY NoWorkType DEF Restart
<1>2. LogTypes' /\ RowsAreTrue' /\ AuditedWasRefunded'
  BY <1>1 DEF LogInv, LogTypes, RowsAreTrue, AuditedWasRefunded, WasRefunded
<1> QED
  BY <1>1, <1>2, NoWorkType DEF LogInv, Fits, Owes

LEMMA LogSteps ==
    ASSUME OperatorsConstants, LogInv, [OperatorsNext]_operatorVars
    PROVE  LogInv'
<1>1. CASE UNCHANGED operatorVars
  BY <1>1, CasesMove DEF operatorVars, LogInv, LogTypes, WasRefunded
<1>2. CASE SeatStep
  BY <1>2, SeatsKeep
<1>3. CASE AdmitStep
  BY <1>3, AdmitKeeps DEF AdmitStep, Jobs
<1>4. CASE OrderStep
  BY <1>4, LookKeeps, ClaimKeeps, ApplyKeeps, RecheckKeeps, HashKeeps, WriteKeeps, AlertKeeps,
     ElsewhereKeeps DEF OrderStep
<1>5. ASSUME NEW d \in Desks, Drop(d) PROVE LogInv'
  BY <1>5, DeskLeaves DEF Drop
<1>6. CASE Restart
  BY <1>6, RestartKeeps
<1>7. CASE Passes
  BY <1>7, CasesMove DEF Passes, LogInv, LogTypes, WasRefunded
<1> QED
  BY <1>1, <1>2, <1>3, <1>4, <1>5, <1>6, <1>7 DEF OperatorsNext

-----------------------------------------------------------------------------
(* The authenticator.                                                      *)

\* Requests that passed the lockout and whose code is still to be checked.
Trying(e) == {d \in Desks : desk[d].pc = "totp" /\ desk[d].who = e}

Spared(e) == Cardinality(Recent(e)) + Cardinality(Trying(e)) <= MaxFailures + Cardinality(Desks) - 1

TotpInv ==
    /\ failures \in [Staff -> SUBSET Stamp]
    /\ \A e \in Staff : IsFiniteSet(failures[e])
    /\ \A e \in Staff : Spared(e)

LEMMA TryingIsFinite ==
    ASSUME OperatorsConstants, NEW e
    PROVE  /\ IsFiniteSet(Trying(e)) /\ Cardinality(Trying(e)) \in Nat
           /\ Cardinality(Desks) \in Nat /\ Cardinality(Trying(e)) <= Cardinality(Desks)
<1>1. IsFiniteSet(Desks) /\ Trying(e) \in SUBSET Desks
  BY DEF OperatorsConstants, Trying
<1> QED
  BY <1>1, FS_Subset, FS_CardinalityType

LEMMA RecentIsFinite ==
    ASSUME TotpInv, NEW e \in Staff
    PROVE  IsFiniteSet(Recent(e)) /\ Cardinality(Recent(e)) \in Nat
<1>1. IsFiniteSet(failures[e]) /\ Recent(e) \in SUBSET failures[e]
  BY DEF TotpInv, Recent
<1> QED
  BY <1>1, FS_Subset, FS_CardinalityType

\* Fewer failures and fewer codes to check spare no less.
LEMMA FewerAreSpared ==
    ASSUME OperatorsConstants, TotpInv, NEW e \in Staff,
           Recent(e)' \subseteq Recent(e), Trying(e)' \subseteq Trying(e)
    PROVE  Spared(e)'
<1>1. /\ Cardinality(Recent(e)') \in Nat
      /\ Cardinality(Recent(e)') <= Cardinality(Recent(e))
  <2>1. IsFiniteSet(Recent(e)) /\ Recent(e)' \in SUBSET Recent(e)
    BY RecentIsFinite
  <2> QED
    BY <2>1, FS_Subset, FS_CardinalityType
<1>2. /\ Cardinality(Trying(e)') \in Nat
      /\ Cardinality(Trying(e)') <= Cardinality(Trying(e))
  <2>1. IsFiniteSet(Trying(e)) /\ Trying(e)' \in SUBSET Trying(e)
    BY TryingIsFinite
  <2> QED
    BY <2>1, FS_Subset, FS_CardinalityType
<1>3. /\ Spared(e) /\ MaxFailures \in Nat /\ Cardinality(Desks) \in Nat
      /\ Cardinality(Recent(e)) \in Nat /\ Cardinality(Trying(e)) \in Nat
  BY TryingIsFinite, RecentIsFinite DEF TotpInv, OperatorsConstants
<1> QED
  BY <1>1, <1>2, <1>3 DEF Spared

LEMMA TotpStarts == ASSUME OperatorsConstants, OperatorsInit PROVE TotpInv
<1>1. failures \in [Staff -> SUBSET Stamp]
  BY DEF OperatorsInit
<1>2. ASSUME NEW e \in Staff PROVE IsFiniteSet(failures[e]) /\ Spared(e)
  <2>1. failures[e] = {} /\ Recent(e) = {} /\ Trying(e) = {}
    BY NoWorkType DEF OperatorsInit, Recent, Trying
  <2>2. IsFiniteSet({}) /\ Cardinality({}) = 0
    BY FS_EmptySet
  <2>3. Cardinality(Desks) \in Nat /\ MaxFailures \in Nat \ {0}
    BY TryingIsFinite DEF OperatorsConstants
  <2> QED
    BY <2>1, <2>2, <2>3 DEF Spared
<1> QED
  BY <1>1, <1>2 DEF TotpInv

\* No request comes to the check of its code, and no failure is recorded.
LEMMA NobodyTries ==
    ASSUME OperatorsConstants, TotpInv, LogInv, clock' \in Nat, clock <= clock',
           failures' \in [Staff -> SUBSET Stamp],
           \A e \in Staff : failures'[e] \subseteq failures[e],
           \A d \in Desks : desk'[d].pc = "totp" => desk'[d] = desk[d]
    PROVE  TotpInv'
<1>1. ASSUME NEW e \in Staff PROVE IsFiniteSet(failures'[e]) /\ Spared(e)'
  <2>1. Trying(e)' \subseteq Trying(e)
    BY DEF Trying
  <2>2. Recent(e)' \subseteq Recent(e)
    BY DEF Recent, Stamp, LogInv, LogTypes
  <2>3. IsFiniteSet(failures[e]) /\ failures'[e] \in SUBSET failures[e]
    BY DEF TotpInv
  <2> QED
    BY <2>1, <2>2, <2>3, FewerAreSpared, FS_Subset
<1> QED
  BY <1>1 DEF TotpInv

\* A request is let in while a failure is to spare ...
LEMMA CreateSpares ==
    ASSUME OperatorsConstants, TotpInv, LogInv, NEW d \in Desks, NEW e0 \in Staff,
           CreateSession(d, e0)
    PROVE  TotpInv'
<1>1. /\ Cardinality(Recent(e0)) < MaxFailures
      /\ failures' = [failures EXCEPT ![e0] = Recent(e0)]
      /\ clock' = clock
      /\ desk' = [desk EXCEPT ![d] = [NoWork EXCEPT !.pc = "totp", !.who = e0]]
  BY RecentIsFinite DEF CreateSession, Arrive, TotpLocked, OperatorsConstants
<1>2. Recent(e0) \subseteq failures[e0]
  BY DEF Recent
<1>3. /\ failures' \in [Staff -> SUBSET Stamp]
      /\ \A e \in Staff : failures'[e] \subseteq failures[e]
      /\ \A e \in Staff : Recent(e)' = Recent(e)
  BY <1>1, <1>2 DEF TotpInv, Recent
<1>4. ASSUME NEW e \in Staff, e # e0 PROVE Trying(e)' \subseteq Trying(e)
  BY <1>1, <1>4 DEF Trying, NoWork, LogInv, LogTypes
<1>5. ASSUME NEW e \in Staff PROVE IsFiniteSet(failures'[e])
  <2>1. IsFiniteSet(failures[e]) /\ failures'[e] \in SUBSET failures[e]
    BY <1>3 DEF TotpInv
  <2> QED
    BY <2>1, FS_Subset
<1>6. ASSUME NEW e \in Staff PROVE Spared(e)'
  <2>1. CASE e = e0
    <3>1. Trying(e0)' \in SUBSET Desks /\ IsFiniteSet(Desks)
      BY DEF Trying, OperatorsConstants
    <3>2. /\ Cardinality(Trying(e0)') \in Nat
          /\ Cardinality(Trying(e0)') <= Cardinality(Desks)
      BY <3>1, FS_Subset, FS_CardinalityType
    <3>3. Cardinality(Recent(e0)) \in Nat /\ MaxFailures \in Nat /\ Cardinality(Desks) \in Nat
      BY RecentIsFinite, TryingIsFinite DEF OperatorsConstants
    <3>4. Cardinality(Recent(e0)') = Cardinality(Recent(e0))
      BY <1>3
    <3> QED
      BY <1>1, <2>1, <3>2, <3>3, <3>4 DEF Spared
  <2>2. CASE e # e0
    BY <1>3, <1>4, <2>2, FewerAreSpared
  <2> QED
    BY <2>1, <2>2
<1> QED
  BY <1>3, <1>5, <1>6 DEF TotpInv

\* ... and takes the place of its request in the count if its code is wrong.
LEMMA WrongSpares ==
    ASSUME OperatorsConstants, TotpInv, LogInv, NEW d \in Desks, TotpWrong(d)
    PROVE  TotpInv'
<1>0. PICK e0 : e0 = desk[d].who
  OBVIOUS
<1> DEFINE nth == Cardinality({stamp \in failures[e0] : stamp.at = clock})
           new == [at |-> clock, nth |-> nth]
<1>1. /\ failures' = [failures EXCEPT ![e0] = failures[e0] \cup {new}]
      /\ clock' = clock /\ clock \in Nat /\ desk[d].pc = "totp"
      /\ desk' = [desk EXCEPT ![d] = NoWork]
  BY <1>0 DEF TotpWrong, Leaves, LogInv, LogTypes, At
<1>2. e0 \in Staff => new \in Stamp
  <2>1. ASSUME e0 \in Staff PROVE nth \in Nat
    <3>1. /\ IsFiniteSet(failures[e0])
          /\ {stamp \in failures[e0] : stamp.at = clock} \in SUBSET failures[e0]
      BY <2>1 DEF TotpInv
    <3> QED
      BY <3>1, FS_Subset, FS_CardinalityType
  <2> HIDE DEF nth
  <2> QED
    BY <1>1, <2>1 DEF Stamp
<1> HIDE DEF new
<1>3. /\ failures' \in [Staff -> SUBSET Stamp]
      /\ \A e \in Staff : failures'[e] = (IF e = e0 THEN failures[e] \cup {new} ELSE failures[e])
  BY <1>1, <1>2 DEF TotpInv
<1>4. ASSUME NEW e \in Staff PROVE IsFiniteSet(failures'[e])
  BY <1>3, FS_AddElement DEF TotpInv
<1>5. ASSUME NEW e \in Staff PROVE Trying(e)' = Trying(e) \ {d}
  BY <1>1, NoWorkType DEF Trying, LogInv, LogTypes
<1>6. ASSUME NEW e \in Staff PROVE Spared(e)'
  <2>1. CASE e = e0
    <3>1. d \in Trying(e)
      BY <1>0, <1>1, <2>1 DEF Trying
    <3>2. Cardinality(Trying(e)') = Cardinality(Trying(e)) - 1
      BY <1>5, <3>1, TryingIsFinite, FS_RemoveElement
    <3>3. /\ IsFiniteSet(Recent(e) \cup {new})
          /\ Cardinality(Recent(e) \cup {new}) \in Nat
          /\ Cardinality(Recent(e) \cup {new}) <= Cardinality(Recent(e)) + 1
      <4>1. IsFiniteSet(Recent(e)) /\ Cardinality(Recent(e)) \in Nat
        BY RecentIsFinite
      <4>2. /\ IsFiniteSet(Recent(e) \cup {new})
            /\ Cardinality(Recent(e) \cup {new}) =
                 (IF new \in Recent(e) THEN Cardinality(Recent(e)) ELSE Cardinality(Recent(e)) + 1)
        BY <4>1, FS_AddElement
      <4> QED
        BY <4>1, <4>2
    <3>4. Recent(e)' \in SUBSET (Recent(e) \cup {new})
      BY <1>1, <1>3 DEF Recent
    <3>5. /\ Cardinality(Recent(e)') \in Nat
          /\ Cardinality(Recent(e)') <= Cardinality(Recent(e)) + 1
      <4>1. /\ Cardinality(Recent(e)') \in Nat
            /\ Cardinality(Recent(e)') <= Cardinality(Recent(e) \cup {new})
        BY <3>3, <3>4, FS_Subset, FS_CardinalityType
      <4> QED
        BY <3>3, <4>1, RecentIsFinite
    <3>6. /\ Spared(e) /\ MaxFailures \in Nat /\ Cardinality(Desks) \in Nat
          /\ Cardinality(Recent(e)) \in Nat /\ Cardinality(Trying(e)) \in Nat
      BY TryingIsFinite, RecentIsFinite DEF TotpInv, OperatorsConstants
    <3> QED
      BY <3>2, <3>5, <3>6 DEF Spared
  <2>2. CASE e # e0
    <3>1. Recent(e)' = Recent(e)
      BY <1>1, <1>3, <2>2 DEF Recent
    <3> QED
      BY <1>5, <3>1, FewerAreSpared
  <2> QED
    BY <2>1, <2>2
<1> QED
  BY <1>3, <1>4, <1>6 DEF TotpInv

LEMMA TotpSteps ==
    ASSUME OperatorsConstants, TotpInv, LogInv, [OperatorsNext]_operatorVars
    PROVE  TotpInv'
<1> USE DEF LogInv, LogTypes
<1>1. clock \in Nat /\ failures \in [Staff -> SUBSET Stamp]
  BY DEF TotpInv
<1>2. ASSUME clock' \in Nat, clock <= clock', UNCHANGED failures,
             \A d \in Desks : desk'[d].pc = "totp" => desk'[d] = desk[d]
      PROVE  TotpInv'
  BY <1>1, <1>2, NobodyTries
<1>3. CASE UNCHANGED operatorVars
  BY <1>1, <1>2, <1>3 DEF operatorVars
<1>4. CASE SeatStep
  <2>1. ASSUME NEW d \in Desks, NEW e \in Staff, Enroll(d, e) PROVE TotpInv'
    BY <1>1, <1>2, <2>1 DEF Enroll
  <2>2. ASSUME NEW d \in Desks, NEW e \in Staff, CreateSession(d, e) PROVE TotpInv'
    BY <2>2, CreateSpares
  <2>3. ASSUME NEW d \in Desks, TotpWrong(d) PROVE TotpInv'
    BY <2>3, WrongSpares
  <2>4. ASSUME NEW d \in Desks, TotpRight(d) PROVE TotpInv'
    <3>1. \A b \in Desks : desk'[b].pc = "totp" => desk'[b] = desk[b]
      BY <2>4 DEF TotpRight, Goes, DeskType
    <3>2. /\ failures' \in [Staff -> SUBSET Stamp] /\ clock' = clock
          /\ \A e \in Staff : failures'[e] \subseteq failures[e]
      BY <1>1, <2>4 DEF TotpRight
    <3> QED
      BY <1>1, <3>1, <3>2, NobodyTries
  <2>5. ASSUME NEW d \in Desks, IssueSeat(d) \/ Revoke2(d) PROVE TotpInv'
    BY <1>1, <1>2, <2>5, NoWorkType DEF IssueSeat, Revoke2, Leaves
  <2>6. ASSUME NEW d \in Desks, Revoke1(d) PROVE TotpInv'
    BY <1>1, <1>2, <2>6, NoWorkType DEF Revoke1, Leaves, Goes, DeskType
  <2>7. ASSUME NEW s \in DOMAIN seats, DeleteSession(s) PROVE TotpInv'
    BY <1>1, <1>2, <2>7 DEF DeleteSession
  <2>8. ASSUME NEW s \in DOMAIN seats, NEW e \in Staff, Invite(s, e) PROVE TotpInv'
    BY <1>1, <1>2, <2>8 DEF Invite
  <2> QED
    BY <1>4, <2>1, <2>2, <2>3, <2>4, <2>5, <2>6, <2>7, <2>8 DEF SeatStep
<1>5. ASSUME NEW d \in Desks, NEW s \in DOMAIN seats, NEW job, NEW c, NEW k, NEW e,
             Admit(d, s, job, c, k, e)
      PROVE  TotpInv'
  <2> DEFINE pc == IF job = "revoke" THEN job ELSE "look"
             to == [NoWork EXCEPT !.pc = pc, !.job = job, !.case = c, !.key = k, !.who = e]
  <2>1. to.pc # "totp"
    BY DEF NoWork
  <2>2. /\ desk' = [desk EXCEPT ![d] = to] /\ UNCHANGED <<clock, failures>>
    BY <1>5 DEF Admit
  <2> HIDE DEF to
  <2> QED
    BY <1>1, <1>2, <2>1, <2>2
<1>6. CASE OrderStep
  <2>1. ASSUME NEW d \in Desks, Look(d) \/ ClaimCase(d) \/ ApplyRefund(d) \/ ApplyRecheck(d)
        PROVE  TotpInv'
    <3>1. \/ Leaves(d)
          \/ \E pc \in {"claim", "apply", "check", "hash"} : Goes(d, pc)
      BY <2>1 DEF Look, ClaimCase, ApplyRefund, ApplyRecheck
    <3>2. \A b \in Desks : desk'[b].pc = "totp" => desk'[b] = desk[b]
      BY <3>1, NoWorkType DEF Leaves, Goes, DeskType
    <3>3. UNCHANGED <<clock, failures>>
      BY <2>1 DEF Look, ClaimCase, ApplyRefund, ApplyRecheck
    <3> QED
      BY <1>1, <1>2, <3>2, <3>3
  <2>2. ASSUME NEW d \in Desks, ReadHash(d) \/ WriteAudit(d) \/ Alert(d) PROVE TotpInv'
    BY <1>1, <1>2, <2>2, NoWorkType DEF ReadHash, WriteAudit, Alert, Leaves, DeskType
  <2>3. ASSUME NEW c \in Cases, Elsewhere(c) PROVE TotpInv'
    BY <1>1, <1>2, <2>3 DEF Elsewhere
  <2> QED
    BY <1>6, <2>1, <2>2, <2>3 DEF OrderStep
<1>7. ASSUME NEW d \in Desks, Drop(d) PROVE TotpInv'
  BY <1>1, <1>2, <1>7, NoWorkType DEF Drop, Leaves
<1>8. CASE Restart
  <2>1. /\ \A b \in Desks : desk'[b].pc # "totp"
        /\ failures' \in [Staff -> SUBSET Stamp] /\ clock' = clock
        /\ \A e \in Staff : failures'[e] \subseteq failures[e]
    BY <1>1, <1>8, NoWorkType DEF Restart
  <2> QED
    BY <1>1, <2>1, NobodyTries
<1>9. CASE Passes
  BY <1>1, <1>2, <1>9 DEF Passes
<1> QED
  BY <1>3, <1>4, <1>5, <1>6, <1>7, <1>8, <1>9 DEF OperatorsNext, AdmitStep

LEMMA SparedIsBounded ==
    ASSUME OperatorsConstants, TotpInv
    PROVE  TotpTriesBounded
<1>1. ASSUME NEW e \in Staff
      PROVE  Cardinality(Recent(e)) <= MaxFailures + Cardinality(Desks) - 1
  <2>1. /\ Spared(e) /\ MaxFailures \in Nat /\ Cardinality(Desks) \in Nat
        /\ Cardinality(Recent(e)) \in Nat /\ Cardinality(Trying(e)) \in Nat
    BY TryingIsFinite, RecentIsFinite DEF TotpInv, OperatorsConstants
  <2> QED
    BY <2>1 DEF Spared
<1> QED
  BY <1>1 DEF TotpTriesBounded

-----------------------------------------------------------------------------
\* However many operators look at one held order at once, and wherever their
\* clients hang up, a refund row of the log is about an order that was refunded,
\* and about one that no other row is about (refund_order, insert_audit).
THEOREM LogTellsNoTale ==
    ASSUME OperatorsConstants PROVE OperatorsSpec => []AuditedWasRefunded
<1>1. OperatorsInit => LogInv
  BY LogStarts
<1>2. LogInv /\ [OperatorsNext]_operatorVars => LogInv'
  BY LogSteps
<1>3. LogInv => AuditedWasRefunded
  BY DEF LogInv
<1> QED
  BY <1>1, <1>2, <1>3, PTL DEF OperatorsSpec

\* Codes that are tried at once pass the lockout together, but no more of them
\* than there are requests (totp_is_locked, record_totp_failure).
THEOREM LockoutHolds ==
    ASSUME OperatorsConstants PROVE OperatorsSpec => []TotpTriesBounded
<1>1. OperatorsInit => LogInv /\ TotpInv
  BY LogStarts, TotpStarts
<1>2. LogInv /\ TotpInv /\ [OperatorsNext]_operatorVars => LogInv' /\ TotpInv'
  BY LogSteps, TotpSteps
<1>3. TotpInv => TotpTriesBounded
  BY SparedIsBounded
<1> QED
  BY <1>1, <1>2, <1>3, PTL DEF OperatorsSpec

-----------------------------------------------------------------------------
(* Payees: an id belongs to one number and is never given out again, so    *)
(* what a request read about an id stays about that number, the row being  *)
(* there or gone.                                                          *)

CallerType ==
    [pc : {"rest", "ask", "write", "read", "reserve"}, job : {"save", "one-off", "beneficiary"},
     number : Numbers \cup {Unasked.number}, claimed : Names \cup {NoName},
     heard : Names \cup {NoName}, id : Nat]

\* A name that may be confirmed for the row of an id.
Vouched(id, name) == \A n \in Numbers : row[n].id = id => name \in said[n] \cup {NoName}

CallerKnows(c) ==
    LET w == caller[c]
    IN /\ w.pc \in {"ask", "write", "reserve"} => w.number \in Numbers
       /\ w.pc = "write" => w.heard \in said[w.number]
       /\ w.pc \in {"read", "reserve"} => w.id \in 1..ids /\ Vouched(w.id, w.claimed)
       /\ w.pc = "reserve" =>
            /\ \A n \in Numbers : row[n].id = w.id => n = w.number

PayeesInv ==
    /\ ids \in Nat
    /\ holder \in [Numbers -> Names \cup {NoName}]
    /\ row \in [Numbers -> [id : Nat, name : Names \cup {NoName}]]
    /\ said \in [Numbers -> SUBSET Names]
    /\ caller \in [Callers -> CallerType]
    /\ \A c \in Callers : CallerKnows(c)
    /\ \A n \in Numbers : row[n].id <= ids
    /\ \A n, o \in Numbers : row[n].id # 0 /\ row[n].id = row[o].id => n = o
    /\ \A payout \in paid : payout.number \in Numbers /\ payout.id \in 1..ids
    /\ PayeesAreTheBanks

LEMMA UnaskedType == Unasked \in CallerType /\ Unasked.pc = "rest" /\ Unasked.claimed = NoName
BY DEF Unasked, CallerType

LEMMA PayeesStart == ASSUME PayeesInit PROVE PayeesInv
BY UnaskedType DEF PayeesInit, PayeesInv, CallerKnows, NoRow, PayeesAreTheBanks

\* A request moves on to what it may know.
LEMMA CallerMoves ==
    ASSUME PayeesInv, NEW c \in Callers, NEW to \in CallerType,
           caller' = [caller EXCEPT ![c] = to],
           to.pc \in {"ask", "write", "reserve"} => to.number \in Numbers,
           to.pc = "write" => to.heard \in said'[to.number],
           to.pc \in {"read", "reserve"} => to.id \in 1..ids /\ Vouched(to.id, to.claimed),
           to.pc = "reserve" => \A n \in Numbers : row[n].id = to.id => n = to.number,
           said' \in [Numbers -> SUBSET Names],
           \A n \in Numbers : said[n] \subseteq said'[n],
           UNCHANGED <<holder, row, ids, paid>>
    PROVE  PayeesInv'
<1>1. caller' \in [Callers -> CallerType]
  BY DEF PayeesInv
<1>2. ASSUME NEW b \in Callers PROVE CallerKnows(b)'
  <2>1. CASE b = c
    <3>1. caller'[b] = to
      BY <2>1 DEF PayeesInv
    <3> QED
      BY <3>1 DEF CallerKnows, Vouched
  <2>2. CASE b # c
    <3>1. caller'[b] = caller[b] /\ CallerKnows(b)
      BY <2>2 DEF PayeesInv
    <3> QED
      BY <3>1 DEF CallerKnows, Vouched
  <2> QED
    BY <2>1, <2>2
<1>3. PayeesAreTheBanks'
  BY DEF PayeesInv, PayeesAreTheBanks
<1> QED
  BY <1>1, <1>2, <1>3 DEF PayeesInv

\* A row is written under the bank's name: a new id, or the one it has.
LEMMA RowIsWritten ==
    ASSUME PayeesInv, NEW n \in Numbers, NEW name \in said[n], Upserted(n, name),
           UNCHANGED <<holder, said, paid>>
    PROVE  /\ ids' \in Nat /\ ids <= ids'
           /\ row' \in [Numbers -> [id : Nat, name : Names \cup {NoName}]]
           /\ row'[n].id \in 1..ids' /\ row'[n].name = name
           /\ row'[n].id = row[n].id \/ row'[n].id > ids
           /\ \A o \in Numbers \ {n} : row'[o] = row[o]
           /\ \A p, q \in Numbers : row'[p].id # 0 /\ row'[p].id = row'[q].id => p = q
           /\ \A p \in Numbers : row'[p].id <= ids'
           /\ PayeesAreTheBanks'
<1>1. CASE row[n].id # 0
  <2> DEFINE r == [row[n] EXCEPT !.name = name]
  <2>1. r \in [id : Nat, name : Names \cup {NoName}] /\ r.id = row[n].id /\ r.name = name
    BY DEF PayeesInv
  <2>2. row' = [row EXCEPT ![n] = r] /\ UNCHANGED ids
    BY <1>1 DEF Upserted
  <2> HIDE DEF r
  <2>3. row' \in [Numbers -> [id : Nat, name : Names \cup {NoName}]]
    BY <2>1, <2>2 DEF PayeesInv
  <2>4. \A o \in Numbers : row'[o].id = row[o].id /\ (o # n => row'[o] = row[o])
    BY <2>1, <2>2 DEF PayeesInv
  <2>5. row'[n] = r
    BY <2>2 DEF PayeesInv
  <2>6. PayeesAreTheBanks'
    BY <2>1, <2>2, <2>4, <2>5 DEF PayeesInv, PayeesAreTheBanks
  <2> QED
    BY <1>1, <2>1, <2>2, <2>3, <2>4, <2>5, <2>6 DEF PayeesInv
<1>2. CASE row[n].id = 0
  <2> DEFINE r == [id |-> ids + 1, name |-> name]
  <2>1. r \in [id : Nat, name : Names \cup {NoName}] /\ r.id = ids + 1 /\ r.name = name
    BY DEF PayeesInv
  <2>2. row' = [row EXCEPT ![n] = r] /\ ids' = ids + 1
    BY <1>2 DEF Upserted
  <2> HIDE DEF r
  <2>3. row' \in [Numbers -> [id : Nat, name : Names \cup {NoName}]]
    BY <2>1, <2>2 DEF PayeesInv
  <2>4. \A o \in Numbers : o # n => row'[o] = row[o]
    BY <2>2 DEF PayeesInv
  <2>5. row'[n] = r
    BY <2>2 DEF PayeesInv
  <2>6. PayeesAreTheBanks'
    BY <1>2, <2>1, <2>2, <2>4, <2>5 DEF PayeesInv, PayeesAreTheBanks
  <2> QED
    BY <1>2, <2>1, <2>2, <2>3, <2>4, <2>5, <2>6 DEF PayeesInv
<1> QED
  BY <1>1, <1>2

\* ... after which every request still knows what it knew.
LEMMA RowWrittenKeeps ==
    ASSUME PayeesInv, NEW c \in Callers, NEW to \in CallerType,
           caller[c].pc = "write", Upserted(caller[c].number, caller[c].heard),
           caller' = [caller EXCEPT ![c] = to],
           \/ to.pc = "rest"
           \/ to.pc = "read" /\ to.id = row'[caller[c].number].id /\ to.claimed = caller[c].heard,
           UNCHANGED <<holder, said, paid>>
    PROVE  PayeesInv'
<1> DEFINE n == caller[c].number
           name == caller[c].heard
<1>1. n \in Numbers /\ name \in said[n]
  BY DEF PayeesInv, CallerKnows
<1>2. Upserted(n, name)
  OBVIOUS
<1> HIDE DEF n, name
<1>3. /\ ids' \in Nat /\ ids <= ids'
      /\ row' \in [Numbers -> [id : Nat, name : Names \cup {NoName}]]
      /\ row'[n].id \in 1..ids' /\ row'[n].name = name
      /\ row'[n].id = row[n].id \/ row'[n].id > ids
      /\ \A o \in Numbers \ {n} : row'[o] = row[o]
      /\ \A p, q \in Numbers : row'[p].id # 0 /\ row'[p].id = row'[q].id => p = q
      /\ \A p \in Numbers : row'[p].id <= ids'
      /\ PayeesAreTheBanks'
  BY <1>1, <1>2, RowIsWritten
<1>4. caller' \in [Callers -> CallerType]
  BY DEF PayeesInv
<1>5. ASSUME NEW b \in Callers PROVE CallerKnows(b)'
  <2>1. CASE b = c
    <3>1. caller'[b] = to
      BY <2>1 DEF PayeesInv
    <3>2. CASE to.pc = "rest"
      BY <3>1, <3>2 DEF CallerKnows
    <3>3. CASE to.pc = "read" /\ to.id = row'[n].id /\ to.claimed = name
      BY <1>1, <1>3, <3>1, <3>3 DEF CallerKnows, Vouched
    <3> QED
      BY <3>2, <3>3 DEF n, name
  <2>2. CASE b # c
    <3>1. caller'[b] = caller[b] /\ CallerKnows(b) /\ ids \in Nat
      BY <2>2 DEF PayeesInv
    <3>2. \A o \in Numbers : row'[o].id = row[o].id \/ row'[o].id > ids
      BY <1>3
    <3> QED
      BY <1>3, <3>1, <3>2 DEF CallerKnows, Vouched
  <2> QED
    BY <2>1, <2>2
<1>6. \A payout \in paid' : payout.number \in Numbers /\ payout.id \in 1..ids'
  BY <1>3 DEF PayeesInv
<1> QED
  BY <1>3, <1>4, <1>5, <1>6 DEF PayeesInv

LEMMA PayeesSteps == ASSUME PayeesInv, [PayeesNext]_payeeVars PROVE PayeesInv'
<1>1. CASE UNCHANGED payeeVars
  BY <1>1 DEF payeeVars, PayeesInv, CallerKnows, Vouched, PayeesAreTheBanks
<1>2. CASE BankChanges
  BY <1>2 DEF BankChanges, PayeesInv, CallerKnows, Vouched, PayeesAreTheBanks
<1>3. ASSUME NEW n \in Numbers, RemoveAccount(n) PROVE PayeesInv'
  <2>1. /\ row' = [row EXCEPT ![n] = NoRow] /\ NoRow.id = 0
        /\ NoRow \in [id : Nat, name : Names \cup {NoName}]
        /\ ~\E payout \in paid : payout.id = row[n].id
        /\ UNCHANGED <<holder, ids, caller, paid, said>>
    BY <1>3 DEF RemoveAccount, NoRow
  <2>2. /\ row' \in [Numbers -> [id : Nat, name : Names \cup {NoName}]]
        /\ \A o \in Numbers : row'[o] = (IF o = n THEN NoRow ELSE row[o])
    BY <2>1 DEF PayeesInv
  <2>3. \A c \in Callers : CallerKnows(c)'
    BY <2>1, <2>2 DEF PayeesInv, CallerKnows, Vouched
  <2>4. PayeesAreTheBanks'
    BY <2>1, <2>2 DEF PayeesInv, PayeesAreTheBanks
  <2> QED
    BY <2>1, <2>2, <2>3, <2>4 DEF PayeesInv
<1>4. ASSUME NEW c \in Callers, AskBank(c) PROVE PayeesInv'
  <2>1. PICK job \in {"save", "one-off"}, n \in Numbers, name \in Names :
          caller' = [caller EXCEPT ![c] = [Unasked EXCEPT !.pc = "ask", !.job = job, !.number = n,
                                                         !.claimed = name]]
    BY <1>4 DEF AskBank
  <2> DEFINE to == [Unasked EXCEPT !.pc = "ask", !.job = job, !.number = n, !.claimed = name]
  <2>2. to \in CallerType /\ to.pc = "ask" /\ to.number \in Numbers
    BY DEF Unasked, CallerType
  <2>3. caller' = [caller EXCEPT ![c] = to]
    BY <2>1
  <2> HIDE DEF to
  <2> QED
    BY <1>4, <2>2, <2>3, CallerMoves DEF AskBank, PayeesInv
<1>5. ASSUME NEW c \in Callers, ResolveAccount(c) PROVE PayeesInv'
  <2> DEFINE n == caller[c].number
  <2>0. n \in Numbers /\ caller[c] \in CallerType /\ holder[n] \in Names \cup {NoName}
        /\ said[n] \subseteq Names
    BY <1>5 DEF ResolveAccount, PayeesInv, CallerKnows
  <2>1. CASE /\ holder[n] # NoName
             /\ said' = [said EXCEPT ![n] = @ \cup {holder[n]}]
             /\ caller' = [caller EXCEPT ![c].pc = "write", ![c].heard = holder[n]]
    <3> DEFINE to == [caller[c] EXCEPT !.pc = "write", !.heard = holder[n]]
    <3>1. to \in CallerType /\ to.pc = "write" /\ to.number = n /\ to.heard = holder[n]
      BY <2>0 DEF CallerType
    <3>2. caller' = [caller EXCEPT ![c] = to]
      BY <2>1 DEF PayeesInv
    <3>3. /\ said' \in [Numbers -> SUBSET Names]
          /\ \A o \in Numbers : said[o] \subseteq said'[o]
          /\ holder[n] \in said'[n]
      BY <2>0, <2>1 DEF PayeesInv
    <3> HIDE DEF to, n
    <3> QED
      BY <1>5, <2>0, <3>1, <3>2, <3>3, CallerMoves DEF ResolveAccount
  <2>2. CASE Gone(c) /\ UNCHANGED said
    BY <1>5, <2>2, CallerMoves, UnaskedType DEF ResolveAccount, Gone, PayeesInv
  <2> QED
    BY <1>5, <2>1, <2>2 DEF ResolveAccount
<1>6. ASSUME NEW c \in Callers, AddAccount(c) PROVE PayeesInv'
  BY <1>6, RowWrittenKeeps, UnaskedType DEF AddAccount, Gone
<1>7. ASSUME NEW c \in Callers, SaveOneOff(c) PROVE PayeesInv'
  <2>1. CASE caller[c].heard = caller[c].claimed
    <3> DEFINE to == [caller[c] EXCEPT !.pc = "read", !.id = row'[caller[c].number].id]
    <3>1. caller[c].pc = "write" /\ Upserted(caller[c].number, caller[c].heard)
          /\ UNCHANGED <<holder, said, paid>>
      BY <1>7, <2>1 DEF SaveOneOff
    <3>2. caller[c].number \in Numbers /\ caller[c].heard \in said[caller[c].number]
          /\ caller[c] \in CallerType
      BY <3>1 DEF PayeesInv, CallerKnows
    <3>3. row'[caller[c].number].id \in Nat
      BY <3>1, <3>2, RowIsWritten
    <3>4. /\ to \in CallerType /\ to.pc = "read" /\ to.id = row'[caller[c].number].id
          /\ to.claimed = caller[c].heard
      BY <2>1, <3>2, <3>3 DEF CallerType
    <3>5. caller' = [caller EXCEPT ![c] = to]
      BY <1>7, <2>1 DEF SaveOneOff, PayeesInv
    <3> HIDE DEF to
    <3> QED
      BY <3>1, <3>4, <3>5, RowWrittenKeeps
  <2>2. CASE caller[c].heard # caller[c].claimed
    BY <1>7, <2>2, CallerMoves, UnaskedType DEF SaveOneOff, Gone, PayeesInv
  <2> QED
    BY <2>1, <2>2
<1>8. ASSUME NEW c \in Callers, PayBeneficiary(c) PROVE PayeesInv'
  <2>1. PICK id \in 1..ids :
          caller' = [caller EXCEPT ![c] = [Unasked EXCEPT !.pc = "read", !.job = "beneficiary",
                                                         !.id = id]]
    BY <1>8 DEF PayBeneficiary
  <2> DEFINE to == [Unasked EXCEPT !.pc = "read", !.job = "beneficiary", !.id = id]
  <2>2. to \in CallerType /\ to.pc = "read" /\ to.id = id /\ to.claimed = NoName
    <3>1. id \in Nat /\ ids \in Nat
      BY DEF PayeesInv
    <3> QED
      BY <3>1 DEF Unasked, CallerType
  <2>3. caller' = [caller EXCEPT ![c] = to]
    BY <2>1
  <2> HIDE DEF to
  <2> QED
    BY <1>8, <2>2, <2>3, CallerMoves DEF PayBeneficiary, PayeesInv, Vouched
<1>9. ASSUME NEW c \in Callers, ReadPayee(c) PROVE PayeesInv'
  <2>0. CallerKnows(c) /\ caller[c] \in CallerType /\ caller[c].pc = "read"
    BY <1>9 DEF PayeesInv, ReadPayee
  <2>1. ASSUME NEW n \in Numbers, row[n].id = caller[c].id,
               caller' = [caller EXCEPT ![c].pc = "reserve", ![c].number = n]
        PROVE  PayeesInv'
    <3> DEFINE to == [caller[c] EXCEPT !.pc = "reserve", !.number = n]
    <3>1. /\ to \in CallerType /\ to.pc = "reserve" /\ to.number = n
          /\ to.id = caller[c].id /\ to.claimed = caller[c].claimed
      BY <2>0 DEF CallerType
    <3>2. caller' = [caller EXCEPT ![c] = to]
      BY <2>1 DEF PayeesInv
    <3>3. \A o \in Numbers : row[o].id = to.id => o = n
      BY <2>0, <2>1, <3>1 DEF PayeesInv, CallerKnows
    <3> HIDE DEF to
    <3> QED
      BY <1>9, <2>0, <3>1, <3>2, <3>3, CallerMoves DEF ReadPayee, PayeesInv, CallerKnows
  <2>2. CASE Gone(c)
    BY <1>9, <2>2, CallerMoves, UnaskedType DEF ReadPayee, Gone, PayeesInv
  <2> QED
    BY <1>9, <2>1, <2>2 DEF ReadPayee
<1>10. ASSUME NEW c \in Callers, ReserveTo(c) PROVE PayeesInv'
  <2>0. CallerKnows(c) /\ caller[c].pc = "reserve" /\ caller[c].number \in Numbers
    BY <1>10 DEF PayeesInv, ReserveTo, CallerKnows
  <2>1. /\ caller' \in [Callers -> CallerType]
        /\ \A b \in Callers : caller'[b] = (IF b = c THEN Unasked ELSE caller[b])
        /\ UNCHANGED <<holder, row, ids, said>>
    BY <1>10, UnaskedType DEF PayeesInv, ReserveTo, Gone
  <2>2. ASSUME NEW b \in Callers PROVE CallerKnows(b)'
    BY <2>1, UnaskedType DEF PayeesInv, CallerKnows, Vouched
  <2>3. ASSUME NEW payout \in paid'
        PROVE  /\ payout.number \in Numbers /\ payout.id \in 1..ids
               /\ row[payout.number].id = payout.id
               /\ payout.confirmed \in said[payout.number] \cup {NoName}
    <3>1. CASE payout \in paid
      BY <3>1 DEF PayeesInv, PayeesAreTheBanks
    <3>2. CASE payout \notin paid
      <4>1. /\ \E n \in Numbers : row[n].id = caller[c].id
            /\ payout = [id |-> caller[c].id, number |-> caller[c].number,
                         confirmed |-> caller[c].claimed]
        BY <1>10, <3>2 DEF ReserveTo
      <4> QED
        BY <2>0, <4>1 DEF CallerKnows, Vouched
    <3> QED
      BY <3>1, <3>2
  <2>4. PayeesAreTheBanks'
    BY <2>1, <2>3 DEF PayeesInv, PayeesAreTheBanks
  <2> QED
    BY <2>1, <2>2, <2>3, <2>4 DEF PayeesInv
<1>11. ASSUME NEW c \in Callers, GiveUp(c) PROVE PayeesInv'
  BY <1>11, CallerMoves, UnaskedType DEF GiveUp, Gone, PayeesInv
<1> QED
  BY <1>1, <1>2, <1>3, <1>4, <1>5, <1>6, <1>7, <1>8, <1>9, <1>10, <1>11 DEF PayeesNext

\* Bank accounts are named as the bank named them, whatever the client sends and
\* whatever is saved, removed and saved again meanwhile, and a payout keeps the
\* row, the number and the confirmed name it was reserved for (add_account,
\* resolve_destination, create_payout).
THEOREM PayeesStay == PayeesSpec => []PayeesAreTheBanks
<1>1. PayeesInit => PayeesInv
  BY PayeesStart
<1>2. PayeesInv /\ [PayeesNext]_payeeVars => PayeesInv'
  BY PayeesSteps
<1>3. PayeesInv => PayeesAreTheBanks
  BY DEF PayeesInv
<1> QED
  BY <1>1, <1>2, <1>3, PTL DEF PayeesSpec

-----------------------------------------------------------------------------
(* The types of the reviews and of the desk, where the invariants above    *)
(* leave them open.                                                        *)

\* Verification and gift cards keep their types.
THEOREM ReviewsTyped == ASSUME ReviewsConstants PROVE ReviewsSpec => []ReviewsTypeOK
<1>1. ReviewsInit => KycInv /\ CardsInv /\ auto \in BOOLEAN
  BY KycStarts, CardsStart DEF ReviewsInit
<1>2. KycInv /\ CardsInv /\ auto \in BOOLEAN /\ [ReviewsNext]_reviewVars
         => KycInv' /\ CardsInv' /\ (auto \in BOOLEAN)'
  <2>1. [ReviewsNext]_reviewVars => auto' = auto
    BY DEF ReviewsNext, reviewVars, SubmitReads, SubmitLooks, Submit, CardPriced, CardInserted,
           CardReads, Review, Retuned
  <2> QED
    BY <2>1, KycSteps, CardSteps
<1>3. KycInv /\ CardsInv /\ auto \in BOOLEAN => ReviewsTypeOK
  <2>1. KycInv => \A f \in Forms : /\ form[f].pc \in {"idle", "kyc", "file", "card", "priced"}
                                   /\ form[f].tier \in 0..MaxTier /\ form[f].rate \in Rates \cup {NoRate}
    BY DEF KycInv, FormType
  <2>2. KycInv => tier \in 0..MaxTier /\ filed \in Seq(Verification)
    BY DEF KycInv
  <2>3. CardsInv => /\ rate \in Rates \cup {NoRate}
                    /\ cards \in [CardKeys -> Rates \cup {NoRate}]
                    /\ quotes \in [CardKeys -> SUBSET Rates]
    BY DEF CardsInv
  <2>4. Verification = [target : 1..MaxTier, status : {"pending", "manual_review", "approved",
                                                      "rejected"}]
    BY DEF Verification
  <2> HIDE DEF Verification
  <2> QED
    BY <2>1, <2>2, <2>3, <2>4, Zenon DEF ReviewsTypeOK
<1> QED
  BY <1>1, <1>2, <1>3, PTL DEF ReviewsSpec

\* A request that gives a code belongs to an address, and no request remembers a
\* row that the log has no room for.
DeskFits(w) ==
    /\ w.pc \in {"totp", "issue"} => w.who \in Staff
    /\ w.prev <= MaxAudit

DesksFit == \A d \in Desks : DeskFits(desk[d])

Rooms ==
    /\ clock <= MaxClock
    /\ members \in [Staff -> {"none", "active", "revoked"}]
    /\ operators \subseteq Staff
    /\ seats \in Seq(Seat) /\ Len(seats) <= MaxSeats
    /\ Len(audit) <= MaxAudit

LEMMA NoWorkFits == ASSUME OperatorsConstants PROVE DeskFits(NoWork)
BY DEF NoWork, DeskFits, OperatorsConstants

LEMMA OneDeskFits ==
    ASSUME LogInv, DesksFit, NEW d \in Desks, NEW to \in DeskType, DeskFits(to),
           desk' = [desk EXCEPT ![d] = to]
    PROVE  DesksFit'
<1>1. \A e \in Desks : desk'[e] = (IF e = d THEN to ELSE desk[e])
  BY DEF LogInv, LogTypes
<1> QED
  BY <1>1 DEF DesksFit, DeskFits

LEMMA LeavingFits ==
    ASSUME OperatorsConstants, LogInv, DesksFit, NEW d \in Desks, Leaves(d) PROVE DesksFit'
BY NoWorkFits, NoWorkType, OneDeskFits DEF Leaves

LEMMA GoingFits ==
    ASSUME LogInv, DesksFit, NEW d \in Desks,
           NEW pc \in {"issue", "claim", "apply", "check", "hash", "unseat"},
           Goes(d, pc), pc = "issue" => desk[d].pc = "totp"
    PROVE  DesksFit'
<1> DEFINE to == [desk[d] EXCEPT !.pc = pc]
<1>1. desk[d] \in DeskType /\ DeskFits(desk[d]) /\ desk' = [desk EXCEPT ![d] = to]
  BY DEF LogInv, LogTypes, Goes, DesksFit
<1>2. to \in DeskType /\ to.pc = pc /\ to.who = desk[d].who /\ to.prev = desk[d].prev
  BY <1>1 DEF DeskType
<1>3. DeskFits(to)
  BY <1>1, <1>2 DEF DeskFits
<1> HIDE DEF to
<1> QED
  BY <1>1, <1>2, <1>3, OneDeskFits

\* A request that remembers a row of the log.
LEMMA RememberingFits ==
    ASSUME LogInv, DesksFit, NEW d \in Desks, NEW pc \in {"write", "alert"}, NEW n \in Nat, n <= MaxAudit,
           desk' = [desk EXCEPT ![d].pc = pc, ![d].prev = n]
    PROVE  DesksFit'
<1> DEFINE to == [desk[d] EXCEPT !.pc = pc, !.prev = n]
<1>1. desk[d] \in DeskType /\ desk' = [desk EXCEPT ![d] = to]
  BY DEF LogInv, LogTypes
<1>2. to \in DeskType /\ DeskFits(to)
  BY <1>1 DEF DeskType, DeskFits
<1> HIDE DEF to
<1> QED
  BY <1>1, <1>2, OneDeskFits

LEMMA AdmittedFits ==
    ASSUME OperatorsConstants, LogInv, DesksFit, NEW d \in Desks, NEW s \in DOMAIN seats, NEW job \in Jobs,
           NEW c \in Cases \cup {Nobody}, NEW k \in Keys \cup {Nobody}, NEW e \in Staff \cup {Nobody},
           Admit(d, s, job, c, k, e)
    PROVE  DesksFit'
<1> DEFINE pc == IF job = "revoke" THEN job ELSE "look"
           to == [NoWork EXCEPT !.pc = pc, !.job = job, !.case = c, !.key = k, !.who = e]
<1>1. pc \in {"revoke", "look"}
  OBVIOUS
<1>2. to \in DeskType /\ to.pc = pc /\ to.prev = 0
  BY <1>1 DEF NoWork, DeskType, Jobs
<1>3. DeskFits(to)
  BY <1>1, <1>2 DEF DeskFits, OperatorsConstants
<1>4. desk' = [desk EXCEPT ![d] = to]
  BY DEF Admit
<1> HIDE DEF to
<1> QED
  BY <1>2, <1>3, <1>4, OneDeskFits

LEMMA DesksKeepFit ==
    ASSUME OperatorsConstants, LogInv, Rooms, DesksFit, [OperatorsNext]_operatorVars
    PROVE  DesksFit'
<1>0. audit \in Seq(Line) /\ Len(audit) \in Nat /\ Len(audit) <= MaxAudit
      /\ MaxAudit \in Nat
  BY DEF LogInv, LogTypes, Rooms, OperatorsConstants
<1>1. CASE UNCHANGED desk
  BY <1>1 DEF DesksFit
<1>2. ASSUME NEW d \in Desks, NEW e \in Staff, CreateSession(d, e) PROVE DesksFit'
  <2> DEFINE to == [NoWork EXCEPT !.pc = "totp", !.who = e]
  <2>1. to \in DeskType /\ to.who = e /\ to.prev = 0
    BY DEF NoWork, DeskType, Jobs
  <2>2. desk' = [desk EXCEPT ![d] = to] /\ DeskFits(to)
    BY <1>0, <1>2, <2>1 DEF CreateSession, Arrive, DeskFits
  <2> HIDE DEF to
  <2> QED
    BY <2>1, <2>2, OneDeskFits
<1>3. ASSUME NEW d \in Desks,
             \/ TotpWrong(d) \/ TotpRight(d) \/ IssueSeat(d) \/ Revoke1(d) \/ Revoke2(d)
             \/ Look(d) \/ ClaimCase(d) \/ ApplyRefund(d) \/ ApplyRecheck(d) \/ Alert(d) \/ Drop(d)
      PROVE  DesksFit'
  <2>1. \/ UNCHANGED desk \/ Leaves(d)
        \/ Goes(d, "issue") /\ desk[d].pc = "totp"
        \/ \E pc \in {"claim", "apply", "check", "hash", "unseat"} : Goes(d, pc)
    BY <1>3 DEF TotpWrong, TotpRight, IssueSeat, Revoke1, Revoke2, Look, ClaimCase, ApplyRefund,
                ApplyRecheck, Alert, Drop, At
  <2> QED
    BY <1>1, <2>1, LeavingFits, GoingFits
<1>4. ASSUME NEW d \in Desks, ReadHash(d) PROVE DesksFit'
  BY <1>0, <1>4, RememberingFits DEF ReadHash
<1>5. ASSUME NEW d \in Desks, WriteAudit(d) PROVE DesksFit'
  <2>1. Len(audit) + 1 \in Nat /\ Len(audit) + 1 <= MaxAudit
    BY <1>0, <1>5 DEF WriteAudit
  <2>2. \/ desk' = [desk EXCEPT ![d].pc = "alert", ![d].prev = Len(audit) + 1]
        \/ Leaves(d)
    BY <1>5 DEF WriteAudit
  <2> QED
    BY <2>1, <2>2, LeavingFits, RememberingFits
<1>6. CASE AdmitStep
  BY <1>6, AdmittedFits DEF AdmitStep, Jobs
<1>7. CASE Restart
  BY <1>7, NoWorkFits DEF Restart, DesksFit
<1>8. CASE SeatStep
  BY <1>1, <1>2, <1>3, <1>8 DEF SeatStep, Enroll, DeleteSession, Invite
<1>9. CASE OrderStep
  BY <1>1, <1>3, <1>4, <1>5, <1>9 DEF OrderStep, Elsewhere
<1> QED
  BY <1>1, <1>3, <1>6, <1>7, <1>8, <1>9 DEF OperatorsNext, operatorVars, Passes

\* Sessions that are ended stay in their places.
LEMMA SeatsAreLeft ==
    ASSUME Rooms, NEW e,
           seats' = [s \in 1..Len(seats) |-> IF seats[s].who = e
                                             THEN [seats[s] EXCEPT !.gone = TRUE] ELSE seats[s]]
    PROVE  seats' \in Seq(Seat) /\ Len(seats') = Len(seats)
<1>1. seats \in Seq(Seat) /\ Len(seats) \in Nat
  BY DEF Rooms
<1>2. ASSUME NEW s \in 1..Len(seats) PROVE seats'[s] \in Seat
  <2>1. seats[s] \in Seat
    BY <1>1
  <2>2. [seats[s] EXCEPT !.gone = TRUE] \in Seat
    BY <2>1 DEF Seat
  <2> QED
    BY <2>1, <2>2
<1>3. seats' \in [1..Len(seats) -> Seat]
  BY <1>2
<1> HIDE DEF Seat
<1> QED
  BY <1>1, <1>3

LEMMA RoomsKeep ==
    ASSUME OperatorsConstants, LogInv, Rooms, DesksFit, [OperatorsNext]_operatorVars
    PROVE  Rooms'
<1>0. /\ clock \in Nat /\ desk \in [Desks -> DeskType] /\ audit \in Seq(Line)
      /\ seats \in Seq(Seat) /\ DeskTTL \in Nat
      /\ MaxClock \in Nat /\ MaxSeats \in Nat /\ MaxAudit \in Nat
  BY DEF LogInv, LogTypes, Rooms, OperatorsConstants
<1>1. CASE UNCHANGED <<clock, members, operators, seats, audit>>
  BY <1>1 DEF Rooms
<1>2. ASSUME NEW d \in Desks, NEW e \in Staff, Enroll(d, e) PROVE Rooms'
  BY <1>2 DEF Enroll, Rooms
<1>3. ASSUME NEW d \in Desks, IssueSeat(d) PROVE Rooms'
  <2> DEFINE seat == [who |-> desk[d].who, until |-> clock + DeskTTL, gone |-> FALSE]
  <2>1. seat \in Seat
    BY <1>0, <1>3 DEF IssueSeat, At, DesksFit, DeskFits, Seat
  <2>2. seats' = Append(seats, seat) /\ Len(seats) < MaxSeats
    BY <1>3 DEF IssueSeat
  <2> HIDE DEF seat
  <2>3. seats' \in Seq(Seat) /\ Len(seats') <= MaxSeats
    BY <1>0, <2>1, <2>2
  <2> QED
    BY <1>3, <2>3 DEF IssueSeat, Rooms
<1>4. ASSUME NEW d \in Desks, Revoke1(d) PROVE Rooms'
  BY <1>4 DEF Revoke1, Rooms
<1>5. ASSUME NEW d \in Desks, Revoke2(d) PROVE Rooms'
  <2>1. seats' = [s \in 1..Len(seats) |-> IF seats[s].who = desk[d].who
                                          THEN [seats[s] EXCEPT !.gone = TRUE] ELSE seats[s]]
    BY <1>0, <1>5 DEF Revoke2
  <2> QED
    BY <1>5, <2>1, SeatsAreLeft DEF Revoke2, Rooms
<1>6. ASSUME NEW s \in DOMAIN seats, DeleteSession(s) PROVE Rooms'
  <2>1. seats[s] \in Seat /\ seats' = [seats EXCEPT ![s] = [seats[s] EXCEPT !.gone = TRUE]]
    BY <1>0, <1>6 DEF DeleteSession
  <2>2. [seats[s] EXCEPT !.gone = TRUE] \in Seat
    BY <2>1 DEF Seat
  <2>3. seats' \in Seq(Seat) /\ Len(seats') = Len(seats)
    BY <1>0, <2>1, <2>2
  <2> QED
    BY <1>6, <2>3 DEF DeleteSession, Rooms
<1>7. ASSUME NEW s \in DOMAIN seats, NEW e \in Staff, Invite(s, e) PROVE Rooms'
  BY <1>7 DEF Invite, Rooms
<1>8. ASSUME NEW d \in Desks, WriteAudit(d) PROVE Rooms'
  <2>1. Len(audit') = Len(audit) + 1 /\ Len(audit) < MaxAudit
    BY <1>0, <1>8 DEF WriteAudit
  <2> QED
    BY <1>0, <1>8, <2>1 DEF WriteAudit, Rooms
<1>9. CASE Passes
  BY <1>0, <1>9 DEF Passes, Rooms
<1>10. CASE SeatStep
  BY <1>1, <1>2, <1>3, <1>4, <1>5, <1>6, <1>7, <1>10 DEF SeatStep, CreateSession, TotpWrong, TotpRight
<1>11. CASE AdmitStep
  BY <1>1, <1>11 DEF AdmitStep, Admit
<1>12. CASE OrderStep
  BY <1>1, <1>8, <1>12 DEF OrderStep, Look, ClaimCase, ApplyRefund, ApplyRecheck, ReadHash, Alert,
                           Elsewhere
<1> QED
  BY <1>1, <1>9, <1>10, <1>11, <1>12 DEF OperatorsNext, operatorVars, Drop, Restart

\* The desk keeps its types, for any staff, orders, keys and requests at once.
THEOREM OperatorsTyped == ASSUME OperatorsConstants PROVE OperatorsSpec => []OperatorsTypeOK
<1>1. OperatorsInit => LogInv /\ TotpInv /\ Rooms /\ DesksFit
  <2> SUFFICES ASSUME OperatorsInit PROVE Rooms /\ DesksFit
    BY LogStarts, TotpStarts
  <2> QED
    BY NoWorkFits DEF OperatorsInit, Rooms, DesksFit, OperatorsConstants
<1>2. LogInv /\ TotpInv /\ Rooms /\ DesksFit /\ [OperatorsNext]_operatorVars
         => LogInv' /\ TotpInv' /\ Rooms' /\ DesksFit'
  BY LogSteps, TotpSteps, RoomsKeep, DesksKeepFit
<1>3. LogInv /\ TotpInv /\ Rooms /\ DesksFit => OperatorsTypeOK
  <2> SUFFICES ASSUME LogInv, TotpInv, Rooms, DesksFit PROVE OperatorsTypeOK
    OBVIOUS
  <2>1. ASSUME NEW d \in Desks
        PROVE  /\ desk[d].pc \in {"idle", "totp", "issue", "look", "claim", "apply", "check",
                                  "hash", "write", "alert", "revoke", "unseat"}
               /\ desk[d].job \in Jobs /\ desk[d].who \in Staff \cup {Nobody}
               /\ desk[d].prev \in 0..MaxAudit
    <3>1. desk[d] \in DeskType /\ desk[d].prev <= MaxAudit /\ MaxAudit \in Nat
      BY DEF LogInv, LogTypes, DesksFit, DeskFits, OperatorsConstants
    <3> QED
      BY <3>1 DEF DeskType
  <2>2. clock \in 0..MaxClock
    BY DEF LogInv, LogTypes, Rooms, OperatorsConstants
  <2> QED
    BY <2>1, <2>2 DEF LogInv, LogTypes, Kept, TotpInv, Rooms, OperatorsTypeOK
<1> QED
  BY <1>1, <1>2, <1>3, PTL DEF OperatorsSpec

-----------------------------------------------------------------------------
(* The types of the bank accounts: nobody remembers an id that was not     *)
(* given out.                                                              *)

PayoutType == [id : Nat, number : Numbers, confirmed : Names \cup {NoName}]

PayeeBounds ==
    /\ ids <= MaxIds /\ changes \in 0..MaxChanges
    /\ \A c \in Callers : caller[c].id <= ids
    /\ paid \subseteq PayoutType

LEMMA PayeesBounded ==
    ASSUME PayeeConstants, PayeesInv, PayeeBounds, [PayeesNext]_payeeVars
    PROVE  PayeeBounds'
<1>0. /\ ids \in Nat /\ MaxIds \in Nat /\ MaxChanges \in Nat /\ ids <= MaxIds
      /\ changes \in 0..MaxChanges /\ paid \subseteq PayoutType
      /\ caller \in [Callers -> CallerType]
      /\ \A c \in Callers : caller[c].id \in Nat /\ caller[c].id <= ids
  BY DEF PayeesInv, PayeeBounds, PayeeConstants, CallerType
<1>1. PayeesInv'
  BY PayeesSteps
<1>2. Unasked.id = 0
  BY DEF Unasked
\* Who moves to an id that was given out changes nothing else here.
<1>3. ASSUME NEW c \in Callers, NEW to, caller' = [caller EXCEPT ![c] = to],
             to.id \in Nat, to.id <= ids', ids' \in Nat, ids <= ids', ids' <= MaxIds,
             UNCHANGED changes, paid' \subseteq PayoutType
      PROVE  PayeeBounds'
  <2>1. \A b \in Callers : caller'[b] = (IF b = c THEN to ELSE caller[b])
    BY <1>0, <1>3
  <2>2. \A b \in Callers : caller'[b].id <= ids'
    BY <1>0, <1>3, <2>1
  <2> QED
    BY <1>0, <1>3, <2>2 DEF PayeeBounds
<1>4. ASSUME NEW c \in Callers, Gone(c), ids' \in Nat, ids <= ids', ids' <= MaxIds,
             UNCHANGED changes, paid' \subseteq PayoutType
      PROVE  PayeeBounds'
  <2>1. Unasked.id \in Nat /\ Unasked.id <= ids'
    BY <1>2, <1>4
  <2>2. caller' = [caller EXCEPT ![c] = Unasked]
    BY <1>4 DEF Gone
  <2> QED
    BY <1>3, <1>4, <2>1, <2>2
<1>5. ASSUME NEW n, NEW name, Upserted(n, name)
      PROVE  ids' \in Nat /\ ids <= ids' /\ ids' <= MaxIds
  BY <1>0, <1>5 DEF Upserted
\* ... and no id is given out.
<1>6. ASSUME NEW c \in Callers, NEW to, caller' = [caller EXCEPT ![c] = to],
             to.id \in Nat, to.id <= ids, UNCHANGED <<ids, changes, paid>>
      PROVE  PayeeBounds'
  <2>1. to.id <= ids' /\ ids' \in Nat /\ ids <= ids' /\ ids' <= MaxIds
        /\ changes' = changes /\ paid' \subseteq PayoutType
    BY <1>0, <1>6
  <2> QED
    BY <1>3, <1>6, <2>1
<1>7. ASSUME NEW c \in Callers, AskBank(c) PROVE PayeeBounds'
  <2>1. PICK job, n, name :
          caller' = [caller EXCEPT ![c] = [Unasked EXCEPT !.pc = "ask", !.job = job, !.number = n,
                                                          !.claimed = name]]
    BY <1>7 DEF AskBank
  <2> DEFINE to == [Unasked EXCEPT !.pc = "ask", !.job = job, !.number = n, !.claimed = name]
  <2>2. to.id = 0
    BY DEF Unasked
  <2>3. caller' = [caller EXCEPT ![c] = to] /\ UNCHANGED <<ids, changes, paid>>
    BY <1>7, <2>1 DEF AskBank
  <2>4. to.id \in Nat /\ to.id <= ids
    BY <1>0, <2>2
  <2> HIDE DEF to
  <2> QED
    BY <1>6, <2>3, <2>4
<1>8. ASSUME NEW c \in Callers, ResolveAccount(c) PROVE PayeeBounds'
  <2>1. CASE Gone(c)
    BY <1>0, <1>4, <1>8, <2>1 DEF ResolveAccount
  <2>2. CASE ~Gone(c)
    <3> DEFINE to == [caller[c] EXCEPT !.pc = "write", !.heard = holder[caller[c].number]]
    <3>1. caller' = [caller EXCEPT ![c] = to] /\ UNCHANGED <<ids, changes, paid>>
      BY <1>0, <1>8, <2>2 DEF ResolveAccount
    <3>2. to.id = caller[c].id
      BY <1>0 DEF CallerType
    <3> HIDE DEF to
    <3> QED
      BY <1>0, <1>6, <3>1, <3>2
  <2> QED
    BY <2>1, <2>2
<1>9. ASSUME NEW c \in Callers, AddAccount(c) PROVE PayeeBounds'
  BY <1>0, <1>4, <1>5, <1>9 DEF AddAccount
<1>10. ASSUME NEW c \in Callers, SaveOneOff(c) PROVE PayeeBounds'
  <2>1. CASE Gone(c) /\ UNCHANGED ids
    BY <1>0, <1>4, <1>10, <2>1 DEF SaveOneOff
  <2>2. CASE Upserted(caller[c].number, caller[c].heard)
             /\ caller' = [caller EXCEPT ![c].pc = "read", ![c].id = row'[caller[c].number].id]
    <3> DEFINE to == [caller[c] EXCEPT !.pc = "read", !.id = row'[caller[c].number].id]
    <3>1. caller' = [caller EXCEPT ![c] = to] /\ UNCHANGED <<changes, paid>>
      BY <1>0, <1>10, <2>2 DEF SaveOneOff
    <3>2. caller[c].number \in Numbers
      BY <1>10 DEF SaveOneOff, PayeesInv, CallerKnows
    <3>3. to.id = row'[caller[c].number].id
      BY <1>0 DEF CallerType
    <3>4. to.id \in Nat /\ to.id <= ids'
      <4>1. row'[caller[c].number] \in [id : Nat, name : Names \cup {NoName}]
            /\ row'[caller[c].number].id <= ids'
        BY <1>1, <3>2 DEF PayeesInv
      <4> QED
        BY <3>3, <4>1
    <3> HIDE DEF to
    <3> QED
      BY <1>0, <1>3, <1>5, <2>2, <3>1, <3>4
  <2> QED
    BY <1>10, <2>1, <2>2 DEF SaveOneOff
<1>11. ASSUME NEW c \in Callers, PayBeneficiary(c) PROVE PayeeBounds'
  <2>1. PICK id \in 1..ids :
          caller' = [caller EXCEPT ![c] = [Unasked EXCEPT !.pc = "read", !.job = "beneficiary",
                                                          !.id = id]]
    BY <1>11 DEF PayBeneficiary
  <2>2. [Unasked EXCEPT !.pc = "read", !.job = "beneficiary", !.id = id].id = id
    BY DEF Unasked
  <2>3. id \in Nat /\ id <= ids
    BY <1>0
  <2> QED
    <3>1. UNCHANGED <<ids, changes, paid>>
      BY <1>11 DEF PayBeneficiary
    <3>2. PICK to : caller' = [caller EXCEPT ![c] = to] /\ to.id = id
      BY <2>1, <2>2
    <3> QED
      BY <1>6, <2>3, <3>1, <3>2
<1>12. ASSUME NEW c \in Callers, ReadPayee(c) PROVE PayeeBounds'
  <2>1. CASE Gone(c)
    BY <1>0, <1>4, <1>12, <2>1 DEF ReadPayee
  <2>2. ASSUME NEW n, caller' = [caller EXCEPT ![c].pc = "reserve", ![c].number = n] PROVE PayeeBounds'
    <3> DEFINE to == [caller[c] EXCEPT !.pc = "reserve", !.number = n]
    <3>1. caller' = [caller EXCEPT ![c] = to] /\ UNCHANGED <<ids, changes, paid>>
      BY <1>0, <1>12, <2>2 DEF ReadPayee
    <3>2. to.id = caller[c].id
      BY <1>0 DEF CallerType
    <3> HIDE DEF to
    <3> QED
      BY <1>0, <1>6, <3>1, <3>2
  <2> QED
    BY <1>12, <2>1, <2>2 DEF ReadPayee
<1>13. ASSUME NEW c \in Callers, ReserveTo(c) PROVE PayeeBounds'
  <2> DEFINE payout == [id |-> caller[c].id, number |-> caller[c].number,
                        confirmed |-> caller[c].claimed]
  <2>1. caller[c].number \in Numbers /\ caller[c].claimed \in Names \cup {NoName}
        /\ caller[c].id \in Nat
    BY <1>0, <1>13 DEF ReserveTo, PayeesInv, CallerKnows, CallerType
  <2>2. payout \in PayoutType
    BY <2>1 DEF PayoutType
  <2>3. paid' \in {paid, paid \cup {payout}} /\ Gone(c) /\ UNCHANGED <<ids, changes>>
    BY <1>13 DEF ReserveTo
  <2> HIDE DEF payout
  <2> QED
    BY <1>0, <1>4, <2>2, <2>3
<1>14. ASSUME NEW c \in Callers, GiveUp(c) PROVE PayeeBounds'
  BY <1>0, <1>4, <1>14 DEF GiveUp
<1>15. CASE BankChanges
  <2>1. changes' \in 0..MaxChanges
    BY <1>0, <1>15 DEF BankChanges
  <2> QED
    BY <1>15, <2>1 DEF BankChanges, PayeeBounds
<1>16. CASE UNCHANGED <<ids, caller, paid, changes>>
  BY <1>16 DEF PayeeBounds
<1> QED
  BY <1>7, <1>8, <1>9, <1>10, <1>11, <1>12, <1>13, <1>14, <1>15, <1>16
     DEF PayeesNext, payeeVars, RemoveAccount

\* Bank accounts and payouts keep their types, for any banks, names, requests and
\* ids, as long as there is an account to ask about.
THEOREM PayeesTyped ==
    ASSUME PayeeConstants, Numbers # {} PROVE PayeesSpec => []PayeesTypeOK
<1>1. PayeesInit => PayeesInv /\ PayeeBounds
  <2> SUFFICES ASSUME PayeesInit PROVE PayeeBounds
    BY PayeesStart
  <2> QED
    BY DEF PayeesInit, PayeeBounds, PayeeConstants, Unasked
<1>2. PayeesInv /\ PayeeBounds /\ [PayeesNext]_payeeVars => PayeesInv' /\ PayeeBounds'
  BY PayeesSteps, PayeesBounded
<1>3. PayeesInv /\ PayeeBounds => PayeesTypeOK
  <2> SUFFICES ASSUME PayeesInv, PayeeBounds PROVE PayeesTypeOK
    OBVIOUS
  <2>1. \A n \in Nat : n <= ids => n \in 0..MaxIds
    BY DEF PayeesInv, PayeeBounds, PayeeConstants
  <2>2. row \in [Numbers -> [id : 0..MaxIds, name : Names \cup {NoName}]]
    BY <2>1 DEF PayeesInv
  <2>3. Unasked.number \in Numbers
    BY DEF Unasked
  <2>4. caller \in [Callers -> [pc : {"rest", "ask", "write", "read", "reserve"},
                               job : {"save", "one-off", "beneficiary"}, number : Numbers,
                               claimed : Names \cup {NoName}, heard : Names \cup {NoName},
                               id : 0..MaxIds]]
    BY <2>1, <2>3 DEF PayeesInv, PayeeBounds, CallerType
  <2>5. paid \subseteq [id : 1..MaxIds, number : Numbers, confirmed : Names \cup {NoName}]
    <3> SUFFICES ASSUME NEW payout \in paid
                 PROVE  payout \in [id : 1..MaxIds, number : Numbers, confirmed : Names \cup {NoName}]
      OBVIOUS
    <3>1. payout \in PayoutType /\ payout.id \in 1..ids
      BY DEF PayeesInv, PayeeBounds
    <3>2. payout.id \in 1..MaxIds
      BY <3>1 DEF PayeesInv, PayeeBounds, PayeeConstants
    <3> QED
      BY <3>1, <3>2 DEF PayoutType
  <2>6. ids \in 0..MaxIds
    BY <2>1 DEF PayeesInv
  <2> QED
    BY <2>2, <2>4, <2>5, <2>6 DEF PayeesInv, PayeeBounds, PayeesTypeOK
<1> QED
  BY <1>1, <1>2, <1>3, PTL DEF PayeesSpec

-----------------------------------------------------------------------------
(* The parts side by side. A step of one part is a stutter of the others,  *)
(* so what is proved of a part alone holds where they are explored         *)
(* together.                                                               *)

\* Each part explored by MCAccounts is the part itself: its steps are its own
\* or none. (The part "sessions" starts sessions that nobody signed in for, so
\* it is Sessions alone.)
THEOREM PeopleMoveAlone ==
    ASSUME SignInConstants
    PROVE  AllSpec => /\ SessionsSpec /\ GoogleKeysSpec /\ OperatorsSpec /\ ReviewsSpec /\ PayeesSpec
                      /\ part # "sessions" => Spec
<1>1. AllInit => /\ Init /\ now = 0 /\ SessionsInit
                 /\ GoogleKeysInit /\ OperatorsInit /\ ReviewsInit /\ PayeesInit
  BY DEF AllInit, Init
<1>2. [AllNext]_allVars => ((part # "sessions") <=> (part # "sessions")')
  BY DEF AllNext, allVars, Others
<1>3. part # "sessions" /\ [AllNext]_allVars => [Next]_vars
  <2> SUFFICES ASSUME part # "sessions", [AllNext]_allVars PROVE [Next]_vars
    OBVIOUS
  <2>1. CodeStep \/ AccountStep \/ Tick \/ UNCHANGED vars
    BY DEF AllNext, allVars, Others
  <2> QED
    BY <2>1 DEF Next
<1>4. ~(part # "sessions") /\ [AllNext]_allVars => [SessionsNext]_<<now, sessionVars>>
  BY DEF AllNext, allVars, Others, vars
<1>5. [AllNext]_allVars => [GoogleKeysNext]_keyVars
  BY DEF AllNext, allVars, Others
<1>6. [AllNext]_allVars => [OperatorsNext]_operatorVars
  BY DEF AllNext, allVars, Others
<1>7. [AllNext]_allVars => [ReviewsNext]_reviewVars
  BY DEF AllNext, allVars, Others
<1>8. [AllNext]_allVars => [PayeesNext]_payeeVars
  BY DEF AllNext, allVars, Others
<1>9. AllSpec /\ part # "sessions" => Spec
  BY <1>1, <1>2, <1>3, PTL DEF AllSpec, Spec
<1>10. AllSpec /\ ~(part # "sessions") => SessionsSpec
  BY <1>1, <1>2, <1>4, PTL DEF AllSpec, SessionsSpec
<1> QED
  BY <1>1, <1>5, <1>6, <1>7, <1>8, <1>9, <1>10, SessionsRefined, PTL
     DEF AllSpec, GoogleKeysSpec, OperatorsSpec, ReviewsSpec, PayeesSpec

\* Side by side, the parts keep their types.
THEOREM PeopleTyped ==
    ASSUME SessionsConstants, SignInConstants, GoogleKeysConstants, OperatorsConstants, ReviewsConstants,
           PayeeConstants, Numbers # {}
    PROVE  AllSpec => []AllTypeOK
<1>1. AllInit => SignInTypeOK
  <2> SUFFICES ASSUME AllInit PROVE SignInTypeOK
    OBVIOUS
  <2>1. Init
    BY DEF AllInit
  <2>2. patches <= MaxPatches
    BY <2>1 DEF Init, SignInInit, SignInConstants
  <2> QED
    BY <2>1, <2>2, SignInStarts, LocksStart, SignInTypes
<1>2. [AllNext]_allVars => ((part # "sessions") <=> (part # "sessions")')
  BY DEF AllNext, allVars, Others
<1>3. ~(part # "sessions") /\ SignInTypeOK /\ [AllNext]_allVars => SignInTypeOK'
  <2> SUFFICES ASSUME ~(part # "sessions"), SignInTypeOK, [AllNext]_allVars PROVE SignInTypeOK'
    OBVIOUS
  <2>1. UNCHANGED signInVars
    BY DEF AllNext, allVars, Others, vars
  <2> QED
    BY <2>1 DEF signInVars, accountVars, SignInTypeOK
<1>4. AllSpec /\ ~(part # "sessions") => []SignInTypeOK
  BY <1>1, <1>2, <1>3, PTL DEF AllSpec
<1> QED
  BY <1>4, PeopleMoveAlone, SessionsTyped, SignInTyped, KeysTyped, OperatorsTyped, ReviewsTyped,
     PayeesTyped, PTL DEF AllTypeOK, TypeOK
===============================================================================
