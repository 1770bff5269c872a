------------------------------- MODULE Reviews -------------------------------
(***************************************************************************)
(* What waits for a person: verifications (kyc_routes.rs, auth/src/tier.rs)*)
(* and gift cards (giftcard_routes.rs).  A submission reads, decides on    *)
(* what it read, and writes; the reviewer is outside this code and is      *)
(* known by the columns and triggers made for him (0002_auth.sql,          *)
(* 0005_giftcards.sql).                                                    *)
(***************************************************************************)
EXTENDS Integers, Sequences, FiniteSets

CONSTANTS Forms,          \* submissions in flight at once, of one customer
          CardKeys,       \* Idempotency-Key headers
          Rates,          \* what a card may be worth
          NoRate,         \* the card is not bought
          MaxFiled        \* bound: rows of kyc_verifications

ASSUME ReviewsConstants ==
    /\ MaxFiled \in Nat
    /\ NoRate \notin Rates

MaxTier == 3

VARIABLES auto,           \* auto_approve_kyc, in development only
          tier,           \* users.kyc_tier
          filed,          \* kyc_verifications, in order
          rate,           \* the active rate of the card
          cards,          \* gift_card_submissions: what each key's row will pay
          quotes,         \* what was answered to each key
          form

reviewVars == <<auto, tier, filed, rate, cards, quotes, form>>

NoForm == [pc |-> "idle", tier |-> 0, key |-> NoRate, rate |-> NoRate]

ReviewsTypeOK ==
    /\ auto \in BOOLEAN
    /\ tier \in 0..MaxTier
    /\ filed \in Seq([target : 1..MaxTier, status : {"pending", "manual_review", "approved",
                                                     "rejected"}])
    /\ rate \in Rates \cup {NoRate}
    /\ cards \in [CardKeys -> Rates \cup {NoRate}]
    /\ quotes \in [CardKeys -> SUBSET Rates]
    /\ \A f \in Forms : /\ form[f].pc \in {"idle", "kyc", "file", "card", "priced"}
                        /\ form[f].tier \in 0..MaxTier /\ form[f].rate \in Rates \cup {NoRate}

ReviewsInit ==
    /\ auto \in BOOLEAN
    /\ tier = 0
    /\ filed = <<>>
    /\ rate \in Rates
    /\ cards = [k \in CardKeys |-> NoRate]
    /\ quotes = [k \in CardKeys |-> {}]
    /\ form = [f \in Forms |-> NoForm]

Filled(f, rec) == form' = [form EXCEPT ![f] = rec]

-----------------------------------------------------------------------------
(* Verification.                                                           *)

Waiting == {i \in DOMAIN filed : filed[i].status \in {"pending", "manual_review"}}

\* submit reads the tier, asks for what the next one needs, ...
SubmitReads(f) ==
    /\ form[f].pc = "idle"
    /\ tier < MaxTier
    /\ Filled(f, [NoForm EXCEPT !.pc = "kyc", !.tier = tier])
    /\ UNCHANGED <<auto, tier, filed, rate, cards, quotes>>

SkipsOne(t) == t + 2

\* target_tier
Target(t) == t + 1

\* assert_tier_is_earned
Earned(t, rows) == \E i \in DOMAIN rows : rows[i].target >= t /\ rows[i].status = "approved"

\* ... refuses whoever has one under review ...
SubmitLooks(f) ==
    /\ form[f].pc = "kyc"
    /\ Filled(f, IF Waiting = {} THEN [form[f] EXCEPT !.pc = "file"] ELSE NoForm)
    /\ UNCHANGED <<auto, tier, filed, rate, cards, quotes>>

\* ... and files it.  The unique index keeps out a second open one for a tier.
Submit(f) ==
    LET target == Target(form[f].tier)
        rows == Append(filed, [target |-> target,
                               status |-> IF auto THEN "approved" ELSE "pending"])
    IN /\ form[f].pc = "file"
       /\ Len(filed) < MaxFiled
       /\ IF \/ ~auto /\ \E i \in Waiting : filed[i].target = target
             \/ auto /\ target > tier /\ ~Earned(target, rows)
          THEN UNCHANGED <<tier, filed>>
          ELSE /\ filed' = rows
               /\ IF auto THEN tier' = target ELSE UNCHANGED tier
       /\ Filled(f, NoForm)
       /\ UNCHANGED <<auto, rate, cards, quotes>>

\* The reviewer: one row, and the tier if it is an approval.
Review(i) ==
    /\ i \in Waiting
    /\ \/ /\ filed' = [filed EXCEPT ![i].status = "approved"]
          /\ tier' = filed[i].target
       \/ /\ filed' = [filed EXCEPT ![i].status = "rejected"]
          /\ UNCHANGED tier
       \/ /\ filed' = [filed EXCEPT ![i].status = "manual_review"]
          /\ UNCHANGED tier
    /\ UNCHANGED <<auto, rate, cards, quotes, form>>

-----------------------------------------------------------------------------
(* Gift cards.                                                             *)

Tell(k, r) == quotes' = [quotes EXCEPT ![k] = @ \cup {r}]

\* find_by_key: a replay is answered from its row.
CardReads(f, k) ==
    /\ form[f].pc = "idle"
    /\ IF cards[k] # NoRate
       THEN Tell(k, cards[k]) /\ UNCHANGED form
       ELSE Filled(f, [NoForm EXCEPT !.pc = "card", !.key = k]) /\ UNCHANGED quotes
    /\ UNCHANGED <<auto, tier, filed, rate, cards>>

\* The rate of today; a card that is not bought is refused.
CardPriced(f) ==
    /\ form[f].pc = "card"
    /\ IF rate = NoRate THEN Filled(f, NoForm)
       ELSE Filled(f, [form[f] EXCEPT !.pc = "priced", !.rate = rate])
    /\ UNCHANGED <<auto, tier, filed, rate, cards, quotes>>

CardUpserted(f) ==
    LET k == form[f].key
    IN /\ form[f].pc = "priced"
       /\ cards' = [cards EXCEPT ![k] = form[f].rate]
       /\ Tell(k, form[f].rate)
       /\ Filled(f, NoForm)
       /\ UNCHANGED <<auto, tier, filed, rate>>

\* The INSERT; the key is unique, and whoever comes second gets an error.
CardInserted(f) ==
    LET k == form[f].key
    IN /\ form[f].pc = "priced"
       /\ IF cards[k] = NoRate
          THEN cards' = [cards EXCEPT ![k] = form[f].rate] /\ Tell(k, form[f].rate)
          ELSE UNCHANGED <<cards, quotes>>
       /\ Filled(f, NoForm)
       /\ UNCHANGED <<auto, tier, filed, rate>>

\* The desk changes the rate or switches it off.
Retuned(r) ==
    /\ rate # r
    /\ rate' = r
    /\ UNCHANGED <<auto, tier, filed, cards, quotes, form>>

ReviewsNext ==
    \/ \E f \in Forms : \/ SubmitReads(f) \/ SubmitLooks(f) \/ Submit(f)
                        \/ CardPriced(f) \/ CardInserted(f)
                        \/ \E k \in CardKeys : CardReads(f, k)
    \/ \E i \in DOMAIN filed : Review(i)
    \/ \E r \in Rates \cup {NoRate} : Retuned(r)

ReviewsSpec == ReviewsInit /\ [][ReviewsNext]_reviewVars

-----------------------------------------------------------------------------
(* Properties.                                                             *)

\* Nobody skips a document: whoever has a tier had every tier up to it approved,
\* although a submission decides on a tier it read before others were approved
\* (submit, assert_tier_is_earned asks only for one that is high enough).
EarnedStepByStep ==
    \A t \in 1..tier : \E i \in DOMAIN filed : filed[i].target = t /\ filed[i].status = "approved"

\* "They agreed to a number; that number is binding" (0005_giftcards.sql): all
\* the answers a key ever got, and its row, name one payout.
QuoteIsBinding == \A k \in CardKeys : quotes[k] \subseteq {cards[k]}
===============================================================================
