--------------------------- MODULE SupplierReplies ---------------------------
(***************************************************************************)
(* What the adapters make of a supplier's reply (number_provider.rs,       *)
(* number_smspool.rs, number_activate.rs): 5SIM answers JSON or a bare     *)
(* sentence, SMSPool JSON, and the handler_api.php suppliers one word with *)
(* status 200.  A reply is how the request ended, the class of its status  *)
(* and what its body says.                                                 *)
(***************************************************************************)
EXTENDS Integers

Says ==
    {"assigned",       \* an identifier and a phone
     "unnamed",        \* an order without one of them
     "garbled",        \* nothing that can be read
     "dry", "broke",   \* no number; no balance
     "refused",        \* bad key, bad service: a refusal of the request
     "gateway",        \* a page of a proxy: the service is unavailable
     "sentence"}       \* anything else

Replies == [wire : {"unreached", "broken"}, class : {"none"}, says : {"garbled"}]
           \cup [wire : {"answered"}, class : {"2xx", "4xx", "5xx"}, says : Says]

\* Replies of a supplier that sold a number.
SoldReplies == {r \in Replies : \/ r.wire = "broken"
                                \/ r.class = "2xx" /\ r.says \in {"assigned", "unnamed", "garbled"}
                                \/ r.class = "5xx" /\ r.says \in {"garbled", "gateway", "sentence"}}

UnsoldReplies == {r \in Replies : r.says \notin {"assigned", "unnamed"}}

\* "history": not settled yet, the supplier's list of orders is asked.
Outcomes == {"sold", "out_of_stock", "unavailable", "restored", "ambiguous", "history"}

\* try_next_source: the copies that let the order shop around.
TryNext(outcome) == outcome \in {"out_of_stock", "unavailable"}

\* classify_buy_transport
Transport(r) == IF r.wire = "unreached" THEN "restored" ELSE "ambiguous"

\* The words of a 5SIM refusal, classify_fivesim_plain_body among them.
FiveSimWords(says) ==
    CASE says = "dry"   -> "out_of_stock"
      [] says = "broke" -> "unavailable"
      [] OTHER          -> "restored"

\* What is not JSON and not empty; a page of a proxy is one.
Sentences == {"dry", "broke", "refused", "gateway", "sentence"}

\* Mutant: a server error is a refusal.
PurchaseTrustsErrors(r) ==
    IF r.wire # "answered" THEN Transport(r)
    ELSE IF r.class # "2xx" \/ r.says \in Sentences THEN FiveSimWords(r.says)
    ELSE IF r.says = "assigned" THEN "sold" ELSE "history"

\* FiveSimProvider::purchase, up to its look at the history of orders for what
\* has no identifier or phone, or is not an order.
Purchase(r) ==
    IF r.wire # "answered" THEN Transport(r)
    ELSE IF r.class = "5xx" THEN "ambiguous"
    ELSE IF r.class = "4xx" \/ r.says \in Sentences THEN FiveSimWords(r.says)
    ELSE IF r.says = "assigned" THEN "sold" ELSE "history"

\* FiveSimProvider::buy: a named operator without numbers is asked for any.
AskAny(named, outcome) == named /\ outcome = "out_of_stock"

\* classify_smspool_failure reads the words before the status: `available' is
\* in `unavailable', so a gateway's page counts as no stock, sale or not, and the
\* order goes on to another source.
OutOfStockWords == {"dry", "gateway"}

PoolFailure(serverError, says) ==
    IF says \in OutOfStockWords THEN "out_of_stock"
    ELSE IF says = "broke" THEN "unavailable"
    ELSE IF serverError THEN "ambiguous" ELSE "restored"

\* SmsPoolProvider::buy
PoolBuy(r) ==
    IF r.wire # "answered" THEN Transport(r)
    ELSE IF r.class # "2xx" \/ r.says \in {"dry", "broke", "refused"}
         THEN PoolFailure(r.class = "5xx", r.says)
    ELSE IF r.says = "assigned" THEN "sold" ELSE "ambiguous"

\* parse_buy, classify_activate_error: an unknown word may have taken the money.
\* A status that is an error has no body to read.
ActivateBuy(r) ==
    IF r.wire # "answered" THEN Transport(r)
    ELSE IF r.class # "2xx" THEN "ambiguous"
    ELSE CASE r.says = "assigned"             -> "sold"
           [] r.says = "dry"                  -> "out_of_stock"
           [] r.says \in {"broke", "refused"} -> "unavailable"
           [] OTHER                           -> "ambiguous"

-----------------------------------------------------------------------------
(* Checks.                                                                 *)

\* fivesim_activation_check: a status it does not know leaves it open.
FiveSimCheck(status, sms) ==
    [sms |-> sms, closed |-> status \in {"finished", "timeout", "canceled", "banned"}]

\* parse_smspool_check: 3, 5 and 6 close; a code counts before its text.
PoolCheck(status, sms) ==
    [sms    |-> IF "code" \in sms THEN {"code"} ELSE sms,
     closed |-> status \in {"finished", "timeout", "canceled"}]

\* parse_status: the code is all there is, and closes the activation.
ActivateCheck(status, sms) ==
    [sms    |-> sms \cap {"code"},
     closed |-> "code" \in sms \/ status \in {"canceled", "banned"}]

Statuses == {"pending", "finished", "timeout", "canceled", "banned", "unknown"}
=============================================================================
