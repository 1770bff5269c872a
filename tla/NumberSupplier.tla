--------------------------- MODULE NumberSupplier ---------------------------
(***************************************************************************)
(* The supplier of virtual numbers as the API's adapters see it: it sells  *)
(* an activation, collects the SMS the number receives, and closes the     *)
(* activation when it finishes, times out or is cancelled.  The adapters   *)
(* (number_provider.rs) reduce every answer to an ActivationCheck: the     *)
(* messages, a lifecycle and perhaps a later expiry.                       *)
(*                                                                         *)
(* All activations are of one product in one country, the case in which    *)
(* recovery by (country, product) is ambiguous.                            *)
(***************************************************************************)
EXTENDS Integers

CONSTANTS Activations,      \* identifiers the supplier can hand out
          NoActivation      \* provider_order_id IS NULL

VARIABLES supplier,         \* what the supplier holds, per activation
          latest            \* the activation it sold last

supplierVars == <<supplier, latest>>

\* A message whose code the adapter extracted, and one whose text it could
\* not parse.
Sms == {"code", "text"}

Lifecycles == {"unsold", "open", "closed"}

SupplierTypeOK ==
    /\ supplier \in [Activations -> [state : Lifecycles, sms : SUBSET Sms, until : Nat]]
    /\ latest \in Activations \cup {NoActivation}

SupplierInit ==
    /\ supplier = [a \in Activations |-> [state |-> "unsold", sms |-> {}, until |-> 0]]
    /\ latest = NoActivation

\* A buy that reached the supplier and was charged.
Sell(a, until) ==
    /\ supplier[a].state = "unsold"
    /\ supplier' = [supplier EXCEPT ![a].state = "open", ![a].until = until]
    /\ latest' = a

Receive(a, m) ==
    /\ supplier[a].state = "open"
    /\ supplier' = [supplier EXCEPT ![a].sms = @ \cup {m}]
    /\ UNCHANGED latest

\* FINISHED, TIMEOUT or BANNED on the supplier's side.
Close(a) ==
    /\ supplier[a].state = "open"
    /\ supplier' = [supplier EXCEPT ![a].state = "closed"]
    /\ UNCHANGED latest

Extend(a, until) ==
    /\ supplier[a].state = "open"
    /\ until > supplier[a].until
    /\ supplier' = [supplier EXCEPT ![a].until = until]
    /\ UNCHANGED latest

\* A cancel request the supplier honours; it refuses once an SMS came in.
CancelHonoured(a) ==
    /\ supplier[a].state = "open" => supplier[a].sms = {}
    /\ supplier' = [supplier EXCEPT ![a].state = "closed"]
    /\ UNCHANGED latest

\* A cancel request refused by the supplier, or lost on the way.
CancelRefused == UNCHANGED supplierVars

\* The ActivationCheck a successful check returns.
Answer(a) == [sms    |-> supplier[a].sms,
              closed |-> supplier[a].state = "closed",
              until  |-> supplier[a].until]

\* ActivationCheck::closed().
ClosedAnswer == [sms |-> {}, closed |-> TRUE, until |-> 0]

Answers == [sms : SUBSET Sms, closed : BOOLEAN, until : Nat]

\* recover_activation, recover_recent_buy: the newest order of that country and
\* product, or nothing when the history request fails or the supplier has no such order.
Recoverable == {latest, NoActivation}
=============================================================================
