-------------------------------- MODULE Payees --------------------------------
(***************************************************************************)
(* The bank accounts of one customer (bank_routes.rs), the enquiry of a    *)
(* name that must succeed before one is saved (payout_provider.rs), and    *)
(* the destination of a payout (resolve_destination, create_payout).  What *)
(* a payout does to the balance is in NairaAccount.                        *)
(***************************************************************************)
EXTENDS Integers

CONSTANTS Numbers,        \* accounts of banks: (bank_code, account_number)
          Names,          \* names of holders, the client's inventions included
          NoName,         \* what the bank says of an account it does not have
          Callers,        \* requests
          MaxIds,         \* bound: rows ever made
          MaxChanges      \* bound: accounts opened, closed or renamed

ASSUME PayeeConstants == NoName \notin Names /\ {MaxIds, MaxChanges} \subseteq Nat

VARIABLES holder,         \* the bank's register
          row,            \* bank_accounts, by (bank_code, account_number); id 0 when there is none
          ids,            \* ids given out
          caller,         \* each request
          paid,           \* payouts: their bank_account_id, what was read, what was confirmed
          said,           \* names the bank gave for each account
          changes

payeeVars == <<holder, row, ids, caller, paid, said, changes>>

NoRow   == [id |-> 0, name |-> NoName]
Unasked == [pc |-> "rest", job |-> "save", number |-> CHOOSE n \in Numbers : TRUE,
            claimed |-> NoName, heard |-> NoName, id |-> 0]

PayeesTypeOK ==
    /\ holder \in [Numbers -> Names \cup {NoName}]
    /\ row \in [Numbers -> [id : 0..MaxIds, name : Names \cup {NoName}]]
    /\ ids \in 0..MaxIds
    /\ caller \in [Callers -> [pc : {"rest", "ask", "write", "read", "reserve"},
                               job : {"save", "one-off", "beneficiary"}, number : Numbers,
                               claimed : Names \cup {NoName}, heard : Names \cup {NoName},
                               id : 0..MaxIds]]
    /\ paid \subseteq [id : 1..MaxIds, number : Numbers, confirmed : Names \cup {NoName}]
    /\ said \in [Numbers -> SUBSET Names]
    /\ changes \in 0..MaxChanges

PayeesInit ==
    /\ holder \in [Numbers -> Names \cup {NoName}]
    /\ row = [n \in Numbers |-> NoRow]
    /\ ids = 0
    /\ caller = [c \in Callers |-> Unasked]
    /\ paid = {}
    /\ said = [n \in Numbers |-> {}]
    /\ changes = 0

Gone(c) == caller' = [caller EXCEPT ![c] = Unasked]

-----------------------------------------------------------------------------
\* The bank opens, closes or renames an account.
BankChanges ==
    /\ changes < MaxChanges
    /\ changes' = changes + 1
    /\ \E n \in Numbers, name \in Names \cup {NoName} : holder' = [holder EXCEPT ![n] = name]
    /\ UNCHANGED <<row, ids, caller, paid, said>>

\* add_account, or a payout to an account that is typed in; the client sends
\* the name it showed, whatever that is.
AskBank(c) ==
    /\ caller[c].pc = "rest"
    /\ \E job \in {"save", "one-off"}, n \in Numbers, name \in Names :
         caller' = [caller EXCEPT ![c] = [Unasked EXCEPT !.pc = "ask", !.job = job, !.number = n,
                                                         !.claimed = name]]
    /\ UNCHANGED <<holder, row, ids, paid, said, changes>>

\* resolve_account: a name, or the bank has none, or it cannot be asked.
ResolveAccount(c) ==
    LET n == caller[c].number
    IN /\ caller[c].pc = "ask"
       /\ \/ /\ holder[n] # NoName
             /\ said' = [said EXCEPT ![n] = @ \cup {holder[n]}]
             /\ caller' = [caller EXCEPT ![c].pc = "write", ![c].heard = holder[n]]
          \/ Gone(c) /\ UNCHANGED said
       /\ UNCHANGED <<holder, row, ids, paid, changes>>

\* INSERT ... ON CONFLICT (user_id, bank_code, account_number) DO UPDATE
Upserted(n, name) ==
    IF row[n].id # 0 THEN row' = [row EXCEPT ![n].name = name] /\ UNCHANGED ids
    ELSE /\ ids < MaxIds
         /\ ids' = ids + 1
         /\ row' = [row EXCEPT ![n] = [id |-> ids + 1, name |-> name]]

\* Mutant: the client's name is as good as the bank's.
AddAccountTrusting(c) ==
    /\ caller[c].pc = "write" /\ caller[c].job = "save"
    /\ Upserted(caller[c].number, caller[c].claimed)
    /\ Gone(c)
    /\ UNCHANGED <<holder, paid, said, changes>>

AddAccount(c) ==
    /\ caller[c].pc = "write" /\ caller[c].job = "save"
    /\ Upserted(caller[c].number, caller[c].heard)
    /\ Gone(c)
    /\ UNCHANGED <<holder, paid, said, changes>>

\* resolve_destination, OneOff: refused unless the names agree.
SaveOneOff(c) ==
    /\ caller[c].pc = "write" /\ caller[c].job = "one-off"
    /\ IF caller[c].heard = caller[c].claimed
       THEN /\ Upserted(caller[c].number, caller[c].heard)
            /\ caller' = [caller EXCEPT ![c].pc = "read", ![c].id = row'[caller[c].number].id]
       ELSE Gone(c) /\ UNCHANGED <<row, ids>>
    /\ UNCHANGED <<holder, paid, said, changes>>

\* Beneficiary: an id of the list, which may be gone.
PayBeneficiary(c) ==
    /\ caller[c].pc = "rest"
    /\ \E id \in 1..ids :
         caller' = [caller EXCEPT ![c] = [Unasked EXCEPT !.pc = "read", !.job = "beneficiary",
                                                         !.id = id]]
    /\ UNCHANGED <<holder, row, ids, paid, said, changes>>

\* SELECT ... FROM bank_accounts WHERE id = $1 AND user_id = $2, before the lock.
ReadPayee(c) ==
    /\ caller[c].pc = "read"
    /\ IF \E n \in Numbers : row[n].id = caller[c].id
       THEN \E n \in Numbers : /\ row[n].id = caller[c].id
                               /\ caller' = [caller EXCEPT ![c].pc = "reserve", ![c].number = n]
       ELSE Gone(c)
    /\ UNCHANGED <<holder, row, ids, paid, said, changes>>

\* INSERT INTO payouts: bank_account_id REFERENCES bank_accounts, so a row that
\* went meanwhile fails the transaction and the reservation with it.
ReserveTo(c) ==
    /\ caller[c].pc = "reserve"
    /\ paid' = IF \E n \in Numbers : row[n].id = caller[c].id
               THEN paid \cup {[id |-> caller[c].id, number |-> caller[c].number,
                                confirmed |-> caller[c].claimed]}
               ELSE paid
    /\ Gone(c)
    /\ UNCHANGED <<holder, row, ids, said, changes>>

\* remove_account.  A row that a payout refers to cannot be deleted: the foreign
\* key makes the request an internal error.
RemoveAccount(n) ==
    /\ row[n].id # 0
    /\ ~\E payout \in paid : payout.id = row[n].id
    /\ row' = [row EXCEPT ![n] = NoRow]
    /\ UNCHANGED <<holder, ids, caller, paid, said, changes>>

\* Refused for the balance or the cap, or dropped.
GiveUp(c) ==
    /\ caller[c].pc # "rest"
    /\ Gone(c)
    /\ UNCHANGED <<holder, row, ids, paid, said, changes>>

PayeesNext ==
    \/ BankChanges
    \/ \E n \in Numbers : RemoveAccount(n)
    \/ \E c \in Callers : \/ AskBank(c) \/ ResolveAccount(c) \/ AddAccount(c) \/ SaveOneOff(c)
                          \/ PayBeneficiary(c) \/ ReadPayee(c) \/ ReserveTo(c) \/ GiveUp(c)

PayeesSpec == PayeesInit /\ [][PayeesNext]_payeeVars

-----------------------------------------------------------------------------
\* "The name we store is the one the bank returned, never one the client supplied"
\* (bank_routes.rs): a row is named as the bank named its account, a payout keeps
\* the row it was reserved for, with the number that was read, and the name a
\* customer confirmed for a one-off is one the bank gave.
PayeesAreTheBanks ==
    /\ \A n \in Numbers : row[n].id # 0 => row[n].name \in said[n]
    /\ \A payout \in paid :
         /\ row[payout.number].id = payout.id
         /\ payout.confirmed \in said[payout.number] \cup {NoName}
===============================================================================
