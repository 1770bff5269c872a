-------------------------------- MODULE Ledger --------------------------------
(***************************************************************************)
(* The ledger (ledger/src/account.rs, journal.rs): a journal is drafted,   *)
(* refused unless it is sound, and posted inside its caller's transaction, *)
(* the journal's row first, then an entry at a time.  The unique key of    *)
(* the rows decides between callers that post one event.  The other        *)
(* modules take a posting as one step; this one is why they may.           *)
(***************************************************************************)
EXTENDS Integers, Sequences, Functions

CONSTANTS Accounts, KindOf,   \* ledger_accounts; the AccountKind of each
          Assets, Amounts,    \* what entries may say; debits are positive
          EventKeys,          \* idempotency keys
          Drafts,             \* entries a caller may ask for
          Posters             \* transactions

Liabilities  == {"user_crypto", "user_ngn", "ngn_payable_pending", "number_payable_pending"}
Holdings     == {"custody_deposit_addrs", "custody_hot", "custody_master", "ngn_float",
                 "supplier_float"}
AccountKinds == Liabilities \cup Holdings \cup
                {"spread_revenue", "fee_revenue", "number_revenue", "gas_expense",
                 "payout_fee_expense"}

CustodyOnly  == {"sweep", "gas_spend"}
JournalKinds == CustodyOnly \cup
                {"deposit_credit", "deposit_reversal", "sell", "payout_reserve", "payout_settle",
                 "payout_reversal", "ngn_deposit", "number_reserve", "number_settle",
                 "number_refund", "adjustment"}

Entry   == [account : Accounts, asset : Assets, amount : Amounts]
Journal == [kind : JournalKinds, entries : Seq(Entry)]
Missing == [kind |-> "none", entries |-> <<>>]

ASSUME LedgerConstants ==
    /\ KindOf \in [Accounts -> AccountKinds]
    /\ Amounts \subseteq Int
    /\ Drafts \subseteq Journal /\ EventKeys # {}

VARIABLES journals,       \* committed: ledger_journals with their ledger_entries, by key
          posting,        \* each transaction: its draft and how much of it is inserted
          answered        \* keys some caller was told are posted, and committed on

ledgerVars == <<journals, posting, answered>>

NotPosting == [pc |-> "rest", key |-> CHOOSE k \in EventKeys : TRUE, draft |-> Missing, inserted |-> 0]

LedgerTypeOK ==
    /\ journals \in [EventKeys -> Journal \cup {Missing}]
    /\ posting \in [Posters -> [pc : {"rest", "insert", "entries", "replay"}, key : EventKeys,
                                draft : Journal \cup {Missing}, inserted : Nat]]
    /\ answered \subseteq EventKeys

LedgerInit ==
    /\ journals = [k \in EventKeys |-> Missing]
    /\ posting = [p \in Posters |-> NotPosting]
    /\ answered = {}

\* The sum of the entries of one asset.
Residual(entries, asset) ==
    SumFunctionOnSet([i \in DOMAIN entries |-> entries[i].amount],
                     {i \in DOMAIN entries : entries[i].asset = asset})

\* "Every journal must balance independently for each asset" (build); the
\* trigger assert_journal_balances asks the same when a transaction commits.
Balances(entries) == \A asset \in Assets : Residual(entries, asset) = 0

\* JournalBuilder::build
Sound(journal) ==
    /\ Len(journal.entries) >= 2
    /\ \A i \in DOMAIN journal.entries : journal.entries[i].amount # 0
    /\ Balances(journal.entries)
    /\ journal.kind \in CustodyOnly =>
          \A i \in DOMAIN journal.entries : KindOf[journal.entries[i].account] \notin Liabilities

-----------------------------------------------------------------------------
Moves(p, pc) == posting' = [posting EXCEPT ![p].pc = pc]

\* A draft that is not sound is an error of the caller.
Draft(p, k) ==
    /\ posting[p].pc = "rest"
    /\ \E draft \in Drafts :
         /\ Sound(draft)
         /\ posting' = [posting EXCEPT ![p] = [pc |-> "insert", key |-> k, draft |-> draft,
                                               inserted |-> 0]]
    /\ UNCHANGED <<journals, answered>>

\* Another transaction has inserted the key and has not ended.
Competes(p, k) == \E q \in Posters \ {p} : posting[q].pc = "entries" /\ posting[q].key = k

\* Mutant: a competitor's row counts before it is committed.
InsertJournalUnwaited(p) ==
    /\ posting[p].pc = "insert"
    /\ Moves(p, IF journals[posting[p].key] # Missing \/ Competes(p, posting[p].key)
                THEN "replay" ELSE "entries")
    /\ UNCHANGED <<journals, answered>>

\* Journal::post: "DO NOTHING waits for a competing insert".
InsertJournal(p) ==
    /\ posting[p].pc = "insert"
    /\ ~Competes(p, posting[p].key)
    /\ Moves(p, IF journals[posting[p].key] # Missing THEN "replay" ELSE "entries")
    /\ UNCHANGED <<journals, answered>>

InsertEntry(p) ==
    /\ posting[p].pc = "entries"
    /\ posting[p].inserted < Len(posting[p].draft.entries)
    /\ posting' = [posting EXCEPT ![p].inserted = @ + 1]
    /\ UNCHANGED <<journals, answered>>

\* What was inserted is committed with the rest of the caller's transaction.
CommitPosted(p) ==
    LET row == [posting[p].draft EXCEPT !.entries = SubSeq(@, 1, posting[p].inserted)]
    IN /\ posting[p].pc = "entries"
       /\ posting[p].inserted = Len(posting[p].draft.entries)
       /\ Balances(row.entries)
       /\ journals' = [journals EXCEPT ![posting[p].key] = row]
       /\ answered' = answered \cup {posting[p].key}
       /\ posting' = [posting EXCEPT ![p] = NotPosting]

\* AlreadyPosted: nothing was written, whatever the draft said.
CommitReplay(p) ==
    /\ posting[p].pc = "replay"
    /\ answered' = answered \cup {posting[p].key}
    /\ posting' = [posting EXCEPT ![p] = NotPosting]
    /\ UNCHANGED journals

\* A statement of the caller's fails, or its handler is dropped.
RollBackPost(p) ==
    /\ posting[p].pc # "rest"
    /\ posting' = [posting EXCEPT ![p] = NotPosting]
    /\ UNCHANGED <<journals, answered>>

LedgerNext ==
    \E p \in Posters :
        \/ \E k \in EventKeys : Draft(p, k)
        \/ InsertJournal(p) \/ InsertEntry(p)
        \/ CommitPosted(p) \/ CommitReplay(p) \/ RollBackPost(p)

LedgerSpec == LedgerInit /\ [][LedgerNext]_ledgerVars

-----------------------------------------------------------------------------
(* Properties.                                                             *)

\* An event someone was told is posted is posted, though the transaction that
\* inserted its key first may have rolled back in between; and what is posted is
\* a whole, sound journal, never a part of one (Journal::post, build).
AnswerStands ==
    /\ \A k \in answered : journals[k] # Missing
    /\ \A k \in EventKeys : journals[k] # Missing => Sound(journals[k])

\* "Post it, and it is immutable" (journal.rs): no step changes a posted journal.
PostedIsFinal ==
    [][\A k \in EventKeys : journals[k] # Missing => journals'[k] = journals[k]]_ledgerVars
===============================================================================
