--------------------------- MODULE DepositWatcher ---------------------------
(***************************************************************************)
(* The watcher of one EVM network (crates/watcher): watch_evm scans the    *)
(* logs of a window of blocks, records each transfer in `deposits`,        *)
(* credits those that are deep enough, then looks for credited deposits    *)
(* whose block was replaced, and saves its cursor.  Every statement that   *)
(* commits on its own is atomic; the chain may change between any two of   *)
(* them, and the process may stop between any two.  Only in check_reorgs   *)
(* are calls taken together: the hashes of the window are compared in one  *)
(* step, and where a transaction is now is asked and written in one.       *)
(***************************************************************************)
EXTENDS EvmChain, FiniteSets, FiniteSetsExt

CONSTANTS Dust,             \* transactions whose amount is below minimum_deposit
          MinConfirmations, \* Network::min_confirmations
          ScanOverlap,      \* Network::scan_overlap
          MaxWindow,        \* MAX_LOG_WINDOW
          MaxLag,           \* blocks the node that serves the logs may be behind
          MaxErrors,        \* bound: swallowed RPC and database errors
          MaxStops          \* bound: stops and failed passes

ASSUME WatcherConstants ==
    /\ Dust \subseteq Transactions
    /\ MinConfirmations \in Nat \ {0}
    /\ ScanOverlap \in Nat
    /\ MaxWindow \in Nat \ {0}
    /\ MaxLag \in Nat
    /\ MaxErrors \in Nat
    /\ MaxStops \in Nat
    /\ MaxHead \in Nat
    /\ MaxReorgs \in Nat
    /\ ReorgDepth \in Nat

VARIABLES deposits,         \* the deposits table, by (tx_hash, output_index)
          journals,         \* idempotency keys in ledger_journals
          owed,             \* what user_crypto owes, in transfers
          saved,            \* chain_cursors.last_block
          began,            \* history: the block the first start looked back to
          buried,           \* history: transactions moved to where the scan had passed
          cursor, top, to,  \* watch_evm's cursor, head and end of window
          pc, queue, errors, stops

dbVars   == <<deposits, journals, owed, saved>>
passVars == <<began, cursor, top, to, pc, queue>>
vars == <<chainVars, dbVars, passVars, buried, errors, stops>>

Keys == Transactions \X Indexes

NoCursor == -1

RescanDepth == 3 * MinConfirmations

Statuses == {"none", "seen", "confirming", "confirmed", "reversed", "ignored"}

NoDeposit == [status |-> "none", block |-> 0, hash |-> 0]

Journals == {"deposit", "reversal"} \X Keys

Steps == {"down", "idle", "scan", "handle", "credit", "advance", "locate"}

TypeOK ==
    /\ ChainTypeOK
    /\ deposits \in [Keys -> [status : Statuses, block : Heights, hash : 0..MaxReorgs]]
    /\ journals \subseteq Journals
    /\ owed \in Int
    /\ saved \in Heights \cup {NoCursor}
    /\ began \in Heights
    /\ buried \subseteq Transactions
    /\ cursor \in Heights
    /\ top \in Heights
    /\ to \in Heights
    /\ pc \in Steps
    /\ queue \subseteq [key : Keys, block : Heights, hash : 0..MaxReorgs]
    /\ errors \in 0..MaxErrors
    /\ stops \in 0..MaxStops

Init ==
    /\ ChainInit
    /\ deposits = [k \in Keys |-> NoDeposit]
    /\ journals = {}
    /\ owed = 0
    /\ saved = NoCursor
    /\ began = 0 /\ buried = {} /\ cursor = 0 /\ top = 0 /\ to = 0
    /\ pc = "down"
    /\ queue = {}
    /\ errors = 0
    /\ stops = 0

-----------------------------------------------------------------------------
(* The store.                                                              *)

PendingSeenOnly(k) == deposits[k].status = "seen"

Pending(k) == deposits[k].status \in {"seen", "confirming"}

Confirmations(block) == Max({top - block + 1, 0})

Deep(block) == Confirmations(block) >= MinConfirmations

CreditKey(k) == <<"deposit", k>>

ReversalKeyShared(k) == CreditKey(k)

\* Sharing the key of the credit would make the reversal a replay of it.
ReversalKey(k) == <<"reversal", k>>

\* Journal::post moves money unless its idempotency key is taken.
Posted(key) == IF key \in journals THEN 0 ELSE 1

\* upsert_deposit: ON CONFLICT only the confirmations are written.
Upserted(o) ==
    IF deposits[o.key].status = "none"
    THEN [status |-> IF o.key[1] \in Dust THEN "ignored" ELSE "seen",
          block |-> o.block, hash |-> o.hash]
    ELSE deposits[o.key]

\* credit_deposit, of a row that is neither confirmed nor reversed.
CreditDeposit(k) ==
    /\ deposits' = [deposits EXCEPT ![k].status = "confirmed"]
    /\ owed' = owed + Posted(CreditKey(k))
    /\ journals' = journals \cup {CreditKey(k)}

\* reverse_deposit, which undoes nothing but a credit.
Reverse(k) ==
    /\ deposits' = [deposits EXCEPT ![k].status = "reversed"]
    /\ owed' = owed - Posted(ReversalKey(k))
    /\ journals' = journals \cup {ReversalKey(k)}

-----------------------------------------------------------------------------
(* watch_evm.                                                              *)

LookBack(block) == Max({block - RescanDepth, 0})

\* supervise starts watch_evm, which resumes behind the saved cursor.
Start ==
    /\ pc = "down"
    /\ pc' = "idle"
    /\ cursor' = LookBack(IF saved = NoCursor THEN head ELSE saved)
    /\ began' = IF saved = NoCursor THEN LookBack(head) ELSE began
    /\ UNCHANGED <<chainVars, dbVars, buried, top, to, queue, errors, stops>>

\* A pass reads the head; the window is whatever the endpoint allows.
BeginPass ==
    /\ pc = "idle"
    /\ cursor < head
    /\ top' = head
    /\ \E size \in 1..MaxWindow : to' = Min({cursor + size, head})
    /\ pc' = "scan"
    /\ UNCHANGED <<chainVars, dbVars, began, buried, cursor, queue, errors, stops>>

ScanFromCursor == cursor + 1

ScanFrom == Max({cursor + 1 - ScanOverlap, 0})

\* The logs of the blocks from..upto.
Logs(from, upto) ==
    {[key |-> <<t, place[t].index>>, block |-> place[t].block, hash |-> hash[place[t].block]] :
        t \in {t \in Transactions : place[t].block \in from..upto}}

\* token_transfers, perhaps answered by a node that lags behind `top`.
Scan ==
    /\ pc = "scan"
    /\ \E lag \in 0..MaxLag : queue' = Logs(ScanFrom, Min({to, top - lag}))
    /\ pc' = "handle"
    /\ UNCHANGED <<chainVars, dbVars, began, buried, cursor, top, to, errors, stops>>

First(o) == o \in queue /\ \A other \in queue : other.block >= o.block

\* handle_transfer: the row.  A statement that fails is logged and forgotten.
HandleTransfer(o) ==
    LET rows == [deposits EXCEPT ![o.key] = Upserted(o)]
        credits == /\ rows[o.key].status \notin {"confirmed", "reversed"}
                   /\ o.key[1] \notin Dust
                   /\ Deep(o.block)
    IN /\ pc = "handle"
       /\ First(o)
       /\ \/ /\ deposits' = rows
             /\ IF credits THEN pc' = "credit" /\ queue' = queue
                           ELSE pc' = pc /\ queue' = queue \ {o}
             /\ UNCHANGED errors
          \/ /\ errors < MaxErrors
             /\ errors' = errors + 1
             /\ queue' = queue \ {o}
             /\ UNCHANGED <<deposits, pc>>
       /\ UNCHANGED <<chainVars, journals, owed, saved, began, buried, cursor, top, to, stops>>

\* handle_transfer: the credit, which may fail as well.
CreditTransfer(o) ==
    /\ pc = "credit"
    /\ First(o)
    /\ deposits[o.key].status \in {"seen", "confirming"}
    /\ \/ CreditDeposit(o.key) /\ UNCHANGED errors
       \/ /\ errors < MaxErrors
          /\ errors' = errors + 1
          /\ UNCHANGED <<deposits, journals, owed>>
    /\ queue' = queue \ {o}
    /\ pc' = "handle"
    /\ UNCHANGED <<chainVars, saved, began, buried, cursor, top, to, stops>>

Recorded(ks) == {[key |-> k, block |-> deposits[k].block, hash |-> deposits[k].hash] : k \in ks}

\* advance_pending: the rows, then each of them.
PendingDeposits ==
    /\ pc = "handle"
    /\ queue = {}
    /\ pc' = "advance"
    /\ queue' = Recorded({k \in Keys : Pending(k)})
    /\ UNCHANGED <<chainVars, dbVars, began, buried, cursor, top, to, errors, stops>>

\* A row whose recorded block is deep enough is credited; one whose credit fails
\* is logged and stays pending.
AdvancePending(d) ==
    /\ pc = "advance"
    /\ First(d)
    /\ \/ Deep(d.block) /\ CreditDeposit(d.key) /\ UNCHANGED errors
       \/ /\ Deep(d.block)
          /\ errors < MaxErrors
          /\ errors' = errors + 1
          /\ UNCHANGED <<deposits, journals, owed>>
       \/ /\ ~Deep(d.block)
          /\ deposits' = [deposits EXCEPT ![d.key].status = "confirming"]
          /\ UNCHANGED <<journals, owed, errors>>
    /\ queue' = queue \ {d}
    /\ UNCHANGED <<chainVars, saved, began, buried, cursor, top, to, pc, stops>>

\* reorg_window, and the credited rows whose block is no longer what it was.
Replaced ==
    {k \in Keys : /\ deposits[k].status = "confirmed"
                  /\ deposits[k].block >= top - RescanDepth
                  /\ deposits[k].hash # hash[deposits[k].block]}

CheckReorgs ==
    /\ pc = "advance"
    /\ queue = {}
    /\ pc' = "locate"
    /\ \E failed \in SUBSET Replaced :
         /\ errors' = errors + Cardinality(failed)
         /\ errors' <= MaxErrors
         /\ queue' = Recorded(Replaced \ failed)
    /\ UNCHANGED <<chainVars, dbVars, began, buried, cursor, top, to, stops>>

\* relocate_deposit.
Relocate(k) ==
    /\ deposits' = [deposits EXCEPT ![k].block = place[k[1]].block,
                                    ![k].hash = hash[place[k[1]].block]]
    /\ UNCHANGED <<journals, owed>>

LocateReversesOnError(d) ==
    /\ pc = "locate"
    /\ d \in queue
    /\ queue' = queue \ {d}
    /\ \/ OnChain(d.key[1]) /\ Relocate(d.key) /\ UNCHANGED errors
       \/ ~OnChain(d.key[1]) /\ Reverse(d.key) /\ UNCHANGED errors
       \/ errors < MaxErrors /\ errors' = errors + 1 /\ Reverse(d.key)
    /\ UNCHANGED <<chainVars, saved, began, buried, cursor, top, to, pc, stops>>

\* transaction_location decides: followed, reversed, or left when the call fails.
Locate(d) ==
    /\ pc = "locate"
    /\ d \in queue
    /\ queue' = queue \ {d}
    /\ \/ OnChain(d.key[1]) /\ Relocate(d.key) /\ UNCHANGED errors
       \/ ~OnChain(d.key[1]) /\ Reverse(d.key) /\ UNCHANGED errors
       \/ /\ errors < MaxErrors
          /\ errors' = errors + 1
          /\ UNCHANGED <<deposits, journals, owed>>
    /\ UNCHANGED <<chainVars, saved, began, buried, cursor, top, to, pc, stops>>

\* save_cursor, and the next pass.
EndPass ==
    /\ pc = "locate"
    /\ queue = {}
    /\ saved' = to
    /\ cursor' = to
    /\ pc' = "idle"
    /\ UNCHANGED <<chainVars, deposits, journals, owed, began, buried, top, to, queue, errors, stops>>

\* The process dies, or the pass returns an error and supervise starts over.
Stop ==
    /\ pc # "down"
    /\ stops < MaxStops
    /\ stops' = stops + 1
    /\ pc' = "down"
    /\ queue' = {}
    /\ cursor' = 0 /\ top' = 0 /\ to' = 0
    /\ UNCHANGED <<chainVars, dbVars, began, buried, errors>>

WatcherStep ==
    \/ Start
    \/ BeginPass
    \/ Scan
    \/ \E o \in queue : HandleTransfer(o) \/ CreditTransfer(o)
    \/ PendingDeposits
    \/ \E d \in queue : AdvancePending(d)
    \/ CheckReorgs
    \/ \E d \in queue : Locate(d)
    \/ EndPass

\* The scan has read this block, and starts its next window above it.
Passed(block) ==
    \/ block <= saved - ScanOverlap
    \/ pc # "down" /\ block <= cursor - ScanOverlap
    \/ pc \in {"handle", "credit", "advance", "locate"} /\ block <= to - ScanOverlap

Moved == {t \in Transactions : place'[t] # place[t]}

\* The chain moves under the watcher.  A reorganisation deeper than the overlap
\* can put a transaction into a block that was read before.
ChainMoves ==
    /\ ChainStep
    /\ buried' = (buried \ Moved) \cup {t \in Moved : Passed(place'[t].block)}
    /\ UNCHANGED <<dbVars, passVars, errors, stops>>

Next == ChainMoves \/ WatcherStep \/ Stop

Spec == Init /\ [][Next]_vars

\* Blocks keep coming and the watcher keeps running: supervise restarts it.
Fairness == WF_vars(Mine /\ ChainMoves) /\ WF_vars(WatcherStep)

FairSpec == Spec /\ Fairness

-----------------------------------------------------------------------------
(* Properties.                                                             *)

\* What the ledger owes is one transfer per credited deposit, whatever was
\* scanned twice, retried, followed or reversed: the journals and the statuses
\* never part (credit_deposit, reverse_deposit).
BalanceMatchesRows ==
    owed = Cardinality({k \in Keys : deposits[k].status = "confirmed"})

\* A transfer that has fallen behind the overlap of the scan is recorded: no
\* lagging node, reorganisation or restart hides it, as long as no database
\* error was swallowed.  What a reorganisation put behind the overlap itself is
\* not read again before a restart (the scan of watch_evm).
NothingMissed ==
    errors = 0 =>
        \A t \in Transactions \ buried :
            place[t].block \in (began + 1)..(saved - ScanOverlap)
                => deposits[<<t, place[t].index>>].status # "none"

\* A credit is only undone when the chain no longer has the transaction: never
\* for a block that was replaced or a call that failed (check_reorgs).
ReversedWasGone ==
    [][\A k \in Keys : deposits'[k].status = "reversed" /\ deposits[k].status # "reversed"
                           => ~OnChain(k[1])]_vars

\* A transfer that stays where it is, deep enough, is credited, unless it was
\* credited and reversed before or moved to where the scan had passed
\* (advance_pending; swallowed errors apart).
StayingIsCredited ==
    \A t \in Transactions \ Dust :
        LET stays == /\ place[t].block \in (began + 1)..(MaxHead - MinConfirmations)
                     /\ t \notin buried
        IN ([](errors = 0) /\ <>[]stays)
            => <>(\E i \in Indexes : deposits[<<t, i>>].status \in {"confirmed", "reversed"})

\* One transaction is credited at most once ("Reprocessing a block must not
\* credit twice", deposit.rs).
CreditedOnce ==
    \A t \in Transactions :
        Cardinality({i \in Indexes : deposits[<<t, i>>].status = "confirmed"}) <= 1
=============================================================================
