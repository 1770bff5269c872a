----------------------------- MODULE TronWatcher -----------------------------
(***************************************************************************)
(* The watcher of TRON (tron.rs, watch_tron).  TronGrid is asked for the   *)
(* transfers of one address since a time, and for the block of each; it    *)
(* lists a transfer, and knows its block, a little after it lands.  The    *)
(* first sweep looks a day back, a later one to a slack before the start   *)
(* of the sweep before it.  Blocks come at a steady pace, so a height is a *)
(* time; dust and the replay of a posted journal are in DepositWatcher,    *)
(* whose store this is.                                                    *)
(***************************************************************************)
EXTENDS Integers, FiniteSets, FiniteSetsExt

CONSTANTS Txs,            \* transactions
          Wallets,        \* addresses of ours
          Pays,           \* whom each transaction pays
          Ours,           \* those in a token whose contract is recognised
          PageLimit,      \* limit=200
          Day,            \* how far the first sweep looks back
          Slack,          \* five minutes
          Depth,          \* Network::min_confirmations, in time
          IndexLag,       \* environment: how late TronGrid lists a transfer
          MaxGap,         \* environment: how long ago the last sweep that ended may have begun
          LastTime,       \* bound: the clock
          MaxLosses,      \* bound: lookups and statements that fail
          MaxCrashes      \* bound: restarts

\* Each transaction pays an address of ours, and however often the watcher is
\* restarted, it does not go a day without a sweep that ends.
ASSUME TronConstants ==
    /\ IsFiniteSet(Txs) /\ Pays \in [Txs -> (SUBSET Wallets) \ {{}}]
    /\ Ours \subseteq Txs
    /\ {PageLimit, Day, Slack, Depth, IndexLag, MaxGap, LastTime, MaxLosses, MaxCrashes} \subseteq Nat
    /\ IndexLag <= Slack
    /\ MaxGap + Slack <= Day

VARIABLES time,
          landed,         \* when each transaction was included, -1 before
          listed, known,  \* what TronGrid lists, and whose block it knows
          state,          \* of the watcher
          since,
          swept, done,    \* when this sweep began, and the last that ended
          todo, found,    \* addresses left of the sweep; transfers left of one
          deposit,        \* rows, by tx_hash: output_index is always 0
          due,            \* what each address was credited
          skipped,        \* history: transactions a page had no room for
          lost, crashes

tronVars == <<time, landed, listed, known, state, since, swept, done, todo, found, deposit, due,
              skipped, lost, crashes>>

NoTransfer == [status |-> "none", to |-> CHOOSE w \in Wallets : TRUE]

TronTypeOK ==
    /\ time \in 0..LastTime
    /\ landed \in [Txs -> -1..LastTime]
    /\ known \subseteq listed /\ listed \subseteq Txs
    /\ state \in {"down", "idle", "sweep"}
    /\ since \in -Day..LastTime /\ swept \in 0..LastTime /\ done \in 0..LastTime
    /\ todo \subseteq Wallets
    /\ found \subseteq Ours \X Wallets
    /\ deposit \in [Txs -> [status : {"none", "seen", "confirmed"}, to : Wallets]]
    /\ due \in [Wallets -> Nat]
    /\ skipped \subseteq Txs
    /\ lost \in 0..MaxLosses /\ crashes \in 0..MaxCrashes

TronInit ==
    /\ time = 0
    /\ landed = [t \in Txs |-> -1]
    /\ listed = {} /\ known = {}
    /\ state = "down"
    /\ since = 0 /\ swept = 0 /\ done = 0
    /\ todo = {} /\ found = {}
    /\ deposit = [t \in Txs |-> NoTransfer]
    /\ due = [w \in Wallets |-> 0]
    /\ skipped = {} /\ lost = 0 /\ crashes = 0

watchVars == <<state, since, swept, done, todo, found, deposit, due, skipped, lost, crashes>>

-----------------------------------------------------------------------------
(* The network.                                                            *)

Land(t) ==
    /\ landed[t] = -1
    /\ landed' = [landed EXCEPT ![t] = time]
    /\ UNCHANGED <<time, listed, known, watchVars>>

List(t) ==
    /\ landed[t] >= 0 /\ t \notin listed
    /\ listed' = listed \cup {t}
    /\ UNCHANGED <<time, landed, known, watchVars>>

\* gettransactioninfobyid has a blockNumber.
Place(t) ==
    /\ t \in listed \ known
    /\ known' = known \cup {t}
    /\ UNCHANGED <<time, landed, listed, watchVars>>

TronTime ==
    /\ time < LastTime
    /\ \A t \in Txs : landed[t] >= 0 /\ t \notin known => time - landed[t] < IndexLag
    /\ time - done < MaxGap
    /\ time' = time + 1
    /\ UNCHANGED <<landed, listed, known, watchVars>>

chain == <<time, landed, listed, known>>

-----------------------------------------------------------------------------
(* The watcher.                                                            *)

StartTron ==
    /\ state = "down"
    /\ state' = "idle"
    /\ since' = time - Day
    /\ UNCHANGED <<chain, swept, done, todo, found, deposit, due, skipped, lost, crashes>>

\* The head and the addresses are read.
BeginSweep ==
    /\ state = "idle"
    /\ state' = "sweep"
    /\ swept' = time
    /\ todo' = Wallets
    /\ UNCHANGED <<chain, since, done, found, deposit, due, skipped, lost, crashes>>

Loses(n) == lost + n <= MaxLosses /\ lost' = lost + n

\* The one page that is read of a list, in no order the code asks for.
Pages(list) == IF Cardinality(list) <= PageLimit THEN {list} ELSE kSubset(PageLimit, list)

\* transfers_to, for one address.  It fails as a whole and the sweep goes on,
\* or the block of a transfer cannot be found out and that one is left for now.
\* A transfer of some other token takes its room on the page all the same.
ScanAddress(w) ==
    LET list == {t \in listed : w \in Pays[t] /\ landed[t] >= since}
    IN /\ state = "sweep" /\ found = {}
       /\ w \in todo
       /\ todo' = todo \ {w}
       /\ \/ Loses(1) /\ found' = {} /\ UNCHANGED skipped
          \/ \E page \in Pages(list) : \E unresolved \in SUBSET (page \cap Ours \cap known) :
               /\ Loses(Cardinality(unresolved))
               /\ found' = ((page \cap Ours \cap known) \ unresolved) \X {w}
               /\ skipped' = skipped \cup (list \ page)
       /\ UNCHANGED <<chain, state, since, swept, done, deposit, due, crashes>>

Settled(t) == swept - landed[t] >= Depth

\* upsert_deposit: ON CONFLICT (chain, tx_hash, output_index) the row stays.
Row(t, w) == IF deposit[t].status = "none" THEN [status |-> "seen", to |-> w] ELSE deposit[t]

\* credit_deposit credits the row's user, unless it is confirmed.
Credited(rows, ts) ==
    [t \in Txs |-> IF t \in ts THEN [rows[t] EXCEPT !.status = "confirmed"] ELSE rows[t]]

Paid(rows, ts) == [w \in Wallets |-> due[w] + Cardinality({t \in ts : rows[t].to = w})]

\* handle_transfer; either statement may fail and is logged.
HandleTron(t, w) ==
    LET rows == [deposit EXCEPT ![t] = Row(t, w)]
        deep == IF Settled(t) /\ rows[t].status # "confirmed" THEN {t} ELSE {}
    IN /\ <<t, w>> \in found
       /\ found' = found \ {<<t, w>>}
       /\ \/ /\ deposit' = Credited(rows, deep)
             /\ due' = Paid(rows, deep)
             /\ UNCHANGED lost
          \/ Loses(1) /\ deposit' \in {deposit, rows} /\ UNCHANGED due
       /\ UNCHANGED <<chain, state, since, swept, done, todo, skipped, crashes>>

NextSinceNoSlack == swept

NextSince == swept - Slack

\* advance_pending, save_cursor, and where the next sweep begins.
EndSweep ==
    /\ state = "sweep" /\ todo = {} /\ found = {}
    /\ \E failed \in SUBSET {t \in Txs : deposit[t].status = "seen" /\ Settled(t)} :
         LET deep == {t \in Txs : deposit[t].status = "seen" /\ Settled(t)} \ failed
         IN /\ Loses(Cardinality(failed))
            /\ deposit' = Credited(deposit, deep)
            /\ due' = Paid(deposit, deep)
    /\ state' = "idle"
    /\ since' = NextSince
    /\ done' = swept
    /\ UNCHANGED <<chain, swept, todo, found, skipped, crashes>>

\* The process dies, or the head, the addresses or the cursor fail.
StopTron ==
    /\ state # "down"
    /\ crashes < MaxCrashes
    /\ crashes' = crashes + 1
    /\ state' = "down"
    /\ todo' = {} /\ found' = {}
    /\ UNCHANGED <<chain, since, swept, done, deposit, due, skipped, lost>>

TronStep ==
    \/ StartTron \/ BeginSweep \/ EndSweep
    \/ \E w \in Wallets : ScanAddress(w) \/ \E t \in Txs : HandleTron(t, w)

TronNext ==
    \/ \E t \in Txs : Land(t) \/ List(t) \/ Place(t)
    \/ TronTime
    \/ TronStep
    \/ StopTron

TronSpec == TronInit /\ [][TronNext]_tronVars

-----------------------------------------------------------------------------
(* Properties.                                                             *)

\* What a sweep no longer asks for is recorded: neither a transfer that was
\* listed late, nor a restart, is behind the next look ("so a restart cannot
\* miss anything", watch_tron), as long as no lookup or statement failed and no
\* page was too short for it: the next sweep moves on from a full page.
SweptIsRecorded ==
    lost = 0 /\ state # "down" =>
        \A t \in Ours \ skipped : landed[t] >= 0 /\ landed[t] < since => deposit[t].status # "none"

\* "The transaction id is unique per transfer here because the query is already
\* scoped to one recipient" (tron.rs): whoever a credited transaction paid has it
\* by the time the sweeps no longer ask for it.
EveryRecipientIsPaid ==
    lost = 0 /\ state = "idle" =>
        \A w \in Wallets :
            due[w] >= Cardinality({t \in Txs \ skipped : /\ w \in Pays[t]
                                                        /\ landed[t] \in 0..(since - 1)
                                                        /\ deposit[t].status = "confirmed"})
===============================================================================
