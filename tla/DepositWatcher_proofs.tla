------------------------ MODULE DepositWatcher_proofs ------------------------
(***************************************************************************)
(* Proofs about DepositWatcher for any transactions, log indexes, windows, *)
(* lags and bounds.  The rows and the journals of a deposit agree, and     *)
(* what a pass still holds in its hands is as it read it: rows to advance  *)
(* are pending and rows to locate are credited, each of them once.  The    *)
(* scan stays behind the head and has a row for whatever is behind it.     *)
(***************************************************************************)
EXTENDS DepositWatcher, FiniteSetTheorems, TLAPS

DepositType == [status : Statuses, block : Heights, hash : Int]

WatcherType ==
    /\ head \in Heights /\ reorgs \in Int
    /\ hash \in [Heights -> Int]
    /\ place \in [Transactions -> Places]
    /\ deposits \in [Keys -> DepositType]
    /\ saved \in Heights \cup {NoCursor}
    /\ cursor \in Heights /\ top \in Heights /\ to \in Heights
    /\ queue \subseteq [key : Keys, block : Heights, hash : Int]

\* The journals of a deposit say what its row says.
Journaled ==
    \A k \in Keys :
        /\ CreditKey(k) \in journals <=> deposits[k].status \in {"confirmed", "reversed"}
        /\ ReversalKey(k) \in journals <=> deposits[k].status = "reversed"

Confirmed == {k \in Keys : deposits[k].status = "confirmed"}

MoneyInv == Journaled /\ IsFiniteSet(Confirmed) /\ owed = Cardinality(Confirmed)

\* What is left of the queue is as it was read.
QueueInv ==
    /\ pc = "advance" => \A d \in queue : Pending(d.key)
    /\ pc = "locate" => \A d \in queue : deposits[d.key].status = "confirmed"
    /\ pc \in {"advance", "locate"} => \A d, e \in queue : d.key = e.key => d = e

WatcherInv == WatcherType /\ MoneyInv /\ QueueInv

-----------------------------------------------------------------------------
(* Lemmas about the operators.                                             *)

LEMMA MaxWithZero ==
    ASSUME NEW a \in Int
    PROVE  Max({a, 0}) \in {a, 0} /\ Max({a, 0}) >= 0
<1>1. \E x \in {a, 0} : \A y \in {a, 0} : x >= y
  OBVIOUS
<1> QED
  BY <1>1 DEF Max

LEMMA MinOfTwo ==
    ASSUME NEW a \in Int, NEW b \in Int
    PROVE  Min({a, b}) \in {a, b} /\ Min({a, b}) <= a /\ Min({a, b}) <= b
<1>1. \E x \in {a, b} : \A y \in {a, b} : x <= y
  OBVIOUS
<1> QED
  BY <1>1 DEF Min

LEMMA KeysDistinct ==
    ASSUME NEW j, NEW k
    PROVE  /\ CreditKey(j) # ReversalKey(k)
           /\ CreditKey(j) = CreditKey(k) => j = k
           /\ ReversalKey(j) = ReversalKey(k) => j = k
BY DEF CreditKey, ReversalKey

\* A log that was read names a place on the chain.
LEMMA LogsType ==
    ASSUME WatcherType, NEW from \in Nat, NEW upto
    PROVE  Logs(from, upto) \subseteq [key : Keys, block : Heights, hash : Int]
<1> SUFFICES ASSUME NEW t \in Transactions, place[t].block \in from..upto
             PROVE  [key |-> <<t, place[t].index>>, block |-> place[t].block,
                     hash |-> hash[place[t].block]] \in [key : Keys, block : Heights, hash : Int]
  BY DEF Logs
<1>1. place[t] # Nowhere
  BY DEF Nowhere
<1>2. place[t] \in [block : Heights, index : Indexes]
  BY <1>1 DEF WatcherType, Places
<1> QED
  BY <1>2 DEF WatcherType, Keys

LEMMA RecordedType ==
    ASSUME WatcherType, NEW ks \in SUBSET Keys
    PROVE  /\ Recorded(ks) \subseteq [key : Keys, block : Heights, hash : Int]
           /\ \A d \in Recorded(ks) : d.key \in ks
           /\ \A d, e \in Recorded(ks) : d.key = e.key => d = e
BY DEF WatcherType, DepositType, Recorded

-----------------------------------------------------------------------------
(* What each write does to the rows and to the money.                      *)

LEMMA CreditMoney ==
    ASSUME WatcherType, MoneyInv, NEW k \in Keys, Pending(k), CreditDeposit(k)
    PROVE  /\ MoneyInv' /\ deposits' \in [Keys -> DepositType]
           /\ \A j \in Keys \ {k} : deposits'[j] = deposits[j]
           /\ deposits'[k].status = "confirmed"
<1>1. /\ deposits' \in [Keys -> DepositType]
      /\ \A j \in Keys \ {k} : deposits'[j] = deposits[j]
      /\ deposits'[k].status = "confirmed"
  BY DEF CreditDeposit, WatcherType, DepositType, Statuses
<1>2. deposits[k].status \notin {"confirmed", "reversed"}
  BY DEF Pending
<1>3. Confirmed' = Confirmed \cup {k} /\ k \notin Confirmed
  BY <1>1, <1>2 DEF Confirmed
<1>4. owed' = owed + 1
  BY <1>2 DEF CreditDeposit, Posted, MoneyInv, Journaled
<1>5. IsFiniteSet(Confirmed') /\ owed' = Cardinality(Confirmed')
  BY <1>3, <1>4, FS_AddElement DEF MoneyInv
<1>6. Journaled'
  BY <1>1, <1>2, KeysDistinct DEF CreditDeposit, MoneyInv, Journaled
<1> QED
  BY <1>1, <1>5, <1>6 DEF MoneyInv

LEMMA ReverseMoney ==
    ASSUME WatcherType, MoneyInv, NEW k \in Keys, deposits[k].status = "confirmed", Reverse(k)
    PROVE  /\ MoneyInv' /\ deposits' \in [Keys -> DepositType]
           /\ \A j \in Keys \ {k} : deposits'[j] = deposits[j]
<1>1. /\ deposits' \in [Keys -> DepositType]
      /\ \A j \in Keys \ {k} : deposits'[j] = deposits[j]
      /\ deposits'[k].status = "reversed"
  BY DEF Reverse, WatcherType, DepositType, Statuses
<1>2. Confirmed' = Confirmed \ {k} /\ k \in Confirmed
  BY <1>1 DEF Confirmed
<1>3. owed' = owed - 1
  BY DEF Reverse, Posted, MoneyInv, Journaled
<1>4. IsFiniteSet(Confirmed') /\ owed' = Cardinality(Confirmed')
  BY <1>2, <1>3, FS_RemoveElement DEF MoneyInv
<1>5. Journaled'
  BY <1>1, KeysDistinct DEF Reverse, MoneyInv, Journaled
<1> QED
  BY <1>1, <1>4, <1>5 DEF MoneyInv

\* A row that is neither credited nor reversed may become another such.
LEMMA SameMoney ==
    ASSUME MoneyInv, UNCHANGED <<journals, owed>>,
           \A k \in Keys : \/ deposits'[k].status = deposits[k].status
                           \/ /\ deposits'[k].status \notin {"confirmed", "reversed"}
                              /\ deposits[k].status \notin {"confirmed", "reversed"}
    PROVE  MoneyInv'
<1>1. Confirmed' = Confirmed
  BY DEF Confirmed
<1>2. Journaled'
  BY DEF MoneyInv, Journaled, CreditKey, ReversalKey
<1> QED
  BY <1>1, <1>2 DEF MoneyInv

-----------------------------------------------------------------------------
(* The steps.                                                              *)

LEMMA WatcherStarts == ASSUME WatcherConstants, Init PROVE WatcherInv
<1>1. 0 \in Heights /\ 0 \in Int
  BY DEF Heights, WatcherConstants
<1>2. NoDeposit \in DepositType /\ NoDeposit.status = "none"
  BY <1>1 DEF NoDeposit, DepositType, Statuses
<1>3. WatcherType
  BY <1>1, <1>2 DEF Init, ChainInit, WatcherType, Places
<1>4. Journaled
  BY <1>2 DEF Init, Journaled
<1>5. Confirmed = {}
  BY <1>2 DEF Init, Confirmed
<1>6. MoneyInv
  BY <1>4, <1>5, FS_EmptySet DEF Init, MoneyInv
<1> QED
  BY <1>3, <1>6 DEF Init, WatcherInv, QueueInv

\* A step that writes no row, and either leaves the queue or replaces it by one
\* that is not of rows.
LEMMA RowsKept ==
    ASSUME WatcherInv, WatcherType', UNCHANGED <<deposits, journals, owed>>,
           \/ UNCHANGED queue /\ (pc' = pc \/ pc' \notin {"advance", "locate"})
           \/ pc' \notin {"advance", "locate"}
    PROVE  WatcherInv'
<1>1. MoneyInv'
  BY SameMoney DEF WatcherInv
<1>2. QueueInv'
  BY DEF WatcherInv, QueueInv, Pending
<1> QED
  BY <1>1, <1>2 DEF WatcherInv

LEMMA ChainKeeps == ASSUME WatcherConstants, WatcherInv, ChainMoves PROVE WatcherInv'
<1>1. UNCHANGED <<deposits, journals, owed, saved, cursor, top, to, pc, queue>>
  BY DEF ChainMoves, dbVars, passVars
<1>2. CASE Mine
  <2>1. head' \in Heights /\ UNCHANGED <<hash, reorgs>>
    BY <1>2 DEF Mine, WatcherInv, WatcherType, Heights, WatcherConstants
  <2>2. PICK mined \in SUBSET {t \in Transactions : ~OnChain(t)} : \E index \in [mined -> Indexes] :
          place' = [t \in Transactions |->
                      IF t \in mined THEN [block |-> head + 1, index |-> index[t]] ELSE place[t]]
    BY <1>2 DEF Mine
  <2>3. PICK index \in [mined -> Indexes] :
          place' = [t \in Transactions |->
                      IF t \in mined THEN [block |-> head + 1, index |-> index[t]] ELSE place[t]]
    BY <2>2
  <2>4. head + 1 \in Heights
    BY <1>2, <2>1 DEF Mine
  <2>5. ASSUME NEW t \in Transactions PROVE place'[t] \in Places
    BY <2>3, <2>4, <2>5 DEF Places, WatcherInv, WatcherType
  <2> QED
    BY <1>1, <2>1, <2>3, <2>5, RowsKept DEF WatcherInv, WatcherType
<1>3. ASSUME NEW fork \in Heights, Reorganise(fork) PROVE WatcherInv'
  <2> DEFINE moved == {t \in Transactions : place[t].block > fork}
  <2>1. PICK goes \in [moved -> [block : (fork + 1)..head, index : Indexes] \cup {Nowhere}] :
          place' = [t \in Transactions |-> IF t \in moved THEN goes[t] ELSE place[t]]
    BY <1>3 DEF Reorganise
  <2>2. (fork + 1)..head \subseteq Heights
    BY DEF WatcherInv, WatcherType, Heights, WatcherConstants
  <2>3. ASSUME NEW t \in Transactions PROVE place'[t] \in Places
    <3>1. CASE t \in moved
      <4>1. goes[t] \in [block : (fork + 1)..head, index : Indexes] \cup {Nowhere}
        BY <2>1, <3>1
      <4> QED
        BY <2>1, <2>2, <3>1, <4>1 DEF Places
    <3>2. CASE t \notin moved
      BY <2>1, <2>3, <3>2 DEF WatcherInv, WatcherType
    <3> QED
      BY <3>1, <3>2
  <2>4. /\ hash' \in [Heights -> Int] /\ reorgs' \in Int /\ head' = head
    BY <1>3 DEF Reorganise, WatcherInv, WatcherType
  <2> QED
    BY <1>1, <2>1, <2>3, <2>4, RowsKept DEF WatcherInv, WatcherType
<1> QED
  BY <1>2, <1>3 DEF ChainMoves, ChainStep

LEMMA StartKeeps == ASSUME WatcherConstants, WatcherInv, Start PROVE WatcherInv'
<1> DEFINE from == IF saved = NoCursor THEN head ELSE saved
<1>1. from \in Heights /\ from - RescanDepth \in Int /\ from - RescanDepth <= from
  BY DEF WatcherInv, WatcherType, RescanDepth, WatcherConstants, Heights
<1>2. LookBack(from) \in Heights
  <2>1. Max({from - RescanDepth, 0}) \in {from - RescanDepth, 0} /\ Max({from - RescanDepth, 0}) >= 0
    BY <1>1, MaxWithZero
  <2> QED
    BY <1>1, <2>1 DEF LookBack, Heights, WatcherConstants
<1>3. WatcherType'
  BY <1>2 DEF Start, WatcherInv, WatcherType, chainVars, dbVars
<1> QED
  BY <1>3, RowsKept DEF Start, dbVars

LEMMA BeginKeeps == ASSUME WatcherConstants, WatcherInv, BeginPass PROVE WatcherInv'
<1>1. PICK size \in 1..MaxWindow : to' = Min({cursor + size, head})
  BY DEF BeginPass
<1>2. /\ cursor + size \in Int /\ cursor + size >= 0 /\ head \in Int /\ head >= 0
      /\ Min({cursor + size, head}) \in {cursor + size, head} /\ Min({cursor + size, head}) <= head
  <2>1. cursor + size \in Int /\ cursor + size >= 0 /\ head \in Int /\ head >= 0
    BY DEF WatcherInv, WatcherType, Heights
  <2> QED
    BY <2>1, MinOfTwo
<1>3. to' \in Heights
  BY <1>1, <1>2 DEF WatcherInv, WatcherType, Heights
<1>4. WatcherType'
  BY <1>3 DEF BeginPass, WatcherInv, WatcherType, chainVars, dbVars
<1> QED
  BY <1>4, RowsKept DEF BeginPass, dbVars

LEMMA ScanKeeps == ASSUME WatcherConstants, WatcherInv, Scan PROVE WatcherInv'
<1>1. ScanFrom \in Nat
  <2>1. cursor + 1 - ScanOverlap \in Int
    BY DEF WatcherInv, WatcherType, Heights, WatcherConstants
  <2>2. Max({cursor + 1 - ScanOverlap, 0}) \in {cursor + 1 - ScanOverlap, 0}
        /\ Max({cursor + 1 - ScanOverlap, 0}) >= 0
    BY <2>1, MaxWithZero
  <2> QED
    BY <2>1, <2>2 DEF ScanFrom
<1>2. queue' \subseteq [key : Keys, block : Heights, hash : Int]
  BY <1>1, LogsType DEF Scan, WatcherInv
<1>3. WatcherType'
  BY <1>2 DEF Scan, WatcherInv, WatcherType, chainVars, dbVars
<1> QED
  BY <1>3, RowsKept DEF Scan, dbVars

\* A transfer that is seen for the first time gets a row, and no money moves.
LEMMA HandleKeeps == ASSUME WatcherConstants, WatcherInv, NEW o \in queue, HandleTransfer(o)
                     PROVE  WatcherInv'
<1>1. o \in [key : Keys, block : Heights, hash : Int]
  BY DEF WatcherInv, WatcherType
<1>2. /\ pc' \in {"handle", "credit"} /\ queue' \subseteq queue
      /\ UNCHANGED <<chainVars, journals, owed, saved, cursor, top, to>>
      /\ deposits' = deposits \/ deposits' = [deposits EXCEPT ![o.key] = Upserted(o)]
  BY DEF HandleTransfer
<1>3. /\ Upserted(o) \in DepositType
      /\ \/ Upserted(o).status = deposits[o.key].status
         \/ deposits[o.key].status = "none" /\ Upserted(o).status \in {"seen", "ignored"}
  BY <1>1 DEF Upserted, WatcherInv, WatcherType, DepositType, Statuses
<1>4. /\ deposits' \in [Keys -> DepositType]
      /\ \A k \in Keys : \/ deposits'[k].status = deposits[k].status
                         \/ /\ deposits'[k].status \notin {"confirmed", "reversed"}
                            /\ deposits[k].status \notin {"confirmed", "reversed"}
  BY <1>1, <1>2, <1>3 DEF WatcherInv, WatcherType
<1>5. WatcherType'
  BY <1>2, <1>4 DEF WatcherInv, WatcherType, chainVars
<1>6. MoneyInv'
  BY <1>2, <1>4, SameMoney DEF WatcherInv
<1> QED
  BY <1>2, <1>5, <1>6 DEF WatcherInv, QueueInv

LEMMA CreditKeeps == ASSUME WatcherInv, NEW o \in queue, CreditTransfer(o) PROVE WatcherInv'
<1>1. o.key \in Keys /\ Pending(o.key)
  BY DEF WatcherInv, WatcherType, CreditTransfer, Pending
<1>2. /\ pc' = "handle" /\ queue' \subseteq queue
      /\ UNCHANGED <<chainVars, saved, cursor, top, to>>
  BY DEF CreditTransfer
<1>3. deposits' \in [Keys -> DepositType] /\ MoneyInv'
  <2>1. CASE CreditDeposit(o.key)
    BY <1>1, <2>1, CreditMoney DEF WatcherInv
  <2>2. CASE UNCHANGED <<deposits, journals, owed>>
    BY <2>2, SameMoney DEF WatcherInv, WatcherType
  <2> QED
    BY <2>1, <2>2 DEF CreditTransfer
<1> QED
  BY <1>2, <1>3 DEF WatcherInv, WatcherType, QueueInv, chainVars

LEMMA PendingKeeps == ASSUME WatcherInv, PendingDeposits PROVE WatcherInv'
<1> DEFINE ks == {k \in Keys : Pending(k)}
<1>1. /\ queue' = Recorded(ks) /\ pc' = "advance"
      /\ UNCHANGED <<chainVars, dbVars, cursor, top, to>>
  BY DEF PendingDeposits
<1>2. /\ queue' \subseteq [key : Keys, block : Heights, hash : Int]
      /\ \A d \in queue' : Pending(d.key)
      /\ \A d, e \in queue' : d.key = e.key => d = e
  BY <1>1, RecordedType DEF WatcherInv
<1>3. MoneyInv'
  BY <1>1, SameMoney DEF WatcherInv, dbVars
<1> QED
  BY <1>1, <1>2, <1>3 DEF WatcherInv, WatcherType, QueueInv, Pending, chainVars, dbVars

\* The rest of the queue does not feel what was done to one row.
LEMMA AdvanceKeeps == ASSUME WatcherInv, NEW d \in queue, AdvancePending(d) PROVE WatcherInv'
<1>1. d.key \in Keys /\ Pending(d.key)
  BY DEF WatcherInv, WatcherType, QueueInv, AdvancePending
<1>2. /\ pc = "advance" /\ pc' = "advance" /\ queue' = queue \ {d}
      /\ UNCHANGED <<chainVars, saved, cursor, top, to>>
  BY DEF AdvancePending
<1>3. /\ deposits' \in [Keys -> DepositType] /\ MoneyInv'
      /\ \A k \in Keys \ {d.key} : deposits'[k] = deposits[k]
  <2>1. CASE CreditDeposit(d.key)
    BY <1>1, <2>1, CreditMoney DEF WatcherInv
  <2>2. CASE UNCHANGED <<deposits, journals, owed>>
    BY <2>2, SameMoney DEF WatcherInv, WatcherType
  <2>3. CASE /\ deposits' = [deposits EXCEPT ![d.key].status = "confirming"]
             /\ UNCHANGED <<journals, owed>>
    <3>1. /\ deposits' \in [Keys -> DepositType]
          /\ \A k \in Keys \ {d.key} : deposits'[k] = deposits[k]
          /\ deposits'[d.key].status = "confirming"
      BY <1>1, <2>3 DEF WatcherInv, WatcherType, DepositType, Statuses
    <3>2. MoneyInv'
      BY <1>1, <2>3, <3>1, SameMoney DEF WatcherInv, Pending
    <3> QED
      BY <3>1, <3>2
  <2> QED
    BY <2>1, <2>2, <2>3 DEF AdvancePending
<1>4. \A e \in queue' : e.key \in Keys \ {d.key}
  BY <1>2 DEF WatcherInv, WatcherType, QueueInv
<1>5. QueueInv'
  BY <1>2, <1>3, <1>4 DEF WatcherInv, QueueInv, Pending
<1> QED
  BY <1>2, <1>3, <1>5 DEF WatcherInv, WatcherType, chainVars

LEMMA CheckKeeps == ASSUME WatcherInv, CheckReorgs PROVE WatcherInv'
<1>1. PICK failed \in SUBSET Replaced : queue' = Recorded(Replaced \ failed)
  BY DEF CheckReorgs
<1>2. pc' = "locate" /\ UNCHANGED <<chainVars, dbVars, cursor, top, to>>
  BY DEF CheckReorgs
<1>3. Replaced \ failed \in SUBSET Keys
      /\ \A k \in Replaced \ failed : deposits[k].status = "confirmed"
  BY DEF Replaced
<1>4. /\ queue' \subseteq [key : Keys, block : Heights, hash : Int]
      /\ \A d \in queue' : deposits[d.key].status = "confirmed"
      /\ \A d, e \in queue' : d.key = e.key => d = e
  BY <1>1, <1>3, RecordedType DEF WatcherInv
<1>5. MoneyInv'
  BY <1>2, SameMoney DEF WatcherInv, dbVars
<1> QED
  BY <1>2, <1>4, <1>5 DEF WatcherInv, WatcherType, QueueInv, chainVars, dbVars

LEMMA LocateKeeps == ASSUME WatcherInv, NEW d \in queue, Locate(d) PROVE WatcherInv'
<1>1. d.key \in Keys /\ deposits[d.key].status = "confirmed" /\ d.key[1] \in Transactions
  BY DEF WatcherInv, WatcherType, QueueInv, Locate, Keys
<1>2. /\ pc = "locate" /\ pc' = "locate" /\ queue' = queue \ {d}
      /\ UNCHANGED <<chainVars, saved, cursor, top, to>>
  BY DEF Locate
<1>3. /\ deposits' \in [Keys -> DepositType] /\ MoneyInv'
      /\ \A k \in Keys \ {d.key} : deposits'[k] = deposits[k]
  <2>1. CASE OnChain(d.key[1]) /\ Relocate(d.key)
    <3>1. place[d.key[1]].block \in Heights /\ hash[place[d.key[1]].block] \in Int
      BY <1>1, <2>1 DEF OnChain, WatcherInv, WatcherType, Places
    <3>2. PICK b \in Heights, h \in Int :
            deposits' = [deposits EXCEPT ![d.key].block = b, ![d.key].hash = h]
      BY <2>1, <3>1 DEF Relocate
    <3>3. /\ deposits' \in [Keys -> DepositType]
          /\ \A k \in Keys \ {d.key} : deposits'[k] = deposits[k]
          /\ deposits'[d.key].status = deposits[d.key].status
      BY <1>1, <3>2 DEF WatcherInv, WatcherType, DepositType
    <3>4. MoneyInv'
      BY <2>1, <3>3, SameMoney DEF Relocate, WatcherInv
    <3> QED
      BY <3>3, <3>4
  <2>2. CASE Reverse(d.key)
    BY <1>1, <2>2, ReverseMoney DEF WatcherInv
  <2>3. CASE UNCHANGED <<deposits, journals, owed>>
    BY <2>3, SameMoney DEF WatcherInv, WatcherType
  <2> QED
    BY <2>1, <2>2, <2>3 DEF Locate
<1>4. \A e \in queue' : e.key \in Keys \ {d.key}
  BY <1>2 DEF WatcherInv, WatcherType, QueueInv
<1>5. QueueInv'
  BY <1>2, <1>3, <1>4 DEF WatcherInv, QueueInv
<1> QED
  BY <1>2, <1>3, <1>5 DEF WatcherInv, WatcherType, chainVars

LEMMA EndKeeps == ASSUME WatcherInv, EndPass PROVE WatcherInv'
<1>1. WatcherType'
  BY DEF EndPass, WatcherInv, WatcherType, chainVars
<1> QED
  BY <1>1, RowsKept DEF EndPass

LEMMA StopKeeps == ASSUME WatcherConstants, WatcherInv, Stop PROVE WatcherInv'
<1>1. WatcherType'
  BY DEF Stop, WatcherInv, WatcherType, chainVars, dbVars, Heights, WatcherConstants
<1> QED
  BY <1>1, RowsKept DEF Stop, dbVars

LEMMA WatcherSteps == ASSUME WatcherConstants, WatcherInv, [Next]_vars PROVE WatcherInv'
<1>1. CASE UNCHANGED vars
  <2>1. WatcherType'
    BY <1>1 DEF vars, chainVars, dbVars, passVars, WatcherInv, WatcherType
  <2> QED
    BY <1>1, <2>1, RowsKept DEF vars, dbVars, passVars
<1> QED
  BY <1>1, ChainKeeps, StartKeeps, BeginKeeps, ScanKeeps, HandleKeeps, CreditKeeps, PendingKeeps,
     AdvanceKeeps, CheckKeeps, LocateKeeps, EndKeeps, StopKeeps DEF Next, WatcherStep

-----------------------------------------------------------------------------
\* What the ledger owes is one transfer per credited row, for any number of
\* transactions, whatever is scanned twice, fails, is followed, reversed or
\* interrupted (credit_deposit, reverse_deposit).
THEOREM OwedMatchesRows == ASSUME WatcherConstants PROVE Spec => []BalanceMatchesRows
<1>1. Init => WatcherInv
  BY WatcherStarts
<1>2. WatcherInv /\ [Next]_vars => WatcherInv'
  BY WatcherSteps
<1>3. WatcherInv => BalanceMatchesRows
  BY DEF WatcherInv, MoneyInv, Confirmed, BalanceMatchesRows
<1> QED
  BY <1>1, <1>2, <1>3, PTL DEF Spec

\* A credit is undone only while the chain does not have the transaction, never
\* because a block was replaced or a call failed (check_reorgs).
THEOREM ReversalJustified == ASSUME WatcherConstants PROVE Spec => ReversedWasGone
<1> DEFINE Gone == \A k \in Keys : deposits'[k].status = "reversed" /\ deposits[k].status # "reversed"
                                     => ~OnChain(k[1])
<1>1. ASSUME WatcherInv, [Next]_vars PROVE [Gone]_vars
  <2>1. CASE UNCHANGED deposits
    BY <2>1
  <2>2. ASSUME NEW o \in queue, HandleTransfer(o) PROVE Gone
    <3>1. /\ o.key \in Keys
          /\ deposits' = deposits \/ deposits' = [deposits EXCEPT ![o.key] = Upserted(o)]
          /\ Upserted(o).status # "reversed" \/ Upserted(o) = deposits[o.key]
      BY <1>1, <2>2 DEF HandleTransfer, Upserted, WatcherInv, WatcherType
    <3> QED
      BY <1>1, <3>1 DEF WatcherInv, WatcherType
  <2>3. ASSUME NEW k \in Keys, NEW s \in Statuses \ {"reversed"},
               deposits' = [deposits EXCEPT ![k].status = s]
        PROVE  Gone
    BY <1>1, <2>3 DEF WatcherInv, WatcherType, DepositType
  <2>4. ASSUME NEW o \in queue, CreditTransfer(o) \/ AdvancePending(o) PROVE Gone
    BY <1>1, <2>1, <2>3, <2>4
       DEF CreditTransfer, AdvancePending, CreditDeposit, WatcherInv, WatcherType, Statuses
  <2>5. ASSUME NEW d \in queue, Locate(d) PROVE Gone
    <3>1. d.key \in Keys
      BY <1>1 DEF WatcherInv, WatcherType
    <3>2. CASE Relocate(d.key)
      <4>1. \A k \in Keys : deposits'[k].status = deposits[k].status
        BY <1>1, <3>1, <3>2 DEF Relocate, WatcherInv, WatcherType, DepositType
      <4> QED
        BY <4>1
    <3>3. CASE ~OnChain(d.key[1]) /\ Reverse(d.key)
      BY <1>1, <3>1, <3>3 DEF Reverse, WatcherInv, WatcherType
    <3> QED
      BY <2>1, <2>5, <3>2, <3>3 DEF Locate
  <2> QED
    BY <1>1, <2>1, <2>2, <2>4, <2>5
       DEF Next, WatcherStep, ChainMoves, Start, BeginPass, Scan, PendingDeposits, CheckReorgs,
           EndPass, Stop, vars, dbVars
<1>2. Init => WatcherInv
  BY WatcherStarts
<1>3. WatcherInv /\ [Next]_vars => WatcherInv'
  BY WatcherSteps
<1> QED
  BY <1>1, <1>2, <1>3, PTL DEF Spec, ReversedWasGone

-----------------------------------------------------------------------------
(* Nothing is missed. The overlap of two scans is at least as deep as a    *)
(* node may lag, so what a scan has passed by more than the overlap was    *)
(* not hidden from it; `buried` is what the chain has moved there since.   *)

OverlapIsEnough == MaxLag <= ScanOverlap

\* The scan is behind the head.
ScanInv ==
    /\ errors \in Nat /\ began \in Heights
    /\ saved <= head
    /\ pc # "down" => cursor <= head
    /\ pc \notin {"down", "idle"} => cursor <= to /\ to <= top /\ top <= head

HasRow(t) == deposits[<<t, place[t].index>>].status # "none"

Behind(t, b) == t \notin buried /\ place[t].block \in (began + 1)..(b - ScanOverlap)

SeenUpTo(b) == \A t \in Transactions : Behind(t, b) => HasRow(t)

FoundInv ==
    /\ SeenUpTo(saved)
    /\ pc # "down" => SeenUpTo(cursor)
    /\ pc \in {"handle", "credit"} =>
          \A t \in Transactions : Behind(t, to) =>
              HasRow(t) \/ \E o \in queue : o.key = <<t, place[t].index>>
    /\ pc \in {"advance", "locate"} => SeenUpTo(to)

MissInv == ScanInv /\ (errors = 0 => FoundInv)

\* A transaction that is not buried by a move of the chain was not moved to where
\* the scan had passed.
LEMMA NotBuriedStays ==
    ASSUME ChainMoves, NEW t \in Transactions, t \notin buried', Passed(place'[t].block)
    PROVE  place'[t] = place[t] /\ t \notin buried
BY DEF ChainMoves, Moved

\* A row that is there stays.
LEMMA RowsStay ==
    ASSUME WatcherConstants, WatcherInv, UNCHANGED place,
           \A k \in Keys : deposits'[k].status = "none" => deposits[k].status = "none"
    PROVE  \A t \in Transactions : place[t].block \in Heights /\ HasRow(t) => HasRow(t)'
<1> SUFFICES ASSUME NEW t \in Transactions, place[t].block \in Heights, HasRow(t)
             PROVE  HasRow(t)'
  OBVIOUS
<1>1. place[t] # Nowhere
  BY DEF Nowhere, Heights
<1>2. <<t, place[t].index>> \in Keys
  BY <1>1 DEF WatcherInv, WatcherType, Places, Keys
<1> QED
  BY <1>2 DEF HasRow

\* What is behind is on the chain.
LEMMA BehindIsOn ==
    ASSUME WatcherConstants, WatcherInv, ScanInv, NEW t \in Transactions, NEW b \in Heights \cup {NoCursor},
           Behind(t, b)
    PROVE  /\ place[t].block \in Heights /\ place[t].block \in Nat /\ place[t].index \in Indexes
           /\ <<t, place[t].index>> \in Keys
<1>1. b \in Int /\ ScanOverlap \in Nat /\ began \in Nat
  BY DEF Heights, WatcherConstants, ScanInv, NoCursor
<1>2. place[t].block >= 1
  BY <1>1 DEF Behind
<1>3. place[t] # Nowhere
  BY <1>2 DEF Nowhere
<1> QED
  BY <1>3 DEF WatcherInv, WatcherType, Places, Keys, Heights

\* A step that loses no row and moves neither the chain nor the scan.
LEMMA KeepsFound ==
    ASSUME WatcherConstants, WatcherInv, MissInv, errors = 0,
           UNCHANGED <<place, began, buried, saved, cursor, to>>,
           \A k \in Keys : deposits'[k].status = "none" => deposits[k].status = "none"
    PROVE  /\ SeenUpTo(saved)'
           /\ pc # "down" => SeenUpTo(cursor)'
           /\ pc \in {"advance", "locate"} => SeenUpTo(to)'
<1>1. ASSUME NEW b \in Heights \cup {NoCursor}, SeenUpTo(b), NEW t \in Transactions, Behind(t, b)
      PROVE  HasRow(t)'
  <2>1. HasRow(t) /\ place[t].block \in Heights
    BY <1>1, BehindIsOn DEF SeenUpTo, MissInv
  <2> QED
    BY <2>1, RowsStay
<1>2. /\ saved \in Heights \cup {NoCursor} /\ cursor \in Heights /\ to \in Heights
  BY DEF WatcherInv, WatcherType
<1>3. SeenUpTo(saved) => SeenUpTo(saved)'
  BY <1>1, <1>2 DEF SeenUpTo, Behind
<1>4. SeenUpTo(cursor) => SeenUpTo(cursor)'
  BY <1>1, <1>2 DEF SeenUpTo, Behind
<1>5. SeenUpTo(to) => SeenUpTo(to)'
  BY <1>1, <1>2 DEF SeenUpTo, Behind
<1> QED
  BY <1>3, <1>4, <1>5 DEF MissInv, FoundInv

\* Steps at which no row is lost and the scan stands still.
LEMMA StillFound ==
    ASSUME WatcherConstants, WatcherInv, MissInv, ScanInv', errors' = 0 => errors = 0,
           UNCHANGED <<place, began, buried, saved, cursor, to>>,
           \A k \in Keys : deposits'[k].status = "none" => deposits[k].status = "none",
           pc # "down" \/ pc' = "down",
           pc' \in {"handle", "credit"} /\ errors' = 0 =>
              \A t \in Transactions : Behind(t, to)' =>
                  HasRow(t)' \/ \E o \in queue' : o.key = <<t, place'[t].index>>,
           pc' \in {"advance", "locate"} /\ errors' = 0 => SeenUpTo(to)'
    PROVE  MissInv'
BY KeepsFound DEF MissInv, FoundInv

LEMMA ChainFinds ==
    ASSUME WatcherConstants, WatcherInv, MissInv, ChainMoves
    PROVE  MissInv'
<1>1. /\ UNCHANGED <<deposits, saved, began, cursor, top, to, pc, queue, errors>> /\ ChainStep
      /\ head' >= head /\ head' \in Int /\ head \in Int
  <2>1. head \in Int
    BY DEF WatcherInv, WatcherType, Heights
  <2>2. CASE Mine
    BY <2>1, <2>2 DEF ChainMoves, dbVars, passVars, Mine
  <2>3. ASSUME NEW fork \in Heights, Reorganise(fork) PROVE head' = head
    BY <2>3 DEF Reorganise
  <2>4. CASE head' = head
    BY <2>1, <2>4 DEF ChainMoves, dbVars, passVars
  <2> QED
    BY <2>2, <2>3, <2>4 DEF ChainMoves, ChainStep
<1>2. ScanInv'
  BY <1>1 DEF MissInv, ScanInv, WatcherInv, WatcherType, Heights, NoCursor
<1>3. /\ saved \in Int /\ cursor \in Int /\ to \in Int /\ began \in Int /\ ScanOverlap \in Int
  BY DEF WatcherInv, WatcherType, MissInv, ScanInv, Heights, NoCursor, WatcherConstants
<1>4. ASSUME NEW b \in Int, NEW t \in Transactions, Behind(t, b)',
             \/ b = saved
             \/ b = cursor /\ pc # "down"
             \/ b = to /\ pc \in {"handle", "credit", "advance", "locate"}
      PROVE  Behind(t, b) /\ place'[t] = place[t]
  <2>1. t \notin buried' /\ place'[t].block \in (began + 1)..(b - ScanOverlap)
    BY <1>1, <1>4 DEF Behind
  <2>2. Passed(place'[t].block)
    BY <1>3, <1>4, <2>1 DEF Passed
  <2>3. place'[t] = place[t] /\ t \notin buried
    BY <2>1, <2>2, NotBuriedStays
  <2> QED
    BY <2>1, <2>3 DEF Behind
<1>5. ASSUME NEW b \in Int, NEW t \in Transactions, Behind(t, b)', SeenUpTo(b),
             \/ b = saved
             \/ b = cursor /\ pc # "down"
             \/ b = to /\ pc \in {"handle", "credit", "advance", "locate"}
      PROVE  HasRow(t)'
  BY <1>1, <1>4, <1>5 DEF SeenUpTo, HasRow
<1>6. ASSUME errors = 0 PROVE FoundInv'
  <2>1. FoundInv
    BY <1>6 DEF MissInv
  <2>2. SeenUpTo(saved)' /\ (pc' # "down" => SeenUpTo(cursor)')
    BY <1>1, <1>3, <1>5, <2>1 DEF FoundInv, SeenUpTo, Behind
  <2>3. pc' \in {"advance", "locate"} => SeenUpTo(to)'
    BY <1>1, <1>3, <1>5, <2>1 DEF FoundInv, SeenUpTo, Behind
  <2>4. ASSUME pc' \in {"handle", "credit"}, NEW t \in Transactions, Behind(t, to)'
        PROVE  HasRow(t)' \/ \E o \in queue' : o.key = <<t, place'[t].index>>
    <3>1. Behind(t, to) /\ place'[t] = place[t]
      BY <1>1, <1>3, <1>4, <2>4 DEF Behind
    <3> QED
      BY <1>1, <2>1, <2>4, <3>1 DEF FoundInv, HasRow
  <2> QED
    BY <2>2, <2>3, <2>4 DEF FoundInv
<1> QED
  BY <1>1, <1>2, <1>6 DEF MissInv

LEMMA StartFinds ==
    ASSUME WatcherConstants, WatcherInv, MissInv, Start
    PROVE  MissInv'
<1> DEFINE from == IF saved = NoCursor THEN head ELSE saved
<1>1. from \in Heights /\ from <= head /\ from - RescanDepth \in Int /\ from - RescanDepth <= from
  BY DEF WatcherInv, WatcherType, MissInv, ScanInv, RescanDepth, WatcherConstants, Heights
<1>2. LookBack(from) \in Heights /\ LookBack(from) <= from
  <2>1. Max({from - RescanDepth, 0}) \in {from - RescanDepth, 0} /\ Max({from - RescanDepth, 0}) >= 0
    BY <1>1, MaxWithZero
  <2> QED
    BY <1>1, <2>1 DEF LookBack, Heights, WatcherConstants
<1>3. /\ cursor' = LookBack(from) /\ pc' = "idle"
      /\ began' = (IF saved = NoCursor THEN LookBack(from) ELSE began)
      /\ UNCHANGED <<head, place, buried, deposits, saved, errors>>
  BY DEF Start, chainVars, dbVars
<1>4. ScanInv'
  <2>1. /\ head' = head /\ saved' = saved /\ errors' = errors /\ pc' = "idle"
        /\ cursor' \in Heights /\ cursor' <= head /\ began' \in Heights
    <3>1. began \in Heights /\ head \in Int /\ LookBack(from) \in Int /\ from \in Int
      BY <1>1, <1>2 DEF MissInv, ScanInv, Heights, WatcherInv, WatcherType
    <3>2. LookBack(from) <= head
      BY <1>1, <1>2, <3>1
    <3> QED
      BY <1>2, <1>3, <3>1, <3>2
  <2> QED
    BY <2>1 DEF MissInv, ScanInv
<1>5. ASSUME errors = 0 PROVE SeenUpTo(saved)' /\ SeenUpTo(cursor)'
  <2>1. SeenUpTo(saved) /\ ScanOverlap \in Nat /\ began \in Nat
    BY <1>5 DEF MissInv, FoundInv, WatcherConstants, ScanInv, Heights
  <2>2. CASE saved = NoCursor
    <3>1. /\ began' = cursor' /\ cursor' \in Nat /\ saved' = -1
      BY <1>2, <1>3, <2>2 DEF NoCursor, Heights
    <3>2. \A n : n \notin (began' + 1)..(saved' - ScanOverlap) /\ n \notin (began' + 1)..(cursor' - ScanOverlap)
      BY <2>1, <3>1
    <3> QED
      BY <3>2 DEF SeenUpTo, Behind
  <2>3. CASE saved # NoCursor
    <3>1. began' = began /\ cursor' <= saved /\ cursor' \in Int /\ saved \in Int
      <4>1. from = saved
        BY <2>3
      <4>2. cursor' = LookBack(from) /\ began' = began
        BY <1>3, <2>3
      <4> HIDE DEF from
      <4> QED
        BY <1>1, <1>2, <4>1, <4>2 DEF Heights, WatcherConstants
    <3>2. ScanOverlap \in Int /\ began \in Int
      BY <2>1
    <3>3. \A c, s, b, o, n \in Int : c <= s /\ n \in (b + 1)..(c - o) => n \in (b + 1)..(s - o)
      OBVIOUS
    <3>4. \A n \in (began + 1)..(cursor' - ScanOverlap) : n \in (began + 1)..(saved - ScanOverlap)
      <4> SUFFICES ASSUME NEW n \in Int, n \in (began + 1)..(cursor' - ScanOverlap)
                   PROVE  n \in (began + 1)..(saved - ScanOverlap)
        OBVIOUS
      <4> QED
        BY <3>1, <3>2, <3>3
    <3> QED
      BY <1>3, <2>1, <3>1, <3>4 DEF SeenUpTo, Behind, HasRow
  <2> QED
    BY <2>2, <2>3
<1> QED
  BY <1>3, <1>4, <1>5 DEF MissInv, FoundInv

LEMMA BeginFinds ==
    ASSUME WatcherConstants, WatcherInv, MissInv, BeginPass
    PROVE  MissInv'
<1>1. PICK size \in 1..MaxWindow : to' = Min({cursor + size, head})
  BY DEF BeginPass
<1>2. /\ cursor \in Int /\ head \in Int /\ cursor < head /\ size >= 1 /\ size \in Int
      /\ Min({cursor + size, head}) \in {cursor + size, head} /\ Min({cursor + size, head}) <= head
  <2>1. cursor \in Int /\ head \in Int /\ cursor + size \in Int /\ size >= 1 /\ size \in Int
    BY DEF WatcherInv, WatcherType, Heights, WatcherConstants
  <2> QED
    BY <2>1, MinOfTwo DEF BeginPass
<1>3. /\ pc = "idle" /\ pc' = "scan" /\ top' = head
      /\ UNCHANGED <<place, head, began, buried, cursor, deposits, saved, errors>>
  BY DEF BeginPass, chainVars, dbVars
<1>4. ScanInv'
  BY <1>1, <1>2, <1>3 DEF MissInv, ScanInv
<1> QED
  BY <1>3, <1>4 DEF MissInv, FoundInv, SeenUpTo, Behind, HasRow

\* The logs that are read hold whatever is behind the end of the window.
LEMMA ScanFinds ==
    ASSUME WatcherConstants, OverlapIsEnough, WatcherInv, MissInv, Scan
    PROVE  MissInv'
<1>1. PICK lag \in 0..MaxLag : queue' = Logs(ScanFrom, Min({to, top - lag}))
  BY DEF Scan
<1>2. /\ pc = "scan" /\ pc' = "handle"
      /\ UNCHANGED <<place, head, hash, began, buried, cursor, top, to, deposits, saved, errors>>
  BY DEF Scan, chainVars, dbVars
<1>3. /\ cursor \in Int /\ to \in Int /\ top \in Int /\ lag \in Int /\ began \in Nat
      /\ lag <= ScanOverlap /\ ScanOverlap \in Nat /\ to <= top
  BY <1>2 DEF WatcherInv, WatcherType, Heights, WatcherConstants, OverlapIsEnough, MissInv, ScanInv
<1>4. /\ Min({to, top - lag}) \in Int /\ Min({to, top - lag}) >= to - ScanOverlap
  <2>1. top - lag \in Int
    BY <1>3
  <2>2. Min({to, top - lag}) \in {to, top - lag}
    BY <1>3, <2>1, MinOfTwo
  <2> QED
    BY <1>3, <2>1, <2>2
<1>5. ScanFrom \in Int /\ (ScanFrom <= cursor + 1 - ScanOverlap \/ ScanFrom = 0)
  <2>1. cursor + 1 - ScanOverlap \in Int
    BY <1>3
  <2>2. Max({cursor + 1 - ScanOverlap, 0}) \in {cursor + 1 - ScanOverlap, 0}
    BY <2>1, MaxWithZero
  <2> QED
    BY <1>3, <2>2 DEF ScanFrom
<1>6. ScanInv'
  BY <1>2 DEF MissInv, ScanInv
<1>7. ASSUME errors = 0, NEW t \in Transactions, Behind(t, to)
      PROVE  HasRow(t) \/ \E o \in queue' : o.key = <<t, place[t].index>>
  <2>1. /\ t \notin buried
        /\ place[t].block \in (began + 1)..(to - ScanOverlap) /\ place[t].block \in Nat
    BY <1>7, BehindIsOn DEF Behind, WatcherInv, WatcherType, MissInv
  <2>2. CASE place[t].block <= cursor - ScanOverlap
    <3>1. Behind(t, cursor)
      BY <1>3, <2>1, <2>2 DEF Behind
    <3> QED
      BY <1>2, <1>7, <3>1 DEF MissInv, FoundInv, SeenUpTo
  <2>3. CASE ~(place[t].block <= cursor - ScanOverlap)
    <3>1. place[t].block \in ScanFrom..Min({to, top - lag})
      BY <1>3, <1>4, <1>5, <2>1, <2>3
    <3> DEFINE o == [key |-> <<t, place[t].index>>, block |-> place[t].block,
                     hash |-> hash[place[t].block]]
    <3>2. o \in queue' /\ o.key = <<t, place[t].index>>
      BY <1>1, <3>1 DEF Logs
    <3> QED
      BY <3>2
  <2> QED
    BY <2>2, <2>3
<1>8. \A t \in Transactions : (Behind(t, to)' <=> Behind(t, to)) /\ (HasRow(t)' <=> HasRow(t))
  BY <1>2 DEF Behind, HasRow
<1> QED
  BY <1>2, <1>6, <1>7, <1>8, StillFound DEF WatcherConstants

\* The steps of a pass at which neither the chain nor the scan moves.
LEMMA KeepsScan ==
    ASSUME ScanInv, UNCHANGED <<head, saved, began, buried, cursor, top, to>>, errors' \in Nat,
           pc \notin {"down", "idle"}
    PROVE  ScanInv'
BY DEF ScanInv

\* A transfer leaves the queue only when it has a row, or an error is counted.
LEMMA HandledFinds ==
    ASSUME WatcherConstants, WatcherInv, MissInv, NEW o \in queue,
           UNCHANGED <<head, place, began, buried, saved, cursor, top, to>>,
           pc \in {"handle", "credit"}, pc' \in {"handle", "credit"}, queue \ {o} \subseteq queue',
           \A k \in Keys : deposits'[k].status = "none" => deposits[k].status = "none",
           \/ errors' = errors /\ deposits'[o.key].status # "none"
           \/ errors' = errors + 1
    PROVE  MissInv'
<1>1. errors' \in Nat /\ (errors' = 0 => errors = 0)
  BY DEF MissInv, ScanInv
<1>2. ScanInv'
  BY <1>1, KeepsScan DEF MissInv
<1>3. ASSUME errors' = 0, NEW t \in Transactions, Behind(t, to)'
      PROVE  HasRow(t)' \/ \E e \in queue' : e.key = <<t, place'[t].index>>
  <2>1. errors = 0 /\ deposits'[o.key].status # "none"
    BY <1>1, <1>3 DEF MissInv, ScanInv
  <2>2. Behind(t, to) /\ to \in Heights
    BY <1>3 DEF Behind, WatcherInv, WatcherType
  <2>3. CASE HasRow(t)
    BY <2>2, <2>3, BehindIsOn, RowsStay DEF MissInv
  <2>4. CASE \E e \in queue : e.key = <<t, place[t].index>>
    BY <2>1, <2>4 DEF HasRow
  <2> QED
    BY <2>1, <2>2, <2>3, <2>4 DEF MissInv, FoundInv
<1> QED
  BY <1>1, <1>2, <1>3, StillFound

LEMMA HandleFinds ==
    ASSUME WatcherConstants, WatcherInv, MissInv, NEW o \in queue, HandleTransfer(o)
    PROVE  MissInv'
<1>1. o.key \in Keys
  BY DEF WatcherInv, WatcherType
<1>2. /\ UNCHANGED <<head, place, began, buried, saved, cursor, top, to>>
      /\ pc \in {"handle", "credit"} /\ pc' \in {"handle", "credit"} /\ queue \ {o} \subseteq queue'
  BY DEF HandleTransfer, chainVars
<1>3. CASE deposits' = [deposits EXCEPT ![o.key] = Upserted(o)] /\ errors' = errors
  <2>1. Upserted(o).status # "none"
    BY DEF Upserted
  <2>2. /\ deposits'[o.key].status # "none"
        /\ \A k \in Keys : deposits'[k].status = "none" => deposits[k].status = "none"
    BY <1>1, <1>3, <2>1 DEF WatcherInv, WatcherType
  <2> QED
    BY <1>2, <1>3, <2>2, HandledFinds
<1>4. CASE deposits' = deposits /\ errors' = errors + 1
  BY <1>2, <1>4, HandledFinds
<1> QED
  BY <1>3, <1>4 DEF HandleTransfer

LEMMA CreditFinds ==
    ASSUME WatcherConstants, WatcherInv, MissInv, NEW o \in queue, CreditTransfer(o)
    PROVE  MissInv'
<1>1. o.key \in Keys /\ deposits[o.key].status # "none"
  BY DEF WatcherInv, WatcherType, CreditTransfer
<1>2. /\ UNCHANGED <<head, place, began, buried, saved, cursor, top, to>>
      /\ pc \in {"handle", "credit"} /\ pc' \in {"handle", "credit"} /\ queue \ {o} \subseteq queue'
      /\ errors' = errors \/ errors' = errors + 1
  BY DEF CreditTransfer, chainVars
<1>3. /\ deposits'[o.key].status # "none"
      /\ \A k \in Keys : deposits'[k].status = "none" => deposits[k].status = "none"
  <2>1. CASE CreditDeposit(o.key)
    BY <1>1, <2>1 DEF CreditDeposit, WatcherInv, WatcherType
  <2>2. CASE deposits' = deposits
    BY <1>1, <2>2
  <2> QED
    BY <2>1, <2>2 DEF CreditTransfer
<1> QED
  BY <1>2, <1>3, HandledFinds

\* Once every transfer is handled, whatever is behind the window has a row.
LEMMA PendingFinds ==
    ASSUME WatcherConstants, WatcherInv, MissInv, PendingDeposits
    PROVE  MissInv'
<1>1. /\ UNCHANGED <<head, place, began, buried, saved, cursor, top, to, deposits, errors>>
      /\ pc = "handle" /\ pc' = "advance" /\ queue = {}
  BY DEF PendingDeposits, chainVars, dbVars
<1>2. ScanInv'
  BY <1>1, KeepsScan DEF MissInv, ScanInv
<1>3. errors = 0 => SeenUpTo(to)'
  BY <1>1 DEF MissInv, FoundInv, SeenUpTo, Behind, HasRow
<1> QED
  BY <1>1, <1>2, <1>3, StillFound

\* After the scan the rows only change from one status to another.
LEMMA LaterFinds ==
    ASSUME WatcherConstants, WatcherInv, MissInv,
           UNCHANGED <<head, place, began, buried, saved, cursor, top, to>>,
           pc \in {"advance", "locate"}, pc' \in {"advance", "locate"},
           \A k \in Keys : deposits'[k].status = "none" => deposits[k].status = "none",
           errors' \in Nat, errors' >= errors
    PROVE  MissInv'
<1>1. errors' = 0 => errors = 0
  BY DEF MissInv, ScanInv
<1>2. ScanInv'
  BY KeepsScan DEF MissInv
<1>3. errors = 0 => SeenUpTo(to)'
  BY KeepsFound
<1> QED
  BY <1>1, <1>2, <1>3, StillFound

LEMMA AdvanceFinds ==
    ASSUME WatcherConstants, WatcherInv, MissInv, NEW d \in queue, AdvancePending(d)
    PROVE  MissInv'
<1>1. d.key \in Keys
  BY DEF WatcherInv, WatcherType
<1>2. /\ UNCHANGED <<head, place, began, buried, saved, cursor, top, to>>
      /\ pc \in {"advance", "locate"} /\ pc' \in {"advance", "locate"}
      /\ errors' = errors \/ errors' = errors + 1
  BY DEF AdvancePending, chainVars
<1>3. \A k \in Keys : deposits'[k].status = "none" => deposits[k].status = "none"
  BY <1>1 DEF AdvancePending, CreditDeposit, WatcherInv, WatcherType, DepositType
<1>4. errors' \in Nat /\ errors' >= errors
  BY <1>2 DEF MissInv, ScanInv
<1> QED
  BY <1>2, <1>3, <1>4, LaterFinds

LEMMA CheckFinds ==
    ASSUME WatcherConstants, WatcherInv, MissInv, CheckReorgs
    PROVE  MissInv'
<1>1. PICK failed \in SUBSET Replaced : errors' = errors + Cardinality(failed)
  BY DEF CheckReorgs
<1>2. failed \subseteq Confirmed
  BY DEF Replaced, Confirmed
<1>3. Cardinality(failed) \in Nat
  BY <1>2, FS_Subset, FS_CardinalityType DEF WatcherInv, MoneyInv
<1>4. errors' \in Nat /\ errors' >= errors
  BY <1>1, <1>3 DEF MissInv, ScanInv
<1>5. /\ UNCHANGED <<head, place, began, buried, saved, cursor, top, to, deposits>>
      /\ pc \in {"advance", "locate"} /\ pc' \in {"advance", "locate"}
  BY DEF CheckReorgs, chainVars, dbVars
<1> QED
  BY <1>4, <1>5, LaterFinds

LEMMA LocateFinds ==
    ASSUME WatcherConstants, WatcherInv, MissInv, NEW d \in queue, Locate(d)
    PROVE  MissInv'
<1>1. d.key \in Keys
  BY DEF WatcherInv, WatcherType
<1>2. /\ UNCHANGED <<head, place, began, buried, saved, cursor, top, to>>
      /\ pc \in {"advance", "locate"} /\ pc' \in {"advance", "locate"}
      /\ errors' = errors \/ errors' = errors + 1
  BY DEF Locate, chainVars
<1>3. \A k \in Keys : deposits'[k].status = "none" => deposits[k].status = "none"
  <2>1. CASE Relocate(d.key)
    BY <1>1, <2>1 DEF Relocate, WatcherInv, WatcherType, DepositType
  <2>2. CASE Reverse(d.key)
    BY <1>1, <2>2 DEF Reverse, WatcherInv, WatcherType, DepositType
  <2> QED
    BY <2>1, <2>2 DEF Locate
<1>4. errors' \in Nat /\ errors' >= errors
  BY <1>2 DEF MissInv, ScanInv
<1> QED
  BY <1>2, <1>3, <1>4, LaterFinds

LEMMA EndFinds ==
    ASSUME WatcherConstants, WatcherInv, MissInv, EndPass
    PROVE  MissInv'
<1>1. /\ UNCHANGED <<head, place, began, buried, deposits, errors>>
      /\ pc = "locate" /\ pc' = "idle" /\ saved' = to /\ cursor' = to
  BY DEF EndPass, chainVars
<1>2. to \in Int /\ top \in Int /\ head \in Int
  BY DEF WatcherInv, WatcherType, Heights
<1>3. ScanInv'
  BY <1>1, <1>2 DEF MissInv, ScanInv
<1>4. errors = 0 => SeenUpTo(saved)' /\ SeenUpTo(cursor)'
  BY <1>1 DEF MissInv, FoundInv, SeenUpTo, Behind, HasRow
<1> QED
  BY <1>1, <1>3, <1>4 DEF MissInv, FoundInv

LEMMA StopFinds ==
    ASSUME WatcherConstants, WatcherInv, MissInv, Stop
    PROVE  MissInv'
<1>1. UNCHANGED <<head, place, began, buried, deposits, saved, errors>> /\ pc' = "down"
  BY DEF Stop, chainVars, dbVars
<1>2. ScanInv'
  BY <1>1 DEF MissInv, ScanInv
<1>3. errors = 0 => SeenUpTo(saved)'
  BY <1>1 DEF MissInv, FoundInv, SeenUpTo, Behind, HasRow
<1> QED
  BY <1>1, <1>2, <1>3 DEF MissInv, FoundInv

LEMMA MissStarts ==
    ASSUME WatcherConstants, Init PROVE MissInv
<1>1. ScanInv
  BY DEF Init, ChainInit, ScanInv, NoCursor, Heights, WatcherConstants
<1>2. SeenUpTo(saved)
  BY DEF Init, SeenUpTo, Behind, NoCursor, WatcherConstants
<1> QED
  BY <1>1, <1>2 DEF Init, MissInv, FoundInv

LEMMA MissSteps ==
    ASSUME WatcherConstants, OverlapIsEnough, WatcherInv, MissInv, [Next]_vars
    PROVE  MissInv'
<1>1. CASE UNCHANGED vars
  BY <1>1 DEF vars, chainVars, dbVars, passVars, MissInv, ScanInv, FoundInv, SeenUpTo, Behind, HasRow
<1> QED
  BY <1>1, ChainFinds, StartFinds, BeginFinds, ScanFinds, HandleFinds, CreditFinds, PendingFinds,
     AdvanceFinds, CheckFinds, LocateFinds, EndFinds, StopFinds DEF Next, WatcherStep

\* A transfer that has fallen behind the overlap of the scan has a row, for any
\* windows, stops and reorganisations and any lag the overlap covers, as long as
\* no database error was swallowed and the chain did not move the transfer there
\* itself (the scan of watch_evm).
THEOREM NoTransferIsMissed ==
    ASSUME WatcherConstants, OverlapIsEnough PROVE Spec => []NothingMissed
<1>1. Init => WatcherInv /\ MissInv
  BY WatcherStarts, MissStarts
<1>2. WatcherInv /\ MissInv /\ [Next]_vars => (WatcherInv /\ MissInv)'
  BY WatcherSteps, MissSteps
<1>3. MissInv => NothingMissed
  BY DEF MissInv, FoundInv, SeenUpTo, Behind, HasRow, NothingMissed
<1> QED
  BY <1>1, <1>2, <1>3, PTL DEF Spec

-----------------------------------------------------------------------------
(* One credit for each transaction, if its log keeps its index.            *)

\* A transaction is at one index of its block, whichever block that is.
LogsKeep(idx) == \A t \in Transactions : OnChain(t) => place[t].index = idx[t]

\* Rows, and what is about to become one, are at that index.
RowsInPlace(idx) ==
    /\ \A k \in Keys : deposits[k].status # "none" => k[2] = idx[k[1]]
    /\ \A o \in queue : o.key[2] = idx[o.key[1]]

LEMMA PlaceStarts ==
    ASSUME NEW idx, Init PROVE RowsInPlace(idx)
BY DEF Init, NoDeposit, RowsInPlace

LEMMA PlaceSteps ==
    ASSUME NEW idx, WatcherConstants, WatcherInv, LogsKeep(idx), RowsInPlace(idx), [Next]_vars
    PROVE  RowsInPlace(idx)'
<1>0. /\ deposits \in [Keys -> DepositType] /\ queue \subseteq [key : Keys, block : Heights, hash : Int]
  BY DEF WatcherInv, WatcherType
<1>1. ASSUME UNCHANGED deposits, queue' \subseteq queue PROVE RowsInPlace(idx)'
  BY <1>1 DEF RowsInPlace
<1>2. ASSUME NEW o \in queue, queue' \subseteq queue,
             \A k \in Keys \ {o.key} : deposits'[k] = deposits[k]
      PROVE  RowsInPlace(idx)'
  BY <1>0, <1>2 DEF RowsInPlace
<1>3. ASSUME NEW ks \in SUBSET {k \in Keys : deposits[k].status # "none"},
             UNCHANGED deposits, queue' = Recorded(ks)
      PROVE  RowsInPlace(idx)'
  BY <1>3 DEF RowsInPlace, Recorded
<1>4. CASE Scan
  <2>1. ASSUME NEW from, NEW upto, from \in Nat, NEW o \in Logs(from, upto)
        PROVE  o.key[2] = idx[o.key[1]]
    <3>1. PICK t \in Transactions : o.key = <<t, place[t].index>> /\ place[t].block \in from..upto
      BY <2>1 DEF Logs
    <3>2. OnChain(t)
      BY <2>1, <3>1 DEF OnChain, Nowhere
    <3> QED
      BY <3>1, <3>2 DEF LogsKeep
  <2>2. ScanFrom \in Nat
    <3>1. cursor + 1 - ScanOverlap \in Int
      BY DEF WatcherInv, WatcherType, Heights, WatcherConstants
    <3> QED
      BY <3>1, MaxWithZero DEF ScanFrom
  <2> QED
    BY <1>4, <2>1, <2>2 DEF Scan, RowsInPlace, dbVars
<1>5. ASSUME NEW o \in queue, HandleTransfer(o) PROVE RowsInPlace(idx)'
  BY <1>0, <1>2, <1>5 DEF HandleTransfer
<1>6. ASSUME NEW o \in queue, CreditTransfer(o) \/ AdvancePending(o) PROVE RowsInPlace(idx)'
  BY <1>0, <1>2, <1>6 DEF CreditTransfer, AdvancePending, CreditDeposit
<1>7. ASSUME NEW o \in queue, Locate(o) PROVE RowsInPlace(idx)'
  BY <1>0, <1>2, <1>7 DEF Locate, Relocate, Reverse
<1>8. CASE PendingDeposits
  BY <1>3, <1>8 DEF PendingDeposits, Pending, dbVars
<1>9. CASE CheckReorgs
  <2>1. PICK failed \in SUBSET Replaced : queue' = Recorded(Replaced \ failed)
    BY <1>9 DEF CheckReorgs
  <2>2. Replaced \ failed \in SUBSET {k \in Keys : deposits[k].status # "none"}
    BY DEF Replaced
  <2> QED
    BY <1>3, <1>9, <2>1, <2>2 DEF CheckReorgs, dbVars
<1>10. CASE Start \/ BeginPass \/ EndPass \/ Stop \/ ChainMoves \/ UNCHANGED vars
  BY <1>1, <1>10 DEF Start, BeginPass, EndPass, Stop, ChainMoves, dbVars, passVars, vars
<1> QED
  BY <1>4, <1>5, <1>6, <1>7, <1>8, <1>9, <1>10 DEF Next, WatcherStep

\* deposits.(tx_hash, output_index): a transaction is credited at most once, as
\* long as its log keeps its index in whichever block it is mined again
\* (upsert_deposit takes another index for another deposit).
THEOREM CreditedOnceInPlace ==
    ASSUME WatcherConstants, NEW idx \in [Transactions -> Indexes]
    PROVE  Spec /\ []LogsKeep(idx) => []CreditedOnce
<1>1. Init => WatcherInv /\ RowsInPlace(idx)
  BY WatcherStarts, PlaceStarts
<1>2. WatcherInv /\ [Next]_vars => WatcherInv'
  BY WatcherSteps
<1>3. WatcherInv /\ LogsKeep(idx) /\ RowsInPlace(idx) /\ [Next]_vars => RowsInPlace(idx)'
  BY PlaceSteps
<1>4. RowsInPlace(idx) => CreditedOnce
  <2> SUFFICES ASSUME RowsInPlace(idx), NEW t \in Transactions
               PROVE  Cardinality({i \in Indexes : deposits[<<t, i>>].status = "confirmed"}) <= 1
    BY DEF CreditedOnce
  <2> DEFINE Credits == {i \in Indexes : deposits[<<t, i>>].status = "confirmed"}
  <2>1. Credits \in SUBSET {idx[t]}
    BY DEF RowsInPlace, Keys
  <2> HIDE DEF Credits
  <2>2. IsFiniteSet({idx[t]}) /\ Cardinality({idx[t]}) = 1
    BY FS_Singleton
  <2>3. Cardinality(Credits) <= Cardinality({idx[t]})
    BY <2>1, <2>2, FS_Subset
  <2>4. Cardinality(Credits) <= 1
    BY <2>2, <2>3
  <2> QED
    BY <2>4 DEF Credits
<1> QED
  BY <1>1, <1>2, <1>3, <1>4, PTL DEF Spec
===============================================================================
