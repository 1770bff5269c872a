------------------------------- MODULE LogScan -------------------------------
(***************************************************************************)
(* How watch_evm finds a window of blocks the endpoint will answer for:    *)
(* LogWindow (evm.rs), the client's retries and what it makes of an error  *)
(* (rpc.rs), and the count of failures after which the watcher starts over *)
(* (main.rs).  What is done with the logs is in DepositWatcher.            *)
(***************************************************************************)
EXTENDS Integers, FiniteSetsExt

CONSTANTS MaxLogWindow,
          Overlap,        \* Network::scan_overlap
          Behind,         \* Network::rescan_depth
          MaxTransient,   \* MAX_TRANSIENT_FAILURES
          MaxTries,       \* MAX_ATTEMPTS
          Limits,         \* environment: blocks an endpoint serves at once
          LastBlock,      \* bound: the chain
          MaxHiccups      \* bound: failed attempts and restarts

ASSUME LogScanConstants ==
    /\ MaxLogWindow \in Nat \ {0} /\ MaxTransient \in Nat \ {0} /\ MaxTries \in Nat \ {0}
    /\ Overlap \in Nat /\ Behind \in Nat /\ LastBlock \in Nat /\ MaxHiccups \in Nat
    /\ Limits \subseteq Nat

VARIABLES limit,          \* of the endpoint
          tip,            \* of the chain
          stored,         \* chain_cursors.last_block
          scanned, asked, \* watch_evm's cursor and head
          window, transient, tries,
          phase, hiccups

scanVars == <<limit, tip, stored, scanned, asked, window, transient, tries, phase, hiccups>>

LogScanTypeOK ==
    /\ limit \in Limits
    /\ {tip, stored, scanned, asked} \subseteq 0..LastBlock
    /\ window \in 1..MaxLogWindow
    /\ transient \in 0..(MaxTransient - 1) /\ tries \in 0..(MaxTries - 1)
    /\ phase \in {"down", "idle", "call", "answered", "refused", "failed"}
    /\ hiccups \in 0..MaxHiccups

LogScanInit ==
    /\ limit \in Limits
    /\ tip = 0 /\ stored = 0 /\ scanned = 0 /\ asked = 0
    /\ window = MaxLogWindow /\ transient = 0 /\ tries = 0
    /\ phase = "down" /\ hiccups = 0

\* Mutant: grow without its cap.
GrownUncapped == window + Max({window \div 4, 1})

\* LogWindow::grow
Grown == Min({window + Max({window \div 4, 1}), MaxLogWindow})

\* Mutant: the window a refusal met is asked for again.
HalvedNever == window

\* LogWindow::shrink
Halved == Max({window \div 2, 1})

-----------------------------------------------------------------------------
NewBlock ==
    /\ tip < LastBlock
    /\ tip' = tip + 1
    /\ UNCHANGED <<limit, stored, scanned, asked, window, transient, tries, phase, hiccups>>

StartScan ==
    /\ phase = "down"
    /\ phase' = "idle"
    /\ scanned' = Max({stored - Behind, 0})
    /\ window' = MaxLogWindow /\ transient' = 0
    /\ UNCHANGED <<limit, tip, stored, asked, tries, hiccups>>

BeginScan ==
    /\ phase = "idle" /\ scanned < tip
    /\ asked' = tip
    /\ phase' = "call" /\ tries' = 0
    /\ UNCHANGED <<limit, tip, stored, scanned, window, transient, hiccups>>

Upto  == Min({scanned + window, asked})
From  == Max({scanned + 1 - Overlap, 0})
Asked == Upto - From + 1

Narrow(l) == Asked <= l

\* try_call: the answer, or a range that is refused, which is not asked again.
CallAnswers ==
    /\ phase = "call"
    /\ phase' = IF Narrow(limit) THEN "answered" ELSE "refused"
    /\ UNCHANGED <<limit, tip, stored, scanned, asked, window, transient, tries, hiccups>>

\* A rate limit, a lagging node or a broken connection is tried again.
CallFails ==
    /\ phase = "call"
    /\ hiccups < MaxHiccups
    /\ hiccups' = hiccups + 1
    /\ IF tries + 1 < MaxTries THEN tries' = tries + 1 /\ UNCHANGED phase
       ELSE phase' = "failed" /\ UNCHANGED tries
    /\ UNCHANGED <<limit, tip, stored, scanned, asked, window, transient>>

\* Only a window that was full is widened.
Advance ==
    /\ phase = "answered"
    /\ window' = IF Upto - scanned >= window THEN Grown ELSE window
    /\ transient' = 0
    /\ scanned' = Upto /\ stored' = Upto
    /\ phase' = "idle"
    /\ UNCHANGED <<limit, tip, asked, tries, hiccups>>

\* A window of one that is refused ends the watcher.
Refused ==
    /\ phase = "refused"
    /\ IF window <= 1 THEN phase' = "down" /\ UNCHANGED window
       ELSE window' = Halved /\ phase' = "idle"
    /\ UNCHANGED <<limit, tip, stored, scanned, asked, transient, tries, hiccups>>

ScanFails ==
    /\ phase = "failed"
    /\ IF transient + 1 >= MaxTransient THEN phase' = "down" /\ UNCHANGED transient
       ELSE transient' = transient + 1 /\ phase' = "idle"
    /\ UNCHANGED <<limit, tip, stored, scanned, asked, window, tries, hiccups>>

\* The process dies, or another call of the pass fails.
StopScan ==
    /\ phase \in {"idle", "call", "answered"}
    /\ hiccups < MaxHiccups
    /\ hiccups' = hiccups + 1
    /\ phase' = "down"
    /\ UNCHANGED <<limit, tip, stored, scanned, asked, window, transient, tries>>

ScanStep == StartScan \/ BeginScan \/ CallAnswers \/ CallFails \/ Advance \/ Refused \/ ScanFails

ScanNext == NewBlock \/ ScanStep \/ StopScan

ScanProgress == StartScan \/ BeginScan \/ CallAnswers \/ Advance \/ Refused \/ ScanFails

LogScanSpec ==
    LogScanInit /\ [][ScanNext]_scanVars /\ WF_scanVars(NewBlock) /\ WF_scanVars(ScanProgress)

-----------------------------------------------------------------------------
\* An endpoint that serves one block more than the overlap keeps the watcher
\* going: however it refuses, fails or restarts, the scan comes to the tip (a
\* fixed window "leaves the watcher retrying a query that can never succeed",
\* LogWindow).  With less it never moves, although one block would be served.
ScanCatchesUp == limit > Overlap => <>[](stored = LastBlock)
===============================================================================
