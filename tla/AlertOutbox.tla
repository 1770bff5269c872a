----------------------------- MODULE AlertOutbox -----------------------------
(***************************************************************************)
(* The outbox of operator alerts (number_reconciler.rs): an order that     *)
(* comes under review leaves an alert, and the alert loop of every API     *)
(* process claims a due one for a minute, mails it and marks it, or puts   *)
(* it off for longer each time.                                            *)
(***************************************************************************)
EXTENDS Integers, Sequences, FiniteSets, FiniteSetsExt

CONSTANTS Reviewed,       \* orders that may come under review
          Loops,          \* alert loops: one in each process
          NoLoop,         \* SQL NULL
          ClaimTTL,       \* the minute a claim lasts
          MaxBackOff,     \* the longest delay, 900 seconds
          EndTime,        \* bound: the clock
          MaxRaised,      \* bound: times an order comes under review
          MaxMishaps      \* bound: mails, statements and processes that fail

ASSUME AlertConstants ==
    /\ NoLoop \notin Loops /\ IsFiniteSet(Loops)
    /\ {ClaimTTL, MaxBackOff, EndTime, MaxRaised, MaxMishaps} \subseteq Nat

VARIABLES alert,          \* operator_alerts, by dedupe_key
          loop,           \* deliver_alert of each process
          told,           \* whether OPERATIONS_ALERT_EMAIL is set
          mails,          \* mails that arrived, per alert
          excused,        \* ... whose answer or mark was lost, or outlived its claim
          raised, hour, mishaps

alertVars == <<alert, loop, told, mails, excused, raised, hour, mishaps>>

NoAlert == [state |-> "none", by |-> NoLoop, until |-> 0, next |-> 0, attempts |-> 0]
Resting == [pc |-> "rest", alert |-> CHOOSE r \in Reviewed : TRUE]

AlertTypeOK ==
    /\ alert \in [Reviewed -> [state : {"none", "pending", "delivered"}, by : Loops \cup {NoLoop},
                               until : Nat, next : Nat, attempts : Nat]]
    /\ loop \in [Loops -> [pc : {"rest", "send", "mark", "retry"}, alert : Reviewed]]
    /\ told \in BOOLEAN
    /\ mails \in [Reviewed -> Nat] /\ excused \in [Reviewed -> Nat]
    /\ raised \in 0..MaxRaised
    /\ hour \in 0..EndTime /\ mishaps \in 0..MaxMishaps

AlertInit ==
    /\ alert = [r \in Reviewed |-> NoAlert]
    /\ loop = [l \in Loops |-> Resting]
    /\ told \in BOOLEAN
    /\ mails = [r \in Reviewed |-> 0] /\ excused = [r \in Reviewed |-> 0]
    /\ raised = 0
    /\ hour = 0 /\ mishaps = 0

Mishap  == mishaps < MaxMishaps /\ mishaps' = mishaps + 1
Rest(l) == loop' = [loop EXCEPT ![l].pc = "rest"]
Goes(l, pc) == loop' = [loop EXCEPT ![l].pc = pc]

-----------------------------------------------------------------------------
\* mark_review_required: ON CONFLICT (dedupe_key) DO NOTHING.
Raise(r) ==
    /\ raised < MaxRaised
    /\ raised' = raised + 1
    /\ alert' = IF alert[r].state = "none"
                THEN [alert EXCEPT ![r].state = "pending", ![r].next = hour] ELSE alert
    /\ UNCHANGED <<loop, told, mails, excused, hour, mishaps>>

DueUnfenced(r) == alert[r].state = "pending" /\ alert[r].next <= hour

Due(r) ==
    /\ alert[r].state = "pending" /\ alert[r].next <= hour
    /\ alert[r].by = NoLoop \/ alert[r].until < hour

\* The loop whose claim lapsed is still at it.
Outlived(r) ==
    /\ alert[r].by # NoLoop /\ alert[r].until < hour
    /\ loop[alert[r].by].alert = r /\ loop[alert[r].by].pc \in {"send", "mark"}

\* The earliest of those due is claimed.
ClaimAlert(l) ==
    /\ loop[l].pc = "rest"
    /\ \E r \in Reviewed :
         /\ Due(r)
         /\ \A q \in Reviewed : Due(q) => alert[q].next >= alert[r].next
         /\ alert' = [alert EXCEPT ![r].by = l, ![r].until = hour + ClaimTTL]
         /\ loop' = [loop EXCEPT ![l] = [pc |-> IF told THEN "send" ELSE "retry", alert |-> r]]
         /\ excused' = [excused EXCEPT ![r] = @ + IF Outlived(r) THEN 1 ELSE 0]
    /\ UNCHANGED <<told, mails, raised, hour, mishaps>>

\* send_operator_alert: delivered, refused, or delivered and the answer lost.
SendAlert(l) ==
    LET r == loop[l].alert
    IN /\ loop[l].pc = "send"
       /\ \/ /\ mails' = [mails EXCEPT ![r] = @ + 1]
             /\ Goes(l, "mark")
             /\ UNCHANGED <<excused, mishaps>>
          \/ Mishap /\ Goes(l, "retry") /\ UNCHANGED <<mails, excused>>
          \/ /\ Mishap /\ Goes(l, "retry")
             /\ mails' = [mails EXCEPT ![r] = @ + 1]
             /\ excused' = [excused EXCEPT ![r] = @ + 1]
       /\ UNCHANGED <<alert, told, raised, hour>>

\* WHERE id = $1 AND claim_token = $2
Fenced(l, row) ==
    alert' = IF alert[loop[l].alert].by = l THEN [alert EXCEPT ![loop[l].alert] = row] ELSE alert

MarkDelivered(l) ==
    LET r == loop[l].alert
    IN /\ loop[l].pc = "mark"
       /\ Fenced(l, [alert[r] EXCEPT !.state = "delivered", !.by = NoLoop, !.until = 0])
       /\ Rest(l)
       /\ UNCHANGED <<told, mails, excused, raised, hour, mishaps>>

\* LEAST(900, 15 * power(2, LEAST(attempt_count, 6))), in units of 15 seconds.
Doubled == <<1, 2, 4, 8, 16, 32, 64>>
BackOff(attempts) == Min({Doubled[Min({attempts, 6}) + 1], MaxBackOff})

\* schedule_alert_retry
PutOff(l) ==
    LET r == loop[l].alert
    IN /\ loop[l].pc = "retry"
       /\ IF told THEN UNCHANGED mishaps ELSE Mishap
       /\ Fenced(l, [alert[r] EXCEPT !.attempts = @ + 1, !.by = NoLoop, !.until = 0,
                                     !.next = hour + BackOff(alert[r].attempts)])
       /\ Rest(l)
       /\ UNCHANGED <<told, mails, excused, raised, hour>>

\* The process or the statement fails: the claim stays until it lapses.
DropAlert(l) ==
    /\ loop[l].pc # "rest"
    /\ Mishap
    /\ Rest(l)
    /\ excused' = [excused EXCEPT ![loop[l].alert] = @ + IF loop[l].pc = "mark" THEN 1 ELSE 0]
    /\ UNCHANGED <<alert, told, mails, raised, hour>>

HourPasses ==
    /\ hour < EndTime
    /\ hour' = hour + 1
    /\ UNCHANGED <<alert, loop, told, mails, excused, raised, mishaps>>

AlertNext ==
    \/ \E r \in Reviewed : Raise(r)
    \/ \E l \in Loops : \/ ClaimAlert(l) \/ SendAlert(l) \/ MarkDelivered(l)
                        \/ PutOff(l) \/ DropAlert(l)
    \/ HourPasses

AlertSpec == AlertInit /\ [][AlertNext]_alertVars

-----------------------------------------------------------------------------
\* An alert is marked delivered only if a mail of it arrived, and it arrives once
\* more than its answers or marks were lost or its claims outlived.
MailedOncePerClaim ==
    \A r \in Reviewed : /\ alert[r].state = "delivered" => mails[r] > 0
                        /\ mails[r] <= 1 + excused[r]
===============================================================================
