------------------------------ MODULE Operators ------------------------------
(***************************************************************************)
(* The people who run the desk (admin_recovery.rs, operator.rs, the guard  *)
(* of admin_routes.rs): who is let in, the authenticator and its lockout,  *)
(* sessions of half an hour, invitations, and the actions that leave a row *)
(* in the audit log.  No handler opens a transaction: every statement is   *)
(* committed on its own, and a client that hangs up drops its handler      *)
(* between two of them.  What the actions do to an order is in             *)
(* NumberOrders; here an order is held or is not.                          *)
(***************************************************************************)
EXTENDS Integers, Sequences, FiniteSets

CONSTANTS Staff,          \* verified addresses
          Bootstrap,      \* ADMIN_EMAILS
          Desks,          \* requests in flight at once
          Cases,          \* orders
          Dear,           \* those above admin_refund_cap_ngn
          Keys,           \* Idempotency-Key headers
          Nobody,
          MaxFailures,    \* five
          LockWindow,     \* fifteen minutes
          DeskTTL,        \* half an hour
          Lease,          \* a minute
          MaxClock,       \* bound: the clock
          MaxSeats,       \* bound: operator_sessions
          MaxAudit        \* bound: audit_log

ASSUME OperatorsConstants ==
    /\ Bootstrap \subseteq Staff /\ Dear \subseteq Cases
    /\ Nobody \notin Staff \cup Cases \cup Keys \cup Desks
    /\ MaxFailures \in Nat \ {0} /\ LockWindow \in Nat /\ DeskTTL \in Nat /\ Lease \in Nat
    /\ MaxClock \in Nat /\ MaxSeats \in Nat /\ MaxAudit \in Nat
    /\ IsFiniteSet(Desks)

VARIABLES clock,
          members,        \* admin_members: never invited, active or revoked
          operators,      \* who has an authenticator
          seats,          \* operator_sessions, in the order they were inserted
          failures,       \* totp_lockouts, in memory
          audit,          \* audit_log; prev is the row whose hash was read
          alerts,         \* audit rows that have an alert
          cases,
          desk

operatorVars == <<clock, members, operators, seats, failures, audit, alerts, cases, desk>>

Jobs == {"refund", "recheck", "revoke"}

Seat == [who : Staff, until : Nat, gone : BOOLEAN]
Case == [held : BOOLEAN, refunds : Nat, claim : Desks \cup {Nobody}, until : Nat]
Stamp == [at : Nat, nth : Nat]
Line == [action : Jobs, case : Cases \cup {Nobody}, key : Keys \cup {Nobody}, prev : Nat]

NoWork == [pc |-> "idle", who |-> Nobody, job |-> "recheck", case |-> Nobody, key |-> Nobody,
           prev |-> 0]

OperatorsTypeOK ==
    /\ clock \in 0..MaxClock
    /\ members \in [Staff -> {"none", "active", "revoked"}]
    /\ operators \subseteq Staff
    /\ seats \in Seq(Seat) /\ Len(seats) <= MaxSeats
    /\ failures \in [Staff -> SUBSET Stamp]
    /\ audit \in Seq(Line) /\ Len(audit) <= MaxAudit
    /\ alerts \subseteq DOMAIN audit
    /\ cases \in [Cases -> Case]
    /\ \A d \in Desks :
          /\ desk[d].pc \in {"idle", "totp", "issue", "look", "claim", "apply", "check",
                             "hash", "write", "alert", "revoke", "unseat"}
          /\ desk[d].job \in Jobs /\ desk[d].who \in Staff \cup {Nobody}
          /\ desk[d].prev \in 0..MaxAudit

OperatorsInit ==
    /\ clock = 0
    /\ members = [e \in Staff |-> "none"]
    /\ operators = {}
    /\ seats = <<>>
    /\ failures = [e \in Staff |-> {}]
    /\ audit = <<>>
    /\ alerts = {}
    /\ cases = [c \in Cases |-> [held |-> TRUE, refunds |-> 0, claim |-> Nobody, until |-> 0]]
    /\ desk = [d \in Desks |-> NoWork]

At(d, pc)   == desk[d].pc = pc
Goes(d, pc) == desk' = [desk EXCEPT ![d].pc = pc]
Leaves(d)   == desk' = [desk EXCEPT ![d] = NoWork]

\* authorise: an address in the environment, or invited and not revoked.
Admin(e) == e \in Bootstrap \/ members[e] = "active"

-----------------------------------------------------------------------------
(* Authenticator and sessions.                                             *)

Arrive(d, e, pc) ==
    /\ At(d, "idle")
    /\ Admin(e)
    /\ desk' = [desk EXCEPT ![d] = [NoWork EXCEPT !.pc = pc, !.who = e]]

\* enroll_operator: an address enrols once, so who has the authenticator keeps it.
Enroll(d, e) ==
    /\ At(d, "idle")
    /\ Admin(e) /\ e \notin operators
    /\ operators' = operators \cup {e}
    /\ UNCHANGED <<clock, members, seats, failures, audit, alerts, cases, desk>>

\* Those of the last window; nth tells apart those of one instant.
Recent(e) == {stamp \in failures[e] : clock - stamp.at < LockWindow}

NeverLocked(e) == FALSE

\* totp_is_locked
TotpLocked(e) == Cardinality(Recent(e)) >= MaxFailures

\* create_session, up to its look at the lockout, which also forgets old ones.
CreateSession(d, e) ==
    /\ Arrive(d, e, "totp")
    /\ ~TotpLocked(e)
    /\ failures' = [failures EXCEPT ![e] = Recent(e)]
    /\ UNCHANGED <<clock, members, operators, seats, audit, alerts, cases>>

\* Not enrolled, or the wrong code: recorded.
TotpWrong(d) ==
    LET e   == desk[d].who
        nth == Cardinality({stamp \in failures[e] : stamp.at = clock})
    IN /\ At(d, "totp")
       /\ failures' = [failures EXCEPT ![e] = @ \cup {[at |-> clock, nth |-> nth]}]
       /\ Leaves(d)
       /\ UNCHANGED <<clock, members, operators, seats, audit, alerts, cases>>

TotpRight(d) ==
    LET e == desk[d].who
    IN /\ At(d, "totp")
       /\ e \in operators
       /\ failures' = [failures EXCEPT ![e] = {}]
       /\ Goes(d, "issue")
       /\ UNCHANGED <<clock, members, operators, seats, audit, alerts, cases>>

IssueSeat(d) ==
    /\ At(d, "issue")
    /\ Len(seats) < MaxSeats
    /\ seats' = Append(seats, [who |-> desk[d].who, until |-> clock + DeskTTL, gone |-> FALSE])
    /\ Leaves(d)
    /\ UNCHANGED <<clock, members, operators, failures, audit, alerts, cases>>

\* require_operator: the session is alive, its operator is the address that is
\* signed in, and that address is still an admin.
Seated(s) == ~seats[s].gone /\ clock < seats[s].until /\ Admin(seats[s].who)

Admit(d, s, job, c, k, e) ==
    /\ At(d, "idle")
    /\ Seated(s)
    /\ desk' = [desk EXCEPT ![d] = [NoWork EXCEPT !.pc = IF job = "revoke" THEN job ELSE "look",
                                      !.job = job, !.case = c, !.key = k, !.who = e]]
    /\ UNCHANGED <<clock, members, operators, seats, failures, audit, alerts, cases>>

\* delete_session
DeleteSession(s) ==
    /\ Seated(s)
    /\ seats' = [seats EXCEPT ![s].gone = TRUE]
    /\ UNCHANGED <<clock, members, operators, failures, audit, alerts, cases, desk>>

-----------------------------------------------------------------------------
(* Members.                                                                *)

\* invite_member: who is an admin already is refused, and the upsert brings
\* back whoever was revoked.
Invite(s, e) ==
    /\ Seated(s)
    /\ ~Admin(e)
    /\ members' = [members EXCEPT ![e] = "active"]
    /\ UNCHANGED <<clock, operators, seats, failures, audit, alerts, cases, desk>>

\* revoke_member: the membership, then the sessions.
Revoke1(d) ==
    LET e == desk[d].who
    IN /\ At(d, "revoke")
       /\ IF members[e] = "active"
          THEN members' = [members EXCEPT ![e] = "revoked"] /\ Goes(d, "unseat")
          ELSE UNCHANGED members /\ Leaves(d)
       /\ UNCHANGED <<clock, operators, seats, failures, audit, alerts, cases>>

Revoke2(d) ==
    /\ At(d, "unseat")
    /\ seats' = [s \in DOMAIN seats |-> IF seats[s].who = desk[d].who
                                        THEN [seats[s] EXCEPT !.gone = TRUE] ELSE seats[s]]
    /\ Leaves(d)
    /\ UNCHANGED <<clock, members, operators, failures, audit, alerts, cases>>

-----------------------------------------------------------------------------
(* Orders and the audit log.                                               *)

Answered(c, k) == \E i \in DOMAIN audit : /\ audit[i].action = "refund"
                                          /\ audit[i].case = c /\ audit[i].key = k

\* refund_order: a key that has its audit row is answered from it; an order
\* that is not held, or costs more than the cap, is refused.
Look(d) ==
    LET c == desk[d].case
    IN /\ At(d, "look")
       /\ \/ /\ desk[d].job = "refund"
             /\ IF Answered(c, desk[d].key) \/ ~cases[c].held \/ c \in Dear
                THEN Leaves(d) ELSE Goes(d, "claim")
          \/ /\ desk[d].job = "recheck"
             /\ Goes(d, "claim")
       /\ UNCHANGED <<clock, members, operators, seats, failures, audit, alerts, cases>>

Free(c) == cases[c].claim = Nobody \/ cases[c].until < clock

\* try_claim_held_order; reject_if_claimed answers who comes too late.
ClaimCase(d) ==
    LET c == desk[d].case
    IN /\ At(d, "claim")
       /\ IF cases[c].held /\ Free(c)
          THEN /\ cases' = [cases EXCEPT ![c].claim = d, ![c].until = clock + Lease]
               /\ Goes(d, IF desk[d].job = "refund" THEN "apply" ELSE "check")
          ELSE UNCHANGED cases /\ Leaves(d)
       /\ UNCHANGED <<clock, members, operators, seats, failures, audit, alerts>>

\* Whose token is on the row, and has not lapsed.
Current(d) == LET c == cases[desk[d].case] IN c.claim = d /\ clock < c.until

Loose(case) == [case EXCEPT !.claim = Nobody, !.until = 0]

CloseClaimed(case, n) == [case EXCEPT !.held = FALSE, !.refunds = @ + n]

\* Whatever closes an order takes the token off it.
Close(case, n) == [Loose(case) EXCEPT !.held = FALSE, !.refunds = @ + n]

\* apply_claimed with a Refund, under the row's lock: the token is looked at
\* before the status, and an order that is closed already is no error.
ApplyRefund(d) ==
    /\ At(d, "apply")
    /\ IF Current(d)
       THEN /\ cases' = [cases EXCEPT ![desk[d].case] = IF @.held THEN Close(@, 1) ELSE @]
            /\ Goes(d, "hash")
       ELSE UNCHANGED cases /\ Leaves(d)
    /\ UNCHANGED <<clock, members, operators, seats, failures, audit, alerts>>

\* recheck_order: the supplier's answer closes the order (n = 1: refunds it) or
\* keeps it, and is audited; or there was no answer, and the token is given
\* back (release_order), lapsed or not; or the token is another's by now.
ApplyRecheck(d) ==
    LET c == desk[d].case
    IN /\ At(d, "check")
       /\ \/ /\ Current(d)
             /\ \E n \in {0, 1} : cases' = [cases EXCEPT ![c] = IF @.held THEN Close(@, n) ELSE @]
             /\ Goes(d, "hash")
          \/ Current(d) /\ cases' = [cases EXCEPT ![c] = Loose(@)] /\ Goes(d, "hash")
          \/ cases' = [cases EXCEPT ![c] = IF @.claim = d THEN Loose(@) ELSE @] /\ Leaves(d)
          \/ ~Current(d) /\ UNCHANGED cases /\ Leaves(d)
       /\ UNCHANGED <<clock, members, operators, seats, failures, audit, alerts>>

\* insert_audit: the last hash is read by one statement ...
ReadHash(d) ==
    /\ At(d, "hash")
    /\ desk' = [desk EXCEPT ![d].pc = "write", ![d].prev = Len(audit)]
    /\ UNCHANGED <<clock, members, operators, seats, failures, audit, alerts, cases>>

\* ... and chained to by another.  (put_sell_settings writes its row so too.)
WriteAudit(d) ==
    LET w == desk[d]
    IN /\ At(d, "write")
       /\ Len(audit) < MaxAudit
       /\ audit' = Append(audit, [action |-> w.job, case |-> w.case, key |-> w.key, prev |-> w.prev])
       /\ IF w.job = "refund" THEN desk' = [desk EXCEPT ![d].pc = "alert", ![d].prev = Len(audit) + 1]
          ELSE Leaves(d)
       /\ UNCHANGED <<clock, members, operators, seats, failures, alerts, cases>>

Alert(d) ==
    /\ At(d, "alert")
    /\ alerts' = alerts \cup {desk[d].prev}
    /\ Leaves(d)
    /\ UNCHANGED <<clock, members, operators, seats, failures, audit, cases>>

-----------------------------------------------------------------------------
\* The order's owner or a worker settles it (n = 0), refunds it (n = 1) or looks
\* again later.  The owner's poll (get_order) holds no claim, so this happens
\* under anyone's, and takes it away.
Elsewhere(c) ==
    /\ cases[c].held
    /\ \/ \E n \in {0, 1} : cases' = [cases EXCEPT ![c] = Close(@, n)]
       \/ cases' = [cases EXCEPT ![c] = Loose(@)]
    /\ UNCHANGED <<clock, members, operators, seats, failures, audit, alerts, desk>>

\* The client hung up, or a statement failed: the rest does not happen.
Drop(d) ==
    /\ ~At(d, "idle")
    /\ Leaves(d)
    /\ UNCHANGED <<clock, members, operators, seats, failures, audit, alerts, cases>>

\* The process starts again: handlers and lockouts are gone.
Restart ==
    /\ desk' = [d \in Desks |-> NoWork]
    /\ failures' = [e \in Staff |-> {}]
    /\ UNCHANGED <<clock, members, operators, seats, audit, alerts, cases>>

Passes ==
    /\ clock < MaxClock
    /\ clock' = clock + 1
    /\ UNCHANGED <<members, operators, seats, failures, audit, alerts, cases, desk>>

SeatStep ==
    \/ \E d \in Desks, e \in Staff : Enroll(d, e) \/ CreateSession(d, e)
    \/ \E d \in Desks : \/ TotpWrong(d) \/ TotpRight(d) \/ IssueSeat(d)
                        \/ Revoke1(d) \/ Revoke2(d)
    \/ \E s \in DOMAIN seats : DeleteSession(s) \/ \E e \in Staff : Invite(s, e)

OrderStep ==
    \/ \E d \in Desks : \/ Look(d) \/ ClaimCase(d) \/ ApplyRefund(d) \/ ApplyRecheck(d)
                        \/ ReadHash(d) \/ WriteAudit(d) \/ Alert(d)
    \/ \E c \in Cases : Elsewhere(c)

AdmitStep ==
    \E d \in Desks, s \in DOMAIN seats :
       \/ \E c \in Cases, k \in Keys : Admit(d, s, "refund", c, k, Nobody)
       \/ \E c \in Cases : Admit(d, s, "recheck", c, Nobody, Nobody)
       \/ \E e \in Staff : Admit(d, s, "revoke", Nobody, Nobody, e)

OperatorsNext ==
    \/ SeatStep
    \/ AdmitStep
    \/ OrderStep
    \/ \E d \in Desks : Drop(d)
    \/ Restart
    \/ Passes

OperatorsSpec == OperatorsInit /\ [][OperatorsNext]_operatorVars

-----------------------------------------------------------------------------
(* Properties.                                                             *)

\* Codes are guessed a bounded number of times in a window, however many
\* requests passed the lockout before any of them failed (totp_is_locked and
\* record_totp_failure take the lock separately).  The count is one process's,
\* and begins again with it (Restart).
TotpTriesBounded ==
    \A e \in Staff : Cardinality(Recent(e)) <= MaxFailures + Cardinality(Desks) - 1

\* The log tells no tale: a refund row is about an order that was refunded, no
\* two are about the same one, and an alert is about one of them (refund_order
\* writes them in later statements, and drops them with its client; the owner's
\* poll may have settled the order under its claim, and then apply_claimed would
\* answer that the order is closed, which is no error, were the token still on it).
AuditedWasRefunded ==
    /\ \A i \in DOMAIN audit : audit[i].action = "refund" => cases[audit[i].case].refunds >= 1
    /\ \A i, j \in DOMAIN audit :
          audit[i].action = "refund" /\ audit[j].action = "refund" /\ audit[i].case = audit[j].case
          => i = j
    /\ \A i \in alerts : audit[i].action = "refund"

===============================================================================
