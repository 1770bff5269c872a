------------------------------- MODULE Sessions -------------------------------
(***************************************************************************)
(* Refresh tokens (auth_routes.rs, auth/src/session.rs).  A sign-in starts *)
(* a family of one token; each refresh exchanges the live token for the    *)
(* next one; a token that is presented a second time, or a logout, revokes *)
(* the family.                                                             *)
(*                                                                         *)
(* Postgres runs every request at READ COMMITTED: a statement reads the    *)
(* rows that were committed when it began, waits for the rows that another *)
(* transaction has locked, and looks at those again; rows committed after  *)
(* it began stay invisible to it.  `seen' is what an UPDATE of a family    *)
(* began with.                                                             *)
(***************************************************************************)
EXTENDS Integers, Sequences, FiniteSets

CONSTANTS Users,
          Clients,        \* requests about sessions that are in flight at once
          RefreshTTL,     \* REFRESH_TTL_DAYS
          MaxTime,        \* bound: the clock
          MaxTokens       \* bound: rows of the table

ASSUME SessionsConstants ==
    RefreshTTL \in Nat /\ MaxTime \in Nat /\ MaxTokens \in Nat

VARIABLES now,
          sessions,       \* the table, a token is its place in it
          pins,           \* users with a pin_hash
          request         \* each client's request

sessionVars == <<sessions, pins, request>>

TokenIds == 1..MaxTokens

Row == [user : Users, family : TokenIds, parent : 0..MaxTokens, expires : Nat,
        rotated : BOOLEAN, revoked : BOOLEAN]

NoRequest == [pc |-> "idle", token |-> 0, holds |-> {}, seen |-> {}]

SessionsTypeOK ==
    /\ now \in 0..MaxTime
    /\ sessions \in Seq(Row) /\ Len(sessions) <= MaxTokens
    /\ pins \subseteq Users
    /\ request \in [Clients -> [pc : {"idle", "asked", "rotating", "reused", "revoking"},
                                token : 0..MaxTokens,
                                holds : SUBSET TokenIds, seen : SUBSET TokenIds]]

SessionsInit ==
    /\ sessions = <<>>
    /\ pins = {}
    /\ request = [c \in Clients |-> NoRequest]

Issued == DOMAIN sessions

Room == Len(sessions) < MaxTokens

FamilyOf(k) == sessions[k].family

\* Another request has the row locked.
Busy(c, k) == \E d \in Clients \ {c} : k \in request[d].holds

Live(k) == ~sessions[k].rotated /\ ~sessions[k].revoked

Fresh(u, family, parent) ==
    [user |-> u, family |-> family, parent |-> parent, expires |-> now + RefreshTTL,
     rotated |-> FALSE, revoked |-> FALSE]

-----------------------------------------------------------------------------
\* start_session: the first token of a family of its own.
StartSession(u) ==
    /\ Room
    /\ sessions' = Append(sessions, Fresh(u, Len(sessions) + 1, 0))
    /\ UNCHANGED <<pins, request>>

\* set_pin.
SetPin(u) ==
    /\ pins' = pins \cup {u}
    /\ UNCHANGED <<sessions, request>>

Starts(c, k, pc, holds, seen) ==
    request' = [request EXCEPT ![c] = [pc |-> pc, token |-> k, holds |-> holds, seen |-> seen]]

Ends(c) == request' = [request EXCEPT ![c] = NoRequest]

IdleClient(c) == request[c].pc = "idle"

\* refresh, up to its SELECT ... FOR UPDATE.
Refresh(c, k) ==
    /\ IdleClient(c)
    /\ Starts(c, k, "asked", {}, {})
    /\ UNCHANGED <<sessions, pins>>

\* unlock reads a row that is not revoked and tries the PIN, then refreshes.
Unlock(c, k) ==
    /\ IdleClient(c)
    /\ ~sessions[k].revoked
    /\ sessions[k].user \in pins
    /\ Starts(c, k, "asked", {}, {})
    /\ UNCHANGED <<sessions, pins>>

\* evaluate_refresh: reuse is looked at before anything else.
Decide(c) ==
    LET k == request[c].token
    IN /\ request[c].pc = "asked"
       /\ \/ sessions[k].rotated /\ Starts(c, k, "reused", {k}, {})
          \/ Live(k) /\ now < sessions[k].expires /\ Starts(c, k, "rotating", {k}, {})
          \/ /\ ~sessions[k].rotated
             /\ sessions[k].revoked \/ now >= sessions[k].expires
             /\ Ends(c)
       /\ UNCHANGED <<sessions, pins>>

\* The decision is made on the row that refresh has locked.
Evaluate(c) == ~Busy(c, request[c].token) /\ Decide(c)

\* RefreshOutcome::Rotate, committed: the old token is spent, the next one is
\* in the same family.
Rotate(c) ==
    LET k == request[c].token
    IN /\ request[c].pc = "rotating"
       /\ Room
       /\ sessions' = Append([sessions EXCEPT ![k].rotated = TRUE],
                             Fresh(sessions[k].user, FamilyOf(k), k))
       /\ Ends(c)
       /\ UNCHANGED pins

FamilyRows(k) == {j \in Issued : FamilyOf(j) = FamilyOf(k) /\ ~sessions[j].revoked}

\* RefreshOutcome::ReuseDetected: the UPDATE of the family begins.
DetectReuse(c) ==
    LET k == request[c].token
    IN /\ request[c].pc = "reused"
       /\ Starts(c, k, "revoking", {k}, FamilyRows(k))
       /\ UNCHANGED <<sessions, pins>>

\* logout: the same UPDATE, without a transaction around it.
Logout(c, k) ==
    /\ IdleClient(c)
    /\ Starts(c, k, "revoking", {}, FamilyRows(k))
    /\ UNCHANGED <<sessions, pins>>

\* The UPDATE has waited for the rows others had locked, and is committed.
Revoke(c) ==
    LET r == request[c]
    IN /\ r.pc = "revoking"
       /\ \A j \in r.seen : ~Busy(c, j)
       /\ sessions' = [j \in Issued |-> IF j \in r.seen THEN [sessions[j] EXCEPT !.revoked = TRUE]
                                        ELSE sessions[j]]
       /\ Ends(c)
       /\ UNCHANGED pins

\* A transaction that is rolled back: its connection is gone, or it is the one
\* Postgres chose in a deadlock of two revocations.
Rollback(c) ==
    /\ ~IdleClient(c)
    /\ Ends(c)
    /\ UNCHANGED <<sessions, pins>>

SessionStep ==
    \/ \E c \in Clients, k \in Issued : Refresh(c, k) \/ Unlock(c, k) \/ Logout(c, k)
    \/ \E c \in Clients : Evaluate(c) \/ Rotate(c) \/ DetectReuse(c) \/ Revoke(c) \/ Rollback(c)
    \/ \E u \in Users : u \notin pins /\ SetPin(u)

\* On its own: anybody may sign in, whatever SignIn asks of them.
SessionsNext ==
    \/ SessionStep /\ UNCHANGED now
    \/ \E u \in Users : StartSession(u) /\ UNCHANGED now
    \/ now < MaxTime /\ now' = now + 1 /\ UNCHANGED sessionVars

SessionsSpec == now = 0 /\ SessionsInit /\ [][SessionsNext]_<<now, sessionVars>>

-----------------------------------------------------------------------------
(* Properties.                                                             *)

\* A login is good for one device at a time: whatever requests raced, at most
\* one token of a family can still be exchanged (refresh: FOR UPDATE, rotation
\* and issue in one transaction).  So the most that a logout or a detected reuse
\* can miss is the one token that was issued while its UPDATE ran.
OneLiveToken ==
    \A j, k \in Issued : FamilyOf(j) = FamilyOf(k) /\ Live(j) /\ Live(k) => j = k
===============================================================================
