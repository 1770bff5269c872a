---------------------------- MODULE SignIn_proofs -----------------------------
(***************************************************************************)
(* Proofs about who is let in: Sessions, SignIn and GoogleKeys, for any    *)
(* people, destinations, clients, keys, requests, limits and times.        *)
(***************************************************************************)
EXTENDS SignIn, GoogleKeys, FiniteSetTheorems, TLAPS

-----------------------------------------------------------------------------
(* Sessions. A rotation may rely on two things: nobody else holds its row, *)
(* and the token it decided about is still live when it commits.           *)

RequestType == [pc : {"idle", "asked", "rotating", "reused", "revoking"}, token : 0..MaxTokens,
                holds : SUBSET TokenIds, seen : SUBSET TokenIds]

\* A row is locked by one request at a time.
LocksExclude ==
    \A c, d \in Clients : \A k \in TokenIds :
        k \in request[c].holds /\ k \in request[d].holds => c = d

\* What request c has decided still stands.
Decided(c) ==
    /\ request[c].pc # "idle" => request[c].token \in Issued
    /\ request[c].pc \in {"rotating", "reused"} => request[c].holds = {request[c].token}
    /\ request[c].holds \subseteq {request[c].token}
    /\ request[c].pc = "rotating" => Live(request[c].token)

SessionsInv ==
    /\ sessions \in Seq(Row) /\ Len(sessions) <= MaxTokens
    /\ request \in [Clients -> RequestType]
    /\ now \in Nat
    /\ \A k \in Issued : FamilyOf(k) <= Len(sessions)
    /\ LocksExclude
    /\ \A c \in Clients : Decided(c)
    /\ OneLiveToken

sVars == <<now, sessionVars>>

-----------------------------------------------------------------------------
LEMMA IdleRequestType ==
    ASSUME SessionsConstants
    PROVE  NoRequest \in RequestType /\ NoRequest.pc = "idle" /\ NoRequest.holds = {}
BY DEF SessionsConstants, NoRequest, RequestType, TokenIds

LEMMA RowFacts ==
    ASSUME SessionsConstants, SessionsInv
    PROVE  /\ Issued = 1..Len(sessions) /\ Len(sessions) \in Nat
           /\ \A k \in Issued : /\ k \in TokenIds
                                /\ sessions[k] \in Row
                                /\ sessions[k].family \in 1..Len(sessions)
<1>1. Issued = 1..Len(sessions) /\ Len(sessions) \in Nat
  BY DEF SessionsInv, Issued
<1>2. ASSUME NEW k \in Issued PROVE k \in TokenIds /\ sessions[k] \in Row
  BY <1>1, <1>2 DEF SessionsInv, SessionsConstants, TokenIds
<1>3. ASSUME NEW k \in Issued PROVE sessions[k].family \in 1..Len(sessions)
  <2>1. sessions[k].family \in TokenIds
    BY <1>2 DEF Row
  <2>2. sessions[k].family <= Len(sessions)
    BY DEF SessionsInv, FamilyOf
  <2> QED
    BY <1>1, <2>1, <2>2 DEF TokenIds, SessionsConstants
<1> QED
  BY <1>1, <1>2, <1>3

LEMMA SessionsStart == ASSUME SessionsConstants, now = 0, SessionsInit PROVE SessionsInv
<1>1. sessions \in Seq(Row) /\ Len(sessions) = 0 /\ Issued = {}
  BY DEF SessionsInit, Issued
<1> QED
  BY <1>1, IdleRequestType
     DEF SessionsConstants, SessionsInit, SessionsInv, LocksExclude, Decided, OneLiveToken

\* A request moves and leaves the table alone.
LEMMA SessionRequestMoves ==
    ASSUME SessionsInv, NEW c \in Clients, NEW to \in RequestType,
           request' = [request EXCEPT ![c] = to], UNCHANGED sessions, now' \in Nat,
           to.pc # "idle" => to.token \in Issued,
           to.pc \in {"rotating", "reused"} => to.holds = {to.token},
           to.holds \subseteq {to.token},
           to.pc = "rotating" => Live(to.token),
           \A k \in to.holds : ~Busy(c, k)
    PROVE  SessionsInv'
<1>1. /\ request'[c] = to
      /\ \A d \in Clients \ {c} : request'[d] = request[d]
      /\ request' \in [Clients -> RequestType]
  BY DEF SessionsInv
<1>2. LocksExclude'
  BY <1>1 DEF SessionsInv, LocksExclude, Busy
<1>3. \A d \in Clients : Decided(d)'
  BY <1>1 DEF SessionsInv, Decided, Issued, Live
<1>4. OneLiveToken' /\ \A k \in Issued' : FamilyOf(k)' <= Len(sessions')
  BY DEF SessionsInv, OneLiveToken, FamilyOf, Issued, Live
<1> QED
  BY <1>1, <1>2, <1>3, <1>4 DEF SessionsInv

\* A row is appended, and the rows before it may be spent or revoked: nobody's
\* decision falls, and the new token is the only live one of its family.
LEMMA RowAppended ==
    ASSUME SessionsInv, Room, UNCHANGED now,
           NEW row \in Row, row.family <= Len(sessions) + 1,
           sessions' \in Seq(Row), Len(sessions') = Len(sessions) + 1,
           sessions'[Len(sessions) + 1] = row,
           \A k \in Issued : /\ sessions'[k].family = sessions[k].family
                             /\ sessions[k].rotated \/ sessions[k].revoked
                                => sessions'[k].rotated \/ sessions'[k].revoked
                             /\ sessions[k].family = row.family
                                => sessions'[k].rotated \/ sessions'[k].revoked,
           request' \in [Clients -> RequestType],
           LocksExclude',
           \A c \in Clients : \/ request'[c] = NoRequest
                              \/ /\ request'[c] = request[c]
                                 /\ request[c].pc = "rotating"
                                    => sessions'[request[c].token] = sessions[request[c].token],
           SessionsConstants
    PROVE  SessionsInv'
<1>1. /\ DOMAIN sessions = 1..Len(sessions) /\ Len(sessions) \in Nat
      /\ DOMAIN sessions' = 1..(Len(sessions) + 1)
  BY DEF SessionsInv
<1>2. /\ Issued = 1..Len(sessions) /\ Issued' = Issued \cup {Len(sessions) + 1}
      /\ Len(sessions) + 1 \notin Issued
  BY <1>1 DEF Issued
<1>3. Len(sessions') <= MaxTokens
  BY <1>1 DEF Room, SessionsConstants
<1>4. \A k \in Issued' : FamilyOf(k)' <= Len(sessions')
  <2>1. \A k \in Issued : sessions[k].family \in 1..Len(sessions)
    BY RowFacts
  <2>2. row.family \in Int
    BY DEF Row, TokenIds, SessionsConstants
  <2> QED
    BY <1>1, <1>2, <2>1, <2>2 DEF FamilyOf
<1>5. \A c \in Clients : Decided(c)'
  BY <1>2, IdleRequestType DEF SessionsInv, Decided, Live, NoRequest
<1>6. ASSUME NEW j \in Issued', NEW k \in Issued', FamilyOf(j)' = FamilyOf(k)', Live(j)', Live(k)'
      PROVE  j = k
  <2>1. \A i \in Issued : Live(i)' => Live(i) /\ FamilyOf(i)' = FamilyOf(i) /\ FamilyOf(i) # row.family
    BY DEF Live, FamilyOf
  <2>2. \A i \in Issued' \ Issued : i = Len(sessions) + 1 /\ FamilyOf(i)' = row.family
    BY <1>2 DEF FamilyOf
  <2>3. CASE j \in Issued /\ k \in Issued
    BY <1>6, <2>1, <2>3 DEF SessionsInv, OneLiveToken
  <2>4. CASE j \notin Issued \/ k \notin Issued
    BY <1>6, <2>1, <2>2, <2>4
  <2> QED
    BY <2>3, <2>4
<1>7. OneLiveToken'
  BY <1>6 DEF OneLiveToken
<1> QED
  BY <1>3, <1>4, <1>5, <1>7 DEF SessionsInv

LEMMA StartKeeps ==
    ASSUME SessionsConstants, SessionsInv, NEW u \in Users, StartSession(u), UNCHANGED now
    PROVE  SessionsInv'
<1> DEFINE row == Fresh(u, Len(sessions) + 1, 0)
<1>1. row \in Row /\ row.family = Len(sessions) + 1
  BY DEF StartSession, Room, Fresh, Row, SessionsInv, SessionsConstants, TokenIds
<1>2. Room /\ sessions' = Append(sessions, row) /\ UNCHANGED request
  BY DEF StartSession
<1> HIDE DEF row
<1>3. /\ Len(sessions) \in Nat
      /\ \A k \in Issued : k \in 1..Len(sessions) /\ sessions[k].family \in 1..Len(sessions)
  BY RowFacts
<1>4. LocksExclude'
  BY <1>2 DEF SessionsInv, LocksExclude
<1>5. /\ \A k \in Issued : sessions'[k] = sessions[k]
      /\ sessions' \in Seq(Row) /\ Len(sessions') = Len(sessions) + 1
      /\ sessions'[Len(sessions) + 1] = row
  BY <1>1, <1>2, <1>3 DEF SessionsInv
<1>6. \A k \in Issued : sessions[k].family # row.family
  BY <1>1, <1>3
<1>7. \A c \in Clients : request[c].pc = "rotating" => request[c].token \in Issued
  BY DEF SessionsInv, Decided
<1>8. row.family <= Len(sessions) + 1
  BY <1>1, <1>3
<1>9. \A c \in Clients : \/ request'[c] = NoRequest
                         \/ /\ request'[c] = request[c]
                            /\ request[c].pc = "rotating"
                               => sessions'[request[c].token] = sessions[request[c].token]
  BY <1>2, <1>5, <1>7
<1>10. request' \in [Clients -> RequestType]
  BY <1>2 DEF SessionsInv
<1>11. \A k \in Issued : /\ sessions'[k].family = sessions[k].family
                         /\ sessions[k].rotated \/ sessions[k].revoked
                            => sessions'[k].rotated \/ sessions'[k].revoked
                         /\ sessions[k].family = row.family
                            => sessions'[k].rotated \/ sessions'[k].revoked
  BY <1>5, <1>6
<1> QED
  BY <1>1, <1>2, <1>4, <1>5, <1>8, <1>9, <1>10, <1>11, RowAppended

LEMMA RotateKeeps ==
    ASSUME SessionsConstants, SessionsInv, NEW c \in Clients, Rotate(c), UNCHANGED now
    PROVE  SessionsInv'
<1> DEFINE k == request[c].token
           row == Fresh(sessions[k].user, FamilyOf(k), k)
           spent == [sessions EXCEPT ![k].rotated = TRUE]
<1>1. /\ k \in Issued /\ Live(k) /\ request[c].holds = {k} /\ k \in TokenIds
      /\ sessions[k] \in Row
  BY RowFacts DEF Rotate, SessionsInv, Decided
<1>2. row \in Row /\ row.family = sessions[k].family /\ row.family <= Len(sessions) + 1
  <2>1. sessions[k].family \in 1..Len(sessions) /\ Len(sessions) \in Nat
    BY <1>1, RowFacts
  <2> QED
    BY <1>1, <2>1, SMTT(30) DEF Fresh, Row, SessionsInv, SessionsConstants, FamilyOf, TokenIds
<1>3. /\ spent \in Seq(Row) /\ Len(spent) = Len(sessions)
      /\ spent[k].rotated /\ spent[k].family = sessions[k].family
      /\ \A j \in Issued \ {k} : spent[j] = sessions[j]
  <2>1. [sessions[k] EXCEPT !.rotated = TRUE] \in Row
    BY <1>1 DEF Row
  <2>2. /\ [sessions[k] EXCEPT !.rotated = TRUE].rotated
        /\ [sessions[k] EXCEPT !.rotated = TRUE].family = sessions[k].family
    BY <1>1 DEF Row
  <2>3. /\ k \in DOMAIN sessions /\ sessions \in Seq(Row)
        /\ spent = [sessions EXCEPT ![k] = [sessions[k] EXCEPT !.rotated = TRUE]]
    BY <1>1 DEF SessionsInv, Issued
  <2> HIDE DEF k, spent
  <2>4. spent \in Seq(Row) /\ Len(spent) = Len(sessions)
    BY <2>1, <2>3
  <2>5. spent[k] = [sessions[k] EXCEPT !.rotated = TRUE] /\ \A j \in Issued \ {k} : spent[j] = sessions[j]
    BY <2>1, <2>3 DEF Issued
  <2> QED
    BY <2>2, <2>4, <2>5
<1>4. /\ Room /\ sessions' = Append(spent, row)
      /\ request' = [request EXCEPT ![c] = NoRequest]
  BY DEF Rotate, Ends
<1> HIDE DEF row, spent
<1>5. /\ sessions' \in Seq(Row) /\ Len(sessions') = Len(sessions) + 1
      /\ sessions'[Len(sessions) + 1] = row
      /\ \A j \in Issued : sessions'[j] = spent[j]
  <2>1. Issued = 1..Len(spent) /\ Len(spent) \in Nat
    BY <1>3, RowFacts
  <2> QED
    BY <1>2, <1>3, <1>4, <2>1
<1>6. \A j \in Issued : sessions[j].family = row.family /\ j # k
        => sessions[j].rotated \/ sessions[j].revoked
  BY <1>1, <1>2 DEF SessionsInv, OneLiveToken, FamilyOf, Live
<1>7. /\ request' \in [Clients -> RequestType] /\ request'[c] = NoRequest
      /\ \A d \in Clients \ {c} : request'[d] = request[d]
  BY <1>4, IdleRequestType DEF SessionsInv
<1>8. LocksExclude'
  BY <1>7, IdleRequestType DEF SessionsInv, LocksExclude
<1>9. \A d \in Clients \ {c} : request[d].pc = "rotating"
        => request[d].token # k /\ request[d].token \in Issued
  <2> SUFFICES ASSUME NEW d \in Clients \ {c}, request[d].pc = "rotating"
               PROVE  request[d].token # k /\ request[d].token \in Issued
    OBVIOUS
  <2>1. request[d].holds = {request[d].token} /\ request[d].token \in Issued
    BY DEF SessionsInv, Decided
  <2> QED
    BY <1>1, <2>1 DEF SessionsInv, LocksExclude
<1>10. \A d \in Clients : \/ request'[d] = NoRequest
                          \/ /\ request'[d] = request[d]
                             /\ request[d].pc = "rotating"
                                => sessions'[request[d].token] = sessions[request[d].token]
  BY <1>3, <1>5, <1>7, <1>9
<1>11. Len(sessions) \in Nat
  BY DEF SessionsInv
<1>12. \A j \in Issued : /\ sessions'[j].family = sessions[j].family
                         /\ sessions[j].rotated \/ sessions[j].revoked
                            => sessions'[j].rotated \/ sessions'[j].revoked
                         /\ sessions[j].family = row.family
                            => sessions'[j].rotated \/ sessions'[j].revoked
  BY <1>1, <1>3, <1>5, <1>6
<1> QED
  BY <1>2, <1>4, <1>5, <1>7, <1>8, <1>10, <1>11, <1>12, RowAppended

\* A revocation takes only rows that nobody is rotating.
LEMMA RevokeKeeps ==
    ASSUME SessionsConstants, SessionsInv, NEW c \in Clients, Revoke(c), UNCHANGED now
    PROVE  SessionsInv'
<1>1. /\ sessions' = [j \in Issued |-> IF j \in request[c].seen
                                       THEN [sessions[j] EXCEPT !.revoked = TRUE] ELSE sessions[j]]
      /\ \A j \in request[c].seen : ~Busy(c, j)
      /\ request' = [request EXCEPT ![c] = NoRequest]
  BY DEF Revoke, Ends
<1>2. Issued = 1..Len(sessions) /\ Len(sessions) \in Nat /\ \A j \in Issued : sessions[j] \in Row
  BY DEF Issued, SessionsInv
<1>3. /\ \A j \in Issued : /\ sessions'[j] \in Row
                           /\ sessions'[j].family = sessions[j].family
                           /\ ~sessions'[j].rotated /\ ~sessions'[j].revoked
                              => ~sessions[j].rotated /\ ~sessions[j].revoked
                           /\ j \notin request[c].seen => sessions'[j] = sessions[j]
  BY <1>1, <1>2 DEF Row
<1>4. sessions' \in Seq(Row) /\ Len(sessions') = Len(sessions) /\ Issued' = Issued
  <2>1. DOMAIN sessions' = 1..Len(sessions)
    BY <1>1, <1>2
  <2> QED
    BY <1>1, <1>2, <1>3, <2>1 DEF Issued
<1>5. /\ request' \in [Clients -> RequestType] /\ request'[c] = NoRequest
      /\ \A d \in Clients \ {c} : request'[d] = request[d]
  BY <1>1, IdleRequestType DEF SessionsInv
<1>6. LocksExclude'
  BY <1>5, IdleRequestType DEF SessionsInv, LocksExclude
<1>7. ASSUME NEW d \in Clients PROVE Decided(d)'
  <2>1. CASE d = c
    BY <1>5, <2>1, IdleRequestType DEF Decided, NoRequest
  <2>2. CASE d # c
    <3>1. request'[d] = request[d] /\ Decided(d)
      BY <1>5, <2>2 DEF SessionsInv
    <3>2. request[d].pc = "rotating" => request[d].token \notin request[c].seen
      BY <1>1, <2>2, <3>1 DEF Decided, Busy
    <3> QED
      BY <1>3, <1>4, <3>1, <3>2 DEF Decided, Live
  <2> QED
    BY <2>1, <2>2
<1>8. OneLiveToken'
  BY <1>3, <1>4 DEF SessionsInv, OneLiveToken, FamilyOf, Live
<1>9. \A k \in Issued' : FamilyOf(k)' <= Len(sessions')
  BY <1>3, <1>4 DEF SessionsInv, FamilyOf
<1> QED
  BY <1>4, <1>5, <1>6, <1>7, <1>8, <1>9 DEF SessionsInv

LEMMA SessionSteps == ASSUME SessionsConstants, SessionsInv, [SessionsNext]_sVars PROVE SessionsInv'
<1>1. CASE UNCHANGED <<sessions, request>> /\ now' \in Nat
  BY <1>1 DEF SessionsInv, LocksExclude, Decided, OneLiveToken, FamilyOf, Issued, Live
<1>2. ASSUME NEW c \in Clients, NEW k \in Issued,
             Refresh(c, k) \/ Unlock(c, k) \/ Logout(c, k), UNCHANGED now
      PROVE  SessionsInv'
  <2>1. k \in 0..MaxTokens
    BY DEF SessionsInv, Issued, SessionsConstants
  <2>2. ASSUME NEW pc \in {"asked", "revoking"}, NEW rows \in SUBSET TokenIds,
               Starts(c, k, pc, {}, rows), UNCHANGED sessions
        PROVE  SessionsInv'
    <3> DEFINE to == [pc |-> pc, token |-> k, holds |-> {}, seen |-> rows]
    <3>1. to \in RequestType /\ to.pc = pc /\ to.token = k /\ to.holds = {}
      BY <2>1 DEF RequestType
    <3>2. request' = [request EXCEPT ![c] = to]
      BY <2>2 DEF Starts
    <3> HIDE DEF to
    <3> QED
      BY <1>2, <2>2, <3>1, <3>2, SessionRequestMoves DEF SessionsInv
  <2>3. FamilyRows(k) \subseteq TokenIds
    BY RowFacts DEF FamilyRows
  <2> QED
    BY <1>2, <2>2, <2>3 DEF Refresh, Unlock, Logout
<1>3. ASSUME NEW c \in Clients, Evaluate(c), UNCHANGED now PROVE SessionsInv'
  <2> DEFINE k == request[c].token
  <2>1. k \in Issued /\ k \in 0..MaxTokens /\ k \in TokenIds /\ ~Busy(c, k)
    BY <1>3 DEF Evaluate, Decide, SessionsInv, Decided, RequestType, Issued, TokenIds
  <2>2. CASE Ends(c)
    BY <1>3, <2>2, IdleRequestType, SessionRequestMoves DEF Ends, Evaluate, Decide, SessionsInv
  <2>3. ASSUME NEW pc \in {"reused", "rotating"}, Starts(c, k, pc, {k}, {}),
               pc = "rotating" => Live(k)
        PROVE  SessionsInv'
    <3> DEFINE to == [pc |-> pc, token |-> k, holds |-> {k}, seen |-> {}]
    <3>1. to \in RequestType /\ to.pc = pc /\ to.token = k /\ to.holds = {k}
      BY <2>1 DEF RequestType
    <3>2. request' = [request EXCEPT ![c] = to] /\ UNCHANGED sessions
      BY <1>3, <2>3 DEF Starts, Evaluate, Decide
    <3> HIDE DEF to
    <3> QED
      BY <1>3, <2>1, <2>3, <3>1, <3>2, SessionRequestMoves DEF SessionsInv
  <2> QED
    BY <1>3, <2>2, <2>3 DEF Evaluate, Decide
<1>4. ASSUME NEW c \in Clients, DetectReuse(c), UNCHANGED now PROVE SessionsInv'
  <2> DEFINE k == request[c].token
             to == [pc |-> "revoking", token |-> k, holds |-> {k}, seen |-> FamilyRows(k)]
  <2>1. /\ k \in Issued /\ k \in 0..MaxTokens /\ k \in TokenIds /\ request[c].holds = {k}
        /\ request' = [request EXCEPT ![c] = to] /\ UNCHANGED sessions
    BY <1>4 DEF DetectReuse, Starts, SessionsInv, Decided, RequestType, Issued, TokenIds
  <2>2. FamilyRows(k) \subseteq TokenIds
    BY RowFacts DEF FamilyRows
  <2>3. to \in RequestType /\ to.pc = "revoking" /\ to.token = k /\ to.holds = {k}
    BY <2>1, <2>2 DEF RequestType
  <2>4. ~Busy(c, k)
    BY <2>1 DEF SessionsInv, LocksExclude, Busy
  <2> HIDE DEF to
  <2> QED
    BY <1>4, <2>1, <2>3, <2>4, SessionRequestMoves DEF SessionsInv
<1>5. ASSUME NEW c \in Clients, Rollback(c), UNCHANGED now PROVE SessionsInv'
  BY <1>5, IdleRequestType, SessionRequestMoves DEF Rollback, Ends, SessionsInv
<1>6. ASSUME NEW u \in Users, SetPin(u), UNCHANGED now PROVE SessionsInv'
  BY <1>1, <1>6 DEF SetPin, SessionsInv
<1>7. CASE UNCHANGED now /\ SessionStep
  BY <1>2, <1>3, <1>4, <1>5, <1>6, <1>7, RotateKeeps, RevokeKeeps DEF SessionStep
<1>8. CASE UNCHANGED sVars \/ (now' = now + 1 /\ UNCHANGED sessionVars)
  BY <1>1, <1>8 DEF sVars, sessionVars, SessionsInv
<1> QED
  BY <1>7, <1>8, StartKeeps DEF SessionsNext

-----------------------------------------------------------------------------
\* Whatever refreshes, unlocks, logouts and detected reuses race, and wherever
\* their transactions are rolled back, at most one token of a family can still be
\* exchanged (refresh).
THEOREM OneTokenLives == ASSUME SessionsConstants PROVE SessionsSpec => []OneLiveToken
<1>1. now = 0 /\ SessionsInit => SessionsInv
  BY SessionsStart
<1>2. SessionsInv /\ [SessionsNext]_sVars => SessionsInv'
  BY SessionSteps
<1>3. SessionsInv => OneLiveToken
  BY DEF SessionsInv
<1> QED
  BY <1>1, <1>2, <1>3, PTL DEF SessionsSpec, sVars

-----------------------------------------------------------------------------
(* SignIn. Codes: whoever is about to send one deletes with it every other *)
(* live code of the destination, and nobody else is sending there.         *)
(* Accounts: a request links only a user who has an identity of the same   *)
(* channel, and while no profile is edited a profile holds what its user   *)
(* proved.                                                                 *)

TaskType ==
    [pc : {"idle", "look", "delete", "deleting", "insert", "sending", "try", "resolve", "enter",
           "link", "create"},
     at : Nat, dest : Dests \cup {None}, look : SUBSET Nat, holds : SUBSET Nat, del : SUBSET Nat,
     code : Nat, claim : Claims, found : Users \cup {None}]

\* Whoever is about a code is about a destination.
Asked(rec) == rec.pc \in {"look", "delete", "deleting", "insert", "sending", "try"}
              => rec.dest \in Dests

TaskInv == /\ now \in Nat
           /\ task \in [Tasks -> TaskType]
           /\ \A t \in Tasks : Asked(task[t])

OpenCode(i) == ~challenges[i].deleted /\ ~challenges[i].consumed

Counted ==
    /\ challenges \in Seq(Challenge)
    /\ \A i \in DOMAIN challenges : /\ challenges[i].wrong <= challenges[i].attempts
                                    /\ challenges[i].wrong <= MaxAttempts

\* What a request that is about to send may rely on.
Sending ==
    /\ \A t \in Tasks : task[t].pc = "sending" =>
         \A i \in DOMAIN challenges :
            OpenCode(i) /\ challenges[i].dest = task[t].dest => i \in task[t].del
    /\ \A s, t \in Tasks : /\ task[s].pc = "sending" /\ task[t].pc = "sending"
                           /\ task[s].dest = task[t].dest
                           => s = t

OneOpen ==
    \A i, j \in DOMAIN challenges :
        OpenCode(i) /\ OpenCode(j) /\ challenges[i].dest = challenges[j].dest => i = j

CodeInv == Counted /\ Sending /\ OneOpen

SameChannel(c, e) == c.email = e.email /\ c.phone = e.phone

UserType == [exists : BOOLEAN, phone : Phones \cup {None}, email : Emails \cup {None}]

LinkInv ==
    /\ users \in [Users -> UserType]
    /\ patches \in Nat
    /\ identities \subseteq [claim : Claims, user : Users]
    /\ \A i \in identities : users[i.user].exists
    /\ \A t \in Tasks : task[t].pc \in {"enter", "link"} => task[t].found \in Users
    /\ \A t \in Tasks : task[t].pc = "link" =>
         \E i \in identities : i.user = task[t].found /\ SameChannel(i.claim, task[t].claim)
    /\ LinkedByProof

\* While no profile was edited.
ProfileInv ==
    patches = 0 =>
        /\ \A i \in identities : SameChannel(i.claim, users[i.user])
        /\ \A u, v \in Users :
              \/ users[u].email # None /\ users[u].email = users[v].email
              \/ users[u].phone # None /\ users[u].phone = users[v].phone
              => u = v

SignInInv == TaskInv /\ CodeInv /\ LinkInv /\ ProfileInv

-----------------------------------------------------------------------------
\* A claim proves one channel or none.
LEMMA OneChannel ==
    ASSUME SignInConstants, NEW c \in Claims
    PROVE  /\ c.email \in Emails \cup {None} /\ c.phone \in Phones \cup {None}
           /\ c.email = None \/ c.phone = None
<1>1. CASE \E d \in Dests : c = OtpClaim(d)
  BY <1>1 DEF SignInConstants, OtpClaim, Dests
<1>2. CASE \E g \in Accounts : c = GoogleClaim(g)
  BY <1>2 DEF SignInConstants, GoogleClaim
<1> QED
  BY <1>1, <1>2 DEF Claims

LEMMA NoTaskType ==
    ASSUME SignInConstants
    PROVE  NoTask \in TaskType /\ NoTask.pc = "idle"
<1>1. (CHOOSE d \in Dests : TRUE) \in Dests
  BY DEF SignInConstants
<1>2. OtpClaim(CHOOSE d \in Dests : TRUE) \in Claims
  BY <1>1 DEF Claims
<1> QED
  BY <1>2 DEF NoTask, TaskType

LEMMA SignInStarts == ASSUME SignInConstants, Init PROVE SignInInv
<1>1. \A t \in Tasks : task[t] = NoTask
  BY DEF Init, SignInInit
<1>2. TaskInv
  BY NoTaskType DEF Init, SignInInit, TaskInv, Asked
<1>3. CodeInv
  BY <1>1, NoTaskType DEF Init, SignInInit, CodeInv, Counted, Sending, OneOpen
<1>4. LinkInv /\ ProfileInv
  BY <1>1, NoTaskType DEF Init, SignInInit, LinkInv, ProfileInv, UserType, NoUser, LinkedByProof
<1> QED
  BY <1>2, <1>3, <1>4 DEF SignInInv

-----------------------------------------------------------------------------
(* Codes.                                                                  *)

\* A request moves that does not begin to send, and codes are at most closed.
LEMMA CodesClose ==
    ASSUME CodeInv, TaskInv, NEW t \in Tasks, NEW to \in TaskType, task' = [task EXCEPT ![t] = to],
           to.pc # "sending",
           challenges' \in Seq(Challenge), DOMAIN challenges' = DOMAIN challenges,
           \A i \in DOMAIN challenges :
              /\ challenges'[i].dest = challenges[i].dest
              /\ challenges[i].deleted => challenges'[i].deleted
              /\ challenges[i].consumed => challenges'[i].consumed
              /\ challenges'[i].wrong <= challenges'[i].attempts
              /\ challenges'[i].wrong <= MaxAttempts
    PROVE  CodeInv'
<1>1. /\ task'[t].pc # "sending"
      /\ \A s \in Tasks \ {t} : task'[s] = task[s]
  BY DEF TaskInv
<1>2. \A i \in DOMAIN challenges' : OpenCode(i)' => OpenCode(i)
  BY DEF OpenCode
<1>3. Counted'
  BY DEF Counted
<1>4. Sending'
  BY <1>1, <1>2 DEF CodeInv, Sending
<1>5. OneOpen'
  BY <1>2 DEF CodeInv, OneOpen
<1> QED
  BY <1>3, <1>4, <1>5 DEF CodeInv

\* ... and leaves the codes alone.
LEMMA CodesStay ==
    ASSUME CodeInv, TaskInv, NEW t \in Tasks, NEW to \in TaskType, task' = [task EXCEPT ![t] = to],
           to.pc # "sending", UNCHANGED challenges
    PROVE  CodeInv'
BY CodesClose DEF CodeInv, Counted

LEMMA TaskMoves ==
    ASSUME TaskInv, NEW t \in Tasks, NEW to \in TaskType, Asked(to),
           task' = [task EXCEPT ![t] = to], UNCHANGED now
    PROVE  TaskInv'
BY DEF TaskInv

LEMMA LinksStay ==
    ASSUME SignInInv, NEW t \in Tasks, NEW to \in TaskType,
           task' = [task EXCEPT ![t] = to], to.pc \notin {"enter", "link"},
           UNCHANGED accountVars
    PROVE  LinkInv' /\ ProfileInv'
<1>1. /\ task'[t].pc \notin {"enter", "link"}
      /\ \A s \in Tasks \ {t} : task'[s] = task[s]
  BY DEF SignInInv, TaskInv
<1>2. UNCHANGED <<users, identities, patches>>
  BY DEF accountVars
<1>3. LinkInv'
  BY <1>1, <1>2 DEF SignInInv, LinkInv, LinkedByProof
<1>4. ProfileInv'
  BY <1>2 DEF SignInInv, ProfileInv
<1> QED
  BY <1>3, <1>4

\* Most of what a request does moves nothing but itself.
LEMMA RequestMoves ==
    ASSUME SignInInv, NEW t \in Tasks, NEW to \in TaskType, Asked(to),
           to.pc \notin {"sending", "enter", "link"}, Set(t, to),
           UNCHANGED <<now, challenges, accountVars>>
    PROVE  SignInInv'
<1>1. TaskInv'
  BY TaskMoves DEF SignInInv, Set
<1>2. CodeInv'
  BY CodesStay DEF SignInInv, Set
<1>3. LinkInv' /\ ProfileInv'
  BY LinksStay DEF Set
<1> QED
  BY <1>1, <1>2, <1>3 DEF SignInInv

LEMMA RequestEnds ==
    ASSUME SignInConstants, SignInInv, NEW t \in Tasks, Finish(t),
           UNCHANGED <<now, challenges, accountVars>>
    PROVE  SignInInv'
BY NoTaskType, RequestMoves DEF Finish, Asked

\* Up to its INSERT a request for a code only reads and locks.
LEMMA BeforeInsert ==
    ASSUME SignInConstants, SignInInv, NEW t \in Tasks,
           \/ \E d \in Dests : RequestOtp(t, d)
           \/ LookLatest(t) \/ DeleteBegins(t) \/ DeleteEnds(t)
    PROVE  SignInInv'
<1>1. task[t] \in TaskType /\ Asked(task[t]) /\ now \in Nat
  BY DEF SignInInv, TaskInv
<1>2. DOMAIN challenges \in SUBSET Nat
  BY DEF SignInInv, CodeInv, Counted
<1>3. \A d : OfDest(d) \in SUBSET Nat /\ Pending(d) \in SUBSET Nat
  BY <1>2 DEF OfDest, Pending
<1>4. ASSUME NEW d \in Dests, RequestOtp(t, d) PROVE SignInInv'
  <2> DEFINE to == [NoTask EXCEPT !.pc = "look", !.at = now, !.dest = d, !.look = OfDest(d)]
  <2>1. to \in TaskType /\ Asked(to) /\ to.pc = "look"
    BY NoTaskType, <1>1, <1>3 DEF TaskType, Asked
  <2>2. Set(t, to) /\ UNCHANGED <<now, challenges, accountVars>>
    BY <1>4 DEF RequestOtp
  <2> HIDE DEF to
  <2> QED
    BY <2>1, <2>2, RequestMoves
<1>5. ASSUME LookLatest(t) PROVE SignInInv'
  <2>1. task[t].pc = "look" /\ UNCHANGED <<now, challenges, accountVars>>
    BY <1>5 DEF LookLatest, Is
  <2>2. CASE Set(t, [task[t] EXCEPT !.pc = "delete"])
    <3> DEFINE to == [task[t] EXCEPT !.pc = "delete"]
    <3>1. to \in TaskType /\ Asked(to) /\ to.pc = "delete"
      BY <1>1, <2>1 DEF TaskType, Asked
    <3>2. Set(t, to)
      BY <2>2
    <3> HIDE DEF to
    <3> QED
      BY <2>1, <3>1, <3>2, RequestMoves
  <2>3. ASSUME NEW i \in task[t].look, Set(t, [task[t] EXCEPT !.look = @ \ {i}]) PROVE SignInInv'
    <3> DEFINE to == [task[t] EXCEPT !.look = @ \ {i}]
    <3>1. to \in TaskType /\ Asked(to) /\ to.pc = "look"
      BY <1>1, <2>1 DEF TaskType, Asked
    <3>2. Set(t, to)
      BY <2>3
    <3> HIDE DEF to
    <3> QED
      BY <2>1, <3>1, <3>2, RequestMoves
  <2>4. CASE Finish(t)
    BY <2>1, <2>4, RequestEnds
  <2>5. ASSUME NEW i \in task[t].look,
               Set(t, [task[t] EXCEPT !.pc = "delete", !.look = {}, !.holds = {i}])
        PROVE  SignInInv'
    <3> DEFINE to == [task[t] EXCEPT !.pc = "delete", !.look = {}, !.holds = {i}]
    <3>1. i \in Nat
      BY <1>1 DEF TaskType
    <3>2. to \in TaskType /\ Asked(to) /\ to.pc = "delete"
      BY <1>1, <2>1, <3>1 DEF TaskType, Asked
    <3>3. Set(t, to)
      BY <2>5
    <3> HIDE DEF to
    <3> QED
      BY <2>1, <3>2, <3>3, RequestMoves
  <2> QED
    BY <1>5, <2>2, <2>3, <2>4, <2>5 DEF LookLatest
<1>6. ASSUME DeleteBegins(t) PROVE SignInInv'
  <2> DEFINE to == [task[t] EXCEPT !.pc = "deleting", !.del = Pending(task[t].dest)]
  <2>1. to \in TaskType /\ Asked(to) /\ to.pc = "deleting"
    BY <1>1, <1>3, <1>6 DEF TaskType, Asked, DeleteBegins, Is
  <2>2. Set(t, to) /\ UNCHANGED <<now, challenges, accountVars>>
    BY <1>6 DEF DeleteBegins
  <2> HIDE DEF to
  <2> QED
    BY <2>1, <2>2, RequestMoves
<1>7. ASSUME DeleteEnds(t) PROVE SignInInv'
  <2> DEFINE gone == task[t].del \cap Pending(task[t].dest)
             to   == [task[t] EXCEPT !.pc = "insert", !.del = gone, !.holds = @ \cup gone]
  <2>1. gone \in SUBSET Nat
    BY <1>1 DEF TaskType
  <2>2. Set(t, to) /\ UNCHANGED <<now, challenges, accountVars>>
    BY <1>7 DEF DeleteEnds
  <2> HIDE DEF gone
  <2>3. to \in TaskType /\ Asked(to) /\ to.pc = "insert"
    BY <1>1, <1>7, <2>1 DEF TaskType, Asked, DeleteEnds, Is
  <2> HIDE DEF to
  <2> QED
    BY <2>2, <2>3, RequestMoves
<1> QED
  BY <1>4, <1>5, <1>6, <1>7

\* Past the unique index a request is the only one that sends there, and every
\* live code of the destination is among those it deletes.
LEMMA InsertedAlone ==
    ASSUME SignInConstants, SignInInv, NEW t \in Tasks, InsertChallenge(t)
    PROVE  SignInInv'
<1> DEFINE to == [task[t] EXCEPT !.pc = "sending"]
<1>1. task[t] \in TaskType /\ Asked(task[t]) /\ task[t].pc = "insert"
  BY DEF SignInInv, TaskInv, InsertChallenge, Is
<1>2. UNCHANGED <<now, challenges, accountVars>>
  BY DEF InsertChallenge
<1>3. CASE Finish(t)
  BY <1>2, <1>3, RequestEnds
<1>4. CASE Set(t, to) /\ Pending(task[t].dest) \subseteq task[t].del
  <2>1. /\ to \in TaskType /\ Asked(to) /\ to.pc = "sending"
        /\ to.dest = task[t].dest /\ to.del = task[t].del
    BY <1>1 DEF TaskType, Asked
  <2>2. task' = [task EXCEPT ![t] = to]
    BY <1>4 DEF Set
  <2>3. \A s \in Tasks \ {t} : ~(task[s].pc = "sending" /\ task[s].dest = task[t].dest)
    BY DEF InsertChallenge, Is
  <2> HIDE DEF to
  <2>4. TaskInv'
    BY <1>2, <2>1, <2>2, TaskMoves DEF SignInInv
  <2>5. task'[t] = to /\ \A s \in Tasks \ {t} : task'[s] = task[s]
    BY <2>2 DEF SignInInv, TaskInv
  <2>6. \A i \in DOMAIN challenges : OpenCode(i) /\ challenges[i].dest = task[t].dest => i \in task[t].del
    BY <1>4 DEF Pending, OfDest, OpenCode
  <2>7. Sending'
    <3>1. UNCHANGED challenges
      BY <1>2
    <3>2. \A s \in Tasks : task'[s].pc = "sending" =>
            \A i \in DOMAIN challenges :
               OpenCode(i) /\ challenges[i].dest = task'[s].dest => i \in task'[s].del
      BY <2>1, <2>5, <2>6 DEF SignInInv, CodeInv, Sending
    <3>3. \A r, s \in Tasks : /\ task'[r].pc = "sending" /\ task'[s].pc = "sending"
                              /\ task'[r].dest = task'[s].dest
                              => r = s
      BY <2>1, <2>3, <2>5 DEF SignInInv, CodeInv, Sending
    <3> QED
      BY <3>1, <3>2, <3>3 DEF Sending, OpenCode
  <2>8. Counted' /\ OneOpen'
    BY <1>2 DEF SignInInv, CodeInv, Counted, OneOpen, OpenCode
  <2>9. LinkInv' /\ ProfileInv'
    BY <1>2, <2>1, <2>2, LinksStay
  <2> QED
    BY <2>4, <2>7, <2>8, <2>9 DEF SignInInv, CodeInv
<1> QED
  BY <1>3, <1>4 DEF InsertChallenge

\* The new code is the only live one: the others of its destination go with the
\* commit, and nobody else is about to send there.
LEMMA SentAlone ==
    ASSUME SignInConstants, SignInInv, NEW t \in Tasks, SendCode(t)
    PROVE  SignInInv'
<1> DEFINE d   == task[t].dest
           n   == Len(challenges) + 1
           new == [dest |-> d, attempts |-> 0, wrong |-> 0, expires |-> task[t].at + CodeTTL,
                   at |-> task[t].at, consumed |-> FALSE, deleted |-> FALSE]
           old == [i \in DOMAIN challenges |->
                     [challenges[i] EXCEPT !.deleted = @ \/ i \in task[t].del]]
<1>1. task[t] \in TaskType /\ Asked(task[t]) /\ task[t].pc = "sending"
  BY DEF SignInInv, TaskInv, SendCode, Is
<1>2. new \in Challenge
  BY <1>1 DEF SignInConstants, TaskType, Asked, Challenge
<1>3. challenges \in Seq(Challenge) /\ DOMAIN challenges = 1..Len(challenges) /\ Len(challenges) \in Nat
  BY DEF SignInInv, CodeInv, Counted
<1>4. \A i \in DOMAIN challenges :
        /\ old[i] \in Challenge
        /\ old[i].dest = challenges[i].dest
        /\ old[i].wrong = challenges[i].wrong /\ old[i].attempts = challenges[i].attempts
        /\ old[i].consumed = challenges[i].consumed
        /\ old[i].deleted <=> challenges[i].deleted \/ i \in task[t].del
  <2> TAKE i \in DOMAIN challenges
  <2>1. challenges[i] \in Challenge
    BY <1>3
  <2>2. (challenges[i].deleted \/ i \in task[t].del) \in BOOLEAN
    OBVIOUS
  <2>3. old[i] = [challenges[i] EXCEPT !.deleted = challenges[i].deleted \/ i \in task[t].del]
    OBVIOUS
  <2> HIDE DEF old
  <2> QED
    BY <2>1, <2>2, <2>3 DEF Challenge
<1>5. old \in Seq(Challenge) /\ Len(old) = Len(challenges) /\ DOMAIN old = DOMAIN challenges
  <2>1. old \in [1..Len(challenges) -> Challenge]
    BY <1>3, <1>4
  <2> QED
    BY <2>1, <1>3
<1>6. challenges' = Append(old, new) /\ Finish(t) /\ UNCHANGED <<now, accountVars>>
  BY DEF SendCode
<1>7. new.dest = d /\ new.wrong = 0 /\ new.attempts = 0
  OBVIOUS
<1> HIDE DEF old, new
<1>8. /\ challenges' \in Seq(Challenge)
      /\ DOMAIN challenges' = DOMAIN challenges \cup {n}
      /\ challenges'[n] = new
      /\ \A i \in DOMAIN challenges : challenges'[i] = old[i] /\ i # n
  BY <1>2, <1>3, <1>5, <1>6
<1>9. \A s \in Tasks \ {t} : task'[s] = task[s]
  BY <1>6 DEF Finish, Set, SignInInv, TaskInv
<1>10. task'[t] = NoTask
  BY <1>6 DEF Finish, Set, SignInInv, TaskInv
<1>11. TaskInv'
  BY <1>6, NoTaskType, TaskMoves DEF Finish, Set, Asked, SignInInv
<1>12. LinkInv' /\ ProfileInv'
  BY <1>6, NoTaskType, LinksStay DEF Finish, Set
<1>13. \A i \in DOMAIN challenges :
         OpenCode(i)' => OpenCode(i) /\ challenges'[i].dest = challenges[i].dest
                         /\ challenges[i].dest # d
  BY <1>1, <1>4, <1>8 DEF OpenCode, SignInInv, CodeInv, Sending
<1>14. Counted'
  <2>1. MaxAttempts \in Nat
    BY DEF SignInConstants
  <2> QED
    BY <2>1, <1>4, <1>7, <1>8 DEF SignInInv, CodeInv, Counted
<1>15. Sending'
  <2>1. \A s \in Tasks : task'[s].pc = "sending" => s # t /\ task'[s] = task[s] /\ task[s].dest # d
    BY <1>1, <1>9, <1>10, NoTaskType DEF SignInInv, CodeInv, Sending
  <2>2. ASSUME NEW s \in Tasks, task'[s].pc = "sending", NEW i \in DOMAIN challenges',
               OpenCode(i)', challenges'[i].dest = task'[s].dest
        PROVE  i \in task'[s].del
    <3>1. i \in DOMAIN challenges
      BY <1>7, <1>8, <2>1, <2>2
    <3> QED
      BY <3>1, <1>13, <2>1, <2>2 DEF SignInInv, CodeInv, Sending
  <2>3. ASSUME NEW r \in Tasks, NEW s \in Tasks, task'[r].pc = "sending", task'[s].pc = "sending",
               task'[r].dest = task'[s].dest
        PROVE  r = s
    BY <2>1, <2>3 DEF SignInInv, CodeInv, Sending
  <2> QED
    BY <2>2, <2>3 DEF Sending
<1>16. OneOpen'
  BY <1>7, <1>8, <1>13 DEF SignInInv, CodeInv, OneOpen
<1> QED
  BY <1>11, <1>12, <1>14, <1>15, <1>16 DEF SignInInv, CodeInv

\* The commit of a wrong guess counts it against the attempts.
Missed(c) == [c EXCEPT !.attempts = @ + 1, !.wrong = @ + 1]

LEMMA MissedFacts ==
    ASSUME NEW c \in Challenge
    PROVE  /\ Missed(c) \in Challenge /\ Missed(c).dest = c.dest
           /\ Missed(c).attempts = c.attempts + 1 /\ Missed(c).wrong = c.wrong + 1
           /\ Missed(c).deleted = c.deleted /\ Missed(c).consumed = c.consumed
<1>1. /\ Missed(c).dest = c.dest /\ Missed(c).expires = c.expires /\ Missed(c).at = c.at
      /\ Missed(c).deleted = c.deleted /\ Missed(c).consumed = c.consumed
  BY Zenon DEF Missed, Challenge
<1>2. Missed(c).attempts = c.attempts + 1 /\ Missed(c).wrong = c.wrong + 1
  BY DEF Missed, Challenge
<1>3. Missed(c) \in Challenge
  <2> DEFINE a == [c EXCEPT !.attempts = c.attempts + 1]
  <2>1. a \in Challenge /\ a.wrong = c.wrong
    BY DEF Challenge
  <2>2. Missed(c) = [a EXCEPT !.wrong = c.wrong + 1]
    BY DEF Missed
  <2> HIDE DEF a
  <2>3. c.wrong + 1 \in Nat
    BY DEF Challenge
  <2> QED
    BY <2>1, <2>2, <2>3 DEF Challenge
<1> QED
  BY <1>1, <1>2, <1>3

LEMMA GuessesCounted ==
    ASSUME SignInConstants, SignInInv, NEW t \in Tasks, GuessWrong(t)
    PROVE  SignInInv'
<1> DEFINE k == task[t].code
<1>1. challenges \in Seq(Challenge)
  BY DEF SignInInv, CodeInv, Counted
<1>2. /\ Finish(t) /\ UNCHANGED <<now, accountVars>>
      /\ challenges' = [challenges EXCEPT ![k] = Missed(challenges[k])]
      /\ challenges[k].attempts < MaxAttempts
  BY DEF GuessWrong, Missed, Usable
<1> HIDE DEF k
<1>3. DOMAIN challenges' = DOMAIN challenges
  BY <1>2
<1>4. \A i \in DOMAIN challenges :
        challenges'[i] = IF i = k THEN Missed(challenges[k]) ELSE challenges[i]
  BY <1>2
<1>5. \A i \in DOMAIN challenges : challenges[i] \in Challenge
  BY <1>1
<1>6. \A i \in DOMAIN challenges : challenges'[i] \in Challenge
  BY <1>4, <1>5, MissedFacts
<1>7. challenges' \in Seq(Challenge)
  <2>1. challenges \in [1..Len(challenges) -> Challenge] /\ Len(challenges) \in Nat
    BY <1>1
  <2>2. challenges' \in [1..Len(challenges) -> Challenge]
    BY <1>2, <1>6, <2>1
  <2> QED
    BY <2>1, <2>2
<1>8. \A i \in DOMAIN challenges :
        /\ challenges'[i].dest = challenges[i].dest
        /\ challenges[i].deleted => challenges'[i].deleted
        /\ challenges[i].consumed => challenges'[i].consumed
        /\ challenges'[i].wrong <= challenges'[i].attempts
        /\ challenges'[i].wrong <= MaxAttempts
  <2> TAKE i \in DOMAIN challenges
  <2>1. /\ challenges[i].wrong <= challenges[i].attempts
        /\ challenges[i].wrong <= MaxAttempts
    BY DEF SignInInv, CodeInv, Counted
  <2>2. /\ challenges[i].wrong \in Nat /\ challenges[i].attempts \in Nat /\ MaxAttempts \in Nat
    BY <1>5 DEF Challenge, SignInConstants
  <2>3. CASE i = k
    BY <1>2, <1>4, <1>5, <2>1, <2>2, <2>3, MissedFacts
  <2>4. CASE i # k
    BY <1>4, <2>1, <2>4
  <2> QED
    BY <2>3, <2>4
<1>9. CodeInv'
  BY <1>2, <1>3, <1>7, <1>8, NoTaskType, CodesClose DEF SignInInv, Finish, Set
<1>10. TaskInv'
  BY <1>2, NoTaskType, TaskMoves DEF Finish, Set, Asked, SignInInv
<1>11. LinkInv' /\ ProfileInv'
  BY <1>2, NoTaskType, LinksStay DEF Finish, Set
<1> QED
  BY <1>9, <1>10, <1>11 DEF SignInInv

\* Trying a code: the rest only looks at it.
LEMMA TryingKeeps ==
    ASSUME SignInConstants, SignInInv, NEW t \in Tasks,
           \/ \E d \in Dests : VerifyOtp(t, d)
           \/ TooLate(t) \/ Refuse(t) \/ GuessRight(t)
           \/ \E g \in Accounts : GoogleSignIn(t, g)
    PROVE  SignInInv'
<1>1. task[t] \in TaskType /\ Asked(task[t]) /\ now \in Nat
  BY DEF SignInInv, TaskInv
<1>2. DOMAIN challenges \in SUBSET Nat
  BY DEF SignInInv, CodeInv, Counted
<1>3. ASSUME NEW d \in Dests, VerifyOtp(t, d) PROVE SignInInv'
  <2>1. PICK i \in Pending(d) :
          Set(t, [NoTask EXCEPT !.pc = "try", !.at = now, !.dest = d, !.code = i])
    BY <1>3 DEF VerifyOtp
  <2> DEFINE to == [NoTask EXCEPT !.pc = "try", !.at = now, !.dest = d, !.code = i]
  <2>2. i \in Nat
    BY <1>2 DEF Pending, OfDest
  <2>3. to \in TaskType /\ Asked(to) /\ to.pc = "try"
    BY NoTaskType, <1>1, <2>2 DEF TaskType, Asked
  <2>4. Set(t, to) /\ UNCHANGED <<now, challenges, accountVars>>
    BY <1>3, <2>1 DEF VerifyOtp
  <2> HIDE DEF to
  <2> QED
    BY <2>3, <2>4, RequestMoves
<1>4. CASE TooLate(t) \/ Refuse(t)
  BY <1>4, RequestEnds DEF TooLate, Refuse
<1>5. ASSUME GuessRight(t) PROVE SignInInv'
  <2> DEFINE c  == OtpClaim(task[t].dest)
             to == [task[t] EXCEPT !.pc = "resolve", !.holds = {task[t].code}, !.claim = c]
  <2>1. task[t].pc = "try" /\ Set(t, to) /\ UNCHANGED <<now, challenges, accountVars>>
    BY <1>5 DEF GuessRight, Is
  <2>2. c \in Claims
    BY <1>1, <2>1 DEF Claims, Asked
  <2> HIDE DEF c
  <2>3. to \in TaskType /\ Asked(to) /\ to.pc = "resolve"
    BY <1>1, <2>2 DEF TaskType, Asked
  <2> HIDE DEF to
  <2> QED
    BY <2>1, <2>3, RequestMoves
<1>6. ASSUME NEW g \in Accounts, GoogleSignIn(t, g) PROVE SignInInv'
  <2> DEFINE c  == GoogleClaim(g)
             to == [NoTask EXCEPT !.pc = "resolve", !.at = now, !.claim = c]
  <2>1. Set(t, to) /\ UNCHANGED <<now, challenges, accountVars>>
    BY <1>6 DEF GoogleSignIn
  <2>2. c \in Claims
    BY DEF Claims
  <2> HIDE DEF c
  <2>3. to \in TaskType /\ Asked(to) /\ to.pc = "resolve"
    BY <1>1, <2>2, NoTaskType DEF TaskType, Asked
  <2> HIDE DEF to
  <2> QED
    BY <2>1, <2>3, RequestMoves
<1> QED
  BY <1>3, <1>4, <1>5, <1>6

-----------------------------------------------------------------------------
(* Accounts.                                                               *)

LEMMA CodeUsedUp ==
    ASSUME SignInConstants, SignInInv, NEW t \in Tasks, Consume(t), Finish(t), UNCHANGED now
    PROVE  TaskInv' /\ CodeInv'
<1>1. challenges \in [1..Len(challenges) -> Challenge] /\ Len(challenges) \in Nat
  BY DEF SignInInv, CodeInv, Counted
<1>2. ASSUME NEW i \in DOMAIN challenges
      PROVE  /\ challenges'[i] \in Challenge
             /\ challenges'[i].dest = challenges[i].dest
             /\ challenges'[i].deleted = challenges[i].deleted
             /\ challenges[i].consumed => challenges'[i].consumed
             /\ challenges'[i].wrong = challenges[i].wrong
             /\ challenges'[i].attempts >= challenges[i].attempts
  <2>1. challenges[i] \in Challenge
    BY <1>1
  <2>2. CASE i \notin task[t].holds
    <3>1. challenges'[i] = challenges[i]
      BY <2>2 DEF Consume
    <3> QED
      BY <2>1, <3>1 DEF Challenge
  <2>3. CASE i \in task[t].holds
    <3> DEFINE c == challenges[i]
               a == [c EXCEPT !.consumed = TRUE]
    <3>1. /\ a \in Challenge /\ a.consumed /\ a.attempts = c.attempts
          /\ a.dest = c.dest /\ a.deleted = c.deleted /\ a.wrong = c.wrong
      BY <2>1 DEF Challenge
    <3>2. challenges'[i] = [a EXCEPT !.attempts = c.attempts + 1]
      BY <2>3 DEF Consume
    <3>3. c.attempts \in Nat
      BY <2>1 DEF Challenge
    <3> HIDE DEF a
    <3> QED
      BY <3>1, <3>2, <3>3 DEF Challenge
  <2> QED
    BY <2>2, <2>3
<1>3. DOMAIN challenges' = DOMAIN challenges
  BY DEF Consume
<1>4. challenges' \in Seq(Challenge)
  <2>1. challenges' \in [1..Len(challenges) -> Challenge]
    BY <1>1, <1>2 DEF Consume
  <2> QED
    BY <1>1, <2>1
<1>5. \A i \in DOMAIN challenges :
        /\ challenges'[i].wrong <= challenges'[i].attempts
        /\ challenges'[i].wrong <= MaxAttempts
  <2> TAKE i \in DOMAIN challenges
  <2>1. /\ challenges[i].wrong <= challenges[i].attempts
        /\ challenges[i].wrong <= MaxAttempts
    BY DEF SignInInv, CodeInv, Counted
  <2>2. challenges[i].wrong \in Nat /\ challenges[i].attempts \in Nat /\ challenges'[i].attempts \in Nat
    BY <1>1, <1>2 DEF Challenge
  <2> QED
    BY <1>2, <2>1, <2>2
<1>6. CodeInv'
  BY <1>2, <1>3, <1>4, <1>5, NoTaskType, CodesClose DEF SignInInv, Finish, Set
<1>7. TaskInv'
  BY NoTaskType, TaskMoves DEF Finish, Set, Asked, SignInInv
<1> QED
  BY <1>6, <1>7

\* Two claims that share a channel prove the same one.
LEMMA SharedChannel ==
    ASSUME SignInConstants, NEW c \in Claims, NEW e \in Claims,
           \/ c.email # None /\ c.email = e.email
           \/ c.phone # None /\ c.phone = e.phone
    PROVE  SameChannel(c, e)
BY OneChannel DEF SameChannel

\* A request links only a user who has proved the same channel before.
LEMMA ResolvedByProof ==
    ASSUME SignInConstants, SignInInv, NEW t \in Tasks, Resolve(t)
    PROVE  SignInInv'
<1> DEFINE c == task[t].claim
<1>1. task[t] \in TaskType /\ c \in Claims /\ task[t].pc = "resolve"
  BY DEF SignInInv, TaskInv, TaskType, Resolve, Is
<1>2. UNCHANGED <<now, challenges, accountVars>>
  BY DEF Resolve
<1>3. identities \subseteq [claim : Claims, user : Users]
  BY DEF SignInInv, LinkInv
<1>4. ASSUME NEW u \in Users, NEW pc \in {"enter", "link"},
             Set(t, [task[t] EXCEPT !.pc = pc, !.found = u]),
             pc = "link" => \E i \in identities : i.user = u /\ SameChannel(i.claim, c)
      PROVE  SignInInv'
  <2> DEFINE to == [task[t] EXCEPT !.pc = pc, !.found = u]
  <2>1. /\ to \in TaskType /\ Asked(to) /\ to.pc = pc
        /\ to.found = u /\ to.claim = c
    BY <1>1 DEF TaskType, Asked
  <2>2. task' = [task EXCEPT ![t] = to]
    BY <1>4 DEF Set
  <2> HIDE DEF to, c
  <2>3. TaskInv' /\ CodeInv'
    BY <1>2, <2>1, <2>2, TaskMoves, CodesStay DEF SignInInv
  <2>4. task'[t] = to /\ \A s \in Tasks \ {t} : task'[s] = task[s]
    BY <2>2 DEF SignInInv, TaskInv
  <2>5. UNCHANGED <<users, identities, patches>>
    BY <1>2 DEF accountVars
  <2>6. \A s \in Tasks : task'[s].pc \in {"enter", "link"} => task'[s].found \in Users
    BY <2>1, <2>4 DEF SignInInv, LinkInv
  <2>7. \A s \in Tasks : task'[s].pc = "link" =>
          \E i \in identities : i.user = task'[s].found /\ SameChannel(i.claim, task'[s].claim)
    BY <1>4, <2>1, <2>4 DEF SignInInv, LinkInv
  <2>8. LinkInv' /\ ProfileInv'
    BY <2>5, <2>6, <2>7 DEF SignInInv, LinkInv, LinkedByProof, ProfileInv
  <2> QED
    BY <2>3, <2>8 DEF SignInInv
<1>5. ASSUME NEW u \in BySubject(c), Set(t, [task[t] EXCEPT !.pc = "enter", !.found = u])
      PROVE  SignInInv'
  <2>1. u \in Users
    BY <1>3 DEF BySubject
  <2> QED
    BY <1>4, <1>5, <2>1
<1>6. ASSUME NEW u \in ByEmail(c) \cup ByPhone(c),
             Set(t, [task[t] EXCEPT !.pc = "link", !.found = u])
      PROVE  SignInInv'
  <2>1. PICK i \in identities : /\ i.user = u
                                /\ \/ c.email # None /\ c.email = i.claim.email
                                   \/ c.phone # None /\ c.phone = i.claim.phone
    BY DEF ByEmail, ByPhone
  <2>2. i.claim \in Claims /\ u \in Users
    BY <1>3, <2>1
  <2> HIDE DEF c
  <2>3. SameChannel(i.claim, c)
    <3>1. SameChannel(c, i.claim)
      BY <1>1, <2>1, <2>2, SharedChannel
    <3> QED
      BY <3>1 DEF SameChannel
  <2> QED
    BY <1>4, <1>6, <2>1, <2>2, <2>3 DEF c
<1>7. CASE Finish(t)
  BY <1>2, <1>7, RequestEnds
<1>8. CASE Set(t, [task[t] EXCEPT !.pc = "create"])
  <2> DEFINE to == [task[t] EXCEPT !.pc = "create"]
  <2>1. to \in TaskType /\ Asked(to) /\ to.pc = "create"
    BY <1>1 DEF TaskType, Asked
  <2>2. Set(t, to)
    BY <1>8
  <2> HIDE DEF to
  <2> QED
    BY <1>2, <2>1, <2>2, RequestMoves
<1> QED
  BY <1>5, <1>6, <1>7, <1>8 DEF Resolve

\* A user's identity is joined by one of the same channel, or by none.
LEMMA EnteredByProof ==
    ASSUME SignInConstants, SignInInv, NEW t \in Tasks, Enter(t)
    PROVE  SignInInv'
<1> DEFINE c == task[t].claim
           u == task[t].found
           mine == [claim |-> c, user |-> u]
<1>1. task[t] \in TaskType /\ c \in Claims
  BY DEF SignInInv, TaskInv, TaskType
<1>2. /\ Consume(t) /\ Finish(t)
      /\ UNCHANGED now /\ UNCHANGED users /\ UNCHANGED patches
  BY DEF Enter
<1>3. TaskInv' /\ CodeInv'
  BY <1>2, CodeUsedUp
<1>4. task'[t] = NoTask /\ \A s \in Tasks \ {t} : task'[s] = task[s]
  BY <1>2 DEF Finish, Set, SignInInv, TaskInv
<1>5. CASE UNCHANGED identities
  <2>1. LinkInv'
    BY <1>2, <1>4, <1>5, NoTaskType DEF SignInInv, LinkInv, LinkedByProof
  <2>2. ProfileInv'
    BY <1>2, <1>5 DEF SignInInv, ProfileInv
  <2> QED
    BY <1>3, <2>1, <2>2 DEF SignInInv
<1>6. CASE task[t].pc = "link" /\ identities' = identities \cup {mine}
  <2>1. PICK w \in identities : w.user = u /\ SameChannel(w.claim, c)
    BY <1>6 DEF SignInInv, LinkInv
  <2>2. u \in Users /\ users[u].exists
    BY <2>1 DEF SignInInv, LinkInv
  <2>3. mine.claim = c /\ mine.user = u /\ mine \in [claim : Claims, user : Users]
    BY <1>1, <2>2
  <2> HIDE DEF mine, c, u
  <2>4. \A i \in identities : i.user = u => SameChannel(i.claim, c)
    BY <2>1 DEF SignInInv, LinkInv, LinkedByProof, SameChannel
  <2>5. LinkedByProof'
    BY <1>6, <2>3, <2>4 DEF SignInInv, LinkInv, LinkedByProof, SameChannel
  <2>6. \A s \in Tasks : task'[s].pc \in {"enter", "link"} => task'[s].found \in Users
    BY <1>4, NoTaskType DEF SignInInv, LinkInv
  <2>7. \A s \in Tasks : task'[s].pc = "link" =>
          \E i \in identities' : i.user = task'[s].found /\ SameChannel(i.claim, task'[s].claim)
    BY <1>4, <1>6, NoTaskType DEF SignInInv, LinkInv
  <2>8. \A i \in identities' : users[i.user].exists
    BY <1>6, <2>2, <2>3 DEF SignInInv, LinkInv
  <2>9. identities' \subseteq [claim : Claims, user : Users]
    BY <1>6, <2>3 DEF SignInInv, LinkInv
  <2>10. LinkInv'
    BY <1>2, <2>5, <2>6, <2>7, <2>8, <2>9 DEF SignInInv, LinkInv
  <2>11. ProfileInv'
    <3>1. patches = 0 => SameChannel(w.claim, users[u])
      BY <2>1 DEF SignInInv, ProfileInv
    <3>2. patches = 0 => SameChannel(c, users[u])
      BY <2>1, <3>1 DEF SameChannel
    <3> QED
      BY <1>2, <1>6, <2>3, <3>2 DEF SignInInv, ProfileInv
  <2> QED
    BY <1>3, <2>10, <2>11 DEF SignInInv
<1> QED
  BY <1>5, <1>6 DEF Enter, Attach, Is

\* A new user has no identity yet, and unique columns keep two from one channel.
LEMMA CreatedByProof ==
    ASSUME SignInConstants, SignInInv, NEW t \in Tasks, CreateUser(t)
    PROVE  SignInInv'
<1> DEFINE c == task[t].claim
<1>1. task[t] \in TaskType /\ c \in Claims
  BY DEF SignInInv, TaskInv, TaskType
<1>2. /\ Consume(t) /\ Finish(t) /\ Insertable(c)
      /\ UNCHANGED now /\ UNCHANGED patches
  BY DEF CreateUser
<1>3. TaskInv' /\ CodeInv'
  BY <1>2, CodeUsedUp
<1>4. task'[t] = NoTask /\ \A s \in Tasks \ {t} : task'[s] = task[s]
  BY <1>2 DEF Finish, Set, SignInInv, TaskInv
<1>5. PICK u \in Users :
        /\ ~users[u].exists
        /\ users' = [users EXCEPT ![u] = [exists |-> TRUE, phone |-> c.phone, email |-> c.email]]
        /\ Attach(u, c)
  BY DEF CreateUser
<1> DEFINE made == [exists |-> TRUE, phone |-> c.phone, email |-> c.email]
           mine == [claim |-> c, user |-> u]
<1>6. made \in UserType /\ made.exists /\ made.phone = c.phone /\ made.email = c.email
  BY <1>1, OneChannel DEF UserType
<1>7. users' = [users EXCEPT ![u] = made]
  BY <1>5
<1>8. mine.claim = c /\ mine.user = u /\ mine \in [claim : Claims, user : Users]
  BY <1>1
<1>9. \A i \in identities : i.user \in Users /\ i.user # u
  BY <1>5 DEF SignInInv, LinkInv
<1>10. identities' = identities \/ identities' = identities \cup {mine}
  BY <1>5 DEF Attach
<1> HIDE DEF made, mine, c
<1>11. /\ users' \in [Users -> UserType] /\ users'[u] = made
       /\ \A v \in Users \ {u} : users'[v] = users[v]
  BY <1>6, <1>7 DEF SignInInv, LinkInv
<1>12. LinkInv'
  <2>1. LinkedByProof'
    BY <1>8, <1>9, <1>10 DEF SignInInv, LinkInv, LinkedByProof
  <2>2. \A i \in identities' : users'[i.user].exists
    BY <1>6, <1>8, <1>9, <1>10, <1>11 DEF SignInInv, LinkInv
  <2>3. \A s \in Tasks : task'[s].pc \in {"enter", "link"} => task'[s].found \in Users
    BY <1>4, NoTaskType DEF SignInInv, LinkInv
  <2>4. \A s \in Tasks : task'[s].pc = "link" =>
          \E i \in identities' : i.user = task'[s].found /\ SameChannel(i.claim, task'[s].claim)
    BY <1>4, <1>10, NoTaskType DEF SignInInv, LinkInv
  <2>5. identities' \subseteq [claim : Claims, user : Users]
    BY <1>8, <1>10 DEF SignInInv, LinkInv
  <2> QED
    BY <1>2, <1>11, <2>1, <2>2, <2>3, <2>4, <2>5 DEF SignInInv, LinkInv
<1>13. ProfileInv'
  <2> SUFFICES ASSUME patches = 0
               PROVE  /\ \A i \in identities' : SameChannel(i.claim, users'[i.user])
                      /\ \A x, y \in Users :
                            \/ users'[x].email # None /\ users'[x].email = users'[y].email
                            \/ users'[x].phone # None /\ users'[x].phone = users'[y].phone
                            => x = y
    BY <1>2 DEF ProfileInv, SameChannel
  <2>1. \A i \in identities : SameChannel(i.claim, users'[i.user])
    BY <1>9, <1>11 DEF SignInInv, ProfileInv
  <2>2. SameChannel(mine.claim, users'[mine.user])
    BY <1>6, <1>8, <1>11 DEF SameChannel
  <2>3. \A v \in Users : /\ c.phone # None => users[v].phone # c.phone
                         /\ c.email # None => users[v].email # c.email
    BY <1>2 DEF Insertable
  <2>4. ASSUME NEW x \in Users, NEW y \in Users,
               \/ users'[x].email # None /\ users'[x].email = users'[y].email
               \/ users'[x].phone # None /\ users'[x].phone = users'[y].phone
        PROVE  x = y
    <3>1. CASE x # u /\ y # u
      BY <1>11, <2>4, <3>1 DEF SignInInv, ProfileInv
    <3>2. CASE x = u \/ y = u
      BY <1>6, <1>11, <2>3, <2>4, <3>2
    <3> QED
      BY <3>1, <3>2
  <2> QED
    BY <1>10, <2>1, <2>2, <2>4
<1> QED
  BY <1>3, <1>12, <1>13 DEF SignInInv

\* An edited profile proves nothing, and takes nobody's identity.
LEMMA ProfileEdited ==
    ASSUME SignInConstants, SignInInv, NEW u \in Users, NEW e \in Emails, PatchEmail(u, e)
    PROVE  SignInInv'
<1>1. /\ users' = [users EXCEPT ![u].email = e] /\ patches' = patches + 1
      /\ UNCHANGED <<now, challenges, identities, task>>
  BY DEF PatchEmail
<1>2. users \in [Users -> UserType] /\ patches \in Nat
  BY DEF SignInInv, LinkInv
<1>3. users' \in [Users -> UserType] /\ \A v \in Users : users'[v].exists = users[v].exists
  BY <1>1, <1>2 DEF UserType
<1>4. LinkInv'
  BY <1>1, <1>2, <1>3 DEF SignInInv, LinkInv, LinkedByProof
<1>5. ProfileInv'
  BY <1>1, <1>2 DEF ProfileInv
<1>6. TaskInv' /\ CodeInv'
  BY <1>1 DEF SignInInv, TaskInv, CodeInv, Counted, Sending, OneOpen, OpenCode
<1> QED
  BY <1>4, <1>5, <1>6 DEF SignInInv

LEMMA Untouched == ASSUME SignInInv, UNCHANGED signInVars, now' \in Nat PROVE SignInInv'
<1>1. UNCHANGED <<challenges, users, identities, patches, task>>
  BY DEF signInVars, accountVars
<1>2. TaskInv' /\ CodeInv'
  BY <1>1 DEF SignInInv, TaskInv, CodeInv, Counted, Sending, OneOpen, OpenCode
<1>3. LinkInv' /\ ProfileInv'
  BY <1>1 DEF SignInInv, LinkInv, LinkedByProof, ProfileInv
<1> QED
  BY <1>2, <1>3 DEF SignInInv

-----------------------------------------------------------------------------
LEMMA SignInStep == ASSUME SignInConstants, SignInInv, [Next]_vars PROVE SignInInv'
<1>1. CASE CodeStep
  <2>1. ASSUME NEW t \in Tasks, NEW d \in Dests, RequestOtp(t, d) \/ VerifyOtp(t, d)
        PROVE  SignInInv'
    BY <2>1, BeforeInsert, TryingKeeps
  <2>2. ASSUME NEW t \in Tasks, LookLatest(t) \/ DeleteBegins(t) \/ DeleteEnds(t) PROVE SignInInv'
    BY <2>2, BeforeInsert
  <2>3. ASSUME NEW t \in Tasks, InsertChallenge(t) \/ SendCode(t) \/ GuessWrong(t)
        PROVE  SignInInv'
    BY <2>3, InsertedAlone, SentAlone, GuessesCounted
  <2>4. ASSUME NEW t \in Tasks, TooLate(t) \/ Refuse(t) \/ GuessRight(t) PROVE SignInInv'
    BY <2>4, TryingKeeps
  <2> QED
    BY <1>1, <2>1, <2>2, <2>3, <2>4 DEF CodeStep
<1>2. CASE AccountStep
  <2>1. ASSUME NEW t \in Tasks, NEW g \in Accounts, GoogleSignIn(t, g) PROVE SignInInv'
    BY <2>1, TryingKeeps
  <2>2. ASSUME NEW t \in Tasks, Resolve(t) \/ Enter(t) \/ CreateUser(t) PROVE SignInInv'
    BY <2>2, ResolvedByProof, EnteredByProof, CreatedByProof
  <2>3. ASSUME NEW t \in Tasks, CreateRefused(t) \/ Fail(t) PROVE SignInInv'
    BY <2>3, RequestEnds DEF CreateRefused, Fail
  <2>4. ASSUME NEW u \in Users, NEW e \in Emails, PatchEmail(u, e) PROVE SignInInv'
    BY <2>4, ProfileEdited
  <2> QED
    BY <1>2, <2>1, <2>2, <2>3, <2>4 DEF AccountStep
<1>3. CASE SessionStep /\ UNCHANGED <<now, signInVars>>
  BY <1>3, Untouched DEF SignInInv, TaskInv
<1>4. CASE Tick
  BY <1>4, Untouched DEF Tick, SignInInv, TaskInv
<1>5. CASE UNCHANGED vars
  BY <1>5, Untouched DEF vars, SignInInv, TaskInv
<1> QED
  BY <1>1, <1>2, <1>3, <1>4, <1>5 DEF Next

LEMMA SignInAlways == ASSUME SignInConstants PROVE Spec => []SignInInv
<1>1. Init => SignInInv
  BY SignInStarts
<1>2. SignInInv /\ [Next]_vars => SignInInv'
  BY SignInStep
<1> QED
  BY <1>1, <1>2, PTL DEF Spec

\* However many requests try it, and however their transactions wait for each
\* other, a code is compared with at most MAX_ATTEMPTS wrong ones (verify_otp).
THEOREM GuessesStop == ASSUME SignInConstants PROVE Spec => []GuessesBounded
<1>1. SignInInv => GuessesBounded
  BY DEF SignInInv, CodeInv, Counted, GuessesBounded
<1> QED
  BY <1>1, SignInAlways, PTL

\* At most one code of a destination can still be used, whatever requests for it
\* race (request_otp: the delete, the unique index and the send in one
\* transaction).
THEOREM CodesAlone == ASSUME SignInConstants PROVE Spec => []OneLiveCode
<1>1. ASSUME SignInInv PROVE OneLiveCode
  <2> SUFFICES ASSUME NEW d \in Dests PROVE Cardinality(Pending(d)) <= 1
    BY DEF OneLiveCode
  <2>1. \A i, j \in Pending(d) : i = j
    BY <1>1 DEF SignInInv, CodeInv, OneOpen, OpenCode, Pending, OfDest
  <2>2. CASE Pending(d) = {}
    BY <2>2, FS_EmptySet
  <2>3. CASE Pending(d) # {}
    <3>1. PICK i \in Pending(d) : Pending(d) = {i}
      BY <2>1, <2>3
    <3>2. Cardinality({i}) = 1
      BY FS_Singleton, Zenon
    <3> QED
      BY <3>1, <3>2
  <2> QED
    BY <2>2, <2>3
<1> QED
  BY <1>1, SignInAlways, PTL

\* While no profile is edited, all who proved a channel are one user, even when
\* two first sign-ins race (lookup_matches, create_user, the unique columns).
THEOREM ChannelsOfOne == ASSUME SignInConstants PROVE Spec => []OneUserPerChannel
<1>1. ASSUME SignInInv PROVE OneUserPerChannel
  <2>1. \A i \in identities : i.user \in Users
    BY <1>1 DEF SignInInv, LinkInv
  <2> QED
    BY <1>1, <2>1 DEF SignInInv, ProfileInv, SameChannel, OneUserPerChannel
<1> QED
  BY <1>1, SignInAlways, PTL

\* Whatever is typed into profiles meanwhile, the identities of a user are of one
\* channel (resolve, attach_identity, update_me).
THEOREM LinksByProof == ASSUME SignInConstants PROVE Spec => []LinkedByProof
<1>1. SignInInv => LinkedByProof
  BY DEF SignInInv, LinkInv
<1> QED
  BY <1>1, SignInAlways, PTL

\* Signing in uses the table of sessions only as Sessions allows: it starts a
\* family for the user it found or made (start_session), and touches no token.
THEOREM SessionsRefined == ASSUME SignInConstants PROVE Spec => SessionsSpec
<1>1. Init => now = 0 /\ SessionsInit
  BY DEF Init
<1>2. SignInInv /\ [Next]_vars => [SessionsNext]_<<now, sessionVars>>
  <2> SUFFICES ASSUME SignInInv, [Next]_vars PROVE [SessionsNext]_<<now, sessionVars>>
    OBVIOUS
  <2>1. CASE CodeStep
    <3>1. ASSUME NEW t \in Tasks, NEW d \in Dests, RequestOtp(t, d) \/ VerifyOtp(t, d)
          PROVE  UNCHANGED <<now, sessionVars>>
      BY <3>1, Zenon DEF RequestOtp, VerifyOtp
    <3>2. ASSUME NEW t \in Tasks,
                 \/ LookLatest(t) \/ DeleteBegins(t) \/ DeleteEnds(t) \/ InsertChallenge(t)
                 \/ SendCode(t)
          PROVE  UNCHANGED <<now, sessionVars>>
      BY <3>2 DEF LookLatest, DeleteBegins, DeleteEnds, InsertChallenge, SendCode
    <3>3. ASSUME NEW t \in Tasks, TooLate(t) \/ Refuse(t) \/ GuessWrong(t) \/ GuessRight(t)
          PROVE  UNCHANGED <<now, sessionVars>>
      BY <3>3 DEF TooLate, Refuse, GuessWrong, GuessRight
    <3> QED
      BY <2>1, <3>1, <3>2, <3>3, Zenon DEF CodeStep
  <2>2. CASE AccountStep
    <3>1. ASSUME NEW t \in Tasks, Enter(t) PROVE SessionsNext
      <4>1. task[t].found \in Users
        BY <3>1 DEF Enter, SignInInv, LinkInv
      <4>2. StartSession(task[t].found) /\ UNCHANGED now
        BY <3>1 DEF Enter
      <4> QED
        BY <4>1, <4>2 DEF SessionsNext
    <3>2. ASSUME NEW t \in Tasks, CreateUser(t) PROVE SessionsNext
      <4>1. (\E u \in Users : StartSession(u)) /\ UNCHANGED now
        BY <3>2 DEF CreateUser
      <4> QED
        BY <4>1 DEF SessionsNext
    <3>3. CASE UNCHANGED <<now, sessionVars>>
      BY <3>3
    <3> QED
      BY <2>2, <3>1, <3>2, <3>3
         DEF AccountStep, GoogleSignIn, Resolve, CreateRefused, Fail, PatchEmail
  <2>3. CASE SessionStep /\ UNCHANGED <<now, signInVars>>
    BY <2>3 DEF SessionsNext
  <2>4. CASE Tick
    BY <2>4 DEF Tick, SessionsNext
  <2>5. CASE UNCHANGED vars
    BY <2>5 DEF vars
  <2> QED
    BY <2>1, <2>2, <2>3, <2>4, <2>5 DEF Next
<1> QED
  BY <1>1, <1>2, SignInAlways, PTL DEF Spec, SessionsSpec

-----------------------------------------------------------------------------
(* Codes. The row of a code is held by one request at a time, and what a   *)
(* request remembers of the codes it holds still stands.                   *)

\* A request about to let somebody in.
Proven == {"resolve", "enter", "link", "create"}

\* What a request remembers of the codes: places of the table; what it is about
\* to delete it holds; and the code it was right about still works.
Remembers(rec) ==
    /\ rec.look \cup rec.holds \cup rec.del \subseteq DOMAIN challenges
    /\ rec.pc = "try" => rec.code \in DOMAIN challenges
    /\ rec.pc \in {"insert", "sending"} => rec.del \subseteq rec.holds
    /\ rec.pc \in Proven => \A i \in rec.holds : OpenCode(i)

LockInv ==
    /\ Len(challenges) <= MaxCodes
    /\ \A t \in Tasks : Remembers(task[t])
    /\ \A s, t \in Tasks : \A i \in task[s].holds \cap task[t].holds : s = t

\* Nobody is let in by a code that was used or replaced.
CodeWorksOnce ==
    [][\A t \in Tasks : Enter(t) \/ CreateUser(t) => \A i \in task[t].holds : OpenCode(i)]_vars

LEMMA NoTaskRemembers ==
    /\ NoTask.pc = "idle" /\ NoTask.look = {} /\ NoTask.holds = {} /\ NoTask.del = {}
BY DEF NoTask

LEMMA LocksStart == ASSUME SignInConstants, Init PROVE LockInv
<1>1. \A t \in Tasks : task[t] = NoTask
  BY DEF Init, SignInInit
<1>2. challenges = <<>> /\ Len(challenges) = 0
  BY DEF Init, SignInInit
<1> QED
  BY <1>1, <1>2, NoTaskRemembers DEF LockInv, Remembers, Proven, SignInConstants

\* A request moves and the codes stay.
LEMMA LockMoves ==
    ASSUME SignInInv, LockInv, NEW t \in Tasks, NEW to, Set(t, to), UNCHANGED challenges,
           Remembers(to), \A i \in to.holds : i \in task[t].holds \/ ~Taken(t, i)
    PROVE  LockInv'
<1>1. task'[t] = to /\ \A s \in Tasks \ {t} : task'[s] = task[s]
  BY DEF Set, SignInInv, TaskInv
<1>2. \A s \in Tasks : Remembers(task'[s])
  BY <1>1 DEF LockInv
<1>3. \A s \in Tasks : Remembers(task[s])'
  BY <1>2 DEF Remembers, OpenCode
<1>4. \A s \in Tasks \ {t} : \A i \in to.holds : i \notin task[s].holds
  BY DEF LockInv, Taken
<1>5. \A r, s \in Tasks : \A i \in task'[r].holds \cap task'[s].holds : r = s
  BY <1>1, <1>4 DEF LockInv
<1> QED
  BY <1>3, <1>5 DEF LockInv

\* A request ends, and only codes it holds are closed.
LEMMA LockEnds ==
    ASSUME SignInInv, LockInv, NEW t \in Tasks, Finish(t),
           DOMAIN challenges \subseteq DOMAIN challenges', Len(challenges') <= MaxCodes,
           \A i \in DOMAIN challenges \ task[t].holds : OpenCode(i) => OpenCode(i)'
    PROVE  LockInv'
<1>1. task'[t] = NoTask /\ \A s \in Tasks \ {t} : task'[s] = task[s]
  BY DEF Finish, Set, SignInInv, TaskInv
<1>2. ASSUME NEW s \in Tasks PROVE Remembers(task[s])'
  <2>1. CASE s = t
    BY <1>1, <2>1, NoTaskRemembers DEF Remembers, Proven
  <2>2. CASE s # t
    <3>1. task'[s] = task[s] /\ Remembers(task[s])
      BY <1>1, <2>2 DEF LockInv
    <3>2. \A i \in task[s].holds : i \in DOMAIN challenges \ task[t].holds
      BY <2>2, <3>1 DEF LockInv, Remembers
    <3> QED
      BY <3>1, <3>2 DEF Remembers
  <2> QED
    BY <2>1, <2>2
<1>3. \A r, s \in Tasks : \A i \in task'[r].holds \cap task'[s].holds : r = s
  BY <1>1, NoTaskRemembers DEF LockInv
<1> QED
  BY <1>2, <1>3 DEF LockInv

LEMMA LockDropped ==
    ASSUME SignInInv, LockInv, NEW t \in Tasks, Finish(t), UNCHANGED challenges
    PROVE  LockInv'
BY LockEnds DEF LockInv, OpenCode

\* request_otp.
LEMMA AskingLocks ==
    ASSUME SignInConstants, SignInInv, LockInv, NEW t \in Tasks,
           \/ \E d \in Dests : RequestOtp(t, d)
           \/ LookLatest(t) \/ DeleteBegins(t) \/ DeleteEnds(t) \/ InsertChallenge(t)
    PROVE  LockInv'
<1>1. task[t] \in TaskType /\ Remembers(task[t])
  BY DEF SignInInv, TaskInv, LockInv
<1>2. \A d : OfDest(d) \subseteq DOMAIN challenges /\ Pending(d) \subseteq DOMAIN challenges
  BY DEF OfDest, Pending
<1>3. ASSUME NEW d \in Dests, RequestOtp(t, d) PROVE LockInv'
  <2> DEFINE to == [NoTask EXCEPT !.pc = "look", !.at = now, !.dest = d, !.look = OfDest(d)]
  <2>1. to.pc = "look" /\ to.look = OfDest(d) /\ to.holds = {} /\ to.del = {}
    BY DEF NoTask
  <2>2. Set(t, to) /\ UNCHANGED challenges
    BY <1>3 DEF RequestOtp
  <2> HIDE DEF to
  <2>3. Remembers(to)
    BY <1>2, <2>1 DEF Remembers, Proven
  <2> QED
    BY <2>1, <2>2, <2>3, LockMoves
<1>4. ASSUME LookLatest(t) PROVE LockInv'
  <2>1. task[t].pc = "look" /\ UNCHANGED challenges
    BY <1>4 DEF LookLatest, Is
  <2>2. CASE Set(t, [task[t] EXCEPT !.pc = "delete"])
    <3> DEFINE to == [task[t] EXCEPT !.pc = "delete"]
    <3>1. /\ to.pc = "delete" /\ to.look = task[t].look /\ to.holds = task[t].holds
          /\ to.del = task[t].del
      BY <1>1 DEF TaskType
    <3>2. Set(t, to)
      BY <2>2
    <3> HIDE DEF to
    <3>3. Remembers(to)
      BY <1>1, <3>1 DEF Remembers, Proven
    <3> QED
      BY <2>1, <3>1, <3>2, <3>3, LockMoves
  <2>3. ASSUME NEW i \in task[t].look, Set(t, [task[t] EXCEPT !.look = @ \ {i}]) PROVE LockInv'
    <3> DEFINE to == [task[t] EXCEPT !.look = @ \ {i}]
    <3>1. /\ to.pc = "look" /\ to.look \subseteq task[t].look /\ to.holds = task[t].holds
          /\ to.del = task[t].del
      BY <1>1, <2>1 DEF TaskType
    <3>2. Set(t, to)
      BY <2>3
    <3> HIDE DEF to
    <3>3. Remembers(to)
      BY <1>1, <3>1 DEF Remembers, Proven
    <3> QED
      BY <2>1, <3>1, <3>2, <3>3, LockMoves
  <2>4. CASE Finish(t)
    BY <2>1, <2>4, LockDropped
  <2>5. ASSUME NEW i \in task[t].look, ~Taken(t, i),
               Set(t, [task[t] EXCEPT !.pc = "delete", !.look = {}, !.holds = {i}])
        PROVE  LockInv'
    <3> DEFINE to == [task[t] EXCEPT !.pc = "delete", !.look = {}, !.holds = {i}]
    <3>1. to.pc = "delete" /\ to.look = {} /\ to.holds = {i} /\ to.del = task[t].del
      BY <1>1 DEF TaskType
    <3>2. Set(t, to)
      BY <2>5
    <3> HIDE DEF to
    <3>3. Remembers(to)
      BY <1>1, <3>1 DEF Remembers, Proven
    <3> QED
      BY <2>1, <2>5, <3>1, <3>2, <3>3, LockMoves
  <2> QED
    BY <1>4, <2>2, <2>3, <2>4, <2>5 DEF LookLatest
<1>5. ASSUME DeleteBegins(t) PROVE LockInv'
  <2> DEFINE to == [task[t] EXCEPT !.pc = "deleting", !.del = Pending(task[t].dest)]
  <2>1. /\ to.pc = "deleting" /\ to.look = task[t].look /\ to.holds = task[t].holds
        /\ to.del = Pending(task[t].dest)
    BY <1>1 DEF TaskType
  <2>2. Set(t, to) /\ UNCHANGED challenges
    BY <1>5 DEF DeleteBegins
  <2> HIDE DEF to
  <2>3. Remembers(to)
    BY <1>1, <1>2, <2>1 DEF Remembers, Proven
  <2> QED
    BY <2>1, <2>2, <2>3, LockMoves
<1>6. ASSUME DeleteEnds(t) PROVE LockInv'
  <2> DEFINE gone == task[t].del \cap Pending(task[t].dest)
             to   == [task[t] EXCEPT !.pc = "insert", !.del = gone, !.holds = @ \cup gone]
  <2>1. Set(t, to) /\ UNCHANGED challenges /\ \A i \in gone : ~Taken(t, i)
    BY <1>6 DEF DeleteEnds
  <2>2. gone \subseteq task[t].del
    OBVIOUS
  <2> HIDE DEF gone
  <2>3. /\ to.pc = "insert" /\ to.look = task[t].look /\ to.holds = task[t].holds \cup gone
        /\ to.del = gone
    BY <1>1 DEF TaskType
  <2> HIDE DEF to
  <2>4. Remembers(to)
    BY <1>1, <2>2, <2>3 DEF Remembers, Proven
  <2> QED
    BY <2>1, <2>3, <2>4, LockMoves
<1>7. ASSUME InsertChallenge(t) PROVE LockInv'
  <2>1. task[t].pc = "insert" /\ UNCHANGED challenges
    BY <1>7 DEF InsertChallenge, Is
  <2>2. CASE Set(t, [task[t] EXCEPT !.pc = "sending"])
    <3> DEFINE to == [task[t] EXCEPT !.pc = "sending"]
    <3>1. /\ to.pc = "sending" /\ to.look = task[t].look /\ to.holds = task[t].holds
          /\ to.del = task[t].del
      BY <1>1 DEF TaskType
    <3>2. Set(t, to)
      BY <2>2
    <3> HIDE DEF to
    <3>3. Remembers(to)
      BY <1>1, <2>1, <3>1 DEF Remembers, Proven
    <3> QED
      BY <2>1, <3>1, <3>2, <3>3, LockMoves
  <2> QED
    BY <1>7, <2>1, <2>2, LockDropped DEF InsertChallenge
<1> QED
  BY <1>3, <1>4, <1>5, <1>6, <1>7

\* verify_otp and google_sign_in, up to the transaction that lets somebody in.
LEMMA TryingLocks ==
    ASSUME SignInConstants, SignInInv, LockInv, NEW t \in Tasks,
           \/ \E d \in Dests : VerifyOtp(t, d)
           \/ GuessRight(t) \/ Resolve(t)
           \/ \E g \in Accounts : GoogleSignIn(t, g)
    PROVE  LockInv'
<1>1. task[t] \in TaskType /\ Remembers(task[t])
  BY DEF SignInInv, TaskInv, LockInv
<1>2. ASSUME NEW d \in Dests, VerifyOtp(t, d) PROVE LockInv'
  <2>1. PICK i \in Pending(d) :
          Set(t, [NoTask EXCEPT !.pc = "try", !.at = now, !.dest = d, !.code = i])
    BY <1>2 DEF VerifyOtp
  <2> DEFINE to == [NoTask EXCEPT !.pc = "try", !.at = now, !.dest = d, !.code = i]
  <2>2. to.pc = "try" /\ to.code = i /\ to.look = {} /\ to.holds = {} /\ to.del = {}
    BY DEF NoTask
  <2>3. Set(t, to) /\ UNCHANGED challenges
    BY <1>2, <2>1 DEF VerifyOtp
  <2> HIDE DEF to
  <2>4. Remembers(to)
    BY <2>2 DEF Remembers, Proven, Pending, OfDest
  <2> QED
    BY <2>2, <2>3, <2>4, LockMoves
<1>3. ASSUME GuessRight(t) PROVE LockInv'
  <2> DEFINE c  == OtpClaim(task[t].dest)
             to == [task[t] EXCEPT !.pc = "resolve", !.holds = {task[t].code}, !.claim = c]
  <2>1. /\ task[t].pc = "try" /\ Set(t, to) /\ UNCHANGED challenges
        /\ ~Taken(t, task[t].code) /\ OpenCode(task[t].code)
    BY <1>3 DEF GuessRight, Is, Usable, OpenCode
  <2> HIDE DEF c
  <2>2. /\ to.pc = "resolve" /\ to.look = task[t].look /\ to.holds = {task[t].code}
        /\ to.del = task[t].del
    BY <1>1 DEF TaskType
  <2> HIDE DEF to
  <2>3. Remembers(to)
    BY <1>1, <2>1, <2>2 DEF Remembers
  <2> QED
    BY <2>1, <2>2, <2>3, LockMoves
<1>4. ASSUME NEW g \in Accounts, GoogleSignIn(t, g) PROVE LockInv'
  <2> DEFINE c  == GoogleClaim(g)
             to == [NoTask EXCEPT !.pc = "resolve", !.at = now, !.claim = c]
  <2>1. Set(t, to) /\ UNCHANGED challenges
    BY <1>4 DEF GoogleSignIn
  <2> HIDE DEF c
  <2>2. to.pc = "resolve" /\ to.look = {} /\ to.holds = {} /\ to.del = {}
    BY DEF NoTask
  <2> HIDE DEF to
  <2>3. Remembers(to)
    BY <2>2 DEF Remembers
  <2> QED
    BY <2>1, <2>2, <2>3, LockMoves
<1>5. ASSUME Resolve(t) PROVE LockInv'
  <2>1. task[t].pc = "resolve" /\ UNCHANGED challenges
    BY <1>5 DEF Resolve, Is
  <2>2. CASE Finish(t)
    BY <2>1, <2>2, LockDropped
  <2>3. ASSUME NEW pc \in {"enter", "link"}, NEW u,
               Set(t, [task[t] EXCEPT !.pc = pc, !.found = u])
        PROVE  LockInv'
    <3> DEFINE to == [task[t] EXCEPT !.pc = pc, !.found = u]
    <3>1. /\ to.pc = pc /\ to.look = task[t].look /\ to.holds = task[t].holds
          /\ to.del = task[t].del
      BY <1>1 DEF TaskType
    <3>2. Set(t, to)
      BY <2>3
    <3> HIDE DEF to
    <3>3. Remembers(to)
      BY <1>1, <2>1, <2>3, <3>1 DEF Remembers, Proven
    <3> QED
      BY <2>1, <3>1, <3>2, <3>3, LockMoves
  <2>4. CASE Set(t, [task[t] EXCEPT !.pc = "create"])
    <3> DEFINE to == [task[t] EXCEPT !.pc = "create"]
    <3>1. /\ to.pc = "create" /\ to.look = task[t].look /\ to.holds = task[t].holds
          /\ to.del = task[t].del
      BY <1>1 DEF TaskType
    <3>2. Set(t, to)
      BY <2>4
    <3> HIDE DEF to
    <3>3. Remembers(to)
      BY <1>1, <2>1, <3>1 DEF Remembers, Proven
    <3> QED
      BY <2>1, <3>1, <3>2, <3>3, LockMoves
  <2> QED
    BY <1>5, <2>2, <2>3, <2>4 DEF Resolve
<1> QED
  BY <1>2, <1>3, <1>4, <1>5

\* The commits that write codes: each writes those it holds, or adds one.
LEMMA CommitLocks ==
    ASSUME SignInConstants, SignInInv, LockInv, NEW t \in Tasks,
           SendCode(t) \/ GuessWrong(t) \/ Enter(t) \/ CreateUser(t)
    PROVE  LockInv'
<1>1. /\ task[t] \in TaskType /\ Remembers(task[t]) /\ Len(challenges) \in Nat
      /\ challenges \in [1..Len(challenges) -> Challenge]
  BY DEF SignInInv, TaskInv, LockInv, CodeInv, Counted
<1>2. CASE SendCode(t)
  <2> DEFINE new == [dest |-> task[t].dest, attempts |-> 0, wrong |-> 0,
                     expires |-> task[t].at + CodeTTL, at |-> task[t].at, consumed |-> FALSE,
                     deleted |-> FALSE]
             old == [i \in DOMAIN challenges |->
                       [challenges[i] EXCEPT !.deleted = @ \/ i \in task[t].del]]
  <2>1. Finish(t) /\ task[t].pc = "sending" /\ challenges' = Append(old, new)
        /\ Len(challenges) < MaxCodes
    BY <1>2 DEF SendCode, Is
  <2>2. \A i \in DOMAIN challenges \ task[t].del :
           /\ old[i].deleted = challenges[i].deleted /\ old[i].consumed = challenges[i].consumed
    <3> TAKE i \in DOMAIN challenges \ task[t].del
    <3>1. challenges[i] \in Challenge
      BY <1>1
    <3> QED
      BY <3>1 DEF Challenge
  <2>3. old \in Seq(Range(old)) /\ Len(old) = Len(challenges) /\ DOMAIN old = DOMAIN challenges
    <3>1. old \in [1..Len(challenges) -> Range(old)]
      BY <1>1 DEF Range
    <3> QED
      BY <1>1, <3>1
  <2> HIDE DEF old, new
  <2>4. /\ DOMAIN challenges \subseteq DOMAIN challenges' /\ Len(challenges') <= MaxCodes
        /\ \A i \in DOMAIN challenges : challenges'[i] = old[i]
    BY <1>1, <2>1, <2>3 DEF SignInConstants
  <2>5. \A i \in DOMAIN challenges \ task[t].holds : OpenCode(i) => OpenCode(i)'
    BY <1>1, <2>1, <2>2, <2>4 DEF Remembers, OpenCode
  <2> QED
    BY <2>1, <2>4, <2>5, LockEnds
<1>3. CASE GuessWrong(t)
  <2>1. /\ Finish(t) /\ task[t].code \in DOMAIN challenges
        /\ challenges' = [challenges EXCEPT ![task[t].code] = Missed(challenges[task[t].code])]
    BY <1>1, <1>3 DEF GuessWrong, Missed, Is, Remembers
  <2>2. DOMAIN challenges' = DOMAIN challenges /\ Len(challenges') = Len(challenges)
    BY <1>1, <2>1
  <2>3. ASSUME NEW i \in DOMAIN challenges
        PROVE  challenges'[i].deleted = challenges[i].deleted
               /\ challenges'[i].consumed = challenges[i].consumed
    <3>1. challenges[i] \in Challenge
      BY <1>1
    <3>2. challenges'[i] = challenges[i] \/ challenges'[i] = Missed(challenges[i])
      BY <2>1
    <3> QED
      BY <3>1, <3>2, MissedFacts
  <2>4. \A i \in DOMAIN challenges : OpenCode(i) => OpenCode(i)'
    BY <2>3 DEF OpenCode
  <2> QED
    BY <2>1, <2>2, <2>4, LockEnds DEF LockInv
<1>4. CASE Enter(t) \/ CreateUser(t)
  <2>1. Finish(t) /\ Consume(t)
    BY <1>4 DEF Enter, CreateUser
  <2>2. DOMAIN challenges' = DOMAIN challenges
    BY <2>1 DEF Consume
  <2>3. challenges' \in Seq(Challenge)
    BY <1>4, <2>1, CodeUsedUp DEF Enter, CreateUser, CodeInv, Counted
  <2>4. Len(challenges') = Len(challenges)
    BY <1>1, <2>2, <2>3
  <2>5. \A i \in DOMAIN challenges \ task[t].holds : OpenCode(i) => OpenCode(i)'
    BY <2>1 DEF Consume, OpenCode
  <2> QED
    BY <2>1, <2>2, <2>4, <2>5, LockEnds DEF LockInv
<1> QED
  BY <1>2, <1>3, <1>4

LEMMA LockSteps == ASSUME SignInConstants, SignInInv, LockInv, [Next]_vars PROVE LockInv'
<1>1. CASE UNCHANGED <<challenges, task>>
  BY <1>1 DEF LockInv, Remembers, OpenCode
<1>2. CASE CodeStep
  <2>1. ASSUME NEW t \in Tasks, TooLate(t) \/ Refuse(t) PROVE LockInv'
    BY <2>1, LockDropped DEF TooLate, Refuse
  <2> QED
    BY <1>2, <2>1, AskingLocks, TryingLocks, CommitLocks DEF CodeStep
<1>3. CASE AccountStep
  <2>1. ASSUME NEW t \in Tasks, CreateRefused(t) \/ Fail(t) PROVE LockInv'
    BY <2>1, LockDropped DEF CreateRefused, Fail
  <2>2. ASSUME NEW u \in Users, NEW e \in Emails, PatchEmail(u, e) PROVE LockInv'
    BY <1>1, <2>2 DEF PatchEmail
  <2> QED
    BY <1>3, <2>1, <2>2, TryingLocks, CommitLocks DEF AccountStep
<1>4. CASE SessionStep /\ UNCHANGED <<now, signInVars>>
  BY <1>1, <1>4 DEF signInVars
<1>5. CASE Tick
  BY <1>1, <1>5 DEF Tick, signInVars
<1>6. CASE UNCHANGED vars
  BY <1>1, <1>6 DEF vars, signInVars
<1> QED
  BY <1>2, <1>3, <1>4, <1>5, <1>6 DEF Next

LEMMA LocksAlways == ASSUME SignInConstants PROVE Spec => []LockInv
<1>1. Init => LockInv
  BY LocksStart
<1>2. SignInInv /\ LockInv /\ [Next]_vars => LockInv'
  BY LockSteps
<1> QED
  BY <1>1, <1>2, SignInAlways, PTL DEF Spec

\* A code lets its owner in once: whoever enters with one holds its row, nobody
\* has used or replaced it meanwhile, and it is used up with the session.
THEOREM CodesWorkOnce == ASSUME SignInConstants PROVE Spec => CodeWorksOnce
<1> DEFINE Once == \A t \in Tasks : Enter(t) \/ CreateUser(t) => \A i \in task[t].holds : OpenCode(i)
<1>1. LockInv /\ [Next]_vars => [Once]_vars
  BY DEF LockInv, Remembers, Proven, Enter, CreateUser, Is
<1> QED
  BY <1>1, LocksAlways, PTL DEF Spec, CodeWorksOnce

-----------------------------------------------------------------------------
(* Types, of the tables and of what requests remember.                     *)

LEMMA SessionsAlways == ASSUME SessionsConstants PROVE SessionsSpec => []SessionsInv
<1>1. now = 0 /\ SessionsInit => SessionsInv
  BY SessionsStart
<1>2. SessionsInv /\ [SessionsNext]_sVars => SessionsInv'
  BY SessionSteps
<1> QED
  BY <1>1, <1>2, PTL DEF SessionsSpec, sVars

PinsInv == now \in 0..MaxTime /\ pins \subseteq Users

\* The rows, the requests and the clock stay of their types, whatever requests
\* race (auth/src/session.rs).
THEOREM SessionsTyped == ASSUME SessionsConstants PROVE SessionsSpec => []SessionsTypeOK
<1>1. now = 0 /\ SessionsInit => PinsInv
  BY DEF SessionsInit, PinsInv, SessionsConstants
<1>2. PinsInv /\ [SessionsNext]_sVars => PinsInv'
  <2> SUFFICES ASSUME PinsInv, [SessionsNext]_sVars PROVE PinsInv'
    OBVIOUS
  <2>1. CASE UNCHANGED now /\ pins' \subseteq Users
    BY <2>1 DEF PinsInv
  <2>2. CASE SessionStep /\ UNCHANGED now
    BY <2>1, <2>2 DEF SessionStep, Refresh, Unlock, Logout, Evaluate, Decide, Rotate, DetectReuse,
                      Revoke, Rollback, SetPin, PinsInv
  <2>3. ASSUME NEW u \in Users, StartSession(u), UNCHANGED now PROVE PinsInv'
    BY <2>1, <2>3 DEF StartSession, PinsInv
  <2>4. CASE now < MaxTime /\ now' = now + 1 /\ UNCHANGED sessionVars
    BY <2>4 DEF sessionVars, PinsInv, SessionsConstants
  <2>5. CASE UNCHANGED sVars
    BY <2>1, <2>5 DEF sVars, sessionVars, PinsInv
  <2> QED
    BY <2>2, <2>3, <2>4, <2>5 DEF SessionsNext
<1>3. SessionsInv /\ PinsInv => SessionsTypeOK
  BY DEF SessionsInv, RequestType, PinsInv, SessionsTypeOK
<1> QED
  BY <1>1, <1>2, <1>3, SessionsAlways, PTL DEF SessionsSpec, sVars

LEMMA ClaimsType == ASSUME SignInConstants PROVE Claims \subseteq Claim
<1>1. ASSUME NEW d \in Dests PROVE OtpClaim(d) \in Claim
  BY DEF OtpClaim, Claim, Dests
<1>2. ASSUME NEW g \in Accounts PROVE GoogleClaim(g) \in Claim
  <2>1. GoogleEmail[g] \in Emails \cup {None}
    BY <1>2 DEF SignInConstants
  <2> QED
    BY <1>2, <2>1 DEF GoogleClaim, Claim
<1> QED
  BY <1>1, <1>2 DEF Claims

LEMMA SignInTypes ==
    ASSUME SignInConstants, SignInInv, LockInv, patches <= MaxPatches PROVE SignInTypeOK
<1>1. /\ challenges \in Seq(Challenge) /\ Len(challenges) <= MaxCodes
      /\ DOMAIN challenges \subseteq CodeIds
  BY DEF SignInInv, CodeInv, Counted, LockInv, CodeIds, SignInConstants
<1>2. users \in [Users -> UserType] /\ identities \subseteq Identity /\ patches \in 0..MaxPatches
  BY ClaimsType DEF SignInInv, LinkInv, Identity, SignInConstants
<1>3. ASSUME NEW t \in Tasks
      PROVE  /\ task[t] \in TaskType
             /\ task[t].holds \cup task[t].del \subseteq CodeIds
  BY <1>1, <1>3 DEF SignInInv, TaskInv, LockInv, Remembers
<1> QED
  BY <1>1, <1>2, <1>3 DEF SignInTypeOK, TaskType, UserType

\* The tables and the requests of signing in stay of their types, and what a
\* request remembers of a code is a row of the table (auth_routes.rs).
THEOREM SignInTyped == ASSUME SessionsConstants, SignInConstants PROVE Spec => []TypeOK
<1>1. Init => patches <= MaxPatches
  BY DEF Init, SignInInit, SignInConstants
<1>2. SignInInv /\ patches <= MaxPatches /\ [Next]_vars => (patches <= MaxPatches)'
  <2> SUFFICES ASSUME SignInInv, patches <= MaxPatches, [Next]_vars PROVE patches' <= MaxPatches
    OBVIOUS
  <2>1. patches \in Nat /\ MaxPatches \in Nat
    BY DEF SignInInv, LinkInv, SignInConstants
  <2>2. patches' = patches \/ (patches' = patches + 1 /\ patches < MaxPatches)
    <3>1. CASE CodeStep
      BY <3>1 DEF CodeStep, RequestOtp, VerifyOtp, LookLatest, DeleteBegins, DeleteEnds,
                  InsertChallenge, SendCode, TooLate, Refuse, GuessWrong, GuessRight, accountVars
    <3>2. CASE AccountStep
      BY <3>2 DEF AccountStep, GoogleSignIn, Resolve, Enter, CreateUser, CreateRefused, Fail,
                  PatchEmail, accountVars
    <3>3. CASE UNCHANGED signInVars
      BY <3>3 DEF signInVars, accountVars
    <3>4. CASE SessionStep /\ UNCHANGED <<now, signInVars>>
      BY <3>3, <3>4
    <3>5. CASE Tick \/ UNCHANGED vars
      BY <3>3, <3>5 DEF Tick, vars
    <3> QED
      BY <3>1, <3>2, <3>4, <3>5, Zenon DEF Next
  <2> QED
    BY <2>1, <2>2
<1>3. SignInInv /\ LockInv /\ patches <= MaxPatches => SignInTypeOK
  BY SignInTypes
<1> QED
  BY <1>1, <1>2, <1>3, SignInAlways, LocksAlways, SessionsRefined, SessionsTyped, PTL DEF Spec, TypeOK

-----------------------------------------------------------------------------
(* GoogleKeys. A set counts as fetched when it is stored, so a withdrawn   *)
(* key in the cache may look younger than its withdrawal, but by no more   *)
(* than a fetch can last.                                                  *)

SiteType ==
    [pc : {"idle", "fetch", "store"}, kid : Keyids \cup Forged \cup {NoKey},
     got : SUBSET Keyids, at : Nat]

\* A request is younger than the timeout, and a set it brings back was
\* published after it was sent.
InTime(s) ==
    site[s].pc # "idle" =>
        /\ site[s].at <= instant /\ instant <= site[s].at + FetchTTL
        /\ \A k \in site[s].got \ published : site[s].at <= withdrawn[k]

KeysInv ==
    /\ instant \in Nat /\ oldest \in Nat
    /\ published \subseteq Keyids
    /\ withdrawn \in [Keyids -> Nat]
    /\ \A k \in Keyids : withdrawn[k] <= instant
    /\ cache \in [filled : BOOLEAN, keys : SUBSET Keyids, at : Nat]
    /\ cache.at <= instant
    /\ site \in [Sites -> SiteType]
    /\ \A s \in Sites : InTime(s)
    /\ \A k \in cache.keys \ published : cache.at <= withdrawn[k] + FetchTTL
    /\ WithdrawnKeyFades

-----------------------------------------------------------------------------
LEMMA NoRequestType == NoKeyRequest \in SiteType /\ NoKeyRequest.pc = "idle"
BY DEF NoKeyRequest, SiteType

LEMMA KeysStart == ASSUME GoogleKeysConstants, GoogleKeysInit PROVE KeysInv
BY NoRequestType DEF GoogleKeysConstants, GoogleKeysInit, KeysInv, InTime, WithdrawnKeyFades

\* Accepting a key within the bound keeps the bound.
LEMMA AcceptedInTime ==
    ASSUME GoogleKeysConstants, KeysInv, NEW k \in Keyids, Answered200(k),
           k \notin published => instant - withdrawn[k] <= CacheTTL + FetchTTL
    PROVE  oldest' \in Nat /\ oldest' <= CacheTTL + FetchTTL
BY DEF GoogleKeysConstants, KeysInv, Answered200, WithdrawnKeyFades

LEMMA KeysSteps ==
    ASSUME GoogleKeysConstants, KeysInv, [GoogleKeysNext]_keyVars
    PROVE  KeysInv'
<1> USE DEF GoogleKeysConstants
<1>1. CASE UNCHANGED keyVars
  BY <1>1 DEF keyVars, KeysInv, InTime, WithdrawnKeyFades
<1>2. ASSUME NEW s \in Sites, NEW k \in Keyids, KeyCached(s, k) PROVE KeysInv'
  <2>1. k \notin published => instant - withdrawn[k] <= CacheTTL + FetchTTL
    BY <1>2 DEF KeyCached, CacheFresh, Age, KeysInv
  <2>2. oldest' \in Nat /\ oldest' <= CacheTTL + FetchTTL
    BY <1>2, <2>1, AcceptedInTime DEF KeyCached
  <2> QED
    BY <1>2, <2>2 DEF KeyCached, KeysInv, InTime, WithdrawnKeyFades
<1>3. ASSUME NEW s \in Sites, NEW k \in Keyids \cup Forged, KeyUnknown(s, k) PROVE KeysInv'
  <2> DEFINE asked == [NoKeyRequest EXCEPT !.pc = "fetch", !.kid = k, !.at = instant]
  <2>1. /\ asked \in SiteType
        /\ asked.at = instant /\ asked.got = {}
    BY DEF NoKeyRequest, SiteType, KeysInv
  <2>2. /\ site' = [site EXCEPT ![s] = asked]
        /\ UNCHANGED <<instant, published, withdrawn, cache, oldest>>
    BY <1>3 DEF KeyUnknown
  <2> HIDE DEF asked
  <2> QED
    BY <1>3, <2>1, <2>2 DEF KeysInv, InTime, WithdrawnKeyFades
<1>4. ASSUME NEW s \in Sites, Fetch(s) PROVE KeysInv'
  <2> DEFINE row == [site[s] EXCEPT !.pc = "store", !.got = published]
  <2>1. /\ site[s].pc = "fetch"
        /\ site' = [site EXCEPT ![s] = row]
        /\ UNCHANGED <<instant, published, withdrawn, cache, oldest>>
    BY <1>4 DEF Fetch
  <2>2. row \in SiteType /\ row.at = site[s].at /\ row.got = published
    BY DEF SiteType, KeysInv
  <2> HIDE DEF row
  <2> QED
    BY <1>4, <2>1, <2>2 DEF KeysInv, InTime, WithdrawnKeyFades
<1>5. ASSUME NEW s \in Sites, FetchFails(s) PROVE KeysInv'
  BY <1>5, NoRequestType DEF FetchFails, KeysInv, InTime, WithdrawnKeyFades
<1>6. ASSUME NEW s \in Sites, Store(s) PROVE KeysInv'
  <2>1. /\ site[s].got \subseteq Keyids
        /\ site[s].at <= instant /\ instant <= site[s].at + FetchTTL
        /\ \A k \in site[s].got \ published : site[s].at <= withdrawn[k]
        /\ site[s].at \in Nat
    BY <1>6 DEF Store, KeysInv, InTime, SiteType
  <2>2. oldest' \in Nat /\ oldest' <= CacheTTL + FetchTTL
    <3>1. CASE site[s].kid \in site[s].got
      BY <1>6, <2>1, <3>1, AcceptedInTime DEF Store, KeysInv
    <3>2. CASE site[s].kid \notin site[s].got
      BY <1>6, <3>2 DEF Store, KeysInv, WithdrawnKeyFades
    <3> QED
      BY <3>1, <3>2
  <2>3. /\ cache' = [filled |-> TRUE, keys |-> site[s].got, at |-> instant]
        /\ site' = [site EXCEPT ![s] = NoKeyRequest]
        /\ UNCHANGED <<instant, published, withdrawn>>
    BY <1>6 DEF Store
  <2>4. \A k \in cache'.keys \ published' : cache'.at <= withdrawn'[k] + FetchTTL
    BY <2>1, <2>3 DEF KeysInv
  <2> QED
    BY <1>6, <2>1, <2>2, <2>3, <2>4, NoRequestType DEF KeysInv, InTime, WithdrawnKeyFades
<1>7. ASSUME NEW k \in Keyids, Withdraw(k) PROVE KeysInv'
  BY <1>7 DEF Withdraw, KeysInv, InTime, WithdrawnKeyFades, SiteType
<1>8. CASE KeyTime
  BY <1>8 DEF KeyTime, KeysInv, InTime, WithdrawnKeyFades, SiteType
<1> QED
  BY <1>1, <1>2, <1>3, <1>4, <1>5, <1>6, <1>7, <1>8 DEF GoogleKeysNext

-----------------------------------------------------------------------------
\* A key Google withdrew is accepted for at most the life of a cached set and of
\* one fetch, however many sign-ins fetch at once and in whatever order their
\* answers are stored (decoding_key, fetch).
THEOREM WithdrawnFades == ASSUME GoogleKeysConstants PROVE GoogleKeysSpec => []WithdrawnKeyFades
<1>1. GoogleKeysInit => KeysInv
  BY KeysStart
<1>2. KeysInv /\ [GoogleKeysNext]_keyVars => KeysInv'
  BY KeysSteps
<1>3. KeysInv => WithdrawnKeyFades
  BY DEF KeysInv
<1> QED
  BY <1>1, <1>2, <1>3, PTL DEF GoogleKeysSpec

-----------------------------------------------------------------------------
(* The types of the cache: no instant in it is later than the clock.       *)

KeyBounds == instant <= LastInstant /\ oldest <= instant

LEMMA KeysBounded ==
    ASSUME GoogleKeysConstants, KeysInv, KeyBounds, [GoogleKeysNext]_keyVars
    PROVE  KeyBounds'
<1> USE DEF KeyBounds
<1>1. instant \in Nat /\ oldest \in Nat /\ withdrawn \in [Keyids -> Nat] /\ LastInstant \in Nat
  BY DEF KeysInv, GoogleKeysConstants
<1>2. ASSUME NEW k \in Keyids, Answered200(k) PROVE oldest' <= instant
  BY <1>1, <1>2 DEF Answered200
<1>3. CASE UNCHANGED <<instant, oldest>>
  BY <1>3
<1>4. ASSUME NEW s \in Sites, NEW k \in Keyids, KeyCached(s, k) PROVE KeyBounds'
  BY <1>2, <1>4 DEF KeyCached
<1>5. ASSUME NEW s \in Sites, Store(s) PROVE KeyBounds'
  <2>1. site[s].got \subseteq Keyids
    BY DEF KeysInv, SiteType
  <2> QED
    BY <1>2, <1>3, <1>5, <2>1 DEF Store
<1>6. CASE KeyTime
  BY <1>1, <1>6 DEF KeyTime
<1> QED
  BY <1>3, <1>4, <1>5, <1>6 DEF GoogleKeysNext, keyVars, KeyUnknown, Fetch, FetchFails, Withdraw

\* The cache keeps its types, for any keys, sign-ins, time-outs and clock.
THEOREM KeysTyped == ASSUME GoogleKeysConstants PROVE GoogleKeysSpec => []GoogleKeysTypeOK
<1>1. GoogleKeysInit => KeysInv /\ KeyBounds
  BY KeysStart DEF GoogleKeysInit, KeyBounds, GoogleKeysConstants
<1>2. KeysInv /\ KeyBounds /\ [GoogleKeysNext]_keyVars => KeysInv' /\ KeyBounds'
  BY KeysSteps, KeysBounded
<1>3. KeysInv /\ KeyBounds => GoogleKeysTypeOK
  <2> SUFFICES ASSUME KeysInv, KeyBounds PROVE GoogleKeysTypeOK
    OBVIOUS
  <2>1. /\ instant \in 0..LastInstant /\ oldest \in 0..LastInstant
        /\ \A n \in Nat : n <= instant => n \in 0..LastInstant
    BY DEF KeysInv, KeyBounds, GoogleKeysConstants
  <2>2. withdrawn \in [Keyids -> 0..LastInstant]
    BY <2>1 DEF KeysInv
  <2>3. cache \in [filled : BOOLEAN, keys : SUBSET Keyids, at : 0..LastInstant]
    BY <2>1 DEF KeysInv
  <2> QED
    BY <2>1, <2>2, <2>3 DEF KeysInv, SiteType, KeyRequest, GoogleKeysTypeOK
<1> QED
  BY <1>1, <1>2, <1>3, PTL DEF GoogleKeysSpec
===============================================================================
