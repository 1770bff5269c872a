-------------------------------- MODULE SignIn --------------------------------
(***************************************************************************)
(* Signing in (auth_routes.rs, auth/src/otp.rs, identity.rs, oidc.rs): a   *)
(* one-time code is sent to a destination and tried, or Google vouches for *)
(* an account; the proven channel is resolved to a user, who is created if *)
(* nobody has it; a session starts.  The transactions of request_otp and   *)
(* verify_otp are taken apart at every row they may wait for (Sessions     *)
(* says how Postgres reads and waits).                                     *)
(***************************************************************************)
EXTENDS Sessions

CONSTANTS Emails,         \* addresses
          Phones,         \* numbers; a code is sent to either
          Accounts,       \* Google accounts
          GoogleEmail,    \* the address in each one's token, None if unverified
          Allowed,        \* google_allowed_emails; {} opens the door to everybody
          Tasks,          \* requests to sign in that are in flight at once
          None,
          Cooldown,       \* RESEND_COOLDOWN_SECONDS
          CodeTTL,        \* OTP_TTL_MINUTES
          MaxAttempts,    \* MAX_ATTEMPTS
          MaxCodes,       \* bound: challenges
          MaxEntries,     \* bound: sign-ins
          MaxPatches      \* bound: profiles changed

Dests == Emails \cup Phones

ASSUME SignInConstants ==
    /\ Dests # {} /\ Emails \cap Phones = {}
    /\ None \notin Dests \cup Users \cup Accounts
    /\ GoogleEmail \in [Accounts -> Emails \cup {None}] /\ Allowed \subseteq Emails
    /\ Cooldown \in Nat /\ CodeTTL \in Nat /\ MaxAttempts \in Nat
    /\ MaxCodes \in Nat /\ MaxEntries \in Nat /\ MaxPatches \in Nat

VARIABLES challenges,     \* otp_challenges, in the order they were committed
          users,          \* phone and email of each user
          identities,
          task,
          patches

accountVars == <<users, identities, patches>>
signInVars  == <<challenges, accountVars, task>>
vars        == <<now, sessionVars, signInVars>>

CodeIds == 1..MaxCodes

Challenge == [dest : Dests, attempts : Nat, wrong : Nat, expires : Nat, at : Nat,
              consumed : BOOLEAN, deleted : BOOLEAN]

\* IdentityClaim, and the identities row made of it.
Claim    == [provider : {"phone", "email", "google"}, subject : Dests \cup Accounts,
             email : Emails \cup {None}, phone : Phones \cup {None}]
Identity == [claim : Claim, user : Users]

\* IdentityClaim::from_verified_otp: a code proves the channel it went to.
OtpClaim(d) ==
    [provider |-> IF d \in Phones THEN "phone" ELSE "email", subject |-> d,
     email |-> IF d \in Emails THEN d ELSE None,
     phone |-> IF d \in Phones THEN d ELSE None]

\* claims_to_identity: an address Google did not verify is no evidence.
GoogleClaim(g) ==
    [provider |-> "google", subject |-> g, email |-> GoogleEmail[g], phone |-> None]

Claims == {OtpClaim(d) : d \in Dests} \cup {GoogleClaim(g) : g \in Accounts}

NoUser == [exists |-> FALSE, phone |-> None, email |-> None]

\* A request: its time, the destination it is about, the rows it has yet to
\* look at, those it holds locked, those its DELETE began with, its claim and
\* the user that claim was resolved to.
NoTask == [pc |-> "idle", at |-> 0, dest |-> None, look |-> {}, holds |-> {}, del |-> {},
           code |-> 0, claim |-> OtpClaim(CHOOSE d \in Dests : TRUE), found |-> None]

SignInTypeOK ==
    /\ challenges \in Seq(Challenge) /\ Len(challenges) <= MaxCodes
    /\ users \in [Users -> [exists : BOOLEAN, phone : Phones \cup {None},
                            email : Emails \cup {None}]]
    /\ identities \subseteq Identity
    /\ \A t \in Tasks :
          /\ task[t].pc \in {"idle", "look", "delete", "deleting", "insert", "sending",
                             "try", "resolve", "enter", "link", "create"}
          /\ task[t].dest \in Dests \cup {None}
          /\ task[t].holds \cup task[t].del \subseteq CodeIds
          /\ task[t].claim \in Claims
          /\ task[t].found \in Users \cup {None}
    /\ patches \in 0..MaxPatches

TypeOK == SessionsTypeOK /\ SignInTypeOK

SignInInit ==
    /\ challenges = <<>>
    /\ users = [u \in Users |-> NoUser]
    /\ identities = {}
    /\ task = [t \in Tasks |-> NoTask]
    /\ patches = 0

Init == now = 0 /\ SessionsInit /\ SignInInit

Set(t, rec) == task' = [task EXCEPT ![t] = rec]
Finish(t)   == Set(t, NoTask)
Is(t, pc)   == task[t].pc = pc

\* Another transaction has the challenge locked.
Taken(t, i) == \E s \in Tasks \ {t} : i \in task[s].holds

OfDest(d) == {i \in DOMAIN challenges : challenges[i].dest = d /\ ~challenges[i].deleted}
Pending(d) == {i \in OfDest(d) : ~challenges[i].consumed}

-----------------------------------------------------------------------------
(* request_otp.                                                            *)

\* SELECT last_sent_at ... ORDER BY last_sent_at DESC LIMIT 1 FOR UPDATE, begun.
RequestOtp(t, d) ==
    /\ Is(t, "idle")
    /\ Set(t, [NoTask EXCEPT !.pc = "look", !.at = now, !.dest = d, !.look = OfDest(d)])
    /\ UNCHANGED <<now, sessionVars, challenges, accountVars>>

Newer(i, j) == \/ challenges[i].at > challenges[j].at
               \/ challenges[i].at = challenges[j].at /\ i > j

\* The latest of those that still exists once nobody holds it; it is locked, and
\* refuses the request while it is recent.
LookLatest(t) ==
    /\ Is(t, "look")
    /\ \/ /\ task[t].look = {}
          /\ Set(t, [task[t] EXCEPT !.pc = "delete"])
       \/ \E i \in task[t].look :
            /\ \A j \in task[t].look \ {i} : Newer(i, j)
            /\ ~Taken(t, i)
            /\ IF challenges[i].deleted
               THEN Set(t, [task[t] EXCEPT !.look = @ \ {i}])
               ELSE IF task[t].at - challenges[i].at < Cooldown
               THEN Finish(t)
               ELSE Set(t, [task[t] EXCEPT !.pc = "delete", !.look = {}, !.holds = {i}])
    /\ UNCHANGED <<now, sessionVars, challenges, accountVars>>

\* DELETE ... WHERE consumed_at IS NULL, begun.
DeleteBegins(t) ==
    /\ Is(t, "delete")
    /\ Set(t, [task[t] EXCEPT !.pc = "deleting", !.del = Pending(task[t].dest)])
    /\ UNCHANGED <<now, sessionVars, challenges, accountVars>>

\* It has waited for the rows it began with, and has those that are still live.
DeleteEnds(t) ==
    LET gone == task[t].del \cap Pending(task[t].dest)
    IN /\ Is(t, "deleting")
       /\ \A i \in task[t].del : ~Taken(t, i)
       /\ Set(t, [task[t] EXCEPT !.pc = "insert", !.del = gone, !.holds = @ \cup gone])
       /\ UNCHANGED <<now, sessionVars, challenges, accountVars>>

InsertUnindexed(t) ==
    /\ Is(t, "insert")
    /\ Set(t, [task[t] EXCEPT !.pc = "sending"])
    /\ UNCHANGED <<now, sessionVars, challenges, accountVars>>

\* The INSERT waits for whoever may make or unmake a live challenge of this
\* destination (otp_one_live_per_destination), and fails if there is one.
InsertChallenge(t) ==
    LET others == Pending(task[t].dest) \ task[t].del
    IN /\ Is(t, "insert")
       /\ \A s \in Tasks \ {t} : ~(Is(s, "sending") /\ task[s].dest = task[t].dest)
       /\ \A i \in others : ~Taken(t, i)
       /\ IF others = {} THEN Set(t, [task[t] EXCEPT !.pc = "sending"]) ELSE Finish(t)
       /\ UNCHANGED <<now, sessionVars, challenges, accountVars>>

\* The message goes out and the transaction commits after it.
SendCode(t) ==
    LET d == task[t].dest
    IN /\ Is(t, "sending")
       /\ Len(challenges) < MaxCodes
       /\ challenges' =
            Append([i \in DOMAIN challenges |->
                       [challenges[i] EXCEPT !.deleted = @ \/ i \in task[t].del]],
                   [dest |-> d, attempts |-> 0, wrong |-> 0, expires |-> task[t].at + CodeTTL,
                    at |-> task[t].at, consumed |-> FALSE, deleted |-> FALSE])
       /\ Finish(t)
       /\ UNCHANGED <<now, sessionVars, accountVars>>

-----------------------------------------------------------------------------
(* verify_otp.                                                             *)

\* SELECT ... WHERE consumed_at IS NULL FOR UPDATE, begun.
VerifyOtp(t, d) ==
    /\ Is(t, "idle")
    /\ \E i \in Pending(d) :
          Set(t, [NoTask EXCEPT !.pc = "try", !.at = now, !.dest = d, !.code = i])
    /\ UNCHANGED <<now, sessionVars, challenges, accountVars>>

\* The row was replaced or used while the request waited: OtpExpired.
TooLate(t) ==
    LET i == task[t].code
    IN /\ Is(t, "try")
       /\ ~Taken(t, i)
       /\ challenges[i].deleted \/ challenges[i].consumed
       /\ Finish(t)
       /\ UNCHANGED <<now, sessionVars, challenges, accountVars>>

Usable(t, c) == /\ ~c.deleted /\ ~c.consumed
                /\ task[t].at <= c.expires
                /\ c.attempts < MaxAttempts

\* OtpChallenge::verify refuses before it compares.
Refuse(t) ==
    LET c == challenges[task[t].code]
    IN /\ Is(t, "try")
       /\ ~Taken(t, task[t].code)
       /\ ~c.deleted /\ ~c.consumed /\ ~Usable(t, c)
       /\ Finish(t)
       /\ UNCHANGED <<now, sessionVars, challenges, accountVars>>

GuessForgotten(t) ==
    LET c == challenges[task[t].code]
    IN /\ Is(t, "try")
       /\ ~Taken(t, task[t].code)
       /\ Usable(t, c)
       /\ challenges' = [challenges EXCEPT ![task[t].code].wrong = @ + 1]
       /\ Finish(t)
       /\ UNCHANGED <<now, sessionVars, accountVars>>

\* A wrong code: the attempt is committed.  "wrong" counts the comparisons.
GuessWrong(t) ==
    LET c == challenges[task[t].code]
    IN /\ Is(t, "try")
       /\ ~Taken(t, task[t].code)
       /\ Usable(t, c)
       /\ challenges' = [challenges EXCEPT ![task[t].code].attempts = @ + 1,
                                           ![task[t].code].wrong = @ + 1]
       /\ Finish(t)
       /\ UNCHANGED <<now, sessionVars, accountVars>>

\* The right one: the row stays locked until the session is there.
GuessRight(t) ==
    /\ Is(t, "try")
    /\ ~Taken(t, task[t].code)
    /\ Usable(t, challenges[task[t].code])
    /\ Set(t, [task[t] EXCEPT !.pc = "resolve", !.holds = {task[t].code},
                 !.claim = OtpClaim(task[t].dest)])
    /\ UNCHANGED <<now, sessionVars, challenges, accountVars>>

\* google_sign_in: the token was verified and its claims converted; only an
\* address Google verified can be on the list.
GoogleSignIn(t, g) ==
    /\ Is(t, "idle")
    /\ Allowed = {} \/ GoogleClaim(g).email \in Allowed
    /\ Set(t, [NoTask EXCEPT !.pc = "resolve", !.at = now, !.claim = GoogleClaim(g)])
    /\ UNCHANGED <<now, sessionVars, challenges, accountVars>>

-----------------------------------------------------------------------------
(* Whose channel it is.                                                    *)

SameKey(i, c) == i.claim.provider = c.provider /\ i.claim.subject = c.subject

ByProfile(c) == IF c.email = None THEN {} ELSE {u \in Users : users[u].email = c.email}

\* lookup_matches.
BySubject(c) == {i.user : i \in {i \in identities : SameKey(i, c)}}

ByEmail(c) == IF c.email = None THEN {}
              ELSE {i.user : i \in {i \in identities : i.claim.email = c.email}}

ByPhone(c) == IF c.phone = None THEN {}
              ELSE {i.user : i \in {i \in identities : i.claim.phone = c.phone}}

\* resolve: the identity itself, else a verified channel of somebody's, else
\* nobody; two different people are a conflict.
Resolve(t) ==
    LET c == task[t].claim
        channels == ByEmail(c) \cup ByPhone(c)
    IN /\ Is(t, "resolve")
       /\ \/ \E u \in BySubject(c) : Set(t, [task[t] EXCEPT !.pc = "enter", !.found = u])
          \/ /\ BySubject(c) = {}
             /\ \/ \E u \in channels : /\ \A v \in ByEmail(c), w \in ByPhone(c) : v = w
                                       /\ Set(t, [task[t] EXCEPT !.pc = "link", !.found = u])
                \/ \E v \in ByEmail(c), w \in ByPhone(c) : v # w /\ Finish(t)
                \/ channels = {} /\ Set(t, [task[t] EXCEPT !.pc = "create"])
       /\ UNCHANGED <<now, sessionVars, challenges, accountVars>>

\* attach_identity: ON CONFLICT (provider, subject) DO NOTHING.
Attach(u, c) ==
    identities' = IF BySubject(c) = {} THEN identities \cup {[claim |-> c, user |-> u]}
                  ELSE identities

\* With the session the code is used up.
Consume(t) ==
    challenges' = [i \in DOMAIN challenges |->
                     IF i \in task[t].holds
                     THEN [challenges[i] EXCEPT !.consumed = TRUE, !.attempts = @ + 1]
                     ELSE challenges[i]]

\* The rest of the transaction for a user who was found.
Enter(t) ==
    LET u == task[t].found
    IN /\ task[t].pc \in {"enter", "link"}
       /\ Len(sessions) < MaxEntries
       /\ IF Is(t, "link") THEN Attach(u, task[t].claim) ELSE UNCHANGED identities
       /\ Consume(t)
       /\ StartSession(u)
       /\ Finish(t)
       /\ UNCHANGED <<now, users, patches>>

InsertableTwice(c) == TRUE

\* users.phone and users.email are UNIQUE, and one of them must be there.
Insertable(c) ==
    /\ c.phone # None \/ c.email # None
    /\ \A u \in Users : /\ c.phone # None => users[u].phone # c.phone
                        /\ c.email # None => users[u].email # c.email

\* create_user: the user, the identity and the wallets in one transaction.
CreateUser(t) ==
    LET c == task[t].claim
    IN /\ Is(t, "create")
       /\ Len(sessions) < MaxEntries
       /\ Insertable(c)
       /\ \E u \in Users :
             /\ ~users[u].exists
             /\ users' = [users EXCEPT ![u] = [exists |-> TRUE, phone |-> c.phone,
                                               email |-> c.email]]
             /\ Attach(u, c)
             /\ StartSession(u)
       /\ Consume(t)
       /\ Finish(t)
       /\ UNCHANGED <<now, patches>>

\* A unique column refused the user; the transaction is rolled back, and with
\* it the attempt and the consumption of the code.
CreateRefused(t) ==
    /\ Is(t, "create")
    /\ ~Insertable(task[t].claim)
    /\ Finish(t)
    /\ UNCHANGED <<now, sessionVars, challenges, accountVars>>

\* A send, the signer or the connection failed: rolled back.
Fail(t) ==
    /\ ~Is(t, "idle")
    /\ Finish(t)
    /\ UNCHANGED <<now, sessionVars, challenges, accountVars>>

\* update_me: the address of a profile, proven or not.
PatchEmail(u, e) ==
    /\ patches < MaxPatches
    /\ users[u].exists
    /\ \A v \in Users \ {u} : users[v].email # e
    /\ users' = [users EXCEPT ![u].email = e]
    /\ patches' = patches + 1
    /\ UNCHANGED <<now, sessionVars, challenges, identities, task>>

Tick ==
    /\ now < MaxTime
    /\ now' = now + 1
    /\ UNCHANGED <<sessionVars, signInVars>>

CodeStep ==
    \/ \E t \in Tasks, d \in Dests : RequestOtp(t, d) \/ VerifyOtp(t, d)
    \/ \E t \in Tasks :
          \/ LookLatest(t) \/ DeleteBegins(t) \/ DeleteEnds(t) \/ InsertChallenge(t) \/ SendCode(t)
          \/ TooLate(t) \/ Refuse(t) \/ GuessWrong(t) \/ GuessRight(t)

AccountStep ==
    \/ \E t \in Tasks, g \in Accounts : GoogleSignIn(t, g)
    \/ \E t \in Tasks : Resolve(t) \/ Enter(t) \/ CreateUser(t) \/ CreateRefused(t) \/ Fail(t)
    \/ \E u \in Users, e \in Emails : PatchEmail(u, e)

Next ==
    \/ CodeStep
    \/ AccountStep
    \/ SessionStep /\ UNCHANGED <<now, signInVars>>
    \/ Tick

Spec == Init /\ [][Next]_vars

-----------------------------------------------------------------------------
(* Properties.                                                             *)

\* A code of six digits is compared with at most MAX_ATTEMPTS wrong ones,
\* however many requests try it at once (verify_otp: the row is locked and the
\* attempt committed "even on failure").
GuessesBounded == \A i \in DOMAIN challenges : challenges[i].wrong <= MaxAttempts

\* "one live challenge per destination" (auth_routes.rs, the partial index): an
\* old code never works alongside a new one.
OneLiveCode == \A d \in Dests : Cardinality(Pending(d)) <= 1

\* One person has one account: everybody who proved an address or a number
\* proved it for the same user (lookup_matches, users.email UNIQUE), as long as
\* no profile is edited: an address taken off a new user's profile while a second
\* request of its owner is past lookup_matches no longer stops that one.
OneUserPerChannel ==
    patches = 0 =>
    \A i, j \in identities :
        (\/ i.claim.email # None /\ i.claim.email = j.claim.email
         \/ i.claim.phone # None /\ i.claim.phone = j.claim.phone)
        => i.user = j.user

\* An address somebody only typed into a profile links nobody: all that proved
\* themselves to be one user proved the same channel ("Step 2 never consults
\* unverified data", identity.rs; users.email is free to change in update_me).
LinkedByProof ==
    \A i, j \in identities :
        i.user = j.user => i.claim.email = j.claim.email /\ i.claim.phone = j.claim.phone
===============================================================================
