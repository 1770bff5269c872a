------------------------------ MODULE MCAccounts ------------------------------
(* The parts of the API that are about people.  They share no state, so an   *)
(* instance explores them side by side: `part' says which one moves.         *)
EXTENDS SignIn, GoogleKeys, Operators, Reviews, Payees, TLC

CONSTANTS u1, u2, t1, t2, k1, k2,
          mail, tel, goog,    \* addresses, also numbers of accounts
          ann, ben,           \* staff, also names of holders
          ord

\* Of the desk, "seats" is explored with no action on an order and "operators"
\* with no wrong code.
VARIABLE part

\* One address, known to Google as well.
OneAddress == [x \in Accounts |-> mail]

allVars == <<part, vars, keyVars, operatorVars, reviewVars, payeeVars>>

AllInit ==
    /\ part \in {"sign in", "sessions", "google keys", "seats", "operators", "reviews", "payees"}
    /\ Init
    /\ GoogleKeysInit
    /\ OperatorsInit
    /\ IF part = "reviews" THEN ReviewsInit
       ELSE ReviewsInit /\ ~auto /\ rate = CHOOSE r \in Rates : TRUE
    /\ PayeesInit /\ holder = [n \in Numbers |-> ann]

Others(some) == UNCHANGED <<part, some>>

AllNext ==
    \/ part = "sign in" /\ (CodeStep \/ AccountStep \/ Tick)
       /\ Others(<<keyVars, operatorVars, reviewVars, payeeVars>>)
    \/ part = "sessions" /\ SessionsNext
       /\ Others(<<signInVars, keyVars, operatorVars, reviewVars, payeeVars>>)
    \/ part = "google keys" /\ GoogleKeysNext /\ Others(<<vars, operatorVars, reviewVars, payeeVars>>)
    \/ /\ part = "seats" /\ OperatorsNext /\ UNCHANGED cases
       /\ Others(<<vars, keyVars, reviewVars, payeeVars>>)
    \/ /\ part = "operators" /\ OperatorsNext /\ \A e \in Staff : failures'[e] = {}
       /\ Others(<<vars, keyVars, reviewVars, payeeVars>>)
    \/ part = "reviews" /\ ReviewsNext /\ Others(<<vars, keyVars, operatorVars, payeeVars>>)
    \/ part = "payees" /\ PayeesNext /\ Others(<<vars, keyVars, operatorVars, reviewVars>>)

AllSpec == AllInit /\ [][AllNext]_allVars

AllTypeOK == TypeOK /\ GoogleKeysTypeOK /\ OperatorsTypeOK /\ ReviewsTypeOK
             /\ PayeesTypeOK

\* Whatever a part's requests are called, they may change places.
Actors == Permutations(Tasks)
===============================================================================
