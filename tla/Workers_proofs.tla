---------------------------- MODULE Workers_proofs ----------------------------
(***************************************************************************)
(* Proofs about the background work: Ledger, AlertOutbox, TronWatcher and  *)
(* LogScan, for any accounts, journals, posters, loops, transfers, times,  *)
(* endpoints and windows; at the end, about all parts side by side         *)
(* (MCWorkers).                                                            *)
(***************************************************************************)
EXTENDS Shop_proofs, MCWorkers

-----------------------------------------------------------------------------
(* Ledger. What an unfinished transaction may rely on (Prepared) is        *)
(* inductive together with the fact that one key has one inserter at a     *)
(* time (OneInserter).                                                     *)

PosterType == [pc : {"rest", "insert", "entries", "replay"}, key : EventKeys,
               draft : Journal \cup {Missing}, inserted : Nat]

\* What poster p has made sure of.
Prepared(p) ==
    /\ posting[p].pc # "rest" => posting[p].draft \in Journal /\ Sound(posting[p].draft)
    /\ posting[p].pc = "entries" => journals[posting[p].key] = Missing
    /\ posting[p].pc = "replay" => journals[posting[p].key] # Missing

\* The unique key: one transaction at a time has inserted it and not ended.
OneInserter ==
    \A p, q \in Posters :
        /\ posting[p].pc = "entries" /\ posting[q].pc = "entries"
        /\ posting[p].key = posting[q].key
        => p = q

LedgerInv ==
    /\ LedgerTypeOK
    /\ \A p \in Posters : Prepared(p)
    /\ OneInserter
    /\ AnswerStands

-----------------------------------------------------------------------------
LEMMA MissingIsNone == Missing \notin Journal
BY DEF Missing, Journal, JournalKinds, CustodyOnly

LEMMA RestType ==
    ASSUME LedgerConstants
    PROVE  NotPosting \in PosterType /\ NotPosting.pc = "rest"
<1>1. (CHOOSE k \in EventKeys : TRUE) \in EventKeys
  BY DEF LedgerConstants
<1> QED
  BY <1>1 DEF NotPosting, PosterType

\* A transaction that inserted all of its entries commits its draft.
LEMMA WholeJournal ==
    ASSUME NEW draft \in Journal
    PROVE  [draft EXCEPT !.entries = SubSeq(@, 1, Len(draft.entries))] = draft
<1>1. draft.entries \in Seq(Entry)
  BY DEF Journal
<1>2. SubSeq(draft.entries, 1, Len(draft.entries)) = draft.entries
  BY <1>1
<1> QED
  BY <1>2 DEF Journal

\* A step that leaves the journals alone and moves one poster keeps the
\* invariant if the poster stays prepared and alone.
LEMMA PosterMoves ==
    ASSUME LedgerInv, NEW p \in Posters, NEW row \in PosterType,
           posting' = [posting EXCEPT ![p] = row],
           UNCHANGED journals,
           answered' \subseteq EventKeys,
           \A k \in answered' : journals[k] # Missing,
           row.pc # "rest" => row.draft \in Journal /\ Sound(row.draft),
           row.pc = "entries" => journals[row.key] = Missing /\ ~Competes(p, row.key),
           row.pc = "replay" => journals[row.key] # Missing
    PROVE  LedgerInv'
<1>1. /\ posting \in [Posters -> PosterType]
      /\ posting'[p] = row
      /\ \A q \in Posters \ {p} : posting'[q] = posting[q]
      /\ posting' \in [Posters -> PosterType]
  BY DEF LedgerInv, LedgerTypeOK, PosterType
<1>2. LedgerTypeOK'
  BY <1>1 DEF LedgerInv, LedgerTypeOK, PosterType
<1>3. \A q \in Posters : Prepared(q)'
  BY <1>1 DEF LedgerInv, Prepared
<1>4. OneInserter'
  BY <1>1 DEF LedgerInv, OneInserter, Competes
<1>5. AnswerStands'
  BY DEF LedgerInv, AnswerStands
<1> QED
  BY <1>2, <1>3, <1>4, <1>5 DEF LedgerInv

LEMMA LedgerStarts == ASSUME LedgerConstants, LedgerInit PROVE LedgerInv
<1>1. LedgerTypeOK
  BY RestType DEF LedgerInit, LedgerTypeOK, PosterType
<1>2. \A p \in Posters : posting[p].pc = "rest"
  BY RestType DEF LedgerInit
<1> QED
  BY <1>1, <1>2 DEF LedgerInit, LedgerInv, Prepared, OneInserter, AnswerStands

LEMMA LedgerSteps ==
    ASSUME LedgerConstants, LedgerInv, [LedgerNext]_ledgerVars
    PROVE  LedgerInv'
<1>1. CASE UNCHANGED ledgerVars
  BY <1>1 DEF ledgerVars, LedgerInv, LedgerTypeOK, Prepared, OneInserter, AnswerStands
<1>2. ASSUME NEW p \in Posters,
             \/ \E k \in EventKeys : Draft(p, k)
             \/ InsertJournal(p) \/ InsertEntry(p)
             \/ CommitPosted(p) \/ CommitReplay(p) \/ RollBackPost(p)
      PROVE  LedgerInv'
  <2> DEFINE row == posting[p]
  <2>0. /\ posting \in [Posters -> PosterType] /\ row \in PosterType
        /\ journals \in [EventKeys -> Journal \cup {Missing}]
        /\ answered \subseteq EventKeys
        /\ \A k \in answered : journals[k] # Missing
        /\ Prepared(p)
    BY <1>2 DEF LedgerInv, LedgerTypeOK, PosterType, AnswerStands
  <2>1. ASSUME NEW k \in EventKeys, Draft(p, k) PROVE LedgerInv'
    <3>1. PICK draft \in Drafts :
             /\ Sound(draft)
             /\ posting' = [posting EXCEPT ![p] = [pc |-> "insert", key |-> k, draft |-> draft,
                                                   inserted |-> 0]]
      BY <2>1 DEF Draft
    <3>2. draft \in Journal
      BY DEF LedgerConstants
    <3>3. [pc |-> "insert", key |-> k, draft |-> draft, inserted |-> 0] \in PosterType
      BY <3>2 DEF PosterType
    <3> QED
      BY <1>2, <2>0, <2>1, <3>1, <3>2, <3>3, PosterMoves DEF Draft
  <2>2. CASE InsertJournal(p)
    <3> DEFINE to == [row EXCEPT !.pc = IF journals[row.key] # Missing THEN "replay" ELSE "entries"]
    <3>1. /\ posting' = [posting EXCEPT ![p] = to]
          /\ row.pc = "insert" /\ ~Competes(p, row.key)
          /\ UNCHANGED <<journals, answered>>
      BY <2>0, <2>2 DEF InsertJournal, Moves
    <3>2. /\ to \in PosterType /\ to.draft = row.draft /\ to.key = row.key
          /\ to.pc = IF journals[row.key] # Missing THEN "replay" ELSE "entries"
      BY <2>0 DEF PosterType
    <3> HIDE DEF to
    <3> QED
      BY <1>2, <2>0, <3>1, <3>2, PosterMoves DEF Prepared
  <2>3. CASE InsertEntry(p)
    <3> DEFINE to == [row EXCEPT !.inserted = @ + 1]
    <3>1. /\ posting' = [posting EXCEPT ![p] = to]
          /\ row.pc = "entries"
          /\ UNCHANGED <<journals, answered>>
      BY <2>0, <2>3 DEF InsertEntry
    <3>2. to \in PosterType /\ to.draft = row.draft /\ to.key = row.key /\ to.pc = "entries"
      BY <2>0, <3>1 DEF PosterType
    <3>3. ~Competes(p, row.key)
      BY <1>2, <3>1 DEF LedgerInv, OneInserter, Competes
    <3> HIDE DEF to
    <3> QED
      BY <1>2, <2>0, <3>1, <3>2, <3>3, PosterMoves DEF Prepared
  <2>4. CASE CommitPosted(p)
    <3>1. row.draft \in Journal /\ Sound(row.draft) /\ journals[row.key] = Missing
      BY <2>0, <2>4 DEF CommitPosted, Prepared
    <3>2. /\ journals' = [journals EXCEPT ![row.key] = row.draft]
          /\ answered' = answered \cup {row.key}
          /\ posting' = [posting EXCEPT ![p] = NotPosting]
      BY <2>4, <3>1, WholeJournal DEF CommitPosted
    <3>3. /\ row.key \in EventKeys
          /\ journals'[row.key] = row.draft /\ row.draft # Missing
          /\ \A k \in EventKeys \ {row.key} : journals'[k] = journals[k]
      BY <2>0, <3>1, <3>2, MissingIsNone DEF PosterType
    <3>4. /\ posting'[p] = NotPosting
          /\ \A q \in Posters \ {p} : posting'[q] = posting[q]
          /\ posting' \in [Posters -> PosterType]
      BY <1>2, <2>0, <3>2, RestType
    <3>5. LedgerTypeOK'
      BY <2>0, <3>1, <3>2, <3>3, <3>4 DEF LedgerTypeOK, PosterType
    <3>6. ASSUME NEW q \in Posters PROVE Prepared(q)'
      <4>1. CASE q = p
        BY <3>4, <4>1, RestType DEF Prepared
      <4>2. CASE q # p
        <5>1. posting'[q] = posting[q] /\ Prepared(q) /\ posting[q].key \in EventKeys
          BY <2>0, <3>4, <4>2 DEF LedgerInv, PosterType
        <5>2. posting[q].pc = "entries" => posting[q].key # row.key
          BY <1>2, <2>4, <4>2 DEF LedgerInv, OneInserter, CommitPosted
        <5> QED
          BY <3>3, <5>1, <5>2 DEF Prepared
      <4> QED
        BY <4>1, <4>2
    <3>7. OneInserter'
      BY <3>4, RestType DEF LedgerInv, OneInserter
    <3>8. AnswerStands'
      <4>1. \A k \in answered' : journals'[k] # Missing
        BY <2>0, <3>2, <3>3
      <4>2. ASSUME NEW k \in EventKeys, journals'[k] # Missing PROVE Sound(journals'[k])
        BY <3>1, <3>3, <4>2 DEF LedgerInv, AnswerStands
      <4> QED
        BY <4>1, <4>2 DEF AnswerStands
    <3> QED
      BY <3>5, <3>6, <3>7, <3>8 DEF LedgerInv
  <2>5. CASE CommitReplay(p)
    BY <1>2, <2>0, <2>5, RestType, PosterMoves DEF CommitReplay, Prepared, PosterType
  <2>6. CASE RollBackPost(p)
    BY <1>2, <2>0, <2>6, RestType, PosterMoves DEF RollBackPost
  <2> QED
    BY <1>2, <2>1, <2>2, <2>3, <2>4, <2>5, <2>6
<1> QED
  BY <1>1, <1>2 DEF LedgerNext

-----------------------------------------------------------------------------
\* Who was told that its entries are posted, or already were, finds a whole and
\* sound journal under its key (Journal::post, JournalBuilder::build).
THEOREM AnswersStand == ASSUME LedgerConstants PROVE LedgerSpec => []AnswerStands
<1>1. LedgerInit => LedgerInv
  BY LedgerStarts
<1>2. LedgerInv /\ [LedgerNext]_ledgerVars => LedgerInv'
  BY LedgerSteps
<1>3. LedgerInv => AnswerStands
  BY DEF LedgerInv
<1> QED
  BY <1>1, <1>2, <1>3, PTL DEF LedgerSpec

\* A posted journal is never changed ("Post it, and it is immutable", journal.rs):
\* only an inserter writes under a key, and it inserted because nothing was there.
THEOREM PostedStays == ASSUME LedgerConstants PROVE LedgerSpec => PostedIsFinal
<1>1. ASSUME LedgerInv, [LedgerNext]_ledgerVars
      PROVE  [\A k \in EventKeys : journals[k] # Missing => journals'[k] = journals[k]]_ledgerVars
  <2>1. CASE UNCHANGED ledgerVars
    BY <2>1
  <2>2. ASSUME NEW p \in Posters, CommitPosted(p)
        PROVE  \A k \in EventKeys : journals[k] # Missing => journals'[k] = journals[k]
    <3>1. journals[posting[p].key] = Missing
      BY <1>1, <2>2 DEF LedgerInv, Prepared, CommitPosted
    <3> QED
      BY <1>1, <2>2, <3>1 DEF CommitPosted, LedgerInv, LedgerTypeOK
  <2>3. ASSUME NEW p \in Posters,
               \/ \E k \in EventKeys : Draft(p, k)
               \/ InsertJournal(p) \/ InsertEntry(p) \/ CommitReplay(p) \/ RollBackPost(p)
        PROVE  UNCHANGED journals
    BY <2>3 DEF Draft, InsertJournal, InsertEntry, CommitReplay, RollBackPost
  <2> QED
    BY <1>1, <2>1, <2>2, <2>3 DEF LedgerNext
<1>2. LedgerInit => LedgerInv
  BY LedgerStarts
<1>3. LedgerInv /\ [LedgerNext]_ledgerVars => LedgerInv'
  BY LedgerSteps
<1> QED
  BY <1>1, <1>2, <1>3, PTL DEF LedgerSpec, PostedIsFinal

-----------------------------------------------------------------------------
(* AlertOutbox: a mail is either answered for by the alert itself, being   *)
(* delivered or held by a loop that is about to mark it, or it is excused; *)
(* a loop that is still to mail an alert it no longer holds has been       *)
(* excused beforehand.                                                     *)

\* The delay is one of the delays of the table, or the longest.
LEMMA BackOffIsNat == ASSUME AlertConstants, NEW n \in Nat PROVE BackOff(n) \in Nat
<1>1. Min({n, 6}) \in 0..6
  BY MinOfTwo
<1>2. Doubled[Min({n, 6}) + 1] \in Nat
  BY <1>1 DEF Doubled
<1> QED
  BY <1>2, MinOfTwo DEF BackOff, AlertConstants

AlertRow == [state : {"none", "pending", "delivered"}, by : Loops \cup {NoLoop}, until : Nat,
             next : Nat, attempts : Nat]
LoopType == [pc : {"rest", "send", "mark", "retry"}, alert : Reviewed \cup {Resting.alert}]

\* Loops that are still to mail an alert they no longer hold.
Late(r) == {l \in Loops : loop[l].pc = "send" /\ loop[l].alert = r /\ alert[r].by # l}

Marking(l, r) == loop[l].pc = "mark" /\ loop[l].alert = r

Answered(r) ==
    IF \/ alert[r].state = "delivered"
       \/ alert[r].by # NoLoop /\ Marking(alert[r].by, r)
    THEN 1 ELSE 0

Accounted(r) == mails[r] + Cardinality(Late(r)) <= excused[r] + Answered(r)

AlertInv ==
    /\ alert \in [Reviewed -> AlertRow]
    /\ loop \in [Loops -> LoopType]
    /\ mails \in [Reviewed -> Nat] /\ excused \in [Reviewed -> Nat]
    /\ hour \in Nat
    /\ \A l \in Loops : loop[l].pc # "rest" => loop[l].alert \in Reviewed
    /\ \A l \in Loops : loop[l].pc = "mark" => mails[loop[l].alert] > 0
    /\ \A r \in Reviewed : alert[r].state = "delivered" => alert[r].by = NoLoop /\ mails[r] > 0
    /\ \A r \in Reviewed : Accounted(r)

LEMMA LateIsFinite ==
    ASSUME AlertConstants, NEW r
    PROVE  IsFiniteSet(Late(r)) /\ Cardinality(Late(r)) \in Nat
<1>1. IsFiniteSet(Loops) /\ Late(r) \in SUBSET Loops
  BY DEF AlertConstants, Late
<1> QED
  BY <1>1, FS_Subset, FS_CardinalityType

LEMMA LateShrinks ==
    ASSUME AlertConstants, NEW r, Late(r)' \subseteq Late(r)
    PROVE  Cardinality(Late(r)') \in Nat /\ Cardinality(Late(r)') <= Cardinality(Late(r))
<1>1. IsFiniteSet(Late(r)) /\ Late(r)' \in SUBSET Late(r)
  BY LateIsFinite
<1> QED
  BY <1>1, FS_Subset, FS_CardinalityType

LEMMA AlertStarts == ASSUME AlertConstants, AlertInit PROVE AlertInv
<1>1. Resting \in LoopType /\ Resting.pc = "rest"
  BY DEF Resting, LoopType
<1>2. NoAlert \in AlertRow /\ NoAlert.state = "none" /\ NoAlert.by = NoLoop
  BY DEF NoAlert, AlertRow
<1>3. ASSUME NEW r \in Reviewed PROVE Accounted(r)
  <2>1. Late(r) = {} /\ Answered(r) = 0 /\ mails[r] = 0 /\ excused[r] = 0
    BY <1>1, <1>2, <1>3 DEF AlertInit, Late, Answered
  <2>2. Cardinality({}) = 0
    BY FS_EmptySet
  <2> QED
    BY <2>1, <2>2 DEF Accounted
<1> QED
  BY <1>1, <1>2, <1>3 DEF AlertInit, AlertInv

\* What has not moved is accounted for as before.
LEMMA StaysAccounted ==
    ASSUME AlertConstants, AlertInv, NEW r \in Reviewed,
           alert'[r].by = alert[r].by,
           alert'[r].state = "delivered" <=> alert[r].state = "delivered",
           \A l \in Loops : loop[l].alert = r /\ loop[l].pc \in {"send", "mark"}
                            <=> loop'[l].alert = r /\ loop'[l].pc \in {"send", "mark"},
           \A l \in Loops : loop[l].alert = r /\ loop[l].pc \in {"send", "mark"}
                            => loop'[l] = loop[l],
           mails'[r] = mails[r], excused'[r] = excused[r]
    PROVE  Accounted(r)'
<1>1. Late(r)' = Late(r)
  BY DEF Late
<1>2. alert[r].by # NoLoop => alert[r].by \in Loops
  BY DEF AlertInv, AlertRow
<1>3. alert[r].by # NoLoop => (Marking(alert[r].by, r)' <=> Marking(alert[r].by, r))
  BY <1>2 DEF Marking
<1>4. Answered(r)' = Answered(r)
  BY <1>3 DEF Answered
<1>5. Accounted(r)
  BY DEF AlertInv
<1> QED
  BY <1>1, <1>4, <1>5 DEF Accounted

\* A loop that is at an alert, or at none, moves with regard to that alert.
LEMMA LoopMoves ==
    ASSUME AlertConstants, AlertInv, NEW l \in Loops, NEW r \in Reviewed, NEW to \in LoopType,
           loop' = [loop EXCEPT ![l] = to],
           loop[l].pc # "rest" => loop[l].alert = r,
           to.pc # "rest" => to.alert = r,
           to.pc = "mark" => mails'[r] > 0,
           NEW row \in AlertRow, alert' = [alert EXCEPT ![r] = row],
           row.state = "delivered" => row.by = NoLoop /\ mails'[r] > 0,
           NEW m \in Nat, mails' = [mails EXCEPT ![r] = m], m >= mails[r],
           NEW x \in Nat, excused' = [excused EXCEPT ![r] = x],
           hour' = hour,
           Accounted(r)'
    PROVE  AlertInv'
<1>1. /\ alert' \in [Reviewed -> AlertRow] /\ loop' \in [Loops -> LoopType]
      /\ mails' \in [Reviewed -> Nat] /\ excused' \in [Reviewed -> Nat] /\ hour' \in Nat
  BY DEF AlertInv
<1>2. /\ alert'[r] = row /\ loop'[l] = to /\ mails'[r] = m
      /\ \A q \in Reviewed \ {r} : alert'[q] = alert[q] /\ mails'[q] = mails[q]
                                   /\ excused'[q] = excused[q]
      /\ \A k \in Loops \ {l} : loop'[k] = loop[k]
  BY DEF AlertInv
<1>3. \A q \in Reviewed : mails'[q] >= mails[q] /\ mails[q] \in Nat
  BY <1>2 DEF AlertInv
<1>4. ASSUME NEW k \in Loops
      PROVE  /\ loop'[k].pc # "rest" => loop'[k].alert \in Reviewed
             /\ loop'[k].pc = "mark" => mails'[loop'[k].alert] > 0
  <2>1. CASE k = l
    BY <1>2, <2>1
  <2>2. CASE k # l
    <3>1. loop'[k] = loop[k]
      BY <1>2, <2>2
    <3>2. loop[k].pc # "rest" => loop[k].alert \in Reviewed
      BY DEF AlertInv
    <3>3. loop[k].pc = "mark" => mails[loop[k].alert] > 0
      BY DEF AlertInv
    <3> QED
      BY <1>1, <1>3, <3>1, <3>2, <3>3
  <2> QED
    BY <2>1, <2>2
<1>5. ASSUME NEW q \in Reviewed, alert'[q].state = "delivered"
      PROVE  alert'[q].by = NoLoop /\ mails'[q] > 0
  BY <1>2, <1>5 DEF AlertInv
<1>6. ASSUME NEW q \in Reviewed PROVE Accounted(q)'
  <2>1. CASE q = r
    BY <2>1
  <2>2. CASE q # r
    <3>1. \A k \in Loops : loop[k].alert = q /\ loop[k].pc \in {"send", "mark"}
                            <=> loop'[k].alert = q /\ loop'[k].pc \in {"send", "mark"}
      BY <1>2, <2>2
    <3>2. \A k \in Loops : loop[k].alert = q /\ loop[k].pc \in {"send", "mark"}
                            => loop'[k] = loop[k]
      BY <1>2, <2>2
    <3> QED
      BY <1>2, <2>2, <3>1, <3>2, StaysAccounted
  <2> QED
    BY <2>1, <2>2
<1> QED
  BY <1>1, <1>4, <1>5, <1>6 DEF AlertInv

\* Nothing that is accounted for moves.
LEMMA AlertRests ==
    ASSUME AlertConstants, AlertInv, alert' \in [Reviewed -> AlertRow], hour' \in Nat,
           \A r \in Reviewed : /\ alert'[r].by = alert[r].by
                               /\ alert'[r].state = "delivered" <=> alert[r].state = "delivered",
           UNCHANGED <<loop, mails, excused>>
    PROVE  AlertInv'
<1>1. \A r \in Reviewed : Accounted(r)'
  BY StaysAccounted
<1> QED
  BY <1>1 DEF AlertInv

\* What a loop knows of the alert it is at.
LEMMA AtAlert ==
    ASSUME AlertConstants, AlertInv, NEW l \in Loops, NEW r \in Reviewed
    PROVE  /\ alert[r] \in AlertRow /\ loop[l] \in LoopType
           /\ mails[r] \in Nat /\ excused[r] \in Nat /\ hour \in Nat
           /\ Answered(r) \in {0, 1}
           /\ Accounted(r) /\ Cardinality(Late(r)) \in Nat /\ IsFiniteSet(Late(r))
           /\ alert[r].by = l => l # NoLoop /\ alert[r].state # "delivered"
BY LateIsFinite DEF AlertInv, Answered, AlertConstants

LEMMA ClaimKeepsAlerts ==
    ASSUME AlertConstants, AlertInv, NEW l \in Loops, ClaimAlert(l)
    PROVE  AlertInv'
<1>1. PICK r \in Reviewed :
         /\ Due(r)
         /\ alert' = [alert EXCEPT ![r].by = l, ![r].until = hour + ClaimTTL]
         /\ loop' = [loop EXCEPT ![l] = [pc |-> IF told THEN "send" ELSE "retry", alert |-> r]]
         /\ excused' = [excused EXCEPT ![r] = @ + IF Outlived(r) THEN 1 ELSE 0]
  BY DEF ClaimAlert
<1>2. loop[l].pc = "rest" /\ UNCHANGED <<mails, hour>>
  BY DEF ClaimAlert
<1> DEFINE late == Late(r)
           by == alert[r].by
<1>3. /\ alert[r] \in AlertRow /\ mails[r] \in Nat /\ excused[r] \in Nat /\ hour \in Nat
      /\ Accounted(r) /\ Cardinality(late) \in Nat /\ IsFiniteSet(late)
  BY AtAlert
<1>4. PICK to \in LoopType : /\ loop' = [loop EXCEPT ![l] = to]
                            /\ to.pc \in {"send", "retry"} /\ to.alert = r
  <2>1. LET to == [pc |-> IF told THEN "send" ELSE "retry", alert |-> r]
        IN  to \in LoopType /\ to.pc \in {"send", "retry"} /\ to.alert = r
    BY DEF LoopType
  <2> QED
    BY <1>1, <2>1
<1>5. PICK row \in AlertRow : /\ alert' = [alert EXCEPT ![r] = row]
                             /\ row.by = l /\ row.state = "pending"
  <2> DEFINE row == [[alert[r] EXCEPT !.by = l] EXCEPT !.until = hour + ClaimTTL]
  <2>1. hour + ClaimTTL \in Nat
    BY <1>3 DEF AlertConstants
  <2>2. row \in AlertRow /\ row.by = l /\ row.state = "pending"
    BY <1>1, <1>3, <2>1 DEF AlertRow, Due
  <2>3. alert' = [alert EXCEPT ![r] = row]
    BY <1>1, <1>3 DEF AlertInv, AlertRow
  <2> QED
    BY <2>2, <2>3
<1>6. PICK x \in Nat : /\ excused' = [excused EXCEPT ![r] = x]
                      /\ x = excused[r] + (IF Outlived(r) THEN 1 ELSE 0)
  <2>1. excused[r] + (IF Outlived(r) THEN 1 ELSE 0) \in Nat
    BY <1>3
  <2> QED
    BY <1>1, <2>1
<1>7. /\ alert'[r] = row /\ loop'[l] = to /\ excused'[r] = x /\ mails'[r] = mails[r]
      /\ \A k \in Loops \ {l} : loop'[k] = loop[k]
  BY <1>2, <1>4, <1>5, <1>6 DEF AlertInv
<1>8. Late(r)' = {k \in Loops \ {l} : loop[k].pc = "send" /\ loop[k].alert = r}
  BY <1>2, <1>5, <1>7 DEF Late
<1>9. Answered(r)' = 0
  BY <1>4, <1>5, <1>7 DEF Answered, Marking
<1>10. Accounted(r)'
  <2>1. CASE by = NoLoop
    <3>1. Late(r)' = late
      BY <1>2, <1>8, <2>1 DEF Late, AlertConstants
    <3>2. Answered(r) = 0 /\ ~Outlived(r)
      BY <1>1, <2>1 DEF Answered, Due, Outlived
    <3> QED
      BY <1>3, <1>6, <1>7, <1>9, <3>1, <3>2 DEF Accounted
  <2>2. CASE by # NoLoop
    <3>1. by \in Loops /\ alert[r].until < hour /\ alert[r].state = "pending"
      BY <1>1, <1>3, <2>2 DEF Due, AlertRow
    <3>2. CASE loop[by].alert = r /\ loop[by].pc = "send"
      <4>1. Late(r)' = late \cup {by} /\ by \notin late
        BY <1>2, <1>8, <3>1, <3>2 DEF Late
      <4>2. Cardinality(Late(r)') = Cardinality(late) + 1
        BY <1>3, <4>1, FS_AddElement
      <4>3. Answered(r) = 0 /\ Outlived(r)
        BY <2>2, <3>1, <3>2 DEF Answered, Marking, Outlived
      <4> QED
        BY <1>3, <1>6, <1>7, <1>9, <4>2, <4>3 DEF Accounted
    <3>3. CASE ~(loop[by].alert = r /\ loop[by].pc = "send")
      <4>1. Late(r)' = late
        BY <1>2, <1>8, <3>1, <3>3 DEF Late
      <4>2. Answered(r) = (IF Outlived(r) THEN 1 ELSE 0)
        BY <2>2, <3>1, <3>3 DEF Answered, Marking, Outlived
      <4> QED
        BY <1>3, <1>6, <1>7, <1>9, <4>1, <4>2 DEF Accounted
    <3> QED
      BY <3>2, <3>3
  <2> QED
    BY <2>1, <2>2
<1>11. PICK m \in Nat : mails' = [mails EXCEPT ![r] = m] /\ m = mails[r]
  BY <1>2, <1>3 DEF AlertInv
<1> HIDE DEF late, by
<1>12. row.state # "delivered" /\ to.pc # "mark" /\ to.alert = r /\ m >= mails[r]
  BY <1>4, <1>5, <1>11
<1> QED
  BY <1>2, <1>4, <1>5, <1>6, <1>10, <1>11, <1>12, LoopMoves

\* A loop that is at its alert moves it on: it mails, it gives up, or both, and
\* is excused for what will not be answered.
LEMMA SendKeepsAlerts ==
    ASSUME AlertConstants, AlertInv, NEW l \in Loops, SendAlert(l)
    PROVE  AlertInv'
<1>1. PICK r \in Reviewed : r = loop[l].alert
  BY DEF SendAlert, AlertInv
<1>2. loop[l].pc = "send" /\ loop[l].alert = r /\ UNCHANGED <<alert, hour>>
  BY <1>1 DEF SendAlert
<1>3. /\ alert[r] \in AlertRow /\ loop[l] \in LoopType
      /\ mails[r] \in Nat /\ excused[r] \in Nat
      /\ Accounted(r) /\ Cardinality(Late(r)) \in Nat /\ IsFiniteSet(Late(r))
      /\ alert[r].by = l => l # NoLoop /\ alert[r].state # "delivered"
  BY AtAlert
<1>4. ASSUME NEW pc \in {"mark", "retry"}, Goes(l, pc),
             NEW m \in Nat, mails' = [mails EXCEPT ![r] = m],
             NEW x \in Nat, excused' = [excused EXCEPT ![r] = x],
             m \in {mails[r], mails[r] + 1},
             pc = "mark" => m = mails[r] + 1 /\ x = excused[r],
             pc = "retry" => x - excused[r] = m - mails[r]
      PROVE  AlertInv'
  <2>1. PICK to \in LoopType : loop' = [loop EXCEPT ![l] = to] /\ to.pc = pc /\ to.alert = r
    <3>1. LET to == [loop[l] EXCEPT !.pc = pc]
          IN  to \in LoopType /\ to.pc = pc /\ to.alert = r
      BY <1>2, <1>3 DEF LoopType
    <3>2. loop' = [loop EXCEPT ![l] = [loop[l] EXCEPT !.pc = pc]]
      BY <1>4 DEF Goes, AlertInv
    <3> QED
      BY <3>1, <3>2
  <2>2. /\ loop'[l] = to /\ mails'[r] = m /\ excused'[r] = x /\ alert' = alert
        /\ \A k \in Loops \ {l} : loop'[k] = loop[k]
    BY <1>2, <1>4, <2>1 DEF AlertInv
  <2>3. Late(r)' = Late(r) \ {l}
    BY <1>4, <2>1, <2>2 DEF Late
  <2>4. Accounted(r)'
    <3>1. CASE alert[r].by = l
      <4>1. l \notin Late(r)
        BY <3>1 DEF Late
      <4>2. Late(r)' = Late(r)
        BY <2>3, <4>1
      <4>3. Answered(r) = 0 /\ Answered(r)' = (IF pc = "mark" THEN 1 ELSE 0)
        BY <1>2, <1>3, <1>4, <2>1, <2>2, <3>1 DEF Answered, Marking
      <4> QED
        BY <1>3, <1>4, <2>2, <4>2, <4>3 DEF Accounted
    <3>2. CASE alert[r].by # l
      <4>1. l \in Late(r)
        BY <1>2, <3>2 DEF Late
      <4>2. Cardinality(Late(r)') = Cardinality(Late(r)) - 1
        BY <1>3, <2>3, <4>1, FS_RemoveElement
      <4>3. Answered(r)' = Answered(r) /\ Answered(r) \in {0, 1}
        BY <1>3, <2>2, <3>2 DEF Answered, Marking, AlertRow
      <4> QED
        BY <1>3, <1>4, <2>2, <4>2, <4>3 DEF Accounted
    <3> QED
      BY <3>1, <3>2
  <2>5. alert' = [alert EXCEPT ![r] = alert[r]]
    BY <1>2 DEF AlertInv
  <2>6. alert[r].state = "delivered" => alert[r].by = NoLoop /\ mails'[r] > 0
    BY <1>3, <1>4, <2>2 DEF AlertInv
  <2>7. pc = "mark" => mails'[r] > 0
    BY <1>3, <1>4, <2>2
  <2>8. m >= mails[r]
    BY <1>3, <1>4
  <2> QED
    BY <1>2, <1>3, <1>4, <2>1, <2>4, <2>5, <2>6, <2>7, <2>8, LoopMoves
<1>5. PICK m0 \in Nat, e0 \in Nat :
         /\ m0 = mails[r] /\ mails = [mails EXCEPT ![r] = m0]
         /\ e0 = excused[r] /\ excused = [excused EXCEPT ![r] = e0]
  BY <1>3 DEF AlertInv
<1>6. PICK m1 \in Nat, e1 \in Nat :
         /\ m1 = m0 + 1 /\ m1 = mails[r] + 1 /\ m1 - mails[r] = 1
         /\ e1 = e0 + 1 /\ e1 - excused[r] = 1
  BY <1>5
<1>7. CASE Goes(l, "mark") /\ mails' = [mails EXCEPT ![r] = m1] /\ UNCHANGED excused
  BY <1>4, <1>5, <1>6, <1>7
<1>8. CASE Goes(l, "retry") /\ UNCHANGED <<mails, excused>>
  BY <1>4, <1>5, <1>8
<1>9. CASE /\ Goes(l, "retry") /\ mails' = [mails EXCEPT ![r] = m1]
           /\ excused' = [excused EXCEPT ![r] = e1]
  BY <1>4, <1>5, <1>6, <1>9
<1> QED
  BY <1>1, <1>5, <1>6, <1>7, <1>8, <1>9 DEF SendAlert

\* A loop that is done with its alert rests; its claim, if it still has it, is
\* given up or marked.
LEMMA RestKeepsAlerts ==
    ASSUME AlertConstants, AlertInv, NEW l \in Loops, loop[l].pc # "rest", Rest(l),
           NEW r \in Reviewed, r = loop[l].alert,
           NEW row \in AlertRow, alert' = [alert EXCEPT ![r] = row],
           row # alert[r] => alert[r].by = l /\ row.by = NoLoop,
           row.state = "delivered" /\ row # alert[r] => loop[l].pc = "mark",
           NEW x \in Nat, excused' = [excused EXCEPT ![r] = x], x >= excused[r],
           loop[l].pc = "mark" => row.state = "delivered" \/ x = excused[r] + 1
                                  \/ alert[r].by # l,
           UNCHANGED <<mails, hour>>
    PROVE  AlertInv'
<1>1. /\ alert[r] \in AlertRow /\ loop[l] \in LoopType
      /\ mails[r] \in Nat /\ excused[r] \in Nat
      /\ Accounted(r) /\ Cardinality(Late(r)) \in Nat /\ IsFiniteSet(Late(r))
      /\ alert[r].by = l => l # NoLoop /\ alert[r].state # "delivered"
      /\ Answered(r) \in {0, 1}
  BY AtAlert
<1>2. PICK to \in LoopType : loop' = [loop EXCEPT ![l] = to] /\ to.pc = "rest"
  <2>1. LET to == [loop[l] EXCEPT !.pc = "rest"] IN to \in LoopType /\ to.pc = "rest"
    BY <1>1 DEF LoopType
  <2>2. loop' = [loop EXCEPT ![l] = [loop[l] EXCEPT !.pc = "rest"]]
    BY DEF Rest, AlertInv
  <2> QED
    BY <2>1, <2>2
<1>3. /\ loop'[l] = to /\ alert'[r] = row /\ excused'[r] = x /\ mails' = mails
      /\ \A k \in Loops \ {l} : loop'[k] = loop[k]
  BY <1>2 DEF AlertInv
<1>4. Late(r)' \subseteq Late(r)
  BY <1>2, <1>3 DEF Late, AlertConstants
<1>5. Cardinality(Late(r)') \in Nat /\ Cardinality(Late(r)') <= Cardinality(Late(r))
  BY <1>4, LateShrinks
<1>6. Answered(r)' \in {0, 1}
  BY DEF Answered
<1>7. Accounted(r)'
  <2>1. CASE alert[r].by = l
    <3>1. Answered(r) = (IF loop[l].pc = "mark" THEN 1 ELSE 0)
      BY <1>1, <2>1 DEF Answered, Marking
    <3>2. CASE loop[l].pc = "mark"
      <4>1. row.state = "delivered" => Answered(r)' = 1
        BY <1>3 DEF Answered
      <4>2. row.state = "delivered" \/ x = excused[r] + 1
        BY <2>1, <3>2
      <4> QED
        BY <1>1, <1>3, <1>5, <1>6, <3>1, <3>2, <4>1, <4>2 DEF Accounted
    <3>3. CASE loop[l].pc # "mark"
      BY <1>1, <1>3, <1>5, <1>6, <3>1, <3>3 DEF Accounted
    <3> QED
      BY <3>2, <3>3
  <2>2. CASE alert[r].by # l
    <3>1. row = alert[r]
      BY <2>2
    <3>2. Answered(r)' = Answered(r)
      BY <1>1, <1>3, <2>2, <3>1 DEF Answered, Marking, AlertRow
    <3> QED
      BY <1>1, <1>3, <1>5, <3>2 DEF Accounted
  <2> QED
    BY <2>1, <2>2
<1>8. row.state = "delivered" => row.by = NoLoop /\ mails[r] > 0
  BY <1>1 DEF AlertInv
<1>9. PICK m \in Nat : mails' = [mails EXCEPT ![r] = m] /\ m = mails[r]
  BY <1>1 DEF AlertInv
<1>10. m >= mails[r]
  BY <1>9
<1> QED
  BY <1>2, <1>3, <1>7, <1>8, <1>9, <1>10, LoopMoves

LEMMA AlertSteps == ASSUME AlertConstants, AlertInv, [AlertNext]_alertVars PROVE AlertInv'
<1>1. CASE UNCHANGED alertVars
  BY <1>1, AlertRests DEF alertVars, AlertInv
<1>2. ASSUME NEW r \in Reviewed, Raise(r) PROVE AlertInv'
  <2> DEFINE row == [[alert[r] EXCEPT !.state = "pending"] EXCEPT !.next = hour]
  <2>1. row \in AlertRow /\ row.by = alert[r].by /\ row.state = "pending"
    <3>1. alert[r] \in AlertRow /\ hour \in Nat
      BY DEF AlertInv
    <3> QED
      BY <3>1 DEF AlertRow
  <2>2. alert' = (IF alert[r].state = "none" THEN [alert EXCEPT ![r] = row] ELSE alert)
    BY <1>2 DEF Raise, AlertInv, AlertRow
  <2> HIDE DEF row
  <2>3. /\ alert' \in [Reviewed -> AlertRow]
        /\ \A q \in Reviewed : /\ alert'[q].by = alert[q].by
                               /\ alert'[q].state = "delivered" <=> alert[q].state = "delivered"
    BY <2>1, <2>2 DEF AlertInv
  <2> QED
    BY <1>2, <2>3, AlertRests DEF Raise, AlertInv
<1>3. ASSUME NEW l \in Loops, ClaimAlert(l) PROVE AlertInv'
  BY <1>3, ClaimKeepsAlerts
<1>4. ASSUME NEW l \in Loops, SendAlert(l) PROVE AlertInv'
  BY <1>4, SendKeepsAlerts
<1>5. ASSUME NEW l \in Loops, MarkDelivered(l) \/ PutOff(l) \/ DropAlert(l) PROVE AlertInv'
  <2>1. PICK r \in Reviewed, e0 \in Nat, old \in AlertRow :
           /\ r = loop[l].alert /\ e0 = excused[r] /\ old = alert[r]
           /\ alert = [alert EXCEPT ![r] = old] /\ excused = [excused EXCEPT ![r] = e0]
    BY <1>5 DEF MarkDelivered, PutOff, DropAlert, AlertInv
  <2>2. loop[l].pc # "rest" /\ Rest(l) /\ UNCHANGED <<mails, hour>>
    BY <1>5 DEF MarkDelivered, PutOff, DropAlert
  <2>3. CASE MarkDelivered(l)
    <3>1. PICK new \in AlertRow :
             /\ new = [alert[r] EXCEPT !.state = "delivered", !.by = NoLoop, !.until = 0]
             /\ new.state = "delivered" /\ new.by = NoLoop
      <4>1. LET new == [old EXCEPT !.state = "delivered", !.by = NoLoop, !.until = 0]
            IN  new \in AlertRow /\ new.state = "delivered" /\ new.by = NoLoop
        BY DEF AlertRow
      <4> QED
        BY <2>1, <4>1
    <3>2. alert' = (IF old.by = l THEN [alert EXCEPT ![r] = new] ELSE alert)
      BY <2>1, <2>3, <3>1 DEF MarkDelivered, Fenced
    <3>3. excused' = excused /\ loop[l].pc = "mark" /\ l # NoLoop
      BY <2>3 DEF MarkDelivered, AlertConstants
    <3>4. PICK row \in AlertRow : /\ alert' = [alert EXCEPT ![r] = row]
                                  /\ row = IF old.by = l THEN new ELSE old
      BY <2>1, <3>2
    <3>5. /\ row # alert[r] => alert[r].by = l /\ row.by = NoLoop
          /\ row.state = "delivered" \/ alert[r].by # l
      BY <2>1, <3>1, <3>4
    <3>6. excused' = [excused EXCEPT ![r] = e0] /\ e0 >= excused[r]
      BY <2>1, <3>3
    <3> QED
      BY <2>1, <2>2, <3>3, <3>4, <3>5, <3>6, RestKeepsAlerts, ZenonT(60)
  <2>4. CASE PutOff(l)
    <3>1. PICK new \in AlertRow :
             /\ new = [alert[r] EXCEPT !.attempts = @ + 1, !.by = NoLoop, !.until = 0,
                                       !.next = hour + BackOff(alert[r].attempts)]
             /\ new.state = old.state /\ new.by = NoLoop
      <4>1. old.attempts \in Nat /\ hour \in Nat
        BY DEF AlertRow, AlertInv
      <4>2. hour + BackOff(old.attempts) \in Nat
        BY <4>1, BackOffIsNat
      <4>3. ASSUME NEW n \in Nat, NEW w \in Nat
            PROVE  LET new == [old EXCEPT !.attempts = n, !.by = NoLoop, !.until = 0, !.next = w]
                   IN  new \in AlertRow /\ new.state = old.state /\ new.by = NoLoop
        BY DEF AlertRow
      <4>4. PICK n, w \in Nat :
               n = alert[r].attempts + 1 /\ w = hour + BackOff(alert[r].attempts)
        BY <2>1, <4>1, <4>2
      <4>5. PICK new \in AlertRow :
               /\ new = [old EXCEPT !.attempts = n, !.by = NoLoop, !.until = 0, !.next = w]
               /\ new.state = old.state /\ new.by = NoLoop
        BY <4>3
      <4> QED
        BY <2>1, <4>4, <4>5
    <3>2. alert' = (IF old.by = l THEN [alert EXCEPT ![r] = new] ELSE alert)
      BY <2>1, <2>4, <3>1 DEF PutOff, Fenced
    <3>3. excused' = excused /\ loop[l].pc = "retry"
      BY <2>4 DEF PutOff
    <3>4. PICK row \in AlertRow : /\ alert' = [alert EXCEPT ![r] = row]
                                  /\ row = IF old.by = l THEN new ELSE old
      BY <2>1, <3>2
    <3>5. /\ row # alert[r] => alert[r].by = l /\ row.by = NoLoop
          /\ row.state = old.state
      BY <2>1, <3>1, <3>4
    <3>6. old.by = l => old.state # "delivered"
      BY <2>1 DEF AlertInv, AlertConstants
    <3>7. row.state = "delivered" => row = alert[r]
      BY <2>1, <3>4, <3>5, <3>6
    <3>8. excused' = [excused EXCEPT ![r] = e0] /\ e0 >= excused[r]
      BY <2>1, <3>3
    <3> QED
      BY <2>1, <2>2, <3>3, <3>4, <3>5, <3>7, <3>8, RestKeepsAlerts, ZenonT(60)
  <2>5. CASE DropAlert(l)
    <3>1. PICK x \in Nat : /\ x = e0 + (IF loop[l].pc = "mark" THEN 1 ELSE 0)
                          /\ excused' = [excused EXCEPT ![r] = x]
      <4>1. e0 + (IF loop[l].pc = "mark" THEN 1 ELSE 0) \in Nat
        OBVIOUS
      <4> QED
        BY <2>1, <2>5, <4>1 DEF DropAlert
    <3>2. alert' = alert
      BY <2>5 DEF DropAlert
    <3>3. x >= excused[r] /\ (loop[l].pc = "mark" => x = excused[r] + 1)
      BY <2>1, <3>1
    <3>4. alert' = [alert EXCEPT ![r] = old] /\ old = alert[r]
      BY <2>1, <3>2
    <3> QED
      BY <2>1, <2>2, <3>1, <3>3, <3>4, RestKeepsAlerts, ZenonT(60)
  <2> QED
    BY <1>5, <2>3, <2>4, <2>5
<1>6. CASE HourPasses
  BY <1>6, AlertRests DEF HourPasses, AlertInv
<1> QED
  BY <1>1, <1>2, <1>3, <1>4, <1>5, <1>6 DEF AlertNext

LEMMA AccountedOnce == ASSUME AlertConstants, AlertInv PROVE MailedOncePerClaim
<1>1. ASSUME NEW r \in Reviewed PROVE mails[r] <= 1 + excused[r]
  <2>1. /\ mails[r] \in Nat /\ excused[r] \in Nat /\ Answered(r) \in {0, 1}
        /\ Accounted(r) /\ Cardinality(Late(r)) \in Nat
    BY LateIsFinite DEF AlertInv, Answered
  <2> QED
    BY <2>1 DEF Accounted
<1> QED
  BY <1>1 DEF MailedOncePerClaim, AlertInv

\* Several alert loops take over from one another, and each mails what it claimed
\* even if its claim has lapsed: still an alert arrives at most once more than
\* its answers or marks were lost or its claims outlived (deliver_alert).
THEOREM AlertsMailedOnce ==
    ASSUME AlertConstants PROVE AlertSpec => []MailedOncePerClaim
<1>1. AlertInit => AlertInv
  BY AlertStarts
<1>2. AlertInv /\ [AlertNext]_alertVars => AlertInv'
  BY AlertSteps
<1>3. AlertInv => MailedOncePerClaim
  BY AccountedOnce
<1> QED
  BY <1>1, <1>2, <1>3, PTL DEF AlertSpec

-----------------------------------------------------------------------------
(* TronWatcher: while a sweep runs, a transfer that landed a slack before  *)
(* it began is recorded, was found, or pays an address still to be asked   *)
(* for; and a day before a restart is not after the last sweep that ended. *)

DepositRow == [status : {"none", "seen", "confirmed"}, to : Wallets \cup {NoTransfer.to}]

Recorded(t) == deposit[t].status # "none"

\* A transfer we know the token of, that no page was too short for.
Wanted(t) == t \in Ours /\ t \notin skipped

\* All that landed before a time is recorded.
RecordedBefore(b) ==
    \A t \in Txs : Wanted(t) /\ landed[t] >= 0 /\ landed[t] < b => Recorded(t)

InHand(t) == (\E w \in todo : w \in Pays[t]) \/ (\E w \in Wallets : <<t, w>> \in found)

TronTypes ==
    /\ time \in Nat /\ since \in Int /\ swept \in Nat /\ done \in Nat /\ lost \in Nat
    /\ landed \in [Txs -> Int]
    /\ deposit \in [Txs -> DepositRow]
    /\ found \subseteq Ours \X Wallets /\ todo \subseteq Wallets /\ skipped \subseteq Txs
    /\ known \subseteq listed /\ listed \subseteq Txs

TronInv ==
    /\ TronTypes
    /\ since <= time /\ done <= swept /\ swept <= time /\ time - done <= MaxGap
    /\ \A t \in Txs : landed[t] <= time
    /\ \A t \in Txs : landed[t] >= 0 /\ t \notin known => time - landed[t] <= IndexLag
    /\ lost = 0 => RecordedBefore(since) /\ RecordedBefore(done - Slack)
    /\ lost = 0 /\ state = "sweep" =>
          \A t \in Txs : Wanted(t) /\ landed[t] >= 0 /\ landed[t] < swept - Slack
                            => Recorded(t) \/ InHand(t)

LEMMA TronStarts == ASSUME TronConstants, TronInit PROVE TronInv
<1>1. NoTransfer \in DepositRow
  BY DEF NoTransfer, DepositRow
<1> QED
  BY <1>1 DEF TronInit, TronInv, TronTypes, RecordedBefore, TronConstants

\* Rows are never taken back.
LEMMA CreditKeepsRows ==
    ASSUME NEW rows \in [Txs -> DepositRow], NEW ts \in SUBSET Txs
    PROVE  /\ Credited(rows, ts) \in [Txs -> DepositRow]
           /\ \A t \in Txs : rows[t].status # "none" => Credited(rows, ts)[t].status # "none"
<1>1. \A t \in Txs : /\ [rows[t] EXCEPT !.status = "confirmed"] \in DepositRow
                     /\ [rows[t] EXCEPT !.status = "confirmed"].status = "confirmed"
  BY DEF DepositRow
<1> QED
  BY <1>1 DEF Credited

LEMMA NetworkKeeps ==
    ASSUME TronConstants, TronInv,
           (\E t \in Txs : Land(t) \/ List(t) \/ Place(t)) \/ TronTime \/ UNCHANGED tronVars
    PROVE  TronInv'
<1> USE DEF TronTypes, RecordedBefore, Recorded, Wanted, InHand, watchVars
<1>1. ASSUME NEW t \in Txs, Land(t) PROVE TronInv'
  <2>1. /\ landed' \in [Txs -> Int] /\ time' = time
        /\ \A u \in Txs : landed'[u] = (IF u = t THEN time ELSE landed[u])
    BY <1>1 DEF Land, TronInv
  <2>2. since <= time /\ done - Slack <= time /\ swept - Slack <= time
    BY DEF TronInv, TronConstants
  <2>3. UNCHANGED <<since, swept, done, lost, deposit, found, todo, known, listed, state, skipped>>
    BY <1>1 DEF Land, watchVars
  <2>4. time \in Nat /\ since \in Int /\ done \in Nat /\ swept \in Nat /\ Slack \in Nat /\ IndexLag \in Nat
    BY DEF TronInv, TronConstants
  <2>5. /\ \A u \in Txs : landed'[u] <= time
        /\ \A u \in Txs : landed'[u] >= 0 /\ u \notin known => time - landed'[u] <= IndexLag
    BY <2>1, <2>4 DEF TronInv
  <2>6. lost = 0 => RecordedBefore(since)' /\ RecordedBefore(done - Slack)'
    <3>1. ASSUME NEW b \in Int, b <= time, RecordedBefore(b),
                 NEW u \in Txs, Wanted(u), landed'[u] >= 0, landed'[u] < b
          PROVE  deposit'[u].status # "none"
      BY <2>1, <2>3, <2>4, <3>1
    <3>2. done - Slack \in Int
      BY <2>4
    <3> QED
      BY <2>2, <2>3, <2>4, <3>1, <3>2 DEF TronInv
  <2>7. lost = 0 /\ state = "sweep" =>
           \A u \in Txs : Wanted(u) /\ landed'[u] >= 0 /\ landed'[u] < swept - Slack
                              => Recorded(u) \/ InHand(u)
    <3>1. ASSUME lost = 0, state = "sweep", NEW u \in Txs, Wanted(u),
                 landed'[u] >= 0, landed'[u] < swept - Slack
          PROVE  Recorded(u) \/ InHand(u)
      <4>1. landed'[u] = landed[u]
        BY <2>1, <2>2, <2>4, <3>1
      <4> QED
        BY <3>1, <4>1 DEF TronInv
    <3> QED
      BY <3>1
  <2> QED
    BY <2>1, <2>3, <2>4, <2>5, <2>6, <2>7 DEF TronInv
<1>2. ASSUME NEW t \in Txs, List(t) PROVE TronInv'
  BY <1>2 DEF List, TronInv
<1>3. ASSUME NEW t \in Txs, Place(t) PROVE TronInv'
  BY <1>3 DEF Place, TronInv
<1>4. CASE TronTime
  BY <1>4, SMTT(60) DEF TronTime, TronInv, TronConstants
<1>5. CASE UNCHANGED tronVars
  BY <1>5 DEF tronVars, TronInv
<1> QED
  BY <1>1, <1>2, <1>3, <1>4, <1>5

LEMMA StartKeeps == ASSUME TronConstants, TronInv, StartTron PROVE TronInv'
<1> USE DEF TronTypes, RecordedBefore, Recorded, Wanted, InHand, chain
<1>1. /\ since' = time - Day /\ state' = "idle"
      /\ UNCHANGED <<chain, swept, done, todo, found, deposit, due, skipped, lost, crashes>>
  BY DEF StartTron
<1>2. time - Day \in Int /\ time - Day <= time /\ time - Day <= done - Slack
  BY DEF TronInv, TronConstants
<1>3. ASSUME lost = 0, NEW t \in Txs, Wanted(t), landed[t] >= 0, landed[t] < time - Day
      PROVE  Recorded(t)
  BY <1>2, <1>3 DEF TronInv, TronConstants
<1> QED
  BY <1>1, <1>2, <1>3 DEF TronInv

LEMMA BeginKeeps == ASSUME TronConstants, TronInv, BeginSweep PROVE TronInv'
<1> USE DEF TronTypes, RecordedBefore, Recorded, Wanted, InHand, chain
<1>1. \A t \in Txs : \E w \in Wallets : w \in Pays[t]
  BY DEF TronConstants
<1> QED
  BY <1>1 DEF BeginSweep, TronInv, TronConstants

LEMMA PagesOfList ==
    ASSUME NEW list, NEW page \in Pages(list)
    PROVE  page \subseteq list
BY DEF Pages, kSubset

\* What the address was paid is found: it landed a slack before, so it is
\* listed, and it had room on the page and nothing was lost.
LEMMA ScanKeeps ==
    ASSUME TronConstants, TronInv, NEW w \in Wallets, ScanAddress(w)
    PROVE  TronInv'
<1> USE DEF TronTypes, RecordedBefore, Recorded, Wanted, InHand, chain
<1> DEFINE list == {t \in listed : w \in Pays[t] /\ landed[t] >= since}
<1>1. /\ state = "sweep" /\ found = {} /\ w \in todo /\ todo' = todo \ {w}
      /\ UNCHANGED <<chain, state, since, swept, done, deposit, due, crashes>>
  BY DEF ScanAddress
<1>2. /\ lost' \in Nat /\ lost' >= lost /\ found' \subseteq Ours \X Wallets
      /\ skipped \subseteq skipped' /\ skipped' \subseteq Txs
      /\ lost' = 0 => \A t \in list \cap known : Wanted(t)' => <<t, w>> \in found'
  <2>1. CASE Loses(1) /\ found' = {} /\ UNCHANGED skipped
    BY <2>1 DEF Loses, TronInv
  <2>2. ASSUME NEW page \in Pages(list), NEW un \in SUBSET (page \cap Ours \cap known),
               Loses(Cardinality(un)), found' = ((page \cap Ours \cap known) \ un) \X {w},
               skipped' = skipped \cup (list \ page)
        PROVE  /\ lost' \in Nat /\ lost' >= lost /\ found' \subseteq Ours \X Wallets
               /\ skipped \subseteq skipped' /\ skipped' \subseteq Txs
               /\ lost' = 0 => \A t \in list \cap known : Wanted(t)' => <<t, w>> \in found'
    <3>1. un \subseteq Txs /\ list \subseteq Txs
      BY DEF TronConstants, TronInv
    <3>2. IsFiniteSet(un)
      BY <3>1, FS_Subset DEF TronConstants
    <3>3. Cardinality(un) \in Nat /\ (Cardinality(un) = 0 <=> un = {})
      BY <3>2, FS_CardinalityType, FS_EmptySet
    <3> QED
      BY <2>2, <3>1, <3>3 DEF Loses, TronInv
  <2> QED
    BY <2>1, <2>2 DEF ScanAddress
<1>3. ASSUME lost' = 0, NEW t \in Txs, Wanted(t)', landed[t] >= 0, landed[t] < swept - Slack
      PROVE  Recorded(t) \/ InHand(t)'
  <2>0. Wanted(t)
    BY <1>2, <1>3
  <2>1. lost = 0
    BY <1>2, <1>3 DEF TronInv
  <2>2. t \in known /\ t \in listed
    BY <1>3 DEF TronInv, TronConstants
  <2>3. CASE landed[t] < since
    BY <2>0, <2>1, <2>3, <1>3 DEF TronInv
  <2>4. CASE landed[t] >= since /\ w \in Pays[t]
    <3>1. <<t, w>> \in found'
      BY <1>2, <1>3, <2>2, <2>4
    <3> QED
      BY <3>1
  <2>5. CASE w \notin Pays[t]
    <3>1. Recorded(t) \/ \E v \in todo : v \in Pays[t]
      BY <1>1, <1>3, <2>0, <2>1 DEF TronInv
    <3> QED
      BY <1>1, <2>5, <3>1
  <2>6. landed[t] \in Int /\ since \in Int
    BY DEF TronInv
  <2>7. landed[t] < since \/ landed[t] >= since
    BY <2>6
  <2> HIDE DEF InHand, Recorded, Wanted
  <2> QED
    BY <2>3, <2>4, <2>5, <2>7
<1>4. TronTypes'
  BY <1>1, <1>2 DEF TronInv
<1>5. lost' = 0 => lost = 0
  BY <1>2 DEF TronInv
<1>6. \A t \in Txs : Wanted(t)' => Wanted(t)
  BY <1>2
<1> HIDE DEF TronTypes, InHand, Wanted
<1> QED
  BY <1>1, <1>3, <1>4, <1>5, <1>6 DEF TronInv

LEMMA HandleKeeps ==
    ASSUME TronConstants, TronInv, NEW t \in Txs, NEW w \in Wallets, HandleTron(t, w)
    PROVE  TronInv'
<1> DEFINE put == [deposit EXCEPT ![t] = Row(t, w)]
<1>1. /\ put \in [Txs -> DepositRow]
      /\ put[t].status # "none"
      /\ \A u \in Txs : Recorded(u) => put[u].status # "none"
  <2>1. Row(t, w) \in DepositRow /\ Row(t, w).status # "none"
    BY DEF Row, TronInv, TronTypes, DepositRow
  <2>2. deposit \in [Txs -> DepositRow]
    BY DEF TronInv, TronTypes
  <2> QED
    BY <2>1, <2>2 DEF Recorded
<1>2. PICK rows : rows = put
  OBVIOUS
<1> HIDE DEF put
<1>3. /\ found' = found \ {<<t, w>>}
      /\ UNCHANGED <<chain, state, since, swept, done, todo, skipped, crashes>>
      /\ \/ (\E ts \in SUBSET Txs : deposit' = Credited(rows, ts)) /\ lost' = lost
         \/ Loses(1) /\ deposit' \in {deposit, rows}
  BY <1>2 DEF HandleTron, put
<1>4. /\ lost' \in Nat /\ (lost' = 0 => lost = 0)
      /\ deposit' \in [Txs -> DepositRow]
      /\ \A u \in Txs : Recorded(u) => Recorded(u)'
      /\ lost' = 0 => Recorded(t)'
  <2>1. ASSUME NEW ts \in SUBSET Txs, deposit' = Credited(rows, ts), lost' = lost
        PROVE  /\ lost' \in Nat /\ (lost' = 0 => lost = 0)
               /\ deposit' \in [Txs -> DepositRow]
               /\ \A u \in Txs : Recorded(u) => Recorded(u)'
               /\ Recorded(t)'
    BY <1>1, <1>2, <2>1, CreditKeepsRows DEF Recorded, TronInv, TronTypes
  <2>2. CASE Loses(1) /\ deposit' \in {deposit, rows}
    BY <1>1, <1>2, <2>2 DEF Recorded, TronInv, TronTypes, Loses
  <2> QED
    BY <1>3, <2>1, <2>2
<1>5. TronTypes'
  BY <1>3, <1>4 DEF TronInv, TronTypes, chain
<1>6. \A u \in Txs : lost' = 0 /\ InHand(u) => Recorded(u)' \/ InHand(u)'
  BY <1>3, <1>4 DEF InHand
<1> QED
  BY <1>3, <1>4, <1>5, <1>6 DEF TronInv, RecordedBefore, Wanted, chain

\* The next look begins a slack before this sweep did: all before it was found.
LEMMA EndKeeps == ASSUME TronConstants, TronInv, EndSweep PROVE TronInv'
<1>1. /\ state = "sweep" /\ todo = {} /\ found = {} /\ state' = "idle"
      /\ since' = swept - Slack /\ done' = swept
      /\ UNCHANGED <<chain, swept, todo, found, skipped, crashes>>
  BY DEF EndSweep, NextSince
<1>2. PICK failed \in SUBSET Txs, ts \in SUBSET Txs :
         Loses(Cardinality(failed)) /\ deposit' = Credited(deposit, ts)
  <2>1. PICK failed \in SUBSET {t \in Txs : deposit[t].status = "seen" /\ Settled(t)} :
           /\ Loses(Cardinality(failed))
           /\ deposit' = Credited(deposit, {t \in Txs : deposit[t].status = "seen" /\ Settled(t)} \ failed)
    BY DEF EndSweep
  <2> QED
    BY <2>1
<1>3. lost' \in Nat /\ (lost' = 0 => lost = 0)
  <2>1. Cardinality(failed) \in Nat
    BY FS_Subset, FS_CardinalityType DEF TronConstants
  <2> QED
    BY <1>2, <2>1 DEF Loses, TronInv, TronTypes
<1>4. deposit' \in [Txs -> DepositRow] /\ \A u \in Txs : Recorded(u) => Recorded(u)'
  BY <1>2, CreditKeepsRows DEF TronInv, TronTypes, Recorded
<1>5. lost = 0 => RecordedBefore(swept - Slack)
  BY <1>1 DEF TronInv, InHand, RecordedBefore
<1>6. TronTypes'
  BY <1>1, <1>3, <1>4 DEF TronInv, TronTypes, chain, TronConstants
<1>7. since' <= time /\ done' <= swept /\ time - done' <= MaxGap
  BY <1>1 DEF TronInv, TronTypes, TronConstants
<1> QED
  BY <1>1, <1>3, <1>4, <1>5, <1>6, <1>7 DEF TronInv, RecordedBefore, Wanted, chain

LEMMA StopKeeps == ASSUME TronInv, StopTron PROVE TronInv'
BY DEF StopTron, TronInv, TronTypes, RecordedBefore, Recorded, Wanted, chain

LEMMA TronSteps == ASSUME TronConstants, TronInv, [TronNext]_tronVars PROVE TronInv'
<1>1. CASE TronStep
  BY <1>1, StartKeeps, BeginKeeps, ScanKeeps, HandleKeeps, EndKeeps DEF TronStep
<1>2. CASE StopTron
  BY <1>2, StopKeeps
<1> QED
  BY <1>1, <1>2, NetworkKeeps DEF TronNext

\* However often the watcher is restarted and however late TronGrid lists a
\* transfer, no sweep looks past one that is not recorded, unless a lookup
\* or a statement failed or the one page that is read had no room for it
\* (watch_tron's since, tron.rs).
THEOREM SweepsMissNothing == ASSUME TronConstants PROVE TronSpec => []SweptIsRecorded
<1>1. TronInv => SweptIsRecorded
  BY DEF TronInv, TronConstants, RecordedBefore, Recorded, Wanted, SweptIsRecorded
<1> QED
  BY <1>1, TronStarts, TronSteps, PTL DEF TronSpec
-----------------------------------------------------------------------------
(* TronWatcher: what an address was credited is the number of its rows that *)
(* are confirmed, and a row belongs to an address its transaction pays.    *)

RowsOf(w) == {t \in Txs : deposit[t].status = "confirmed" /\ deposit[t].to = w}

TronOwesRows == \A w \in Wallets : due[w] = Cardinality(RowsOf(w))

DueInv ==
    /\ TronOwesRows
    /\ due \in [Wallets -> Nat]
    /\ \A t \in Txs : Recorded(t) => deposit[t].to \in Pays[t]
    /\ \A p \in found : p[2] \in Pays[p[1]]

LEMMA DueStarts == ASSUME TronConstants, TronInit PROVE DueInv
<1>1. \A t \in Txs : deposit[t].status = "none"
  BY DEF TronInit, NoTransfer
<1>2. \A w \in Wallets : RowsOf(w) = {}
  BY <1>1 DEF RowsOf
<1>3. \A w \in Wallets : due[w] = Cardinality(RowsOf(w))
  BY <1>2, FS_EmptySet DEF TronInit
<1> QED
  BY <1>1, <1>3 DEF DueInv, TronOwesRows, Recorded, TronInit

\* Whoever confirms rows that were not pays each of them once.
LEMMA PaysItsRows ==
    ASSUME TronConstants, TronInv, DueInv, NEW rows \in [Txs -> DepositRow], NEW ts \in SUBSET Txs,
           \A t \in Txs : rows[t].status = "confirmed" <=> deposit[t].status = "confirmed",
           \A t \in Txs : rows[t].status = "confirmed" => rows[t] = deposit[t],
           \A t \in ts : rows[t].status # "confirmed",
           deposit' = Credited(rows, ts), due' = Paid(rows, ts)
    PROVE  /\ TronOwesRows' /\ due' \in [Wallets -> Nat]
           /\ \A t \in Txs : deposit'[t].to = rows[t].to
<1>1. \A t \in Txs : /\ deposit'[t].to = rows[t].to
                     /\ deposit'[t].status = IF t \in ts THEN "confirmed" ELSE rows[t].status
  BY DEF Credited, DepositRow
<1>2. ASSUME NEW w \in Wallets
      PROVE  due'[w] = Cardinality(RowsOf(w)') /\ due'[w] \in Nat
  <2> DEFINE New == {t \in ts : rows[t].to = w}
  <2>1. RowsOf(w)' = RowsOf(w) \cup New /\ RowsOf(w) \cap New = {}
    BY <1>1 DEF RowsOf
  <2>2. IsFiniteSet(RowsOf(w)) /\ IsFiniteSet(New)
    BY FS_Subset DEF TronConstants, RowsOf
  <2>3. due'[w] = due[w] + Cardinality(New)
    BY DEF Paid
  <2> HIDE DEF New
  <2>4. Cardinality(RowsOf(w)) \in Nat /\ Cardinality(New) \in Nat /\ Cardinality({}) = 0
    BY <2>2, FS_CardinalityType, FS_EmptySet
  <2>5. Cardinality(RowsOf(w) \cup New) = Cardinality(RowsOf(w)) + Cardinality(New)
    BY <2>1, <2>2, DisjointAdds
  <2>6. due[w] = Cardinality(RowsOf(w))
    BY DEF DueInv, TronOwesRows
  <2> QED
    BY <2>1, <2>3, <2>4, <2>5, <2>6
<1>3. due' \in [Wallets -> Nat]
  <2>1. due' = [w \in Wallets |-> due'[w]]
    BY DEF Paid
  <2>2. \A w \in Wallets : due'[w] \in Nat
    BY <1>2
  <2> QED
    BY <2>1, <2>2
<1> QED
  BY <1>1, <1>2, <1>3 DEF TronOwesRows

LEMMA HandleOwes ==
    ASSUME TronConstants, TronInv, DueInv, NEW t \in Txs, NEW w \in Wallets, HandleTron(t, w)
    PROVE  DueInv'
<1> DEFINE put == [deposit EXCEPT ![t] = Row(t, w)]
           paid == IF Settled(t) /\ put[t].status # "confirmed" THEN {t} ELSE {}
<1>0. deposit \in [Txs -> DepositRow] /\ w \in Pays[t] /\ found' \subseteq found
  BY DEF TronInv, TronTypes, HandleTron, DueInv
<1>1. /\ put \in [Txs -> DepositRow]
      /\ \A u \in Txs : put[u].status = "confirmed" <=> deposit[u].status = "confirmed"
      /\ \A u \in Txs : put[u].status = "confirmed" => put[u] = deposit[u]
      /\ \A u \in Txs : put[u].status # "none" => put[u].to \in Pays[u]
  <2>1. /\ Row(t, w) \in DepositRow
        /\ Row(t, w) = deposit[t] \/ (Row(t, w).status = "seen" /\ Row(t, w).to = w
                                       /\ deposit[t].status = "none")
    BY <1>0 DEF Row, DepositRow
  <2> QED
    BY <1>0, <2>1 DEF DueInv, Recorded
<1>2. /\ paid \in SUBSET Txs
      /\ \A u \in paid : put[u].status # "confirmed" /\ put[u].status # "none"
  BY <1>0 DEF Row
<1>3. \/ deposit' = Credited(put, paid) /\ due' = Paid(put, paid)
      \/ deposit' \in {deposit, put} /\ due' = due
  BY DEF HandleTron
<1> HIDE DEF put, paid
<1>4. CASE deposit' = Credited(put, paid) /\ due' = Paid(put, paid)
  <2>1. /\ TronOwesRows' /\ due' \in [Wallets -> Nat]
        /\ \A u \in Txs : deposit'[u].to = put[u].to
    BY <1>1, <1>2, <1>4, PaysItsRows
  <2>2. \A u \in Txs : deposit'[u].status # "none" => put[u].status # "none"
    BY <1>1, <1>2, <1>4 DEF Credited
  <2> QED
    BY <1>0, <1>1, <2>1, <2>2 DEF DueInv, Recorded
<1>5. CASE deposit' \in {deposit, put} /\ due' = due
  <2>1. \A v \in Wallets : RowsOf(v)' = RowsOf(v)
    BY <1>1, <1>5 DEF RowsOf
  <2> QED
    BY <1>0, <1>1, <1>5, <2>1 DEF DueInv, TronOwesRows, Recorded
<1> QED
  BY <1>3, <1>4, <1>5

LEMMA EndOwes == ASSUME TronConstants, TronInv, DueInv, EndSweep PROVE DueInv'
<1>1. PICK ts \in SUBSET {t \in Txs : deposit[t].status = "seen"} :
         deposit' = Credited(deposit, ts) /\ due' = Paid(deposit, ts)
  <2>1. PICK failed \in SUBSET {t \in Txs : deposit[t].status = "seen" /\ Settled(t)} :
           LET deep == {t \in Txs : deposit[t].status = "seen" /\ Settled(t)} \ failed
           IN  deposit' = Credited(deposit, deep) /\ due' = Paid(deposit, deep)
    BY DEF EndSweep
  <2> QED
    BY <2>1
<1>2. deposit \in [Txs -> DepositRow] /\ found' = found
  BY DEF TronInv, TronTypes, EndSweep
<1>3. /\ TronOwesRows' /\ due' \in [Wallets -> Nat]
      /\ \A t \in Txs : deposit'[t].to = deposit[t].to
  BY <1>1, <1>2, PaysItsRows
<1>4. \A t \in Txs : deposit'[t].status # "none" => deposit[t].status # "none"
  BY <1>1 DEF Credited
<1> QED
  BY <1>2, <1>3, <1>4 DEF DueInv, Recorded

LEMMA DueSteps == ASSUME TronConstants, TronInv, DueInv, [TronNext]_tronVars PROVE DueInv'
<1>1. ASSUME UNCHANGED <<deposit, due>>, \A p \in found' : p[2] \in Pays[p[1]] PROVE DueInv'
  BY <1>1 DEF DueInv, TronOwesRows, RowsOf, Recorded
<1>2. ASSUME NEW w \in Wallets, ScanAddress(w) PROVE DueInv'
  <2>1. \A p \in found' : p[2] \in Pays[p[1]]
    <3> DEFINE list == {t \in listed : w \in Pays[t] /\ landed[t] >= since}
    <3>1. CASE found' = {}
      BY <3>1
    <3>2. ASSUME NEW page \in Pages(list), NEW un \in SUBSET (page \cap Ours \cap known),
                 found' = ((page \cap Ours \cap known) \ un) \X {w}
          PROVE  \A p \in found' : p[2] \in Pays[p[1]]
      <4>1. \A t \in page : w \in Pays[t]
        BY PagesOfList
      <4> QED
        BY <3>2, <4>1
    <3> QED
      BY <1>2, <3>1, <3>2 DEF ScanAddress
  <2> QED
    BY <1>1, <1>2, <2>1 DEF ScanAddress
<1>3. CASE StartTron \/ BeginSweep \/ StopTron \/ TronTime \/ UNCHANGED tronVars
  BY <1>1, <1>3 DEF StartTron, BeginSweep, StopTron, TronTime, tronVars, watchVars, DueInv
<1>4. ASSUME NEW t \in Txs, Land(t) \/ List(t) \/ Place(t) PROVE DueInv'
  BY <1>1, <1>4 DEF Land, List, Place, watchVars, DueInv
<1> QED
  BY <1>2, <1>3, <1>4, HandleOwes, EndOwes DEF TronNext, TronStep

\* Whatever is found twice, lost or restarted, what an address was credited is
\* its confirmed rows (credit_deposit, as TRON's watcher calls it).
THEOREM TronOwesItsRows == ASSUME TronConstants PROVE TronSpec => []TronOwesRows
<1>1. TronInit => TronInv /\ DueInv
  BY TronStarts, DueStarts
<1>2. TronInv /\ DueInv /\ [TronNext]_tronVars => TronInv' /\ DueInv'
  BY TronSteps, DueSteps
<1>3. DueInv => TronOwesRows
  BY DEF DueInv
<1> QED
  BY <1>1, <1>2, <1>3, PTL DEF TronSpec

\* Whoever a credited transaction paid has it, if each transaction pays one of
\* our addresses, which is what tron.rs takes for granted.
THEOREM OneRecipientIsPaid ==
    ASSUME TronConstants, \A t \in Txs : \E w \in Wallets : Pays[t] = {w}
    PROVE  TronSpec => []EveryRecipientIsPaid
<1>1. TronInit => TronInv /\ DueInv
  BY TronStarts, DueStarts
<1>2. TronInv /\ DueInv /\ [TronNext]_tronVars => TronInv' /\ DueInv'
  BY TronSteps, DueSteps
<1>3. DueInv => EveryRecipientIsPaid
  <2> SUFFICES ASSUME DueInv, NEW w \in Wallets
               PROVE  due[w] >= Cardinality({t \in Txs \ skipped : /\ w \in Pays[t]
                                                        /\ landed[t] \in 0..(since - 1)
                                                        /\ deposit[t].status = "confirmed"})
    BY DEF EveryRecipientIsPaid
  <2> DEFINE Credits == {t \in Txs \ skipped : /\ w \in Pays[t]
                                     /\ landed[t] \in 0..(since - 1)
                                     /\ deposit[t].status = "confirmed"}
  <2>1. Credits \in SUBSET RowsOf(w)
    BY DEF RowsOf, DueInv, Recorded
  <2>2. IsFiniteSet(RowsOf(w))
    BY FS_Subset DEF TronConstants, RowsOf
  <2> HIDE DEF Credits
  <2>3. Cardinality(Credits) <= Cardinality(RowsOf(w))
    BY <2>1, <2>2, FS_Subset
  <2>4. Cardinality(Credits) \in Nat /\ Cardinality(RowsOf(w)) \in Nat
    BY <2>1, <2>2, FS_Subset, FS_CardinalityType
  <2>5. due[w] >= Cardinality(Credits)
    BY <2>3, <2>4 DEF DueInv, TronOwesRows
  <2> QED
    BY <2>5 DEF Credits
<1> QED
  BY <1>1, <1>2, <1>3, PTL DEF TronSpec

-----------------------------------------------------------------------------
(* LogScan: a window of one block asks for no more than the overlap and    *)
(* one, so an endpoint that refuses it serves less than that.              *)

\* A refused window can be halved, if the endpoint serves a block more than the
\* overlap.
RefusedIsWide == limit > Overlap /\ phase = "refused" => window > 1

ScanInv ==
    /\ LogScanTypeOK
    /\ phase \in {"call", "answered", "refused", "failed"} => scanned < asked
    /\ phase = "refused" => ~Narrow(limit)

LEMMA Halving ==
    ASSUME NEW n \in Nat, n > 1 PROVE n \div 2 \in 1..n
BY SMT

LEMMA WindowsStayIn ==
    ASSUME LogScanConstants, LogScanTypeOK
    PROVE  Grown \in 1..MaxLogWindow /\ (window > 1 => Halved \in 1..MaxLogWindow)
<1>1. window \in Nat /\ window >= 1 /\ window <= MaxLogWindow /\ MaxLogWindow \in Nat
  BY DEF LogScanConstants, LogScanTypeOK
<1>2. window \div 4 \in Int
  BY <1>1
<1>3. PICK g \in Int : g = Max({window \div 4, 1}) /\ g >= 1
  BY <1>2, MaxOfTwo
<1>4. Grown \in 1..MaxLogWindow
  <2>1. Grown = Min({window + g, MaxLogWindow})
    BY <1>3 DEF Grown
  <2>2. window + g \in Int /\ window + g >= 1
    BY <1>1, <1>3
  <2> QED
    BY <1>1, <2>1, <2>2, MinOfTwo DEF LogScanConstants
<1>5. window > 1 => window \div 2 \in 1..window
  BY <1>1, Halving
<1>6. window > 1 => Halved \in 1..MaxLogWindow
  BY <1>1, <1>5, MaxOfTwo DEF Halved
<1> QED
  BY <1>4, <1>6

\* What a window asks for: blocks up to the head, more than are scanned.
LEMMA AskedBlocks ==
    ASSUME LogScanConstants, LogScanTypeOK, scanned < asked
    PROVE  /\ Upto \in 0..LastBlock /\ Upto > scanned /\ Upto <= scanned + window
           /\ Asked \in Int /\ (window = 1 => Asked <= Overlap + 1)
<1>1. /\ scanned \in Nat /\ asked \in Nat /\ asked <= LastBlock /\ window \in Nat /\ window >= 1
      /\ Overlap \in Nat /\ LastBlock \in Nat
  BY DEF LogScanConstants, LogScanTypeOK
<1>2. Upto = IF scanned + window <= asked THEN scanned + window ELSE asked
  BY <1>1, MinOfTwo DEF Upto
<1>3. From = IF scanned + 1 - Overlap >= 0 THEN scanned + 1 - Overlap ELSE 0
  BY <1>1, MaxOfTwo DEF From
<1> QED
  BY <1>1, <1>2, <1>3 DEF Asked

LEMMA ScanStarts == ASSUME LogScanConstants, LogScanInit PROVE ScanInv
BY DEF LogScanConstants, LogScanInit, ScanInv, LogScanTypeOK

LEMMA ScanKeepsInv == ASSUME LogScanConstants, ScanInv, [ScanNext]_scanVars PROVE ScanInv'
<1> USE DEF LogScanConstants, ScanInv, LogScanTypeOK
<1>1. CASE NewBlock
  BY <1>1 DEF NewBlock, Narrow, Asked, From, Upto
<1>2. CASE StartScan
  <2>1. Max({stored - Behind, 0}) \in 0..LastBlock
    <3>1. stored \in Nat /\ Behind \in Nat /\ stored <= LastBlock
      OBVIOUS
    <3> QED
      BY <3>1, MaxOfTwo
  <2> QED
    BY <1>2, <2>1 DEF StartScan
<1>3. CASE BeginScan
  BY <1>3 DEF BeginScan
<1>4. CASE CallAnswers
  BY <1>4 DEF CallAnswers, Narrow, Asked, From, Upto
<1>5. CASE CallFails
  BY <1>5 DEF CallFails, Narrow, Asked, From, Upto
<1>6. CASE Advance
  <2>1. Upto \in 0..LastBlock
    BY <1>6, AskedBlocks DEF Advance
  <2>2. Grown \in 1..MaxLogWindow
    BY WindowsStayIn
  <2> QED
    BY <1>6, <2>1, <2>2 DEF Advance
<1>7. CASE Refused
  BY <1>7, WindowsStayIn DEF Refused
<1>8. CASE ScanFails
  BY <1>8 DEF ScanFails
<1>9. CASE StopScan
  BY <1>9 DEF StopScan
<1>10. CASE UNCHANGED scanVars
  BY <1>10 DEF scanVars, Narrow, Asked, From, Upto
<1> QED
  BY <1>1, <1>2, <1>3, <1>4, <1>5, <1>6, <1>7, <1>8, <1>9, <1>10 DEF ScanNext, ScanStep

\* No refusal of an endpoint that serves a block more than the overlap ends the
\* watcher: there is a smaller window to ask for, and windows, counts of failures
\* and cursors stay in their ranges (LogWindow::shrink and the error on its None,
\* watch_evm).
THEOREM RefusalsEnd == ASSUME LogScanConstants PROVE LogScanSpec => [](LogScanTypeOK /\ RefusedIsWide)
<1>1. ScanInv => LogScanTypeOK /\ RefusedIsWide
  <2> SUFFICES ASSUME ScanInv, limit > Overlap, phase = "refused" PROVE window > 1
    BY DEF ScanInv, RefusedIsWide
  <2>1. scanned < asked /\ ~Narrow(limit) /\ limit \in Nat /\ window \in Nat /\ window >= 1
    <3>1. limit \in Limits /\ window \in 1..MaxLogWindow
      BY DEF ScanInv, LogScanTypeOK
    <3>2. Limits \subseteq Nat /\ MaxLogWindow \in Nat
      BY DEF LogScanConstants
    <3>3. scanned < asked /\ ~Narrow(limit)
      BY DEF ScanInv
    <3> QED
      BY <3>1, <3>2, <3>3
  <2>2. Asked \in Int /\ (window = 1 => Asked <= Overlap + 1)
    BY <2>1, AskedBlocks DEF ScanInv
  <2> QED
    BY <2>1, <2>2 DEF Narrow, LogScanConstants
<1> QED
  BY <1>1, ScanStarts, ScanKeepsInv, PTL DEF LogScanSpec

-----------------------------------------------------------------------------
(* The types of the ledger, the outbox and the TRON watcher. The invariants *)
(* above have most of them; what is left are the bounds of the clocks and   *)
(* counters.                                                                *)

\* The ledger keeps its types, whoever posts.
THEOREM LedgerTyped == ASSUME LedgerConstants PROVE LedgerSpec => []LedgerTypeOK
<1>1. LedgerInit => LedgerInv
  BY LedgerStarts
<1>2. LedgerInv /\ [LedgerNext]_ledgerVars => LedgerInv'
  BY LedgerSteps
<1>3. LedgerInv => LedgerTypeOK
  BY DEF LedgerInv
<1> QED
  BY <1>1, <1>2, <1>3, PTL DEF LedgerSpec

AlertBounds ==
    /\ told \in BOOLEAN /\ raised \in 0..MaxRaised
    /\ hour \in 0..EndTime /\ mishaps \in 0..MaxMishaps

LEMMA AlertsBounded == ASSUME AlertConstants, AlertBounds, [AlertNext]_alertVars PROVE AlertBounds'
<1> USE DEF AlertBounds, AlertConstants
<1>1. CASE UNCHANGED alertVars
  BY <1>1 DEF alertVars
<1>2. ASSUME NEW r \in Reviewed, Raise(r) PROVE AlertBounds'
  BY <1>2 DEF Raise
<1>3. ASSUME NEW l \in Loops, ClaimAlert(l) \/ MarkDelivered(l) PROVE AlertBounds'
  BY <1>3 DEF ClaimAlert, MarkDelivered
<1>4. ASSUME NEW l \in Loops, SendAlert(l) \/ PutOff(l) \/ DropAlert(l) PROVE AlertBounds'
  BY <1>4 DEF SendAlert, PutOff, DropAlert, Mishap
<1>5. CASE HourPasses
  BY <1>5 DEF HourPasses
<1> QED
  BY <1>1, <1>2, <1>3, <1>4, <1>5 DEF AlertNext

LEMMA AlertTypes ==
    ASSUME AlertInv, AlertBounds, Reviewed # {} PROVE AlertTypeOK
<1>1. Resting.alert \in Reviewed
  BY DEF Resting
<1>2. LoopType = [pc : {"rest", "send", "mark", "retry"}, alert : Reviewed]
  BY <1>1 DEF LoopType
<1> QED
  BY <1>2 DEF AlertInv, AlertBounds, AlertTypeOK, AlertRow

\* The outbox of alerts keeps its types, with any loops and any mishaps.
THEOREM AlertTyped ==
    ASSUME AlertConstants, Reviewed # {} PROVE AlertSpec => []AlertTypeOK
<1>1. AlertInit => AlertInv /\ AlertBounds
  BY AlertStarts DEF AlertInit, AlertBounds, AlertConstants
<1>2. AlertInv /\ AlertBounds /\ [AlertNext]_alertVars => AlertInv' /\ AlertBounds'
  BY AlertSteps, AlertsBounded
<1>3. AlertInv /\ AlertBounds => AlertTypeOK
  BY AlertTypes
<1> QED
  BY <1>1, <1>2, <1>3, PTL DEF AlertSpec

TronBounds ==
    /\ time <= LastTime /\ lost <= MaxLosses /\ crashes \in 0..MaxCrashes
    /\ \A t \in Txs : landed[t] >= -1
    /\ since >= -Day
    /\ state \in {"down", "idle", "sweep"}

LEMMA TronBounded ==
    ASSUME TronConstants, TronInv, TronBounds, [TronNext]_tronVars PROVE TronBounds'
<1>0. /\ {time, swept, lost} \subseteq Nat /\ since \in Int /\ landed \in [Txs -> Int]
      /\ {Day, Slack, MaxGap, LastTime, MaxLosses, MaxCrashes} \subseteq Nat /\ MaxGap + Slack <= Day
  BY DEF TronInv, TronTypes, TronConstants
<1>1. CASE UNCHANGED tronVars
  BY <1>1 DEF tronVars, TronBounds
<1>2. ASSUME NEW t \in Txs, Land(t) \/ List(t) \/ Place(t) PROVE TronBounds'
  BY <1>0, <1>2 DEF Land, List, Place, watchVars, TronBounds
<1>3. CASE TronTime
  BY <1>0, <1>3 DEF TronTime, watchVars, TronBounds
<1>4. CASE StartTron
  BY <1>0, <1>4 DEF StartTron, chain, TronBounds
<1>5. CASE BeginSweep
  BY <1>5 DEF BeginSweep, chain, TronBounds
<1>6. CASE EndSweep
  BY <1>0, <1>6 DEF EndSweep, NextSince, Loses, chain, TronBounds
<1>7. ASSUME NEW w \in Wallets, ScanAddress(w) PROVE TronBounds'
  BY <1>0, <1>7 DEF ScanAddress, Loses, chain, TronBounds
<1>8. ASSUME NEW w \in Wallets, NEW t \in Txs, HandleTron(t, w) PROVE TronBounds'
  BY <1>0, <1>8 DEF HandleTron, Loses, chain, TronBounds
<1>9. CASE StopTron
  BY <1>0, <1>9 DEF StopTron, chain, TronBounds
<1> QED
  BY <1>1, <1>2, <1>3, <1>4, <1>5, <1>6, <1>7, <1>8, <1>9 DEF TronNext, TronStep

LEMMA TronTypesFit ==
    ASSUME TronConstants, TronInv, DueInv, TronBounds, Wallets # {} PROVE TronTypeOK
<1>1. NoTransfer.to \in Wallets
  BY DEF NoTransfer
<1>2. DepositRow = [status : {"none", "seen", "confirmed"}, to : Wallets]
  BY <1>1 DEF DepositRow
<1>3. \A t \in Txs : landed[t] \in Int /\ landed[t] <= time
  BY DEF TronInv, TronTypes
<1>4. landed \in [Txs -> -1..LastTime]
  BY <1>3 DEF TronInv, TronTypes, TronBounds, TronConstants
<1> QED
  BY <1>2, <1>4 DEF TronInv, TronTypes, DueInv, TronBounds, TronConstants, TronTypeOK

\* The TRON watcher keeps its types, whatever is listed, lost or restarted.
THEOREM TronTyped ==
    ASSUME TronConstants, Wallets # {} PROVE TronSpec => []TronTypeOK
<1>1. TronInit => TronInv /\ DueInv /\ TronBounds
  BY TronStarts, DueStarts DEF TronInit, TronBounds, TronConstants
<1>2. TronInv /\ DueInv /\ TronBounds /\ [TronNext]_tronVars => TronInv' /\ DueInv' /\ TronBounds'
  BY TronSteps, DueSteps, TronBounded
<1>3. TronInv /\ DueInv /\ TronBounds => TronTypeOK
  BY TronTypesFit
<1> QED
  BY <1>1, <1>2, <1>3, PTL DEF TronSpec

-----------------------------------------------------------------------------
(* The parts side by side. A step of one part is a stutter of the others,  *)
(* so what is proved of a part alone holds where they are explored         *)
(* together.                                                               *)

LogScanMoves == LogScanInit /\ [][ScanNext]_scanVars

\* Each part explored by MCWorkers is the part itself: its steps are its own or
\* none. (Of the scan, its safety: MCWorkers is fair to it only while it runs.)
THEOREM WorkersMoveAlone ==
    AllSpec => /\ LogScanMoves /\ TronSpec /\ AlertSpec /\ ShopSpec /\ PriceListSpec /\ LedgerSpec
<1>1. AllInit => /\ LogScanInit /\ TronInit /\ AlertInit /\ ShopInit /\ PriceListInit /\ LedgerInit
  BY DEF AllInit
<1>2. [AllNext]_allVars => [ScanNext]_scanVars
  BY DEF AllNext, allVars, Others
<1>3. [AllNext]_allVars => [TronNext]_tronVars
  BY DEF AllNext, allVars, Others
<1>4. [AllNext]_allVars => [AlertNext]_alertVars
  BY DEF AllNext, allVars, Others
<1>5. [AllNext]_allVars => [ShopNext]_shopVars
  <2>1. (\E o \in Purchases : BuyStep(o)) => OrderStep
    BY DEF OrderStep
  <2> QED
    BY <2>1 DEF AllNext, allVars, Others, ShopNext
<1>6. [AllNext]_allVars => [PriceListNext]_priceVars
  BY DEF AllNext, allVars, Others
<1>7. [AllNext]_allVars => [LedgerNext]_ledgerVars
  BY DEF AllNext, allVars, Others
<1> QED
  BY <1>1, <1>2, <1>3, <1>4, <1>5, <1>6, <1>7, PTL
     DEF AllSpec, LogScanMoves, TronSpec, AlertSpec, ShopSpec, PriceListSpec, LedgerSpec

\* Side by side, the parts keep their types.
THEOREM WorkersTyped ==
    ASSUME LogScanConstants, TronConstants, AlertConstants, ShopConstants, NameOrder, PriceListConstants,
           LedgerConstants, Reviewed # {}, Wallets # {}, Skus # {}, IsFiniteSet(Skus)
    PROVE  AllSpec => []AllTypeOK
<1>1. ScanInv => LogScanTypeOK
  BY DEF ScanInv
<1>2. LogScanMoves => []LogScanTypeOK
  BY <1>1, ScanStarts, ScanKeepsInv, PTL DEF LogScanMoves
<1> QED
  BY <1>2, WorkersMoveAlone, TronTyped, AlertTyped, ShopTyped, PriceListTyped, LedgerTyped, PTL
     DEF AllTypeOK
===============================================================================
