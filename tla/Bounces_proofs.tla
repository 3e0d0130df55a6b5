---------------------------- MODULE Bounces_proofs ----------------------------
(***************************************************************************)
(* What the block list promises for any number of addresses, mails and     *)
(* notices, any limit and any number of failures.                          *)
(***************************************************************************)
EXTENDS Bounces, TLAPS

-----------------------------------------------------------------------------
(* The inductive invariant.                                                *)

\* A row that is not fresh has had no bounce since it lapsed.
LapsedInv == \A e \in Emails : row[e].is # "fresh" => since[e] = 0

\* A mail about to reset a row wipes nothing out that is not on record.
ResetInv == \A m \in Mails : mail[m] = "reset" => since[To[m]] = 0 \/ To[m] \in wiped

\* What the handler has done for a notice, by where it is with it.
NoticeInv == \A n \in Notices :
  /\ notice[n] = "remove" => n \in counted \cup excused
  /\ notice[n] \in {"delete", "gone"} =>
       n \in excused \cup Unreadable \/ (n \in counted /\ removals[n] > 0)

IInv == /\ TypeOK /\ LapsedInv /\ ResetInv /\ NoticeInv
        /\ CountCoversBounces /\ BouncingIsSkipped

LEMMA InitIInv == Init => IInv
BY BouncesConstants DEF Init, IInv, TypeOK, LapsedInv, ResetInv, NoticeInv, CountCoversBounces,
   BouncingIsSkipped, Rows, MailPcs, NoticePcs

-----------------------------------------------------------------------------
(* The steps of a mail.                                                    *)

\* A step that moves one mail and touches no row, no notice and no history.
LEMMA MailMoves ==
  ASSUME IInv, NEW m \in Mails, NEW pc \in MailPcs, GoMail(m, pc), faults' \in Nat,
         UNCHANGED <<row, notice, removals, lapses, since, wiped, heavy, counted, excused>>,
         pc # "reset", m \in heavy => pc \notin {"send", "sent"}
  PROVE  IInv'
<1> USE DEF IInv
<1>1. mail' \in [Mails -> MailPcs]
  BY DEF TypeOK, GoMail
<1>2. TypeOK'
  BY <1>1 DEF TypeOK
<1>3. LapsedInv' /\ NoticeInv' /\ CountCoversBounces'
  BY DEF LapsedInv, NoticeInv, CountCoversBounces
<1>4. ResetInv'
  BY DEF ResetInv, GoMail, TypeOK
<1>5. BouncingIsSkipped'
  BY DEF BouncingIsSkipped, GoMail, TypeOK
<1> QED  BY <1>2, <1>3, <1>4, <1>5

\* The read finds an address over its limit on a fresh row, and refuses it.
LEMMA CheckKeeps ==
  ASSUME IInv, NEW m \in Mails, Check(m)
  PROVE  IInv'
<1> USE DEF IInv
<1> DEFINE e == To[m]
<1>1. e \in Emails /\ row[e] \in Rows /\ since[e] \in Nat /\ row[e].count \in Nat
  BY BouncesConstants DEF TypeOK, Rows
<1>2. Verdict(e) \in {"send", "reset", "refused"}
  BY DEF Verdict
<1>3. ASSUME IsHeavy(e) PROVE Verdict(e) = "refused"
  <2>1. row[e].is = "fresh"
    BY <1>1, <1>3, BouncesConstants DEF IsHeavy, LapsedInv
  <2>2. ~(row[e].count <= SkipAbove)
    BY <1>1, <1>3, BouncesConstants DEF IsHeavy, CountCoversBounces
  <2> QED  BY <2>1, <2>2 DEF Verdict
<1>4. ASSUME Verdict(e) = "reset" PROVE since[e] = 0
  BY <1>1, <1>4 DEF Verdict, LapsedInv
<1>5. mail' = [mail EXCEPT ![m] = Verdict(e)]
  BY DEF Check, GoMail
<1>6. heavy' = IF IsHeavy(e) THEN heavy \cup {m} ELSE heavy \ {m}
  BY DEF Check
<1>7. UNCHANGED <<row, notice, removals, lapses, faults, since, wiped, counted, excused>>
  BY DEF Check
<1>8. TypeOK'
  BY <1>2, <1>5, <1>6, <1>7 DEF TypeOK, MailPcs
<1>9. LapsedInv' /\ NoticeInv' /\ CountCoversBounces'
  BY <1>7 DEF LapsedInv, NoticeInv, CountCoversBounces
<1>10. ResetInv'
  BY <1>4, <1>5, <1>7 DEF ResetInv, TypeOK
<1>11. BouncingIsSkipped'
  BY <1>3, <1>5, <1>6 DEF BouncingIsSkipped, TypeOK
<1> QED  BY <1>8, <1>9, <1>10, <1>11

\* The reset finds nothing to wipe out, or wipes out what is on record.
LEMMA ResetKeeps ==
  ASSUME IInv, NEW m \in Mails, Reset(m)
  PROVE  IInv'
<1> USE DEF IInv
<1> DEFINE e == To[m]
<1>1. e \in Emails /\ (since[e] = 0 \/ e \in wiped) /\ m \notin heavy
  BY BouncesConstants DEF Reset, ResetInv, BouncingIsSkipped
<1>2. row' = [row EXCEPT ![e] = [row[e] EXCEPT !.count = 0]] /\ mail' = [mail EXCEPT ![m] = "send"]
  BY DEF Reset, GoMail
<1>3. UNCHANGED <<notice, removals, lapses, faults, since, wiped, heavy, counted, excused>>
  BY DEF Reset
<1>4. TypeOK'
  BY <1>1, <1>2, <1>3 DEF TypeOK, Rows, MailPcs
<1>5. \A x \in Emails : row'[x].is = row[x].is /\ (x # e => row'[x].count = row[x].count)
                        /\ (x = e => row'[x].count = 0)
  BY <1>1, <1>2 DEF TypeOK, Rows
<1>6. LapsedInv' /\ NoticeInv'
  BY <1>3, <1>5 DEF LapsedInv, NoticeInv
<1>7. CountCoversBounces'
  BY <1>1, <1>3, <1>5 DEF CountCoversBounces
<1>8. ResetInv' /\ BouncingIsSkipped'
  BY <1>1, <1>2, <1>3 DEF ResetInv, BouncingIsSkipped, TypeOK
<1> QED  BY <1>4, <1>6, <1>7, <1>8

LEMMA MailStepKeeps ==
  ASSUME IInv, NEW m \in Mails, MailStep(m)
  PROVE  IInv'
<1>1. CASE StartMail(m)
  BY <1>1, MailMoves DEF StartMail, MailPcs, IInv, TypeOK
<1>2. CASE Check(m)
  BY <1>2, CheckKeeps
<1>3. CASE Reset(m)
  BY <1>3, ResetKeeps
<1>4. CASE ResetFails(m)
  <2>1. m \notin heavy /\ faults' \in Nat
    BY <1>4 DEF ResetFails, Fault, IInv, TypeOK, BouncingIsSkipped
  <2> QED  BY <1>4, <2>1, MailMoves DEF ResetFails, MailPcs
<1>5. CASE Send(m)
  <2>1. m \notin heavy /\ faults' \in Nat
    BY <1>5 DEF Send, IInv, TypeOK, BouncingIsSkipped
  <2> QED  BY <1>5, <2>1, MailMoves DEF Send, MailPcs
<1>6. CASE MailFails(m)
  <2>1. faults' \in Nat
    BY <1>6 DEF MailFails, Fault, IInv, TypeOK
  <2> QED  BY <1>6, <2>1, MailMoves DEF MailFails, MailPcs
<1> QED  BY <1>1, <1>2, <1>3, <1>4, <1>5, <1>6 DEF MailStep

-----------------------------------------------------------------------------
(* The steps of a notice.                                                  *)

\* A step that moves one notice and touches no row and no mail.
LEMMA NoticeMoves ==
  ASSUME IInv, NEW n \in Notices, NEW pc \in NoticePcs, GoNotice(n, pc),
         faults' \in Nat, removals' \in [Notices -> Nat], excused' \in SUBSET Notices,
         UNCHANGED <<row, mail, lapses, since, wiped, heavy, counted>>, NoticeInv'
  PROVE  IInv'
<1> USE DEF IInv
<1>1. TypeOK'
  BY DEF TypeOK, GoNotice
<1>2. LapsedInv' /\ ResetInv' /\ CountCoversBounces' /\ BouncingIsSkipped'
  BY DEF LapsedInv, ResetInv, CountCoversBounces, BouncingIsSkipped
<1> QED  BY <1>1, <1>2

\* One more bounce: the row is fresh, and a reset under way is on record.
LEMMA RaiseKeeps ==
  ASSUME IInv, NEW n \in Notices, RaiseCount(n)
  PROVE  IInv'
<1> USE DEF IInv
<1> DEFINE e == About[n]
<1>1. e \in Emails /\ row[e].count \in Nat /\ since[e] \in Nat
  BY BouncesConstants DEF TypeOK, Rows
<1>2. row' = [row EXCEPT ![e] = [is |-> "fresh", count |-> row[e].count + 1]]
  BY DEF RaiseCount, Raised
<1>3. /\ since' = [since EXCEPT ![e] = @ + 1]
      /\ wiped' = IF \E m \in Mails : To[m] = e /\ mail[m] = "reset" THEN wiped \cup {e} ELSE wiped
      /\ counted' = counted \cup {n}
      /\ notice' = [notice EXCEPT ![n] = "remove"]
      /\ UNCHANGED <<mail, removals, lapses, faults, heavy, excused>>
  BY DEF RaiseCount, GoNotice
<1>4. TypeOK'
  BY <1>1, <1>2, <1>3 DEF TypeOK, Rows, NoticePcs
<1>5. \A x \in Emails : IF x = e THEN /\ row'[x].is = "fresh"
                                      /\ row'[x].count = row[x].count + 1
                                      /\ since'[x] = since[x] + 1
                        ELSE row'[x] = row[x] /\ since'[x] = since[x]
  BY <1>1, <1>2, <1>3 DEF TypeOK, Rows
<1>6. LapsedInv'
  BY <1>5 DEF LapsedInv
<1>7. wiped \subseteq wiped'
  BY <1>3
<1>8. ResetInv'
  <2> SUFFICES ASSUME NEW m \in Mails, mail'[m] = "reset"
               PROVE  since'[To[m]] = 0 \/ To[m] \in wiped'
    BY DEF ResetInv
  <2>1. CASE To[m] = e
    BY <1>3, <2>1
  <2>2. CASE To[m] # e
    BY <1>3, <1>5, <1>7, <2>2, BouncesConstants DEF ResetInv
  <2> QED  BY <2>1, <2>2
<1>9. CountCoversBounces'
  <2> SUFFICES ASSUME NEW x \in Emails, x \notin wiped'  PROVE since'[x] <= row'[x].count
    BY DEF CountCoversBounces
  <2>1. since[x] <= row[x].count
    BY <1>7 DEF CountCoversBounces
  <2> QED  BY <1>1, <1>5, <2>1 DEF TypeOK, Rows
<1>10. NoticeInv'
  BY <1>3 DEF NoticeInv, TypeOK
<1>11. BouncingIsSkipped'
  BY <1>3 DEF BouncingIsSkipped
<1> QED  BY <1>4, <1>6, <1>8, <1>9, <1>10, <1>11

LEMMA NoticeStepKeeps ==
  ASSUME IInv, NEW n \in Notices, NoticeStep(n)
  PROVE  IInv'
<1> USE DEF IInv
<1>1. CASE Arrive(n)
  <2>1. NoticeInv'
    BY <1>1 DEF Arrive, FirstOf, GoNotice, NoticeInv, TypeOK
  <2> QED  BY <1>1, <2>1, NoticeMoves DEF Arrive, FirstOf, NoticePcs, TypeOK
<1>2. CASE RaiseCount(n)
  BY <1>2, RaiseKeeps
<1>3. CASE AskRemoval(n)
  <2>1. NoticeInv' /\ removals' \in [Notices -> Nat]
    BY <1>3 DEF AskRemoval, GoNotice, NoticeInv, TypeOK
  <2> QED  BY <1>3, <2>1, NoticeMoves DEF AskRemoval, NoticePcs, TypeOK
<1>4. CASE DeleteNotice(n)
  <2>1. NoticeInv'
    BY <1>4 DEF DeleteNotice, GoNotice, NoticeInv, TypeOK
  <2> QED  BY <1>4, <2>1, NoticeMoves DEF DeleteNotice, NoticePcs, TypeOK
<1>5. CASE CountFails(n)
  <2>1. NoticeInv' /\ faults' \in Nat
    BY <1>5 DEF CountFails, Fault, GoNotice, NoticeInv, TypeOK
  <2> QED  BY <1>5, <2>1, NoticeMoves DEF CountFails, NoticePcs, TypeOK
<1>6. CASE RemovalFails(n)
  <2>1. NoticeInv' /\ faults' \in Nat
    BY <1>6 DEF RemovalFails, Fault, GoNotice, NoticeInv, TypeOK
  <2> QED  BY <1>6, <2>1, NoticeMoves DEF RemovalFails, NoticePcs, TypeOK
<1>7. CASE Stops(n)
  <2>1. NoticeInv' /\ faults' \in Nat
    BY <1>7 DEF Stops, FirstOf, Fault, GoNotice, NoticeInv, TypeOK
  <2> QED  BY <1>7, <2>1, NoticeMoves DEF Stops, FirstOf, NoticePcs, TypeOK
<1> QED  BY <1>1, <1>2, <1>3, <1>4, <1>5, <1>6, <1>7 DEF NoticeStep

-----------------------------------------------------------------------------
(* The rest, and the theorems.                                             *)

LEMMA LapseKeeps ==
  ASSUME IInv, NEW e \in Emails, Lapse(e)
  PROVE  IInv'
<1> USE DEF IInv
<1>1. /\ row' = [row EXCEPT ![e] = [row[e] EXCEPT !.is = "lapsed"]]
      /\ since' = [since EXCEPT ![e] = 0] /\ wiped' = wiped \ {e}
      /\ lapses' = lapses + 1
      /\ UNCHANGED <<mail, notice, removals, faults, heavy, counted, excused>>
  BY DEF Lapse
<1>2. TypeOK'
  BY <1>1 DEF TypeOK, Rows
<1>3. \A x \in Emails : /\ row'[x].count = row[x].count /\ row'[x].count \in Nat
                        /\ IF x = e THEN since'[x] = 0
                           ELSE row'[x] = row[x] /\ since'[x] = since[x]
  BY <1>1 DEF TypeOK, Rows
<1>4. LapsedInv'
  BY <1>3 DEF LapsedInv
<1>5. CountCoversBounces'
  BY <1>1, <1>3 DEF CountCoversBounces
<1>6. ResetInv'
  BY <1>1, <1>3, BouncesConstants DEF ResetInv
<1>7. NoticeInv' /\ BouncingIsSkipped'
  BY <1>1 DEF NoticeInv, BouncingIsSkipped
<1> QED  BY <1>2, <1>4, <1>5, <1>6, <1>7

LEMMA StutterKeeps == ASSUME IInv, UNCHANGED vars PROVE IInv'
BY DEF vars, IInv, TypeOK, LapsedInv, ResetInv, NoticeInv, CountCoversBounces, BouncingIsSkipped

\* The six parts together hold in every state of every behaviour.
THEOREM Invariance == Spec => []IInv
<1>1. IInv /\ [Next]_vars => IInv'
  BY MailStepKeeps, NoticeStepKeeps, LapseKeeps, StutterKeeps DEF Next
<1> QED  BY InitIInv, <1>1, PTL DEF Spec

\* Rows, mails and notices are well formed whatever fails.
THEOREM BounceTypes == Spec => []TypeOK
BY Invariance, PTL DEF IInv

\* A count covers the bounces since its row last lapsed, unless one of them
\* came between the two statements of is_safe_to_send_to.
THEOREM CountIsKept == Spec => []CountCoversBounces
BY Invariance, PTL DEF IInv

\* An address over the limit when the row is read is sent nothing.
THEOREM NoMailToBouncing == Spec => []BouncingIsSkipped
BY Invariance, PTL DEF IInv

\* A bounce that the handler could read and of which no call failed was counted,
\* and its removal asked for, by the time its message is gone.
THEOREM ReadableBouncesCount == Spec => []NoticeLostTwoWays
<1>1. IInv => NoticeLostTwoWays
  BY DEF IInv, NoticeInv, NoticeLostTwoWays
<1> QED  BY Invariance, <1>1, PTL
==============================================================================
