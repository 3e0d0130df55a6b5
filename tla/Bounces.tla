-------------------------------- MODULE Bounces --------------------------------
(***************************************************************************)
(* The addresses that mail is not sent to.  The bounce handler counts the  *)
(* bounces and complaints of an address in problematicemails, and asks the *)
(* mail function to take it off the newsletter's list (Newsletter).  The   *)
(* mail function reads the count before it sends an individual mail, and   *)
(* sets it to zero, in a second statement, when a week has passed since    *)
(* the last bounce.                                                        *)
(* A step is one call to Postgres, SES, SQS or Lambda.                     *)
(***************************************************************************)
EXTENDS Integers

CONSTANTS
    Emails,
    Mails,     \* individual mails
    To,        \* [Mails -> Emails]
    Notices,   \* bounces and complaints
    About,     \* [Notices -> Emails]
    Unreadable, \* notices that do not deserialize into the types of the handler
    SkipAbove, \* SKIP_EMAIL_IF_BLOCK_COUNT_ABOVE
    MaxLapses, \* bound: times a row lapses
    MaxFaults  \* bound: calls that fail, handlers that stop

ASSUME BouncesConstants ==
    /\ To \in [Mails -> Emails] /\ About \in [Notices -> Emails]
    /\ Unreadable \subseteq Notices
    /\ SkipAbove \in Nat /\ MaxLapses \in Nat /\ MaxFaults \in Nat

VARIABLES
    row,      \* problematicemails: is the date to come, or has it lapsed?
    mail,     \* where the mail function is with a mail
    notice,   \* where the bounce handler is with a message
    removals, \* removals asked of the mail function
    lapses,
    faults,
    since,    \* history: bounces counted since the row last lapsed
    wiped,    \* history: addresses with a bounce between the two statements
    heavy,    \* history: mails found to have more bounces than the limit
    counted,  \* history: notices counted
    excused   \* history: notices of which a call failed

vars == <<row, mail, notice, removals, lapses, faults, since, wiped, heavy, counted, excused>>

Rows == [is : {"absent", "fresh", "lapsed"}, count : Nat]
MailPcs == {"asked", "check", "reset", "send", "sent", "refused"}
NoticePcs == {"none", "count", "remove", "delete", "gone"}

Init ==
    /\ row = [e \in Emails |-> [is |-> "absent", count |-> 0]]
    /\ mail = [m \in Mails |-> "asked"]
    /\ notice = [n \in Notices |-> "none"]
    /\ removals = [n \in Notices |-> 0]
    /\ lapses = 0 /\ faults = 0
    /\ since = [e \in Emails |-> 0]
    /\ wiped = {} /\ heavy = {} /\ counted = {} /\ excused = {}

Fault == faults < MaxFaults /\ faults' = faults + 1

-----------------------------------------------------------------------------
(* An individual mail.                                                     *)

GoMail(m, pc) == mail' = [mail EXCEPT ![m] = pc]

\* Lambda runs the function; and again, when an event has ended in an error.
StartMail(m) ==
    /\ mail[m] \in {"asked", "refused"}
    /\ GoMail(m, "check")
    /\ UNCHANGED <<row, notice, removals, lapses, faults, since, wiped, heavy, counted, excused>>

\* Mutant: one bounce more than the limit is let through.
VerdictAbove(e) ==
    IF row[e].is = "absent" THEN "send"
    ELSE IF row[e].is = "lapsed" THEN "reset"
    ELSE IF row[e].count <= SkipAbove + 1 THEN "send" ELSE "refused"

\* is_safe_to_send_to: no row is safe, and so is a count within the limit; a
\* row whose date has passed is reset first.
Verdict(e) ==
    IF row[e].is = "absent" THEN "send"
    ELSE IF row[e].is = "lapsed" THEN "reset"
    ELSE IF row[e].count <= SkipAbove THEN "send" ELSE "refused"

IsHeavy(e) == since[e] > SkipAbove /\ e \notin wiped

Check(m) ==
    /\ mail[m] = "check"
    /\ GoMail(m, Verdict(To[m]))
    /\ heavy' = IF IsHeavy(To[m]) THEN heavy \cup {m} ELSE heavy \ {m}
    /\ UNCHANGED <<row, notice, removals, lapses, faults, since, wiped, counted, excused>>

\* Mutant: one bounce is forgotten at a time.
ResetDecays(m) ==
    /\ mail[m] = "reset"
    /\ row' = [row EXCEPT ![To[m]] = [row[To[m]] EXCEPT !.count = @ - 1]]
    /\ GoMail(m, "send")
    /\ UNCHANGED <<notice, removals, lapses, faults, since, wiped, heavy, counted, excused>>

\* The UPDATE of a row that has lapsed.  The date stays as it is.
Reset(m) ==
    /\ mail[m] = "reset"
    /\ row' = [row EXCEPT ![To[m]] = [row[To[m]] EXCEPT !.count = 0]]
    /\ GoMail(m, "send")
    /\ UNCHANGED <<notice, removals, lapses, faults, since, wiped, heavy, counted, excused>>

\* Its failure is ignored.
ResetFails(m) ==
    /\ mail[m] = "reset"
    /\ Fault
    /\ GoMail(m, "send")
    /\ UNCHANGED <<row, notice, removals, lapses, since, wiped, heavy, counted, excused>>

\* send_email.
Send(m) ==
    /\ mail[m] = "send"
    /\ GoMail(m, "sent")
    /\ UNCHANGED <<row, notice, removals, lapses, faults, since, wiped, heavy, counted, excused>>

\* The SELECT fails, which counts as not safe, or send_email does.
MailFails(m) ==
    /\ mail[m] \in {"check", "send"}
    /\ Fault
    /\ GoMail(m, "refused")
    /\ UNCHANGED <<row, notice, removals, lapses, since, wiped, heavy, counted, excused>>

-----------------------------------------------------------------------------
(* A bounce or a complaint.                                                *)

GoNotice(n, pc) == notice' = [notice EXCEPT ![n] = pc]

\* What the handler does first.  A body or a notice that does not deserialize,
\* such as one of a subtype that BounceSubType and ComplaintSubType do not list,
\* is logged, and the next call deletes the message.
FirstOf(n) == IF n \in Unreadable THEN "delete" ELSE "count"

\* SES reports a bounce or a complaint about an earlier mail.
Arrive(n) ==
    /\ notice[n] = "none"
    /\ GoNotice(n, FirstOf(n))
    /\ UNCHANGED <<row, mail, removals, lapses, faults, since, wiped, heavy, counted, excused>>

\* Mutant: only the first bounce sets the date.
RaisedKeepsDate(e) ==
    [is |-> IF row[e].is = "absent" THEN "fresh" ELSE row[e].is, count |-> row[e].count + 1]

\* The upsert goes on from the old count, even that of a row that has lapsed.
Raised(e) == [is |-> "fresh", count |-> row[e].count + 1]

\* raise_count_in_db.
RaiseCount(n) ==
    LET e == About[n]
    IN  /\ notice[n] = "count"
        /\ row' = [row EXCEPT ![e] = Raised(e)]
        /\ since' = [since EXCEPT ![e] = @ + 1]
        /\ wiped' = IF \E m \in Mails : To[m] = e /\ mail[m] = "reset"
                    THEN wiped \cup {e} ELSE wiped
        /\ counted' = counted \cup {n}
        /\ GoNotice(n, "remove")
        /\ UNCHANGED <<mail, removals, lapses, faults, heavy, excused>>

\* The mail function is invoked, as an event, to take the address off the list.
AskRemoval(n) ==
    /\ notice[n] = "remove"
    /\ removals' = [removals EXCEPT ![n] = @ + 1]
    /\ GoNotice(n, "delete")
    /\ UNCHANGED <<row, mail, lapses, faults, since, wiped, heavy, counted, excused>>

\* Either fails; the handler goes on.
CountFails(n) ==
    /\ notice[n] = "count"
    /\ Fault
    /\ excused' = excused \cup {n}
    /\ GoNotice(n, "remove")
    /\ UNCHANGED <<row, mail, removals, lapses, since, wiped, heavy, counted>>

RemovalFails(n) ==
    /\ notice[n] = "remove"
    /\ Fault
    /\ excused' = excused \cup {n}
    /\ GoNotice(n, "delete")
    /\ UNCHANGED <<row, mail, removals, lapses, since, wiped, heavy, counted>>

DeleteNotice(n) ==
    /\ notice[n] = "delete"
    /\ GoNotice(n, "gone")
    /\ UNCHANGED <<row, mail, removals, lapses, faults, since, wiped, heavy, counted, excused>>

\* Mutant: a handler that stops has lost its message.
StopsGone(n) ==
    /\ notice[n] \in {"count", "remove", "delete"}
    /\ Fault
    /\ GoNotice(n, "gone")
    /\ UNCHANGED <<row, mail, removals, lapses, since, wiped, heavy, counted, excused>>

\* The handler stops, or the deletion fails: SQS delivers the message again.
Stops(n) ==
    /\ notice[n] \in {"count", "remove", "delete"}
    /\ Fault
    /\ GoNotice(n, FirstOf(n))
    /\ UNCHANGED <<row, mail, removals, lapses, since, wiped, heavy, counted, excused>>

\* COMPLAINT_BOUNCE_NEXT_RESET has passed since the last bounce.
Lapse(e) ==
    /\ row[e].is = "fresh"
    /\ lapses < MaxLapses
    /\ lapses' = lapses + 1
    /\ row' = [row EXCEPT ![e] = [row[e] EXCEPT !.is = "lapsed"]]
    /\ since' = [since EXCEPT ![e] = 0]
    /\ wiped' = wiped \ {e}
    /\ UNCHANGED <<mail, notice, removals, faults, heavy, counted, excused>>

-----------------------------------------------------------------------------
MailStep(m) ==
    StartMail(m) \/ Check(m) \/ Reset(m) \/ ResetFails(m) \/ Send(m) \/ MailFails(m)

NoticeStep(n) ==
    \/ Arrive(n) \/ RaiseCount(n) \/ AskRemoval(n) \/ DeleteNotice(n)
    \/ CountFails(n) \/ RemovalFails(n) \/ Stops(n)

Next ==
    \/ \E m \in Mails : MailStep(m)
    \/ \E n \in Notices : NoticeStep(n)
    \/ \E e \in Emails : Lapse(e)

Spec == Init /\ [][Next]_vars

-----------------------------------------------------------------------------
(* Properties.                                                             *)

\* Rows, mails and notices are well formed.
TypeOK ==
    /\ row \in [Emails -> Rows]
    /\ mail \in [Mails -> MailPcs]
    /\ notice \in [Notices -> NoticePcs]
    /\ removals \in [Notices -> Nat]
    /\ lapses \in Nat /\ faults \in Nat
    /\ since \in [Emails -> Nat]
    /\ wiped \in SUBSET Emails
    /\ heavy \in SUBSET Mails
    /\ counted \in SUBSET Notices /\ excused \in SUBSET Notices

\* The count of an address covers every bounce counted since its row last
\* lapsed.  The exception is a bounce that comes between the two statements
\* of is_safe_to_send_to: the second may wipe it out.
CountCoversBounces == \A e \in Emails \ wiped : since[e] <= row[e].count

\* No mail goes to an address that had more bounces than the limit, since its
\* row last lapsed, when the row was read.
BouncingIsSkipped == \A m \in heavy : mail[m] \notin {"reset", "send", "sent"}

\* A bounce whose message is gone was counted, and the removal of its address
\* was asked for, in all but two cases, of which only a log line is left: the
\* one or the other call failed, or the handler could not read the notice.
NoticeLostTwoWays ==
    \A n \in Notices : notice[n] = "gone" =>
        \/ n \in counted /\ removals[n] > 0
        \/ n \in excused \/ n \in Unreadable
==============================================================================
