------------------------------ MODULE Tickets ------------------------------
(***************************************************************************)
(* Support tickets: the staff claim, release, close and delete them and    *)
(* answer on them (routes/admin/support/ticket.rs), the customer answers   *)
(* by mail (aws-lambda-email-support-response-handler).                    *)
(*                                                                         *)
(* Every writer runs a SERIALIZABLE transaction that begins with SELECT    *)
(* FOR UPDATE of the ticket.  Its snapshot is taken when that statement    *)
(* starts, and the lock is granted when no other writer has it: a writer   *)
(* that finds the row changed since its snapshot cannot be serialized and  *)
(* fails.  One step takes the snapshot, one is the rest of the             *)
(* transaction, up to COMMIT; "overtaken" says that the row has changed    *)
(* between the two.                                                        *)
(***************************************************************************)
EXTENDS Naturals, Sequences, FiniteSets

CONSTANTS
    Tickets,     \* ids of supporttickets, a serial: never used twice
    Emails,      \* addresses of customers
    Users,       \* accounts whose access token has the support privilege
    Staff,       \* requests to /admin/support/ticket under way at once
    Agent,       \* [Staff -> Users]: the account of a request
    Mails,       \* mails sent to the support address
    None,        \* SQL NULL, and no row
    MaxMessages, \* bound: no new answer of the staff on a longer ticket
    MaxFaults,   \* bound: calls that fail
    MaxCrashes   \* bound: handlers that stop half way

PutModes == {"Claim", "Unclaim", "Close"}
Ops == PutModes \cup {"Delete", "Post"}
States == {"Unclaimed", "Claimed", "Closed"}
Rows == [state : States, claimedby : Users \cup {None}, email : Emails]
\* What the mail server and the parser make of a mail: it is refused by a
\* verdict or has no ticket id or text to extract, it is too long, its summary
\* has no character boundary at byte 100, where it is cut, or none of these.
Kinds == {"unusable", "long", "uncut", "good"}
Authors == {"customer", "team"} \cup Mails

ASSUME TicketConstants ==
    /\ Agent \in [Staff -> Users]
    /\ None \notin Users \cup Emails \cup Rows
    /\ Mails \cap {"customer", "team"} = {}
    /\ MaxMessages \in Nat /\ MaxFaults \in Nat /\ MaxCrashes \in Nat

VARIABLES
    ticket,     \* supporttickets: the row, or None
    used,       \* ids that have been given
    messages,   \* supportticketmessages, by ticket: the authors, in order
    privileged, \* users.supportprivilege
    gone,       \* history: who lost it with no PUT past the check of it
    req,        \* the staff's requests
    mail,       \* the handler's task for each mail
    inbox,      \* mails with an object in the inbox bucket
    answered,   \* mails the customer was told were not accepted
    told,       \* mails of the staff's actions to the customer
    crashed,    \* how often the handler of a mail stopped half way
    faults

vars == <<ticket, used, messages, privileged, gone, req, mail, inbox, answered,
          told, crashed, faults>>

Idle == [pc |-> "idle", op |-> None, ticket |-> None, overtaken |-> FALSE]
Unsent == [pc |-> "unsent", kind |-> None, ticket |-> None, from |-> None,
           overtaken |-> FALSE]

Requests == [pc : {"idle", "user", "begin", "end", "tell"}, op : Ops \cup {None},
             ticket : Tickets \cup {None}, overtaken : BOOLEAN]
Replies == [pc : {"unsent", "queued", "end", "drop", "done"}, kind : Kinds \cup {None},
            ticket : Tickets \cup {None}, from : Emails \cup {None}, overtaken : BOOLEAN]

Init ==
    /\ ticket = [t \in Tickets |-> None]
    /\ used = {}
    /\ messages = [t \in Tickets |-> <<>>]
    /\ privileged = Users /\ gone = {}
    /\ req = [s \in Staff |-> Idle]
    /\ mail = [m \in Mails |-> Unsent]
    /\ inbox = {} /\ answered = {} /\ told = {}
    /\ crashed = [m \in Mails |-> 0]
    /\ faults = 0

-----------------------------------------------------------------------------
(* Transactions: which calls fail, and who is overtaken by a COMMIT.        *)

\* A call that fails, or not.  Every step that may fail says so with it.
Fault(fails) ==
    /\ fails => faults < MaxFaults
    /\ faults' = IF fails THEN faults + 1 ELSE faults

\* The other writers, after a COMMIT that changed ticket t: those that have a
\* snapshot of it are overtaken.
Overtaken(w, t) ==
    [x \in DOMAIN w |->
        [w[x] EXCEPT !.overtaken = @ \/ (w[x].pc = "end" /\ w[x].ticket = t)]]

-----------------------------------------------------------------------------
(* The contact form opens tickets (its own steps are in Cooldowns).         *)

Create(t, e) ==
    /\ t \notin used
    /\ ticket' = [ticket EXCEPT ![t] = [state |-> "Unclaimed", claimedby |-> None, email |-> e]]
    /\ used' = used \cup {t}
    /\ messages' = [messages EXCEPT ![t] = <<"customer">>]
    /\ UNCHANGED <<privileged, gone, req, mail, inbox, answered, told, crashed, faults>>

-----------------------------------------------------------------------------
(* The staff.                                                              *)

\* A PUT of u that has found the privilege in the users table.
PastCheck(u) == \E s \in Staff :
    Agent[s] = u /\ req[s].op \in PutModes /\ req[s].pc \in {"begin", "end"}

\* The privilege is taken away in the table; access tokens still say it.
Withdraw(u) ==
    /\ u \in privileged
    /\ privileged' = privileged \ {u}
    /\ gone' = IF PastCheck(u) THEN gone ELSE gone \cup {u}
    /\ UNCHANGED <<ticket, used, messages, req, mail, inbox, answered, told,
                   crashed, faults>>

\* A request comes in with a token that has the privilege.  Only the PUT looks
\* into the users table; the others go to SELECT ... FOR UPDATE at once.
Start(s, op, t) ==
    /\ req[s].pc = "idle"
    /\ op = "Post" => Len(messages[t]) < MaxMessages
    /\ req' = [req EXCEPT ![s] =
                [pc |-> IF op \in PutModes THEN "user" ELSE "end",
                 op |-> op, ticket |-> t, overtaken |-> FALSE]]
    /\ UNCHANGED <<ticket, used, messages, privileged, gone, mail, inbox, answered,
                   told, crashed, faults>>

\* Mutant: the check of the users table is left out.
ReadUserTrustsToken(s) ==
    /\ req[s].pc = "user"
    /\ req' = [req EXCEPT ![s].pc = "begin"]
    /\ UNCHANGED <<ticket, used, messages, privileged, gone, mail, inbox, answered,
                   told, crashed, faults>>

\* put_request reads its account again: "an extra check ig".
ReadUser(s) ==
    /\ req[s].pc = "user"
    /\ req' = [req EXCEPT ![s] = IF Agent[s] \in privileged
                                 THEN [@ EXCEPT !.pc = "begin"] ELSE Idle]
    /\ UNCHANGED <<ticket, used, messages, privileged, gone, mail, inbox, answered,
                   told, crashed, faults>>

\* The PUT's SELECT ... FOR UPDATE starts and takes the snapshot.
Begin(s) ==
    /\ req[s].pc = "begin"
    /\ req' = [req EXCEPT ![s].pc = "end"]
    /\ UNCHANGED <<ticket, used, messages, privileged, gone, mail, inbox, answered,
                   told, crashed, faults>>

\* Mutant: whoever may release or close, not only the owner.
ProceedsForAnyone(row, op, u) ==
    \/ op = "Claim" /\ row.state = "Unclaimed"
    \/ op \in {"Unclaim", "Close", "Post"} /\ row.state = "Claimed"
    \/ op = "Delete" /\ row.state = "Closed" /\ row.claimedby = u

\* The rows on which each operation goes on to write.
Proceeds(row, op, u) ==
    \/ op = "Claim" /\ row.state = "Unclaimed"
    \/ op \in {"Unclaim", "Close", "Post"} /\ row.state = "Claimed" /\ row.claimedby = u
    \/ op = "Delete" /\ row.state = "Closed" /\ row.claimedby = u

\* The transaction of s may write: the row is there, and as in its snapshot.
May(s, ops) ==
    /\ req[s].pc = "end"
    /\ req[s].op \in ops
    /\ ~req[s].overtaken
    /\ ticket[req[s].ticket] # None
    /\ Proceeds(ticket[req[s].ticket], req[s].op, Agent[s])

\* COMMIT: the reply may be lost, and then the request answers with an error.
\* Otherwise a close or an answer is mailed to the customer next.
Commit(s, lost) ==
    /\ Fault(lost)
    /\ req' = [Overtaken(req, req[s].ticket) EXCEPT ![s] =
                IF ~lost /\ req[s].op \in {"Close", "Post"}
                THEN [req[s] EXCEPT !.pc = "tell"] ELSE Idle]
    /\ mail' = Overtaken(mail, req[s].ticket)
    /\ UNCHANGED <<used, privileged, gone, inbox, answered, told, crashed>>

\* PutTicketMode::into.
Target == [Claim |-> "Claimed", Unclaim |-> "Unclaimed", Close |-> "Closed"]

\* Mutants: a release leaves the owner; the mode is written as the state.
PutKeepsOwner(s, lost) ==
    /\ May(s, PutModes)
    /\ ticket' = [ticket EXCEPT ![req[s].ticket].state = Target[req[s].op],
                                ![req[s].ticket].claimedby = Agent[s]]
    /\ Commit(s, lost)
    /\ UNCHANGED messages
PutRawMode(s, lost) ==
    /\ May(s, PutModes)
    /\ ticket' = [ticket EXCEPT ![req[s].ticket].state = req[s].op,
                                ![req[s].ticket].claimedby =
                                    IF req[s].op = "Unclaim" THEN None ELSE Agent[s]]
    /\ Commit(s, lost)
    /\ UNCHANGED messages

Put(s, lost) ==
    /\ May(s, PutModes)
    /\ ticket' = [ticket EXCEPT ![req[s].ticket].state = Target[req[s].op],
                                ![req[s].ticket].claimedby =
                                    IF req[s].op = "Unclaim" THEN None ELSE Agent[s]]
    /\ Commit(s, lost)
    /\ UNCHANGED messages

\* The row goes; what was written on the ticket is not deleted by this code.
Delete(s, lost) ==
    /\ May(s, {"Delete"})
    /\ ticket' = [ticket EXCEPT ![req[s].ticket] = None]
    /\ Commit(s, lost)
    /\ UNCHANGED messages

Post(s, lost) ==
    /\ May(s, {"Post"})
    /\ messages' = [messages EXCEPT ![req[s].ticket] = Append(@, "team")]
    /\ Commit(s, lost)
    /\ UNCHANGED ticket

\* Mutant: the result of the transaction is dropped, what the closure noted is not.
RefuseTells(s) ==
    /\ req[s].pc = "end"
    /\ Fault(May(s, Ops))
    /\ req' = [req EXCEPT ![s] =
                IF May(s, {"Close", "Post"}) THEN [@ EXCEPT !.pc = "tell"] ELSE Idle]
    /\ UNCHANGED <<ticket, used, messages, privileged, gone, mail, inbox, answered,
                   told, crashed>>

\* The transaction ends and has written nothing: refused, overtaken, no such
\* ticket, or a call failed.
Refuse(s) ==
    /\ req[s].pc = "end"
    /\ Fault(May(s, Ops))
    /\ req' = [req EXCEPT ![s] = Idle]
    /\ UNCHANGED <<ticket, used, messages, privileged, gone, mail, inbox, answered,
                   told, crashed>>

\* The customer is told; the result of the call is dropped.
Tell(s, fails) ==
    /\ req[s].pc = "tell"
    /\ Fault(fails)
    /\ told' = IF fails THEN told ELSE told \cup {<<req[s].op, req[s].ticket>>}
    /\ req' = [req EXCEPT ![s] = Idle]
    /\ UNCHANGED <<ticket, used, messages, privileged, gone, mail, inbox, answered, crashed>>

-----------------------------------------------------------------------------
(* The customer's mails.                                                   *)

\* The mail server stores the mail and invokes the handler.
Arrive(m, kind, t, e) ==
    /\ mail[m].pc = "unsent"
    /\ mail' = [mail EXCEPT ![m] = [pc |-> "queued", kind |-> kind, ticket |-> t,
                                    from |-> e, overtaken |-> FALSE]]
    /\ inbox' = inbox \cup {m}
    /\ UNCHANGED <<ticket, used, messages, privileged, gone, req, answered, told,
                   crashed, faults>>

\* The verdicts, the object, the parser, the length, the cut of the summary and
\* the connection.  The customer is told only of a mail that is too long or
\* finds no connection; the result of telling is dropped.  A cut inside of a
\* character panics: the task ends there, nobody is told, and no call failed.
\* Then SELECT ... WHERE id AND email FOR UPDATE starts and takes the snapshot.
Take(m, fails, answers) ==
    /\ mail[m].pc = "queued"
    /\ Fault(fails)
    /\ answers => /\ m \in inbox
                  /\ \/ mail[m].kind = "long" /\ ~fails
                     \/ mail[m].kind = "good" /\ fails
    /\ mail[m].kind = "long" /\ m \in inbox => answers \/ fails
    /\ answered' = IF answers THEN answered \cup {m} ELSE answered
    /\ mail' = [mail EXCEPT ![m] =
                 IF mail[m].kind = "good" /\ m \in inbox /\ ~fails
                 THEN [@ EXCEPT !.pc = "end", !.overtaken = FALSE]
                 ELSE [@ EXCEPT !.pc = "drop"]]
    /\ UNCHANGED <<ticket, used, messages, privileged, gone, req, inbox, told, crashed>>

\* The ticket of the mail, if there is one with that id and that address.
Found(m) == /\ ticket[mail[m].ticket] # None
            /\ ticket[mail[m].ticket].email = mail[m].from

\* Mutants: a closed ticket still takes replies; an error of the transaction
\* is reported to the customer, also when the COMMIT had its effect.
MailRecordClosed(m, lost) ==
    /\ mail[m].pc = "end" /\ ~mail[m].overtaken
    /\ Found(m)
    /\ Fault(lost)
    /\ messages' = [messages EXCEPT ![mail[m].ticket] = Append(@, m)]
    /\ req' = Overtaken(req, mail[m].ticket)
    /\ mail' = [Overtaken(mail, mail[m].ticket) EXCEPT ![m] = [mail[m] EXCEPT !.pc = "drop"]]
    /\ UNCHANGED <<ticket, used, privileged, gone, inbox, answered, told, crashed>>
MailRecordReports(m, lost) ==
    /\ mail[m].pc = "end" /\ ~mail[m].overtaken
    /\ Found(m)
    /\ ticket[mail[m].ticket].state # "Closed"
    /\ Fault(lost)
    /\ messages' = [messages EXCEPT ![mail[m].ticket] = Append(@, m)]
    /\ answered' = IF lost THEN answered \cup {m} ELSE answered
    /\ req' = Overtaken(req, mail[m].ticket)
    /\ mail' = [Overtaken(mail, mail[m].ticket) EXCEPT ![m] = [mail[m] EXCEPT !.pc = "drop"]]
    /\ UNCHANGED <<ticket, used, privileged, gone, inbox, told, crashed>>

\* The message is recorded.
MailRecord(m, lost) ==
    /\ mail[m].pc = "end" /\ ~mail[m].overtaken
    /\ Found(m)
    /\ ticket[mail[m].ticket].state # "Closed"
    /\ Fault(lost)
    /\ messages' = [messages EXCEPT ![mail[m].ticket] = Append(@, m)]
    /\ req' = Overtaken(req, mail[m].ticket)
    /\ mail' = [Overtaken(mail, mail[m].ticket) EXCEPT ![m] = [mail[m] EXCEPT !.pc = "drop"]]
    /\ UNCHANGED <<ticket, used, privileged, gone, inbox, answered, told, crashed>>

\* Mutant: nobody is told of a ticket that is not there or closed.
MailRejectSilent(m, fails) ==
    /\ mail[m].pc = "end" /\ ~mail[m].overtaken
    /\ Found(m) => ticket[mail[m].ticket].state = "Closed"
    /\ Fault(fails)
    /\ mail' = [mail EXCEPT ![m].pc = "drop"]
    /\ UNCHANGED <<ticket, used, messages, privileged, gone, req, inbox, answered, told, crashed>>

\* NotFound or AlreadyClosed: the customer is told.
MailReject(m, fails) ==
    /\ mail[m].pc = "end" /\ ~mail[m].overtaken
    /\ Found(m) => ticket[mail[m].ticket].state = "Closed"
    /\ Fault(fails)
    /\ answered' = IF fails THEN answered ELSE answered \cup {m}
    /\ mail' = [mail EXCEPT ![m].pc = "drop"]
    /\ UNCHANGED <<ticket, used, messages, privileged, gone, req, inbox, told, crashed>>

\* The transaction fails: the error is logged, and nobody is told.
MailFail(m) ==
    /\ mail[m].pc = "end"
    /\ Fault(~mail[m].overtaken)
    /\ mail' = [mail EXCEPT ![m].pc = "drop"]
    /\ UNCHANGED <<ticket, used, messages, privileged, gone, req, inbox, answered,
                   told, crashed>>

\* delete_message, whatever the task returned; its result is dropped.
Drop(m, fails) ==
    /\ mail[m].pc = "drop"
    /\ Fault(fails)
    /\ inbox' = IF fails THEN inbox ELSE inbox \ {m}
    /\ mail' = [mail EXCEPT ![m].pc = "done"]
    /\ UNCHANGED <<ticket, used, messages, privileged, gone, req, answered, told, crashed>>

\* The handler stops half way; an asynchronous invocation is tried again.
Crash(m) ==
    /\ mail[m].pc \in {"end", "drop", "done"}
    /\ crashed[m] < MaxCrashes
    /\ crashed' = [crashed EXCEPT ![m] = @ + 1]
    /\ mail' = [mail EXCEPT ![m].pc = "queued"]
    /\ UNCHANGED <<ticket, used, messages, privileged, gone, req, inbox, answered,
                   told, faults>>

-----------------------------------------------------------------------------
StaffStep(s) ==
    \/ \E op \in Ops, t \in Tickets : Start(s, op, t)
    \/ ReadUser(s) \/ Begin(s) \/ Refuse(s)
    \/ \E lost \in BOOLEAN : Put(s, lost) \/ Delete(s, lost) \/ Post(s, lost) \/ Tell(s, lost)

MailStep(m) ==
    \/ \E kind \in Kinds, t \in Tickets, e \in Emails : Arrive(m, kind, t, e)
    \/ Crash(m)
    \/ MailFail(m)
    \/ \E fails \in BOOLEAN :
         \/ \E answers \in BOOLEAN : Take(m, fails, answers)
         \/ MailRecord(m, fails) \/ MailReject(m, fails) \/ Drop(m, fails)

Next ==
    \/ \E t \in Tickets, e \in Emails : Create(t, e)
    \/ \E u \in Users : Withdraw(u)
    \/ \E s \in Staff : StaffStep(s)
    \/ \E m \in Mails : MailStep(m)

Spec == Init /\ [][Next]_vars

-----------------------------------------------------------------------------
(* Properties.                                                             *)

TypeOK ==
    /\ ticket \in [Tickets -> Rows \cup {None}]
    /\ used \in SUBSET Tickets
    /\ messages \in [Tickets -> Seq(Authors)]
    /\ privileged \in SUBSET Users
    /\ gone \in SUBSET Users
    /\ req \in [Staff -> Requests]
    /\ mail \in [Mails -> Replies]
    /\ inbox \in SUBSET Mails
    /\ answered \in SUBSET Mails
    /\ told \in SUBSET (Ops \X Tickets)
    /\ crashed \in [Mails -> Nat]
    /\ faults \in Nat

\* A ticket has an owner exactly when it is not Unclaimed: the branches of
\* ticket.rs that report a ticket of an invalid state cannot be reached.
OwnerMatchesState ==
    \A t \in Tickets : ticket[t] # None =>
        (ticket[t].state = "Unclaimed" <=> ticket[t].claimedby = None)

\* A ticket that u has claimed or closed is changed, released, deleted or
\* answered by the team in a step of a request of u, whoever else tries at the
\* same time; two claims at once do not both win.
OwnedBy(t, u) == ticket[t] # None /\ ticket[t].claimedby = u
OnlyOwnerActs ==
    [][\A t \in Tickets, u \in Users :
         /\ OwnedBy(t, u)
         /\ \/ ticket'[t] # ticket[t]
            \/ messages'[t] # messages[t] /\ ticket'[t] # None
               /\ \A m \in Mails : messages'[t] # Append(messages[t], m)
         => \E s \in Staff : Agent[s] = u /\ req[s].ticket = t /\ req'[s] # req[s]]_vars

\* A closed ticket gets no message and no new state from the staff or from a
\* mail that was under way when it was closed; it can only be deleted, and a
\* deleted ticket does not come back.
ClosedIsFinal ==
    [][\A t \in Tickets :
         /\ ticket[t] # None /\ ticket[t].state = "Closed" =>
              \/ ticket'[t] = None
              \/ ticket'[t] = ticket[t] /\ messages'[t] = messages[t]
         /\ t \in used /\ ticket[t] = None => ticket'[t] = None /\ messages'[t] = messages[t]]_vars

\* The customer is told of a close or of an answer only when it was committed.
Done(op, t) ==
    \/ ticket[t] = None
    \/ op = "Close" /\ ticket[t].state = "Closed"
    \/ op = "Post" /\ \E i \in DOMAIN messages[t] : messages[t][i] = "team"
ToldIsTrue == \A op \in Ops, t \in Tickets : <<op, t>> \in told => Done(op, t)

\* An account whose privilege was taken away, when it had no PUT past the
\* check of the users table, claims no further ticket, although its token
\* still says that it may.
WithdrawnGainNothing ==
    [][\A u \in gone, t \in Tickets : OwnedBy(t, u)' => OwnedBy(t, u)]_vars

\* Each delivery of a mail settles it at most once: it is recorded or refused
\* in answer, and never both, whatever calls fail; a mail whose handler was
\* not stopped is not recorded twice.
Copies(m) == UNION {{<<t, i>> : i \in {j \in DOMAIN messages[t] : messages[t][j] = m}} : t \in Tickets}
SettledOncePerDelivery ==
    \A m \in Mails :
        Cardinality(Copies(m)) + (IF m \in answered THEN 1 ELSE 0) <= 1 + crashed[m]

\* When no call fails, a reply from which a text was extracted leaves the inbox
\* only recorded or answered.  There are two ways in which it is lost with a
\* log line: the cut of its summary panics, or its transaction was overtaken by
\* another writer of its ticket.
Recorded(m) == \E t \in Tickets : \E i \in DOMAIN messages[t] : messages[t][i] = m
ReplyLostTwoWays ==
    \A m \in Mails :
        mail[m].pc = "done" /\ mail[m].kind \in {"good", "long", "uncut"} /\ faults = 0
        => \/ m \in answered \/ Recorded(m)
           \/ mail[m].kind = "uncut" \/ mail[m].overtaken
==============================================================================
