------------------------------ MODULE Newsletter ------------------------------
(***************************************************************************)
(* The newsletter's list, which SES keeps, and the two functions that use   *)
(* it.                                                                     *)
(*   - The mail function (email-contacts-subscriber) adds an address,      *)
(*     removes it, asks for it, or starts the newsletter.                  *)
(*   - The bulk sender takes a page of the list from its queue, mails it,  *)
(*     and queues the next page.                                           *)
(* A step is one call to SES, SQS or S3.                                   *)
(***************************************************************************)
EXTENDS Integers, FiniteSets, Sequences

CONSTANTS
    Emails,
    Order,       \* the order in which SES lists the contacts, each once
    PageSize,    \* contacts of a page (50)
    Calls,       \* calls of the mail function under way
    Workers,     \* instances of the bulk sender
    None,
    MaxRequests, \* bound: calls of the mail function
    MaxFaults    \* bound: calls that fail, senders that stop, messages sent twice

ASSUME NewsletterConstants ==
    /\ Order \in Seq(Emails)
    /\ \A i, j \in DOMAIN Order : Order[i] = Order[j] => i = j
    /\ PageSize \in Nat \ {0}
    /\ None \notin Emails \cup Calls \cup Nat
    /\ MaxRequests \in Nat /\ MaxFaults \in Nat

VARIABLES
    contact,  \* the status of an address in the list: "in", "out", or "none"
    call,     \* the mail function
    queue,    \* how many messages ask for the page after a position
    worker,   \* the bulk sender
    started,  \* has the newsletter started?
    received, \* how many calls there were
    faults,
    kept,     \* history: addresses in the list since the newsletter was queued
    tried     \* history: how often SES was asked to mail an address the newsletter

vars == <<contact, call, queue, worker, started, received, faults, kept, tried>>

Statuses == {"in", "out", "none"}
Kinds == {"add", "remove", "ask", "news"}
Positions == 0..Len(Order)

Idle == [kind |-> "ask", email |-> None, pc |-> "idle", seen |-> {}, failed |-> FALSE]
Resting == [pc |-> "idle", from |-> 0, todo |-> {}, next |-> None]

\* Positions of the opted-in contacts after p, up to q.
Listed(p, q) == {i \in Positions : p < i /\ i <= q /\ contact[Order[i]] = "in"}

Init ==
    /\ contact \in [Emails -> {"in", "none"}]
    /\ call = [c \in Calls |-> Idle]
    /\ queue = [p \in Positions |-> 0]
    /\ worker = [w \in Workers |-> Resting]
    /\ started = FALSE
    /\ received = 0 /\ faults = 0
    /\ kept = {}
    /\ tried = [e \in Emails |-> 0]

Fault == faults < MaxFaults /\ faults' = faults + 1

-----------------------------------------------------------------------------
(* The mail function.                                                      *)

FirstStep(kind) == IF kind = "news" THEN "enqueue" ELSE "get"
Goto(c, pc) == call' = [call EXCEPT ![c].pc = pc]

\* Mutant: the request's own name is written for a status.
WantedRaw(c) == call[c].kind

\* The subscription status that the request type stands for.
Wanted(c) == IF call[c].kind = "add" THEN "in" ELSE "out"

\* Lambda runs the function: for a confirmed subscription, a bounce, the
\* newsletter form, or the schedule of the newsletter.
Request(c, kind, e) ==
    /\ call[c].pc = "idle"
    /\ received < MaxRequests
    /\ IF kind = "news" THEN e = None /\ ~started ELSE e # None
    /\ received' = received + 1
    /\ started' = (started \/ kind = "news")
    /\ call' = [call EXCEPT ![c] = [kind |-> kind, email |-> e, pc |-> FirstStep(kind),
                                    seen |-> IF e = None THEN {} ELSE {contact[e]},
                                    failed |-> FALSE]]
    /\ UNCHANGED <<contact, queue, worker, faults, kept, tried>>

\* The status of e becomes s, which every call about e under way has then seen.
SetContact(e, s) ==
    /\ contact' = [contact EXCEPT ![e] = s]
    /\ kept' = IF s = "in" THEN kept ELSE kept \ {e}
Seen(c, e, s) == IF call[c].email = e THEN call[c].seen \cup {s} ELSE call[c].seen
SetAndGoto(e, s, c, pc) ==
    /\ SetContact(e, s)
    /\ call' = [d \in Calls |-> [call[d] EXCEPT !.pc = IF d = c THEN pc ELSE @,
                                                !.seen = Seen(d, e, s)]]

\* After get_contact: an address that is as it should be ends the call.
AfterGet(c) ==
    LET s == contact[call[c].email]
    IN  IF call[c].kind = "ask" THEN IF s = "in" THEN "yes" ELSE "no"
        ELSE IF s = Wanted(c) THEN "ok"
        ELSE IF s = "none" THEN "create" ELSE "update"

Get(c) ==
    /\ call[c].pc = "get"
    /\ Goto(c, AfterGet(c))
    /\ UNCHANGED <<contact, queue, worker, started, received, faults, kept, tried>>

\* Any error of get_contact is taken for a contact that does not exist.
GetFails(c) ==
    /\ call[c].pc = "get"
    /\ Fault
    /\ call' = [call EXCEPT ![c].pc = IF call[c].kind = "ask" THEN "no" ELSE "create",
                            ![c].failed = TRUE]
    /\ UNCHANGED <<contact, queue, worker, started, received, kept, tried>>

\* Mutant: a contact that exists is taken to be as it should be.
UpdateNothing(c) ==
    /\ call[c].pc = "update"
    /\ Goto(c, "ok")
    /\ UNCHANGED <<contact, queue, worker, started, received, faults, kept, tried>>

\* update_contact.
Update(c) ==
    /\ call[c].pc = "update"
    /\ SetAndGoto(call[c].email, Wanted(c), c, "ok")
    /\ UNCHANGED <<queue, worker, started, received, faults, tried>>

\* create_contact, which refuses a contact that exists.
Create(c) ==
    /\ call[c].pc = "create"
    /\ IF contact[call[c].email] = "none"
       THEN SetAndGoto(call[c].email, Wanted(c), c, "ok")
       ELSE Goto(c, "error") /\ UNCHANGED <<contact, kept>>
    /\ UNCHANGED <<queue, worker, started, received, faults, tried>>

\* Either fails, and may have had its effect; so does the function.
WriteFails(c, effect) ==
    /\ call[c].pc \in {"update", "create"}
    /\ Fault
    /\ IF effect /\ (call[c].pc = "create" => contact[call[c].email] = "none")
       THEN SetAndGoto(call[c].email, Wanted(c), c, "error")
       ELSE Goto(c, "error") /\ UNCHANGED <<contact, kept>>
    /\ UNCHANGED <<queue, worker, started, received, tried>>

\* SendBulkSubscription reads the news and asks the bulk sender for page one.
Queued(p) == queue' = [queue EXCEPT ![p] = @ + 1]
Enqueue(c) ==
    /\ call[c].pc = "enqueue"
    /\ Queued(0)
    /\ kept' = {e \in Emails : contact[e] = "in"}
    /\ Goto(c, "ok")
    /\ UNCHANGED <<contact, worker, started, received, faults, tried>>

EnqueueFails(c, effect) ==
    /\ call[c].pc = "enqueue"
    /\ Fault
    /\ IF effect THEN Queued(0) ELSE UNCHANGED queue
    /\ Goto(c, "error")
    /\ UNCHANGED <<contact, worker, started, received, kept, tried>>

\* Lambda runs an event that failed again; "ask" is a synchronous call.
Again(c) ==
    /\ call[c].pc = "error"
    /\ Goto(c, FirstStep(call[c].kind))
    /\ UNCHANGED <<contact, queue, worker, started, received, faults, kept, tried>>

\* Its answer is taken, or Lambda gives up.
End(c) ==
    /\ call[c].pc \in {"ok", "yes", "no", "error"}
    /\ call' = [call EXCEPT ![c] = Idle]
    /\ UNCHANGED <<contact, queue, worker, started, received, faults, kept, tried>>

\* A reader follows the unsubscribe link that SES adds to a newsletter.
Unsubscribe(e) ==
    /\ contact[e] = "in"
    /\ SetAndGoto(e, "out", None, "idle")
    /\ UNCHANGED <<queue, worker, started, received, faults, tried>>

-----------------------------------------------------------------------------
(* The bulk sender.                                                        *)

Work(w, r) == worker' = [worker EXCEPT ![w] = r]

Take(w, p) ==
    /\ worker[w].pc = "idle"
    /\ queue[p] > 0
    /\ queue' = [queue EXCEPT ![p] = @ - 1]
    /\ Work(w, [Resting EXCEPT !.pc = "list", !.from = p])
    /\ UNCHANGED <<contact, call, started, received, faults, kept, tried>>

\* Mutant: the next page begins with the last contact of this one.
ListTwice(w, q) ==
    LET page == Listed(worker[w].from, q)
    IN  /\ worker[w].pc = "list"
        /\ Cardinality(page) <= PageSize
        /\ \/ /\ q = Len(Order)
              /\ Work(w, [worker[w] EXCEPT !.pc = "send", !.todo = page, !.next = None])
           \/ /\ Cardinality(page) = PageSize /\ q \in page /\ Listed(q, Len(Order)) # {}
              /\ Work(w, [worker[w] EXCEPT !.pc = "send", !.todo = page, !.next = q - 1])
        /\ UNCHANGED <<contact, call, queue, started, received, faults, kept, tried>>

\* list_contacts: the opted-in contacts up to q, and the token of the page
\* after them when there are more.
List(w, q) ==
    LET page == Listed(worker[w].from, q)
    IN  /\ worker[w].pc = "list"
        /\ Cardinality(page) <= PageSize
        /\ \/ /\ q = Len(Order)
              /\ Work(w, [worker[w] EXCEPT !.pc = "send", !.todo = page, !.next = None])
           \/ /\ Cardinality(page) = PageSize /\ q \in page /\ Listed(q, Len(Order)) # {}
              /\ Work(w, [worker[w] EXCEPT !.pc = "send", !.todo = page, !.next = q])
        /\ UNCHANGED <<contact, call, queue, started, received, faults, kept, tried>>

\* One mail of the page, in order.  SES refuses a contact that opted out since
\* the page was listed (list_management_options).  Whether the call succeeds is
\* not looked at, so the sender goes on alike.
MailOne(w, i) ==
    /\ worker[w].pc = "send"
    /\ i \in worker[w].todo /\ \A j \in worker[w].todo : i <= j
    /\ tried' = IF contact[Order[i]] = "in" THEN [tried EXCEPT ![Order[i]] = @ + 1] ELSE tried
    /\ Work(w, [worker[w] EXCEPT !.todo = @ \ {i}])
    /\ UNCHANGED <<contact, call, queue, started, received, faults, kept>>

\* The next page, if there is one, is queued before the message is deleted.
QueueNext(w) ==
    /\ worker[w].pc = "send" /\ worker[w].todo = {}
    /\ IF worker[w].next = None THEN UNCHANGED queue ELSE Queued(worker[w].next)
    /\ Work(w, [worker[w] EXCEPT !.pc = "delete"])
    /\ UNCHANGED <<contact, call, started, received, faults, kept, tried>>

DeleteMessage(w) ==
    /\ worker[w].pc = "delete"
    /\ Work(w, Resting)
    /\ UNCHANGED <<contact, call, queue, started, received, faults, kept, tried>>

\* Mutant: a sender that stops has lost its message.
StopsDeleted(w, queued) ==
    /\ worker[w].pc # "idle"
    /\ queued => worker[w].pc = "send" /\ worker[w].todo = {} /\ worker[w].next # None
    /\ Fault
    /\ queue' = [p \in Positions |-> queue[p] + (IF queued /\ p = worker[w].next THEN 1 ELSE 0)]
    /\ Work(w, Resting)
    /\ UNCHANGED <<contact, call, started, received, kept, tried>>

\* A call fails, or the sender stops: SQS delivers the message again.  The
\* call that queues the next page may have had its effect ("queued").
Stops(w, queued) ==
    /\ worker[w].pc # "idle"
    /\ queued => worker[w].pc = "send" /\ worker[w].todo = {} /\ worker[w].next # None
    /\ Fault
    /\ queue' = [p \in Positions |-> queue[p] + (IF p = worker[w].from THEN 1 ELSE 0)
                                              + (IF queued /\ p = worker[w].next THEN 1 ELSE 0)]
    /\ Work(w, Resting)
    /\ UNCHANGED <<contact, call, started, received, kept, tried>>

\* SQS delivers at least once: of a message there may be two deliveries though
\* nothing stopped.
DeliveredTwice(p) ==
    /\ queue[p] > 0
    /\ Fault
    /\ Queued(p)
    /\ UNCHANGED <<contact, call, worker, started, received, kept, tried>>

-----------------------------------------------------------------------------
CallStep(c) ==
    \/ \E kind \in Kinds, e \in Emails \cup {None} : Request(c, kind, e)
    \/ Get(c) \/ GetFails(c) \/ Update(c) \/ Create(c) \/ Enqueue(c)
    \/ \E b \in BOOLEAN : WriteFails(c, b) \/ EnqueueFails(c, b)
    \/ Again(c) \/ End(c)

SweepStep(w) ==
    \/ \E p \in Positions : Take(w, p) \/ List(w, p) \/ MailOne(w, p)
    \/ QueueNext(w) \/ DeleteMessage(w)

Next ==
    \/ \E c \in Calls : CallStep(c)
    \/ \E w \in Workers : SweepStep(w) \/ \E b \in BOOLEAN : Stops(w, b)
    \/ \E p \in Positions : DeliveredTwice(p)
    \/ \E e \in Emails : Unsubscribe(e)

\* SQS delivers what is queued, and a sender that is not stopped goes on.
Spec == Init /\ [][Next]_vars /\ \A w \in Workers : WF_vars(SweepStep(w))

-----------------------------------------------------------------------------
(* Properties.                                                             *)

\* The list, the calls, the queue and the senders are well formed.
TypeOK ==
    /\ contact \in [Emails -> Statuses]
    /\ call \in [Calls -> [kind : Kinds, email : Emails \cup {None},
                           pc : {"idle", "get", "create", "update", "enqueue",
                                 "ok", "yes", "no", "error"},
                           seen : SUBSET Statuses, failed : BOOLEAN]]
    /\ queue \in [Positions -> Nat]
    /\ worker \in [Workers -> [pc : {"idle", "list", "send", "delete"}, from : Positions,
                               todo : SUBSET Positions, next : Positions \cup {None}]]
    /\ started \in BOOLEAN
    /\ received \in Nat /\ faults \in Nat
    /\ kept \in SUBSET Emails
    /\ tried \in [Emails -> Nat]

\* A call that adds or removes an address and answers OK took effect: at some
\* moment of the call the list said what it wanted, whatever the calls beside
\* it read and wrote between its two.  And the question whether an address is
\* in the list is answered with what was true at some moment, unless the call
\* to SES failed, which the code answers with "no".
AnswersHonest ==
    \A c \in Calls :
        /\ call[c].pc = "ok" /\ call[c].kind \in {"add", "remove"} => Wanted(c) \in call[c].seen
        /\ call[c].pc = "yes" => "in" \in call[c].seen
        /\ call[c].pc = "no" /\ ~call[c].failed => call[c].seen # {"in"}

\* A newsletter is sent to an address once, and once more at most for every call
\* that failed and every message that SQS delivered twice: a page delivered twice
\* starts a second chain of pages, and no chain mails an address twice.
CopiesBounded == \A e \in Emails : tried[e] <= 1 + faults

\* Every address that stays in the list gets its call to send_email, whatever
\* stops, and whoever leaves or joins the list meanwhile.  (A send_email that
\* fails is not repeated: nobody looks at it.)
NewsletterReaches == \A e \in Emails : e \in kept ~> (e \notin kept \/ tried[e] > 0)
==============================================================================
