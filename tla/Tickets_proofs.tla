--------------------------- MODULE Tickets_proofs ---------------------------
(***************************************************************************)
(* What Tickets promises for any number of tickets, requests, mails and    *)
(* faults.                                                                 *)
(***************************************************************************)
EXTENDS Tickets, FiniteSetTheorems, TLAPS

USE DEF PutModes, Ops, States

-----------------------------------------------------------------------------
(* Types.                                                                  *)

\* To overtake a request or a mail changes nothing else of it.
LEMMA OvertakenReq ==
  ASSUME NEW w \in [Staff -> Requests], NEW t
  PROVE  /\ Overtaken(w, t) \in [Staff -> Requests]
         /\ \A s \in Staff : /\ Overtaken(w, t)[s].pc = w[s].pc
                             /\ Overtaken(w, t)[s].op = w[s].op
                             /\ Overtaken(w, t)[s].ticket = w[s].ticket
<1>1. ASSUME NEW s \in Staff, NEW b \in BOOLEAN
      PROVE  /\ [w[s] EXCEPT !.overtaken = b] \in Requests
             /\ [w[s] EXCEPT !.overtaken = b].pc = w[s].pc
             /\ [w[s] EXCEPT !.overtaken = b].op = w[s].op
             /\ [w[s] EXCEPT !.overtaken = b].ticket = w[s].ticket
  BY DEF Requests
<1> DEFINE B(s) == w[s].overtaken \/ (w[s].pc = "end" /\ w[s].ticket = t)
<1>2. \A s \in Staff : B(s) \in BOOLEAN
  BY DEF Requests
<1>3. Overtaken(w, t) = [s \in Staff |-> [w[s] EXCEPT !.overtaken = B(s)]]
  BY DEF Overtaken, Requests
<1>4. ASSUME NEW s \in Staff
      PROVE  /\ Overtaken(w, t)[s] = [w[s] EXCEPT !.overtaken = B(s)]
             /\ [w[s] EXCEPT !.overtaken = B(s)] \in Requests
             /\ [w[s] EXCEPT !.overtaken = B(s)].pc = w[s].pc
             /\ [w[s] EXCEPT !.overtaken = B(s)].op = w[s].op
             /\ [w[s] EXCEPT !.overtaken = B(s)].ticket = w[s].ticket
  <2> HIDE DEF B
  <2>1. Overtaken(w, t)[s] = [w[s] EXCEPT !.overtaken = B(s)]
    BY <1>3, Zenon
  <2> QED
    BY <1>1, <1>2, <2>1, Zenon
<1> HIDE DEF B
<1>5. Overtaken(w, t) \in [Staff -> Requests]
  BY <1>1, <1>2, <1>3
<1> QED
  BY <1>4, <1>5, Zenon

LEMMA OvertakenMail ==
  ASSUME NEW w \in [Mails -> Replies], NEW t
  PROVE  Overtaken(w, t) \in [Mails -> Replies]
<1>1. ASSUME NEW s \in Mails, NEW b \in BOOLEAN
      PROVE  [w[s] EXCEPT !.overtaken = b] \in Replies
  BY DEF Replies
<1> DEFINE B(s) == w[s].overtaken \/ (w[s].pc = "end" /\ w[s].ticket = t)
<1>2. \A s \in Mails : B(s) \in BOOLEAN
  BY DEF Replies
<1>3. Overtaken(w, t) = [s \in Mails |-> [w[s] EXCEPT !.overtaken = B(s)]]
  BY DEF Overtaken, Replies
<1> HIDE DEF B
<1> QED
  BY <1>1, <1>2, <1>3

\* To go on changes only where a request or a mail is.
LEMMA RequestPc ==
  ASSUME NEW r \in Requests, NEW p \in {"idle", "user", "begin", "end", "tell"}
  PROVE  [r EXCEPT !.pc = p] \in Requests
BY DEF Requests

LEMMA ReplyPc ==
  ASSUME NEW r \in Replies, NEW p \in {"unsent", "queued", "end", "drop", "done"}
  PROVE  [r EXCEPT !.pc = p] \in Replies /\ [r EXCEPT !.pc = p].ticket = r.ticket
BY DEF Replies

\* Steps that may fail.
LEMMA FaultTypes ==
  ASSUME faults \in Nat, NEW b \in BOOLEAN, Fault(b)
  PROVE  faults' \in Nat
BY DEF Fault

LEMMA OvertakenMailKeeps ==
  ASSUME NEW w \in [Mails -> Replies], NEW t, NEW m \in Mails
  PROVE  /\ Overtaken(w, t)[m].pc = w[m].pc /\ Overtaken(w, t)[m].ticket = w[m].ticket
         /\ Overtaken(w, t)[m].kind = w[m].kind
         /\ w[m].overtaken => Overtaken(w, t)[m].overtaken
<1> DEFINE B == w[m].overtaken \/ (w[m].pc = "end" /\ w[m].ticket = t)
<1>1. Overtaken(w, t)[m] = [w[m] EXCEPT !.overtaken = B]
  BY DEF Overtaken, Replies
<1>0. w[m].overtaken => B
  OBVIOUS
<1> HIDE DEF B
<1>2. /\ [w[m] EXCEPT !.overtaken = B].pc = w[m].pc
      /\ [w[m] EXCEPT !.overtaken = B].ticket = w[m].ticket
      /\ [w[m] EXCEPT !.overtaken = B].kind = w[m].kind
      /\ [w[m] EXCEPT !.overtaken = B].overtaken = B
  BY DEF Replies
<1> QED
  BY <1>0, <1>1, <1>2, Zenon

-----------------------------------------------------------------------------
(* The inductive invariant.                                                *)

\* A request knows its ticket, and a PUT only waits for the users table.
CarryInv ==
  /\ \A s \in Staff : req[s].pc # "idle" =>
       /\ req[s].op \in Ops /\ req[s].ticket \in Tickets
       /\ req[s].pc = "user" => req[s].op \in PutModes
  /\ \A m \in Mails : mail[m].pc # "unsent" => mail[m].ticket \in Tickets

\* What is, or is told of, has been given an id.
UsedInv ==
  /\ \A t \in Tickets : ticket[t] # None => t \in used
  /\ \A s \in Staff : req[s].pc = "tell" => req[s].ticket \in used
  /\ \A op \in Ops, t \in Tickets : <<op, t>> \in told => t \in used

\* What a request is about to tell is true.
Tells(s) == Done(req[s].op, req[s].ticket)
TellInv == \A s \in Staff : req[s].pc = "tell" => Tells(s)

\* Nobody who is gone has a PUT past the check, or a way past it.
GoneInv == \A u \in gone : u \notin privileged /\ ~PastCheck(u)

IInv == /\ TypeOK /\ CarryInv /\ OwnerMatchesState
        /\ UsedInv /\ TellInv /\ ToldIsTrue /\ GoneInv

-----------------------------------------------------------------------------
(* A COMMIT, as the rest of the proof sees it.                             *)

SameRequest(s) ==
  req'[s].pc = req[s].pc /\ req'[s].op = req[s].op /\ req'[s].ticket = req[s].ticket

LEMMA CommitEffect ==
  ASSUME TypeOK, CarryInv, TicketConstants,
         NEW s \in Staff, NEW lost \in BOOLEAN, req[s].pc = "end", Commit(s, lost)
  PROVE  /\ req' \in [Staff -> Requests]
         /\ mail' \in [Mails -> Replies]
         /\ faults' \in Nat
         /\ \A x \in Staff \ {s} : SameRequest(x)
         /\ \A m \in Mails : mail'[m].pc = mail[m].pc /\ mail'[m].ticket = mail[m].ticket
         /\ \/ req'[s] = Idle
            \/ /\ req[s].op \in {"Close", "Post"}
               /\ req'[s].pc = "tell"
               /\ req'[s].op = req[s].op /\ req'[s].ticket = req[s].ticket
         /\ used' = used /\ privileged' = privileged /\ gone' = gone
         /\ inbox' = inbox /\ answered' = answered /\ told' = told /\ crashed' = crashed
<1> DEFINE w == Overtaken(req, req[s].ticket)
           v == IF ~lost /\ req[s].op \in {"Close", "Post"}
                THEN [req[s] EXCEPT !.pc = "tell"] ELSE Idle
<1>1. w \in [Staff -> Requests]
      /\ \A x \in Staff : w[x].pc = req[x].pc /\ w[x].op = req[x].op /\ w[x].ticket = req[x].ticket
  BY OvertakenReq DEF TypeOK
<1>2. Idle \in Requests
  BY Zenon DEF Idle, Requests
<1>3. [req[s] EXCEPT !.pc = "tell"] \in Requests
      /\ [req[s] EXCEPT !.pc = "tell"].pc = "tell"
      /\ [req[s] EXCEPT !.pc = "tell"].op = req[s].op
      /\ [req[s] EXCEPT !.pc = "tell"].ticket = req[s].ticket
  BY DEF TypeOK, Requests
<1>4. v \in Requests
  BY <1>2, <1>3
<1>5. v = Idle \/ /\ req[s].op \in {"Close", "Post"}
                  /\ v.pc = "tell" /\ v.op = req[s].op /\ v.ticket = req[s].ticket
  BY <1>3
<1>6. req' = [w EXCEPT ![s] = v]
  BY DEF Commit
<1> HIDE DEF w, v
<1>7. req' \in [Staff -> Requests] /\ req'[s] = v /\ \A x \in Staff \ {s} : req'[x] = w[x]
  BY <1>1, <1>4, <1>6
<1>8. \A x \in Staff \ {s} : SameRequest(x)
  BY <1>1, <1>7 DEF SameRequest
<1>9. mail' \in [Mails -> Replies]
      /\ \A m \in Mails : mail'[m].pc = mail[m].pc /\ mail'[m].ticket = mail[m].ticket
  <2>1. mail' = Overtaken(mail, req[s].ticket)
    BY DEF Commit
  <2>2. mail \in [Mails -> Replies]
    BY DEF TypeOK
  <2>3. mail' \in [Mails -> Replies]
    BY <2>1, <2>2, OvertakenMail
  <2>4. ASSUME NEW m \in Mails
        PROVE  mail'[m].pc = mail[m].pc /\ mail'[m].ticket = mail[m].ticket
    BY <2>1, <2>2, OvertakenMailKeeps
  <2> QED
    BY <2>3, <2>4
<1>10. faults' \in Nat
  BY FaultTypes DEF Commit, TypeOK
<1> QED
  BY <1>5, <1>7, <1>8, <1>9, <1>10 DEF Commit

-----------------------------------------------------------------------------
LEMMA InitTypes == ASSUME TicketConstants, Init PROVE TypeOK
<1>1. Idle \in Requests
  BY Zenon DEF Idle, Requests
<1>2. Unsent \in Replies
  BY Zenon DEF Unsent, Replies
<1>3. req \in [Staff -> Requests] /\ mail \in [Mails -> Replies]
  BY <1>1, <1>2 DEF Init
<1>4. \A t \in Tickets : messages[t] = << >> /\ << >> \in Seq(Authors)
  BY DEF Init
<1>5. messages \in [Tickets -> Seq(Authors)]
  BY <1>4 DEF Init
<1> QED
  BY <1>3, <1>5 DEF Init, TypeOK

LEMMA TypeStep == ASSUME TicketConstants, TypeOK, CarryInv, Next PROVE TypeOK'
<1> USE DEF TypeOK
<1>1. ASSUME NEW t \in Tickets, NEW e \in Emails, Create(t, e) PROVE TypeOK'
  <2>1. [state |-> "Unclaimed", claimedby |-> None, email |-> e] \in Rows
    BY DEF Rows
  <2>2. <<"customer">> \in Seq(Authors)
    BY DEF Authors
  <2> QED
    BY <1>1, <2>1, <2>2 DEF Create
<1>2. ASSUME NEW u \in Users, Withdraw(u) PROVE TypeOK'
  BY <1>2 DEF Withdraw
<1>3. ASSUME NEW s \in Staff, NEW op \in Ops, NEW t \in Tickets, Start(s, op, t)
      PROVE  TypeOK'
  <2> DEFINE p == IF op \in PutModes THEN "user" ELSE "end"
  <2>1. p \in {"idle", "user", "begin", "end", "tell"}
    OBVIOUS
  <2>2. req' = [req EXCEPT ![s] = [pc |-> p, op |-> op, ticket |-> t, overtaken |-> FALSE]]
    BY <1>3 DEF Start
  <2> HIDE DEF p
  <2>3. [pc |-> p, op |-> op, ticket |-> t, overtaken |-> FALSE] \in Requests
    BY <2>1, Zenon DEF Requests
  <2>4. req' \in [Staff -> Requests]
    BY <2>2, <2>3
  <2> QED
    BY <1>3, <2>4 DEF Start
<1>4. ASSUME NEW s \in Staff, ReadUser(s) PROVE TypeOK'
  <2>1. Idle \in Requests
    BY Zenon DEF Idle, Requests
  <2>2. [req[s] EXCEPT !.pc = "begin"] \in Requests
    BY RequestPc
  <2> QED
    BY <1>4, <2>1, <2>2 DEF ReadUser
<1>5. ASSUME NEW s \in Staff, Begin(s) PROVE TypeOK'
  <2>1. [req[s] EXCEPT !.pc = "end"] \in Requests
    BY RequestPc
  <2>2. req' = [req EXCEPT ![s] = [req[s] EXCEPT !.pc = "end"]]
    BY <1>5 DEF Begin
  <2>3. req' \in [Staff -> Requests]
    BY <2>1, <2>2
  <2> QED
    BY <1>5, <2>3 DEF Begin
<1>6. ASSUME NEW s \in Staff, Refuse(s) PROVE TypeOK'
  <2>1. Idle \in Requests
    BY Zenon DEF Idle, Requests
  <2>2. faults' \in Nat
    BY <1>6, FaultTypes DEF Refuse, Fault
  <2> QED
    BY <1>6, <2>1, <2>2 DEF Refuse
<1>7. ASSUME NEW s \in Staff, NEW lost \in BOOLEAN, Put(s, lost) PROVE TypeOK'
  <2> DEFINE t == req[s].ticket
             c == IF req[s].op = "Unclaim" THEN None ELSE Agent[s]
  <2>1. req[s].pc = "end" /\ t \in Tickets /\ ticket[t] \in Rows
    BY <1>7 DEF Put, May, CarryInv
  <2>2. c \in Users \cup {None} /\ Target[req[s].op] \in States
    BY <1>7 DEF Put, May, Target, TicketConstants
  <2>3. ticket' = [ticket EXCEPT ![t] = [[ticket[t] EXCEPT !.state = Target[req[s].op]]
                                         EXCEPT !.claimedby = c]]
    BY <1>7, <2>1 DEF Put, Rows
  <2>4. Commit(s, lost) /\ messages' = messages
    BY <1>7 DEF Put
  <2> HIDE DEF t, c
  <2>5. ticket' \in [Tickets -> Rows \cup {None}]
    BY <2>1, <2>2, <2>3 DEF Rows
  <2> QED
    BY <2>1, <2>4, <2>5, CommitEffect
<1>8. ASSUME NEW s \in Staff, NEW lost \in BOOLEAN, Delete(s, lost) PROVE TypeOK'
  <2>1. req[s].pc = "end" /\ Commit(s, lost)
    BY <1>8 DEF Delete, May
  <2>2. ticket' \in [Tickets -> Rows \cup {None}] /\ messages' = messages
    BY <1>8 DEF Delete
  <2> QED
    BY <2>1, <2>2, CommitEffect
<1>9. ASSUME NEW s \in Staff, NEW lost \in BOOLEAN, Post(s, lost) PROVE TypeOK'
  <2>1. req[s].pc = "end" /\ Commit(s, lost) /\ req[s].ticket \in Tickets
    BY <1>9 DEF Post, May, CarryInv
  <2>2. Append(messages[req[s].ticket], "team") \in Seq(Authors)
    BY <2>1 DEF Authors
  <2>3. ticket' = ticket /\ messages' \in [Tickets -> Seq(Authors)]
    BY <1>9, <2>2 DEF Post
  <2> QED
    BY <2>1, <2>3, CommitEffect
<1>10. ASSUME NEW s \in Staff, NEW fails \in BOOLEAN, Tell(s, fails) PROVE TypeOK'
  <2>1. Idle \in Requests
    BY Zenon DEF Idle, Requests
  <2>2. faults' \in Nat
    BY <1>10, FaultTypes DEF Tell
  <2>3. told' \in SUBSET (Ops \X Tickets)
    BY <1>10 DEF Tell, CarryInv
  <2> QED
    BY <1>10, <2>1, <2>2, <2>3 DEF Tell
<1>11. ASSUME NEW m \in Mails, NEW kind \in Kinds, NEW t \in Tickets, NEW e \in Emails,
              Arrive(m, kind, t, e)
       PROVE  TypeOK'
  <2>1. [pc |-> "queued", kind |-> kind, ticket |-> t, from |-> e, overtaken |-> FALSE] \in Replies
    BY Zenon DEF Replies
  <2> QED
    BY <1>11, <2>1 DEF Arrive
<1>12. ASSUME NEW m \in Mails, NEW fails \in BOOLEAN, NEW answers \in BOOLEAN,
              Take(m, fails, answers)
       PROVE  TypeOK'
  <2>1. [mail[m] EXCEPT !.pc = "end", !.overtaken = FALSE] \in Replies
    <3>1. [mail[m] EXCEPT !.pc = "end"] \in Replies
      BY ReplyPc
    <3>2. ASSUME NEW r \in Replies, NEW b \in BOOLEAN PROVE [r EXCEPT !.overtaken = b] \in Replies
      BY DEF Replies
    <3> QED
      BY <3>1, <3>2, Zenon
  <2>2. [mail[m] EXCEPT !.pc = "drop"] \in Replies
    BY ReplyPc
  <2>3. mail' \in [Mails -> Replies]
    BY <1>12, <2>1, <2>2 DEF Take
  <2>4. faults' \in Nat
    BY <1>12, FaultTypes DEF Take
  <2> QED
    BY <1>12, <2>3, <2>4 DEF Take
<1>13. ASSUME NEW m \in Mails, NEW lost \in BOOLEAN, MailRecord(m, lost) PROVE TypeOK'
  <2>1. Overtaken(req, mail[m].ticket) \in [Staff -> Requests]
    BY OvertakenReq
  <2>2. Overtaken(mail, mail[m].ticket) \in [Mails -> Replies]
    BY OvertakenMail
  <2>3. [mail[m] EXCEPT !.pc = "drop"] \in Replies
    BY ReplyPc
  <2>4. mail' \in [Mails -> Replies] /\ req' \in [Staff -> Requests]
    BY <1>13, <2>1, <2>2, <2>3 DEF MailRecord
  <2>5. mail[m].ticket \in Tickets
    BY <1>13 DEF MailRecord, CarryInv
  <2>6. Append(messages[mail[m].ticket], m) \in Seq(Authors)
    BY <2>5 DEF Authors
  <2>7. faults' \in Nat /\ messages' \in [Tickets -> Seq(Authors)]
    BY <1>13, <2>6, FaultTypes DEF MailRecord
  <2> QED
    BY <1>13, <2>4, <2>7 DEF MailRecord
<1>14. ASSUME NEW m \in Mails, NEW fails \in BOOLEAN, MailReject(m, fails) PROVE TypeOK'
  <2>1. [mail[m] EXCEPT !.pc = "drop"] \in Replies
    BY ReplyPc
  <2>2. mail' \in [Mails -> Replies] /\ faults' \in Nat
    BY <1>14, <2>1, FaultTypes DEF MailReject
  <2> QED
    BY <1>14, <2>2 DEF MailReject
<1>15. ASSUME NEW m \in Mails, MailFail(m) PROVE TypeOK'
  <2>1. [mail[m] EXCEPT !.pc = "drop"] \in Replies
    BY ReplyPc
  <2>2. mail' \in [Mails -> Replies]
    BY <1>15, <2>1 DEF MailFail
  <2>3. faults' \in Nat
    BY <1>15 DEF MailFail, Fault
  <2> QED
    BY <1>15, <2>2, <2>3 DEF MailFail
<1>16. ASSUME NEW m \in Mails, NEW fails \in BOOLEAN, Drop(m, fails) PROVE TypeOK'
  <2>1. [mail[m] EXCEPT !.pc = "done"] \in Replies
    BY ReplyPc
  <2>2. mail' \in [Mails -> Replies] /\ faults' \in Nat
    BY <1>16, <2>1, FaultTypes DEF Drop
  <2> QED
    BY <1>16, <2>2 DEF Drop
<1>17. ASSUME NEW m \in Mails, Crash(m) PROVE TypeOK'
  <2>1. [mail[m] EXCEPT !.pc = "queued"] \in Replies
    BY ReplyPc
  <2>2. mail' \in [Mails -> Replies]
    BY <1>17, <2>1 DEF Crash
  <2> QED
    BY <1>17, <2>2 DEF Crash
<1> QED
  BY <1>1, <1>2, <1>3, <1>4, <1>5, <1>6, <1>7, <1>8, <1>9, <1>10, <1>11, <1>12,
     <1>13, <1>14, <1>15, <1>16, <1>17 DEF Next, StaffStep, MailStep

-----------------------------------------------------------------------------
(* The rest of the invariant.                                              *)

\* Nothing but the requests and the mails moves: requests may end, mails may
\* move on or come in.
MailsKnow == \A m \in Mails : mail'[m].pc # "unsent" => mail'[m].ticket \in Tickets
Still == /\ ticket' = ticket /\ used' = used /\ messages' = messages
         /\ privileged' = privileged /\ gone' = gone /\ told' = told

LEMMA StillStep ==
  ASSUME IInv, Still, MailsKnow, \A s \in Staff : SameRequest(s) \/ req'[s] = Idle
  PROVE  /\ CarryInv' /\ OwnerMatchesState' /\ UsedInv' /\ TellInv' /\ ToldIsTrue' /\ GoneInv'
<1>0. \A s \in Staff : req'[s].pc # "idle" => SameRequest(s)
  BY DEF Idle
<1>1. CarryInv'
  BY <1>0 DEF IInv, CarryInv, MailsKnow, SameRequest
<1>2. OwnerMatchesState' /\ ToldIsTrue'
  BY DEF IInv, Still, OwnerMatchesState, ToldIsTrue, Done
<1>3. UsedInv'
  BY <1>0 DEF IInv, Still, UsedInv, SameRequest
<1>4. TellInv'
  BY <1>0 DEF IInv, Still, TellInv, Tells, SameRequest, Done
<1>5. GoneInv'
  BY <1>0 DEF IInv, Still, GoneInv, SameRequest, PastCheck
<1> QED
  BY <1>1, <1>2, <1>3, <1>4, <1>5

\* A COMMIT of a request leaves all but what it tells to its own step.
LEMMA CommitStep ==
  ASSUME TicketConstants, IInv,
         NEW s \in Staff, NEW lost \in BOOLEAN, req[s].pc = "end", Commit(s, lost)
  PROVE  /\ CarryInv' /\ GoneInv'
         /\ \A x \in Staff : req'[x].pc = "tell" =>
              /\ req'[x].op = req[x].op /\ req'[x].ticket = req[x].ticket
              /\ x # s => req[x].pc = "tell"
              /\ x = s => req[s].op \in {"Close", "Post"}
<1>1. /\ \A x \in Staff \ {s} : SameRequest(x)
      /\ \A m \in Mails : mail'[m].pc = mail[m].pc /\ mail'[m].ticket = mail[m].ticket
      /\ \/ req'[s] = Idle
         \/ /\ req[s].op \in {"Close", "Post"}
            /\ req'[s].pc = "tell"
            /\ req'[s].op = req[s].op /\ req'[s].ticket = req[s].ticket
      /\ privileged' = privileged /\ gone' = gone
  BY CommitEffect DEF IInv
<1>2. req'[s].pc \in {"idle", "tell"} /\ (req'[s].pc = "tell" => req'[s] # Idle)
  BY <1>1 DEF Idle
<1>3. CarryInv'
  BY <1>1, <1>2 DEF IInv, CarryInv, SameRequest
<1>4. GoneInv'
  BY <1>1, <1>2 DEF IInv, GoneInv, PastCheck, SameRequest
<1> QED
  BY <1>1, <1>2, <1>3, <1>4 DEF SameRequest

\* An answer of the team stays when a message is added.
LEMMA AppendKeeps ==
  ASSUME NEW q \in Seq(Authors), NEW a \in Authors
  PROVE  /\ DOMAIN q \subseteq DOMAIN Append(q, a)
         /\ \A i \in DOMAIN q : Append(q, a)[i] = q[i]
         /\ Len(q) + 1 \in DOMAIN Append(q, a) /\ Append(q, a)[Len(q) + 1] = a
OBVIOUS

LEMMA InvStep == ASSUME TicketConstants, IInv, Next PROVE IInv'
<1> DEFINE Rest == /\ CarryInv' /\ OwnerMatchesState' /\ UsedInv' /\ TellInv'
                   /\ ToldIsTrue' /\ GoneInv'
<1>0. TypeOK'
  BY TypeStep DEF IInv
<1>1. ASSUME NEW t \in Tickets, NEW e \in Emails, Create(t, e) PROVE Rest
  <2>1. /\ ticket'[t].state = "Unclaimed" /\ ticket'[t].claimedby = None
        /\ \A x \in Tickets \ {t} : ticket'[x] = ticket[x] /\ messages'[x] = messages[x]
        /\ used' = used \cup {t} /\ t \notin used
        /\ req' = req /\ mail' = mail /\ told' = told /\ privileged' = privileged /\ gone' = gone
    BY <1>1 DEF Create, IInv, TypeOK
  <2>2. CarryInv' /\ GoneInv'
    BY <2>1 DEF IInv, CarryInv, GoneInv, PastCheck
  <2>3. OwnerMatchesState'
    BY <2>1 DEF IInv, OwnerMatchesState
  <2>4. UsedInv'
    BY <2>1 DEF IInv, UsedInv
  <2>5. \A op \in Ops, x \in Tickets : x \in used /\ Done(op, x) => Done(op, x)'
    BY <2>1 DEF Done
  <2>6. TellInv' /\ ToldIsTrue'
    BY <2>1, <2>5 DEF IInv, TellInv, Tells, ToldIsTrue, UsedInv, CarryInv
  <2> QED
    BY <2>2, <2>3, <2>4, <2>6
<1>2. ASSUME NEW u \in Users, Withdraw(u) PROVE Rest
  <2>1. CarryInv' /\ OwnerMatchesState' /\ UsedInv' /\ TellInv' /\ ToldIsTrue'
    BY <1>2 DEF Withdraw, IInv, CarryInv, OwnerMatchesState, UsedInv, TellInv, Tells, ToldIsTrue, Done
  <2>2. GoneInv'
    BY <1>2 DEF Withdraw, IInv, GoneInv, PastCheck
  <2> QED
    BY <2>1, <2>2
<1>3. ASSUME NEW s \in Staff, NEW op \in Ops, NEW t \in Tickets, Start(s, op, t) PROVE Rest
  <2>1. /\ \A x \in Staff \ {s} : req'[x] = req[x]
        /\ req'[s].op = op /\ req'[s].ticket = t
        /\ req'[s].pc = IF op \in PutModes THEN "user" ELSE "end"
        /\ Still /\ mail' = mail
    BY <1>3 DEF Start, IInv, TypeOK, Still
  <2>2. CarryInv'
    BY <2>1 DEF IInv, CarryInv
  <2>3. OwnerMatchesState' /\ ToldIsTrue'
    BY <2>1 DEF IInv, OwnerMatchesState, ToldIsTrue, Still, Done
  <2>4. UsedInv' /\ TellInv'
    BY <2>1 DEF IInv, UsedInv, TellInv, Tells, Still, Done
  <2>5. GoneInv'
    BY <2>1 DEF IInv, GoneInv, Still, PastCheck
  <2> QED
    BY <2>2, <2>3, <2>4, <2>5
<1>4. ASSUME NEW s \in Staff, ReadUser(s) PROVE Rest
  <2>1. Still /\ mail' = mail /\ \A x \in Staff \ {s} : req'[x] = req[x]
    BY <1>4 DEF ReadUser, IInv, TypeOK, Still
  <2>2. CASE Agent[s] \notin privileged
    <3>1. \A x \in Staff : SameRequest(x) \/ req'[x] = Idle
      BY <1>4, <2>1, <2>2 DEF ReadUser, IInv, TypeOK, SameRequest
    <3>2. MailsKnow
      BY <2>1 DEF MailsKnow, IInv, CarryInv
    <3> QED
      BY <2>1, <3>1, <3>2, StillStep
  <2>3. CASE Agent[s] \in privileged
    <3>1. req'[s] = [req[s] EXCEPT !.pc = "begin"]
      BY <1>4, <2>3 DEF ReadUser, IInv, TypeOK
    <3>2. req'[s].pc = "begin" /\ req'[s].op = req[s].op /\ req'[s].ticket = req[s].ticket
      BY <3>1 DEF IInv, TypeOK, Requests
    <3>3. CarryInv'
      BY <1>4, <2>1, <3>2 DEF ReadUser, IInv, CarryInv
    <3>4. OwnerMatchesState' /\ ToldIsTrue'
      BY <2>1 DEF IInv, OwnerMatchesState, ToldIsTrue, Still, Done
    <3>5. UsedInv' /\ TellInv'
      BY <2>1, <3>2 DEF IInv, UsedInv, TellInv, Tells, Still, Done
    <3>6. GoneInv'
      BY <2>1, <2>3, <3>2 DEF IInv, GoneInv, Still, PastCheck
    <3> QED
      BY <3>3, <3>4, <3>5, <3>6
  <2> QED
    BY <2>2, <2>3
<1>5. ASSUME NEW s \in Staff, Begin(s) PROVE Rest
  <2>1. Still /\ mail' = mail /\ \A x \in Staff \ {s} : req'[x] = req[x]
    BY <1>5 DEF Begin, IInv, TypeOK, Still
  <2>2. req'[s].pc = "end" /\ req'[s].op = req[s].op /\ req'[s].ticket = req[s].ticket
    BY <1>5 DEF Begin, IInv, TypeOK, Requests
  <2>3. CarryInv'
    BY <1>5, <2>1, <2>2 DEF Begin, IInv, CarryInv
  <2>4. OwnerMatchesState' /\ ToldIsTrue'
    BY <2>1 DEF IInv, OwnerMatchesState, ToldIsTrue, Still, Done
  <2>5. UsedInv' /\ TellInv'
    BY <2>1, <2>2 DEF IInv, UsedInv, TellInv, Tells, Still, Done
  <2>6. GoneInv'
    BY <1>5, <2>1, <2>2 DEF Begin, IInv, GoneInv, Still, PastCheck
  <2> QED
    BY <2>3, <2>4, <2>5, <2>6
<1>6. ASSUME NEW s \in Staff, Refuse(s) PROVE Rest
  <2>1. Still /\ mail' = mail /\ \A x \in Staff : SameRequest(x) \/ req'[x] = Idle
    BY <1>6 DEF Refuse, IInv, TypeOK, Still, SameRequest
  <2>2. MailsKnow
    BY <2>1 DEF MailsKnow, IInv, CarryInv
  <2> QED
    BY <2>1, <2>2, StillStep
<1>7. ASSUME NEW s \in Staff, NEW lost \in BOOLEAN, Put(s, lost) PROVE Rest
  <2> DEFINE t == req[s].ticket
             c == IF req[s].op = "Unclaim" THEN None ELSE Agent[s]
  <2>1. /\ req[s].pc = "end" /\ req[s].op \in PutModes /\ t \in Tickets
        /\ ticket[t] # None /\ ticket[t] \in Rows
        /\ Commit(s, lost) /\ messages' = messages /\ used' = used /\ told' = told
        /\ ticket[t].state # "Closed"
    BY <1>7 DEF Put, Commit, May, Proceeds, IInv, CarryInv, TypeOK
  <2>2. ticket' = [ticket EXCEPT ![t] = [[ticket[t] EXCEPT !.state = Target[req[s].op]]
                                         EXCEPT !.claimedby = c]]
    BY <1>7, <2>1 DEF Put, Rows, IInv, TypeOK
  <2>3. /\ ticket'[t].state = Target[req[s].op] /\ ticket'[t].claimedby = c
        /\ \A x \in Tickets \ {t} : ticket'[x] = ticket[x]
    BY <2>1, <2>2 DEF IInv, TypeOK, Rows
  <2>4. /\ ticket'[t].state = "Unclaimed" <=> c = None
        /\ req[s].op = "Close" => ticket'[t].state = "Closed"
    BY <2>1, <2>3 DEF Target, TicketConstants
  <2>5. /\ CarryInv' /\ GoneInv'
        /\ \A x \in Staff : req'[x].pc = "tell" =>
             /\ req'[x].op = req[x].op /\ req'[x].ticket = req[x].ticket
             /\ x # s => req[x].pc = "tell"
             /\ x = s => req[s].op \in {"Close", "Post"}
    BY <2>1, CommitStep
  <2> HIDE DEF c
  <2>6. OwnerMatchesState'
    BY <2>3, <2>4 DEF IInv, OwnerMatchesState
  <2>7. UsedInv'
    BY <2>1, <2>3, <2>5 DEF IInv, UsedInv
  <2>8. \A op \in Ops, x \in Tickets : Done(op, x) => Done(op, x)'
    BY <2>1, <2>3 DEF Done
  <2>9. ToldIsTrue'
    BY <2>1, <2>8 DEF IInv, ToldIsTrue
  <2>10. ASSUME NEW x \in Staff, req'[x].pc = "tell" PROVE Tells(x)'
    <3>1. CASE x = s
      <4>1. req'[x].op = "Close" /\ req'[x].ticket = t
        BY <2>1, <2>5, <2>10, <3>1
      <4>2. ticket'[t].state = "Closed"
        BY <2>4, <2>5, <2>10, <4>1, <3>1
      <4> QED
        BY <4>1, <4>2 DEF Tells, Done
    <3>2. CASE x # s
      BY <2>5, <2>8, <2>10, <3>2 DEF IInv, TellInv, Tells, CarryInv
    <3> QED
      BY <3>1, <3>2
  <2>11. TellInv'
    BY <2>10 DEF TellInv, Tells
  <2> QED
    BY <2>5, <2>6, <2>7, <2>9, <2>11
<1>8. ASSUME NEW s \in Staff, NEW lost \in BOOLEAN, Delete(s, lost) PROVE Rest
  <2> DEFINE t == req[s].ticket
  <2>1. /\ req[s].pc = "end" /\ req[s].op = "Delete" /\ t \in Tickets
        /\ Commit(s, lost) /\ used' = used /\ told' = told /\ ticket[t] # None
        /\ ticket'[t] = None
        /\ \A x \in Tickets \ {t} : ticket'[x] = ticket[x] /\ messages'[x] = messages[x]
    BY <1>8 DEF Delete, Commit, May, IInv, CarryInv, TypeOK
  <2>2. /\ CarryInv' /\ GoneInv'
        /\ \A x \in Staff : req'[x].pc = "tell" =>
             /\ req'[x].op = req[x].op /\ req'[x].ticket = req[x].ticket
             /\ x # s => req[x].pc = "tell"
             /\ x = s => req[s].op \in {"Close", "Post"}
    BY <2>1, CommitStep
  <2>3. OwnerMatchesState'
    BY <2>1 DEF IInv, OwnerMatchesState
  <2>4. UsedInv'
    BY <2>1, <2>2 DEF IInv, UsedInv
  <2>5. \A op \in Ops, x \in Tickets : Done(op, x) => Done(op, x)'
    BY <2>1 DEF Done
  <2>6. ToldIsTrue'
    BY <2>1, <2>5 DEF IInv, ToldIsTrue
  <2>7. TellInv'
    BY <2>1, <2>2, <2>5 DEF IInv, TellInv, Tells, CarryInv
  <2> QED
    BY <2>2, <2>3, <2>4, <2>6, <2>7
<1>9. ASSUME NEW s \in Staff, NEW lost \in BOOLEAN, Post(s, lost) PROVE Rest
  <2> DEFINE t == req[s].ticket
  <2>1. /\ req[s].pc = "end" /\ req[s].op = "Post" /\ t \in Tickets
        /\ Commit(s, lost) /\ used' = used /\ told' = told /\ ticket[t] # None
        /\ ticket' = ticket /\ messages'[t] = Append(messages[t], "team")
        /\ \A x \in Tickets \ {t} : messages'[x] = messages[x]
    BY <1>9 DEF Post, Commit, May, IInv, CarryInv, TypeOK
  <2>2. /\ CarryInv' /\ GoneInv'
        /\ \A x \in Staff : req'[x].pc = "tell" =>
             /\ req'[x].op = req[x].op /\ req'[x].ticket = req[x].ticket
             /\ x # s => req[x].pc = "tell"
             /\ x = s => req[s].op \in {"Close", "Post"}
    BY <2>1, CommitStep
  <2>3. OwnerMatchesState'
    BY <2>1 DEF IInv, OwnerMatchesState
  <2>4. UsedInv'
    BY <2>1, <2>2 DEF IInv, UsedInv
  <2>5. /\ messages[t] \in Seq(Authors) /\ "team" \in Authors
    BY <2>1 DEF IInv, TypeOK, Authors
  <2>6. /\ \A op \in Ops, x \in Tickets : Done(op, x) => Done(op, x)'
        /\ \A x \in Tickets : x = t => Done("Post", x)'
    <3>1. /\ \A i \in DOMAIN messages[t] :
               i \in DOMAIN messages'[t] /\ messages'[t][i] = messages[t][i]
          /\ \E i \in DOMAIN messages'[t] : messages'[t][i] = "team"
      BY <2>1, <2>5, AppendKeeps
    <3> HIDE DEF t
    <3>2. \A x \in Tickets : x = t => Done("Post", x)'
      BY <3>1 DEF Done
    <3>3. ASSUME NEW op \in Ops, NEW x \in Tickets, Done(op, x) PROVE Done(op, x)'
      <4>1. CASE x = t
        BY <2>1, <3>1, <3>3, <4>1 DEF Done
      <4>2. CASE x # t
        BY <2>1, <3>3, <4>2 DEF Done
      <4> QED
        BY <4>1, <4>2
    <3> QED
      BY <3>2, <3>3
  <2>7. ToldIsTrue'
    BY <2>1, <2>6 DEF IInv, ToldIsTrue
  <2>8. TellInv'
    BY <2>1, <2>2, <2>6 DEF IInv, TellInv, Tells, CarryInv
  <2> QED
    BY <2>2, <2>3, <2>4, <2>7, <2>8
<1>10. ASSUME NEW s \in Staff, NEW fails \in BOOLEAN, Tell(s, fails) PROVE Rest
  <2>1. /\ ticket' = ticket /\ used' = used /\ messages' = messages /\ mail' = mail
        /\ privileged' = privileged /\ gone' = gone
        /\ req[s].pc = "tell"
        /\ told' = told \/ told' = told \cup {<<req[s].op, req[s].ticket>>}
        /\ req'[s] = Idle /\ \A x \in Staff \ {s} : req'[x] = req[x]
    BY <1>10 DEF Tell, IInv, TypeOK
  <2>2. req'[s].pc = "idle"
    BY <2>1 DEF Idle
  <2>3. CarryInv' /\ OwnerMatchesState'
    BY <2>1, <2>2 DEF IInv, CarryInv, OwnerMatchesState
  <2>4. UsedInv'
    BY <2>1, <2>2 DEF IInv, UsedInv
  <2>5. TellInv'
    BY <2>1, <2>2 DEF IInv, TellInv, Tells, Done
  <2>6. ToldIsTrue'
    BY <2>1 DEF IInv, ToldIsTrue, TellInv, Tells, Done
  <2>7. GoneInv'
    BY <2>1, <2>2 DEF IInv, GoneInv, PastCheck
  <2> QED
    BY <2>3, <2>4, <2>5, <2>6, <2>7
<1>11. ASSUME NEW m \in Mails, MailStep(m), ~\E lost \in BOOLEAN : MailRecord(m, lost)
       PROVE  Rest
  <2>1. Still /\ req' = req
    BY <1>11 DEF MailStep, Arrive, Take, MailReject, MailFail, Drop, Crash, Still
  <2>2. MailsKnow
    <3>1. \A x \in Mails \ {m} : mail'[x] = mail[x]
      BY <1>11 DEF MailStep, Arrive, Take, MailReject, MailFail, Drop, Crash, IInv, TypeOK
    <3>2. CASE \E kind \in Kinds, t \in Tickets, e \in Emails : Arrive(m, kind, t, e)
      <4>1. mail'[m].ticket \in Tickets
        BY <3>2 DEF Arrive, IInv, TypeOK
      <4> QED
        BY <3>1, <4>1 DEF MailsKnow, IInv, CarryInv
    <3>3. CASE ~\E kind \in Kinds, t \in Tickets, e \in Emails : Arrive(m, kind, t, e)
      <4>1. mail[m].pc # "unsent"
        BY <1>11, <3>3 DEF MailStep, Take, MailReject, MailFail, Drop, Crash
      <4>2. [[mail[m] EXCEPT !.pc = "end"] EXCEPT !.overtaken = FALSE].ticket = mail[m].ticket
        BY DEF IInv, TypeOK, Replies
      <4>3. \A p \in {"queued", "drop", "done"} : [mail[m] EXCEPT !.pc = p].ticket = mail[m].ticket
        BY ReplyPc DEF IInv, TypeOK
      <4>4. mail \in [Mails -> Replies]
        BY DEF IInv, TypeOK
      <4>5. ASSUME \E fails \in BOOLEAN, answers \in BOOLEAN : Take(m, fails, answers)
            PROVE  mail'[m].ticket = mail[m].ticket
        <5>1. \/ mail'[m] = [[mail[m] EXCEPT !.pc = "end"] EXCEPT !.overtaken = FALSE]
              \/ mail'[m] = [mail[m] EXCEPT !.pc = "drop"]
          BY <4>4, <4>5 DEF Take
        <5> QED
          BY <4>2, <4>3, <5>1
      <4>6. ASSUME \E fails \in BOOLEAN : MailReject(m, fails)
            PROVE  mail'[m].ticket = mail[m].ticket
        BY <4>3, <4>4, <4>6 DEF MailReject
      <4>7. ASSUME MailFail(m)
            PROVE  mail'[m].ticket = mail[m].ticket
        BY <4>3, <4>4, <4>7 DEF MailFail
      <4>8. ASSUME \E fails \in BOOLEAN : Drop(m, fails)
            PROVE  mail'[m].ticket = mail[m].ticket
        BY <4>3, <4>4, <4>8 DEF Drop
      <4>9. ASSUME Crash(m)
            PROVE  mail'[m].ticket = mail[m].ticket
        BY <4>3, <4>4, <4>9 DEF Crash
      <4>10. mail'[m].ticket = mail[m].ticket
        BY <1>11, <3>3, <4>5, <4>6, <4>7, <4>8, <4>9 DEF MailStep
      <4> QED
        BY <3>1, <4>1, <4>10 DEF MailsKnow, IInv, CarryInv
    <3> QED
      BY <3>2, <3>3
  <2>3. \A x \in Staff : SameRequest(x)
    BY <2>1 DEF SameRequest
  <2> QED
    BY <2>1, <2>2, <2>3, StillStep
<1>12. ASSUME NEW m \in Mails, NEW lost \in BOOLEAN, MailRecord(m, lost) PROVE Rest
  <2> DEFINE t == mail[m].ticket
  <2>1. /\ t \in Tickets /\ mail[m].pc = "end"
        /\ ticket' = ticket /\ used' = used /\ told' = told
        /\ privileged' = privileged /\ gone' = gone
        /\ messages'[t] = Append(messages[t], m)
        /\ \A x \in Tickets \ {t} : messages'[x] = messages[x]
        /\ req' = Overtaken(req, t)
        /\ mail' = [Overtaken(mail, t) EXCEPT ![m] = [mail[m] EXCEPT !.pc = "drop"]]
    BY <1>12 DEF MailRecord, IInv, CarryInv, TypeOK
  <2>2. \A x \in Staff : SameRequest(x)
    <3>1. req \in [Staff -> Requests]
      BY DEF IInv, TypeOK
    <3> HIDE DEF t
    <3>2. \A x \in Staff : /\ Overtaken(req, t)[x].pc = req[x].pc
                            /\ Overtaken(req, t)[x].op = req[x].op
                            /\ Overtaken(req, t)[x].ticket = req[x].ticket
      BY <3>1, OvertakenReq
    <3> QED
      BY <2>1, <3>2 DEF SameRequest
  <2>3. MailsKnow
    <3>1. Overtaken(mail, t) \in [Mails -> Replies]
      BY OvertakenMail DEF IInv, TypeOK
    <3>2. [mail[m] EXCEPT !.pc = "drop"].ticket = t
      BY DEF IInv, TypeOK, Replies
    <3>3. mail'[m].ticket = t /\ \A x \in Mails \ {m} : mail'[x] = Overtaken(mail, t)[x]
      BY <2>1, <3>1, <3>2
    <3>4. \A x \in Mails \ {m} : mail'[x].pc = mail[x].pc /\ mail'[x].ticket = mail[x].ticket
      <4>1. mail \in [Mails -> Replies]
        BY DEF IInv, TypeOK
      <4> HIDE DEF t
      <4> QED
        BY <3>3, <4>1, OvertakenMailKeeps
    <3> QED
      BY <2>1, <3>3, <3>4 DEF MailsKnow, IInv, CarryInv
  <2>4. CarryInv'
    BY <2>2, <2>3 DEF IInv, CarryInv, MailsKnow, SameRequest
  <2>5. OwnerMatchesState'
    BY <2>1 DEF IInv, OwnerMatchesState
  <2>6. UsedInv'
    BY <2>1, <2>2 DEF IInv, UsedInv, SameRequest
  <2>7. messages[t] \in Seq(Authors) /\ m \in Authors
    BY <2>1 DEF IInv, TypeOK, Authors
  <2>8. \A op \in Ops, x \in Tickets : Done(op, x) => Done(op, x)'
    <3>1. \A i \in DOMAIN messages[t] :
             i \in DOMAIN messages'[t] /\ messages'[t][i] = messages[t][i]
      BY <2>1, <2>7, AppendKeeps
    <3> HIDE DEF t
    <3> QED
      BY <2>1, <3>1 DEF Done
  <2>9. ToldIsTrue'
    BY <2>1, <2>8 DEF IInv, ToldIsTrue
  <2>10. TellInv'
    BY <2>2, <2>8 DEF IInv, TellInv, Tells, CarryInv, SameRequest
  <2>11. GoneInv'
    BY <2>1, <2>2 DEF IInv, GoneInv, PastCheck, SameRequest
  <2> QED
    BY <2>4, <2>5, <2>6, <2>9, <2>10, <2>11
<1>13. Rest
  BY <1>1, <1>2, <1>3, <1>4, <1>5, <1>6, <1>7, <1>8, <1>9, <1>10, <1>11, <1>12
  DEF Next, StaffStep
<1> QED
  BY <1>0, <1>13 DEF IInv

LEMMA InitInv == ASSUME TicketConstants, Init PROVE IInv
<1>1. TypeOK
  BY InitTypes
<1>2. \A s \in Staff : req[s].pc = "idle"
  BY DEF Init, Idle
<1>3. \A m \in Mails : mail[m].pc = "unsent"
  BY DEF Init, Unsent
<1>4. CarryInv /\ OwnerMatchesState /\ UsedInv /\ TellInv /\ ToldIsTrue
  BY <1>2, <1>3 DEF Init, CarryInv, OwnerMatchesState, UsedInv, TellInv, ToldIsTrue
<1>5. GoneInv
  BY DEF Init, GoneInv
<1> QED
  BY <1>1, <1>4, <1>5 DEF IInv

-----------------------------------------------------------------------------
(* The invariant of every behaviour. *)
THEOREM Invariance == Spec => []IInv
<1>1. Init => IInv
  BY InitInv, TicketConstants
<1>2. ASSUME IInv, UNCHANGED vars PROVE IInv'
  <2>1. TypeOK'
    BY <1>2 DEF IInv, TypeOK, vars
  <2>2. CarryInv' /\ OwnerMatchesState' /\ UsedInv'
    BY <1>2 DEF IInv, CarryInv, OwnerMatchesState, UsedInv, vars
  <2>3. TellInv' /\ ToldIsTrue'
    BY <1>2 DEF IInv, TellInv, Tells, ToldIsTrue, Done, vars
  <2>4. GoneInv'
    BY <1>2 DEF IInv, GoneInv, PastCheck, vars
  <2> QED
    BY <2>1, <2>2, <2>3, <2>4 DEF IInv
<1>3. IInv /\ [Next]_vars => IInv'
  BY <1>2, InvStep, TicketConstants
<1> QED
  BY <1>1, <1>3, PTL DEF Spec

(* The rows, the requests and the mails keep their types (Tickets).        *)
THEOREM TicketTypes == Spec => []TypeOK
BY Invariance, PTL DEF IInv

(* The branches of ticket.rs that report a ticket whose state and owner do *)
(* not fit are never reached.                                              *)
THEOREM OwnersFit == Spec => []OwnerMatchesState
BY Invariance, PTL DEF IInv

(* The customer is told of nothing that was not committed: put and         *)
(* post_message send their mails after the transaction, and only when it   *)
(* returned with no error (ticket.rs).                                     *)
THEOREM TellsTheTruth == Spec => []ToldIsTrue
BY Invariance, PTL DEF IInv

-----------------------------------------------------------------------------
(* What a step may do.                                                     *)

\* A step that touches a ticket is its Create, or a COMMIT of a request or of
\* a mail that was allowed to go on.
Touched(t) == ticket'[t] # ticket[t] \/ messages'[t] # messages[t]
ByRequest(t, s) ==
  /\ req[s].ticket = t /\ ticket[t] # None
  /\ req[s].pc = "end" /\ req[s].op \in Ops
  /\ Proceeds(ticket[t], req[s].op, Agent[s])
  /\ req'[s].pc # "end"
  /\ \/ /\ req[s].op \in PutModes
        /\ ticket'[t].claimedby = (IF req[s].op = "Unclaim" THEN None ELSE Agent[s])
        /\ messages'[t] = messages[t]
     \/ req[s].op = "Delete" /\ ticket'[t] = None /\ messages'[t] = messages[t]
     \/ /\ req[s].op = "Post" /\ ticket'[t] = ticket[t]
        /\ messages'[t] = Append(messages[t], "team")
ByMail(t, m) ==
  /\ ticket'[t] = ticket[t] /\ ticket[t] # None /\ ticket[t].state # "Closed"
  /\ messages'[t] = Append(messages[t], m)
  /\ \E lost \in BOOLEAN : MailRecord(m, lost)
ByForm(t) ==
  /\ t \notin used
  /\ messages'[t] = <<"customer">>
  /\ ticket'[t] # None => ticket'[t].claimedby = None

LEMMA TouchedBy ==
  ASSUME TicketConstants, IInv, [Next]_vars, NEW t \in Tickets, Touched(t)
  PROVE  \/ ByForm(t)
         \/ \E s \in Staff : ByRequest(t, s)
         \/ \E m \in Mails : ByMail(t, m)
<1>0. Next
  BY DEF Touched, vars
<1>1. ASSUME NEW x \in Tickets, NEW e \in Emails, Create(x, e) PROVE ByForm(t)
  BY <1>1 DEF Create, Touched, ByForm, IInv, TypeOK
<1>2. ASSUME NEW s \in Staff, NEW lost \in BOOLEAN, Commit(s, lost), req[s].pc = "end"
      PROVE  req'[s].pc # "end"
  BY <1>2, CommitEffect DEF IInv, Idle
<1>3. ASSUME NEW s \in Staff, NEW lost \in BOOLEAN, Put(s, lost) PROVE ByRequest(t, s)
  <2>1. /\ req[s].ticket \in Tickets /\ ticket[req[s].ticket] \in Rows
        /\ req[s].op \in PutModes /\ req[s].pc = "end" /\ ticket[req[s].ticket] # None
        /\ Proceeds(ticket[req[s].ticket], req[s].op, Agent[s])
        /\ messages' = messages
    BY <1>3 DEF Put, May, IInv, CarryInv, TypeOK
  <2> DEFINE c == IF req[s].op = "Unclaim" THEN None ELSE Agent[s]
  <2>2. ticket' = [ticket EXCEPT ![req[s].ticket] =
                     [[ticket[req[s].ticket] EXCEPT !.state = Target[req[s].op]]
                      EXCEPT !.claimedby = c]]
    BY <1>3, <2>1 DEF Put, Rows, IInv, TypeOK
  <2>3. req'[s].pc # "end"
    BY <1>2, <1>3, <2>1 DEF Put
  <2> HIDE DEF c
  <2>4. req[s].ticket = t
    BY <2>1, <2>2 DEF Touched, IInv, TypeOK
  <2>5. ticket'[t].claimedby = c
    BY <2>1, <2>2, <2>4 DEF IInv, TypeOK, Rows
  <2> QED
    BY <2>1, <2>3, <2>4, <2>5 DEF ByRequest, c
<1>4. ASSUME NEW s \in Staff, NEW lost \in BOOLEAN, Delete(s, lost) PROVE ByRequest(t, s)
  <2>1. /\ req[s].op = "Delete" /\ req[s].pc = "end" /\ ticket[req[s].ticket] # None
        /\ Proceeds(ticket[req[s].ticket], req[s].op, Agent[s])
        /\ req'[s].pc # "end"
    BY <1>2, <1>4 DEF Delete, May
  <2>2. req[s].ticket = t /\ ticket'[t] = None /\ messages'[t] = messages[t]
    BY <1>4 DEF Delete, Touched, IInv, TypeOK
  <2> QED
    BY <2>1, <2>2 DEF ByRequest
<1>5. ASSUME NEW s \in Staff, NEW lost \in BOOLEAN, Post(s, lost) PROVE ByRequest(t, s)
  <2>1. /\ req[s].op = "Post" /\ req[s].pc = "end" /\ ticket[req[s].ticket] # None
        /\ Proceeds(ticket[req[s].ticket], req[s].op, Agent[s])
        /\ req'[s].pc # "end" /\ ticket' = ticket
    BY <1>2, <1>5 DEF Post, May
  <2>2. req[s].ticket = t /\ messages'[t] = Append(messages[t], "team")
    BY <1>5 DEF Post, Touched, IInv, TypeOK
  <2> QED
    BY <2>1, <2>2 DEF ByRequest
<1>6. ASSUME NEW m \in Mails, NEW lost \in BOOLEAN, MailRecord(m, lost) PROVE ByMail(t, m)
  <2>1. /\ ticket'[t] = ticket[t] /\ ticket[t] # None /\ ticket[t].state # "Closed"
        /\ messages'[t] = Append(messages[t], m)
    BY <1>6 DEF MailRecord, Found, Touched, IInv, TypeOK
  <2> QED
    BY <1>6, <2>1 DEF ByMail
<1>7. ASSUME NEW s \in Staff, StaffStep(s) PROVE ByRequest(t, s)
  <2>1. ASSUME NEW op \in Ops, NEW x \in Tickets, Start(s, op, x) PROVE FALSE
    BY <2>1 DEF Start, Touched
  <2>2. ~(ReadUser(s) \/ Begin(s) \/ Refuse(s))
    BY DEF ReadUser, Begin, Refuse, Touched
  <2>3. ASSUME NEW lost \in BOOLEAN, Tell(s, lost) PROVE FALSE
    BY <2>3 DEF Tell, Touched
  <2> QED
    BY <1>3, <1>4, <1>5, <1>7, <2>1, <2>2, <2>3 DEF StaffStep
<1>8. ASSUME NEW m \in Mails, MailStep(m) PROVE ByMail(t, m)
  <2>1. ASSUME NEW kind \in Kinds, NEW x \in Tickets, NEW e \in Emails, Arrive(m, kind, x, e)
        PROVE  FALSE
    BY <2>1 DEF Arrive, Touched
  <2>2. ~(Crash(m) \/ MailFail(m))
    BY DEF Crash, MailFail, Touched
  <2>3. ASSUME NEW b \in BOOLEAN,
               \/ MailReject(m, b) \/ Drop(m, b)
               \/ \E answers \in BOOLEAN : Take(m, b, answers)
        PROVE  FALSE
    BY <2>3 DEF MailReject, Drop, Take, Touched
  <2> QED
    BY <1>6, <1>8, <2>1, <2>2, <2>3 DEF MailStep
<1>9. ASSUME NEW u \in Users, Withdraw(u) PROVE FALSE
  BY <1>9 DEF Withdraw, Touched
<1> QED
  BY <1>0, <1>1, <1>7, <1>8, <1>9 DEF Next

(* Only the owner acts on a claimed or closed ticket, whoever else is      *)
(* under way: the checks of ticket.rs hold at COMMIT because the row is    *)
(* locked and the snapshot is the row's last.                              *)
THEOREM OnlyTheOwner == Spec => OnlyOwnerActs
<1> DEFINE Owners == \A t \in Tickets, u \in Users :
         /\ OwnedBy(t, u)
         /\ \/ ticket'[t] # ticket[t]
            \/ messages'[t] # messages[t] /\ ticket'[t] # None
               /\ \A m \in Mails : messages'[t] # Append(messages[t], m)
         => \E s \in Staff : Agent[s] = u /\ req[s].ticket = t /\ req'[s] # req[s]
<1>1. IInv /\ [Next]_vars => [Owners]_vars
  <2> SUFFICES ASSUME IInv, [Next]_vars, NEW t \in Tickets, NEW u \in Users, OwnedBy(t, u),
                      Touched(t), ~\E m \in Mails : ByMail(t, m)
               PROVE  \E s \in Staff : Agent[s] = u /\ req[s].ticket = t /\ req'[s] # req[s]
    BY DEF Touched, ByMail
  <2>1. t \in used /\ u # None /\ ticket[t].state # "Unclaimed"
    BY TicketConstants DEF IInv, UsedInv, OwnerMatchesState, OwnedBy
  <2>2. PICK s \in Staff : ByRequest(t, s)
    BY <2>1, TouchedBy, TicketConstants DEF ByForm
  <2>3. Agent[s] = u
    BY <2>1, <2>2 DEF ByRequest, Proceeds, OwnedBy
  <2> QED
    BY <2>2, <2>3 DEF ByRequest
<1> QED
  BY <1>1, Invariance, PTL DEF Spec, OnlyOwnerActs

(* Closed is final: a mail or a request that was under way when the ticket *)
(* was closed, or deleted, no longer reaches it (ticket.rs, main.rs of the *)
(* response handler).                                                      *)
THEOREM ClosedStays == Spec => ClosedIsFinal
<1> DEFINE Final == \A t \in Tickets :
         /\ ticket[t] # None /\ ticket[t].state = "Closed" =>
              \/ ticket'[t] = None
              \/ ticket'[t] = ticket[t] /\ messages'[t] = messages[t]
         /\ t \in used /\ ticket[t] = None => ticket'[t] = None /\ messages'[t] = messages[t]
<1>1. IInv /\ [Next]_vars => [Final]_vars
  <2> SUFFICES ASSUME IInv, [Next]_vars, NEW t \in Tickets, Touched(t)
               PROVE  /\ ticket[t] # None /\ ticket[t].state = "Closed" => ticket'[t] = None
                      /\ ~(t \in used /\ ticket[t] = None)
    BY DEF Touched
  <2>1. CASE ByForm(t)
    BY <2>1 DEF ByForm, IInv, UsedInv
  <2>2. ASSUME NEW s \in Staff, ByRequest(t, s)
        PROVE  ticket[t] # None /\ (ticket[t].state = "Closed" => ticket'[t] = None)
    BY <2>2 DEF ByRequest, Proceeds
  <2>3. ASSUME NEW m \in Mails, ByMail(t, m)
        PROVE  ticket[t] # None /\ ticket[t].state # "Closed"
    BY <2>3 DEF ByMail
  <2> QED
    BY <2>1, <2>2, <2>3, TouchedBy, TicketConstants
<1> QED
  BY <1>1, Invariance, PTL DEF Spec, ClosedIsFinal

(* Who has lost the privilege claims nothing more, as put_request asks the *)
(* users table and not the token (ticket.rs).                              *)
THEOREM PrivilegeIsAsked == Spec => WithdrawnGainNothing
<1> DEFINE Gains == \A u \in gone, t \in Tickets : OwnedBy(t, u)' => OwnedBy(t, u)
<1>1. IInv /\ [Next]_vars => [Gains]_vars
  <2> SUFFICES ASSUME IInv, [Next]_vars, NEW u \in gone, NEW t \in Tickets,
                      ticket'[t] # None, ticket'[t].claimedby = u, ticket'[t] # ticket[t]
               PROVE  OwnedBy(t, u)
    BY DEF OwnedBy
  <2>1. u \in Users /\ u # None /\ ~PastCheck(u)
    BY TicketConstants DEF IInv, TypeOK, GoneInv
  <2>2. CASE ByForm(t)
    BY <2>1, <2>2 DEF ByForm
  <2>3. ASSUME NEW s \in Staff, ByRequest(t, s) PROVE FALSE
    BY <2>1, <2>3 DEF ByRequest, PastCheck
  <2>4. ASSUME NEW m \in Mails, ByMail(t, m) PROVE FALSE
    BY <2>4 DEF ByMail
  <2> QED
    BY <2>2, <2>3, <2>4, TouchedBy, TicketConstants DEF Touched
<1> QED
  BY <1>1, Invariance, PTL DEF Spec, WithdrawnGainNothing

-----------------------------------------------------------------------------
(* What becomes of a mail.                                                 *)

\* What the steps of anybody else leave of a mail: it may be overtaken.
Untouched(m) ==
  /\ mail'[m].pc = mail[m].pc /\ mail'[m].kind = mail[m].kind
  /\ mail'[m].ticket = mail[m].ticket
  /\ mail[m].overtaken => mail'[m].overtaken
  /\ m \in inbox' <=> m \in inbox
  /\ m \in answered' <=> m \in answered
  /\ crashed'[m] = crashed[m]

LEMMA OthersLeaveIt ==
  ASSUME TicketConstants, IInv, [Next]_vars, NEW m \in Mails
  PROVE  MailStep(m) \/ Untouched(m)
<1>0. mail \in [Mails -> Replies]
  BY DEF IInv, TypeOK
<1>1. ASSUME mail' = mail, inbox' = inbox, answered' = answered, crashed' = crashed
      PROVE  Untouched(m)
  BY <1>1 DEF Untouched
<1>2. ASSUME NEW t, mail' = Overtaken(mail, t), inbox' = inbox, answered' = answered,
             crashed' = crashed
      PROVE  Untouched(m)
  BY <1>0, <1>2, OvertakenMailKeeps DEF Untouched
<1>3. CASE UNCHANGED vars
  BY <1>1, <1>3 DEF vars
<1>4. ASSUME NEW t \in Tickets, NEW e \in Emails, Create(t, e) PROVE Untouched(m)
  BY <1>1, <1>4 DEF Create
<1>5. ASSUME NEW u \in Users, Withdraw(u) PROVE Untouched(m)
  BY <1>1, <1>5 DEF Withdraw
<1>6. ASSUME NEW s \in Staff, StaffStep(s) PROVE Untouched(m)
  <2>1. ASSUME NEW op \in Ops, NEW t \in Tickets, Start(s, op, t) PROVE Untouched(m)
    BY <1>1, <2>1 DEF Start
  <2>2. ASSUME ReadUser(s) \/ Begin(s) \/ Refuse(s) PROVE Untouched(m)
    BY <1>1, <2>2 DEF ReadUser, Begin, Refuse
  <2>3. ASSUME NEW lost \in BOOLEAN, Put(s, lost) \/ Delete(s, lost) \/ Post(s, lost)
        PROVE  Untouched(m)
    <3>1. Commit(s, lost)
      BY <2>3 DEF Put, Delete, Post
    <3> QED
      BY <1>2, <3>1 DEF Commit
  <2>4. ASSUME NEW fails \in BOOLEAN, Tell(s, fails) PROVE Untouched(m)
    BY <1>1, <2>4 DEF Tell
  <2> QED
    BY <1>6, <2>1, <2>2, <2>3, <2>4 DEF StaffStep
<1>7. ASSUME NEW x \in Mails \ {m}, MailStep(x) PROVE Untouched(m)
  <2>0. IInv
    OBVIOUS
  <2>1. ASSUME mail'[m] = mail[m], m \in inbox' <=> m \in inbox,
               m \in answered' <=> m \in answered, crashed'[m] = crashed[m]
        PROVE  Untouched(m)
    BY <2>1 DEF Untouched
  <2>2. ASSUME NEW kind \in Kinds, NEW t \in Tickets, NEW e \in Emails, Arrive(x, kind, t, e)
        PROVE  Untouched(m)
    BY <1>0, <2>1, <2>2 DEF Arrive
  <2>3. ASSUME Crash(x) PROVE Untouched(m)
    BY <1>0, <2>1, <2>3 DEF Crash, IInv, TypeOK
  <2>4. ASSUME MailFail(x) PROVE Untouched(m)
    BY <1>0, <2>1, <2>4 DEF MailFail
  <2>5. ASSUME NEW fails \in BOOLEAN, NEW answers \in BOOLEAN, Take(x, fails, answers)
        PROVE  Untouched(m)
    BY <1>0, <2>1, <2>5 DEF Take
  <2>6. ASSUME NEW fails \in BOOLEAN, MailReject(x, fails) PROVE Untouched(m)
    BY <1>0, <2>1, <2>6 DEF MailReject
  <2>7. ASSUME NEW fails \in BOOLEAN, Drop(x, fails) PROVE Untouched(m)
    BY <1>0, <2>1, <2>7 DEF Drop
  <2>8. ASSUME NEW lost \in BOOLEAN, MailRecord(x, lost) PROVE Untouched(m)
    <3> DEFINE w == Overtaken(mail, mail[x].ticket)
    <3>1. w \in [Mails -> Replies]
      BY <1>0, OvertakenMail
    <3>2. mail' = [w EXCEPT ![x] = [mail[x] EXCEPT !.pc = "drop"]]
      BY <2>8 DEF MailRecord
    <3>3. /\ w[m].pc = mail[m].pc /\ w[m].ticket = mail[m].ticket
          /\ w[m].kind = mail[m].kind /\ (mail[m].overtaken => w[m].overtaken)
      BY <1>0, OvertakenMailKeeps
    <3> HIDE DEF w
    <3>4. mail'[m] = w[m]
      BY <1>7, <3>1, <3>2
    <3>5. inbox' = inbox /\ answered' = answered /\ crashed' = crashed
      BY <2>8 DEF MailRecord
    <3> QED
      BY <3>3, <3>4, <3>5 DEF Untouched
  <2> QED
    BY <1>7, <2>2, <2>3, <2>4, <2>5, <2>6, <2>7, <2>8 DEF MailStep
<1> QED
  BY <1>3, <1>4, <1>5, <1>6, <1>7 DEF Next

\* Calls that failed stay counted.
LEMMA FaultsStay ==
  ASSUME TicketConstants, IInv, [Next]_vars, faults' = 0 PROVE faults = 0
<1>0. faults \in Nat
  BY DEF IInv, TypeOK
<1>1. ASSUME NEW b, Fault(b) PROVE faults = 0
  BY <1>0, <1>1 DEF Fault
<1>2. CASE faults' = faults
  BY <1>2
<1>3. CASE UNCHANGED vars
  BY <1>2, <1>3 DEF vars
<1>4. ASSUME NEW t \in Tickets, NEW e \in Emails, Create(t, e) PROVE faults = 0
  BY <1>2, <1>4 DEF Create
<1>5. ASSUME NEW u \in Users, Withdraw(u) PROVE faults = 0
  BY <1>2, <1>5 DEF Withdraw
<1>6. ASSUME NEW s \in Staff, StaffStep(s) PROVE faults = 0
  <2>1. ASSUME NEW op \in Ops, NEW t \in Tickets, Start(s, op, t) PROVE faults = 0
    BY <1>2, <2>1 DEF Start
  <2>2. ASSUME ReadUser(s) \/ Begin(s) PROVE faults = 0
    BY <1>2, <2>2 DEF ReadUser, Begin
  <2>3. ASSUME Refuse(s) PROVE faults = 0
    BY <1>1, <2>3 DEF Refuse
  <2>4. ASSUME NEW b \in BOOLEAN, Put(s, b) \/ Delete(s, b) \/ Post(s, b) \/ Tell(s, b)
        PROVE  faults = 0
    BY <1>1, <2>4 DEF Put, Delete, Post, Tell, Commit
  <2> QED
    BY <1>6, <2>1, <2>2, <2>3, <2>4 DEF StaffStep
<1>7. ASSUME NEW m \in Mails, MailStep(m) PROVE faults = 0
  <2>1. ASSUME NEW kind \in Kinds, NEW t \in Tickets, NEW e \in Emails, Arrive(m, kind, t, e)
        PROVE  faults = 0
    BY <1>2, <2>1 DEF Arrive
  <2>2. ASSUME Crash(m) PROVE faults = 0
    BY <1>2, <2>2 DEF Crash
  <2>3. ASSUME MailFail(m) PROVE faults = 0
    BY <1>1, <2>3 DEF MailFail
  <2>4. ASSUME NEW b \in BOOLEAN, NEW answers \in BOOLEAN, Take(m, b, answers)
        PROVE  faults = 0
    BY <1>1, <2>4 DEF Take
  <2>5. ASSUME NEW b \in BOOLEAN, MailRecord(m, b) \/ MailReject(m, b) \/ Drop(m, b)
        PROVE  faults = 0
    BY <1>1, <2>5 DEF MailRecord, MailReject, Drop
  <2> QED
    BY <1>7, <2>1, <2>2, <2>3, <2>4, <2>5 DEF MailStep
<1> QED
  BY <1>3, <1>4, <1>5, <1>6, <1>7 DEF Next

\* An id that was given stays given.
LEMMA UsedStays ==
  ASSUME [Next]_vars PROVE used \subseteq used'
<1>1. CASE UNCHANGED vars
  BY <1>1 DEF vars
<1>2. ASSUME NEW t \in Tickets, NEW e \in Emails, Create(t, e) PROVE used \subseteq used'
  BY <1>2 DEF Create
<1>3. ASSUME NEW u \in Users, Withdraw(u) PROVE used \subseteq used'
  BY <1>3 DEF Withdraw
<1>4. ASSUME NEW s \in Staff, StaffStep(s) PROVE used' = used
  <2>1. ASSUME NEW op \in Ops, NEW t \in Tickets, Start(s, op, t) PROVE used' = used
    BY <2>1 DEF Start
  <2>2. ASSUME ReadUser(s) \/ Begin(s) \/ Refuse(s) PROVE used' = used
    BY <2>2 DEF ReadUser, Begin, Refuse
  <2>3. ASSUME NEW b \in BOOLEAN, Put(s, b) \/ Delete(s, b) \/ Post(s, b) \/ Tell(s, b)
        PROVE  used' = used
    BY <2>3 DEF Put, Delete, Post, Tell, Commit
  <2> QED
    BY <1>4, <2>1, <2>2, <2>3 DEF StaffStep
<1>5. ASSUME NEW m \in Mails, MailStep(m) PROVE used' = used
  <2>1. ASSUME NEW kind \in Kinds, NEW t \in Tickets, NEW e \in Emails, Arrive(m, kind, t, e)
        PROVE  used' = used
    BY <2>1 DEF Arrive
  <2>2. ASSUME Crash(m) \/ MailFail(m) PROVE used' = used
    BY <2>2 DEF Crash, MailFail
  <2>3. ASSUME NEW b \in BOOLEAN, NEW answers \in BOOLEAN, Take(m, b, answers)
        PROVE  used' = used
    BY <2>3 DEF Take
  <2>4. ASSUME NEW b \in BOOLEAN, MailRecord(m, b) \/ MailReject(m, b) \/ Drop(m, b)
        PROVE  used' = used
    BY <2>4 DEF MailRecord, MailReject, Drop
  <2> QED
    BY <1>5, <2>1, <2>2, <2>3, <2>4 DEF MailStep
<1> QED
  BY <1>1, <1>2, <1>3, <1>4, <1>5 DEF Next

\* A reply that has been recorded stays, and its ticket's id is not used again.
Filed(m, t) == t \in used /\ \E i \in DOMAIN messages[t] : messages[t][i] = m

LEMMA FiledStays ==
  ASSUME TicketConstants, IInv, [Next]_vars, NEW m \in Mails, NEW t \in Tickets, Filed(m, t)
  PROVE  Filed(m, t)'
<1>1. t \in used'
  BY UsedStays DEF Filed
<1>2. messages[t] \in Seq(Authors)
  BY DEF IInv, TypeOK
<1>3. ASSUME NEW a \in Authors, messages'[t] = Append(messages[t], a)
      PROVE  Filed(m, t)'
  <2>1. \A i \in DOMAIN messages[t] : i \in DOMAIN messages'[t] /\ messages'[t][i] = messages[t][i]
    BY <1>2, <1>3, AppendKeeps
  <2> QED
    BY <1>1, <1>3, <2>1 DEF Filed
<1>4. CASE ~Touched(t)
  BY <1>1, <1>4 DEF Touched, Filed
<1>5. CASE ByForm(t)
  BY <1>5 DEF ByForm, Filed
<1>6. ASSUME NEW s \in Staff, ByRequest(t, s) PROVE Filed(m, t)'
  <2>1. CASE messages'[t] = messages[t]
    BY <1>1, <1>6, <2>1 DEF ByRequest, Filed
  <2>2. CASE messages'[t] = Append(messages[t], "team")
    BY <1>3, <2>2 DEF Authors
  <2> QED
    BY <1>6, <2>1, <2>2 DEF ByRequest
<1>7. ASSUME NEW x \in Mails, ByMail(t, x) PROVE Filed(m, t)'
  BY <1>3, <1>7 DEF ByMail, Authors
<1> QED
  BY <1>4, <1>5, <1>6, <1>7, TouchedBy

\* With no failed call, a reply whose summary can be cut is in the inbox while
\* its transaction runs; once it is past it, or out of the inbox, it is settled,
\* unless it was overtaken.
Settled(m) == m \in answered \/ Filed(m, mail[m].ticket)
Past(m) == \/ mail[m].pc \in {"drop", "done"}
           \/ mail[m].pc # "unsent" /\ m \notin inbox
Accounted(m) ==
  faults = 0 /\ mail[m].kind \in {"good", "long"} =>
    /\ mail[m].pc = "end" => m \in inbox
    /\ Past(m) /\ ~mail[m].overtaken => Settled(m)
ReplyInv == \A m \in Mails : Accounted(m)

LEMMA SettledStays ==
  ASSUME TicketConstants, IInv, [Next]_vars, NEW m \in Mails, Settled(m),
         mail[m].ticket \in Tickets, mail'[m].ticket = mail[m].ticket,
         m \in answered => m \in answered'
  PROVE  Settled(m)'
<1>1. CASE m \in answered
  BY <1>1 DEF Settled
<1>2. ASSUME Filed(m, mail[m].ticket) PROVE Settled(m)'
  <2>1. PICK t \in Tickets : t = mail[m].ticket
    OBVIOUS
  <2>2. Filed(m, t)
    BY <1>2, <2>1
  <2>3. Filed(m, t)'
    BY <2>2, FiledStays
  <2> QED
    BY <2>1, <2>3 DEF Settled, Filed
<1> QED
  BY <1>1, <1>2 DEF Settled

LEMMA AccountedStep ==
  ASSUME TicketConstants, IInv, [Next]_vars, NEW m \in Mails, Accounted(m), faults' = 0
  PROVE  Accounted(m)'
<1> DEFINE r == mail[m]
<1>0. /\ faults = 0 /\ mail \in [Mails -> Replies] /\ r \in Replies
      /\ inbox \in SUBSET Mails /\ answered \in SUBSET Mails
      /\ r.pc # "unsent" => r.ticket \in Tickets
  BY FaultsStay DEF IInv, TypeOK, CarryInv
<1>1. ASSUME r.kind \in {"good", "long"}, ~r.overtaken, Past(m)
      PROVE  Settled(m)
  BY <1>0, <1>1 DEF Accounted
<1>2. ASSUME NEW p \in {"unsent", "queued", "end", "drop", "done"}
      PROVE  /\ [r EXCEPT !.pc = p].pc = p /\ [r EXCEPT !.pc = p].kind = r.kind
             /\ [r EXCEPT !.pc = p].ticket = r.ticket
             /\ [r EXCEPT !.pc = p].overtaken = r.overtaken
  BY <1>0 DEF Replies
<1>3. CASE Untouched(m)
  <2>1. Past(m)' => Past(m)
    BY <1>3 DEF Past, Untouched
  <2>2. Past(m) => r.pc # "unsent"
    BY DEF Past
  <2>3. ASSUME Past(m)', ~mail'[m].overtaken, mail'[m].kind \in {"good", "long"}
        PROVE  Settled(m)'
    <3>1. Settled(m)
      BY <1>1, <1>3, <2>1, <2>3 DEF Untouched
    <3> QED
      BY <1>0, <1>3, <2>1, <2>2, <2>3, <3>1, SettledStays DEF Untouched
  <2> QED
    BY <1>0, <1>3, <2>3 DEF Accounted, Untouched
<1>4. ASSUME NEW kind \in Kinds, NEW t \in Tickets, NEW e \in Emails, Arrive(m, kind, t, e)
      PROVE  Accounted(m)'
  <2>1. mail'[m].pc = "queued" /\ m \in inbox'
    BY <1>0, <1>4 DEF Arrive
  <2> QED
    BY <2>1 DEF Accounted, Past
<1>5. CASE Crash(m)
  <2>1. /\ mail'[m] = [r EXCEPT !.pc = "queued"] /\ r.pc \in {"end", "drop", "done"}
        /\ inbox' = inbox /\ answered' = answered
    BY <1>0, <1>5 DEF Crash
  <2>2. mail'[m].pc = "queued" /\ mail'[m].kind = r.kind /\ mail'[m].ticket = r.ticket
        /\ mail'[m].overtaken = r.overtaken
    BY <1>2, <2>1
  <2>3. Past(m)' => Past(m)
    BY <2>1, <2>2 DEF Past
  <2>4. ASSUME Past(m)', ~mail'[m].overtaken, mail'[m].kind \in {"good", "long"}
        PROVE  Settled(m)'
    BY <1>0, <1>1, <2>1, <2>2, <2>3, <2>4, SettledStays
  <2> QED
    BY <2>2, <2>4 DEF Accounted
<1>6. CASE MailFail(m)
  <2>1. /\ mail'[m] = [r EXCEPT !.pc = "drop"] /\ r.pc = "end" /\ Fault(~r.overtaken)
    BY <1>0, <1>6 DEF MailFail
  <2>2. r.overtaken
    BY <1>0, <2>1 DEF Fault
  <2>3. mail'[m].overtaken /\ mail'[m].pc = "drop"
    BY <1>2, <2>1, <2>2
  <2> QED
    BY <2>3 DEF Accounted
<1>7. ASSUME NEW fails \in BOOLEAN, NEW answers \in BOOLEAN, Take(m, fails, answers)
      PROVE  Accounted(m)'
  <2>1. /\ ~fails /\ r.pc = "queued" /\ inbox' = inbox
        /\ answered' = IF answers THEN answered \cup {m} ELSE answered
        /\ r.kind = "long" /\ m \in inbox => answers
    BY <1>0, <1>7 DEF Take, Fault
  <2>2. CASE r.kind = "good" /\ m \in inbox
    <3>1. mail'[m] = [[r EXCEPT !.pc = "end"] EXCEPT !.overtaken = FALSE]
      BY <1>0, <1>7, <2>1, <2>2 DEF Take
    <3>2. mail'[m].pc = "end"
      BY <1>0, <3>1 DEF Replies
    <3> QED
      BY <2>1, <2>2, <3>2 DEF Accounted, Past
  <2>3. CASE ~(r.kind = "good" /\ m \in inbox)
    <3>1. mail'[m] = [r EXCEPT !.pc = "drop"]
      BY <1>0, <1>7, <2>1, <2>3 DEF Take
    <3>2. mail'[m].pc = "drop" /\ mail'[m].kind = r.kind /\ mail'[m].ticket = r.ticket
          /\ mail'[m].overtaken = r.overtaken
      BY <1>2, <3>1
    <3>3. ASSUME ~r.overtaken, r.kind \in {"good", "long"} PROVE Settled(m)'
      <4>1. CASE m \in inbox
        <5>1. m \in answered'
          BY <2>1, <2>3, <3>3, <4>1
        <5> QED
          BY <5>1 DEF Settled
      <4>2. CASE m \notin inbox
        <5>1. Settled(m)
          BY <1>1, <2>1, <3>3, <4>2 DEF Past
        <5> QED
          BY <1>0, <2>1, <3>2, <5>1, SettledStays
      <4> QED
        BY <4>1, <4>2
    <3> QED
      BY <3>2, <3>3 DEF Accounted
  <2> QED
    BY <2>2, <2>3
<1>8. ASSUME NEW lost \in BOOLEAN, MailRecord(m, lost) PROVE Accounted(m)'
  <2>1. /\ r.pc = "end" /\ r.ticket \in Tickets /\ ticket[r.ticket] # None
        /\ messages' = [messages EXCEPT ![r.ticket] = Append(@, m)]
        /\ used' = used
        /\ mail' = [Overtaken(mail, r.ticket) EXCEPT ![m] = [r EXCEPT !.pc = "drop"]]
    BY <1>0, <1>8 DEF MailRecord, Found
  <2>2. Overtaken(mail, r.ticket) \in [Mails -> Replies]
    BY <1>0, OvertakenMail
  <2>3. mail'[m] = [r EXCEPT !.pc = "drop"]
    BY <2>1, <2>2
  <2>4. mail'[m].pc = "drop" /\ mail'[m].ticket = r.ticket
    BY <1>2, <2>3
  <2>5. messages[r.ticket] \in Seq(Authors) /\ m \in Authors
        /\ messages'[r.ticket] = Append(messages[r.ticket], m)
    BY <2>1 DEF IInv, TypeOK, Authors
  <2>6. \E i \in DOMAIN messages'[r.ticket] : messages'[r.ticket][i] = m
    BY <2>5, AppendKeeps
  <2>7. r.ticket \in used'
    BY <2>1 DEF IInv, UsedInv
  <2>8. Settled(m)'
    BY <2>4, <2>6, <2>7 DEF Settled, Filed
  <2> QED
    BY <2>4, <2>8 DEF Accounted
<1>9. ASSUME NEW fails \in BOOLEAN, MailReject(m, fails) PROVE Accounted(m)'
  <2>1. m \in answered' /\ mail'[m] = [r EXCEPT !.pc = "drop"]
    BY <1>0, <1>9 DEF MailReject, Fault
  <2>2. mail'[m].pc = "drop"
    BY <1>2, <2>1
  <2> QED
    BY <2>1, <2>2 DEF Accounted, Settled
<1>10. ASSUME NEW fails \in BOOLEAN, Drop(m, fails) PROVE Accounted(m)'
  <2>1. mail'[m] = [r EXCEPT !.pc = "done"] /\ r.pc = "drop" /\ answered' = answered
    BY <1>0, <1>10 DEF Drop
  <2>2. mail'[m].pc = "done" /\ mail'[m].kind = r.kind /\ mail'[m].ticket = r.ticket
        /\ mail'[m].overtaken = r.overtaken
    BY <1>2, <2>1
  <2>3. ASSUME ~mail'[m].overtaken, mail'[m].kind \in {"good", "long"}
        PROVE  Settled(m)'
    <3>1. Settled(m)
      BY <1>1, <2>1, <2>2, <2>3 DEF Past
    <3> QED
      BY <1>0, <2>1, <2>2, <3>1, SettledStays
  <2> QED
    BY <2>2, <2>3 DEF Accounted
<1>11. MailStep(m) => Accounted(m)'
  BY <1>4, <1>5, <1>6, <1>7, <1>8, <1>9, <1>10 DEF MailStep
<1> QED
  BY <1>3, <1>11, OthersLeaveIt

(* When no call fails, a reply that the handler has read is lost in two     *)
(* ways only: the cut of its summary panics, which main.rs sees as an error *)
(* of the task, or another writer of its ticket overtakes its transaction.  *)
THEOREM RepliesLostTwoWays == Spec => []ReplyLostTwoWays
<1>1. Init => ReplyInv
  BY DEF Init, Unsent, ReplyInv, Accounted, Past
<1>2. IInv /\ ReplyInv /\ [Next]_vars => ReplyInv'
  <2> SUFFICES ASSUME IInv, ReplyInv, [Next]_vars, NEW m \in Mails PROVE Accounted(m)'
    BY DEF ReplyInv
  <2>1. CASE faults' = 0
    BY <2>1, AccountedStep, TicketConstants DEF ReplyInv
  <2>2. CASE faults' # 0
    BY <2>2 DEF Accounted
  <2> QED
    BY <2>1, <2>2
<1>3. IInv /\ ReplyInv => ReplyLostTwoWays
  <2> SUFFICES ASSUME IInv, ReplyInv, NEW m \in Mails,
                      mail[m].pc = "done", mail[m].kind \in {"good", "long", "uncut"},
                      faults = 0, mail[m].kind # "uncut", ~mail[m].overtaken
               PROVE  m \in answered \/ Recorded(m)
    BY DEF ReplyLostTwoWays
  <2>1. Settled(m) /\ mail[m].ticket \in Tickets
    BY DEF ReplyInv, Accounted, Past, IInv, CarryInv
  <2> QED
    BY <2>1 DEF Settled, Filed, Recorded
<1> QED
  BY <1>1, <1>2, <1>3, Invariance, PTL DEF Spec

-----------------------------------------------------------------------------
(* How often a mail is recorded.                                           *)

LEMMA CopiesAre ==
  ASSUME NEW m
  PROVE  /\ \A x : x \in Copies(m) <=>
              \E t \in Tickets : \E i \in DOMAIN messages[t] : messages[t][i] = m /\ x = <<t, i>>
         /\ \A x : x \in Copies(m)' <=>
              \E t \in Tickets : \E i \in DOMAIN messages'[t] : messages'[t][i] = m /\ x = <<t, i>>
<1>1. ASSUME NEW q
      PROVE  \A x : x \in UNION {{<<t, i>> : i \in {j \in DOMAIN q[t] : q[t][j] = m}} : t \in Tickets}
                 <=> \E t \in Tickets : \E i \in DOMAIN q[t] : q[t][i] = m /\ x = <<t, i>>
  OBVIOUS
<1> QED
  BY <1>1, Zenon DEF Copies

\* At one ticket, a step that does not record the mail adds no copy of it.
LEMMA NoNewCopy ==
  ASSUME TicketConstants, IInv, [Next]_vars, NEW m \in Mails,
         \A lost \in BOOLEAN : ~MailRecord(m, lost),
         NEW t \in Tickets, NEW i \in DOMAIN messages'[t], messages'[t][i] = m
  PROVE  i \in DOMAIN messages[t] /\ messages[t][i] = m
<1>0. m # "customer" /\ m # "team" /\ messages[t] \in Seq(Authors)
  BY TicketConstants DEF IInv, TypeOK
<1>1. ASSUME NEW a \in Authors, a # m, messages'[t] = Append(messages[t], a)
      PROVE  i \in DOMAIN messages[t] /\ messages[t][i] = m
  BY <1>0, <1>1
<1>2. CASE ~Touched(t)
  BY <1>2 DEF Touched
<1>3. CASE ByForm(t)
  BY <1>0, <1>3 DEF ByForm
<1>4. ASSUME NEW s \in Staff, ByRequest(t, s)
      PROVE  i \in DOMAIN messages[t] /\ messages[t][i] = m
  <2>1. CASE messages'[t] = messages[t]
    BY <2>1
  <2>2. CASE messages'[t] = Append(messages[t], "team")
    BY <1>0, <1>1, <2>2 DEF Authors
  <2> QED
    BY <1>4, <2>1, <2>2 DEF ByRequest
<1>5. ASSUME NEW x \in Mails, ByMail(t, x)
      PROVE  i \in DOMAIN messages[t] /\ messages[t][i] = m
  <2>1. x # m
    BY <1>5 DEF ByMail
  <2> QED
    BY <1>1, <1>5, <2>1 DEF ByMail, Authors
<1> QED
  BY <1>2, <1>3, <1>4, <1>5, TouchedBy

LEMMA CopiesKept ==
  ASSUME TicketConstants, IInv, [Next]_vars, NEW m \in Mails,
         \A lost \in BOOLEAN : ~MailRecord(m, lost)
  PROVE  Copies(m)' \subseteq Copies(m)
<1> SUFFICES ASSUME NEW x, x \in Copies(m)' PROVE x \in Copies(m)
  OBVIOUS
<1>1. PICK t \in Tickets : \E i \in DOMAIN messages'[t] : messages'[t][i] = m /\ x = <<t, i>>
  BY CopiesAre
<1>2. \E i \in DOMAIN messages[t] : messages[t][i] = m /\ x = <<t, i>>
  BY <1>1, NoNewCopy
<1> QED
  BY <1>2, CopiesAre

\* To record it adds one.
LEMMA CopyAdded ==
  ASSUME TicketConstants, IInv, NEW m \in Mails, NEW lost \in BOOLEAN, MailRecord(m, lost)
  PROVE  \E c : Copies(m)' \subseteq Copies(m) \cup {c}
<1>1. /\ mail[m].ticket \in Tickets /\ messages[mail[m].ticket] \in Seq(Authors)
      /\ messages \in [Tickets -> Seq(Authors)]
      /\ messages' = [messages EXCEPT ![mail[m].ticket] = Append(@, m)]
  BY DEF MailRecord, IInv, TypeOK, CarryInv
<1> DEFINE d == mail[m].ticket
           c == <<d, Len(messages[d]) + 1>>
<1>2. ASSUME NEW x, x \in Copies(m)' PROVE x \in Copies(m) \cup {c}
  <2>1. PICK t \in Tickets : \E i \in DOMAIN messages'[t] : messages'[t][i] = m /\ x = <<t, i>>
    BY <1>2, CopiesAre
  <2>2. PICK i \in DOMAIN messages'[t] : messages'[t][i] = m /\ x = <<t, i>>
    BY <2>1
  <2>3. CASE t = d
    <3>1. \/ i \in DOMAIN messages[d] /\ messages[d][i] = m
          \/ i = Len(messages[d]) + 1
      BY <1>1, <2>2, <2>3
    <3> QED
      BY <2>2, <2>3, <3>1, CopiesAre
  <2>4. CASE t # d
    <3>1. messages'[t] = messages[t]
      BY <1>1, <2>4
    <3> QED
      BY <2>2, <3>1, CopiesAre
  <2> QED
    BY <2>3, <2>4
<1> QED
  BY <1>2

\* Each delivery has recorded or answered the mail once at most: the ones that
\* were stopped, and the one that is past its transaction.
Deliveries(m) == crashed[m] + (IF mail[m].pc \in {"drop", "done"} THEN 1 ELSE 0)
Settlings(m) == Cardinality(Copies(m)) + (IF m \in answered THEN 1 ELSE 0)
OnceInv == \A m \in Mails : IsFiniteSet(Copies(m)) /\ Settlings(m) <= Deliveries(m)

LEMMA OnceStep ==
  ASSUME TicketConstants, IInv, [Next]_vars, NEW m \in Mails,
         IsFiniteSet(Copies(m)), Settlings(m) <= Deliveries(m)
  PROVE  IsFiniteSet(Copies(m)') /\ Settlings(m)' <= Deliveries(m)'
<1> DEFINE r == mail[m]
           n == Cardinality(Copies(m))
           k == Cardinality(Copies(m)')
           a == IF m \in answered THEN 1 ELSE 0
           b == IF m \in answered' THEN 1 ELSE 0
<1>0. /\ mail \in [Mails -> Replies] /\ r \in Replies /\ crashed[m] \in Nat
      /\ crashed \in [Mails -> Nat]
  BY DEF IInv, TypeOK
<1>1. n \in Nat
  BY FS_CardinalityType
<1>2. ASSUME NEW p \in {"unsent", "queued", "end", "drop", "done"}
      PROVE  [r EXCEPT !.pc = p].pc = p
  BY <1>0 DEF Replies
<1>3. ASSUME \A lost \in BOOLEAN : ~MailRecord(m, lost)
      PROVE  IsFiniteSet(Copies(m)') /\ k \in Nat /\ k <= n
  <2>1. Copies(m)' \subseteq Copies(m)
    BY <1>3, CopiesKept
  <2> QED
    BY <2>1, FS_Subset, FS_CardinalityType
<1>4. /\ Settlings(m) = n + a /\ Settlings(m)' = k + b
      /\ Deliveries(m) = crashed[m] + (IF r.pc \in {"drop", "done"} THEN 1 ELSE 0)
      /\ Deliveries(m)' = crashed'[m] + (IF mail'[m].pc \in {"drop", "done"} THEN 1 ELSE 0)
  BY DEF Settlings, Deliveries
<1> HIDE DEF n, k
<1>5. ASSUME NEW lost \in BOOLEAN, MailRecord(m, lost)
      PROVE  IsFiniteSet(Copies(m)') /\ k + b <= Deliveries(m)'
  <2>1. PICK c : Copies(m)' \subseteq Copies(m) \cup {c}
    BY <1>5, CopyAdded
  <2>2. IsFiniteSet(Copies(m) \cup {c}) /\ Cardinality(Copies(m) \cup {c}) \in Nat
        /\ Cardinality(Copies(m) \cup {c}) <= n + 1
    BY <1>1, FS_AddElement, FS_CardinalityType DEF n
  <2>3. IsFiniteSet(Copies(m)') /\ k \in Nat /\ k <= n + 1
    <3>1. IsFiniteSet(Copies(m)') /\ k <= Cardinality(Copies(m) \cup {c})
      BY <2>1, <2>2, FS_Subset DEF k
    <3>2. k \in Nat
      BY <3>1, FS_CardinalityType DEF k
    <3> QED
      BY <1>1, <2>2, <3>1, <3>2
  <2>4. r.pc = "end" /\ answered' = answered /\ crashed' = crashed
    BY <1>5 DEF MailRecord
  <2>5. Overtaken(mail, r.ticket) \in [Mails -> Replies]
    BY <1>0, OvertakenMail
  <2>6. mail'[m] = [r EXCEPT !.pc = "drop"]
    BY <1>5, <2>5 DEF MailRecord
  <2>7. mail'[m].pc = "drop"
    BY <1>2, <2>6
  <2> QED
    BY <1>0, <1>1, <1>4, <2>3, <2>4, <2>7
<1>6. ASSUME \A lost \in BOOLEAN : ~MailRecord(m, lost), n + a <= Deliveries(m)
      PROVE  k + b <= Deliveries(m)'
  <2>0. k \in Nat /\ k <= n
    BY <1>3, <1>6
  <2>1. CASE Untouched(m)
    BY <1>0, <1>1, <1>4, <1>6, <2>0, <2>1 DEF Untouched
  <2>2. ASSUME NEW kind \in Kinds, NEW t \in Tickets, NEW e \in Emails, Arrive(m, kind, t, e)
        PROVE  k + b <= Deliveries(m)'
    <3>1. /\ r.pc = "unsent" /\ mail'[m].pc = "queued"
          /\ answered' = answered /\ crashed' = crashed
      BY <1>0, <2>2 DEF Arrive
    <3> QED
      BY <1>0, <1>1, <1>4, <1>6, <2>0, <3>1
  <2>3. CASE Crash(m)
    <3>1. /\ mail'[m].pc = "queued" /\ crashed'[m] = crashed[m] + 1 /\ answered' = answered
      BY <1>0, <1>2, <2>3 DEF Crash
    <3> QED
      BY <1>0, <1>1, <1>4, <1>6, <2>0, <3>1
  <2>4. CASE MailFail(m)
    <3>1. /\ r.pc = "end" /\ mail'[m].pc = "drop" /\ crashed' = crashed /\ answered' = answered
      BY <1>0, <1>2, <2>4 DEF MailFail
    <3> QED
      BY <1>0, <1>1, <1>4, <1>6, <2>0, <3>1
  <2>5. ASSUME NEW fails \in BOOLEAN, NEW answers \in BOOLEAN, Take(m, fails, answers)
        PROVE  k + b <= Deliveries(m)'
    <3>1. /\ r.pc = "queued" /\ crashed' = crashed
          /\ answered' = IF answers THEN answered \cup {m} ELSE answered
      BY <1>0, <2>5 DEF Take
    <3>2. CASE answers
      <4>1. mail'[m] = [r EXCEPT !.pc = "drop"]
        BY <1>0, <2>5, <3>2 DEF Take
      <4>2. mail'[m].pc = "drop"
        BY <1>2, <4>1
      <4> QED
        BY <1>0, <1>1, <1>4, <1>6, <2>0, <3>1, <4>2
    <3>3. CASE ~answers
      BY <1>0, <1>1, <1>4, <1>6, <2>0, <3>1, <3>3
    <3> QED
      BY <3>2, <3>3
  <2>6. ASSUME NEW fails \in BOOLEAN, MailReject(m, fails)
        PROVE  k + b <= Deliveries(m)'
    <3>1. r.pc = "end" /\ mail'[m].pc = "drop" /\ crashed' = crashed
      BY <1>0, <1>2, <2>6 DEF MailReject
    <3> QED
      BY <1>0, <1>1, <1>4, <1>6, <2>0, <3>1
  <2>7. ASSUME NEW fails \in BOOLEAN, Drop(m, fails)
        PROVE  k + b <= Deliveries(m)'
    <3>1. /\ r.pc = "drop" /\ mail'[m].pc = "done" /\ crashed' = crashed
          /\ answered' = answered
      BY <1>0, <1>2, <2>7 DEF Drop
    <3> QED
      BY <1>0, <1>1, <1>4, <1>6, <2>0, <3>1
  <2>8. MailStep(m) => k + b <= Deliveries(m)'
    BY <1>6, <2>2, <2>3, <2>4, <2>5, <2>6, <2>7 DEF MailStep
  <2> QED
    BY <2>1, <2>8, OthersLeaveIt
<1>7. n + a <= Deliveries(m)
  BY <1>4
<1> QED
  BY <1>3, <1>4, <1>5, <1>6, <1>7

(* A mail is recorded or answered once for each delivery, and not once     *)
(* more, whatever calls fail: a COMMIT whose reply is lost is not reported *)
(* to the customer (main.rs of the response handler).                      *)
THEOREM EachDeliverySettlesOnce == Spec => []SettledOncePerDelivery
<1>1. ASSUME TicketConstants, Init PROVE OnceInv
  <2> SUFFICES ASSUME NEW m \in Mails
               PROVE  IsFiniteSet(Copies(m)) /\ Settlings(m) <= Deliveries(m)
    BY DEF OnceInv
  <2>1. \A t \in Tickets : messages[t] = << >>
    BY <1>1 DEF Init
  <2>2. Copies(m) = {}
    BY <2>1, CopiesAre
  <2>3. IsFiniteSet(Copies(m)) /\ Cardinality(Copies(m)) = 0
    BY <2>2, FS_EmptySet
  <2>4. crashed[m] = 0 /\ m \notin answered /\ mail[m].pc = "unsent"
    BY <1>1 DEF Init, Unsent
  <2> QED
    BY <2>3, <2>4 DEF Settlings, Deliveries
<1>2. ASSUME IInv, OnceInv, [Next]_vars PROVE OnceInv'
  <2>1. \A m \in Mails : IsFiniteSet(Copies(m)') /\ Settlings(m)' <= Deliveries(m)'
    BY <1>2, OnceStep, TicketConstants DEF OnceInv
  <2> QED
    BY <2>1, Zenon DEF OnceInv
<1>3. ASSUME IInv, OnceInv PROVE SettledOncePerDelivery
  <2> SUFFICES ASSUME NEW m \in Mails PROVE Settlings(m) <= 1 + crashed[m]
    BY Zenon DEF SettledOncePerDelivery, Settlings
  <2>1. crashed[m] \in Nat /\ Cardinality(Copies(m)) \in Nat /\ Settlings(m) <= Deliveries(m)
    BY <1>3, FS_CardinalityType DEF OnceInv, IInv, TypeOK
  <2> QED
    BY <2>1 DEF Settlings, Deliveries
<1>4. Init => OnceInv
  BY <1>1, TicketConstants
<1>5. IInv /\ OnceInv /\ [Next]_vars => OnceInv'
  BY <1>2
<1>6. IInv /\ OnceInv => SettledOncePerDelivery
  BY <1>3
<1> QED
  BY <1>4, <1>5, <1>6, Invariance, PTL DEF Spec
=============================================================================
