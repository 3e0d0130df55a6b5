--------------------------- MODULE Newsletter_proofs ---------------------------
(***************************************************************************)
(* The mail function answers honestly, and nobody is mailed a newsletter   *)
(* more often than calls have failed, for any number of addresses, calls   *)
(* and senders and any number of failures.                                 *)
(***************************************************************************)
EXTENDS Newsletter, FiniteSetTheorems, TLAPS

USE DEF Statuses, Kinds

Pcs == {"idle", "get", "create", "update", "enqueue", "ok", "yes", "no", "error"}
CallRecords == [kind : Kinds, email : Emails \cup {None}, pc : Pcs,
                seen : SUBSET Statuses, failed : BOOLEAN]
WorkerRecords == [pc : {"idle", "list", "send", "delete"}, from : Positions,
                  todo : SUBSET Positions, next : Positions \cup {None}]

-----------------------------------------------------------------------------
(* The inductive invariant.                                                *)

\* Only the newsletter is about nobody, and its call has steps of its own.
Fits(x) ==
  /\ x.pc = "idle" \/ x.kind = "news" \/ x.email \in Emails
  /\ x.kind = "news" => x.pc \in {"idle", "enqueue", "ok", "error"}
  /\ x.pc = "enqueue" => x.kind = "news"

\* A call about an address has seen the status that the address has now.
SeesNow(x) == x.pc # "idle" /\ x.email \in Emails => contact[x.email] \in x.seen

\* An answer is backed by something that the call has seen.
WantedOf(x) == IF x.kind = "add" THEN "in" ELSE "out"
Honest(x) ==
  /\ x.pc = "ok" /\ x.kind \in {"add", "remove"} => WantedOf(x) \in x.seen
  /\ x.pc = "yes" => "in" \in x.seen
  /\ x.pc = "no" /\ ~x.failed => x.seen # {"in"}

CallInv == \A c \in Calls : Fits(call[c]) /\ SeesNow(call[c]) /\ Honest(call[c])

IInv == TypeOK /\ CallInv

LEMMA CallType == TypeOK => call \in [Calls -> CallRecords]
BY DEF TypeOK, CallRecords, Pcs

LEMMA InitIInv == Init => IInv
<1> SUFFICES ASSUME Init PROVE IInv
  OBVIOUS
<1>1. Idle \in CallRecords /\ Resting \in WorkerRecords /\ 0 \in Positions
  BY NewsletterConstants DEF Idle, Resting, CallRecords, WorkerRecords, Pcs, Positions
<1>2. TypeOK
  BY <1>1 DEF Init, TypeOK, CallRecords, WorkerRecords, Pcs
<1>3. CallInv
  BY DEF Init, CallInv, Fits, SeesNow, Honest, Idle
<1> QED  BY <1>2, <1>3 DEF IInv

-----------------------------------------------------------------------------
(* Steps of the mail function that leave the list alone.                   *)

\* One call becomes x, which is well formed and honest about the list as it is.
LEMMA CallMoves ==
  ASSUME IInv, NEW c \in Calls, NEW x \in CallRecords, call' = [call EXCEPT ![c] = x],
         Fits(x), SeesNow(x), Honest(x),
         UNCHANGED <<contact, worker, tried>>,
         queue' \in [Positions -> Nat], started' \in BOOLEAN,
         received' \in Nat, faults' \in Nat, kept' \in SUBSET Emails
  PROVE  IInv'
<1> USE DEF IInv
<1>1. call' \in [Calls -> CallRecords]
  BY CallType
<1>2. TypeOK'
  BY <1>1 DEF TypeOK, CallRecords, Pcs
<1>3. ASSUME NEW d \in Calls
      PROVE  Fits(call'[d]) /\ (SeesNow(call[d]))' /\ Honest(call'[d])
  <2>1. CASE d = c
    BY <2>1, CallType DEF SeesNow
  <2>2. CASE d # c
    <3>1. call'[d] = call[d]
      BY <2>2, CallType
    <3> QED  BY <3>1 DEF CallInv, SeesNow
  <2> QED  BY <2>1, <2>2
<1>4. CallInv'
  BY <1>3 DEF CallInv, Fits, SeesNow, Honest, WantedOf
<1> QED  BY <1>2, <1>4

\* One call goes on at pc.
LEMMA CallGoes ==
  ASSUME IInv, NEW c \in Calls, NEW pc \in Pcs, Goto(c, pc),
         Fits([call[c] EXCEPT !.pc = pc]), Honest([call[c] EXCEPT !.pc = pc]),
         call[c].pc # "idle",
         UNCHANGED <<contact, worker, tried, started, received>>,
         queue' \in [Positions -> Nat], faults' \in Nat, kept' \in SUBSET Emails
  PROVE  IInv'
<1> DEFINE x == [call[c] EXCEPT !.pc = pc]
<1>1. call[c] \in CallRecords
  BY CallType DEF IInv
<1>2. x \in CallRecords /\ x.email = call[c].email /\ x.seen = call[c].seen
  BY <1>1 DEF CallRecords
<1>3. SeesNow(x)
  BY <1>2 DEF IInv, CallInv, SeesNow
<1>4. call' = [call EXCEPT ![c] = x]
  BY <1>1, CallType DEF Goto, IInv, CallRecords
<1>5. started' \in BOOLEAN /\ received' \in Nat
  BY DEF IInv, TypeOK
<1> HIDE DEF x
<1> QED  BY <1>2, <1>3, <1>4, <1>5, CallMoves DEF x

-----------------------------------------------------------------------------
(* Steps that change the list.                                             *)

\* Whatever an address becomes, the calls about it have seen it; a call that
\* goes on at pc because of that is honest if it wanted that status.
LEMMA ListMoves ==
  ASSUME IInv, NEW e \in Emails, NEW s \in {"in", "out"}, NEW c, NEW pc \in {"idle", "ok", "error"},
         c \in Calls => call[c].email = e /\ s = Wanted(c) /\ call[c].pc \in {"update", "create"},
         SetAndGoto(e, s, c, pc),
         UNCHANGED <<queue, worker, started, received, tried>>, faults' \in Nat
  PROVE  IInv'
<1> USE DEF IInv
<1>1. contact' = [contact EXCEPT ![e] = s] /\ contact' \in [Emails -> Statuses]
  BY DEF SetAndGoto, SetContact, TypeOK
<1>2. kept' \in SUBSET Emails
  BY DEF SetAndGoto, SetContact, TypeOK
<1> DEFINE y(d) == [call[d] EXCEPT !.pc = IF d = c THEN pc ELSE @, !.seen = Seen(d, e, s)]
<1>3. call' = [d \in Calls |-> y(d)]
  BY DEF SetAndGoto
<1>4. ASSUME NEW d \in Calls
      PROVE  /\ y(d) \in CallRecords
             /\ y(d).kind = call[d].kind /\ y(d).email = call[d].email
             /\ y(d).failed = call[d].failed
             /\ y(d).pc = (IF d = c THEN pc ELSE call[d].pc)
             /\ y(d).seen = Seen(d, e, s)
  <2>1. call[d] \in CallRecords /\ pc \in Pcs
    BY CallType DEF Pcs
  <2>2. Seen(d, e, s) \in SUBSET Statuses
    BY <2>1 DEF Seen, CallRecords
  <2> QED  BY <2>1, <2>2 DEF CallRecords
<1>5. call' \in [Calls -> CallRecords]
  BY <1>3, <1>4
<1>6. TypeOK'
  BY <1>1, <1>2, <1>5 DEF TypeOK, CallRecords, Pcs
<1> HIDE DEF y
<1>7. ASSUME NEW d \in Calls
      PROVE  Fits(call'[d]) /\ (SeesNow(call[d]))' /\ Honest(call'[d])
  <2>1. call'[d] = y(d) /\ call[d] \in CallRecords
    BY <1>3, CallType
  <2>2. call[d].seen \subseteq y(d).seen /\ (call[d].email = e => s \in y(d).seen)
    BY <1>4 DEF Seen
  <2>3. Fits(y(d))
    BY <1>4 DEF CallInv, Fits
  <2>4. (SeesNow(call[d]))'
    <3>1. CASE call[d].email = e
      BY <1>1, <1>4, <2>1, <2>2, <3>1 DEF SeesNow, TypeOK
    <3>2. CASE call[d].email # e
      <4>1. d # c
        BY <3>2
      <4> QED  BY <1>1, <1>4, <2>1, <2>2, <3>2, <4>1 DEF SeesNow, CallInv, TypeOK
    <3> QED  BY <3>1, <3>2
  <2>5. Honest(y(d))
    <3>1. CASE d = c
      BY <1>4, <2>2, <3>1 DEF Honest, WantedOf, Wanted
    <3>2. CASE d # c
      <4>1. Honest(call[d])
        BY DEF CallInv
      <4>2. y(d).seen # {"in"} \/ call[d].seen = {"in"} \/ call[d].seen = {}
        BY <2>2
      <4>3. call[d].pc = "no" => call[d].seen # {}
        BY <2>1 DEF CallInv, SeesNow, Fits
      <4> QED  BY <1>4, <2>2, <3>2, <4>1, <4>2, <4>3 DEF Honest, WantedOf
    <3> QED  BY <3>1, <3>2
  <2> QED  BY <2>1, <2>3, <2>4, <2>5
<1>8. CallInv'
  BY <1>7 DEF CallInv, Fits, SeesNow, Honest, WantedOf
<1> QED  BY <1>6, <1>8

-----------------------------------------------------------------------------
(* The steps.                                                              *)

LEMMA RequestKeeps ==
  ASSUME IInv, NEW c \in Calls, NEW kind \in Kinds, NEW e \in Emails \cup {None},
         Request(c, kind, e)
  PROVE  IInv'
<1> DEFINE x == [kind |-> kind, email |-> e, pc |-> FirstStep(kind),
                 seen |-> IF e = None THEN {} ELSE {contact[e]}, failed |-> FALSE]
<1>1. call' = [call EXCEPT ![c] = x]
  BY DEF Request
<1>2. kind # "news" => e \in Emails
  BY DEF Request
<1>3. e \in Emails => contact[e] \in Statuses /\ e # None
  BY NewsletterConstants DEF IInv, TypeOK
<1>4. x \in CallRecords
  BY <1>3 DEF CallRecords, FirstStep, Pcs
<1>5. Fits(x) /\ SeesNow(x) /\ Honest(x)
  BY <1>2, <1>3 DEF Fits, SeesNow, Honest, FirstStep
<1>6. /\ UNCHANGED <<contact, worker, tried, queue, faults, kept>>
      /\ received' \in Nat /\ started' \in BOOLEAN
  BY DEF Request, IInv, TypeOK
<1>7. queue' \in [Positions -> Nat] /\ faults' \in Nat /\ kept' \in SUBSET Emails
  BY <1>6 DEF IInv, TypeOK
<1> HIDE DEF x
<1> QED  BY <1>1, <1>4, <1>5, <1>6, <1>7, CallMoves

LEMMA GetKeeps ==
  ASSUME IInv, NEW c \in Calls, Get(c)
  PROVE  IInv'
<1> DEFINE pc == AfterGet(c)
           x == [call[c] EXCEPT !.pc = pc]
<1>1. call[c] \in CallRecords /\ call[c].pc = "get" /\ Goto(c, pc)
  BY CallType DEF Get, IInv
<1>2. call[c].kind # "news" /\ call[c].email \in Emails /\ contact[call[c].email] \in call[c].seen
  BY <1>1 DEF IInv, CallInv, Fits, SeesNow
<1>3. pc \in {"yes", "no", "ok", "create", "update"}
  BY DEF AfterGet
<1>4. /\ pc = "yes" => contact[call[c].email] = "in"
      /\ pc = "no" => contact[call[c].email] # "in"
      /\ pc = "ok" => contact[call[c].email] = Wanted(c)
  BY DEF AfterGet
<1> HIDE DEF pc
<1>5. /\ x.pc = pc /\ x.kind = call[c].kind /\ x.email = call[c].email
      /\ x.seen = call[c].seen /\ x.failed = call[c].failed
  BY <1>1 DEF CallRecords
<1> HIDE DEF x
<1>6. Fits(x) /\ Honest(x)
  BY <1>2, <1>3, <1>4, <1>5 DEF Fits, Honest, Wanted, WantedOf
<1>7. UNCHANGED <<contact, queue, worker, started, received, faults, kept, tried>>
  BY DEF Get
<1>8. queue' \in [Positions -> Nat] /\ faults' \in Nat /\ kept' \in SUBSET Emails
  BY <1>7 DEF IInv, TypeOK
<1> QED  BY <1>1, <1>3, <1>6, <1>7, <1>8, CallGoes DEF x, Pcs

LEMMA GetFailsKeeps ==
  ASSUME IInv, NEW c \in Calls, GetFails(c)
  PROVE  IInv'
<1> DEFINE pc == IF call[c].kind = "ask" THEN "no" ELSE "create"
           x == [call[c] EXCEPT !.pc = pc, !.failed = TRUE]
<1>1. call[c] \in CallRecords /\ call[c].pc = "get"
  BY CallType DEF GetFails, IInv
<1>2. call' = [call EXCEPT ![c] = x]
  BY <1>1, CallType DEF GetFails, IInv, CallRecords
<1>3. pc \in {"no", "create"}
  OBVIOUS
<1> HIDE DEF pc
<1>4. x.failed = TRUE
  BY <1>1, Zenon DEF CallRecords
<1>5. x.pc = pc /\ x.kind = call[c].kind /\ x.email = call[c].email /\ x.seen = call[c].seen
  BY <1>1 DEF CallRecords
<1>6. x \in CallRecords
  BY <1>1, <1>3 DEF CallRecords, Pcs
<1> HIDE DEF x
<1>7. Fits(x) /\ SeesNow(x) /\ Honest(x)
  BY <1>1, <1>3, <1>4, <1>5 DEF IInv, CallInv, Fits, SeesNow, Honest
<1>8. UNCHANGED <<contact, queue, worker, started, received, kept, tried>> /\ faults' \in Nat
  BY DEF GetFails, Fault, IInv, TypeOK
<1>9. /\ queue' \in [Positions -> Nat] /\ kept' \in SUBSET Emails
      /\ started' \in BOOLEAN /\ received' \in Nat
  BY <1>8 DEF IInv, TypeOK
<1> QED  BY <1>2, <1>6, <1>7, <1>8, <1>9, CallMoves

\* A call whose update or creation is at hand is about an address.
LEMMA WritesAddress ==
  ASSUME IInv, NEW c \in Calls, call[c].pc \in {"update", "create"}
  PROVE  call[c].email \in Emails /\ Wanted(c) \in {"in", "out"}
BY DEF IInv, CallInv, Fits, Wanted

\* A call ends in an error, and nothing else changes but the queue.
LEMMA ErrorKeeps ==
  ASSUME IInv, NEW c \in Calls, Goto(c, "error"), call[c].pc # "idle",
         UNCHANGED <<contact, worker, started, received, tried>>,
         queue' \in [Positions -> Nat], faults' \in Nat, kept' \in SUBSET Emails
  PROVE  IInv'
<1>1. call[c] \in CallRecords
  BY CallType DEF IInv
<1>2. Fits([call[c] EXCEPT !.pc = "error"]) /\ Honest([call[c] EXCEPT !.pc = "error"])
  BY <1>1 DEF IInv, CallInv, Fits, Honest, CallRecords
<1> QED  BY <1>2, CallGoes DEF Pcs

LEMMA UpdateKeeps == ASSUME IInv, NEW c \in Calls, Update(c) PROVE IInv'
<1>1. faults' \in Nat
  BY DEF Update, IInv, TypeOK
<1> QED  BY <1>1, WritesAddress, ListMoves DEF Update

LEMMA CreateKeeps == ASSUME IInv, NEW c \in Calls, Create(c) PROVE IInv'
<1>1. faults' \in Nat /\ queue' \in [Positions -> Nat]
  BY DEF Create, IInv, TypeOK
<1>2. CASE contact[call[c].email] = "none"
  BY <1>1, <1>2, WritesAddress, ListMoves DEF Create
<1>3. CASE contact[call[c].email] # "none"
  <2>1. kept' \in SUBSET Emails
    BY <1>3 DEF Create, IInv, TypeOK
  <2> QED  BY <1>1, <1>3, <2>1, ErrorKeeps DEF Create
<1> QED  BY <1>2, <1>3

LEMMA WriteFailsKeeps ==
  ASSUME IInv, NEW c \in Calls, NEW b \in BOOLEAN, WriteFails(c, b)
  PROVE  IInv'
<1>1. faults' \in Nat /\ queue' \in [Positions -> Nat]
  BY DEF WriteFails, Fault, IInv, TypeOK
<1>2. CASE SetAndGoto(call[c].email, Wanted(c), c, "error")
  BY <1>1, <1>2, WritesAddress, ListMoves DEF WriteFails
<1>3. CASE Goto(c, "error") /\ UNCHANGED <<contact, kept>>
  <2>1. kept' \in SUBSET Emails
    BY <1>3 DEF IInv, TypeOK
  <2> QED  BY <1>1, <1>3, <2>1, ErrorKeeps DEF WriteFails
<1> QED  BY <1>2, <1>3 DEF WriteFails

LEMMA EnqueueKeeps == ASSUME IInv, NEW c \in Calls, Enqueue(c) PROVE IInv'
<1>1. call[c] \in CallRecords /\ call[c].pc = "enqueue"
  BY CallType DEF Enqueue, IInv
<1>2. faults' \in Nat /\ queue' \in [Positions -> Nat] /\ kept' \in SUBSET Emails
  <2>1. 0 \in Positions
    BY NewsletterConstants DEF Positions
  <2>2. queue' = [queue EXCEPT ![0] = @ + 1] /\ queue \in [Positions -> Nat]
    BY DEF Enqueue, Queued, IInv, TypeOK
  <2>3. queue' \in [Positions -> Nat]
    BY <2>1, <2>2
  <2> QED  BY <2>3 DEF Enqueue, IInv, TypeOK
<1>3. Fits([call[c] EXCEPT !.pc = "ok"]) /\ Honest([call[c] EXCEPT !.pc = "ok"])
  <2>1. call[c].kind \notin {"add", "remove"}
    BY <1>1 DEF IInv, CallInv, Fits
  <2> QED  BY <1>1, <2>1 DEF IInv, CallInv, Fits, Honest, CallRecords
<1> QED  BY <1>1, <1>2, <1>3, CallGoes DEF Enqueue, Pcs

LEMMA EnqueueFailsKeeps ==
  ASSUME IInv, NEW c \in Calls, NEW b \in BOOLEAN, EnqueueFails(c, b)
  PROVE  IInv'
<1>1. faults' \in Nat /\ kept' \in SUBSET Emails
  BY DEF EnqueueFails, Fault, IInv, TypeOK
<1>2. queue' \in [Positions -> Nat]
  BY DEF EnqueueFails, Queued, IInv, TypeOK
<1> QED  BY <1>1, <1>2, ErrorKeeps DEF EnqueueFails

LEMMA AgainKeeps == ASSUME IInv, NEW c \in Calls, Again(c) PROVE IInv'
<1> DEFINE pc == FirstStep(call[c].kind)
<1>1. call[c] \in CallRecords /\ call[c].pc = "error" /\ pc \in {"enqueue", "get"}
  BY CallType DEF Again, IInv, FirstStep
<1>2. Fits([call[c] EXCEPT !.pc = pc]) /\ Honest([call[c] EXCEPT !.pc = pc])
  BY <1>1 DEF IInv, CallInv, Fits, Honest, CallRecords, FirstStep
<1>3. UNCHANGED <<contact, queue, worker, started, received, faults, kept, tried>>
  BY DEF Again
<1>4. faults' \in Nat /\ queue' \in [Positions -> Nat] /\ kept' \in SUBSET Emails
  BY <1>3 DEF IInv, TypeOK
<1>5. Goto(c, pc)
  BY DEF Again
<1> HIDE DEF pc
<1> QED  BY <1>1, <1>2, <1>3, <1>4, <1>5, CallGoes DEF Pcs

LEMMA EndKeeps == ASSUME IInv, NEW c \in Calls, End(c) PROVE IInv'
<1>1. Idle \in CallRecords /\ Fits(Idle) /\ SeesNow(Idle) /\ Honest(Idle)
  BY DEF Idle, CallRecords, Pcs, Fits, SeesNow, Honest
<1>2. UNCHANGED <<contact, queue, worker, started, received, faults, kept, tried>>
  BY DEF End
<1>3. /\ queue' \in [Positions -> Nat] /\ kept' \in SUBSET Emails
      /\ started' \in BOOLEAN /\ received' \in Nat /\ faults' \in Nat
  BY <1>2 DEF IInv, TypeOK
<1>4. call' = [call EXCEPT ![c] = Idle]
  BY DEF End
<1> QED  BY <1>1, <1>2, <1>3, <1>4, CallMoves

LEMMA CallStepKeeps ==
  ASSUME IInv, NEW c \in Calls, CallStep(c)
  PROVE  IInv'
BY RequestKeeps, GetKeeps, GetFailsKeeps, UpdateKeeps, CreateKeeps, WriteFailsKeeps, EnqueueKeeps,
   EnqueueFailsKeeps, AgainKeeps, EndKeeps DEF CallStep

LEMMA UnsubscribeKeeps == ASSUME IInv, NEW e \in Emails, Unsubscribe(e) PROVE IInv'
<1>1. faults' \in Nat /\ None \notin Calls
  BY NewsletterConstants DEF Unsubscribe, IInv, TypeOK
<1> QED  BY <1>1, ListMoves DEF Unsubscribe

\* The bulk sender reads the list and never writes it.
LEMMA SenderMoves ==
  ASSUME IInv, NEW w \in Workers, NEW r \in WorkerRecords, Work(w, r),
         UNCHANGED <<contact, call, started, received, kept>>,
         queue' \in [Positions -> Nat], tried' \in [Emails -> Nat], faults' \in Nat
  PROVE  IInv'
<1>1. TypeOK'
  BY DEF IInv, TypeOK, Work, WorkerRecords
<1>2. CallInv'
  BY DEF IInv, CallInv, Fits, SeesNow, Honest, WantedOf
<1> QED  BY <1>1, <1>2 DEF IInv

LEMMA SweepKeeps ==
  ASSUME IInv, NEW w \in Workers, SweepStep(w) \/ \E b \in BOOLEAN : Stops(w, b)
  PROVE  IInv'
<1>1. worker[w] \in WorkerRecords /\ Resting \in WorkerRecords
  BY NewsletterConstants DEF IInv, TypeOK, WorkerRecords, Resting, Positions
<1>2. ASSUME NEW p \in Positions, Take(w, p) PROVE IInv'
  <2>1. [Resting EXCEPT !.pc = "list", !.from = p] \in WorkerRecords
    BY <1>1 DEF WorkerRecords
  <2>2. queue' \in [Positions -> Nat] /\ tried' \in [Emails -> Nat] /\ faults' \in Nat
    BY <1>2 DEF Take, IInv, TypeOK
  <2> QED  BY <1>2, <2>1, <2>2, SenderMoves DEF Take
<1>3. ASSUME NEW q \in Positions, List(w, q) PROVE IInv'
  <2>1. PICK next \in Positions \cup {None} :
          Work(w, [worker[w] EXCEPT !.pc = "send", !.todo = Listed(worker[w].from, q), !.next = next])
    BY <1>3 DEF List
  <2>2. Listed(worker[w].from, q) \in SUBSET Positions
    BY DEF Listed
  <2>3. [worker[w] EXCEPT !.pc = "send", !.todo = Listed(worker[w].from, q), !.next = next] \in WorkerRecords
    BY <1>1, <2>2 DEF WorkerRecords
  <2>4. queue' \in [Positions -> Nat] /\ tried' \in [Emails -> Nat] /\ faults' \in Nat
    BY <1>3 DEF List, IInv, TypeOK
  <2> QED  BY <1>3, <2>1, <2>3, <2>4, SenderMoves DEF List
<1>4. ASSUME NEW i \in Positions, MailOne(w, i) PROVE IInv'
  <2>1. [worker[w] EXCEPT !.todo = @ \ {i}] \in WorkerRecords
    BY <1>1 DEF WorkerRecords
  <2>2. queue' \in [Positions -> Nat] /\ faults' \in Nat
    BY <1>4 DEF MailOne, IInv, TypeOK
  <2>3. ASSUME NEW e PROVE [tried EXCEPT ![e] = @ + 1] \in [Emails -> Nat]
    <3> DEFINE f == [tried EXCEPT ![e] = @ + 1]
    <3>1. tried \in [Emails -> Nat]
      BY DEF IInv, TypeOK
    <3>2. f = [x \in Emails |-> IF x = e THEN tried[x] + 1 ELSE tried[x]]
      BY <3>1
    <3>3. \A x \in Emails : tried[x] + 1 \in Nat /\ tried[x] \in Nat
      BY <3>1
    <3> QED  BY <3>2, <3>3
  <2>4. tried' \in [Emails -> Nat]
    BY <1>4, <2>3 DEF MailOne, IInv, TypeOK
  <2> QED  BY <1>4, <2>1, <2>2, <2>4, SenderMoves DEF MailOne
<1>5. ASSUME QueueNext(w) PROVE IInv'
  <2>1. [worker[w] EXCEPT !.pc = "delete"] \in WorkerRecords
    BY <1>1 DEF WorkerRecords
  <2>2. queue' \in [Positions -> Nat]
    BY <1>5 DEF QueueNext, Queued, IInv, TypeOK
  <2>3. tried' \in [Emails -> Nat] /\ faults' \in Nat
    BY <1>5 DEF QueueNext, IInv, TypeOK
  <2> QED  BY <1>5, <2>1, <2>2, <2>3, SenderMoves DEF QueueNext
<1>6. ASSUME DeleteMessage(w) PROVE IInv'
  <2>1. queue' \in [Positions -> Nat] /\ tried' \in [Emails -> Nat] /\ faults' \in Nat
    BY <1>6 DEF DeleteMessage, IInv, TypeOK
  <2> QED  BY <1>1, <1>6, <2>1, SenderMoves DEF DeleteMessage
<1>7. ASSUME NEW b \in BOOLEAN, Stops(w, b) PROVE IInv'
  <2>1. queue' \in [Positions -> Nat] /\ tried' \in [Emails -> Nat] /\ faults' \in Nat
    BY <1>7 DEF Stops, Fault, IInv, TypeOK
  <2> QED  BY <1>1, <1>7, <2>1, SenderMoves DEF Stops
<1> QED  BY <1>2, <1>3, <1>4, <1>5, <1>6, <1>7 DEF SweepStep

LEMMA DuplicateKeeps == ASSUME IInv, NEW p \in Positions, DeliveredTwice(p) PROVE IInv'
<1>1. faults' \in Nat /\ queue' \in [Positions -> Nat]
  BY DEF DeliveredTwice, Queued, Fault, IInv, TypeOK
<1>2. UNCHANGED <<contact, call, worker, started, received, kept, tried>>
  BY DEF DeliveredTwice
<1> QED  BY <1>1, <1>2 DEF IInv, TypeOK, CallInv, Fits, SeesNow, Honest, WantedOf

LEMMA StutterKeeps == ASSUME IInv, UNCHANGED vars PROVE IInv'
BY DEF vars, IInv, TypeOK, CallInv, Fits, SeesNow, Honest, WantedOf

-----------------------------------------------------------------------------
(* The theorems.                                                           *)

\* Types, and what every call has seen and may answer.
THEOREM Invariance == Spec => []IInv
<1>1. IInv /\ [Next]_vars => IInv'
  BY CallStepKeeps, SweepKeeps, DuplicateKeeps, UnsubscribeKeeps, StutterKeeps DEF Next
<1> QED  BY InitIInv, <1>1, PTL DEF Spec

\* The list, the calls, the queue and the senders are well formed.
THEOREM NewsletterTypes == Spec => []TypeOK
BY Invariance, PTL DEF IInv

\* An answer of the mail function was true, or became true, during the call.
THEOREM MailFunctionIsHonest == Spec => []AnswersHonest
<1>1. IInv => AnswersHonest
  BY DEF IInv, CallInv, Honest, AnswersHonest, Wanted, WantedOf
<1> QED  BY Invariance, <1>1, PTL

-----------------------------------------------------------------------------
(* How many chains of pages can still reach a position of the list.        *)

\* A sender that will mail position i, or queue a page before it.
Ahead(r, i) ==
  \/ r.pc = "list" /\ r.from < i
  \/ r.pc = "send" /\ (i \in r.todo \/ (r.next # None /\ r.next < i))

\* One token for each message in queue q that asks for a page before i, and one
\* for each sender of v that is ahead of it.
Pages(q, i) == {x \in Positions \X Nat : x[1] < i /\ 0 < x[2] /\ x[2] <= q[x[1]]}
Senders(v, i) == {w \in Workers : Ahead(v[w], i)}
Tokens(q, v, i) == Pages(q, i) \cup (Senders(v, i) \X {0})

One(b) == IF b THEN 1 ELSE 0

LEMMA PositionsAreNumbers == Positions \subseteq Nat
BY NewsletterConstants DEF Positions

LEMMA TokensAre ==
  ASSUME NEW q, NEW v, NEW i
  PROVE  /\ \A p \in Positions, n \in Nat :
              n > 0 => (<<p, n>> \in Tokens(q, v, i) <=> p < i /\ n <= q[p])
         /\ \A w \in Workers : <<w, 0>> \in Tokens(q, v, i) <=> Ahead(v[w], i)
         /\ \A x \in Tokens(q, v, i) :
              \/ \E p \in Positions, n \in Nat : n > 0 /\ x = <<p, n>>
              \/ \E w \in Workers : x = <<w, 0>>
<1>1. ASSUME NEW p \in Positions, NEW n \in Nat, n > 0
      PROVE  <<p, n>> \in Tokens(q, v, i) <=> p < i /\ n <= q[p]
  BY <1>1 DEF Tokens, Pages
<1>2. ASSUME NEW w \in Workers
      PROVE  <<w, 0>> \in Tokens(q, v, i) <=> Ahead(v[w], i)
  <2>1. <<w, 0>> \notin Pages(q, i)
    BY DEF Pages
  <2>2. <<w, 0>> \in Senders(v, i) \X {0} <=> w \in Senders(v, i)
    OBVIOUS
  <2> QED  BY <2>1, <2>2 DEF Tokens, Senders
<1>3. ASSUME NEW x \in Tokens(q, v, i)
      PROVE  \/ \E p \in Positions, n \in Nat : n > 0 /\ x = <<p, n>>
             \/ \E w \in Workers : x = <<w, 0>>
  <2>1. CASE x \in Pages(q, i)
    BY <2>1 DEF Pages
  <2>2. CASE x \in Senders(v, i) \X {0}
    BY <2>2 DEF Senders
  <2> QED  BY <2>1, <2>2 DEF Tokens
<1> QED  BY <1>1, <1>2, <1>3

\* A sender moves: its own token comes or goes.
LEMMA SenderTokens ==
  ASSUME NEW q, NEW v \in [Workers -> WorkerRecords], NEW i, NEW w \in Workers,
         NEW r \in WorkerRecords, IsFiniteSet(Tokens(q, v, i))
  PROVE  LET u == [v EXCEPT ![w] = r]
         IN  /\ IsFiniteSet(Tokens(q, u, i))
             /\ Cardinality(Tokens(q, u, i)) + One(Ahead(v[w], i))
                  <= Cardinality(Tokens(q, v, i)) + One(Ahead(r, i))
<1> DEFINE u == [v EXCEPT ![w] = r]
           S == Tokens(q, v, i)
           T == Tokens(q, u, i)
           t == <<w, 0>>
<1>1. u[w] = r /\ \A x \in Workers \ {w} : u[x] = v[x]
  OBVIOUS
<1> HIDE DEF u
<1>2. \A x \in T : x = t \/ x \in S
  <2> SUFFICES ASSUME NEW x \in T, x # t PROVE x \in S
    OBVIOUS
  <2>1. CASE \E p \in Positions, n \in Nat : n > 0 /\ x = <<p, n>>
    BY <2>1, TokensAre
  <2>2. ASSUME NEW y \in Workers, x = <<y, 0>> PROVE x \in S
    <3>1. y \in Workers \ {w}
      BY <2>2
    <3>2. Ahead(u[y], i)
      BY <2>2, TokensAre
    <3>3. Ahead(v[y], i)
      BY <1>1, <3>1, <3>2
    <3> QED  BY <2>2, <3>3, TokensAre
  <2> QED  BY <2>1, <2>2, TokensAre
<1>3. (t \in S <=> Ahead(v[w], i)) /\ (t \in T <=> Ahead(r, i))
  BY <1>1, TokensAre
<1> HIDE DEF S, T, t
<1>4. Cardinality(S) \in Nat /\ IsFiniteSet(S)
  BY FS_CardinalityType DEF S
<1>5. CASE t \in S
  <2>1. IsFiniteSet(S \ {t}) /\ Cardinality(S \ {t}) = Cardinality(S) - 1
    BY <1>4, <1>5, FS_RemoveElement
  <2>2. CASE t \in T
    <3>1. T \subseteq S
      BY <1>2, <1>5
    <3>2. IsFiniteSet(T) /\ Cardinality(T) <= Cardinality(S)
      BY <1>4, <3>1, FS_Subset
    <3>3. Cardinality(T) \in Nat
      BY <3>2, FS_CardinalityType
    <3> QED  BY <1>3, <1>4, <1>5, <2>2, <3>2, <3>3 DEF One, S, T, u
  <2>3. CASE t \notin T
    <3>1. T \subseteq S \ {t}
      BY <1>2, <2>3
    <3>2. IsFiniteSet(T) /\ Cardinality(T) <= Cardinality(S) - 1
      BY <2>1, <3>1, FS_Subset
    <3>3. Cardinality(T) \in Nat
      BY <3>2, FS_CardinalityType
    <3> QED  BY <1>3, <1>4, <1>5, <2>3, <3>2, <3>3 DEF One, S, T, u
  <2> QED  BY <2>2, <2>3
<1>6. CASE t \notin S
  <2>1. IsFiniteSet(S \cup {t}) /\ Cardinality(S \cup {t}) = Cardinality(S) + 1
    BY <1>4, <1>6, FS_AddElement
  <2>2. CASE t \in T
    <3>1. T \subseteq S \cup {t}
      BY <1>2
    <3>2. IsFiniteSet(T) /\ Cardinality(T) <= Cardinality(S) + 1
      BY <2>1, <3>1, FS_Subset
    <3>3. Cardinality(T) \in Nat
      BY <3>2, FS_CardinalityType
    <3> QED  BY <1>3, <1>4, <1>6, <2>2, <3>2, <3>3 DEF One, S, T, u
  <2>3. CASE t \notin T
    <3>1. T \subseteq S
      BY <1>2, <2>3
    <3>2. IsFiniteSet(T) /\ Cardinality(T) <= Cardinality(S)
      BY <1>4, <3>1, FS_Subset
    <3>3. Cardinality(T) \in Nat
      BY <3>2, FS_CardinalityType
    <3> QED  BY <1>3, <1>4, <1>6, <2>3, <3>2, <3>3 DEF One, S, T, u
  <2> QED  BY <2>2, <2>3
<1> QED  BY <1>5, <1>6

\* A message is queued.
LEMMA QueuedTokens ==
  ASSUME NEW q \in [Positions -> Nat], NEW v, NEW i \in Nat, NEW p \in Positions,
         IsFiniteSet(Tokens(q, v, i))
  PROVE  LET z == [q EXCEPT ![p] = @ + 1]
         IN  /\ IsFiniteSet(Tokens(z, v, i))
             /\ Cardinality(Tokens(z, v, i)) <= Cardinality(Tokens(q, v, i)) + One(p < i)
<1> DEFINE z == [q EXCEPT ![p] = @ + 1]
           S == Tokens(q, v, i)
           T == Tokens(z, v, i)
           t == <<p, q[p] + 1>>
<1>1. z[p] = q[p] + 1 /\ \A x \in Positions \ {p} : z[x] = q[x]
  OBVIOUS
<1>2. q[p] \in Nat
  OBVIOUS
<1> HIDE DEF z
<1>3. ASSUME NEW x \in T PROVE x \in S \/ (x = t /\ p < i)
  <2>1. ASSUME NEW y \in Positions, NEW n \in Nat, n > 0, x = <<y, n>>
        PROVE  x \in S \/ (x = t /\ p < i)
    <3>1. y < i /\ n <= z[y]
      BY <2>1, TokensAre
    <3>2. CASE n <= q[y]
      BY <2>1, <3>1, <3>2, TokensAre
    <3>3. CASE ~(n <= q[y])
      <4>1. y = p /\ n = q[p] + 1
        BY <1>1, <1>2, <3>1, <3>3
      <4> QED  BY <2>1, <3>1, <4>1
    <3> QED  BY <3>2, <3>3
  <2>2. ASSUME NEW y \in Workers, x = <<y, 0>> PROVE x \in S
    BY <2>2, TokensAre
  <2> QED  BY <2>1, <2>2, TokensAre
<1> HIDE DEF S, T, t
<1>4. Cardinality(S) \in Nat /\ IsFiniteSet(S)
  BY FS_CardinalityType DEF S
<1>5. CASE p < i
  <2>1. T \subseteq S \cup {t}
    BY <1>3
  <2>2. IsFiniteSet(S \cup {t}) /\ Cardinality(S \cup {t}) <= Cardinality(S) + 1
        /\ Cardinality(S \cup {t}) \in Nat
    BY <1>4, FS_AddElement, FS_CardinalityType
  <2>3. IsFiniteSet(T) /\ Cardinality(T) <= Cardinality(S \cup {t})
    BY <2>1, <2>2, FS_Subset
  <2>4. Cardinality(T) \in Nat
    BY <2>3, FS_CardinalityType
  <2>5. Cardinality(T) <= Cardinality(S) + One(p < i)
    BY <1>4, <1>5, <2>2, <2>3, <2>4 DEF One
  <2> QED  BY <2>3, <2>5 DEF S, T, z
<1>6. CASE ~(p < i)
  <2>1. T \subseteq S
    BY <1>3, <1>6
  <2>2. IsFiniteSet(T) /\ Cardinality(T) <= Cardinality(S)
    BY <1>4, <2>1, FS_Subset
  <2>3. Cardinality(T) <= Cardinality(S) + One(p < i)
    BY <1>4, <1>6, <2>2 DEF One
  <2> QED  BY <2>2, <2>3 DEF S, T, z
<1> QED  BY <1>5, <1>6

\* A message is taken.
LEMMA TakenTokens ==
  ASSUME NEW q \in [Positions -> Nat], NEW v, NEW i \in Nat, NEW p \in Positions, q[p] > 0,
         IsFiniteSet(Tokens(q, v, i))
  PROVE  LET z == [q EXCEPT ![p] = @ - 1]
         IN  /\ IsFiniteSet(Tokens(z, v, i))
             /\ Cardinality(Tokens(z, v, i)) + One(p < i) <= Cardinality(Tokens(q, v, i))
<1> DEFINE z == [q EXCEPT ![p] = @ - 1]
           S == Tokens(q, v, i)
           T == Tokens(z, v, i)
           t == <<p, q[p]>>
<1>1. z[p] = q[p] - 1 /\ \A x \in Positions \ {p} : z[x] = q[x]
  OBVIOUS
<1>2. \A x \in Positions : q[x] \in Nat
  OBVIOUS
<1> HIDE DEF z
<1>3. ASSUME NEW x \in T PROVE x \in S /\ x # t
  <2>1. ASSUME NEW y \in Positions, NEW n \in Nat, n > 0, x = <<y, n>>
        PROVE  x \in S /\ x # t
    <3>1. y < i /\ n <= z[y]
      BY <2>1, TokensAre
    <3>2. n <= q[y] /\ (y = p => n # q[p])
      BY <1>1, <1>2, <3>1
    <3> QED  BY <2>1, <3>1, <3>2, TokensAre
  <2>2. ASSUME NEW y \in Workers, x = <<y, 0>> PROVE x \in S /\ x # t
    BY <1>2, <2>2, TokensAre
  <2> QED  BY <2>1, <2>2, TokensAre
<1>4. p < i => t \in S
  BY <1>2, TokensAre
<1> HIDE DEF S, T, t
<1>5. Cardinality(S) \in Nat /\ IsFiniteSet(S)
  BY FS_CardinalityType DEF S
<1>6. CASE p < i
  <2>1. IsFiniteSet(S \ {t}) /\ Cardinality(S \ {t}) = Cardinality(S) - 1
    BY <1>4, <1>5, <1>6, FS_RemoveElement
  <2>2. T \subseteq S \ {t}
    BY <1>3
  <2>3. IsFiniteSet(T) /\ Cardinality(T) <= Cardinality(S) - 1
    BY <2>1, <2>2, FS_Subset
  <2>4. Cardinality(T) \in Nat
    BY <2>3, FS_CardinalityType
  <2>5. Cardinality(T) + One(p < i) <= Cardinality(S)
    BY <1>5, <1>6, <2>3, <2>4 DEF One
  <2> QED  BY <2>3, <2>5 DEF S, T, z
<1>7. CASE ~(p < i)
  <2>1. T \subseteq S
    BY <1>3
  <2>2. IsFiniteSet(T) /\ Cardinality(T) <= Cardinality(S)
    BY <1>5, <2>1, FS_Subset
  <2>3. Cardinality(T) \in Nat
    BY <2>2, FS_CardinalityType
  <2>4. Cardinality(T) + One(p < i) <= Cardinality(S)
    BY <1>5, <1>7, <2>2, <2>3 DEF One
  <2> QED  BY <2>2, <2>4 DEF S, T, z
<1> QED  BY <1>6, <1>7

-----------------------------------------------------------------------------
(* The invariant of the count.                                             *)

\* The call that starts the newsletter has still to queue the first page, or
\* is going to do it again.
Starting(x) == x.kind = "news" /\ x.pc \in {"enqueue", "error"}
Pending == \E c \in Calls : Starting(call[c])

\* Only one call is for the newsletter, and it has started then.
NewsInv ==
  /\ \A c \in Calls : call[c].kind = "news" => started
  /\ \A c, d \in Calls : call[c].kind = "news" /\ call[d].kind = "news" => c = d

\* A page lies after the position the sender was asked for, and the next page
\* begins after it.
Orderly(r) ==
  r.pc = "send" =>
    /\ \A j \in r.todo : r.from < j /\ (r.next # None => j <= r.next)
    /\ r.next # None => r.from < r.next
SendInv == \A w \in Workers : Orderly(worker[w])

\* What was mailed at position i and what can still be is paid for by the
\* start of the newsletter and by the calls that failed.
BoundAt(i) ==
  /\ IsFiniteSet(Tokens(queue, worker, i))
  /\ Cardinality(Tokens(queue, worker, i)) + tried[Order[i]] + One(Pending)
       <= One(started) + faults

OthersUntried == \A e \in Emails : (\A i \in DOMAIN Order : Order[i] # e) => tried[e] = 0

ChainInv == /\ NewsInv /\ SendInv /\ OthersUntried
            /\ \A i \in DOMAIN Order : BoundAt(i)

-----------------------------------------------------------------------------
(* What the mail function does to the count.                               *)

\* A call is for the newsletter after a step only if it was, and is starting
\* it only if it was.
NewsFrom(d) ==
  call'[d].kind = "news" =>
    call[d].kind = "news" /\ (Starting(call'[d]) => Starting(call[d]))
Quiet == /\ \A d \in Calls : NewsFrom(d)
         /\ queue' = queue /\ started' = started

LEMMA QuietKeeps ==
  ASSUME NewsInv, started' = started, \A d \in Calls : NewsFrom(d)
  PROVE  NewsInv' /\ (Pending' => Pending)
<1>1. NewsInv'
  BY DEF NewsInv, NewsFrom
<1>2. Pending' => Pending
  BY DEF Pending, NewsFrom, Starting
<1> QED  BY <1>1, <1>2

LEMMA GotoFields ==
  ASSUME IInv, NEW c \in Calls, NEW pc \in Pcs, Goto(c, pc)
  PROVE  /\ call'[c].pc = pc /\ call'[c].kind = call[c].kind
         /\ \A d \in Calls \ {c} : call'[d] = call[d]
<1>1. call \in [Calls -> CallRecords]
  BY CallType DEF IInv
<1> QED  BY <1>1 DEF Goto, CallRecords

LEMMA SetFields ==
  ASSUME IInv, NEW e \in Emails, NEW s, NEW c, NEW pc, SetAndGoto(e, s, c, pc)
  PROVE  \A d \in Calls : /\ call'[d].kind = call[d].kind
                          /\ d # c => call'[d].pc = call[d].pc
<1> SUFFICES ASSUME NEW d \in Calls
             PROVE  call'[d].kind = call[d].kind /\ (d # c => call'[d].pc = call[d].pc)
  OBVIOUS
<1>1. call[d] \in CallRecords
  BY CallType DEF IInv
<1> DEFINE n == Seen(d, e, s)
           y == [call[d] EXCEPT !.pc = IF d = c THEN pc ELSE @, !.seen = n]
<1>2. call'[d] = y
  BY DEF SetAndGoto
<1> HIDE DEF n
<1>3. y.kind = call[d].kind /\ (d # c => y.pc = call[d].pc)
  BY <1>1 DEF CallRecords
<1> QED  BY <1>2, <1>3, Zenon

LEMMA OneOrNone == ASSUME NEW b \in BOOLEAN PROVE One(b) \in {0, 1}
BY DEF One

\* The steps of a call that leave the count alone.
LEMMA CallIsQuiet ==
  ASSUME IInv, NEW c \in Calls, CallStep(c),
         \A e \in Emails \cup {None} : ~Request(c, "news", e),
         ~Enqueue(c), \A b \in BOOLEAN : ~EnqueueFails(c, b)
  PROVE  Quiet /\ worker' = worker /\ tried' = tried /\ faults' \in Nat /\ faults <= faults'
<1>0. /\ call \in [Calls -> CallRecords] /\ faults \in Nat
      /\ Fits(call[c]) /\ call[c] \in CallRecords
  BY CallType DEF IInv, TypeOK, CallInv
<1>1. ASSUME NEW pc \in Pcs, Goto(c, pc), call[c].kind # "news" \/ ~Starting([call[c] EXCEPT !.pc = pc])
                                          \/ Starting(call[c])
      PROVE  \A d \in Calls : NewsFrom(d)
  <2>1. call'[c] = [call[c] EXCEPT !.pc = pc]
    BY <1>0, <1>1 DEF Goto
  <2> QED  BY <1>1, <2>1, GotoFields DEF NewsFrom
<1>2. ASSUME NEW kind \in Kinds, NEW e \in Emails \cup {None}, Request(c, kind, e), kind # "news"
      PROVE  Quiet /\ worker' = worker /\ tried' = tried /\ faults' = faults
  <2>1. call'[c].kind = kind /\ \A d \in Calls \ {c} : call'[d] = call[d]
    BY <1>0, <1>2 DEF Request
  <2>2. \A d \in Calls : NewsFrom(d)
    BY <1>2, <2>1 DEF NewsFrom
  <2> QED  BY <1>2, <2>2 DEF Request, Quiet, IInv, TypeOK
<1>3. CASE Get(c)
  <2>1. call[c].kind # "news" /\ AfterGet(c) \in Pcs
    BY <1>0, <1>3 DEF Get, Fits, AfterGet, Pcs
  <2>2. \A d \in Calls : NewsFrom(d)
    BY <1>1, <1>3, <2>1 DEF Get
  <2> QED  BY <1>0, <1>3, <2>2 DEF Get, Quiet
<1>4. CASE GetFails(c)
  <2>1. call[c].kind # "news"
    BY <1>0, <1>4 DEF GetFails, Fits
  <2> DEFINE x == [call[c] EXCEPT !.pc = IF call[c].kind = "ask" THEN "no" ELSE "create",
                                  !.failed = TRUE]
  <2>2. call' = [call EXCEPT ![c] = x]
    BY <1>0, <1>4 DEF GetFails, CallRecords
  <2>3. x.kind = call[c].kind
    BY <1>0 DEF CallRecords
  <2> HIDE DEF x
  <2>4. call'[c].kind # "news" /\ \A d \in Calls \ {c} : call'[d] = call[d]
    BY <1>0, <2>1, <2>2, <2>3
  <2>5. \A d \in Calls : NewsFrom(d)
    BY <2>4 DEF NewsFrom
  <2> QED  BY <1>0, <1>4, <2>5 DEF GetFails, Fault, Quiet
<1>5. ASSUME Update(c) \/ Create(c) \/ \E b \in BOOLEAN : WriteFails(c, b)
      PROVE  Quiet /\ worker' = worker /\ tried' = tried /\ faults' \in Nat /\ faults <= faults'
  <2>1. call[c].pc \in {"update", "create"}
    BY <1>5 DEF Update, Create, WriteFails
  <2>2. call[c].kind # "news" /\ call[c].email \in Emails
    BY <1>0, <2>1, WritesAddress DEF Fits
  <2>3. \/ \E pc \in {"ok", "error"} : SetAndGoto(call[c].email, Wanted(c), c, pc)
        \/ Goto(c, "error")
    BY <1>5 DEF Update, Create, WriteFails
  <2>4. \A d \in Calls : NewsFrom(d)
    <3>1. CASE Goto(c, "error")
      BY <1>1, <2>2, <3>1 DEF Pcs
    <3>2. ASSUME NEW pc \in {"ok", "error"}, SetAndGoto(call[c].email, Wanted(c), c, pc)
          PROVE  \A d \in Calls : NewsFrom(d)
      <4>1. \A d \in Calls : call'[d].kind = call[d].kind /\ (d # c => call'[d].pc = call[d].pc)
        BY <2>2, <3>2, SetFields
      <4> QED  BY <2>2, <4>1 DEF NewsFrom, Starting
    <3> QED  BY <2>3, <3>1, <3>2
  <2>5. /\ queue' = queue /\ started' = started /\ worker' = worker /\ tried' = tried
        /\ faults' = faults \/ faults' = faults + 1
    BY <1>5 DEF Update, Create, WriteFails, Fault
  <2> QED  BY <1>0, <2>4, <2>5 DEF Quiet
<1>6. CASE Again(c)
  <2>1. Goto(c, FirstStep(call[c].kind)) /\ FirstStep(call[c].kind) \in Pcs /\ call[c].pc = "error"
    BY <1>6 DEF Again, FirstStep, Pcs
  <2>2. call[c].kind # "news" \/ Starting(call[c])
    BY <2>1 DEF Starting
  <2>3. \A d \in Calls : NewsFrom(d)
    BY <1>1, <2>1, <2>2
  <2> QED  BY <1>0, <1>6, <2>3 DEF Again, Quiet
<1>7. CASE End(c)
  <2>1. call'[c].kind = "ask" /\ \A d \in Calls \ {c} : call'[d] = call[d]
    BY <1>0, <1>7 DEF End, Idle
  <2>2. \A d \in Calls : NewsFrom(d)
    BY <2>1 DEF NewsFrom
  <2> QED  BY <1>0, <1>7, <2>2 DEF End, Quiet
<1> QED
  BY <1>0, <1>2, <1>3, <1>4, <1>5, <1>6, <1>7 DEF CallStep

\* A reader's unsubscription does too.
LEMMA UnsubscribeIsQuiet ==
  ASSUME IInv, NEW e \in Emails, Unsubscribe(e)
  PROVE  Quiet /\ worker' = worker /\ tried' = tried /\ faults' \in Nat /\ faults <= faults'
<1>1. \A d \in Calls : d # None
  BY NewsletterConstants
<1>2. \A d \in Calls : call'[d].kind = call[d].kind /\ call'[d].pc = call[d].pc
  BY <1>1, SetFields DEF Unsubscribe
<1>3. faults \in Nat
  BY DEF IInv, TypeOK
<1> QED  BY <1>2, <1>3 DEF Unsubscribe, Quiet, NewsFrom, Starting

\* The count after steps that do not move a sender.
LEMMA CallChain ==
  ASSUME IInv, ChainInv, worker' = worker, tried' = tried, NewsInv',
         \A i \in DOMAIN Order : BoundAt(i)'
  PROVE  ChainInv'
<1>1. SendInv'
  BY DEF ChainInv, SendInv, Orderly
<1>2. OthersUntried'
  BY DEF ChainInv, OthersUntried
<1> QED  BY <1>1, <1>2 DEF ChainInv

LEMMA Numbers ==
  ASSUME IInv, NEW i \in DOMAIN Order
  PROVE  /\ tried[Order[i]] \in Nat /\ faults \in Nat /\ started \in BOOLEAN /\ i \in Nat /\ i > 0
         /\ i \in Positions /\ Order[i] \in Emails
         /\ queue \in [Positions -> Nat] /\ worker \in [Workers -> WorkerRecords]
         /\ 0 \in Positions
         /\ IsFiniteSet(Tokens(queue, worker, i)) => Cardinality(Tokens(queue, worker, i)) \in Nat
<1>1. Order \in Seq(Emails)
  BY NewsletterConstants
<1>2. i \in Nat /\ i > 0 /\ Order[i] \in Emails /\ i \in Positions /\ 0 \in Positions
  BY <1>1 DEF Positions
<1>3. tried[Order[i]] \in Nat /\ faults \in Nat /\ started \in BOOLEAN
  BY <1>2 DEF IInv, TypeOK
<1>4. queue \in [Positions -> Nat] /\ worker \in [Workers -> WorkerRecords]
  BY DEF IInv, TypeOK, WorkerRecords
<1> QED  BY <1>2, <1>3, <1>4, FS_CardinalityType

LEMMA QuietChain ==
  ASSUME IInv, ChainInv, Quiet, worker' = worker, tried' = tried, faults' \in Nat,
         faults <= faults'
  PROVE  ChainInv'
<1>1. NewsInv' /\ (Pending' => Pending)
  BY QuietKeeps DEF Quiet, ChainInv
<1>2. ASSUME NEW i \in DOMAIN Order PROVE BoundAt(i)'
  <2>1. BoundAt(i) /\ queue' = queue /\ started' = started
    BY DEF ChainInv, Quiet
  <2>2. Tokens(queue', worker', i) = Tokens(queue, worker, i)
    BY <2>1
  <2> DEFINE k == Cardinality(Tokens(queue, worker, i))
  <2>3. k \in Nat /\ tried[Order[i]] \in Nat /\ faults \in Nat
    BY <2>1, Numbers DEF BoundAt
  <2>4. One(Pending') <= One(Pending) /\ One(Pending) \in Nat /\ One(Pending') \in Nat
        /\ One(started) \in Nat
    BY <1>1 DEF One
  <2>5. k + tried[Order[i]] + One(Pending) <= One(started) + faults
    BY <2>1 DEF BoundAt
  <2> HIDE DEF k
  <2>6. k + tried[Order[i]] + One(Pending') <= One(started) + faults'
    BY <2>3, <2>4, <2>5
  <2> QED  BY <2>1, <2>2, <2>6 DEF BoundAt, k
<1> QED  BY <1>1, <1>2, CallChain

\* The newsletter starts.
LEMMA RequestChain ==
  ASSUME IInv, ChainInv, NEW c \in Calls, NEW e \in Emails \cup {None}, Request(c, "news", e)
  PROVE  ChainInv'
<1>1. /\ ~started /\ started' = TRUE
      /\ UNCHANGED <<queue, worker, faults, tried>>
  BY DEF Request
<1>2. \A d \in Calls : call[d].kind # "news"
  BY <1>1 DEF ChainInv, NewsInv
<1>3. \A d \in Calls \ {c} : call'[d] = call[d]
  BY CallType DEF IInv, Request
<1>4. NewsInv'
  BY <1>1, <1>2, <1>3 DEF NewsInv
<1>5. ~Pending
  BY <1>2 DEF Pending, Starting
<1>6. ASSUME NEW i \in DOMAIN Order PROVE BoundAt(i)'
  <2>1. BoundAt(i)
    BY DEF ChainInv
  <2> DEFINE k == Cardinality(Tokens(queue, worker, i))
  <2>2. k \in Nat /\ tried[Order[i]] \in Nat /\ faults \in Nat
    BY <2>1, Numbers DEF BoundAt
  <2>3. One(Pending) = 0 /\ One(started) = 0 /\ One(started') = 1 /\ One(Pending') \in {0, 1}
    BY <1>1, <1>5 DEF One
  <2>4. k + tried[Order[i]] + One(Pending) <= One(started) + faults
    BY <2>1 DEF BoundAt
  <2> HIDE DEF k
  <2>5. k + tried[Order[i]] + One(Pending') <= One(started') + faults
    BY <2>2, <2>3, <2>4
  <2> QED  BY <1>1, <2>1, <2>5 DEF BoundAt, k
<1> QED  BY <1>1, <1>4, <1>6, CallChain

\* The first page is queued, or may be by a call that failed.
LEMMA EnqueueChain ==
  ASSUME IInv, ChainInv, NEW c \in Calls, Enqueue(c)
  PROVE  ChainInv'
<1>1. /\ call[c].pc = "enqueue" /\ call[c].kind = "news" /\ Goto(c, "ok")
      /\ queue' = [queue EXCEPT ![0] = @ + 1]
      /\ UNCHANGED <<worker, started, faults, tried>>
  BY DEF Enqueue, Queued, IInv, CallInv, Fits
<1>2. call'[c].pc = "ok" /\ call'[c].kind = "news" /\ \A d \in Calls \ {c} : call'[d] = call[d]
  BY <1>1, GotoFields DEF Pcs
<1>3. \A d \in Calls : NewsFrom(d)
  BY <1>1, <1>2 DEF NewsFrom, Starting
<1>4. NewsInv'
  BY <1>1, <1>3, QuietKeeps DEF ChainInv
<1>5. Pending
  BY <1>1 DEF Pending, Starting
<1>6. ~Pending'
  <2>1. \A d \in Calls : ~Starting(call'[d])
    BY <1>1, <1>2 DEF Starting, ChainInv, NewsInv
  <2> QED  BY <2>1 DEF Pending, Starting
<1>7. ASSUME NEW i \in DOMAIN Order PROVE BoundAt(i)'
  <2>1. BoundAt(i)
    BY DEF ChainInv
  <2> DEFINE k == Cardinality(Tokens(queue, worker, i))
             n == Cardinality(Tokens(queue', worker', i))
  <2>2. /\ k \in Nat /\ tried[Order[i]] \in Nat /\ faults \in Nat
        /\ i \in Nat /\ queue \in [Positions -> Nat] /\ 0 \in Positions
        /\ started \in BOOLEAN
    BY <2>1, Numbers DEF BoundAt
  <2>3. IsFiniteSet(Tokens(queue', worker', i)) /\ n <= k + One(0 < i)
    BY <1>1, <2>1, <2>2, QueuedTokens DEF BoundAt
  <2>4. n \in Nat
    BY <2>3, FS_CardinalityType
  <2>5. One(Pending) = 1 /\ One(Pending') = 0 /\ One(0 < i) \in {0, 1} /\ One(started) \in {0, 1}
    BY <1>5, <1>6 DEF One
  <2>6. k + tried[Order[i]] + One(Pending) <= One(started) + faults
    BY <2>1 DEF BoundAt
  <2>7. tried' = tried /\ started' = started /\ faults' = faults
    BY <1>1
  <2> HIDE DEF k, n
  <2>8. n + tried[Order[i]] + One(Pending') <= One(started) + faults
    BY <2>2, <2>3, <2>4, <2>5, <2>6
  <2> QED  BY <2>3, <2>7, <2>8 DEF BoundAt, n
<1> QED  BY <1>1, <1>4, <1>7, CallChain

LEMMA EnqueueFailsChain ==
  ASSUME IInv, ChainInv, NEW c \in Calls, NEW b \in BOOLEAN, EnqueueFails(c, b)
  PROVE  ChainInv'
<1>1. /\ call[c].pc = "enqueue" /\ call[c].kind = "news" /\ Goto(c, "error")
      /\ queue' = queue \/ queue' = [queue EXCEPT ![0] = @ + 1]
      /\ faults' = faults + 1
      /\ UNCHANGED <<worker, started, tried>>
  BY DEF EnqueueFails, Queued, Fault, IInv, CallInv, Fits
<1>2. call'[c].kind = "news" /\ \A d \in Calls \ {c} : call'[d] = call[d]
  BY <1>1, GotoFields DEF Pcs
<1>3. \A d \in Calls : NewsFrom(d)
  BY <1>1, <1>2 DEF NewsFrom, Starting
<1>4. NewsInv' /\ (Pending' => Pending)
  BY <1>1, <1>3, QuietKeeps DEF ChainInv
<1>5. faults \in Nat
  BY DEF IInv, TypeOK
<1>6. CASE queue' = queue
  BY <1>1, <1>3, <1>5, <1>6, QuietChain DEF Quiet
<1>7. CASE queue' = [queue EXCEPT ![0] = @ + 1]
  <2>1. ASSUME NEW i \in DOMAIN Order PROVE BoundAt(i)'
    <3>1. BoundAt(i)
      BY DEF ChainInv
    <3> DEFINE k == Cardinality(Tokens(queue, worker, i))
               n == Cardinality(Tokens(queue', worker', i))
    <3>2. /\ k \in Nat /\ tried[Order[i]] \in Nat
          /\ i \in Nat /\ queue \in [Positions -> Nat] /\ 0 \in Positions
          /\ started \in BOOLEAN
      BY <3>1, Numbers DEF BoundAt
    <3>3. IsFiniteSet(Tokens(queue', worker', i)) /\ n <= k + One(0 < i)
      BY <1>1, <1>7, <3>1, <3>2, QueuedTokens DEF BoundAt
    <3>4. n \in Nat
      BY <3>3, FS_CardinalityType
    <3>5. /\ One(Pending') <= One(Pending) /\ One(Pending) \in {0, 1} /\ One(Pending') \in {0, 1}
          /\ One(0 < i) \in {0, 1} /\ One(started) \in {0, 1}
      BY <1>4 DEF One
    <3>6. k + tried[Order[i]] + One(Pending) <= One(started) + faults
      BY <3>1 DEF BoundAt
    <3>7. tried' = tried /\ started' = started /\ faults' = faults + 1
      BY <1>1
    <3> HIDE DEF k, n
    <3>8. n + tried[Order[i]] + One(Pending') <= One(started) + (faults + 1)
      BY <1>5, <3>2, <3>3, <3>4, <3>5, <3>6
    <3> QED  BY <3>3, <3>7, <3>8 DEF BoundAt, n
  <2> QED  BY <1>1, <1>4, <2>1, CallChain
<1> QED  BY <1>1, <1>6, <1>7

LEMMA CallStepChain ==
  ASSUME IInv, ChainInv, NEW c \in Calls, CallStep(c)
  PROVE  ChainInv'
<1>1. CASE \E e \in Emails \cup {None} : Request(c, "news", e)
  BY <1>1, RequestChain
<1>2. CASE Enqueue(c)
  BY <1>2, EnqueueChain
<1>3. CASE \E b \in BOOLEAN : EnqueueFails(c, b)
  BY <1>3, EnqueueFailsChain
<1> QED  BY <1>1, <1>2, <1>3, CallIsQuiet, QuietChain

-----------------------------------------------------------------------------
(* What the bulk sender does to the count.                                 *)

\* What a step of sender w adds, to its queue, to itself and to the mails of
\* position i, is no more than the faults it adds.
Afforded(w, r, i) ==
  Cardinality(Tokens(queue', worker, i)) + One(Ahead(r, i)) + tried'[Order[i]] + faults
    <= Cardinality(Tokens(queue, worker, i)) + One(Ahead(worker[w], i)) + tried[Order[i]] + faults'

LEMMA SenderBound ==
  ASSUME IInv, NEW i \in DOMAIN Order, BoundAt(i), NEW w \in Workers, NEW r \in WorkerRecords,
         Work(w, r), call' = call, started' = started,
         IsFiniteSet(Tokens(queue', worker, i)), faults' \in Nat, tried'[Order[i]] \in Nat,
         Afforded(w, r, i)
  PROVE  BoundAt(i)'
<1> DEFINE k == Cardinality(Tokens(queue, worker, i))
           l == Cardinality(Tokens(queue', worker, i))
           n == Cardinality(Tokens(queue', worker', i))
           a == One(Ahead(worker[w], i))
           b == One(Ahead(r, i))
           x == tried[Order[i]]
           y == tried'[Order[i]]
           f == faults
           g == faults'
<1>1. k \in Nat /\ l \in Nat /\ x \in Nat /\ f \in Nat
  BY Numbers, FS_CardinalityType DEF BoundAt
<1>2. a \in Nat /\ b \in Nat /\ One(Pending) \in Nat /\ One(started) \in Nat
  BY DEF One
<1>3. worker' = [worker EXCEPT ![w] = r] /\ worker \in [Workers -> WorkerRecords]
  BY Numbers DEF Work
<1>4. IsFiniteSet(Tokens(queue', worker', i)) /\ n + a <= l + b
  BY <1>3, SenderTokens
<1>5. n \in Nat
  BY <1>4, FS_CardinalityType
<1>6. l + b + y + f <= k + a + x + g
  BY DEF Afforded
<1>7. k + x + One(Pending) <= One(started) + f
  BY DEF BoundAt
<1>8. Pending' = Pending
  BY DEF Pending
<1>9. One(Pending') = One(Pending)
  BY <1>8 DEF One
<1> HIDE DEF k, l, n, a, b, x, y, f, g
<1>10. y \in Nat /\ g \in Nat
  BY DEF y, g
<1>11. n + y + One(Pending) <= One(started) + g
  <2>1. n + y + f <= k + x + g
    BY <1>1, <1>2, <1>4, <1>5, <1>6, <1>10
  <2> QED  BY <1>1, <1>2, <1>5, <1>7, <1>10, <2>1
<1> QED  BY <1>4, <1>9, <1>11 DEF BoundAt, n, y, g

LEMMA SenderChain ==
  ASSUME IInv, ChainInv, NEW w \in Workers, NEW r \in WorkerRecords, Work(w, r), Orderly(r),
         call' = call, started' = started, OthersUntried',
         \A i \in DOMAIN Order : BoundAt(i)'
  PROVE  ChainInv'
<1>1. worker \in [Workers -> WorkerRecords]
  BY DEF IInv, TypeOK, WorkerRecords
<1>2. \A u \in Workers : worker'[u] = IF u = w THEN r ELSE worker[u]
  BY <1>1 DEF Work
<1>3. \A u \in Workers : Orderly(worker'[u])
  BY <1>2 DEF ChainInv, SendInv
<1>4. SendInv'
  BY <1>3 DEF SendInv, Orderly
<1>5. NewsInv'
  BY DEF ChainInv, NewsInv
<1> QED  BY <1>4, <1>5 DEF ChainInv

LEMMA WorkerIs ==
  ASSUME IInv, NEW w \in Workers
  PROVE  /\ worker[w] \in WorkerRecords /\ Resting \in WorkerRecords
         /\ worker[w].from \in Nat /\ worker[w].todo \subseteq Nat
         /\ worker[w].next # None => worker[w].next \in Nat
<1>1. worker[w] \in WorkerRecords
  BY DEF IInv, TypeOK, WorkerRecords
<1>2. Resting \in WorkerRecords
  BY NewsletterConstants DEF WorkerRecords, Resting, Positions
<1> QED  BY <1>1, <1>2, PositionsAreNumbers DEF WorkerRecords

\* A step that mails nothing leaves every address as it was.
LEMMA UntriedStays == ASSUME ChainInv, tried' = tried PROVE OthersUntried'
BY DEF ChainInv, OthersUntried

LEMMA TakeChain ==
  ASSUME IInv, ChainInv, NEW w \in Workers, NEW p \in Positions, Take(w, p)
  PROVE  ChainInv'
<1> DEFINE r == [Resting EXCEPT !.pc = "list", !.from = p]
<1>1. r.pc = "list" /\ r.from = p /\ r \in WorkerRecords
  BY WorkerIs DEF Resting, WorkerRecords
<1>2. /\ worker[w].pc = "idle" /\ queue[p] > 0 /\ queue' = [queue EXCEPT ![p] = @ - 1]
      /\ Work(w, r) /\ UNCHANGED <<call, started, faults, tried>>
  BY DEF Take
<1> HIDE DEF r
<1>3. Orderly(r)
  BY <1>1 DEF Orderly
<1>4. ASSUME NEW i \in DOMAIN Order PROVE BoundAt(i)'
  <2>1. BoundAt(i) /\ queue \in [Positions -> Nat] /\ i \in Nat /\ tried[Order[i]] \in Nat
        /\ faults \in Nat
    BY Numbers DEF ChainInv
  <2>2. /\ IsFiniteSet(Tokens(queue', worker, i))
        /\ Cardinality(Tokens(queue', worker, i)) + One(p < i) <= Cardinality(Tokens(queue, worker, i))
    BY <1>2, <2>1, TakenTokens DEF BoundAt
  <2>3. (Ahead(r, i) <=> p < i) /\ ~Ahead(worker[w], i)
    BY <1>1, <1>2 DEF Ahead
  <2>4. One(Ahead(r, i)) = One(p < i) /\ One(Ahead(worker[w], i)) = 0 /\ One(p < i) \in Nat
    BY <2>3 DEF One
  <2>5. Cardinality(Tokens(queue', worker, i)) \in Nat /\ Cardinality(Tokens(queue, worker, i)) \in Nat
    BY <2>1, <2>2, FS_CardinalityType DEF BoundAt
  <2>6. Afforded(w, r, i)
    BY <1>2, <2>1, <2>2, <2>4, <2>5 DEF Afforded
  <2>7. call' = call /\ started' = started /\ faults' \in Nat /\ tried'[Order[i]] \in Nat
    BY <1>2, <2>1
  <2> QED  BY <1>1, <1>2, <2>1, <2>2, <2>6, <2>7, SenderBound
<1> QED  BY <1>1, <1>2, <1>3, <1>4, UntriedStays, SenderChain

\* A sender that moves without the queue, and is ahead of nothing new.
LEMMA StillChain ==
  ASSUME IInv, ChainInv, NEW w \in Workers, NEW r \in WorkerRecords, Work(w, r), Orderly(r),
         UNCHANGED <<call, started, queue, tried, faults>>,
         \A i \in DOMAIN Order : Ahead(r, i) => Ahead(worker[w], i)
  PROVE  ChainInv'
<1>1. ASSUME NEW i \in DOMAIN Order PROVE BoundAt(i)'
  <2>1. BoundAt(i) /\ queue \in [Positions -> Nat] /\ i \in Nat /\ tried[Order[i]] \in Nat
        /\ faults \in Nat
    BY Numbers DEF ChainInv
  <2>2. IsFiniteSet(Tokens(queue', worker, i)) /\ Cardinality(Tokens(queue, worker, i)) \in Nat
    BY <2>1, FS_CardinalityType DEF BoundAt
  <2>3. One(Ahead(r, i)) <= One(Ahead(worker[w], i)) /\ One(Ahead(r, i)) \in Nat
        /\ One(Ahead(worker[w], i)) \in Nat
    BY DEF One
  <2>4. Afforded(w, r, i)
    BY <2>1, <2>2, <2>3 DEF Afforded
  <2> QED  BY <2>1, <2>2, <2>4, SenderBound
<1> QED  BY <1>1, UntriedStays, SenderChain

LEMMA ListChain ==
  ASSUME IInv, ChainInv, NEW w \in Workers, NEW q \in Positions, List(w, q)
  PROVE  ChainInv'
<1> DEFINE page == Listed(worker[w].from, q)
<1>1. PICK next \in {None, q} :
        /\ Work(w, [worker[w] EXCEPT !.pc = "send", !.todo = page, !.next = next])
        /\ next # None => q \in page
  BY DEF List
<1> DEFINE r == [worker[w] EXCEPT !.pc = "send", !.todo = page, !.next = next]
<1>2. \A j \in page : j \in Positions /\ worker[w].from < j /\ j <= q
  BY DEF Listed
<1>3. /\ worker[w].pc = "list" /\ UNCHANGED <<call, started, queue, tried, faults>>
  BY DEF List
<1> HIDE DEF page
<1>4. /\ r \in WorkerRecords
      /\ r.pc = "send" /\ r.todo = page /\ r.next = next /\ r.from = worker[w].from
  BY <1>2, WorkerIs DEF WorkerRecords
<1> HIDE DEF r
<1>5. worker[w].from \in Nat /\ q \in Nat
  BY WorkerIs, PositionsAreNumbers
<1>6. Orderly(r)
  BY <1>1, <1>2, <1>4 DEF Orderly
<1>7. ASSUME NEW i \in DOMAIN Order, Ahead(r, i) PROVE Ahead(worker[w], i)
  <2>1. i \in Nat
    BY Numbers
  <2>2. worker[w].from < i
    <3>1. CASE i \in page
      BY <1>2, <3>1
    <3>2. CASE i \notin page
      <4>1. next # None /\ q < i /\ q \in page
        BY <1>1, <1>4, <1>7, <3>2 DEF Ahead
      <4> QED  BY <1>2, <1>5, <2>1, <4>1
    <3> QED  BY <3>1, <3>2
  <2> QED  BY <1>3, <2>2 DEF Ahead
<1> QED  BY <1>1, <1>3, <1>4, <1>6, <1>7, StillChain DEF r

LEMMA DeleteChain ==
  ASSUME IInv, ChainInv, NEW w \in Workers, DeleteMessage(w)
  PROVE  ChainInv'
<1>1. Resting \in WorkerRecords /\ Orderly(Resting) /\ \A i \in DOMAIN Order : ~Ahead(Resting, i)
  BY WorkerIs DEF Resting, Orderly, Ahead
<1> QED  BY <1>1, StillChain DEF DeleteMessage

LEMMA MailOneChain ==
  ASSUME IInv, ChainInv, NEW w \in Workers, NEW j \in Positions, MailOne(w, j)
  PROVE  ChainInv'
<1> DEFINE r == [worker[w] EXCEPT !.todo = @ \ {j}]
<1>1. /\ r \in WorkerRecords
      /\ r.pc = worker[w].pc /\ r.todo = worker[w].todo \ {j} /\ r.next = worker[w].next
      /\ r.from = worker[w].from
  BY WorkerIs DEF WorkerRecords
<1>2. /\ worker[w].pc = "send" /\ j \in worker[w].todo /\ Work(w, r)
      /\ tried' = tried \/ tried' = [tried EXCEPT ![Order[j]] = @ + 1]
      /\ UNCHANGED <<call, queue, started, faults>>
  BY DEF MailOne
<1>3. /\ Orderly(worker[w]) /\ worker[w].from \in Nat /\ j \in Nat
      /\ worker[w].next # None => worker[w].next \in Nat
  BY WorkerIs, PositionsAreNumbers DEF ChainInv, SendInv
<1> HIDE DEF r
<1>4. Orderly(r)
  BY <1>1, <1>3 DEF Orderly
<1>5. j \in DOMAIN Order /\ Order[j] \in Emails
  <2>1. j > 0
    BY <1>2, <1>3 DEF Orderly
  <2> QED  BY <1>3, <2>1, NewsletterConstants DEF Positions
<1>6. tried \in [Emails -> Nat]
  BY DEF IInv, TypeOK
<1>7. OthersUntried'
  BY <1>2, <1>5, <1>6 DEF ChainInv, OthersUntried
<1>8. ASSUME NEW i \in DOMAIN Order PROVE BoundAt(i)'
  <2>1. BoundAt(i) /\ queue \in [Positions -> Nat] /\ i \in Nat /\ tried[Order[i]] \in Nat
        /\ faults \in Nat /\ Order[i] \in Emails
    BY Numbers DEF ChainInv
  <2>2. IsFiniteSet(Tokens(queue', worker, i)) /\ Cardinality(Tokens(queue, worker, i)) \in Nat
    BY <1>2, <2>1, FS_CardinalityType DEF BoundAt
  <2>3. /\ tried'[Order[i]] \in Nat
        /\ One(Ahead(r, i)) + tried'[Order[i]] <= One(Ahead(worker[w], i)) + tried[Order[i]]
    <3>1. CASE i = j
      <4>1. Ahead(worker[w], i) /\ ~Ahead(r, i)
        BY <1>1, <1>2, <1>3, <3>1 DEF Ahead, Orderly
      <4>2. tried'[Order[i]] = tried[Order[i]] \/ tried'[Order[i]] = tried[Order[i]] + 1
        BY <1>2, <1>6, <2>1, <3>1
      <4> QED  BY <2>1, <4>1, <4>2 DEF One
    <3>2. CASE i # j
      <4>1. Ahead(r, i) => Ahead(worker[w], i)
        BY <1>1 DEF Ahead
      <4>2. Order[i] # Order[j]
        BY <1>5, <3>2, NewsletterConstants
      <4>3. tried'[Order[i]] = tried[Order[i]]
        BY <1>2, <1>6, <2>1, <4>2
      <4> QED  BY <2>1, <4>1, <4>3 DEF One
    <3> QED  BY <3>1, <3>2
  <2>4. One(Ahead(r, i)) \in Nat /\ One(Ahead(worker[w], i)) \in Nat
    BY DEF One
  <2>5. Afforded(w, r, i)
    BY <1>2, <2>1, <2>2, <2>3, <2>4 DEF Afforded
  <2> QED  BY <1>1, <1>2, <2>1, <2>2, <2>3, <2>5, SenderBound
<1> QED  BY <1>1, <1>2, <1>4, <1>7, <1>8, SenderChain

\* A sender that leaves its page: its queue may grow by the next page, which it
\* was ahead of, and by its own again, when a call has failed.
LEMMA LeavesChain ==
  ASSUME IInv, ChainInv, NEW w \in Workers, NEW r \in WorkerRecords, Work(w, r),
         r.pc \in {"idle", "delete"}, UNCHANGED <<call, started, tried>>, faults' \in Nat,
         \A i \in DOMAIN Order :
           /\ IsFiniteSet(Tokens(queue', worker, i))
           /\ Cardinality(Tokens(queue', worker, i)) + faults
                <= Cardinality(Tokens(queue, worker, i)) + One(Ahead(worker[w], i)) + faults'
  PROVE  ChainInv'
<1>1. Orderly(r)
  BY DEF Orderly
<1>2. ASSUME NEW i \in DOMAIN Order PROVE BoundAt(i)'
  <2>1. BoundAt(i) /\ tried'[Order[i]] = tried[Order[i]] /\ tried[Order[i]] \in Nat /\ faults \in Nat
    BY Numbers DEF ChainInv
  <2>2. ~Ahead(r, i)
    BY DEF Ahead
  <2> DEFINE k == Cardinality(Tokens(queue, worker, i))
             l == Cardinality(Tokens(queue', worker, i))
             a == One(Ahead(worker[w], i))
             b == One(Ahead(r, i))
             x == tried[Order[i]]
             f == faults
             g == faults'
  <2>3. k \in Nat /\ l \in Nat /\ a \in Nat /\ b = 0 /\ x \in Nat /\ f \in Nat /\ g \in Nat
    BY <2>1, <2>2, FS_CardinalityType DEF BoundAt, One
  <2>4. l + f <= k + a + g
    OBVIOUS
  <2> HIDE DEF k, l, a, b, x, f, g
  <2>5. l + b + x + f <= k + a + x + g
    BY <2>3, <2>4
  <2>6. Afforded(w, r, i)
    BY <2>1, <2>5, Zenon DEF Afforded, k, l, a, b, x, f, g
  <2> QED  BY <2>1, <2>6, SenderBound
<1> QED  BY <1>1, <1>2, UntriedStays, SenderChain

LEMMA QueueNextChain ==
  ASSUME IInv, ChainInv, NEW w \in Workers, QueueNext(w)
  PROVE  ChainInv'
<1> DEFINE r == [worker[w] EXCEPT !.pc = "delete"]
           next == worker[w].next
<1>1. r \in WorkerRecords /\ r.pc = "delete"
  BY WorkerIs DEF WorkerRecords
<1>2. /\ Work(w, r) /\ worker[w].pc = "send" /\ UNCHANGED <<call, started, tried, faults>>
      /\ IF next = None THEN queue' = queue ELSE queue' = [queue EXCEPT ![next] = @ + 1]
  BY DEF QueueNext, Queued
<1>3. next # None => next \in Positions /\ next \in Nat
  BY WorkerIs DEF WorkerRecords
<1> HIDE DEF r, next
<1>4. ASSUME NEW i \in DOMAIN Order
      PROVE  /\ IsFiniteSet(Tokens(queue', worker, i))
             /\ Cardinality(Tokens(queue', worker, i)) + faults
                  <= Cardinality(Tokens(queue, worker, i)) + One(Ahead(worker[w], i)) + faults'
  <2>1. BoundAt(i) /\ queue \in [Positions -> Nat] /\ i \in Nat /\ faults \in Nat
    BY Numbers DEF ChainInv
  <2>2. IsFiniteSet(Tokens(queue, worker, i)) /\ Cardinality(Tokens(queue, worker, i)) \in Nat
    BY <2>1, FS_CardinalityType DEF BoundAt
  <2>3. One(Ahead(worker[w], i)) \in Nat
    BY DEF One
  <2>4. CASE next = None
    BY <1>2, <2>1, <2>2, <2>3, <2>4
  <2>5. CASE next # None
    <3>1. /\ IsFiniteSet(Tokens(queue', worker, i))
          /\ Cardinality(Tokens(queue', worker, i))
               <= Cardinality(Tokens(queue, worker, i)) + One(next < i)
      BY <1>2, <1>3, <2>1, <2>2, <2>5, QueuedTokens
    <3>2. next < i => Ahead(worker[w], i)
      BY <1>2, <2>5 DEF Ahead, next
    <3>3. One(next < i) <= One(Ahead(worker[w], i)) /\ One(next < i) \in Nat
      BY <3>2 DEF One
    <3>4. Cardinality(Tokens(queue', worker, i)) \in Nat /\ faults' = faults
      BY <1>2, <3>1, FS_CardinalityType
    <3> QED  BY <2>1, <2>2, <2>3, <3>1, <3>3, <3>4
  <2> QED  BY <2>4, <2>5
<1>5. faults' \in Nat
  BY <1>2 DEF IInv, TypeOK
<1> QED  BY <1>1, <1>2, <1>4, <1>5, LeavesChain

LEMMA StopsChain ==
  ASSUME IInv, ChainInv, NEW w \in Workers, NEW queued \in BOOLEAN, Stops(w, queued)
  PROVE  ChainInv'
<1> DEFINE from == worker[w].from
           next == worker[w].next
           again == [queue EXCEPT ![from] = @ + 1]
           both == [again EXCEPT ![next] = @ + 1]
<1>1. /\ Work(w, Resting) /\ UNCHANGED <<call, started, tried>> /\ faults' = faults + 1
      /\ queued => worker[w].pc = "send" /\ worker[w].todo = {} /\ next # None
      /\ queue' = [p \in Positions |-> queue[p] + (IF p = from THEN 1 ELSE 0)
                                                + (IF queued /\ p = next THEN 1 ELSE 0)]
  BY DEF Stops, Fault
<1>2. /\ from \in Positions /\ from \in Nat
      /\ next # None => next \in Positions /\ next \in Nat
      /\ Resting \in WorkerRecords /\ Resting.pc = "idle"
  BY WorkerIs DEF WorkerRecords, Resting
<1>3. queue \in [Positions -> Nat] /\ faults \in Nat
  BY DEF IInv, TypeOK
<1> HIDE DEF from, next
<1>4. again \in [Positions -> Nat] /\ \A p \in Positions : again[p] = queue[p] + (IF p = from THEN 1 ELSE 0)
  BY <1>2, <1>3
<1>5. ~queued => queue' = again
  <2> SUFFICES ASSUME ~queued PROVE queue' = again
    OBVIOUS
  <2>1. again = [p \in Positions |-> again[p]]
    BY <1>4
  <2> HIDE DEF again
  <2>2. \A p \in Positions : again[p] = queue[p] + (IF p = from THEN 1 ELSE 0)
                                              + (IF queued /\ p = next THEN 1 ELSE 0)
    BY <1>3, <1>4
  <2> QED  BY <1>1, <2>1, <2>2
<1>6. queued => queue' = both
  <2> SUFFICES ASSUME queued PROVE queue' = both
    OBVIOUS
  <2>1. next \in Positions
    BY <1>1, <1>2
  <2> HIDE DEF again
  <2>2. \A p \in Positions : both[p] = again[p] + (IF p = next THEN 1 ELSE 0)
    BY <1>4, <2>1
  <2>3. both = [p \in Positions |-> both[p]]
    BY <1>4, <2>1
  <2> QED  BY <1>1, <1>4, <2>2, <2>3
<1> HIDE DEF again
<1>7. ASSUME NEW i \in DOMAIN Order
      PROVE  /\ IsFiniteSet(Tokens(queue', worker, i))
             /\ Cardinality(Tokens(queue', worker, i)) + faults
                  <= Cardinality(Tokens(queue, worker, i)) + One(Ahead(worker[w], i)) + faults'
  <2>1. BoundAt(i) /\ i \in Nat
    BY Numbers DEF ChainInv
  <2>2. IsFiniteSet(Tokens(queue, worker, i)) /\ Cardinality(Tokens(queue, worker, i)) \in Nat
    BY <2>1, FS_CardinalityType DEF BoundAt
  <2>3. /\ IsFiniteSet(Tokens(again, worker, i))
        /\ Cardinality(Tokens(again, worker, i))
             <= Cardinality(Tokens(queue, worker, i)) + One(from < i)
    BY <1>2, <1>3, <2>1, <2>2, QueuedTokens DEF again
  <2>4. Cardinality(Tokens(again, worker, i)) \in Nat
    BY <2>3, FS_CardinalityType
  <2>5. One(Ahead(worker[w], i)) \in Nat /\ One(from < i) \in Nat /\ One(from < i) <= 1
    BY DEF One
  <2>6. CASE ~queued
    BY <1>1, <1>3, <1>5, <2>2, <2>3, <2>4, <2>5, <2>6
  <2>7. CASE queued
    <3>1. /\ IsFiniteSet(Tokens(queue', worker, i))
          /\ Cardinality(Tokens(queue', worker, i))
               <= Cardinality(Tokens(again, worker, i)) + One(next < i)
      BY <1>1, <1>2, <1>4, <1>6, <2>1, <2>3, <2>7, QueuedTokens
    <3>2. next < i => Ahead(worker[w], i)
      BY <1>1, <2>7 DEF Ahead, next
    <3>3. One(next < i) <= One(Ahead(worker[w], i)) /\ One(next < i) \in Nat
      BY <3>2 DEF One
    <3>4. Cardinality(Tokens(queue', worker, i)) \in Nat
      BY <3>1, FS_CardinalityType
    <3> QED  BY <1>1, <1>3, <2>2, <2>3, <2>4, <2>5, <3>1, <3>3, <3>4
  <2> QED  BY <2>6, <2>7
<1>8. faults' \in Nat
  BY <1>1, <1>3
<1> QED  BY <1>1, <1>2, <1>7, <1>8, LeavesChain

-----------------------------------------------------------------------------
\* A second delivery of a message is one more token, and one more fault.
LEMMA DuplicateChain ==
  ASSUME IInv, ChainInv, NEW p \in Positions, DeliveredTwice(p)
  PROVE  ChainInv'
<1>1. /\ queue' = [queue EXCEPT ![p] = @ + 1] /\ faults' = faults + 1
      /\ UNCHANGED <<call, worker, started, tried>>
  BY DEF DeliveredTwice, Queued, Fault
<1>2. NewsInv' /\ Pending' = Pending
  BY <1>1 DEF ChainInv, NewsInv, Pending
<1>3. ASSUME NEW i \in DOMAIN Order PROVE BoundAt(i)'
  <2> DEFINE k == Cardinality(Tokens(queue, worker, i))
             n == Cardinality(Tokens(queue', worker', i))
  <2>1. BoundAt(i)
    BY DEF ChainInv
  <2>2. /\ k \in Nat /\ tried[Order[i]] \in Nat /\ faults \in Nat
        /\ i \in Nat /\ queue \in [Positions -> Nat] /\ started \in BOOLEAN
    BY <2>1, Numbers DEF BoundAt
  <2>3. IsFiniteSet(Tokens(queue', worker', i)) /\ n <= k + One(p < i)
    BY <1>1, <2>1, <2>2, QueuedTokens DEF BoundAt
  <2>4. n \in Nat
    BY <2>3, FS_CardinalityType
  <2>5. One(Pending) \in {0, 1} /\ One(p < i) \in {0, 1} /\ One(started) \in {0, 1}
    BY DEF One
  <2>6. k + tried[Order[i]] + One(Pending) <= One(started) + faults
    BY <2>1 DEF BoundAt
  <2>7. One(Pending') = One(Pending) /\ tried' = tried /\ started' = started
    BY <1>1, <1>2
  <2> HIDE DEF k, n
  <2>8. n + tried[Order[i]] + One(Pending) <= One(started) + (faults + 1)
    BY <2>2, <2>3, <2>4, <2>5, <2>6
  <2> QED  BY <1>1, <2>3, <2>7, <2>8 DEF BoundAt, n
<1> QED  BY <1>1, <1>2, <1>3, CallChain

LEMMA InitChain == Init => ChainInv
<1> SUFFICES ASSUME Init PROVE ChainInv
  OBVIOUS
<1>1. \A c \in Calls : call[c].kind = "ask"
  BY DEF Init, Idle
<1>2. \A w \in Workers : worker[w].pc = "idle"
  BY DEF Init, Resting
<1>3. NewsInv /\ SendInv /\ OthersUntried
  BY <1>1, <1>2 DEF Init, NewsInv, SendInv, Orderly, OthersUntried
<1>4. ASSUME NEW i \in DOMAIN Order PROVE BoundAt(i)
  <2>1. IInv
    BY InitIInv
  <2>2. Tokens(queue, worker, i) = {}
    <3>1. \A p \in Positions, n \in Nat : n > 0 => ~(n <= queue[p])
      BY DEF Init
    <3>2. \A w \in Workers : ~Ahead(worker[w], i)
      BY <1>2 DEF Ahead
    <3>3. \A x \in Tokens(queue, worker, i) : FALSE
      BY <3>1, <3>2, TokensAre
    <3> QED  BY <3>3
  <2>3. IsFiniteSet(Tokens(queue, worker, i)) /\ Cardinality(Tokens(queue, worker, i)) = 0
    BY <2>2, FS_EmptySet
  <2>4. tried[Order[i]] = 0 /\ faults = 0 /\ started = FALSE
    BY <2>1, Numbers DEF Init
  <2>5. ~Pending
    BY <1>1 DEF Pending, Starting
  <2> QED  BY <2>3, <2>4, <2>5 DEF BoundAt, One
<1> QED  BY <1>3, <1>4 DEF ChainInv

LEMMA StepChain == ASSUME IInv, ChainInv, [Next]_vars PROVE ChainInv'
<1>1. CASE UNCHANGED vars
  <2>1. Quiet /\ worker' = worker /\ tried' = tried /\ faults' = faults
    BY <1>1 DEF vars, Quiet, NewsFrom
  <2>2. faults \in Nat
    BY DEF IInv, TypeOK
  <2> QED  BY <2>1, <2>2, QuietChain
<1>2. ASSUME NEW c \in Calls, CallStep(c) PROVE ChainInv'
  BY <1>2, CallStepChain
<1>3. ASSUME NEW w \in Workers, SweepStep(w) PROVE ChainInv'
  BY <1>3, TakeChain, ListChain, MailOneChain, QueueNextChain, DeleteChain DEF SweepStep
<1>4. ASSUME NEW w \in Workers, NEW b \in BOOLEAN, Stops(w, b) PROVE ChainInv'
  BY <1>4, StopsChain
<1>5. ASSUME NEW e \in Emails, Unsubscribe(e) PROVE ChainInv'
  BY <1>5, UnsubscribeIsQuiet, QuietChain
<1>6. ASSUME NEW p \in Positions, DeliveredTwice(p) PROVE ChainInv'
  BY <1>6, DuplicateChain
<1> QED  BY <1>1, <1>2, <1>3, <1>4, <1>5, <1>6 DEF Next

\* An address is mailed the newsletter once, and once more at most for every
\* call that failed and every message delivered twice: the page that the bulk
\* sender takes is queued again only when it stops, and it queues the next page
\* once (the bulk sender's main.rs).
THEOREM FewCopies == Spec => []CopiesBounded
<1>1. IInv /\ ChainInv /\ [Next]_vars => ChainInv'
  BY StepChain
<1>2. IInv /\ ChainInv => CopiesBounded
  <2> SUFFICES ASSUME IInv, ChainInv, NEW e \in Emails PROVE tried[e] <= 1 + faults
    BY DEF CopiesBounded
  <2>1. faults \in Nat
    BY DEF IInv, TypeOK
  <2>2. ASSUME NEW i \in DOMAIN Order, Order[i] = e PROVE tried[e] <= 1 + faults
    <3>1. /\ Cardinality(Tokens(queue, worker, i)) \in Nat /\ tried[e] \in Nat
          /\ Cardinality(Tokens(queue, worker, i)) + tried[e] + One(Pending) <= One(started) + faults
      BY <2>2, Numbers DEF ChainInv, BoundAt
    <3>2. One(Pending) \in Nat /\ One(started) \in Nat /\ One(started) <= 1
      BY DEF One
    <3> QED  BY <2>1, <3>1, <3>2
  <2>3. CASE \A i \in DOMAIN Order : Order[i] # e
    BY <2>1, <2>3 DEF ChainInv, OthersUntried
  <2> QED  BY <2>2, <2>3
<1> QED  BY InitChain, <1>1, <1>2, Invariance, PTL DEF Spec
==============================================================================
