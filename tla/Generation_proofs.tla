-------------------------- MODULE Generation_proofs --------------------------
(***************************************************************************)
(* Proofs about module Generation, for every number of workers, retries,   *)
(* deletes, reads and faults: the shape of the state, that an unfinished   *)
(* job always has a message left in the queue, and that a deleted job does *)
(* not come back; and, for one worker, the moves of the status and that    *)
(* the row and the bucket agree.                                           *)
(*                                                                         *)
(* UnfinishedHasMessage is not inductive: it does not say why the last     *)
(* message is not about to be deleted.  The invariant names one message,   *)
(* safe, whose holders have not come to the point where the job is         *)
(* finished.  A retry makes a new safe message because it holds the row    *)
(* from before it sends the message until it commits, so a worker that     *)
(* receives the message early cannot get past its claim.                   *)
(***************************************************************************)
EXTENDS Generation, FiniteSetTheorems, TLAPS

(* The retry that holds the row is the one between its SELECT FOR UPDATE   *)
(* and its COMMIT, and the job it holds has failed.                        *)
LockInv ==
  /\ \A r \in Retries : pc[r] \in {"send", "mark", "commit"} <=> lock = r
  /\ lock # NoOne => status = "Failed"

(* Nothing has happened before the row exists. *)
FreshInv ==
  pc[Creator] = "insert" =>
    /\ status = "none" /\ queue = {}
    /\ \A w \in Workers : holds[w] = NoOne

(* A delete that is about to flag the row and whose snapshot is current.   *)
SnapshotInv ==
  \A d \in Deletes : pc[d] = "flagRow" /\ d \notin stale => status = "Waiting"

HoldsInv == \A w \in Workers : pc[w] = "idle" <=> holds[w] = NoOne

(* The message of a retry, before it is sent and until the retry commits.  *)
RetryInv ==
  \A r \in Retries :
    /\ pc[r] \in {"idle", "send"} => r \notin queue /\ \A w \in Workers : holds[w] # r
    /\ pc[r] \in {"mark", "commit"} =>
         /\ ~DeletesOnReturn => r \in queue
         /\ \A w \in Workers : holds[w] = r => pc[w] \in {"claim", "select"}

(* Message m is queued, and whoever holds it has not finished the job.     *)
Busy == {"claim", "select", "populate", "put", "finish", "flag"}
Safe(m) == m \in queue /\ \A w \in Workers : holds[w] = m => pc[w] \in Busy

(* No message was ever sent for the job. *)
Untouched ==
  /\ status = "Waiting" /\ pc[Creator] # "ok" /\ queue = {}
  /\ \A w \in Workers : holds[w] = NoOne

SafeInv ==
  ~DeletesOnReturn /\ status \in {"Waiting", "Working"} => Untouched \/ \E m \in queue : Safe(m)

IInv == TypeOK /\ LockInv /\ FreshInv /\ SnapshotInv /\ HoldsInv /\ RetryInv /\ SafeInv
-----------------------------------------------------------------------------
(* Who is who: no process plays two parts. *)
LEMMA Parts ==
  /\ Creator \in Procs /\ Workers \subseteq Procs /\ Retries \subseteq Procs
  /\ Deletes \subseteq Procs /\ Gets \subseteq Procs
  /\ NoOne \notin Workers \cup Retries \cup {Creator}
  /\ Creator \notin Workers \cup Retries \cup Deletes \cup Gets
  /\ Workers \cap (Retries \cup Deletes \cup Gets) = {}
  /\ Retries \cap (Deletes \cup Gets) = {}
  /\ Deletes \cap Gets = {}
  BY ProcsAssumption DEF Procs, Requests

(* The calls are names, and a process that goes on keeps pc well typed. *)
LEMMA GotoType ==
  ASSUME pc \in [Procs -> Calls], NEW p \in Procs, NEW from, NEW to \in Calls,
         Goto(p, from, to)
  PROVE  pc' \in [Procs -> Calls]
  BY DEF Goto

(* TypeOK is inductive. *)
LEMMA TypeOKInit == Init => TypeOK
<1> SUFFICES ASSUME Init PROVE TypeOK
  OBVIOUS
<1>1. finished \in BOOLEAN /\ (status = "Success" => finished) /\ (status = "none" => ~finished)
  BY Zenon DEF Init
<1>2. pc \in [Procs -> Calls] /\ holds \in [Workers -> {Creator, NoOne} \cup Retries]
  BY DEF Init, Calls
<1> QED
  BY <1>1, <1>2 DEF Init, TypeOK, Statuses

LEMMA TypeOKNext == TypeOK /\ [Next]_vars => TypeOK'
<1> USE Parts, FaultsAssumption
      DEF TypeOK, Statuses, Final, Goto, Continue, Return, Answer, Answers,
          Effect, Fault, Set, Update, row
<1> SUFFICES ASSUME TypeOK, [Next]_vars PROVE TypeOK'
  OBVIOUS
<1>1. CASE Create
  <2>1. CASE CreateRow
    <3>1. finished' \in BOOLEAN /\ (status' = "Success" => finished')
                            /\ (status' = "none" => ~finished')
      BY <2>1, Zenon DEF CreateRow
    <3>2. pc' \in [Procs -> Calls] /\ status' \in Statuses /\ stale' \subseteq Workers \cup Deletes
      BY <2>1 DEF CreateRow, Calls
    <3> QED
      BY <2>1, <3>1, <3>2 DEF CreateRow
  <2>2. CASE CreateKey
    BY <2>2 DEF CreateKey, Calls
  <2>3. CASE CreateMessage
    BY <2>3 DEF CreateMessage, Calls
  <2>4. CASE DropKey
    BY <2>4 DEF DropKey, Calls
  <2> QED
    BY <1>1, <2>1, <2>2, <2>3, <2>4 DEF Create
<1>2. ASSUME NEW w \in Workers, Work(w) \/ WorkerCrash(w) PROVE TypeOK'
  <2>1. CASE Receive(w)
    BY <2>1 DEF Receive, Calls
  <2>2. CASE Begin(w)
    BY <2>2 DEF Begin, Calls
  <2>3. CASE Claim(w)
    BY <2>3 DEF Claim, Calls
  <2>4. CASE ClaimConflicts(w)
    BY <2>4 DEF ClaimConflicts, Calls
  <2>5. CASE ClaimFails(w)
    BY <2>5 DEF ClaimFails, Calls
  <2>6. CASE Populate(w)
    BY <2>6 DEF Populate, Calls
  <2>7. CASE PutObject(w)
    BY <2>7 DEF PutObject, Calls
  <2>8. CASE Finish(w)
    <3>1. finished' \in BOOLEAN /\ (status' = "Success" => finished')
                            /\ (status' = "none" => ~finished')
      BY <2>8, Zenon DEF Finish
    <3>2. pc' \in [Procs -> Calls] /\ status' \in Statuses /\ stale' \subseteq Workers \cup Deletes
      BY <2>8 DEF Finish, Calls
    <3> QED
      BY <2>8, <3>1, <3>2 DEF Finish
  <2>9. CASE Tell(w)
    BY <2>9 DEF Tell, Calls
  <2>10. CASE Flag(w)
    BY <2>10 DEF Flag, Calls
  <2>11. CASE TellFailed(w)
    BY <2>11 DEF TellFailed, Calls
  <2>12. CASE Ack(w)
    BY <2>12 DEF Ack, Calls
  <2>13. CASE WorkerCrash(w)
    BY <2>13 DEF WorkerCrash, Calls
  <2> QED
    BY <1>2, <2>1, <2>2, <2>3, <2>4, <2>5, <2>6, <2>7, <2>8, <2>9, <2>10, <2>11, <2>12, <2>13 DEF Work
<1>3. ASSUME NEW r \in Retries, Retry(r) \/ RetryCrash(r) PROVE TypeOK'
  <2>1. CASE RetryBegin(r)
    BY <2>1 DEF RetryBegin, Calls
  <2>2. CASE RetrySend(r)
    BY <2>2 DEF RetrySend, Calls
  <2>3. CASE RetryKey(r)
    BY <2>3 DEF RetryKey, Calls
  <2>4. CASE RetryCommit(r)
    BY <2>4 DEF RetryCommit, Calls
  <2>5. CASE RetryCrash(r)
    BY <2>5 DEF RetryCrash, Calls
  <2> QED
    BY <1>3, <2>1, <2>2, <2>3, <2>4, <2>5 DEF Retry
<1>4. ASSUME NEW d \in Deletes, Delete(d) \/ DeleteCrash(d) PROVE TypeOK'
  <2>1. CASE DeleteRead(d)
    BY <2>1 DEF DeleteRead, Calls
  <2>2. CASE DeleteFlag(d)
    BY <2>2 DEF DeleteFlag, Calls
  <2>3. CASE DeleteObject(d)
    BY <2>3 DEF DeleteObject, Calls
  <2>4. CASE DeleteRow(d)
    BY <2>4 DEF DeleteRow, Calls
  <2>5. CASE DeleteConflicts(d)
    BY <2>5 DEF DeleteConflicts, Calls
  <2>6. CASE DeleteKey(d)
    BY <2>6 DEF DeleteKey, Calls
  <2>7. CASE DeleteCrash(d)
    BY <2>7 DEF DeleteCrash, Calls
  <2> QED
    BY <1>4, <2>1, <2>2, <2>3, <2>4, <2>5, <2>6, <2>7 DEF Delete
<1>5. ASSUME NEW g \in Gets, Get(g) PROVE TypeOK'
  BY <1>5 DEF Get, GetKey, GetRow, GetObject, Calls
<1>6. CASE KeyExpires
  BY <1>6 DEF KeyExpires
<1>7. CASE UNCHANGED vars
  BY <1>7 DEF vars
<1> QED
  BY <1>1, <1>2, <1>3, <1>4, <1>5, <1>6, <1>7 DEF Next, Crash, Stop

(* Only the holder moves its lock, and nobody writes a row that is locked. *)
LEMMA LockNext == TypeOK /\ LockInv /\ FreshInv /\ [Next]_vars => LockInv'
<1> USE Parts DEF TypeOK, LockInv, FreshInv, Goto, Continue, Return, Set, Update, row, Effect, Answers
<1> SUFFICES ASSUME TypeOK, LockInv, FreshInv, [Next]_vars PROVE LockInv'
  OBVIOUS
<1>1. CASE Create
  <2>1. CASE CreateRow
    BY <2>1 DEF CreateRow
  <2>2. CASE CreateKey
    BY <2>2 DEF CreateKey
  <2>3. CASE CreateMessage
    BY <2>3 DEF CreateMessage
  <2>4. CASE DropKey
    BY <2>4 DEF DropKey
  <2> QED
    BY <1>1, <2>1, <2>2, <2>3, <2>4 DEF Create
<1>2. ASSUME NEW w \in Workers, Work(w) \/ WorkerCrash(w) PROVE LockInv'
  <2>1. CASE Receive(w)
    BY <2>1 DEF Receive
  <2>2. CASE Begin(w)
    BY <2>2 DEF Begin
  <2>3. CASE Claim(w)
    BY <2>3 DEF Claim
  <2>4. CASE ClaimConflicts(w)
    BY <2>4 DEF ClaimConflicts
  <2>5. CASE ClaimFails(w)
    BY <2>5 DEF ClaimFails
  <2>6. CASE Populate(w)
    BY <2>6 DEF Populate
  <2>7. CASE PutObject(w)
    BY <2>7 DEF PutObject
  <2>8. CASE Finish(w)
    BY <2>8 DEF Finish
  <2>9. CASE Tell(w)
    BY <2>9 DEF Tell
  <2>10. CASE Flag(w)
    BY <2>10 DEF Flag
  <2>11. CASE TellFailed(w)
    BY <2>11 DEF TellFailed
  <2>12. CASE Ack(w)
    BY <2>12 DEF Ack
  <2>13. CASE WorkerCrash(w)
    BY <2>13 DEF WorkerCrash
  <2> QED
    BY <1>2, <2>1, <2>2, <2>3, <2>4, <2>5, <2>6, <2>7, <2>8, <2>9, <2>10, <2>11, <2>12, <2>13 DEF Work
<1>3. ASSUME NEW r \in Retries, Retry(r) \/ RetryCrash(r) PROVE LockInv'
  <2>1. CASE RetryBegin(r)
    BY <2>1 DEF RetryBegin
  <2>2. CASE RetrySend(r)
    BY <2>2 DEF RetrySend
  <2>3. CASE RetryKey(r)
    BY <2>3 DEF RetryKey
  <2>4. CASE RetryCommit(r)
    BY <2>4 DEF RetryCommit
  <2>5. CASE RetryCrash(r)
    BY <2>5 DEF RetryCrash
  <2> QED
    BY <1>3, <2>1, <2>2, <2>3, <2>4, <2>5 DEF Retry
<1>4. ASSUME NEW d \in Deletes, Delete(d) \/ DeleteCrash(d) PROVE LockInv'
  <2>1. CASE DeleteRead(d)
    BY <2>1 DEF DeleteRead
  <2>2. CASE DeleteFlag(d)
    BY <2>2 DEF DeleteFlag
  <2>3. CASE DeleteObject(d)
    BY <2>3 DEF DeleteObject
  <2>4. CASE DeleteRow(d)
    BY <2>4 DEF DeleteRow
  <2>5. CASE DeleteConflicts(d)
    BY <2>5 DEF DeleteConflicts
  <2>6. CASE DeleteKey(d)
    BY <2>6 DEF DeleteKey
  <2>7. CASE DeleteCrash(d)
    BY <2>7 DEF DeleteCrash
  <2> QED
    BY <1>4, <2>1, <2>2, <2>3, <2>4, <2>5, <2>6, <2>7 DEF Delete
<1>5. ASSUME NEW g \in Gets, Get(g) PROVE LockInv'
  BY <1>5 DEF Get, GetKey, GetRow, GetObject
<1>6. CASE KeyExpires
  BY <1>6 DEF KeyExpires
<1>7. CASE UNCHANGED vars
  BY <1>7 DEF vars
<1> QED
  BY <1>1, <1>2, <1>3, <1>4, <1>5, <1>6, <1>7 DEF Next, Crash, Stop

(* Before the row exists there is nothing to receive, retry or delete. *)
LEMMA FreshNext == TypeOK /\ LockInv /\ FreshInv /\ SnapshotInv /\ [Next]_vars => FreshInv'
<1> USE Parts DEF TypeOK, LockInv, FreshInv, SnapshotInv, Goto, Continue, Return, Set, Update, row, Effect, Answers
<1> SUFFICES ASSUME TypeOK, LockInv, FreshInv, SnapshotInv, [Next]_vars PROVE FreshInv'
  OBVIOUS
<1>1. CASE Create
  <2>1. CASE CreateRow
    BY <2>1 DEF CreateRow
  <2>2. CASE CreateKey
    BY <2>2 DEF CreateKey
  <2>3. CASE CreateMessage
    BY <2>3 DEF CreateMessage
  <2>4. CASE DropKey
    BY <2>4 DEF DropKey
  <2> QED
    BY <1>1, <2>1, <2>2, <2>3, <2>4 DEF Create
<1>2. ASSUME NEW w \in Workers, Work(w) \/ WorkerCrash(w) PROVE FreshInv'
  <2>1. CASE Receive(w)
    BY <2>1 DEF Receive
  <2>2. CASE Begin(w)
    BY <2>2 DEF Begin
  <2>3. CASE Claim(w)
    BY <2>3 DEF Claim
  <2>4. CASE ClaimConflicts(w)
    BY <2>4 DEF ClaimConflicts
  <2>5. CASE ClaimFails(w)
    BY <2>5 DEF ClaimFails
  <2>6. CASE Populate(w)
    BY <2>6 DEF Populate
  <2>7. CASE PutObject(w)
    BY <2>7 DEF PutObject
  <2>8. CASE Finish(w)
    BY <2>8 DEF Finish
  <2>9. CASE Tell(w)
    BY <2>9 DEF Tell
  <2>10. CASE Flag(w)
    BY <2>10 DEF Flag
  <2>11. CASE TellFailed(w)
    BY <2>11 DEF TellFailed
  <2>12. CASE Ack(w)
    BY <2>12 DEF Ack
  <2>13. CASE WorkerCrash(w)
    BY <2>13 DEF WorkerCrash
  <2> QED
    BY <1>2, <2>1, <2>2, <2>3, <2>4, <2>5, <2>6, <2>7, <2>8, <2>9, <2>10, <2>11, <2>12, <2>13 DEF Work
<1>3. ASSUME NEW r \in Retries, Retry(r) \/ RetryCrash(r) PROVE FreshInv'
  <2>1. CASE RetryBegin(r)
    BY <2>1 DEF RetryBegin
  <2>2. CASE RetrySend(r)
    BY <2>2 DEF RetrySend
  <2>3. CASE RetryKey(r)
    BY <2>3 DEF RetryKey
  <2>4. CASE RetryCommit(r)
    BY <2>4 DEF RetryCommit
  <2>5. CASE RetryCrash(r)
    BY <2>5 DEF RetryCrash
  <2> QED
    BY <1>3, <2>1, <2>2, <2>3, <2>4, <2>5 DEF Retry
<1>4. ASSUME NEW d \in Deletes, Delete(d) \/ DeleteCrash(d) PROVE FreshInv'
  <2>1. CASE DeleteRead(d)
    BY <2>1 DEF DeleteRead
  <2>2. CASE DeleteFlag(d)
    BY <2>2 DEF DeleteFlag
  <2>3. CASE DeleteObject(d)
    BY <2>3 DEF DeleteObject
  <2>4. CASE DeleteRow(d)
    BY <2>4 DEF DeleteRow
  <2>5. CASE DeleteConflicts(d)
    BY <2>5 DEF DeleteConflicts
  <2>6. CASE DeleteKey(d)
    BY <2>6 DEF DeleteKey
  <2>7. CASE DeleteCrash(d)
    BY <2>7 DEF DeleteCrash
  <2> QED
    BY <1>4, <2>1, <2>2, <2>3, <2>4, <2>5, <2>6, <2>7 DEF Delete
<1>5. ASSUME NEW g \in Gets, Get(g) PROVE FreshInv'
  BY <1>5 DEF Get, GetKey, GetRow, GetObject
<1>6. CASE KeyExpires
  BY <1>6 DEF KeyExpires
<1>7. CASE UNCHANGED vars
  BY <1>7 DEF vars
<1> QED
  BY <1>1, <1>2, <1>3, <1>4, <1>5, <1>6, <1>7 DEF Next, Crash, Stop

(* Whoever changes the row puts every snapshot out of date. *)
LEMMA SnapshotNext == TypeOK /\ LockInv /\ SnapshotInv /\ [Next]_vars => SnapshotInv'
<1> USE Parts DEF TypeOK, LockInv, SnapshotInv, Goto, Continue, Return, Set, Update, row, Effect, Answers
<1> SUFFICES ASSUME TypeOK, LockInv, SnapshotInv, [Next]_vars PROVE SnapshotInv'
  OBVIOUS
<1>1. CASE Create
  <2>1. CASE CreateRow
    BY <2>1 DEF CreateRow
  <2>2. CASE CreateKey
    BY <2>2 DEF CreateKey
  <2>3. CASE CreateMessage
    BY <2>3 DEF CreateMessage
  <2>4. CASE DropKey
    BY <2>4 DEF DropKey
  <2> QED
    BY <1>1, <2>1, <2>2, <2>3, <2>4 DEF Create
<1>2. ASSUME NEW w \in Workers, Work(w) \/ WorkerCrash(w) PROVE SnapshotInv'
  <2>1. CASE Receive(w)
    BY <2>1 DEF Receive
  <2>2. CASE Begin(w)
    BY <2>2 DEF Begin
  <2>3. CASE Claim(w)
    BY <2>3 DEF Claim
  <2>4. CASE ClaimConflicts(w)
    BY <2>4 DEF ClaimConflicts
  <2>5. CASE ClaimFails(w)
    BY <2>5 DEF ClaimFails
  <2>6. CASE Populate(w)
    BY <2>6 DEF Populate
  <2>7. CASE PutObject(w)
    BY <2>7 DEF PutObject
  <2>8. CASE Finish(w)
    BY <2>8 DEF Finish
  <2>9. CASE Tell(w)
    BY <2>9 DEF Tell
  <2>10. CASE Flag(w)
    BY <2>10 DEF Flag
  <2>11. CASE TellFailed(w)
    BY <2>11 DEF TellFailed
  <2>12. CASE Ack(w)
    BY <2>12 DEF Ack
  <2>13. CASE WorkerCrash(w)
    BY <2>13 DEF WorkerCrash
  <2> QED
    BY <1>2, <2>1, <2>2, <2>3, <2>4, <2>5, <2>6, <2>7, <2>8, <2>9, <2>10, <2>11, <2>12, <2>13 DEF Work
<1>3. ASSUME NEW r \in Retries, Retry(r) \/ RetryCrash(r) PROVE SnapshotInv'
  <2>1. CASE RetryBegin(r)
    BY <2>1 DEF RetryBegin
  <2>2. CASE RetrySend(r)
    BY <2>2 DEF RetrySend
  <2>3. CASE RetryKey(r)
    BY <2>3 DEF RetryKey
  <2>4. CASE RetryCommit(r)
    BY <2>4 DEF RetryCommit
  <2>5. CASE RetryCrash(r)
    BY <2>5 DEF RetryCrash
  <2> QED
    BY <1>3, <2>1, <2>2, <2>3, <2>4, <2>5 DEF Retry
<1>4. ASSUME NEW d \in Deletes, Delete(d) \/ DeleteCrash(d) PROVE SnapshotInv'
  <2>1. CASE DeleteRead(d)
    BY <2>1 DEF DeleteRead
  <2>2. CASE DeleteFlag(d)
    BY <2>2 DEF DeleteFlag
  <2>3. CASE DeleteObject(d)
    BY <2>3 DEF DeleteObject
  <2>4. CASE DeleteRow(d)
    BY <2>4 DEF DeleteRow
  <2>5. CASE DeleteConflicts(d)
    BY <2>5 DEF DeleteConflicts
  <2>6. CASE DeleteKey(d)
    BY <2>6 DEF DeleteKey
  <2>7. CASE DeleteCrash(d)
    BY <2>7 DEF DeleteCrash
  <2> QED
    BY <1>4, <2>1, <2>2, <2>3, <2>4, <2>5, <2>6, <2>7 DEF Delete
<1>5. ASSUME NEW g \in Gets, Get(g) PROVE SnapshotInv'
  BY <1>5 DEF Get, GetKey, GetRow, GetObject
<1>6. CASE KeyExpires
  BY <1>6 DEF KeyExpires
<1>7. CASE UNCHANGED vars
  BY <1>7 DEF vars
<1> QED
  BY <1>1, <1>2, <1>3, <1>4, <1>5, <1>6, <1>7 DEF Next, Crash, Stop

(* A worker holds a message from Receive to Release. *)
LEMMA HoldsNext == TypeOK /\ HoldsInv /\ [Next]_vars => HoldsInv'
<1> USE Parts DEF TypeOK, HoldsInv, Calls, Goto, Continue, Return, Set, Update, row, Effect, Answers
<1> SUFFICES ASSUME TypeOK, HoldsInv, [Next]_vars PROVE HoldsInv'
  OBVIOUS
<1>1. CASE Create
  <2>1. CASE CreateRow
    BY <2>1 DEF CreateRow
  <2>2. CASE CreateKey
    BY <2>2 DEF CreateKey
  <2>3. CASE CreateMessage
    BY <2>3 DEF CreateMessage
  <2>4. CASE DropKey
    BY <2>4 DEF DropKey
  <2> QED
    BY <1>1, <2>1, <2>2, <2>3, <2>4 DEF Create
<1>2. ASSUME NEW w \in Workers, Work(w) \/ WorkerCrash(w) PROVE HoldsInv'
  <2>1. CASE Receive(w)
    BY <2>1 DEF Receive
  <2>2. CASE Begin(w)
    BY <2>2 DEF Begin
  <2>3. CASE Claim(w)
    BY <2>3 DEF Claim
  <2>4. CASE ClaimConflicts(w)
    BY <2>4 DEF ClaimConflicts
  <2>5. CASE ClaimFails(w)
    BY <2>5 DEF ClaimFails
  <2>6. CASE Populate(w)
    BY <2>6 DEF Populate
  <2>7. CASE PutObject(w)
    BY <2>7 DEF PutObject
  <2>8. CASE Finish(w)
    BY <2>8 DEF Finish
  <2>9. CASE Tell(w)
    BY <2>9 DEF Tell
  <2>10. CASE Flag(w)
    BY <2>10 DEF Flag
  <2>11. CASE TellFailed(w)
    BY <2>11 DEF TellFailed
  <2>12. CASE Ack(w)
    BY <2>12 DEF Ack
  <2>13. CASE WorkerCrash(w)
    BY <2>13 DEF WorkerCrash
  <2> QED
    BY <1>2, <2>1, <2>2, <2>3, <2>4, <2>5, <2>6, <2>7, <2>8, <2>9, <2>10, <2>11, <2>12, <2>13 DEF Work
<1>3. ASSUME NEW r \in Retries, Retry(r) \/ RetryCrash(r) PROVE HoldsInv'
  <2>1. CASE RetryBegin(r)
    BY <2>1 DEF RetryBegin
  <2>2. CASE RetrySend(r)
    BY <2>2 DEF RetrySend
  <2>3. CASE RetryKey(r)
    BY <2>3 DEF RetryKey
  <2>4. CASE RetryCommit(r)
    BY <2>4 DEF RetryCommit
  <2>5. CASE RetryCrash(r)
    BY <2>5 DEF RetryCrash
  <2> QED
    BY <1>3, <2>1, <2>2, <2>3, <2>4, <2>5 DEF Retry
<1>4. ASSUME NEW d \in Deletes, Delete(d) \/ DeleteCrash(d) PROVE HoldsInv'
  <2>1. CASE DeleteRead(d)
    BY <2>1 DEF DeleteRead
  <2>2. CASE DeleteFlag(d)
    BY <2>2 DEF DeleteFlag
  <2>3. CASE DeleteObject(d)
    BY <2>3 DEF DeleteObject
  <2>4. CASE DeleteRow(d)
    BY <2>4 DEF DeleteRow
  <2>5. CASE DeleteConflicts(d)
    BY <2>5 DEF DeleteConflicts
  <2>6. CASE DeleteKey(d)
    BY <2>6 DEF DeleteKey
  <2>7. CASE DeleteCrash(d)
    BY <2>7 DEF DeleteCrash
  <2> QED
    BY <1>4, <2>1, <2>2, <2>3, <2>4, <2>5, <2>6, <2>7 DEF Delete
<1>5. ASSUME NEW g \in Gets, Get(g) PROVE HoldsInv'
  BY <1>5 DEF Get, GetKey, GetRow, GetObject
<1>6. CASE KeyExpires
  BY <1>6 DEF KeyExpires
<1>7. CASE UNCHANGED vars
  BY <1>7 DEF vars
<1> QED
  BY <1>1, <1>2, <1>3, <1>4, <1>5, <1>6, <1>7 DEF Next, Crash, Stop

(* While a retry holds the row, a worker with its message stays at its claim. *)
LEMMA RetryNext == TypeOK /\ LockInv /\ HoldsInv /\ RetryInv /\ [Next]_vars => RetryInv'
<1> USE Parts DEF TypeOK, LockInv, HoldsInv, RetryInv, Goto, Continue, Return, Set, Update, row, Effect, Answers
<1> SUFFICES ASSUME TypeOK, LockInv, HoldsInv, RetryInv, [Next]_vars PROVE RetryInv'
  OBVIOUS
<1>1. CASE Create
  <2>1. CASE CreateRow
    BY <2>1 DEF CreateRow
  <2>2. CASE CreateKey
    BY <2>2 DEF CreateKey
  <2>3. CASE CreateMessage
    BY <2>3 DEF CreateMessage
  <2>4. CASE DropKey
    BY <2>4 DEF DropKey
  <2> QED
    BY <1>1, <2>1, <2>2, <2>3, <2>4 DEF Create
<1>2. ASSUME NEW w \in Workers, Work(w) \/ WorkerCrash(w) PROVE RetryInv'
  <2>1. CASE Receive(w)
    BY <2>1 DEF Receive
  <2>2. CASE Begin(w)
    BY <2>2 DEF Begin
  <2>3. CASE Claim(w)
    BY <2>3 DEF Claim
  <2>4. CASE ClaimConflicts(w)
    BY <2>4 DEF ClaimConflicts
  <2>5. CASE ClaimFails(w)
    BY <2>5 DEF ClaimFails
  <2>6. CASE Populate(w)
    BY <2>6 DEF Populate
  <2>7. CASE PutObject(w)
    BY <2>7 DEF PutObject
  <2>8. CASE Finish(w)
    BY <2>8 DEF Finish
  <2>9. CASE Tell(w)
    BY <2>9 DEF Tell
  <2>10. CASE Flag(w)
    BY <2>10 DEF Flag
  <2>11. CASE TellFailed(w)
    BY <2>11 DEF TellFailed
  <2>12. CASE Ack(w)
    BY <2>12 DEF Ack
  <2>13. CASE WorkerCrash(w)
    BY <2>13 DEF WorkerCrash
  <2> QED
    BY <1>2, <2>1, <2>2, <2>3, <2>4, <2>5, <2>6, <2>7, <2>8, <2>9, <2>10, <2>11, <2>12, <2>13 DEF Work
<1>3. ASSUME NEW r \in Retries, Retry(r) \/ RetryCrash(r) PROVE RetryInv'
  <2>1. CASE RetryBegin(r)
    BY <2>1 DEF RetryBegin
  <2>2. CASE RetrySend(r)
    BY <2>2 DEF RetrySend
  <2>3. CASE RetryKey(r)
    BY <2>3 DEF RetryKey
  <2>4. CASE RetryCommit(r)
    BY <2>4 DEF RetryCommit
  <2>5. CASE RetryCrash(r)
    BY <2>5 DEF RetryCrash
  <2> QED
    BY <1>3, <2>1, <2>2, <2>3, <2>4, <2>5 DEF Retry
<1>4. ASSUME NEW d \in Deletes, Delete(d) \/ DeleteCrash(d) PROVE RetryInv'
  <2>1. CASE DeleteRead(d)
    BY <2>1 DEF DeleteRead
  <2>2. CASE DeleteFlag(d)
    BY <2>2 DEF DeleteFlag
  <2>3. CASE DeleteObject(d)
    BY <2>3 DEF DeleteObject
  <2>4. CASE DeleteRow(d)
    BY <2>4 DEF DeleteRow
  <2>5. CASE DeleteConflicts(d)
    BY <2>5 DEF DeleteConflicts
  <2>6. CASE DeleteKey(d)
    BY <2>6 DEF DeleteKey
  <2>7. CASE DeleteCrash(d)
    BY <2>7 DEF DeleteCrash
  <2> QED
    BY <1>4, <2>1, <2>2, <2>3, <2>4, <2>5, <2>6, <2>7 DEF Delete
<1>5. ASSUME NEW g \in Gets, Get(g) PROVE RetryInv'
  BY <1>5 DEF Get, GetKey, GetRow, GetObject
<1>6. CASE KeyExpires
  BY <1>6 DEF KeyExpires
<1>7. CASE UNCHANGED vars
  BY <1>7 DEF vars
<1> QED
  BY <1>1, <1>2, <1>3, <1>4, <1>5, <1>6, <1>7 DEF Next, Crash, Stop

(* The safe message stays safe until the job is finished. *)
LEMMA SafeNext == TypeOK /\ LockInv /\ FreshInv /\ HoldsInv /\ RetryInv /\ SafeInv /\ [Next]_vars => SafeInv'
<1> USE Parts DEF TypeOK, LockInv, FreshInv, HoldsInv, RetryInv, SafeInv, Safe, Untouched, Busy, Goto, Continue, Return, Set, Update, row, Effect, Answers
<1> SUFFICES ASSUME TypeOK, LockInv, FreshInv, HoldsInv, RetryInv, SafeInv, [Next]_vars PROVE SafeInv'
  OBVIOUS
<1>1. CASE Create
  <2>1. CASE CreateRow
    BY <2>1 DEF CreateRow
  <2>2. CASE CreateKey
    BY <2>2 DEF CreateKey
  <2>3. CASE CreateMessage
    BY <2>3 DEF CreateMessage
  <2>4. CASE DropKey
    BY <2>4 DEF DropKey
  <2> QED
    BY <1>1, <2>1, <2>2, <2>3, <2>4 DEF Create
<1>2. ASSUME NEW w \in Workers, Work(w) \/ WorkerCrash(w) PROVE SafeInv'
  <2>1. CASE Receive(w)
    BY <2>1 DEF Receive
  <2>2. CASE Begin(w)
    BY <2>2 DEF Begin
  <2>3. CASE Claim(w)
    <3> SUFFICES ASSUME ~DeletesOnReturn, status' \in {"Waiting", "Working"}
                 PROVE  \E m \in queue' : Safe(m)'
      OBVIOUS
    <3>1. pc[w] = "select" /\ queue' = queue
      BY <2>3 DEF Claim
    <3>2. status \in {"Waiting", "Working"}
      BY <2>3 DEF Claim, Final
    <3>3. PICK m \in queue : Safe(m)
      BY <3>1, <3>2
    <3>4. Safe(m)'
      BY <2>3, <3>1, <3>2, <3>3 DEF Claim, Final
    <3> QED
      BY <3>1, <3>4
  <2>4. CASE ClaimConflicts(w)
    BY <2>4 DEF ClaimConflicts
  <2>5. CASE ClaimFails(w)
    BY <2>5 DEF ClaimFails
  <2>6. CASE Populate(w)
    BY <2>6 DEF Populate
  <2>7. CASE PutObject(w)
    BY <2>7 DEF PutObject
  <2>8. CASE Finish(w)
    BY <2>8 DEF Finish
  <2>9. CASE Tell(w)
    BY <2>9 DEF Tell
  <2>10. CASE Flag(w)
    BY <2>10 DEF Flag
  <2>11. CASE TellFailed(w)
    BY <2>11 DEF TellFailed
  <2>12. CASE Ack(w)
    BY <2>12 DEF Ack
  <2>13. CASE WorkerCrash(w)
    BY <2>13 DEF WorkerCrash
  <2> QED
    BY <1>2, <2>1, <2>2, <2>3, <2>4, <2>5, <2>6, <2>7, <2>8, <2>9, <2>10, <2>11, <2>12, <2>13 DEF Work
<1>3. ASSUME NEW r \in Retries, Retry(r) \/ RetryCrash(r) PROVE SafeInv'
  <2>1. CASE RetryBegin(r)
    BY <2>1 DEF RetryBegin
  <2>2. CASE RetrySend(r)
    BY <2>2 DEF RetrySend
  <2>3. CASE RetryKey(r)
    BY <2>3 DEF RetryKey
  <2>4. CASE RetryCommit(r)
    BY <2>4 DEF RetryCommit
  <2>5. CASE RetryCrash(r)
    BY <2>5 DEF RetryCrash
  <2> QED
    BY <1>3, <2>1, <2>2, <2>3, <2>4, <2>5 DEF Retry
<1>4. ASSUME NEW d \in Deletes, Delete(d) \/ DeleteCrash(d) PROVE SafeInv'
  <2>1. CASE DeleteRead(d)
    BY <2>1 DEF DeleteRead
  <2>2. CASE DeleteFlag(d)
    BY <2>2 DEF DeleteFlag
  <2>3. CASE DeleteObject(d)
    BY <2>3 DEF DeleteObject
  <2>4. CASE DeleteRow(d)
    BY <2>4 DEF DeleteRow
  <2>5. CASE DeleteConflicts(d)
    BY <2>5 DEF DeleteConflicts
  <2>6. CASE DeleteKey(d)
    BY <2>6 DEF DeleteKey
  <2>7. CASE DeleteCrash(d)
    BY <2>7 DEF DeleteCrash
  <2> QED
    BY <1>4, <2>1, <2>2, <2>3, <2>4, <2>5, <2>6, <2>7 DEF Delete
<1>5. ASSUME NEW g \in Gets, Get(g) PROVE SafeInv'
  BY <1>5 DEF Get, GetKey, GetRow, GetObject
<1>6. CASE KeyExpires
  BY <1>6 DEF KeyExpires
<1>7. CASE UNCHANGED vars
  BY <1>7 DEF vars
<1> QED
  BY <1>1, <1>2, <1>3, <1>4, <1>5, <1>6, <1>7 DEF Next, Crash, Stop

-----------------------------------------------------------------------------
(* The invariant, and what follows from it. *)
LEMMA IInvInit == Init => IInv
<1> SUFFICES ASSUME Init PROVE IInv
  OBVIOUS
<1>1. TypeOK
  BY TypeOKInit
<1>2. status = "none" /\ lock = NoOne /\ queue = {}
  BY Zenon DEF Init
<1>3. /\ \A w \in Workers : pc[w] = "idle" /\ holds[w] = NoOne
      /\ \A p \in Retries \cup Deletes : pc[p] = "idle"
  BY Parts DEF Init
<1>4. LockInv /\ SnapshotInv /\ HoldsInv
  BY <1>2, <1>3, Parts DEF LockInv, SnapshotInv, HoldsInv
<1>5. FreshInv /\ RetryInv /\ SafeInv
  BY <1>2, <1>3, Parts DEF FreshInv, RetryInv, SafeInv
<1> QED
  BY <1>1, <1>4, <1>5 DEF IInv

LEMMA IInvNext == IInv /\ [Next]_vars => IInv'
  BY TypeOKNext, LockNext, FreshNext, SnapshotNext, HoldsNext, RetryNext, SafeNext
     DEF IInv

THEOREM Invariance == Spec => []IInv
<1>1. IInv /\ [Next]_vars => IInv'
  BY IInvNext
<1> QED
  BY IInvInit, <1>1, PTL DEF Spec

(* Every variable keeps the shape the code gives it, and a job that is     *)
(* marked Success has its finishedon, whoever wrote the row last.          *)
THEOREM TypeCorrect == Spec => []TypeOK
<1>1. IInv => TypeOK
  BY DEF IInv
<1> QED
  BY Invariance, <1>1, PTL

(* If a message stays until it is deleted: with any number of overlapping  *)
(* deliveries, retries, deletes, failed calls, lost replies and crashes,   *)
(* an unfinished job has a message left.                                   *)
THEOREM NoJobIsLost ==
  ASSUME ~DeletesOnReturn
  PROVE  Spec => []UnfinishedHasMessage
<1>1. IInv => UnfinishedHasMessage
  BY DEF IInv, SafeInv, Untouched, UnfinishedHasMessage
<1> QED
  BY Invariance, <1>1, PTL

(* The row of a deleted job is never written again: of the requests that   *)
(* could still write it, the retry and the delete hold or have read it,    *)
(* and the UPDATEs of a late worker find no row.                           *)
THEOREM DeletedForGood == Spec => DeletedStaysDeleted
<1> DEFINE Stays == status = "none" /\ pc[Creator] # "insert" => status' = "none"
<1>1. ASSUME IInv, [Next]_vars PROVE Stays
  <2> USE <1>1, Parts DEF IInv, TypeOK, LockInv, SnapshotInv, Goto, Set, Update, row
  <2> SUFFICES ASSUME status = "none", pc[Creator] # "insert" PROVE status' = "none"
    OBVIOUS
  <2>1. CASE Create
    BY <2>1 DEF Create, CreateRow, CreateKey, CreateMessage, DropKey
  <2>2. ASSUME NEW w \in Workers, Work(w) \/ WorkerCrash(w) PROVE status' = "none"
    <3>1. CASE Claim(w)
      BY <3>1 DEF Claim, Final
    <3>2. CASE ClaimFails(w) \/ Finish(w) \/ Flag(w)
      BY <3>2 DEF ClaimFails, Finish, Flag
    <3> QED
      BY <2>2, <3>1, <3>2 DEF Work, Receive, Begin, ClaimConflicts, Populate, PutObject,
         Tell, TellFailed, Ack, WorkerCrash
  <2>3. ASSUME NEW r \in Retries, Retry(r) \/ RetryCrash(r) PROVE status' = "none"
    <3>1. ~RetryCommit(r)
      BY DEF RetryCommit
    <3> QED
      BY <2>3, <3>1 DEF Retry, RetryBegin, RetrySend, RetryKey, RetryCrash
  <2>4. ASSUME NEW d \in Deletes, Delete(d) \/ DeleteCrash(d) PROVE status' = "none"
    <3>1. ~DeleteFlag(d)
      BY DEF DeleteFlag
    <3>2. CASE DeleteRead(d)
      BY <3>2 DEF DeleteRead
    <3> QED
      BY <2>4, <3>1, <3>2 DEF Delete, DeleteObject, DeleteRow, DeleteConflicts, DeleteKey,
         DeleteCrash
  <2>5. ASSUME NEW g \in Gets, Get(g) PROVE status' = "none"
    BY <2>5 DEF Get, GetKey, GetRow, GetObject
  <2>6. CASE KeyExpires
    BY <2>6 DEF KeyExpires
  <2>7. CASE UNCHANGED vars
    BY <2>7 DEF vars
  <2> QED
    BY <2>1, <2>2, <2>3, <2>4, <2>5, <2>6, <2>7 DEF Next, Crash, Stop
<1>2. IInv /\ [Next]_vars => [Stays]_vars
  BY <1>1
<1> QED
  BY Invariance, <1>2, PTL DEF Spec, DeletedStaysDeleted
-----------------------------------------------------------------------------
(***************************************************************************)
(* The only worker.  StatusMoves and RowMatchesObject are about deliveries *)
(* that do not overlap: nobody but the worker moves a job that is Working, *)
(* and a delete that may still write the row read it as it is now.         *)
(***************************************************************************)
ClaimedInv ==
  \A w \in Workers : Workers = {w} =>
    /\ pc[w] \in {"populate", "put", "finish"} => status = "Working"
    /\ pc[w] = "tell" => status \in {"Success", "none"}
    /\ pc[w] = "flag" => status \in {"Working", "Success", "none"}

DropInv ==
  \A d \in Deletes : pc[d] \in {"dropObject", "dropRow"} /\ d \notin stale => status \in Final

(* Without faults the object is there for a successful job and from put to *)
(* finish, until a delete whose snapshot is current has taken it; that     *)
(* delete then takes the row.                                              *)
Taken == \E d \in Deletes : pc[d] = "dropRow" /\ d \notin stale
ObjectInv(w) ==
  /\ pc[w] = "flag" => status = "Working"
  /\ pc[w] = "finish" => object
  /\ object => status = "Success" \/ pc[w] = "finish"
  /\ status = "Success" => object \/ Taken
  /\ Taken => ~object
  /\ \A d \in Deletes :
       pc[d] = "dropObject" =>
         \/ status = "Success" /\ d \notin stale
         \/ status = "none" /\ pc[Creator] # "insert"
MatchInv == faults = 0 => \A w \in Workers : Workers = {w} => ObjectInv(w)

(* A job that is Working is moved by the worker that claimed it. *)
LEMMA ClaimedNext ==
  TypeOK /\ LockInv /\ FreshInv /\ SnapshotInv /\ HoldsInv /\ DropInv /\ ClaimedInv /\ [Next]_vars => ClaimedInv'
<1> USE Parts DEF TypeOK, LockInv, FreshInv, SnapshotInv, HoldsInv, Goto, Continue, Return, Set, Update, row, Effect, Answers, Final, ClaimedInv, DropInv
<1> SUFFICES ASSUME TypeOK, LockInv, FreshInv, SnapshotInv, HoldsInv, DropInv, ClaimedInv, [Next]_vars PROVE ClaimedInv'
  OBVIOUS
<1>1. CASE Create
  <2>1. CASE CreateRow
    BY <2>1 DEF CreateRow
  <2>2. CASE CreateKey
    BY <2>2 DEF CreateKey
  <2>3. CASE CreateMessage
    BY <2>3 DEF CreateMessage
  <2>4. CASE DropKey
    BY <2>4 DEF DropKey
  <2> QED
    BY <1>1, <2>1, <2>2, <2>3, <2>4 DEF Create
<1>2. ASSUME NEW w \in Workers, Work(w) \/ WorkerCrash(w) PROVE ClaimedInv'
  <2>1. CASE Receive(w)
    BY <2>1 DEF Receive
  <2>2. CASE Begin(w)
    BY <2>2 DEF Begin
  <2>3. CASE Claim(w)
    BY <2>3 DEF Claim
  <2>4. CASE ClaimConflicts(w)
    BY <2>4 DEF ClaimConflicts
  <2>5. CASE ClaimFails(w)
    BY <2>5 DEF ClaimFails
  <2>6. CASE Populate(w)
    BY <2>6 DEF Populate
  <2>7. CASE PutObject(w)
    BY <2>7 DEF PutObject
  <2>8. CASE Finish(w)
    BY <2>8 DEF Finish
  <2>9. CASE Tell(w)
    BY <2>9 DEF Tell
  <2>10. CASE Flag(w)
    BY <2>10 DEF Flag
  <2>11. CASE TellFailed(w)
    BY <2>11 DEF TellFailed
  <2>12. CASE Ack(w)
    BY <2>12 DEF Ack
  <2>13. CASE WorkerCrash(w)
    BY <2>13 DEF WorkerCrash
  <2> QED
    BY <1>2, <2>1, <2>2, <2>3, <2>4, <2>5, <2>6, <2>7, <2>8, <2>9, <2>10, <2>11, <2>12, <2>13 DEF Work
<1>3. ASSUME NEW r \in Retries, Retry(r) \/ RetryCrash(r) PROVE ClaimedInv'
  <2>1. CASE RetryBegin(r)
    BY <2>1 DEF RetryBegin
  <2>2. CASE RetrySend(r)
    BY <2>2 DEF RetrySend
  <2>3. CASE RetryKey(r)
    BY <2>3 DEF RetryKey
  <2>4. CASE RetryCommit(r)
    BY <2>4 DEF RetryCommit
  <2>5. CASE RetryCrash(r)
    BY <2>5 DEF RetryCrash
  <2> QED
    BY <1>3, <2>1, <2>2, <2>3, <2>4, <2>5 DEF Retry
<1>4. ASSUME NEW d \in Deletes, Delete(d) \/ DeleteCrash(d) PROVE ClaimedInv'
  <2>1. CASE DeleteRead(d)
    BY <2>1 DEF DeleteRead
  <2>2. CASE DeleteFlag(d)
    BY <2>2 DEF DeleteFlag
  <2>3. CASE DeleteObject(d)
    BY <2>3 DEF DeleteObject
  <2>4. CASE DeleteRow(d)
    BY <2>4 DEF DeleteRow
  <2>5. CASE DeleteConflicts(d)
    BY <2>5 DEF DeleteConflicts
  <2>6. CASE DeleteKey(d)
    BY <2>6 DEF DeleteKey
  <2>7. CASE DeleteCrash(d)
    BY <2>7 DEF DeleteCrash
  <2> QED
    BY <1>4, <2>1, <2>2, <2>3, <2>4, <2>5, <2>6, <2>7 DEF Delete
<1>5. ASSUME NEW g \in Gets, Get(g) PROVE ClaimedInv'
  BY <1>5 DEF Get, GetKey, GetRow, GetObject
<1>6. CASE KeyExpires
  BY <1>6 DEF KeyExpires
<1>7. CASE UNCHANGED vars
  BY <1>7 DEF vars
<1> QED
  BY <1>1, <1>2, <1>3, <1>4, <1>5, <1>6, <1>7 DEF Next, Crash, Stop

(* A current snapshot of a finished job is of a finished job. *)
LEMMA DropNext ==
  TypeOK /\ LockInv /\ FreshInv /\ SnapshotInv /\ HoldsInv /\ DropInv /\ [Next]_vars => DropInv'
<1> USE Parts DEF TypeOK, LockInv, FreshInv, SnapshotInv, HoldsInv, Goto, Continue, Return, Set, Update, row, Effect, Answers, Final, DropInv
<1> SUFFICES ASSUME TypeOK, LockInv, FreshInv, SnapshotInv, HoldsInv, DropInv, [Next]_vars PROVE DropInv'
  OBVIOUS
<1>1. CASE Create
  <2>1. CASE CreateRow
    BY <2>1 DEF CreateRow
  <2>2. CASE CreateKey
    BY <2>2 DEF CreateKey
  <2>3. CASE CreateMessage
    BY <2>3 DEF CreateMessage
  <2>4. CASE DropKey
    BY <2>4 DEF DropKey
  <2> QED
    BY <1>1, <2>1, <2>2, <2>3, <2>4 DEF Create
<1>2. ASSUME NEW w \in Workers, Work(w) \/ WorkerCrash(w) PROVE DropInv'
  <2>1. CASE Receive(w)
    BY <2>1 DEF Receive
  <2>2. CASE Begin(w)
    BY <2>2 DEF Begin
  <2>3. CASE Claim(w)
    BY <2>3 DEF Claim
  <2>4. CASE ClaimConflicts(w)
    BY <2>4 DEF ClaimConflicts
  <2>5. CASE ClaimFails(w)
    BY <2>5 DEF ClaimFails
  <2>6. CASE Populate(w)
    BY <2>6 DEF Populate
  <2>7. CASE PutObject(w)
    BY <2>7 DEF PutObject
  <2>8. CASE Finish(w)
    BY <2>8 DEF Finish
  <2>9. CASE Tell(w)
    BY <2>9 DEF Tell
  <2>10. CASE Flag(w)
    BY <2>10 DEF Flag
  <2>11. CASE TellFailed(w)
    BY <2>11 DEF TellFailed
  <2>12. CASE Ack(w)
    BY <2>12 DEF Ack
  <2>13. CASE WorkerCrash(w)
    BY <2>13 DEF WorkerCrash
  <2> QED
    BY <1>2, <2>1, <2>2, <2>3, <2>4, <2>5, <2>6, <2>7, <2>8, <2>9, <2>10, <2>11, <2>12, <2>13 DEF Work
<1>3. ASSUME NEW r \in Retries, Retry(r) \/ RetryCrash(r) PROVE DropInv'
  <2>1. CASE RetryBegin(r)
    BY <2>1 DEF RetryBegin
  <2>2. CASE RetrySend(r)
    BY <2>2 DEF RetrySend
  <2>3. CASE RetryKey(r)
    BY <2>3 DEF RetryKey
  <2>4. CASE RetryCommit(r)
    BY <2>4 DEF RetryCommit
  <2>5. CASE RetryCrash(r)
    BY <2>5 DEF RetryCrash
  <2> QED
    BY <1>3, <2>1, <2>2, <2>3, <2>4, <2>5 DEF Retry
<1>4. ASSUME NEW d \in Deletes, Delete(d) \/ DeleteCrash(d) PROVE DropInv'
  <2>1. CASE DeleteRead(d)
    BY <2>1 DEF DeleteRead
  <2>2. CASE DeleteFlag(d)
    BY <2>2 DEF DeleteFlag
  <2>3. CASE DeleteObject(d)
    BY <2>3 DEF DeleteObject
  <2>4. CASE DeleteRow(d)
    BY <2>4 DEF DeleteRow
  <2>5. CASE DeleteConflicts(d)
    BY <2>5 DEF DeleteConflicts
  <2>6. CASE DeleteKey(d)
    BY <2>6 DEF DeleteKey
  <2>7. CASE DeleteCrash(d)
    BY <2>7 DEF DeleteCrash
  <2> QED
    BY <1>4, <2>1, <2>2, <2>3, <2>4, <2>5, <2>6, <2>7 DEF Delete
<1>5. ASSUME NEW g \in Gets, Get(g) PROVE DropInv'
  BY <1>5 DEF Get, GetKey, GetRow, GetObject
<1>6. CASE KeyExpires
  BY <1>6 DEF KeyExpires
<1>7. CASE UNCHANGED vars
  BY <1>7 DEF vars
<1> QED
  BY <1>1, <1>2, <1>3, <1>4, <1>5, <1>6, <1>7 DEF Next, Crash, Stop

(* The object follows the row. *)
LEMMA MatchNext ==
  TypeOK /\ LockInv /\ FreshInv /\ SnapshotInv /\ HoldsInv /\ DropInv /\ ClaimedInv /\ MatchInv /\ [Next]_vars => MatchInv'
<1> USE Parts DEF TypeOK, LockInv, FreshInv, SnapshotInv, HoldsInv, Goto, Continue, Return, Set, Update, row, Effect, Answers, Final, ClaimedInv, DropInv, MatchInv, ObjectInv, Taken, Answer, Fault
<1> SUFFICES ASSUME TypeOK, LockInv, FreshInv, SnapshotInv, HoldsInv, DropInv, ClaimedInv, MatchInv, [Next]_vars PROVE MatchInv'
  OBVIOUS
<1>1. CASE Create
  <2>1. CASE CreateRow
    BY <2>1 DEF CreateRow
  <2>2. CASE CreateKey
    BY <2>2 DEF CreateKey
  <2>3. CASE CreateMessage
    BY <2>3 DEF CreateMessage
  <2>4. CASE DropKey
    BY <2>4 DEF DropKey
  <2> QED
    BY <1>1, <2>1, <2>2, <2>3, <2>4 DEF Create
<1>2. ASSUME NEW w \in Workers, Work(w) \/ WorkerCrash(w) PROVE MatchInv'
  <2>1. CASE Receive(w)
    BY <2>1 DEF Receive
  <2>2. CASE Begin(w)
    BY <2>2 DEF Begin
  <2>3. CASE Claim(w)
    BY <2>3 DEF Claim
  <2>4. CASE ClaimConflicts(w)
    BY <2>4 DEF ClaimConflicts
  <2>5. CASE ClaimFails(w)
    BY <2>5 DEF ClaimFails
  <2>6. CASE Populate(w)
    BY <2>6 DEF Populate
  <2>7. CASE PutObject(w)
    <3>1. PICK a \in Answers :
            /\ Continue(w, "put", IF a = "done" THEN "finish" ELSE "flag")
            /\ object' = (object \/ Effect(a))
            /\ Answer(a)
      BY <2>7 DEF PutObject
    <3>2. Effect(a) => object'
      BY <3>1, Zenon
    <3>3. status' = status /\ stale' = stale
      BY <2>7 DEF PutObject
    <3>4. faults' = 0 => a = "done" /\ faults = 0
      BY <3>1
    <3> QED
      BY <3>1, <3>2, <3>3, <3>4
  <2>8. CASE Finish(w)
    BY <2>8 DEF Finish
  <2>9. CASE Tell(w)
    BY <2>9 DEF Tell
  <2>10. CASE Flag(w)
    BY <2>10 DEF Flag
  <2>11. CASE TellFailed(w)
    BY <2>11 DEF TellFailed
  <2>12. CASE Ack(w)
    BY <2>12 DEF Ack
  <2>13. CASE WorkerCrash(w)
    BY <2>13 DEF WorkerCrash
  <2> QED
    BY <1>2, <2>1, <2>2, <2>3, <2>4, <2>5, <2>6, <2>7, <2>8, <2>9, <2>10, <2>11, <2>12, <2>13 DEF Work
<1>3. ASSUME NEW r \in Retries, Retry(r) \/ RetryCrash(r) PROVE MatchInv'
  <2>1. CASE RetryBegin(r)
    BY <2>1 DEF RetryBegin
  <2>2. CASE RetrySend(r)
    BY <2>2 DEF RetrySend
  <2>3. CASE RetryKey(r)
    BY <2>3 DEF RetryKey
  <2>4. CASE RetryCommit(r)
    BY <2>4 DEF RetryCommit
  <2>5. CASE RetryCrash(r)
    BY <2>5 DEF RetryCrash
  <2> QED
    BY <1>3, <2>1, <2>2, <2>3, <2>4, <2>5 DEF Retry
<1>4. ASSUME NEW d \in Deletes, Delete(d) \/ DeleteCrash(d) PROVE MatchInv'
  <2>1. CASE DeleteRead(d)
    BY <2>1 DEF DeleteRead
  <2>2. CASE DeleteFlag(d)
    BY <2>2 DEF DeleteFlag
  <2>3. CASE DeleteObject(d)
    <3>1. PICK a \in Answers :
            /\ Goto(d, "dropObject", IF a = "done" THEN "dropRow" ELSE "error")
            /\ object' = (object /\ ~Effect(a))
            /\ Answer(a)
      BY <2>3 DEF DeleteObject
    <3>2. Effect(a) => ~object'
      BY <3>1, Zenon
    <3>3. status' = status /\ stale' = stale
      BY <2>3 DEF DeleteObject
    <3>4. faults' = 0 => a = "done" /\ faults = 0
      BY <3>1
    <3> QED
      BY <3>1, <3>2, <3>3, <3>4
  <2>4. CASE DeleteRow(d)
    BY <2>4 DEF DeleteRow
  <2>5. CASE DeleteConflicts(d)
    BY <2>5 DEF DeleteConflicts
  <2>6. CASE DeleteKey(d)
    BY <2>6 DEF DeleteKey
  <2>7. CASE DeleteCrash(d)
    BY <2>7 DEF DeleteCrash
  <2> QED
    BY <1>4, <2>1, <2>2, <2>3, <2>4, <2>5, <2>6, <2>7 DEF Delete
<1>5. ASSUME NEW g \in Gets, Get(g) PROVE MatchInv'
  BY <1>5 DEF Get, GetKey, GetRow, GetObject
<1>6. CASE KeyExpires
  BY <1>6 DEF KeyExpires
<1>7. CASE UNCHANGED vars
  BY <1>7 DEF vars
<1> QED
  BY <1>1, <1>2, <1>3, <1>4, <1>5, <1>6, <1>7 DEF Next, Crash, Stop

-----------------------------------------------------------------------------
AloneInv == IInv /\ ClaimedInv /\ DropInv /\ MatchInv

THEOREM AloneInvariance == Spec => []AloneInv
<1>1. Init => AloneInv
  <2> SUFFICES ASSUME Init PROVE AloneInv
    OBVIOUS
  <2>1. status = "none" /\ object = FALSE
    BY Zenon DEF Init
  <2>2. \A p \in Workers \cup Deletes : pc[p] = "idle"
    BY Parts DEF Init
  <2> QED
    BY IInvInit, <2>1, <2>2 DEF AloneInv, ClaimedInv, DropInv, MatchInv, ObjectInv, Taken
<1>2. AloneInv /\ [Next]_vars => AloneInv'
  BY IInvNext, ClaimedNext, DropNext, MatchNext DEF AloneInv, IInv
<1> QED
  BY <1>1, <1>2, PTL DEF Spec

LEMMA TheWorker ==
  ASSUME Cardinality(Workers) = 1 PROVE \E w \in Workers : Workers = {w}
  BY WorkersAssumption, FS_Singleton

(* With one delivery at a time, and whatever fails: between /generate, the *)
(* worker, retries and deletes the status makes only the documented moves. *)
THEOREM StatusMovesAsDocumented == Spec => StatusMoves
<1> DEFINE Moved == Cardinality(Workers) = 1 => status' = status \/ <<status, status'>> \in Moves
<1>1. ASSUME AloneInv, [Next]_vars PROVE Moved
  <2> SUFFICES ASSUME NEW v \in Workers, Workers = {v}, status' # status
               PROVE  <<status, status'>> \in Moves
    BY TheWorker
  <2> USE <1>1, Parts DEF AloneInv, IInv, TypeOK, LockInv, FreshInv, SnapshotInv, ClaimedInv,
        DropInv, Goto, Continue, Return, Set, Update, row, Moves, Final
  <2>1. CASE Create
    BY <2>1 DEF Create, CreateRow, CreateKey, CreateMessage, DropKey
  <2>2. ASSUME NEW w \in Workers, Work(w) \/ WorkerCrash(w) PROVE <<status, status'>> \in Moves
    <3>1. CASE Claim(w) \/ ClaimFails(w)
      BY <3>1 DEF Claim, ClaimFails
    <3>2. CASE Finish(w)
      BY <3>2 DEF Finish
    <3>3. CASE Flag(w)
      BY <3>3 DEF Flag
    <3> QED
      BY <2>2, <3>1, <3>2, <3>3 DEF Work, Receive, Begin, ClaimConflicts, Populate, PutObject,
         Tell, TellFailed, Ack, WorkerCrash
  <2>3. ASSUME NEW r \in Retries, Retry(r) \/ RetryCrash(r) PROVE <<status, status'>> \in Moves
    BY <2>3 DEF Retry, RetryBegin, RetrySend, RetryKey, RetryCommit, RetryCrash
  <2>4. ASSUME NEW d \in Deletes, Delete(d) \/ DeleteCrash(d) PROVE <<status, status'>> \in Moves
    BY <2>4 DEF Delete, DeleteRead, DeleteFlag, DeleteObject, DeleteRow, DeleteConflicts,
       DeleteKey, DeleteCrash
  <2>5. ASSUME NEW g \in Gets, Get(g) PROVE FALSE
    BY <2>5 DEF Get, GetKey, GetRow, GetObject
  <2>6. ~KeyExpires /\ ~UNCHANGED vars
    BY DEF KeyExpires, vars
  <2> QED
    BY <2>1, <2>2, <2>3, <2>4, <2>5, <2>6 DEF Next, Crash, Stop
<1>2. AloneInv /\ [Next]_vars => [Moved]_vars
  BY <1>1
<1> QED
  BY AloneInvariance, <1>2, PTL DEF Spec, StatusMoves

(* With one delivery at a time and no failed call, whatever the order of   *)
(* the retries and the deletes: the bucket holds the object exactly when   *)
(* the row says Success, outside the two pairs of calls that change both.  *)
THEOREM RowAndObjectAgree == Spec => []RowMatchesObject
<1>1. AloneInv => RowMatchesObject
  BY TheWorker DEF AloneInv, MatchInv, ObjectInv, Taken, RowMatchesObject
<1> QED
  BY AloneInvariance, <1>1, PTL
=============================================================================
