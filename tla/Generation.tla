----------------------------- MODULE Generation -----------------------------
(***************************************************************************)
(* One generation job: its row in Postgres, its status key in Redis, its   *)
(* object in S3 and its messages in the generate queue, and everything     *)
(* that works on them at the same time: the /generate request that creates *)
(* the job, the workers the queue invokes, and the user's requests to      *)
(* retry, delete and read it.  Two jobs share nothing, so one is enough.   *)
(*                                                                         *)
(* The queue delivers at least once: any idle worker may receive a message *)
(* that is still queued, again or at the same time as another.  With one   *)
(* worker no two deliveries overlap.  When a message leaves the queue is   *)
(* the one thing on which the code and its platform may disagree: the      *)
(* comments of the handler count on it staying until delete_message, while *)
(* a queue that is mapped to a Lambda function also drops the messages of  *)
(* a handler that returns Ok, as this one does after errors and panics.    *)
(* DeletesOnReturn chooses between the two.                                *)
(*                                                                         *)
(* A call is answered, or fails with no effect, or has its effect and its  *)
(* reply is lost.  A transaction that makes no call to another service is  *)
(* one step; one that does (retry, delete of a finished job) is several.   *)
(***************************************************************************)
EXTENDS Naturals, FiniteSets

CONSTANTS
  Creator,        \* the /generate request
  Workers,        \* the concurrent deliveries
  Retries,        \* the POST requests to /generated/content
  Deletes,        \* the DELETE requests
  Gets,           \* the GET requests
  Kinds,          \* what the options make populate() do: a subset of
                  \* {"paper", "invalid", "panic"}
  NoOne,          \* the lock is free; a worker holds no message
  DeletesOnReturn, \* returning Ok from the handler deletes the message
  MaxFaults       \* bound on failed calls, lost replies and crashes

Requests == {Creator} \cup Retries \cup Deletes \cup Gets
Procs == Workers \cup Requests

ASSUME KindsAssumption == Kinds \subseteq {"paper", "invalid", "panic"}
ASSUME FaultsAssumption == MaxFaults \in Nat
ASSUME ReturnAssumption == DeletesOnReturn \in BOOLEAN
ASSUME WorkersAssumption == IsFiniteSet(Workers)
ASSUME ProcsAssumption ==
  /\ Creator \notin Workers \cup Retries \cup Deletes \cup Gets
  /\ Workers \cap (Retries \cup Deletes \cup Gets) = {}
  /\ Retries \cap (Deletes \cup Gets) = {}
  /\ Deletes \cap Gets = {}
  /\ NoOne \notin Procs

VARIABLES
  status,         \* generation.status, or "none" when there is no row
  finished,       \* generation.finishedon is set
  lock,           \* the retry request that holds the row FOR UPDATE
  stale,          \* the transactions whose snapshot of the row is out of date
  key,            \* gen:job:{id} in Redis, or "none"
  object,         \* {id}.rapidl.gz is in the bucket
  queue,          \* the messages not deleted yet; a message is named by its sender
  pc,             \* pc[p]: the call p makes next, or its outcome
  holds,          \* holds[w]: the message worker w is processing
  kind,           \* what populate() does with the options of this job
  faults          \* the faults so far

row  == <<status, finished, stale>>
vars == <<row, lock, key, object, queue, pc, holds, kind, faults>>

Final == {"Success", "Failed", "Deleting"}
Statuses == Final \cup {"none", "Waiting", "Working"}

Answers == {"done", "failed", "lost"}
Effect(a) == a \in {"done", "lost"}
Fault(n) == faults' = faults + n /\ faults' <= MaxFaults
Answer(a) == Fault(IF a = "done" THEN 0 ELSE 1)

Goto(p, from, to) == pc[p] = from /\ pc' = [pc EXCEPT ![p] = to]

(* The row gets status s; every snapshot taken before is out of date.  An  *)
(* UPDATE of a row that is gone changes nothing.                           *)
Set(s, fin) == status' = s /\ finished' = fin /\ stale' = Workers \cup Deletes
Update(s, fin) == IF status = "none" THEN UNCHANGED row ELSE Set(s, fin)

(***************************************************************************)
(* /generate, after the debit: the row, the key, the message.  On an error *)
(* the credits go back (module Credits) and the row stays.                 *)
(***************************************************************************)
CreateRow ==
  /\ \E a \in Answers :
       /\ Goto(Creator, "insert", IF a = "done" THEN "mark" ELSE "refused")
       /\ IF Effect(a) THEN Set("Waiting", FALSE) ELSE UNCHANGED row
       /\ Answer(a)
  /\ UNCHANGED <<lock, key, object, queue, holds, kind>>

CreateKey ==
  /\ \E a \in Answers :
       /\ Goto(Creator, "mark", IF a = "done" THEN "send" ELSE "refused")
       /\ key' = IF Effect(a) THEN "Working" ELSE key
       /\ Answer(a)
  /\ UNCHANGED <<row, lock, object, queue, holds, kind>>

CreateMessage ==
  /\ \E a \in Answers :
       /\ Goto(Creator, "send", IF a = "done" THEN "ok" ELSE "unmark")
       /\ queue' = IF Effect(a) THEN queue \cup {Creator} ELSE queue
       /\ Answer(a)
  /\ UNCHANGED <<row, lock, key, object, holds, kind>>

DropKey ==
  /\ \E a \in Answers :
       /\ Goto(Creator, "unmark", "refused")
       /\ key' = IF Effect(a) THEN "none" ELSE key
       /\ Answer(a)
  /\ UNCHANGED <<row, lock, object, queue, holds, kind>>

Create == CreateRow \/ CreateKey \/ CreateMessage \/ DropKey

(***************************************************************************)
(* The worker.  It claims the row in a serializable transaction, makes the *)
(* paper, stores it, writes Success whatever the row says by then, tells   *)
(* Redis, and deletes its message.                                         *)
(***************************************************************************)
Receive(w) ==
  /\ Goto(w, "idle", "claim")
  /\ \E m \in queue : holds' = [holds EXCEPT ![w] = m]
  /\ UNCHANGED <<row, lock, key, object, queue, kind, faults>>

(* The handler is done with this delivery: it returns Ok, whatever happened. *)
Return(w, from) ==
  /\ Goto(w, from, "idle")
  /\ holds' = [holds EXCEPT ![w] = NoOne]
  /\ queue' = IF DeletesOnReturn THEN queue \ {holds[w]} ELSE queue
Continue(w, from, to) == Goto(w, from, to) /\ UNCHANGED <<holds, queue>>

(* The serializable transaction takes its snapshot, then waits for the row. *)
Begin(w) ==
  /\ Continue(w, "claim", "select")
  /\ stale' = stale \ {w}
  /\ UNCHANGED <<status, finished, lock, key, object, kind, faults>>

ClaimIgnoresDeleting(w) ==              \* seeded fault: Deleting falls through like Waiting
  /\ lock = NoOne /\ w \notin stale
  /\ \/ /\ status \in {"Success", "Failed"}
        /\ Continue(w, "select", "ack")
        /\ UNCHANGED row
     \/ /\ status \in {"Waiting", "Working", "Deleting"}
        /\ Continue(w, "select", "populate")
        /\ Set("Working", finished)
     \/ /\ status = "none"
        /\ Return(w, "select")
        /\ UNCHANGED row
  /\ UNCHANGED <<lock, key, object, kind, faults>>

ClaimKeepsMessage(w) ==                 \* seeded fault: DeleteImmediately returns early
  /\ lock = NoOne /\ w \notin stale
  /\ IF status \in {"Waiting", "Working"}
     THEN Continue(w, "select", "populate") /\ Set("Working", finished)
     ELSE Return(w, "select") /\ UNCHANGED row
  /\ UNCHANGED <<lock, key, object, kind, faults>>

Claim(w) ==
  /\ lock = NoOne /\ w \notin stale
  /\ \/ /\ status \in Final
        /\ Continue(w, "select", "ack")
        /\ UNCHANGED row
     \/ /\ status = "Working"
        /\ Continue(w, "select", "populate")
        /\ UNCHANGED row
     \/ /\ status = "Waiting"
        /\ Continue(w, "select", "populate")
        /\ Set("Working", finished)
     \/ /\ status = "none"          \* NotFound: a Postgres failure like any other
        /\ Return(w, "select")
        /\ UNCHANGED row
  /\ UNCHANGED <<lock, key, object, kind, faults>>

(* Somebody wrote the row after the snapshot: it cannot be serialized. *)
ClaimConflicts(w) ==
  /\ lock = NoOne /\ w \in stale
  /\ Return(w, "select")
  /\ UNCHANGED <<row, lock, key, object, kind, faults>>

(* The connection or the transaction fails, with or without its effect. *)
ClaimFails(w) ==
  /\ Return(w, "select")
  /\ \/ UNCHANGED row
     \/ lock = NoOne /\ w \notin stale /\ status = "Waiting" /\ Set("Working", finished)
  /\ Fault(1)
  /\ UNCHANGED <<lock, key, object, kind>>

(* The options give a paper, or an error, or a panic (unimplemented!).     *)
PopulateDropsFailure(w) ==              \* seeded fault: a failed populate() is not flagged
  /\ Continue(w, "populate", IF kind = "paper" THEN "put" ELSE "ack")
  /\ UNCHANGED <<row, lock, key, object, kind, faults>>

Populate(w) ==
  /\ \/ kind = "paper" /\ Continue(w, "populate", "put")
     \/ kind = "invalid" /\ Continue(w, "populate", "flag")
     \/ kind = "panic" /\ Return(w, "populate")
  /\ UNCHANGED <<row, lock, key, object, kind, faults>>

PutObject(w) ==
  /\ \E a \in Answers :
       /\ Continue(w, "put", IF a = "done" THEN "finish" ELSE "flag")
       /\ object' = (object \/ Effect(a))
       /\ Answer(a)
  /\ UNCHANGED <<row, lock, key, kind>>

FinishInserts(w) ==                     \* seeded fault: an upsert instead of an UPDATE
  /\ lock = NoOne
  /\ Continue(w, "finish", "tell")
  /\ Set("Success", TRUE)
  /\ UNCHANGED <<lock, key, object, kind, faults>>

FinishUndated(w) ==                     \* seeded fault: finishedon is not written
  /\ lock = NoOne
  /\ Continue(w, "finish", "tell")
  /\ Update("Success", finished)
  /\ UNCHANGED <<lock, key, object, kind, faults>>

(* A plain UPDATE: it waits for the lock, and overwrites what it finds. *)
Finish(w) ==
  /\ lock = NoOne
  /\ \E a \in Answers :
       /\ IF a = "done" THEN Continue(w, "finish", "tell") ELSE Return(w, "finish")
       /\ IF Effect(a) THEN Update("Success", TRUE) ELSE UNCHANGED row
       /\ Answer(a)
  /\ UNCHANGED <<lock, key, object, kind>>

(* No connection ends the delivery; a failed command falls into the last   *)
(* arm of the handler, which flags the finished job as failed.             *)
Tell(w) ==
  /\ \E a \in Answers \cup {"unconnected"} :
       /\ IF a = "unconnected"
          THEN Return(w, "tell")
          ELSE Continue(w, "tell", IF a = "done" THEN "ack" ELSE "flag")
       /\ key' = IF Effect(a) THEN "Success" ELSE key
       /\ Answer(a)
  /\ UNCHANGED <<row, lock, object, kind>>

FlagNeverRetries(w) ==                  \* seeded fault: flag_as_failure answers false on errors
  /\ lock = NoOne
  /\ \E a \in Answers :
       /\ Continue(w, "flag", IF a = "done" THEN "tellFailed" ELSE "ack")
       /\ IF Effect(a) THEN Update("Failed", finished) ELSE UNCHANGED row
       /\ Answer(a)
  /\ UNCHANGED <<lock, key, object, kind>>

(* flag_as_failure: on an error of the UPDATE, `will try again later'. *)
Flag(w) ==
  /\ lock = NoOne
  /\ \E a \in Answers :
       /\ IF a = "done" THEN Continue(w, "flag", "tellFailed") ELSE Return(w, "flag")
       /\ IF Effect(a) THEN Update("Failed", finished) ELSE UNCHANGED row
       /\ Answer(a)
  /\ UNCHANGED <<lock, key, object, kind>>

TellFailed(w) ==
  /\ Continue(w, "tellFailed", "ack")
  /\ \E a \in Answers :
       /\ key' = IF Effect(a) THEN "Failed" ELSE key
       /\ Answer(a)
  /\ UNCHANGED <<row, lock, object, kind>>

(* delete_from_receipt; its error ends the task and is not looked at. *)
Ack(w) ==
  /\ Goto(w, "ack", "idle")
  /\ holds' = [holds EXCEPT ![w] = NoOne]
  /\ \E a \in Answers :
       /\ queue' = IF DeletesOnReturn \/ Effect(a) THEN queue \ {holds[w]} ELSE queue
       /\ Answer(a)
  /\ UNCHANGED <<row, lock, key, object, kind>>

(* The lambda stops or times out: the handler does not return. *)
WorkerCrash(w) ==
  /\ pc[w] # "idle"
  /\ Goto(w, pc[w], "idle")
  /\ holds' = [holds EXCEPT ![w] = NoOne]
  /\ Fault(1)
  /\ UNCHANGED <<row, lock, key, object, queue, kind>>

Work(w) ==
  \/ Receive(w) \/ Begin(w) \/ Claim(w) \/ ClaimConflicts(w) \/ ClaimFails(w)
  \/ Populate(w) \/ PutObject(w) \/ Finish(w) \/ Tell(w) \/ Flag(w) \/ TellFailed(w)
  \/ Ack(w)

(***************************************************************************)
(* Retry: one repeatable-read transaction that holds the row, and sends    *)
(* the message and sets the key before it commits.  The refusal of a job   *)
(* that has not failed is dropped: the reply is OK all the same.           *)
(***************************************************************************)
RetryBegin(r) ==
  /\ lock = NoOne
  /\ \/ status = "Failed" /\ Goto(r, "idle", "send") /\ lock' = r
     \/ status = "none" /\ Goto(r, "idle", "error") /\ UNCHANGED lock
     \/ status \notin {"Failed", "none"} /\ Goto(r, "idle", "okRefused") /\ UNCHANGED lock
  /\ UNCHANGED <<row, key, object, queue, holds, kind, faults>>

RetrySend(r) ==
  /\ \E a \in Answers :
       /\ Goto(r, "send", IF a = "done" THEN "mark" ELSE "error")
       /\ queue' = IF Effect(a) THEN queue \cup {r} ELSE queue
       /\ lock' = IF a = "done" THEN lock ELSE NoOne
       /\ Answer(a)
  /\ UNCHANGED <<row, key, object, holds, kind>>

RetryKey(r) ==
  /\ Goto(r, "mark", "commit")
  /\ \E a \in Answers :
       /\ key' = IF Effect(a) THEN "Working" ELSE key
       /\ Answer(a)
  /\ UNCHANGED <<row, lock, object, queue, holds, kind>>

RetryCommit(r) ==
  /\ \E a \in Answers :
       /\ Goto(r, "commit", IF a = "done" THEN "ok" ELSE "error")
       /\ IF Effect(a) THEN Set("Waiting", finished) ELSE UNCHANGED row
       /\ Answer(a)
  /\ lock' = NoOne
  /\ UNCHANGED <<key, object, queue, holds, kind>>

(* The lambda stops, or an early statement fails: Postgres rolls back. *)
RetryCrash(r) ==
  /\ pc[r] \in {"idle", "send", "mark", "commit"}
  /\ Goto(r, pc[r], "error")
  /\ lock' = IF lock = r THEN NoOne ELSE lock
  /\ Fault(1)
  /\ UNCHANGED <<row, key, object, queue, holds, kind>>

Retry(r) == RetryBegin(r) \/ RetrySend(r) \/ RetryKey(r) \/ RetryCommit(r)

(***************************************************************************)
(* Delete: one serializable transaction.  A waiting job is only marked; a  *)
(* finished one loses its object first, and its row only if nobody has     *)
(* changed the row since the snapshot.                                     *)
(***************************************************************************)
DeleteReadKeepsObject(d) ==             \* seeded fault: only the row of a finished job goes
  /\ Goto(d, "idle", CASE status = "none" -> "notFound"
                        [] status = "Working" -> "locked"
                        [] status = "Waiting" -> "flagRow"
                        [] OTHER -> "dropRow")
  /\ stale' = stale \ {d}
  /\ UNCHANGED <<status, finished, lock, key, object, queue, holds, kind, faults>>

DeleteRead(d) ==
  /\ \/ status = "none"                   /\ Goto(d, "idle", "notFound")
     \/ status = "Working"                /\ Goto(d, "idle", "locked")
     \/ status = "Waiting"                /\ Goto(d, "idle", "flagRow")
     \/ status = "Success"                /\ Goto(d, "idle", "dropObject")
     \/ status \in {"Failed", "Deleting"} /\ Goto(d, "idle", "dropRow")
  /\ stale' = stale \ {d}
  /\ UNCHANGED <<status, finished, lock, key, object, queue, holds, kind, faults>>

DeleteFlag(d) ==
  /\ lock = NoOne /\ d \notin stale
  /\ Goto(d, "flagRow", "dropKey")
  /\ Set("Deleting", finished)
  /\ UNCHANGED <<lock, key, object, queue, holds, kind, faults>>

DeleteObject(d) ==
  /\ \E a \in Answers :
       /\ Goto(d, "dropObject", IF a = "done" THEN "dropRow" ELSE "error")
       /\ object' = (object /\ ~Effect(a))
       /\ Answer(a)
  /\ UNCHANGED <<row, lock, key, queue, holds, kind>>

DeleteRow(d) ==
  /\ lock = NoOne /\ d \notin stale
  /\ Goto(d, "dropRow", "dropKey")
  /\ Set("none", FALSE)
  /\ UNCHANGED <<lock, key, object, queue, holds, kind, faults>>

(* The snapshot is out of date: the write cannot be serialized. *)
DeleteConflicts(d) ==
  /\ d \in stale
  /\ pc[d] \in {"flagRow", "dropRow"}
  /\ Goto(d, pc[d], "error")
  /\ UNCHANGED <<row, lock, key, object, queue, holds, kind, faults>>

DeleteKey(d) ==
  /\ Goto(d, "dropKey", "ok")
  /\ \E a \in Answers :
       /\ key' = IF Effect(a) THEN "none" ELSE key
       /\ Answer(a)
  /\ UNCHANGED <<row, lock, object, queue, holds, kind>>

(* The transaction fails or the lambda stops; S3 does not roll back. *)
DeleteCrash(d) ==
  /\ pc[d] \in {"flagRow", "dropObject", "dropRow"}
  /\ Goto(d, pc[d], "error")
  /\ Fault(1)
  /\ UNCHANGED <<row, lock, key, object, queue, holds, kind>>

Delete(d) ==
  \/ DeleteRead(d) \/ DeleteFlag(d) \/ DeleteObject(d) \/ DeleteRow(d)
  \/ DeleteConflicts(d) \/ DeleteKey(d)

(***************************************************************************)
(* Get: the key if it says the job is not finished, else the row, and for  *)
(* a successful job the object.                                            *)
(***************************************************************************)
GetKey(g) ==
  /\ Goto(g, "idle", IF key \in {"Working", "Failed"} THEN "answered" ELSE "row")
  /\ UNCHANGED <<row, lock, key, object, queue, holds, kind, faults>>

GetRow(g) ==
  /\ Goto(g, "row", CASE status = "none" -> "error"
                      [] status = "Success" /\ ~finished -> "noFinishedOn"
                      [] status = "Success" /\ finished -> "object"
                      [] OTHER -> "answered")
  /\ UNCHANGED <<row, lock, key, object, queue, holds, kind, faults>>

GetObject(g) ==
  /\ Goto(g, "object", IF object THEN "content" ELSE "noSuchKey")
  /\ UNCHANGED <<row, lock, key, object, queue, holds, kind, faults>>

Get(g) == GetKey(g) \/ GetRow(g) \/ GetObject(g)
-----------------------------------------------------------------------------
(* The lifetime of the key is over. *)
KeyExpires ==
  /\ key # "none"
  /\ key' = "none"
  /\ UNCHANGED <<row, lock, object, queue, pc, holds, kind, faults>>

Init ==
  /\ status = "none" /\ finished = FALSE /\ lock = NoOne /\ stale = {}
  /\ key = "none" /\ object = FALSE /\ queue = {}
  /\ pc = [p \in Procs |-> IF p = Creator THEN "insert" ELSE "idle"]
  /\ holds = [w \in Workers |-> NoOne]
  /\ kind \in Kinds
  /\ faults = 0

Crash ==
  \/ \E w \in Workers : WorkerCrash(w)
  \/ \E r \in Retries : RetryCrash(r)
  \/ \E d \in Deletes : DeleteCrash(d)

(* Every request is answered and the queue is empty: nothing more happens. *)
Stop ==
  /\ pc[Creator] \in {"ok", "refused"} /\ key = "none" /\ queue = {}
  /\ \A p \in Procs : pc[p] \in
       IF p \in Workers THEN {"idle"}
       ELSE {"ok", "refused", "okRefused", "error", "answered", "content", "notFound",
             "locked", "noSuchKey", "noFinishedOn"}
  /\ UNCHANGED vars

Next ==
  \/ Create
  \/ \E w \in Workers : Work(w)
  \/ \E r \in Retries : Retry(r)
  \/ \E d \in Deletes : Delete(d)
  \/ \E g \in Gets : Get(g)
  \/ KeyExpires
  \/ Crash
  \/ Stop

Spec == Init /\ [][Next]_vars

(* Lambda runs what SQS delivers, and SQS delivers what is in the queue:   *)
(* with DeletesOnReturn that is what no handler has returned Ok for (a     *)
(* crash is no return), without it what no handler has deleted.  A         *)
(* transaction that holds the row goes on or is rolled back.               *)
Fairness ==
  /\ \A w \in Workers : WF_vars(Work(w))
  /\ \A r \in Retries : WF_vars(RetrySend(r) \/ RetryKey(r) \/ RetryCommit(r))

FairSpec == Spec /\ Fairness
-----------------------------------------------------------------------------
(***************************************************************************)
(* The properties.                                                         *)
(***************************************************************************)
Calls ==
  {"idle", "claim", "select", "populate", "put", "finish", "tell", "flag", "tellFailed", "ack",
   "insert", "mark", "send", "unmark", "commit", "flagRow", "dropObject", "dropRow",
   "dropKey", "row", "object", "ok", "refused", "okRefused", "error", "answered",
   "content", "notFound", "locked", "noSuchKey", "noFinishedOn"}

(* The shape of the state; a successful job has its finishedon, which the  *)
(* GET request counts on (content.rs, `no finishedon timestamp').          *)
TypeOK ==
  /\ status \in Statuses /\ finished \in BOOLEAN
  /\ (status = "Success" => finished) /\ (status = "none" => ~finished)
  /\ lock \in Retries \cup {NoOne}
  /\ stale \subseteq Workers \cup Deletes
  /\ key \in {"none", "Working", "Success", "Failed"}
  /\ object \in BOOLEAN
  /\ queue \subseteq {Creator} \cup Retries
  /\ pc \in [Procs -> Calls]
  /\ holds \in [Workers -> {Creator, NoOne} \cup Retries]
  /\ kind \in Kinds
  /\ faults \in Nat

(* If a message stays until it is deleted, then however deliveries overlap *)
(* and calls fail nobody deletes the last message of a job that is not     *)
(* finished: a job being worked on, or waiting after the user was given    *)
(* its id, will be delivered again.                                        *)
UnfinishedHasMessage ==
  status = "Working" \/ (status = "Waiting" /\ pc[Creator] = "ok") => queue # {}

(* A deleted job does not come back, whatever a worker that was still      *)
(* busy with it writes.                                                    *)
DeletedStaysDeleted ==
  [][status = "none" /\ pc[Creator] # "insert" => status' = "none"]_vars

(* When deliveries do not overlap, the status moves as the code documents: *)
(* a job is claimed once, deleted only outside Working, retried only after *)
(* a failure, and a job marked Deleting is never worked on.                *)
Moves ==
  {<<"none", "Waiting">>, <<"Waiting", "Working">>, <<"Waiting", "Deleting">>,
   <<"Working", "Success">>, <<"Working", "Failed">>, <<"Success", "Failed">>,
   <<"Success", "none">>, <<"Failed", "none">>, <<"Failed", "Waiting">>,
   <<"Deleting", "none">>}
StatusMoves ==
  [][Cardinality(Workers) = 1 => status' = status \/ <<status, status'>> \in Moves]_vars

(* When deliveries do not overlap and no call fails, the bucket holds the  *)
(* object exactly when the row says Success, except inside the worker and  *)
(* the delete that are changing both.                                      *)
RowMatchesObject ==
  (/\ Cardinality(Workers) = 1 /\ faults = 0
   /\ \A w \in Workers : pc[w] # "finish"
   /\ \A d \in Deletes : pc[d] # "dropRow")
    => (status = "Success" <=> object)

(* A job whose id the user was given is finished, failed or deleted in the *)
(* end, also when returning Ok deletes its message.  There are three ways  *)
(* out: the options make populate() panic; a call has failed and the last  *)
(* message is gone; or a retry has committed Waiting under a delivery,     *)
(* whose claim cannot be serialized and is given up with its message.      *)
RetryOvertakesClaim == status = "Waiting" /\ \E w \in Workers : pc[w] = "select" /\ w \in stale
JobFinishes ==
  []~RetryOvertakesClaim =>
    (pc[Creator] = "ok" /\ kind # "panic"
       ~> status \notin {"Waiting", "Working"} \/ (faults > 0 /\ queue = {}))

(* The messages of a job that does not panic are all deleted in the end,   *)
(* unless its row goes first.                                              *)
QueueDrains ==
  pc[Creator] \in {"ok", "refused"} /\ kind # "panic" ~> queue = {} \/ status = "none"
-----------------------------------------------------------------------------
(* Statements of the repository that the code does not keep.               *)

(* content.rs, in delete: `If generation status is Waiting then we'll flag *)
(* this to be deleted later (by the generator function)'.                  *)
DeletingIsDeleted == status = "Deleting" ~> status # "Deleting"
=============================================================================
