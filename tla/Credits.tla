------------------------------ MODULE Credits ------------------------------
(***************************************************************************)
(* The credits of one user: table allocatedcredits in Postgres, the total  *)
(* and its expiry cached in Redis, and the requests that run concurrently  *)
(* against both: /generate (which spends, and refunds when a later step    *)
(* fails), the profile read, and /verify (which grants).  Every call to    *)
(* Postgres, Redis or SQS is a step of its own, and so is every command of *)
(* a Redis pipeline (pipe() is not atomic).                                *)
(*                                                                         *)
(* A call is answered, or it fails with no effect, or it has its effect    *)
(* and the reply is lost: the caller sees the same error in both cases.    *)
(* A lambda may also stop between two calls.  MaxFaults bounds these.      *)
(*                                                                         *)
(* Rows and cache keys are keyed by the user, so one user is enough: the   *)
(* steps of two users commute.                                             *)
(***************************************************************************)
EXTENDS Integers, Sequences, FiniteSets

CONSTANTS
  Generates,      \* the requests to /generate
  Profiles,       \* the requests that only read the total
  Verifies,       \* the requests to /verify with the confirmation token
  Cost,           \* Cost[g]: the number of choices of generate request g
  FreeCredits,    \* FREE_CREDITS_ON_VERIFY
  FreeLife,       \* FREE_CREDITS_ON_VERIFY_EXPIRE_AFTER_SECS, in ticks
  RefundLife,     \* STANDARD_CREDITS_EXPIRE_AFTER_SECS, in ticks
  StartRows,      \* the rows of the table at the beginning, creditid 1, 2, ...
  Second,         \* the ticks in a second: Postgres is finer than Redis
  NoKey,          \* what Redis answers for a missing key
  MaxNow,         \* bound on the clock
  MaxFaults       \* bound on the calls that fail or lose their reply, and crashes

Requests == Generates \cup Profiles \cup Verifies

ASSUME CostAssumption == Cost \in [Generates -> Nat \ {0}]
ASSUME RequestsAssumption ==
  /\ Generates \cap Profiles = {}
  /\ Generates \cap Verifies = {}
  /\ Profiles \cap Verifies = {}
  /\ "start" \notin Requests
ASSUME NoKeyAssumption == NoKey \notin [value : Nat, dies : Nat]
ASSUME DurationAssumption ==
  /\ FreeCredits \in Nat \ {0}
  /\ FreeLife \in Nat
  /\ RefundLife \in Nat
  /\ Second \in Nat \ {0}
ASSUME BoundAssumption == MaxNow \in Nat /\ MaxFaults \in Nat
ASSUME StartAssumption ==
  StartRows \in Seq([credits : Nat \ {0}, expireat : Nat])

VARIABLES
  now,            \* the clock, in ticks
  rows,           \* allocatedcredits: rows[creditid] = [credits, expireat]
  verified,       \* users.emailverified
  cacheT,         \* user:{id}:cred:t, the cached total
  cacheE,         \* user:{id}:cred:e, the cached expiry, in seconds
  pc,             \* pc[r]: the call request r makes next, or its outcome
  phase,          \* phase[r]: on behalf of which part of the request
  utc,            \* utc[r]: the time captured before the table is read
  total,          \* total[r]: the total read
  expire,         \* expire[r]: the expiry read, in ticks
  next,           \* next[g]: x-next-fetch of the reply, in seconds
  jobs,           \* the generate requests with a row in table generation
  marks,          \* those with a gen:job:{id} key in Redis
  queue,          \* those with a message in the generate queue
  minted,         \* history: every row ever inserted, in the order of creditid
  charged,        \* history: charged[g], the units the debit of g took
  lost,           \* history: the requests a call of which lost its reply
  overlapped,     \* history: some step was taken during another request
  faults          \* the faults so far

local == <<phase, utc, total, expire, next>>
table == <<rows, verified, minted, charged>>
cache == <<cacheT, cacheE>>
job   == <<jobs, marks, queue>>
vars  == <<now, table, cache, pc, local, job, lost, overlapped, faults>>

Done == {"ok", "rejected", "error", "baddata", "crashed"}
InFlight(r) == pc[r] \notin Done \cup {"idle"}
Secs(t) == t \div Second

(* Rows as sets of units: the unit <<i, k>> is the k-th credit of row i. *)
UnitsOf(i, n) == {i} \X (1 .. n)
Units(S) == UNION {UnitsOf(i, rows[i].credits) : i \in S}
Worth(S) == Cardinality(Units(S))
LiveRows(t) == {i \in DOMAIN rows : rows[i].expireat > t}
Earliest(S) == CHOOSE i \in S : \A j \in S : rows[i].expireat <= rows[j].expireat

(* The answers of a call: given, refused, or lost after the effect. *)
Answers == {"done", "failed", "lost"}
Effect(a) == a \in {"done", "lost"}
Fault(n) == faults' = faults + n /\ faults' <= MaxFaults
Answer(r, a) ==
  /\ Fault(IF a = "done" THEN 0 ELSE 1)
  /\ lost' = IF a = "lost" THEN lost \cup {r} ELSE lost

(* Request r makes the call it is at, and is at `to' afterwards. *)
Goto(r, to) ==
  /\ pc' = [pc EXCEPT ![r] = to]
  /\ overlapped' = (overlapped \/ \E q \in Requests \ {r} : InFlight(q))

(***************************************************************************)
(* get_total_credits: the cache if it answers and its expiry is in the     *)
(* future, else the table, which then fills the cache.                     *)
(***************************************************************************)
CacheHit == cacheT # NoKey /\ cacheE # NoKey /\ cacheE.value > Secs(now)

(* What request r does with the total tot that get_total_credits returns:  *)
(* answer the profile, compare with the price before the debit, or compare *)
(* again inside decrement_total_credits.                                   *)
Resume(r, tot) ==
  LET enough == r \in Generates /\ tot >= Cost[r] IN
  /\ Goto(r, CASE r \in Profiles                        -> "ok"
              [] ~enough /\ phase[r] = "check"          -> "rejected"
              [] ~enough /\ phase[r] = "debit"          -> "error"
              [] enough /\ phase[r] = "check"           -> "mget"
              [] OTHER                                  -> "txn")
  /\ phase' = IF enough THEN [phase EXCEPT ![r] = "debit"] ELSE phase

MGet(r) ==
  /\ pc[r] = "mget" \/ (pc[r] = "idle" /\ r \notin Verifies)
  /\ utc' = [utc EXCEPT ![r] = now]
  /\ \/ /\ CacheHit
        /\ total' = [total EXCEPT ![r] = cacheT.value]
        /\ Resume(r, cacheT.value)
     \/ /\ ~CacheHit
        /\ Goto(r, "query")
        /\ UNCHANGED <<phase, total>>
  /\ UNCHANGED <<now, table, cache, expire, next, job, lost, faults>>

QueryRows(r) ==
  LET found == LiveRows(utc[r]) IN
  /\ pc[r] = "query"
  /\ total' = [total EXCEPT ![r] = Worth(found)]
  /\ \/ /\ found = {}
        /\ Resume(r, 0)
        /\ UNCHANGED expire
     \/ /\ found # {}
        /\ expire' = [expire EXCEPT ![r] = rows[Earliest(found)].expireat]
        /\ Goto(r, "setT")
        /\ UNCHANGED phase
  /\ UNCHANGED <<now, table, cache, utc, next, job, lost, faults>>

(* The lifetime of the cached keys: a negative one becomes 1, and zero     *)
(* stays zero, which Redis refuses.                                        *)
Life(r) ==
  LET secs == Secs(expire[r]) - Secs(utc[r]) IN IF secs < 0 THEN 1 ELSE secs
Key(r, value) == [value |-> value, dies |-> now + Life(r) * Second]

SetTotal(r) ==
  /\ pc[r] = "setT"
  /\ IF Life(r) = 0
     THEN Goto(r, "error") /\ UNCHANGED cacheT
     ELSE Goto(r, "setE") /\ cacheT' = Key(r, total[r])
  /\ UNCHANGED <<now, table, cacheE, local, job, lost, faults>>

SetExpire(r) ==
  /\ pc[r] = "setE"
  /\ cacheE' = Key(r, Secs(expire[r]))
  /\ Resume(r, total[r])
  /\ UNCHANGED <<now, table, cacheT, utc, total, expire, next, job, lost, faults>>

(* A connection or a command fails on the way to the total.  Inside        *)
(* decrement_total_credits the error is unwrapped: the request panics.     *)
ReadFails(r) ==
  /\ pc[r] \in {"mget", "query", "setT", "setE"} \/ (pc[r] = "idle" /\ r \notin Verifies)
  /\ Goto(r, "error")
  /\ Fault(1)
  /\ UNCHANGED <<now, table, cache, local, job, lost>>

(***************************************************************************)
(* decrement_total_credits: the drain loop, in a serializable transaction  *)
(* over rows locked FOR UPDATE.  It walks the live rows by expiry, deletes *)
(* those worth less than what is left to drain, and breaks at the first    *)
(* row p worth at least that.  before: the rows walked before p; rows with *)
(* equal expiry come in any order.                                         *)
(***************************************************************************)
BreaksAtLatestFirst(g, live, before, p) ==      \* seeded fault: ORDER BY expireat DESC
  /\ p \in live \ before
  /\ \A i \in before : rows[i].expireat >= rows[p].expireat
  /\ \A i \in live \ before : rows[p].expireat >= rows[i].expireat
  /\ Worth(before) < Cost[g]
  /\ Cost[g] <= Worth(before) + rows[p].credits

BreaksAt(g, live, before, p) ==
  /\ p \in live \ before
  /\ \A i \in before : rows[i].expireat <= rows[p].expireat
  /\ \A i \in live \ before : rows[p].expireat <= rows[i].expireat
  /\ Worth(before) < Cost[g]
  /\ Cost[g] <= Worth(before) + rows[p].credits

DrainKeepsZero(g, before, p) ==         \* seeded fault: the exact row is updated to 0
  LET left == rows[p].credits - (Cost[g] - Worth(before)) IN
  /\ rows' = [i \in DOMAIN rows \ before |->
                IF i = p THEN [rows[p] EXCEPT !.credits = left] ELSE rows[i]]
  /\ next' = [next EXCEPT ![g] = IF left = 0 THEN 1 ELSE Secs(rows[p].expireat)]
  /\ charged' = [charged EXCEPT
       ![g] = Units(before) \cup ({p} \X ((left + 1) .. rows[p].credits))]

DrainNextOfDeleted(g, before, p) ==     \* seeded fault: next_expire_at set in both branches
  LET left == rows[p].credits - (Cost[g] - Worth(before)) IN
  /\ rows' = [i \in DOMAIN rows \ (before \cup IF left = 0 THEN {p} ELSE {}) |->
                IF i = p THEN [rows[p] EXCEPT !.credits = left] ELSE rows[i]]
  /\ next' = [next EXCEPT ![g] = Secs(rows[p].expireat)]
  /\ charged' = [charged EXCEPT
       ![g] = Units(before) \cup ({p} \X ((left + 1) .. rows[p].credits))]

Drain(g, before, p) ==
  LET left == rows[p].credits - (Cost[g] - Worth(before)) IN
  /\ rows' = [i \in DOMAIN rows \ (before \cup IF left = 0 THEN {p} ELSE {}) |->
                IF i = p THEN [rows[p] EXCEPT !.credits = left] ELSE rows[i]]
  /\ next' = [next EXCEPT ![g] = IF left = 0 THEN 1 ELSE Secs(rows[p].expireat)]
  /\ charged' = [charged EXCEPT
       ![g] = Units(before) \cup ({p} \X ((left + 1) .. rows[p].credits))]

DebitKeepsCache(g) ==                   \* seeded fault: no DEL after the debit
  /\ pc[g] = "txn"
  /\ \E before \in SUBSET LiveRows(now), p \in LiveRows(now) :
       /\ BreaksAt(g, LiveRows(now), before, p)
       /\ Drain(g, before, p)
       /\ Goto(g, "insert")
  /\ UNCHANGED <<now, verified, minted, cache, phase, utc, total, expire, job, lost, faults>>

Debit(g) ==
  /\ pc[g] = "txn"
  /\ \E a \in {"done", "lost"}, before \in SUBSET LiveRows(now), p \in LiveRows(now) :
       /\ BreaksAt(g, LiveRows(now), before, p)
       /\ Drain(g, before, p)
       /\ Goto(g, IF a = "done" THEN "delT" ELSE "error")
       /\ Answer(g, a)
  /\ UNCHANGED <<now, verified, minted, cache, phase, utc, total, expire, job>>

DebitShortDrains(g) ==                  \* seeded fault: rows deleted inside the loop
  /\ pc[g] = "txn"
  /\ Worth(LiveRows(now)) < Cost[g]
  /\ charged' = [charged EXCEPT ![g] = Units(LiveRows(now))]
  /\ rows' = [i \in DOMAIN rows \ LiveRows(now) |-> rows[i]]
  /\ Goto(g, "baddata")
  /\ UNCHANGED <<now, verified, minted, cache, local, job, lost, faults>>

(* The loop ends with drain > 0: the live rows are not worth the price.    *)
DebitShort(g) ==
  /\ pc[g] = "txn"
  /\ Worth(LiveRows(now)) < Cost[g]
  /\ Goto(g, "baddata")
  /\ UNCHANGED <<now, table, cache, local, job, lost, faults>>

(* The transaction fails and leaves no trace; a conflict with another      *)
(* serializable transaction is enough, so this is not counted as a fault.  *)
DebitAborts(g) ==
  /\ pc[g] = "txn"
  /\ Goto(g, "error")
  /\ UNCHANGED <<now, table, cache, local, job, lost, faults>>

(***************************************************************************)
(* The two DELs that follow every change of the table.  If they fail, the  *)
(* debit and the grant report an error; the failed refund is only logged.  *)
(***************************************************************************)
AfterRefund(r) == IF phase[r] = "unsend" THEN "unmark" ELSE "error"
AfterDel(r) ==
  CASE phase[r] = "debit" -> "insert"
    [] phase[r] = "grant" -> "ok"
    [] OTHER              -> AfterRefund(r)
AfterDelFails(r) ==
  IF phase[r] \in {"debit", "grant"} THEN "error" ELSE AfterRefund(r)

DelTotal(r) ==
  /\ pc[r] = "delT"
  /\ \E a \in Answers :
       /\ cacheT' = IF Effect(a) THEN NoKey ELSE cacheT
       /\ Goto(r, IF a = "done" THEN "delE" ELSE AfterDelFails(r))
       /\ Answer(r, a)
  /\ UNCHANGED <<now, table, cacheE, local, job>>

DelExpire(r) ==
  /\ pc[r] = "delE"
  /\ \E a \in Answers :
       /\ cacheE' = IF Effect(a) THEN NoKey ELSE cacheE
       /\ Goto(r, IF a = "done" THEN AfterDel(r) ELSE AfterDelFails(r))
       /\ Answer(r, a)
  /\ UNCHANGED <<now, table, cacheT, local, job>>

(***************************************************************************)
(* The rest of /generate after the debit: the generation row, the status   *)
(* key, the message; a failure of any of them leads to the refund.         *)
(***************************************************************************)
InsertJobUnchecked(g) ==                \* seeded fault: the error of the INSERT is ignored
  /\ pc[g] = "insert"
  /\ \E a \in Answers :
       /\ jobs' = IF Effect(a) THEN jobs \cup {g} ELSE jobs
       /\ Goto(g, "mark")
       /\ Answer(g, a)
  /\ UNCHANGED <<now, table, cache, local, marks, queue>>

InsertJob(g) ==
  /\ pc[g] = "insert"
  /\ \E a \in Answers :
       /\ jobs' = IF Effect(a) THEN jobs \cup {g} ELSE jobs
       /\ Goto(g, IF a = "done" THEN "mark" ELSE "refund")
       /\ phase' = IF a = "done" THEN phase ELSE [phase EXCEPT ![g] = "refund"]
       /\ Answer(g, a)
  /\ UNCHANGED <<now, table, cache, utc, total, expire, next, marks, queue>>

MarkWorkingUnchecked(g) ==              \* seeded fault: the error of the SET is only logged
  /\ pc[g] = "mark"
  /\ \E a \in Answers :
       /\ marks' = IF Effect(a) THEN marks \cup {g} ELSE marks
       /\ Goto(g, "send")
       /\ Answer(g, a)
  /\ UNCHANGED <<now, table, cache, local, jobs, queue>>

MarkWorking(g) ==
  /\ pc[g] = "mark"
  /\ \E a \in Answers :
       /\ marks' = IF Effect(a) THEN marks \cup {g} ELSE marks
       /\ Goto(g, IF a = "done" THEN "send" ELSE "refund")
       /\ phase' = IF a = "done" THEN phase ELSE [phase EXCEPT ![g] = "refund"]
       /\ Answer(g, a)
  /\ UNCHANGED <<now, table, cache, utc, total, expire, next, jobs, queue>>

SendJob(g) ==
  /\ pc[g] = "send"
  /\ \E a \in Answers :
       /\ queue' = IF Effect(a) THEN queue \cup {g} ELSE queue
       /\ Goto(g, IF a = "done" THEN "ok" ELSE "refund")
       /\ phase' = IF a = "done" THEN phase ELSE [phase EXCEPT ![g] = "unsend"]
       /\ Answer(g, a)
  /\ UNCHANGED <<now, table, cache, utc, total, expire, next, jobs, marks>>

(* A row enters the table on behalf of r. *)
InsertRow(r, n, expiry) ==
  LET creditid == Len(minted) + 1 IN
  /\ rows' = [i \in DOMAIN rows \cup {creditid} |->
                IF i = creditid THEN [credits |-> n, expireat |-> expiry] ELSE rows[i]]
  /\ minted' = Append(minted, [size |-> n, expireat |-> expiry, owner |-> r])

(* increment_total_credits: the refund, as a row of its own. *)
Refund(g) ==
  /\ pc[g] = "refund"
  /\ \E a \in Answers :
       /\ IF Effect(a)
          THEN InsertRow(g, Cost[g], now + RefundLife)
          ELSE UNCHANGED <<rows, minted>>
       /\ Goto(g, IF a = "done" THEN "delT" ELSE AfterRefund(g))
       /\ Answer(g, a)
  /\ UNCHANGED <<now, verified, charged, cache, local, job>>

(* After a failed send, the status key is dropped; an error is logged. *)
Unmark(g) ==
  /\ pc[g] = "unmark"
  /\ \E a \in Answers :
       /\ marks' = IF Effect(a) THEN marks \ {g} ELSE marks
       /\ Answer(g, a)
  /\ Goto(g, "error")
  /\ UNCHANGED <<now, table, cache, local, jobs, queue>>

(***************************************************************************)
(* /verify: one serializable transaction sets emailverified and inserts    *)
(* the free credits unless it was set before.  Its result is ignored: the  *)
(* request goes on as the flag says that the closure sets before COMMIT.   *)
(***************************************************************************)
VerifyAlwaysGrants(v) ==                \* seeded fault: the old value is not looked at
  /\ pc[v] = "idle" /\ v \in Verifies
  /\ verified' = TRUE
  /\ InsertRow(v, FreeCredits, now + FreeLife)
  /\ Goto(v, "delT")
  /\ phase' = [phase EXCEPT ![v] = "grant"]
  /\ UNCHANGED <<now, charged, cache, utc, total, expire, next, job, lost, faults>>

Verify(v) ==
  /\ pc[v] = "idle" /\ v \in Verifies
  /\ \/ /\ verified
        /\ Goto(v, "rejected")
        /\ UNCHANGED <<rows, verified, minted, phase, faults>>
     \/ /\ ~verified
        /\ verified' = TRUE
        /\ InsertRow(v, FreeCredits, now + FreeLife)
        /\ Goto(v, "delT")
        /\ phase' = [phase EXCEPT ![v] = "grant"]
        /\ UNCHANGED faults
  /\ UNCHANGED <<now, charged, cache, utc, total, expire, next, job, lost>>

(* No connection: an error.  A statement of the transaction fails, or       *)
(* conflicts: the reply says that the address had been verified before.    *)
VerifyAborts(v) ==
  /\ pc[v] = "idle" /\ v \in Verifies
  /\ \E reply \in {"rejected", "error"} : Goto(v, reply)
  /\ UNCHANGED <<now, table, cache, local, job, lost, faults>>

(* COMMIT itself fails: nothing is granted, the request goes on. *)
VerifyCommitFails(v) ==
  /\ pc[v] = "idle" /\ v \in Verifies
  /\ ~verified
  /\ Goto(v, "delT")
  /\ phase' = [phase EXCEPT ![v] = "grant"]
  /\ Fault(1)
  /\ UNCHANGED <<now, table, cache, utc, total, expire, next, job, lost>>
-----------------------------------------------------------------------------
(* The lambda stops between two calls. *)
Crash(r) ==
  /\ InFlight(r)
  /\ Goto(r, "crashed")
  /\ Fault(1)
  /\ UNCHANGED <<now, table, cache, local, job, lost>>

(* Time passes, and Redis drops the keys whose lifetime is over. *)
Expired(key) == key # NoKey /\ key.dies <= now + 1
Tick ==
  /\ now < MaxNow
  /\ now' = now + 1
  /\ cacheT' = IF Expired(cacheT) THEN NoKey ELSE cacheT
  /\ cacheE' = IF Expired(cacheE) THEN NoKey ELSE cacheE
  /\ UNCHANGED <<table, pc, local, job, lost, overlapped, faults>>

(* Every request is answered: nothing more happens. *)
Quiet == \A r \in Requests : pc[r] \in Done
Stop == Quiet /\ now = MaxNow /\ UNCHANGED vars

Init ==
  /\ now = 0
  /\ rows = StartRows
  /\ verified \in IF StartRows = <<>> THEN BOOLEAN ELSE {TRUE}
  /\ cacheT = NoKey /\ cacheE = NoKey
  /\ pc = [r \in Requests |-> "idle"]
  /\ phase = [r \in Requests |-> "check"]
  /\ utc = [r \in Requests |-> 0]
  /\ total = [r \in Requests |-> 0]
  /\ expire = [r \in Requests |-> 0]
  /\ next = [g \in Generates |-> 0]
  /\ jobs = {} /\ marks = {} /\ queue = {}
  /\ minted = [i \in DOMAIN StartRows |->
                 [size |-> StartRows[i].credits, expireat |-> StartRows[i].expireat,
                  owner |-> "start"]]
  /\ charged = [g \in Generates |-> {}]
  /\ lost = {} /\ overlapped = FALSE /\ faults = 0

Read(r)  == MGet(r) \/ QueryRows(r) \/ SetTotal(r) \/ SetExpire(r) \/ ReadFails(r)
Write(r) == DelTotal(r) \/ DelExpire(r) \/ Crash(r)
Pay(g)   == Debit(g) \/ DebitShort(g) \/ DebitAborts(g)
Place(g) == InsertJob(g) \/ MarkWorking(g) \/ SendJob(g) \/ Refund(g) \/ Unmark(g)
Grant(v) == Verify(v) \/ VerifyAborts(v) \/ VerifyCommitFails(v)

Next ==
  \/ \E r \in Requests : Read(r) \/ Write(r)
  \/ \E g \in Generates : Pay(g) \/ Place(g)
  \/ \E v \in Verifies : Grant(v)
  \/ Tick
  \/ Stop

Spec == Init /\ [][Next]_vars
-----------------------------------------------------------------------------
(***************************************************************************)
(* The properties.                                                         *)
(***************************************************************************)
Outcomes == Done \cup {"idle", "mget", "query", "setT", "setE", "txn", "delT", "delE",
                      "insert", "mark", "send", "refund", "unmark"}
Keys == [value : Nat, dies : Nat] \cup {NoKey}
Owners == Requests \cup {"start"}

(* The state has the shape the code gives it; in particular a row of        *)
(* allocatedcredits is deleted when it is drained, never left at zero.     *)
TypeOK ==
  /\ now \in Nat
  /\ minted \in Seq([size : Nat \ {0}, expireat : Nat, owner : Owners])
  /\ DOMAIN rows \subseteq DOMAIN minted
  /\ rows \in [DOMAIN rows -> [credits : Nat \ {0}, expireat : Nat]]
  /\ verified \in BOOLEAN
  /\ cacheT \in Keys /\ cacheE \in Keys
  /\ pc \in [Requests -> Outcomes]
  /\ phase \in [Requests -> {"check", "debit", "refund", "unsend", "grant"}]
  /\ utc \in [Requests -> Nat]
  /\ total \in [Requests -> Nat]
  /\ expire \in [Requests -> Nat]
  /\ next \in [Generates -> Nat]
  /\ jobs \subseteq Generates /\ marks \subseteq Generates /\ queue \subseteq Generates
  /\ charged \in [Generates -> SUBSET (Nat \X Nat)]
  /\ lost \subseteq Requests
  /\ overlapped \in BOOLEAN
  /\ faults \in Nat

Refunded(g) == \E i \in DOMAIN minted : minted[i].owner = g

(* Whatever the cache says and however requests interleave, the table is a *)
(* ledger: a debit takes exactly its price, once, from unexpired credits,  *)
(* the earliest to expire first; no credit is spent twice; one refund at   *)
(* most per debit and one grant at most per user.                          *)
Ledger == INSTANCE CreditLedger WITH
  Payer <- Generates, Grantor <- Verifies, Price <- Cost, GrantSize <- FreeCredits,
  Start <- [i \in DOMAIN StartRows |->
              [size |-> StartRows[i].credits, expireat |-> StartRows[i].expireat,
               owner |-> "start"]],
  Nobody <- "start", Time <- 0 .. (MaxNow + FreeLife + RefundLife),
  clock <- now, batches <- minted, live <- Units(DOMAIN rows), spent <- charged
LedgerSpec == Ledger!LedgerSpec

(* A generate request that is answered with a job id has been debited, not *)
(* refunded, and its row, status key and message all exist.                *)
OkMeansPaid ==
  \A g \in Generates : pc[g] = "ok" =>
    /\ charged[g] # {} /\ ~Refunded(g)
    /\ g \in jobs \cap marks \cap queue

(* A message in the generate queue has been paid for and has its row; it   *)
(* is refunded as well only if the reply to its SendMessage was lost.      *)
QueuedMeansPaid ==
  \A g \in queue :
    /\ charged[g] # {} /\ g \in jobs
    /\ Refunded(g) => g \in lost

(* Without an infrastructure fault, a request is debited only if it goes   *)
(* on to its job: concurrency alone never costs the user a credit.         *)
ChargedMeansJob ==
  faults = 0 => \A g \in Generates :
    charged[g] # {} <=> pc[g] \in {"delT", "delE", "insert", "mark", "send", "ok"}

(* When no request overlaps another and no call fails, a total the cache   *)
(* answers with is the live total of the table: every writer invalidates,  *)
(* and no cached total outlives the first row it counts.                   *)
CacheCoherentWhenSerial ==
  ~overlapped /\ faults = 0 /\ (\A r \in Requests : ~InFlight(r)) /\ CacheHit
    => cacheT.value = Worth(LiveRows(now))

(* x-next-fetch is 1, or the second in which the earliest row that is left *)
(* expires: the client never waits past the next change of its total.      *)
NextFetchHonest ==
  [][\A g \in Generates : charged'[g] # charged[g] =>
       \/ next'[g] = 1
       \/ \E p \in DOMAIN rows' :
            /\ next'[g] = Secs(rows'[p].expireat)
            /\ \A i \in DOMAIN rows' :
                 rows'[i].expireat > now => rows'[i].expireat >= rows'[p].expireat
    ]_vars
-----------------------------------------------------------------------------
(* Statements of the repository that the code does not keep.               *)

(* get_profile.rs: `Responds with OK and JSON', of a read of one's own     *)
(* profile when nothing fails.                                             *)
ProfileAnswers == faults = 0 => \A p \in Profiles : pc[p] # "error"
=============================================================================
