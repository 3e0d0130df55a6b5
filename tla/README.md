# A TLA+ development for rapidl-backend

rapidl-backend is a set of AWS Lambda functions written in Rust
(`rust_app/`) that share three stores: Postgres (users, credits, generation
jobs, support tickets), Redis (sessions, caches, cooldowns) and S3 (generated
papers, incoming mail), and that talk to each other through SQS queues and
Lambda invocations.  Every function may run many times at once and may stop
between any two calls; no transaction spans two stores.  That is where the
code can go wrong without any single function being wrong, and that is what
these modules describe.

## Inventory

| Component | State | Operations | Hard behaviour | Correct when |
|---|---|---|---|---|
| **Credits** (`common-types-accounts/src/lib.rs`, `routes/generate.rs`, `routes/verify.rs`, `routes/get_profile.rs`) | rows of `allocatedcredits`, `users.emailverified`, Redis `user:{id}:cred:t` and `:e` | read the total through the cache, debit, refund, grant on e-mail confirmation | cache fill racing a debit, two debits on one total, lost replies, refund of what went through, expiry to the second | the table is a ledger: whole prices, unexpired units, earliest first, no unit twice, one refund per debit, one grant per user |
| **Generation** (`aws-lambda-generate/src/main.rs`, `generate.rs`, `routes/generated/content.rs`) | `generation` row, Redis `gen:job:{id}`, S3 object, SQS messages | create, claim, make, store, finish, flag as failed; retry; delete; get | at-least-once delivery, overlapping workers, unconditional UPDATEs, a message sent before its commit, an object deleted before its commit | an accepted job ends, a deleted one does not come back, the bucket agrees with the row |
| **Sessions** (`lib.rs` `Auth`, `middleware/*auth*`, `routes/login.rs`, `signup.rs`) | Redis `user:rtk:{id}`: one refresh id; tokens held by the client | log in, refresh, sign out, validate | compare and replace in two calls; refresh and access expiry windows | one live refresh id per user; an ended session fades out |
| **Support tickets** (`routes/contact.rs`, `routes/admin/support/*`, `aws-lambda-email-support-response-handler`) | `supporttickets`, `supportticketmessages`, S3 inbox | open, claim, release, close, answer, mail reply, delete | staff acting concurrently, a reply that reopens, a count outside the transaction | a claimed ticket has its owner, and only the owner acts; closed is final; the customer is told what is true; a reply is recorded or answered |
| **Cooldowns** (`send_verification.rs`, `contact.rs`, `subscribe_newsletter.rs`) | Redis keys with a lifetime | GET, SET (contact, verification) or GET, mail, SET (newsletter); a verdict on the domain kept for three days | two requests between GET and SET; a failure between mail and SET | one mail or ticket per period; the limit of open tickets holds |
| **Newsletter** (contact subscriber, bulk sender) | the SES contact list, the bulk queue | add, remove, ask, start a newsletter; list a page, mail it, queue the next | get and update in two calls, a page delivered again, a list that changes under the sender | everybody who stays in the list is mailed; answers are true |
| **Bounces** (`lib.rs` `is_safe_to_send_to`, bounce handler, contact subscriber) | `problematicemails` | count bounces, reset after a week, send or skip | a reset in two statements racing a bounce, a handler that stops half way | a bouncing address gets no mail until its row lapses |
| **Question generator** (`aws-lambda-generate/src/generate/*`) | none | stack questions, format | pure; options that are `unimplemented!()` | every slot of the paper is filled |
| Reads and names, request filters, wiring | none of their own | SELECTs, headers, configuration | - | - |

Interaction: `/generate` debits (Credits), inserts the row, sets the key and
sends the message (Generation); the worker knows nothing about credits; retry
sends the message again free of charge; the refund is made by `/generate`
alone, only while it still has the request.  The contact form (Cooldowns)
opens the tickets that the staff and the mail handler write (Tickets), and a
closed ticket makes room for another.  Every individual mail of the others goes
through the mail function, which asks the block list (Bounces); a bounce makes
the bounce handler ask that same function to take the address off the list
(Newsletter).  These meet in one call or one row, whose effect each module
leaves open: a mail handed to the mail function is where Tickets and Cooldowns
end and Bounces begins.

## Modules

| Module | What it is |
|---|---|
| `CreditLedger` | abstract: what the credits of one user promise, with no cache and no failure |
| `Credits` | the code of the credits, one step per call to a service; implements `CreditLedger` |
| `MCCredits` | prices and rows for TLC |
| `CreditLedger_proofs` | what the ledger conserves, proved for all constants |
| `Credits_proofs` | the invariants of `Credits`, and its refinement of `CreditLedger`, proved for all constants |
| `Generation` | one job and all the actors that touch it |
| `Generation_proofs` | the invariants of `Generation`, proved for all constants |
| `Sessions` | sign-up, login, refresh and sign-out of any users from any browsers |
| `MCSessions` | what TLC may rename in it |
| `Sessions_proofs` | the invariants of `Sessions`, proved for all constants |
| `Tickets`, `MCTickets`, `Tickets_proofs` | support tickets: the staff's requests and the customers' mails |
| `Cooldowns`, `MCCooldowns`, `Cooldowns_proofs` | the three forms that may be repeated, their keys, the open tickets |
| `Newsletter`, `MCNewsletter`, `Newsletter_proofs` | the contact list, and the bulk sender that goes through it |
| `Bounces`, `MCBounces`, `Bounces_proofs` | the block list, from the bounce to the mail that is not sent |

### Credits

One user; rows and keys are keyed by user, so the steps of two users commute.
`rows` is the table as a function from `creditid`, `cacheT`/`cacheE` the two
Redis keys with the time they die, `pc[r]` the call that request `r` makes
next, `phase[r]` on behalf of which part of the request (the total is read
twice by `/generate`: by the handler and again inside
`decrement_total_credits`, and `Resume` is what each does with it).  A Redis
pipeline is two commands, so a fill is `SetTotal` and `SetExpire`, an
invalidation `DelTotal` and `DelExpire`.  The debit's transaction is
serializable over rows locked FOR UPDATE, so it is one step; its loop is
described by where it ends (`BreaksAt`): the rows before `p` in the order of
expiry are worth less than the price, with `p` they are worth at least that.
The clock runs in ticks, `Second` ticks to a second, because Postgres compares
timestamps exactly and the code truncates them to seconds for Redis.

A unit of credit is a pair `<<creditid, k>>`; sums are cardinalities of sets
of units, which needs no recursion and lets the ledger say *which* units were
spent.  `minted`, `charged`, `lost`, `overlapped` and `faults` are history:
no action of the code reads them.

Every call is answered, fails without effect, or has its effect and loses its
reply; the caller cannot tell the last two apart.  `MaxFaults` bounds these and
the crashes.  A transaction that fails to serialize is not counted.

### Generation

One job; two jobs share nothing.  `status` is the column (or `"none"`), `lock`
the retry that holds the row FOR UPDATE while it talks to SQS and Redis,
`stale` the serializable transactions whose snapshot is out of date (every
write of the row puts all of them in it: such a claim or delete fails when it
gets to write), `queue` the messages that are not deleted, each named by its
sender.  `Work(w)` is one delivery; a worker may receive any message that is
still queued, at any time, so redelivery and overlap need no action of their
own.  What `populate()` does is fixed by the options of the job: a paper, an
error, or a panic for those that are `unimplemented!()`.

**When a message leaves the queue.**  The handler calls `delete_message` for
what it has finished and returns `Ok(())` in all other cases, with comments
such as "dont delete if it reaches this".  The repository does not contain the
configuration of the queue.  A queue that is mapped to a Lambda function (which
`LambdaEvent<SqsEvent>` suggests) deletes every message of a handler that
returns Ok.  The constant `DeletesOnReturn` is the one reading or the other;
`FALSE` is what the comments count on, and the runs and theorems say which they
use.  With `TRUE`, the reading under which `JobFinishes` is checked, each
delivery is the only one of its message, and a job may be left behind in three
ways, which the property names and the run shows to be all:

- a call failed: a claim whose reply is lost, say, leaves the job Working, though
  the comments promise to "try again later" (`main.rs:116`, `main.rs:120`);
- its options make `populate()` panic;
- the retry sent its message before it committed (`content.rs:111`): a worker
  that receives it at once waits for the row, fails to serialize and returns Ok,
  and the retry's COMMIT leaves the job Waiting without a message
  (`RetryOvertakesClaim`).

That is also why `UnfinishedHasMessage` has the premise `~DeletesOnReturn`.

### Sessions

`rtk[u]` is the key `user:rtk:{id}` and `dies[u]` the second its lifetime ends
in; `minted[i]` is what the pair of tokens with refresh id `i` says (a refresh
id is a UUID, so it is drawn from `Ids` and never twice); `jar[b]` is the pair
of cookies of a browser, which the code sets and clears together and with the
same `Expires`.  A request carries the cookies it was sent with (`req[r].tok`)
and moves through the middlewares in the order of the routers: login revokes
the cookies it is sent with *before* it looks at the password, sign-up does
not look at them, refresh checks and compares before its handler, sign-out
clears the cookies whatever Redis answers.  GET and the later SET or DEL are
separate steps, and the SET and the DEL are unconditional, as in the code.
Responses arrive in any order.

A session is a chain of refreshes from one login.  `gone` records the sessions
that Redis let go of (DEL, or the SET of another session) while no refresh of
them had passed its comparison, and `endedAt` when.  The ones left out are a
known race of the code: a refresh that has compared its id stores the next one
with an unconditional SET, so a sign-out or login in between is undone and the
session goes on under its new id.

The clock runs in seconds because every comparison of the code does
(`Utc::now().timestamp()`); a key set within a second dies at some instant of
the second `clock + RefreshSecs`, so `Expire` may come before or after other
steps of that second, and `Tick` waits for it.

### Tickets

`ticket[t]` is the row of `supporttickets` (or `None`), `messages[t]` who wrote
on it, in order.  The writers are the requests of the staff (`req[s]`, of the
account `Agent[s]`) and one task of the mail handler per mail (`mail[m]`).
Every writer runs a SERIALIZABLE transaction that begins with SELECT FOR
UPDATE.  Two steps stand for it: the snapshot, and everything from the lock to
COMMIT; `overtaken` is set in the others when a COMMIT changes the row, and an
overtaken transaction fails when it comes to its turn, as Postgres makes it.
The rows on which an operation goes on to write are `Proceeds`, the match of
`put_request` with its early returns taken out.

Delete and Post do nothing before their transaction that the table could
contradict, so they start at the snapshot.  The PUT reads the account first
(`ReadUser`), the only place where the privilege in the token is checked
against the table.  The reply to the customer goes out only after COMMIT
(`Tell`) and its result is dropped.  A mail is deleted from the inbox whatever
became of it (`Drop`); Lambda may run the handler again after a stop (`Crash`).
What the parser, the verdicts and the length make of a mail is its `kind`.  One
kind, `uncut`, is a summary whose byte 100 lies inside a character: `truncate`
panics (`main.rs:224`), the task dies, and the mail is deleted without record or
answer.  `ReplyLostTwoWays` names this and the transaction that another COMMIT
overtook as the ways in which a reply is lost without a failed call, and says
that there is no third.  Delete removes the row of the ticket only: what becomes
of its messages is up to the schema of the database, which the repository does
not contain, so `messages` keeps them.

`gone`, `told`, `answered` and `crashed` are history.

### Cooldowns

`req[r]` is a request of one of the three kinds and the call it makes next,
`keys` the cooldown keys that Redis has, `verdict` the kept verdict on a domain,
`open` the tickets of an address that are not closed.  `After` is the order of
the calls: contact and verification write their key as soon as they have found
it absent, the newsletter only when its mail is out.  `Fail` is any failure at
any call, with or without the effect, and the stop of a handler.

A key may run out when nobody is between finding it absent and the end of the
request: an answer takes less than the 30 seconds API Gateway waits for, the
shortest cooldown is 120 seconds by default.  Deployments that configure a
cooldown of less than a request are outside the model.

`loose` are the keys that two requests got past at once, or a newsletter mail
went out for and no key was written: the hazards themselves, remembered so that
the properties can say that nothing *else* breaks the promise.  `served` counts
tickets or mails for a key since it last ran out.

### Newsletter

`contact[e]` is what SES says of an address (`in`, `out`, `none`).  A call of
the mail function reads it (`Get`) and writes it in a second call (`Update`,
`Create`); any error of the read counts as a contact that does not exist
(`GetFails`), and creating one that does is refused by SES.  `call[c].seen`
collects what the list has said of the address during the call.

The bulk sender takes a message from the queue, which asks for the contacts
after a position of `Order`, the order in which SES lists them; it mails each,
queues the page after and deletes the message.  A sender that stops or whose
call fails has its message delivered again (`Stops`), also when the next page
was queued already.  Any message may be delivered twice (`DeliveredTwice`),
which counts as a fault.  `tried[e]` counts calls of `send_email`; the code
looks at no result of them.

### Bounces

`row[e]` is the row of `problematicemails`: a count, and whether its date is
still to come (`fresh`) or has `lapsed`.  The check of an individual mail reads
it and, when it has lapsed, sets the count to zero in a second statement which
leaves the date (`Check`, `Reset`): `wiped` remembers the addresses that bounced
between the two.  A notice is one recipient of a bounce or complaint; the
handler counts it, asks for the removal and deletes the message, and goes on
when one of the first two fails.  The notices in `Unreadable` do not deserialize
(the subtypes are closed enums): they are logged and deleted, uncounted.
`NoticeLostTwoWays` names this and the failed call as the ways in which a bounce
is lost.

## Runs

| Run | Instance | Shows |
|---|---|---|
| `credits_race` | 2 debits (prices 2 and 3), 2 rows of 2 that expire at 5 and 7, clock to 6, 2 ticks a second, no fault | `LedgerSpec` (refinement), `ChargedMeansJob`, `CacheCoherentWhenSerial`, `NextFetchHonest`, `TypeOK` |
| `credits_faults` | 1 debit, 2 confirmations, empty table, 2 faults | `LedgerSpec` again (one grant, one refund), `OkMeansPaid`, `QueuedMeansPaid` |
| `generation_overlap` | 2 workers, 1 retry, 1 delete, 1 fault, all kinds, messages stay, `FairSpec` | `UnfinishedHasMessage`, `DeletedStaysDeleted`, `QueueDrains`, `TypeOK` |
| `generation_single` | 1 worker, 2 retries, 2 deletes, 1 get, 1 fault, `DeletesOnReturn` | `StatusMoves`, `RowMatchesObject` |
| `generation_mapped` | 2 workers, 1 retry, 1 delete, 1 fault, all kinds, `DeletesOnReturn`, `FairSpec` | `JobFinishes` |
| `sessions` | 1 user, 2 browsers, 2 requests, 3 token pairs, lifetimes 1 and 2 s, clock to 3, 1 fault | `GoneFadesOut`, `SignedInStaysSignedIn`, `IdsRotate`, `TypeOK` |
| `tickets` | 1 ticket, 2 addresses, 2 members of the staff, 1 mail, 1 answer of the team, 1 fault, 1 stop | `OwnerMatchesState`, `OnlyOwnerActs`, `ClosedIsFinal`, `ToldIsTrue`, `WithdrawnGainNothing`, `SettledOncePerDelivery`, `ReplyLostTwoWays`, `TypeOK` |
| `cooldowns` | 2 requests at once, 4 in all, 3 addresses in 2 domains, 2 client addresses, 1 account, 1 open ticket allowed, 1 fault | `ServedOncePerCooldown`, `OpenWithinLimit`, `HeldBackMeansMailed`, `OnlyGoodDomains`, `TypeOK` |
| `newsletter` | 2 addresses on a page each, 2 calls of the mail function, 2 senders, 1 fault or second delivery, fair senders | `NewsletterReaches`, `CopiesBounded`, `AnswersHonest`, `TypeOK` |
| `bounces` | 2 mails and 2 bounces of one address, 1 of another, 1 notice that cannot be read, limit 1, 2 lapses, 2 faults | `CountCoversBounces`, `BouncingIsSkipped`, `NoticeLostTwoWays`, `TypeOK` |
| `profile_error` | one profile read | `SET ... EX 0` in the last second of a row: an internal error without a fault |
| `deleting_forever` | 1 worker, 1 delete, fair | a job marked Deleting stays for ever |

The bounds.  Two debits are enough for a race on one total, and two rows with
prices 2 and 3 reach every branch of the drain: an exact row, a row taken in
part, a row taken whole and the next in part, not enough.  The clock passes the
expiry of the first row, in the middle of a second.  Two faults let the refund
fail after the send has, which is the longest chain of failures the code
handles.  For a job, two deliveries overlap; a third would repeat what one of
them does, since a worker's next step depends on the row and not on the other
worker.  Two deletes, in `generation_single`, cover a delete that finds `Deleting`.

For sessions, three pairs of tokens allow a login, a refresh of it, and a
refresh or login that races; a session may begin at second 0, be refreshed
when its access token is about to expire at 1, end, fade out at 2 and lose its
cookies at 3.  A third request would race with another that has passed the same
comparison, which is what two do.  Two users share nothing but a browser.
`SignedInStaysSignedIn` is stated for requests that do not overlap: two tabs
that refresh at once both succeed, and the browser may keep the id that was
overwritten.

Without overlap, `RowMatchesObject` and `StatusMoves` hold; with it they do not:
a second delivery writes Success after a delete has removed the object and
before its row goes (`generate.rs:149`, `content.rs:403`).  So they are stated
for one worker.

One ticket is enough because no step touches two.  Two members of the staff
cover every pair of operations on it, with a mail and the opening of the ticket
beside them; two addresses, the mail of a stranger.  One fault lets each of the
calls fail or lose its COMMIT, one stop makes a mail be delivered twice.
For the cooldowns, two requests race and four in all let a key be passed, run
out and be passed again, and the limit of open tickets be reached; the client
address and the address are independent, hence two of each, and a third in the
domain that cannot have mail.  With one contact on a page the newsletter has
two pages, and two senders carry two chains of them after a fault.  Two bounces
exceed the limit of one; two lapses let a row lapse, be reset, bounce and lapse
again.

Several properties are stated for what a known race of the code did not happen
to: `SignedInStaysSignedIn` and `CacheCoherentWhenSerial` for requests that do
not overlap, `GoneFadesOut` for sessions that no refresh was half way through,
`ServedOncePerCooldown` and `OpenWithinLimit` for keys that one request at a
time got past, `CountCoversBounces` and `BouncingIsSkipped` for addresses that
did not bounce between the two statements of the reset, `WithdrawnGainNothing`
for the PUT, the only request that asks the table about the privilege.  Such a
property does not catch its race; it says how far the race goes, that nothing
else breaks the promise.

### Fairness

Runs without a liveness property use no fairness.
`FairSpec` assumes weak fairness of each worker (SQS delivers what is in the
queue, and Lambda runs what it delivers until it returns, fails or times out)
and of a retry that holds the row (it goes on, or Postgres rolls it back when its
connection dies).  Nothing is assumed of users.

What that comes to depends on the reading of the queue.  With `DeletesOnReturn`
a message leaves the queue when the handler returns, and fairness means one
delivery that runs to its end and no more: `JobFinishes` needs nothing else, and
its premises name what one delivery does not repair.  Without it fairness means
redelivery after Ok too, which is not to be had from a mapped queue.  Only
`QueueDrains` is checked so: of a message that the queue keeps until somebody
deletes it, somebody does.  It is stated unless the row goes; the message of a
deleted row is never deleted, because the claim counts the missing row as a
Postgres failure.  Nor does a job that panics ever leave such a queue, so it is
excepted.

The bulk sender is fair in the same sense (`WF_vars(SweepStep(w))`); it returns
an error when a call fails, so that a mapped queue delivers again.  Stops are
bounded, as SQS would otherwise give a message up.

## Proofs

Every safety invariant and every action property that the runs check is also a
theorem, and so is the refinement of `CreditLedger`.

`CreditLedger_proofs` proves of the ledger alone (`LedgerIsKept`), under
`LedgerAssumption`, that it conserves credit: every unit ever granted is live or
was spent by exactly one payer (`Conserved`), a payer has spent nothing or its
whole price (`WholePrice`), and a grant and each refund are made once
(`CreditedOnce`).  These three are inductive together.

`Credits_proofs` proves, for any requests, prices, rows, lifetimes and bounds,
under the assumptions of `Credits` (the costs are positive numbers, no request
is called like the owner of the first rows, no key is mistaken for its absence,
durations and bounds are numbers, the first rows are rows), `CreditTypes`,
`NoFreeJobs`, `NoFreeMessages`, `ConcurrencyCostsNothing`, `CacheIsCoherent`,
the action property `FetchIsHonest`, and the refinement `TableIsALedger`.  The
inductive invariant `IInv` adds to `TypeOK`:

- `FitInv`: what a generate request has paid, and which of its row, key and
  message exist, at each call it is about to make; `OkMeansPaid`,
  `QueuedMeansPaid` and `ChargedMeansJob` are read off it.  It counts faults
  too: a request that was charged and ended without its job, or that is being
  refunded, has met one.
- `RowsInv`: a row keeps the expiry it was inserted with and no request's time
  lies ahead of the clock.
- `GrantInv`: nothing was granted for the confirmation before `emailverified`
  was set.
- `CacheInv`: while nothing overlapped and nothing failed, what the one request
  under way has read is the total of the live rows at a time not after now with
  an expiry no later than theirs, and two keys that are both there come from
  one such reading, unless the request is half way through a fill or an
  invalidation.  `CacheCoherentWhenSerial` is not inductive: it says nothing of
  how the two keys belong together, nor of what the clock may do to them.

The refinement goes action by action: the debit is `Spend` of the units that
the walk over the rows takes (`Taken`, whose size is proved to be the price),
the refund is `Refund`, the confirmation is `Grant`, the clock is `Advance`, and
every other step leaves table, charges and clock alone.  By it the table
inherits what the ledger conserves (`CreditIsConserved`), which no run needs to
check apart.

`Generation_proofs` proves, for every number of workers, retries, deletes,
reads and faults, under `ProcsAssumption` (no process plays two parts) and
`FaultsAssumption` (the bound is a number):

- `TypeCorrect`: `TypeOK` is inductive by itself.
- `NoJobIsLost`: `UnfinishedHasMessage`, if messages stay until deleted
  (`~DeletesOnReturn`).
- `DeletedForGood`: `DeletedStaysDeleted`, an action property.
- `StatusMovesAsDocumented` and `RowAndObjectAgree`: `StatusMoves` and
  `RowMatchesObject`, which are about one worker (`WorkersAssumption`: the
  workers are finitely many, so that they can be counted).

`UnfinishedHasMessage` is not inductive: it does not say that the last message
is not about to be deleted.  `IInv` adds

- `SafeInv`: while the job is waiting or working there is one message such that
  no worker holding it has passed the point where it finishes the job (or no
  message was ever sent);
- `RetryInv`: the message of a retry is new when it is sent, and until the
  retry commits whoever receives it is still at its claim;
- `LockInv`: which is so because the retry holds the row, and nobody writes a
  row that is held;
- `FreshInv`, `HoldsInv`, `SnapshotInv`: nothing happens before the row exists;
  a worker that is not idle holds a message; a delete with a current snapshot
  that is about to flag the row sees it Waiting.

`DeletedStaysDeleted` follows from `LockInv` and `SnapshotInv`: those who could
write a row that is gone are a retry (which holds it) and a delete (which has
read it), and a worker's UPDATE finds nothing.

For one worker, `ClaimedInv` says that a job is Working from the worker's claim
to its last write, and `DropInv` that a delete whose snapshot of a finished job
is current sees a finished job: together with `LockInv` and `SnapshotInv` they
fix the source of every move.  `RowMatchesObject` needs `MatchInv` besides: a
successful job has lost its object only to a delete whose snapshot is current
(so that it will get the row, or wait), and such a delete has left no object
behind.  TLC has checked these invariants on the instances of the runs, `IInv`
under both readings of the queue.

`Sessions_proofs` proves, for any users, browsers, requests, ids, lifetimes and
number of faults, under `NoneAssumption` (`None` is none of the others) and
`SecsAssumption` (the durations and bounds are numbers):

- `SessionTypes`: `TypeOK`.
- `GoneForGood`: `GoneFadesOut`.  It is not inductive: a refresh under way
  could store or mint a token of a session that is gone.  `GoneInv` says that
  none of them will (`Extends`), and that the last token was minted before the
  end; `MintedInv`, that a session belongs to one user, so that it is in one
  key only; `CarryInv`, what a request carries at each call.
- `RefreshIdsRotate`: `IdsRotate`, from `FreshInv`: an id that is about to be
  stored is known to its own request only.
- `NobodyIsLockedOut`: `SignedInStaysSignedIn`, from `KeyInv` (a key outlives
  the cookie with its id) and `SerialInv`, which says of one request at a time
  without faults: two browsers hold different ids (`OneJar`); an id in a browser
  is in Redis, or the response on its way to that browser brings the one that
  is (`LiveInv`, `GivenInv`); a refresh replaces the id of its own browser
  (`RefreshInv`); and a login begins a session with no other token, so what its
  SET displaces is a session that ends (`NewInv`).

The actions that choose something (`Start`, `RevokeDel`, `Mint`, `Set`) are
first brought into a shape with the choice as a parameter (`StartShape` ...),
so that each invariant is proved of each action from the shape alone.

`Tickets_proofs` proves, under `TicketConstants` (ids of different kinds are
different, bounds are numbers), for any staff, tickets, customers and mails,
`TicketTypes`, `OwnersFit`, `TellsTheTruth` and the action properties
`OnlyTheOwner`, `ClosedStays` and `PrivilegeIsAsked`.  The inductive invariant
`IInv` adds to `TypeOK`:

- `CarryInv`: what a request or mail holds at each call (an operation and a
  ticket), and that only a PUT looks at the account;
- `OwnerMatchesState`, which each write keeps because `Proceeds` held;
- `UsedInv` and `TellInv`: a row has been given its id, and the same goes for
  what is told; what a request is about to tell is committed (closed is final,
  messages are only appended, a deleted ticket does not come back);
- `GoneInv`: an account in `gone` has no PUT past the check.

`CommitStep` and `AppendKeeps` carry the part that the writers have in common,
`OvertakenReq` and `OvertakenMail` say that a COMMIT only changes the flags of
the others.

Two theorems have invariants of their own.  `RepliesLostTwoWays`, by `ReplyInv`:
when no call has failed, a reply that could be read is in the inbox while its
transaction runs, and once it is past it, or out of the inbox, it is answered or
on record (`Filed`), unless it was overtaken or its task died on the cut.
`EachDeliverySettlesOnce`, by `OnceInv`: the copies of a mail and its answer are
no more than its handlers that were stopped and the one that is past its
transaction.

`Cooldowns_proofs` proves `CooldownTypes`, `OncePerCooldown`,
`CooldownGuardsLimit` and `NobodyHeldBackForNothing` under `CooldownConstants`.
`ServedOncePerCooldown` is not inductive: it must say that a request still
under way has not been served.  `UniqueInv`: a key outside `loose` has been
passed by one request at most.  `MarkedInv`: who is past the SET of a key finds
it in Redis.  `ServedInv`: if a key outside `loose` has served something then it
is in Redis or its newsletter mail has just gone out, and no request is left
that would serve it again.  `LimitInv`: between the count and
the insert there is room for the address.  `NewsInv`: the newsletter key is
written after the mail only.  `OnlyRealDomains` has `DomainInv`: a
kept verdict says that a domain may have mail only if it may, and no request
that asks for the verdict has got past it with an address of another domain.

`Newsletter_proofs` proves `NewsletterTypes` and `MailFunctionIsHonest`.
`Fits` says what a call holds at each step, `SeesNow` that the present status of
its address is always among those it has seen.  `FewCopies` proves
`CopiesBounded` by counting: for each position of the list, the pages queued
before it and the senders that have it ahead of them, and the mails already
sent to it, are never more than one start, the calls that failed and the
messages delivered twice (`BoundAt`).  It rests on `SendInv`, that a page lies after the position its
sender was asked for and before the next page, and on the part of
`NewsletterConstants` that says an address is in the order of the list once (it
is the key of the contact).

`Bounces_proofs` proves `BounceTypes`, `CountIsKept`, `NoMailToBouncing` and
`ReadableBouncesCount`.  `LapsedInv`: a row that has lapsed has counted no bounce
since.  `ResetInv`: while a mail is between the two statements, its address has
no bounce since the lapse or is in `wiped`.  `NoticeInv`: past the count, a
notice is counted or excused; past the request, asked for or excused; one that cannot be read is at no call
but the deletion.

Liveness under fairness is out of the prover's reach and stays with TLC:
`JobFinishes`, `QueueDrains`, `NewsletterReaches`, and the violation
`DeletingIsDeleted`.  `ProfileAnswers`, which the code violates, is TLC's too.

## Not modelled

See `PROJECT.json`, "components".  Lists, batch reads, renames and the reads of
the support desk are single statements; request filters (reCAPTCHA, CORS,
client address) are stateless; the generator of questions is pure code over
random floats and strings, which has no state to check and whose numbers TLC
has no type for.  Of the bulk sender, the branches `send_bulk` and
`requires_subscription = false` are left out: no message of this code asks for
them.  Texts, names, summaries and mail templates are data throughout.

The bounce that follows a mail is not tied to it: a notice may arrive at any
time, which includes every order that the mail servers can produce.

## Plan

1. Done: Credits with its ledger; Generation, Sessions, Tickets, Cooldowns,
   Newsletter, Bounces; every safety property and the refinement proved.
2. `Generate`: Credits and Generation composed, from the debit to the object,
   with the two proofs joined at the message.
3. The promises of the other components as abstract specifications of their own
   (a session store, a ticket), with the refinement proved as for the credits.
