------------------------------ MODULE Sessions ------------------------------
(***************************************************************************)
(* Who is signed in.  Redis keeps one refresh id per user (user:rtk:{id}); *)
(* a browser keeps a pair of signed cookies, X-ATK and X-RTK, that are set *)
(* and cleared together.  The access token is accepted by its signature,   *)
(* address and time alone; the refresh token must also be the one in       *)
(* Redis.  Signing in, refreshing and signing out are requests that may    *)
(* overlap, from one browser or several, and a request talks to Redis in   *)
(* separate calls: it compares the id with a GET, and a later SET or DEL   *)
(* is unconditional.                                                       *)
(*                                                                         *)
(* A pair of tokens is named by the id of its refresh token.  The tokens   *)
(* that descend from one login or sign-up make a session, which is named   *)
(* by the first of them.  The clock runs in seconds, to which the code     *)
(* truncates what it compares; a key of Redis dies at some instant of the  *)
(* second its lifetime ends in.                                            *)
(***************************************************************************)
EXTENDS Integers, FiniteSets

CONSTANTS
  Users, Browsers, Requests,
  Ids,            \* the refresh ids (Uuid::new_v4), never drawn twice
  Addresses,      \* the client addresses
  None,           \* no user, browser, token or address
  AccessSecs,     \* ACCESS_TOKEN_EXPIRES_SEC
  RefreshSecs,    \* REFRESH_TOKEN_EXPIRES_SEC
  EarlySecs,      \* how long before its expiry an access token is "close to" it
  MaxClock,       \* bound on the clock
  MaxFaults       \* bound on failed calls, lost replies and crashes

Token == [user : Users, session : Ids, at : Nat, ip : Addresses]

ASSUME NoneAssumption ==
  None \notin Users \cup Browsers \cup Ids \cup Addresses \cup Token
ASSUME SecsAssumption ==
  {AccessSecs, RefreshSecs, EarlySecs, MaxClock, MaxFaults} \subseteq Nat

VARIABLES
  clock,
  exists,         \* the users in the table users
  rtk, dies,      \* user:rtk:{id} in Redis, or None, and when it dies
  minted,         \* minted[i]: what the tokens with refresh id i say
  jar,            \* jar[b]: the cookies of browser b
  pc, req,        \* the call each request makes next, and what it carries
  gone,           \* history: the sessions that Redis has let go of while no
  endedAt,        \*   refresh of them was under way, and when
  overlapped,     \* history: two requests have been under way at once
  faults

redis   == <<rtk, dies>>
history == <<gone, endedAt>>
vars == <<clock, exists, redis, minted, jar, pc, req, history, overlapped, faults>>

Kinds == {"login", "signup", "refresh", "signout"}
Calls == {"idle", "revoke", "delete", "handler", "check", "get", "mint", "set", "reply"}

Blank == [kind |-> "none", browser |-> None, user |-> None, tok |-> None,
          ip |-> None, new |-> None, cookies |-> "keep"]

Answers == {"done", "failed", "lost"}
Effect(a) == a \in {"done", "lost"}
Answer(a) == /\ faults' = faults + (IF a = "done" THEN 0 ELSE 1)
             /\ faults' <= MaxFaults

Goto(r, from, to) == pc[r] = from /\ pc' = [pc EXCEPT ![r] = to]

(***************************************************************************)
(* What the tokens are good for.                                           *)
(***************************************************************************)
AccessExpires(i)  == minted[i].at + AccessSecs
RefreshExpires(i) == minted[i].at + RefreshSecs
Expired(t) == clock > t
CloseToExpire(t) == clock >= t \/ t - clock < EarlySecs

(* validate_access_auth: Redis is not asked. *)
Accepts(i, ip) == minted[i].ip = ip /\ ~Expired(AccessExpires(i))

(* extend_auth, before it asks Redis. *)
MayRefresh(i, ip) ==
  /\ minted[i].ip = ip
  /\ CloseToExpire(AccessExpires(i))
  /\ ~Expired(RefreshExpires(i))

(* The session a token belongs to, and the one Redis keeps for a user. *)
Session(i) == minted[i].session
Holds(u, s) == rtk[u] # None /\ Session(rtk[u]) = s

(* The next SET of request q stores a token of session s. *)
Extends(q, s) ==
  \/ pc[q] = "set" /\ Session(req[q].new) = s
  \/ pc[q] = "mint" /\ req[q].kind = "refresh" /\ Session(req[q].tok) = s

(* Redis lets go of session s in this step. *)
End(s) ==
  IF \E q \in Requests : Extends(q, s)
  THEN UNCHANGED <<gone, endedAt>>
  ELSE /\ gone' = gone \cup {s}
       /\ endedAt' = [endedAt EXCEPT ![s] = clock]

(***************************************************************************)
(* A request leaves the browser with the cookies that have not expired.    *)
(* Sign-up alone does not look at them.                                    *)
(***************************************************************************)
Unminted == {i \in Ids : minted[i] = None}
Busy == {q \in Requests : pc[q] # "idle"}
Sent(b) == IF jar[b] # None /\ Expired(RefreshExpires(jar[b])) THEN None ELSE jar[b]

FirstCall(kind, tok) ==
  CASE kind = "signup"  -> "handler"
    [] kind = "refresh" -> IF tok = None THEN "reply" ELSE "check"
    [] kind = "signout" -> IF tok = None THEN "reply" ELSE "revoke"
    [] kind = "login"   -> IF tok = None THEN "handler" ELSE "revoke"

Start(r, kind, b) ==
  LET tok == IF kind = "signup" THEN None ELSE Sent(b) IN
  /\ Goto(r, "idle", FirstCall(kind, tok))
  /\ kind # "signout" => Cardinality(Busy) < Cardinality(Unminted)
  /\ \E u \in IF kind \in {"login", "signup"} THEN Users ELSE {None}, ip \in Addresses :
       req' = [req EXCEPT ![r] =
                [Blank EXCEPT !.kind = kind, !.browser = b, !.user = u,
                              !.tok = tok, !.ip = ip,
                              !.cookies = IF kind = "signout" THEN "clear" ELSE "keep"]]
  /\ overlapped' = (overlapped \/ Busy # {})
  /\ UNCHANGED <<clock, exists, redis, minted, jar, history, faults>>

(***************************************************************************)
(* Revoking: a GET to compare, then a DEL of whatever the key is by then.  *)
(* Sign-out does it to sign out; login does it to the cookies it is sent   *)
(* with, before the password is looked at.  Every error is ignored.        *)
(***************************************************************************)
AfterRevoke(r) == IF req[r].kind = "login" THEN "handler" ELSE "reply"

RevokeGet(r) ==
  /\ \E a \in {"done", "failed"} :
       /\ LET matches == a = "done" /\ rtk[minted[req[r].tok].user] = req[r].tok
          IN Goto(r, "revoke", IF matches THEN "delete" ELSE AfterRevoke(r))
       /\ Answer(a)
  /\ UNCHANGED <<clock, exists, redis, minted, jar, req, history, overlapped>>

RevokeDel(r) ==
  /\ Goto(r, "delete", AfterRevoke(r))
  /\ LET u == minted[req[r].tok].user IN
     \E a \in Answers :
       /\ Answer(a)
       /\ \/ /\ Effect(a)
             /\ rtk' = [rtk EXCEPT ![u] = None]
             /\ IF rtk[u] # None THEN End(Session(rtk[u])) ELSE UNCHANGED <<gone, endedAt>>
          \/ /\ ~Effect(a)
             /\ UNCHANGED <<rtk, gone, endedAt>>
  /\ UNCHANGED <<clock, exists, dies, minted, jar, req, overlapped>>

(***************************************************************************)
(* The handlers that may end in new tokens.                                *)
(***************************************************************************)
LogIn(r) ==                    \* refused: wrong password, no such user, Postgres
  /\ req[r].kind = "login"
  /\ \/ Goto(r, "handler", "mint") /\ req[r].user \in exists
     \/ Goto(r, "handler", "reply")
  /\ UNCHANGED <<clock, exists, redis, minted, jar, req, history, overlapped, faults>>

SignUp(r) ==
  /\ req[r].kind = "signup"
  /\ \E a \in Answers :
       /\ Goto(r, "handler",
               IF a = "done" /\ req[r].user \notin exists THEN "mint" ELSE "reply")
       /\ exists' = IF Effect(a) THEN exists \cup {req[r].user} ELSE exists
       /\ Answer(a)
  /\ UNCHANGED <<clock, redis, minted, jar, req, history, overlapped>>

RefreshCheck(r) ==
  /\ Goto(r, "check", IF MayRefresh(req[r].tok, req[r].ip) THEN "get" ELSE "reply")
  /\ UNCHANGED <<clock, exists, redis, minted, jar, req, history, overlapped, faults>>

RefreshGetUncompared(r) ==      \* seeded fault: any id in Redis will do
  /\ \E a \in {"done", "failed"} :
       /\ LET matches == a = "done" /\ rtk[minted[req[r].tok].user] # None
          IN Goto(r, "get", IF matches THEN "mint" ELSE "reply")
       /\ Answer(a)
  /\ UNCHANGED <<clock, exists, redis, minted, jar, req, history, overlapped>>

RefreshGet(r) ==
  /\ \E a \in {"done", "failed"} :
       /\ LET matches == a = "done" /\ rtk[minted[req[r].tok].user] = req[r].tok
          IN Goto(r, "get", IF matches THEN "mint" ELSE "reply")
       /\ Answer(a)
  /\ UNCHANGED <<clock, exists, redis, minted, jar, req, history, overlapped>>

(***************************************************************************)
(* New tokens: they are signed with the time of now, stored with a SET     *)
(* that asks nothing, and put into the cookies when the SET is answered.   *)
(***************************************************************************)
OwnerForgotten(r) == req[r].user      \* seeded fault: a refresh has no identity
Owner(r) == IF req[r].kind = "refresh" THEN minted[req[r].tok].user ELSE req[r].user

Mint(r) ==
  /\ Goto(r, "mint", "set")
  /\ \E i \in Unminted :
       /\ minted' = [minted EXCEPT ![i] =
            [user |-> Owner(r), at |-> clock, ip |-> req[r].ip,
             session |-> IF req[r].kind = "refresh" THEN Session(req[r].tok) ELSE i]]
       /\ req' = [req EXCEPT ![r].new = i]
  /\ UNCHANGED <<clock, exists, redis, jar, history, overlapped, faults>>

StoreShort(r) ==      \* seeded fault: the key lives as long as the access token
  LET u == minted[req[r].new].user
      s == Session(req[r].new)
  IN /\ rtk' = [rtk EXCEPT ![u] = req[r].new]
     /\ dies' = [dies EXCEPT ![u] = clock + AccessSecs]
     /\ IF rtk[u] # None /\ ~Holds(u, s)
        THEN End(Session(rtk[u]))
        ELSE UNCHANGED <<gone, endedAt>>

StoreOld(r) ==        \* seeded fault: a refresh keeps the id it was sent
  LET u == minted[req[r].new].user
      s == Session(req[r].new)
  IN /\ rtk' = [rtk EXCEPT ![u] = IF req[r].kind = "refresh" THEN req[r].tok ELSE req[r].new]
     /\ dies' = [dies EXCEPT ![u] = clock + RefreshSecs]
     /\ IF rtk[u] # None /\ ~Holds(u, s)
        THEN End(Session(rtk[u]))
        ELSE UNCHANGED <<gone, endedAt>>

Store(r) ==
  LET u == minted[req[r].new].user
      s == Session(req[r].new)
  IN /\ rtk' = [rtk EXCEPT ![u] = req[r].new]
     /\ dies' = [dies EXCEPT ![u] = clock + RefreshSecs]
     /\ IF rtk[u] # None /\ ~Holds(u, s)
        THEN End(Session(rtk[u]))
        ELSE UNCHANGED <<gone, endedAt>>

Set(r) ==
  /\ Goto(r, "set", "reply")
  /\ \E a \in Answers :
       /\ Answer(a)
       /\ req' = IF a = "done" THEN [req EXCEPT ![r].cookies = "give"] ELSE req
       /\ \/ Effect(a) /\ Store(r)
          \/ ~Effect(a) /\ UNCHANGED <<redis, gone, endedAt>>
  /\ UNCHANGED <<clock, exists, minted, jar, overlapped>>

(* The response arrives, at any time and in any order. *)
Cookies(r) ==
  CASE req[r].cookies = "keep"  -> jar[req[r].browser]
    [] req[r].cookies = "clear" -> None
    [] req[r].cookies = "give"  -> req[r].new

Receive(r) ==
  /\ Goto(r, "reply", "idle")
  /\ jar' = [jar EXCEPT ![req[r].browser] = Cookies(r)]
  /\ req' = [req EXCEPT ![r] = Blank]
  /\ UNCHANGED <<clock, exists, redis, minted, history, overlapped, faults>>

(* The function stops, or its response is lost on the way. *)
Vanish(r) ==
  /\ pc[r] # "idle"
  /\ pc' = [pc EXCEPT ![r] = "idle"]
  /\ req' = [req EXCEPT ![r] = Blank]
  /\ faults' = faults + 1 /\ faults' <= MaxFaults
  /\ UNCHANGED <<clock, exists, redis, minted, jar, history, overlapped>>

Expire(u) ==
  /\ rtk[u] # None /\ clock = dies[u]
  /\ rtk' = [rtk EXCEPT ![u] = None]
  /\ UNCHANGED <<clock, exists, dies, minted, jar, pc, req, history, overlapped, faults>>

Tick ==
  /\ clock < MaxClock
  /\ \A u \in Users : rtk[u] # None => clock < dies[u]
  /\ clock' = clock + 1
  /\ UNCHANGED <<exists, redis, minted, jar, pc, req, history, overlapped, faults>>

Init ==
  /\ clock = 0 /\ exists = {} /\ faults = 0 /\ overlapped = FALSE
  /\ rtk = [u \in Users |-> None] /\ dies = [u \in Users |-> 0]
  /\ minted = [i \in Ids |-> None]
  /\ jar = [b \in Browsers |-> None]
  /\ pc = [r \in Requests |-> "idle"] /\ req = [r \in Requests |-> Blank]
  /\ gone = {} /\ endedAt = [i \in Ids |-> 0]

Step(r) ==
  \/ \E kind \in Kinds, b \in Browsers : Start(r, kind, b)
  \/ RevokeGet(r) \/ RevokeDel(r)
  \/ LogIn(r) \/ SignUp(r) \/ RefreshCheck(r) \/ RefreshGet(r)
  \/ Mint(r) \/ Set(r) \/ Receive(r) \/ Vanish(r)

Next == Tick \/ (\E u \in Users : Expire(u)) \/ (\E r \in Requests : Step(r))

Spec == Init /\ [][Next]_vars

-----------------------------------------------------------------------------
Request == [kind : Kinds \cup {"none"}, browser : Browsers \cup {None},
            user : Users \cup {None}, tok : Ids \cup {None},
            ip : Addresses \cup {None}, new : Ids \cup {None},
            cookies : {"keep", "clear", "give"}]

(* The types. *)
TypeOK ==
  /\ clock \in Nat /\ faults \in Nat /\ overlapped \in BOOLEAN
  /\ exists \subseteq Users
  /\ rtk \in [Users -> Ids \cup {None}] /\ dies \in [Users -> Nat]
  /\ minted \in [Ids -> Token \cup {None}]
  /\ jar \in [Browsers -> Ids \cup {None}]
  /\ pc \in [Requests -> Calls] /\ req \in [Requests -> Request]
  /\ gone \subseteq Ids /\ endedAt \in [Ids -> Nat]

(* A session that was signed out, or replaced by another login, while no  *)
(* refresh of it was past its comparison (extend_auth.rs:135) fades out:   *)
(* whoever keeps any of its tokens is accepted for AccessSecs more, no     *)
(* longer, and Redis never has it again.                                   *)
GoneFadesOut ==
  \A s \in gone :
    /\ \A u \in Users : ~Holds(u, s)
    /\ \A i \in Ids : /\ minted[i] # None /\ Session(i) = s
                      /\ \E ip \in Addresses : Accepts(i, ip)
                      => clock <= endedAt[s] + AccessSecs

(* One request at a time and no fault: until its cookies run out, a        *)
(* browser whose session nobody ended is never locked out.  Redis has its  *)
(* refresh id, and at every second its access token is accepted or it may  *)
(* be refreshed (the windows of extend_auth.rs:43 and lib.rs:409 meet).    *)
SignedInStaysSignedIn ==
  ~overlapped /\ faults = 0 /\ Busy = {} =>
    \A b \in Browsers : LET i == jar[b] IN
      i # None /\ clock < RefreshExpires(i) /\ Session(i) \notin gone =>
        /\ rtk[minted[i].user] = i
        /\ Accepts(i, minted[i].ip) \/ MayRefresh(i, minted[i].ip)

(* Refresh ids rotate: one that Redis has let go of, by a refresh, a login *)
(* or a sign-out, never comes back, so an old cookie stays useless         *)
(* (extend_auth.rs:221: each SET stores the id of its own request).        *)
IdsRotate ==
  [][\A u \in Users : rtk'[u] # rtk[u] /\ rtk'[u] # None =>
       /\ \A v \in Users : rtk[v] # rtk'[u]
       /\ \A b \in Browsers : jar[b] # rtk'[u]
       /\ \A q \in Requests : req[q].tok # rtk'[u]]_vars
=============================================================================
