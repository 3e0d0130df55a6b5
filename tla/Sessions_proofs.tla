-------------------------- MODULE Sessions_proofs --------------------------
(***************************************************************************)
(* What Sessions promises for any users, browsers, requests, lifetimes and *)
(* number of faults.                                                       *)
(***************************************************************************)
EXTENDS Sessions, TLAPS

(* What a request carries at each of its calls. *)
Carries(r) ==
  /\ pc[r] # "idle" => req[r].browser \in Browsers /\ req[r].ip \in Addresses
  /\ req[r].kind \in {"login", "signup"} => req[r].user \in Users
  /\ pc[r] \in {"revoke", "delete"} =>
       req[r].kind \in {"login", "signout"} /\ req[r].tok \in Ids
  /\ pc[r] \in {"check", "get"} => req[r].kind = "refresh" /\ req[r].tok \in Ids
  /\ pc[r] = "mint" =>
       \/ req[r].kind \in {"login", "signup"}
       \/ req[r].kind = "refresh" /\ req[r].tok \in Ids
  /\ pc[r] = "set" \/ req[r].cookies = "give" => req[r].new \in Ids

CarryInv == \A r \in Requests : Carries(r)

(* Whatever is named has been minted, no later than now, and for its user. *)
MintedInv ==
  /\ \A u \in Users : rtk[u] # None =>
       minted[rtk[u]] # None /\ minted[rtk[u]].user = u
  /\ \A b \in Browsers : jar[b] # None => minted[jar[b]] # None
  /\ \A r \in Requests : /\ req[r].tok # None => minted[req[r].tok] # None
                         /\ req[r].new # None => minted[req[r].new] # None
  /\ \A s \in gone : minted[s] # None
  /\ \A i \in Ids : minted[i] # None =>
       /\ minted[Session(i)] # None /\ minted[i].at <= clock
       /\ minted[Session(i)].user = minted[i].user

(* A session that is gone is not in Redis, nothing on its way will put it  *)
(* there, and its last token was minted before it ended.                   *)
GoneInv ==
  \A s \in gone :
    /\ \A u \in Users : ~Holds(u, s)
    /\ \A q \in Requests : ~Extends(q, s)
    /\ \A i \in Ids : minted[i] # None /\ Session(i) = s => minted[i].at <= endedAt[s]

(* An id that is about to be stored is known to its own request only. *)
FreshInv ==
  \A r \in Requests : pc[r] = "set" =>
    /\ \A u \in Users : rtk[u] # req[r].new
    /\ \A b \in Browsers : jar[b] # req[r].new
    /\ \A q \in Requests : /\ req[q].tok # req[r].new
                           /\ q # r => req[q].new # req[r].new

IInv == TypeOK /\ CarryInv /\ MintedInv /\ GoneInv /\ FreshInv

-----------------------------------------------------------------------------
(* Four actions as the proofs see them: what is chosen is a parameter, and *)
(* what a choice depends on is left out.                                   *)
Ended(u) ==
  \/ gone' = gone /\ endedAt' = endedAt
  \/ /\ rtk[u] # None
     /\ \A q \in Requests : ~Extends(q, Session(rtk[u]))
     /\ gone' = gone \cup {Session(rtk[u])}
     /\ endedAt' = [endedAt EXCEPT ![Session(rtk[u])] = clock]

StartShape(r, kind, b, x, c) ==
  /\ pc[r] = "idle"
  /\ req' = [req EXCEPT ![r] = x] /\ pc' = [pc EXCEPT ![r] = c]
  /\ x.browser = b /\ x.ip \in Addresses
  /\ x.kind = kind /\ x.new = None /\ x.cookies # "give"
  /\ x.tok = None \/ x.tok = jar[b]
  /\ kind \in {"login", "signup"} => x.user \in Users
  /\ c \in {"revoke", "check", "handler", "reply"}
  /\ c = "revoke" => kind \in {"login", "signout"} /\ x.tok \in Ids
  /\ c = "check" => kind = "refresh" /\ x.tok \in Ids
  /\ overlapped' \in BOOLEAN
  /\ UNCHANGED <<clock, exists, redis, minted, jar, history, faults>>

DelShape(r, u) ==
  /\ pc[r] = "delete" /\ req' = req
  /\ pc' = [pc EXCEPT ![r] = IF req[r].kind = "login" THEN "handler" ELSE "reply"]
  /\ faults' \in Nat
  /\ UNCHANGED <<clock, exists, dies, minted, jar, overlapped>>
  /\ \/ UNCHANGED <<rtk, gone, endedAt>>
     \/ rtk' = [rtk EXCEPT ![u] = None] /\ Ended(u)

MintShape(r, i, t) ==
  /\ pc[r] = "mint" /\ pc' = [pc EXCEPT ![r] = "set"]
  /\ UNCHANGED <<clock, exists, redis, jar, history, overlapped, faults>>
  /\ minted[i] = None /\ minted' = [minted EXCEPT ![i] = t]
  /\ req' = [req EXCEPT ![r].new = i]
  /\ t.at = clock
  /\ \/ req[r].kind # "refresh" /\ t.session = i
     \/ /\ req[r].kind = "refresh" /\ req[r].tok \in Ids
        /\ minted[req[r].tok] # None /\ t.session = Session(req[r].tok)
        /\ t.user = minted[req[r].tok].user

SetShape(r, u) ==
  /\ pc[r] = "set" /\ pc' = [pc EXCEPT ![r] = "reply"]
  /\ req[r].new \in Ids /\ u = minted[req[r].new].user
  /\ req' = req \/ req' = [req EXCEPT ![r].cookies = "give"]
  /\ faults' \in Nat
  /\ UNCHANGED <<clock, exists, minted, jar, overlapped>>
  /\ \/ UNCHANGED <<redis, gone, endedAt>>
     \/ /\ rtk' = [rtk EXCEPT ![u] = req[r].new]
        /\ dies' \in [Users -> Nat]
        /\ (gone' = gone /\ endedAt' = endedAt) \/ ~Holds(u, Session(req[r].new))
        /\ Ended(u)

LEMMA StartEffect ==
  ASSUME TypeOK, NEW r \in Requests, NEW kind \in Kinds, NEW b \in Browsers,
         Start(r, kind, b)
  PROVE  \E x \in Request, c \in Calls : StartShape(r, kind, b, x, c)
<1> USE NoneAssumption
<1> DEFINE tok == IF kind = "signup" THEN None ELSE Sent(b)
<1>1. PICK u \in IF kind \in {"login", "signup"} THEN Users ELSE {None}, ip \in Addresses :
        req' = [req EXCEPT ![r] =
                [Blank EXCEPT !.kind = kind, !.browser = b, !.user = u,
                              !.tok = tok, !.ip = ip,
                              !.cookies = IF kind = "signout" THEN "clear" ELSE "keep"]]
  BY Zenon DEF Start
<1>2. tok \in Ids \cup {None} /\ (tok = None \/ tok = jar[b])
  BY DEF Sent, TypeOK
<1> DEFINE x == [Blank EXCEPT !.kind = kind, !.browser = b, !.user = u,
                              !.tok = tok, !.ip = ip,
                              !.cookies = IF kind = "signout" THEN "clear" ELSE "keep"]
           c == FirstCall(kind, tok)
<1>3. pc[r] = "idle" /\ pc' = [pc EXCEPT ![r] = c]
  BY Zenon DEF Start, Goto
<1>4. /\ x \in Request /\ x.browser = b /\ x.ip = ip /\ x.kind = kind /\ x.tok = tok
      /\ x.new = None /\ x.cookies # "give" /\ x.user = u
  <2> HIDE DEF tok
  <2> QED
    BY <1>1, <1>2 DEF Request, Blank, Kinds
<1>5. /\ c \in {"revoke", "check", "handler", "reply"}
      /\ c = "revoke" => kind \in {"login", "signout"} /\ tok # None
      /\ c = "check" => kind = "refresh" /\ tok # None
  <2> HIDE DEF tok
  <2> QED
    BY DEF FirstCall, Kinds
<1>6. kind \in {"login", "signup"} => u \in Users
  BY <1>1
<1>7. c \in Calls
  BY <1>5 DEF Calls
<1>8. overlapped' \in BOOLEAN /\ UNCHANGED <<clock, exists, redis, minted, jar, history, faults>>
  BY DEF Start
<1>9. req' = [req EXCEPT ![r] = x]
  BY <1>1
<1> HIDE DEF x, c, tok
<1>10. StartShape(r, kind, b, x, c)
  BY <1>1, <1>2, <1>3, <1>4, <1>5, <1>6, <1>8, <1>9 DEF StartShape
<1> QED
  BY <1>4, <1>7, <1>10

LEMMA DelEffect ==
  ASSUME TypeOK, CarryInv, MintedInv, NEW r \in Requests, RevokeDel(r)
  PROVE  \E u \in Users : DelShape(r, u)
<1> USE NoneAssumption
<1> DEFINE u == minted[req[r].tok].user
<1>1. req[r].tok \in Ids /\ minted[req[r].tok] \in Token
  BY DEF RevokeDel, Goto, CarryInv, Carries, MintedInv, TypeOK
<1>2. u \in Users /\ Session(req[r].tok) \in Ids
  BY <1>1 DEF Token, Session
<1>3. faults' \in Nat
  BY <1>2 DEF RevokeDel, Answer, TypeOK
<1>4. \/ UNCHANGED <<rtk, gone, endedAt>>
      \/ /\ rtk' = [rtk EXCEPT ![u] = None]
         /\ IF rtk[u] # None THEN End(Session(rtk[u])) ELSE UNCHANGED <<gone, endedAt>>
  BY DEF RevokeDel
<1> HIDE DEF u
<1>5. UNCHANGED <<rtk, gone, endedAt>> \/ (rtk' = [rtk EXCEPT ![u] = None] /\ Ended(u))
  BY <1>4 DEF End, Ended
<1>6. DelShape(r, u)
  BY <1>3, <1>5 DEF RevokeDel, Goto, AfterRevoke, DelShape
<1> QED
  BY <1>2, <1>6

LEMMA MintEffect ==
  ASSUME TypeOK, CarryInv, MintedInv, NEW r \in Requests, Mint(r)
  PROVE  \E i \in Ids, t \in Token : MintShape(r, i, t)
<1> USE NoneAssumption
<1>1. PICK i \in Unminted :
        /\ minted' = [minted EXCEPT ![i] =
            [user |-> Owner(r), at |-> clock, ip |-> req[r].ip,
             session |-> IF req[r].kind = "refresh" THEN Session(req[r].tok) ELSE i]]
        /\ req' = [req EXCEPT ![r].new = i]
  BY Zenon DEF Mint
<1>2. i \in Ids /\ minted[i] = None
  BY DEF Unminted
<1> DEFINE t == [user |-> Owner(r), at |-> clock, ip |-> req[r].ip,
                 session |-> IF req[r].kind = "refresh" THEN Session(req[r].tok) ELSE i]
<1>3. /\ req[r].ip \in Addresses
      /\ \/ req[r].kind \in {"login", "signup"} /\ req[r].user \in Users
         \/ /\ req[r].kind = "refresh" /\ req[r].tok \in Ids
            /\ minted[req[r].tok] # None /\ minted[req[r].tok] \in Token
  BY DEF Mint, Goto, CarryInv, Carries, MintedInv, TypeOK
<1>4. Owner(r) \in Users
  BY <1>3 DEF Owner, Token
<1>5. /\ t.session \in Ids
      /\ \/ req[r].kind # "refresh" /\ t.session = i
         \/ /\ req[r].kind = "refresh" /\ req[r].tok \in Ids
            /\ minted[req[r].tok] # None /\ t.session = Session(req[r].tok)
            /\ t.user = minted[req[r].tok].user
  BY <1>2, <1>3 DEF Token, Session, Owner
<1>6. t \in Token /\ t.at = clock
  BY <1>3, <1>4, <1>5 DEF Token, TypeOK
<1>7. minted' = [minted EXCEPT ![i] = t]
  BY <1>1
<1> HIDE DEF t
<1>8. MintShape(r, i, t)
  BY <1>1, <1>2, <1>5, <1>6, <1>7 DEF Mint, Goto, MintShape
<1> QED
  BY <1>2, <1>6, <1>8

LEMMA SetEffect ==
  ASSUME TypeOK, CarryInv, MintedInv, NEW r \in Requests, Set(r)
  PROVE  \E u \in Users : SetShape(r, u)
<1> USE NoneAssumption, SecsAssumption
<1> DEFINE u == minted[req[r].new].user
<1>1. req[r].new \in Ids /\ minted[req[r].new] \in Token
  BY DEF Set, Goto, CarryInv, Carries, MintedInv, TypeOK
<1>2. u \in Users
  BY <1>1 DEF Token
<1>3. faults' \in Nat /\ (req' = req \/ req' = [req EXCEPT ![r].cookies = "give"])
  BY DEF Set, Answer, TypeOK
<1>4. UNCHANGED <<redis, gone, endedAt>> \/ Store(r)
  BY DEF Set
<1>5. Store(r) =>
        /\ rtk' = [rtk EXCEPT ![u] = req[r].new]
        /\ dies' \in [Users -> Nat]
        /\ \/ gone' = gone /\ endedAt' = endedAt
           \/ /\ rtk[u] # None /\ ~Holds(u, Session(req[r].new))
              /\ End(Session(rtk[u]))
  BY <1>2 DEF Store, TypeOK
<1>8. u = minted[req[r].new].user
  OBVIOUS
<1> HIDE DEF u
<1>6. Store(r) =>
        /\ rtk' = [rtk EXCEPT ![u] = req[r].new]
        /\ dies' \in [Users -> Nat]
        /\ (gone' = gone /\ endedAt' = endedAt) \/ ~Holds(u, Session(req[r].new))
        /\ Ended(u)
  BY <1>5 DEF End, Ended
<1>7. SetShape(r, u)
  BY <1>1, <1>3, <1>4, <1>6, <1>8 DEF Set, Goto, SetShape
<1> QED
  BY <1>2, <1>7

-----------------------------------------------------------------------------
(* The initial state. *)
LEMMA InitInv == Init => IInv
<1> SUFFICES ASSUME Init PROVE IInv
  OBVIOUS
<1> USE NoneAssumption, SecsAssumption
<1>1. TypeOK
  BY DEF Init, TypeOK, Request, Calls, Blank
<1>2. CarryInv
  BY DEF Init, CarryInv, Carries, Blank
<1>3. MintedInv
  BY DEF Init, MintedInv, Blank
<1>4. GoneInv /\ FreshInv
  BY DEF Init, GoneInv, FreshInv
<1> QED
  BY <1>1, <1>2, <1>3, <1>4 DEF IInv

\* What is on record of a session that ends.
LEMMA EndedEffect ==
  ASSUME TypeOK, MintedInv, NEW u \in Users, Ended(u)
  PROVE  /\ gone' \subseteq Ids /\ endedAt' \in [Ids -> Nat]
         /\ \A s \in gone' : minted[s] # None
<1>1. rtk[u] # None => /\ rtk[u] \in Ids /\ Session(rtk[u]) \in Ids
                       /\ minted[rtk[u]] # None /\ minted[Session(rtk[u])] # None
  BY DEF TypeOK, Token, MintedInv, Session
<1>2. CASE gone' = gone /\ endedAt' = endedAt
  BY <1>2 DEF TypeOK, MintedInv
<1>3. CASE ~(gone' = gone /\ endedAt' = endedAt)
  <2>1. /\ rtk[u] # None /\ gone' = gone \cup {Session(rtk[u])}
        /\ endedAt' = [endedAt EXCEPT ![Session(rtk[u])] = clock]
    BY <1>3 DEF Ended
  <2>2. endedAt' \in [Ids -> Nat]
    BY <1>1, <2>1 DEF TypeOK
  <2>3. gone' \subseteq Ids
    BY <1>1, <2>1 DEF TypeOK
  <2>4. \A s \in gone' : minted[s] # None
    BY <1>1, <2>1 DEF MintedInv
  <2> QED
    BY <2>2, <2>3, <2>4
<1> QED
  BY <1>2, <1>3

(* Every step keeps the types. *)
LEMMA TypeStep == (TypeOK /\ CarryInv /\ MintedInv) /\ [Next]_vars => TypeOK'
<1> SUFFICES ASSUME (TypeOK /\ CarryInv /\ MintedInv), [Next]_vars PROVE TypeOK'
  OBVIOUS
<1> USE NoneAssumption, SecsAssumption
<1>1. ASSUME Tick PROVE TypeOK'
  BY <1>1 DEF TypeOK, Tick, redis, history
<1>2. ASSUME NEW u \in Users, Expire(u) PROVE TypeOK'
  BY <1>2 DEF TypeOK, Expire, history
<1>3. ASSUME NEW r \in Requests, NEW kind \in Kinds, NEW b \in Browsers, Start(r, kind, b)
      PROVE TypeOK'
  <2>1. PICK x \in Request, c \in Calls : StartShape(r, kind, b, x, c)
    BY <1>3, StartEffect
  <2> QED
    BY <2>1 DEF TypeOK, StartShape, redis, history
<1>4. ASSUME NEW r \in Requests, RevokeGet(r) PROVE TypeOK'
  BY <1>4 DEF TypeOK, Calls, RevokeGet, AfterRevoke, Goto, Answer, redis, history
<1>5. ASSUME NEW r \in Requests, RevokeDel(r) PROVE TypeOK'
  <2>1. PICK u \in Users : DelShape(r, u)
    BY <1>5, DelEffect
  <2>2. Ended(u)
    BY <2>1 DEF DelShape, Ended
  <2>3. gone' \subseteq Ids /\ endedAt' \in [Ids -> Nat]
    BY <2>2, EndedEffect
  <2>4. rtk' \in [Users -> Ids \cup {None}] /\ dies' \in [Users -> Nat]
    BY <2>1 DEF TypeOK, DelShape, redis
  <2>5. pc' \in [Requests -> Calls]
    BY <2>1 DEF TypeOK, DelShape, Calls
  <2>7. req' \in [Requests -> Request]
    BY <2>1 DEF TypeOK, DelShape
  <2> QED
    BY <2>1, <2>3, <2>4, <2>5, <2>7 DEF TypeOK, DelShape
<1>6. ASSUME NEW r \in Requests, LogIn(r) PROVE TypeOK'
  BY <1>6 DEF TypeOK, Calls, LogIn, Goto, redis, history
<1>7. ASSUME NEW r \in Requests, SignUp(r) PROVE TypeOK'
  BY <1>7 DEF TypeOK, Calls, CarryInv, Carries, SignUp, Goto, Answer, redis, history
<1>8. ASSUME NEW r \in Requests, RefreshCheck(r) PROVE TypeOK'
  BY <1>8 DEF TypeOK, Calls, RefreshCheck, Goto, redis, history
<1>9. ASSUME NEW r \in Requests, RefreshGet(r) PROVE TypeOK'
  BY <1>9 DEF TypeOK, Calls, RefreshGet, Goto, Answer, redis, history
<1>10. ASSUME NEW r \in Requests, Mint(r) PROVE TypeOK'
  <2>1. PICK i \in Ids, t \in Token : MintShape(r, i, t)
    BY <1>10, MintEffect
  <2>2. [req[r] EXCEPT !.new = i] \in Request
    BY DEF TypeOK, Request
  <2>3. req' \in [Requests -> Request]
    BY <2>1, <2>2 DEF TypeOK, MintShape
  <2>4. minted' \in [Ids -> Token \cup {None}]
    BY <2>1 DEF TypeOK, MintShape
  <2>5. pc' \in [Requests -> Calls]
    BY <2>1 DEF TypeOK, MintShape, Calls
  <2> QED
    BY <2>1, <2>3, <2>4, <2>5 DEF TypeOK, MintShape, redis, history
<1>11. ASSUME NEW r \in Requests, Set(r) PROVE TypeOK'
  <2>1. PICK u \in Users : SetShape(r, u)
    BY <1>11, SetEffect
  <2>2. Ended(u)
    BY <2>1 DEF SetShape, Ended
  <2>3. gone' \subseteq Ids /\ endedAt' \in [Ids -> Nat]
    BY <2>2, EndedEffect
  <2>4. rtk' \in [Users -> Ids \cup {None}] /\ dies' \in [Users -> Nat]
    BY <2>1 DEF TypeOK, SetShape, redis
  <2>5. pc' \in [Requests -> Calls]
    BY <2>1 DEF TypeOK, SetShape, Calls
  <2>6. [req[r] EXCEPT !.cookies = "give"] \in Request
    BY DEF TypeOK, Request
  <2>7. req' \in [Requests -> Request]
    BY <2>1, <2>6 DEF TypeOK, SetShape
  <2> QED
    BY <2>1, <2>3, <2>4, <2>5, <2>7 DEF TypeOK, SetShape
<1>12. ASSUME NEW r \in Requests, Receive(r) PROVE TypeOK'
  BY <1>12 DEF TypeOK, Request, Calls, Receive, Cookies, Blank, Goto, redis, history
<1>13. ASSUME NEW r \in Requests, Vanish(r) PROVE TypeOK'
  BY <1>13 DEF TypeOK, Request, Calls, Vanish, Blank, redis, history
<1>14. CASE UNCHANGED vars
  BY <1>14 DEF TypeOK, vars, redis, history
<1> QED
  BY <1>1, <1>2, <1>3, <1>4, <1>5, <1>6, <1>7, <1>8, <1>9, <1>10, <1>11, <1>12, <1>13,
      <1>14
  DEF Next, Step

(* Every request arrives at a call with what the call needs. *)
LEMMA CarryStep == (TypeOK /\ CarryInv /\ MintedInv) /\ [Next]_vars => CarryInv'
<1> SUFFICES ASSUME (TypeOK /\ CarryInv /\ MintedInv), [Next]_vars PROVE CarryInv'
  OBVIOUS
<1> USE NoneAssumption, SecsAssumption
<1>1. ASSUME Tick PROVE CarryInv'
  BY <1>1 DEF CarryInv, Carries, Tick
<1>2. ASSUME NEW u \in Users, Expire(u) PROVE CarryInv'
  BY <1>2 DEF CarryInv, Carries, Expire
<1>3. ASSUME NEW r \in Requests, NEW kind \in Kinds, NEW b \in Browsers, Start(r, kind, b)
      PROVE CarryInv'
  <2>1. PICK x \in Request, c \in Calls : StartShape(r, kind, b, x, c)
    BY <1>3, StartEffect
  <2> QED
    BY <2>1 DEF TypeOK, CarryInv, Carries, StartShape
<1>4. ASSUME NEW r \in Requests, RevokeGet(r) PROVE CarryInv'
  BY <1>4 DEF CarryInv, Carries, RevokeGet, AfterRevoke, Goto
<1>5. ASSUME NEW r \in Requests, RevokeDel(r) PROVE CarryInv'
  <2>1. PICK u \in Users : DelShape(r, u)
    BY <1>5, DelEffect
  <2>2. rtk[u] # None => /\ rtk[u] \in Ids /\ Session(rtk[u]) \in Ids
                         /\ minted[rtk[u]] # None /\ minted[Session(rtk[u])] # None
    BY DEF TypeOK, Token, MintedInv, Session
  <2> QED
    BY <2>1, <2>2 DEF CarryInv, Carries, DelShape
<1>6. ASSUME NEW r \in Requests, LogIn(r) PROVE CarryInv'
  BY <1>6 DEF TypeOK, CarryInv, Carries, LogIn, Goto
<1>7. ASSUME NEW r \in Requests, SignUp(r) PROVE CarryInv'
  BY <1>7 DEF CarryInv, Carries, SignUp, Goto
<1>8. ASSUME NEW r \in Requests, RefreshCheck(r) PROVE CarryInv'
  BY <1>8 DEF CarryInv, Carries, RefreshCheck, Goto
<1>9. ASSUME NEW r \in Requests, RefreshGet(r) PROVE CarryInv'
  BY <1>9 DEF CarryInv, Carries, RefreshGet, Goto
<1>10. ASSUME NEW r \in Requests, Mint(r) PROVE CarryInv'
  <2>1. PICK i \in Ids, t \in Token : MintShape(r, i, t)
    BY <1>10, MintEffect
  <2> QED
    BY <2>1 DEF TypeOK, CarryInv, Carries, MintShape
<1>11. ASSUME NEW r \in Requests, Set(r) PROVE CarryInv'
  <2>1. PICK u \in Users : SetShape(r, u)
    BY <1>11, SetEffect
  <2>2. rtk[u] # None => /\ rtk[u] \in Ids /\ Session(rtk[u]) \in Ids
                         /\ minted[rtk[u]] # None /\ minted[Session(rtk[u])] # None
    BY DEF TypeOK, Token, MintedInv, Session
  <2> QED
    BY <2>1 DEF TypeOK, Request, Calls, CarryInv, Carries, SetShape
<1>12. ASSUME NEW r \in Requests, Receive(r) PROVE CarryInv'
  BY <1>12 DEF TypeOK, CarryInv, Carries, Receive, Blank, Goto
<1>13. ASSUME NEW r \in Requests, Vanish(r) PROVE CarryInv'
  BY <1>13 DEF TypeOK, CarryInv, Carries, Vanish, Blank
<1>14. CASE UNCHANGED vars
  BY <1>14 DEF CarryInv, Carries, vars
<1> QED
  BY <1>1, <1>2, <1>3, <1>4, <1>5, <1>6, <1>7, <1>8, <1>9, <1>10, <1>11, <1>12, <1>13,
      <1>14
  DEF Next, Step

(* Nothing is named before it is minted. *)
LEMMA MintedStep == (TypeOK /\ CarryInv /\ MintedInv) /\ [Next]_vars => MintedInv'
<1> SUFFICES ASSUME (TypeOK /\ CarryInv /\ MintedInv), [Next]_vars PROVE MintedInv'
  OBVIOUS
<1> USE NoneAssumption, SecsAssumption
<1>1. ASSUME Tick PROVE MintedInv'
  BY <1>1 DEF TypeOK, Token, MintedInv, Session, Tick, redis, history
<1>2. ASSUME NEW u \in Users, Expire(u) PROVE MintedInv'
  BY <1>2 DEF MintedInv, Session, Expire, history
<1>3. ASSUME NEW r \in Requests, NEW kind \in Kinds, NEW b \in Browsers, Start(r, kind, b)
      PROVE MintedInv'
  <2>1. PICK x \in Request, c \in Calls : StartShape(r, kind, b, x, c)
    BY <1>3, StartEffect
  <2> QED
    BY <2>1 DEF MintedInv, Session, StartShape, redis, history
<1>4. ASSUME NEW r \in Requests, RevokeGet(r) PROVE MintedInv'
  BY <1>4 DEF MintedInv, Session, RevokeGet, redis, history
<1>5. ASSUME NEW r \in Requests, RevokeDel(r) PROVE MintedInv'
  <2>1. PICK u \in Users : DelShape(r, u)
    BY <1>5, DelEffect
  <2>2. Ended(u)
    BY <2>1 DEF DelShape, Ended
  <2>3. \A v \in Users : rtk'[v] # None => minted'[rtk'[v]] # None /\ minted'[rtk'[v]].user = v
    BY <2>1 DEF TypeOK, MintedInv, DelShape, redis
  <2>4. /\ \A b \in Browsers : jar'[b] # None => minted'[jar'[b]] # None
        /\ \A q \in Requests : /\ req'[q].tok # None => minted'[req'[q].tok] # None
                               /\ req'[q].new # None => minted'[req'[q].new] # None
    BY <2>1 DEF TypeOK, Request, MintedInv, DelShape
  <2>5. \A s \in gone' : minted'[s] # None
    BY <2>1, <2>2, EndedEffect DEF DelShape
  <2>6. minted' = minted /\ clock' = clock
    BY <2>1 DEF DelShape
  <2> QED
    BY <2>3, <2>4, <2>5, <2>6 DEF MintedInv, Session
<1>6. ASSUME NEW r \in Requests, LogIn(r) PROVE MintedInv'
  BY <1>6 DEF MintedInv, Session, LogIn, redis, history
<1>7. ASSUME NEW r \in Requests, SignUp(r) PROVE MintedInv'
  BY <1>7 DEF MintedInv, Session, SignUp, redis, history
<1>8. ASSUME NEW r \in Requests, RefreshCheck(r) PROVE MintedInv'
  BY <1>8 DEF MintedInv, Session, RefreshCheck, redis, history
<1>9. ASSUME NEW r \in Requests, RefreshGet(r) PROVE MintedInv'
  BY <1>9 DEF MintedInv, Session, RefreshGet, redis, history
<1>10. ASSUME NEW r \in Requests, Mint(r) PROVE MintedInv'
  <2>1. PICK i \in Ids, t \in Token : MintShape(r, i, t)
    BY <1>10, MintEffect
  <2> QED
    BY <2>1 DEF TypeOK, MintedInv, Session, MintShape, redis, history
<1>11. ASSUME NEW r \in Requests, Set(r) PROVE MintedInv'
  <2>1. PICK u \in Users : SetShape(r, u)
    BY <1>11, SetEffect
  <2>2. Ended(u)
    BY <2>1 DEF SetShape, Ended
  <2>3. \A v \in Users : rtk'[v] # None => minted'[rtk'[v]] # None /\ minted'[rtk'[v]].user = v
    <3>1. minted' = minted
      BY <2>1 DEF SetShape
    <3>2. CASE rtk' = rtk
      BY <3>1, <3>2 DEF MintedInv
    <3>3. CASE rtk' = [rtk EXCEPT ![u] = req[r].new]
      <4>1. req[r].new # None /\ u = minted[req[r].new].user
        BY <2>1, NoneAssumption DEF SetShape
      <4>2. minted[req[r].new] # None
        BY <4>1 DEF MintedInv
      <4>3. \A v \in Users : rtk'[v] = IF v = u THEN req[r].new ELSE rtk[v]
        BY <3>3 DEF TypeOK
      <4> QED
        BY <3>1, <4>1, <4>2, <4>3 DEF MintedInv
    <3> QED
      BY <2>1, <3>2, <3>3 DEF SetShape, redis
  <2>4. /\ \A b \in Browsers : jar'[b] # None => minted'[jar'[b]] # None
        /\ \A q \in Requests : /\ req'[q].tok # None => minted'[req'[q].tok] # None
                               /\ req'[q].new # None => minted'[req'[q].new] # None
    BY <2>1 DEF TypeOK, Request, MintedInv, SetShape
  <2>5. \A s \in gone' : minted'[s] # None
    BY <2>1, <2>2, EndedEffect DEF SetShape
  <2>6. minted' = minted /\ clock' = clock
    BY <2>1 DEF SetShape
  <2> QED
    BY <2>3, <2>4, <2>5, <2>6 DEF MintedInv, Session
<1>12. ASSUME NEW r \in Requests, Receive(r) PROVE MintedInv'
  BY <1>12
  DEF TypeOK, Request, MintedInv, Session, Receive, Cookies, Blank, redis, history
<1>13. ASSUME NEW r \in Requests, Vanish(r) PROVE MintedInv'
  BY <1>13 DEF MintedInv, Session, Vanish, Blank, redis, history
<1>14. CASE UNCHANGED vars
  BY <1>14 DEF MintedInv, Session, vars, redis, history
<1> QED
  BY <1>1, <1>2, <1>3, <1>4, <1>5, <1>6, <1>7, <1>8, <1>9, <1>10, <1>11, <1>12, <1>13,
      <1>14
  DEF Next, Step

(* What is gone stays gone. *)
LEMMA GoneStep == IInv /\ [Next]_vars => GoneInv'
<1> SUFFICES ASSUME IInv, [Next]_vars PROVE GoneInv'
  OBVIOUS
<1> USE NoneAssumption, SecsAssumption
<1>1. ASSUME Tick PROVE GoneInv'
  BY <1>1 DEF GoneInv, IInv, Session, Holds, Extends, Tick, redis, history
<1>2. ASSUME NEW u \in Users, Expire(u) PROVE GoneInv'
  BY <1>2 DEF GoneInv, IInv, Session, Holds, Extends, Expire, history
<1>3. ASSUME NEW r \in Requests, NEW kind \in Kinds, NEW b \in Browsers, Start(r, kind, b)
      PROVE GoneInv'
  <2>1. PICK x \in Request, c \in Calls : StartShape(r, kind, b, x, c)
    BY <1>3, StartEffect DEF IInv
  <2> QED
    BY <2>1 DEF GoneInv, IInv, Session, Holds, Extends, StartShape, redis, history
<1>4. ASSUME NEW r \in Requests, RevokeGet(r) PROVE GoneInv'
  BY <1>4
  DEF GoneInv, IInv, Session, Holds, Extends, RevokeGet, AfterRevoke, Goto, redis,
      history
<1>5. ASSUME NEW r \in Requests, RevokeDel(r) PROVE GoneInv'
  <2>1. PICK u \in Users : DelShape(r, u)
    BY <1>5, DelEffect DEF IInv
  <2>2. rtk[u] # None => /\ rtk[u] \in Ids /\ Session(rtk[u]) \in Ids
                         /\ minted[rtk[u]] # None /\ minted[Session(rtk[u])] # None
    BY DEF TypeOK, Token, MintedInv, Session, IInv
  <2>3. minted' = minted /\ clock' = clock
    BY <2>1 DEF DelShape
  <2>4. \A q \in Requests : \A s : Extends(q, s)' => Extends(q, s)
    BY <2>1, <2>3 DEF DelShape, Extends, Session
  <2>5. \A v \in Users : \A s : Holds(v, s) => minted[s].user = v
    BY DEF IInv, TypeOK, MintedInv, Holds, Session
  <2>6. ASSUME NEW s \in gone PROVE /\ \A v \in Users : ~Holds(v, s)'
                                   /\ endedAt'[s] = endedAt[s]
    <3>1. rtk[u] # None => Session(rtk[u]) # s
      BY DEF IInv, GoneInv, Holds
    <3>2. endedAt'[s] = endedAt[s]
      BY <2>1, <2>2, <3>1 DEF IInv, TypeOK, DelShape, Ended, redis
    <3>3. \A v \in Users : ~Holds(v, s)'
      BY <2>1, <2>3 DEF IInv, TypeOK, GoneInv, DelShape, Holds, Session
    <3> QED
      BY <3>2, <3>3
  <2>7. ASSUME NEW s \in gone', s \notin gone
        PROVE  /\ s = Session(rtk[u]) /\ rtk[u] # None /\ endedAt'[s] = clock
               /\ \A q \in Requests : ~Extends(q, s)
               /\ \A v \in Users : ~Holds(v, s)'
    <3>1. /\ s = Session(rtk[u]) /\ rtk[u] # None /\ endedAt'[s] = clock
          /\ \A q \in Requests : ~Extends(q, s)
      BY <2>1, <2>2, <2>7 DEF IInv, TypeOK, DelShape, Ended, redis
    <3>2. minted[s].user = u
      BY <2>5, <3>1 DEF Holds
    <3>3. ASSUME NEW v \in Users, v # u PROVE ~Holds(v, s)'
      BY <2>1, <2>3, <2>5, <3>2, <3>3 DEF IInv, TypeOK, DelShape, Holds, Session
    <3>4. ~Holds(u, s)'
      BY <2>1, <2>3, <2>7, <3>1 DEF IInv, TypeOK, DelShape, Holds
    <3> QED
      BY <3>1, <3>3, <3>4
  <2>8. \A i \in Ids : minted[i] # None => minted[i].at <= clock
    BY DEF IInv, MintedInv
  <2> QED
    BY <2>3, <2>4, <2>6, <2>7, <2>8 DEF IInv, GoneInv, Session
<1>6. ASSUME NEW r \in Requests, LogIn(r) PROVE GoneInv'
  BY <1>6
  DEF TypeOK, GoneInv, IInv, Session, Holds, Extends, LogIn, Goto, redis, history
<1>7. ASSUME NEW r \in Requests, SignUp(r) PROVE GoneInv'
  BY <1>7 DEF GoneInv, IInv, Session, Holds, Extends, SignUp, Goto, redis, history
<1>8. ASSUME NEW r \in Requests, RefreshCheck(r) PROVE GoneInv'
  BY <1>8 DEF GoneInv, IInv, Session, Holds, Extends, RefreshCheck, Goto, redis, history
<1>9. ASSUME NEW r \in Requests, RefreshGet(r) PROVE GoneInv'
  BY <1>9
  DEF TypeOK, Token, CarryInv, Carries, MintedInv, GoneInv, IInv, Session, Holds,
      Extends, RefreshGet, Goto, redis, history
<1>10. ASSUME NEW r \in Requests, Mint(r) PROVE GoneInv'
  <2>1. PICK i \in Ids, t \in Token : MintShape(r, i, t)
    BY <1>10, MintEffect DEF IInv
  <2> QED
    BY <2>1
    DEF TypeOK, MintedInv, GoneInv, IInv, Session, Holds, Extends, MintShape, redis,
        history
<1>11. ASSUME NEW r \in Requests, Set(r) PROVE GoneInv'
  <2>1. PICK u \in Users : SetShape(r, u)
    BY <1>11, SetEffect DEF IInv
  <2>2. rtk[u] # None => /\ rtk[u] \in Ids /\ Session(rtk[u]) \in Ids
                         /\ minted[rtk[u]] # None /\ minted[Session(rtk[u])] # None
    BY DEF TypeOK, Token, MintedInv, Session, IInv
  <2>3. minted' = minted /\ clock' = clock
    BY <2>1 DEF SetShape
  <2>4. \A q \in Requests : \A s : Extends(q, s)' => Extends(q, s)
    BY <2>1, <2>3 DEF IInv, TypeOK, SetShape, Extends, Session
  <2>5. \A v \in Users : \A s : Holds(v, s) => minted[s].user = v
    BY DEF IInv, TypeOK, MintedInv, Holds, Session
  <2>6. ASSUME NEW s \in gone PROVE /\ \A v \in Users : ~Holds(v, s)'
                                   /\ endedAt'[s] = endedAt[s]
    <3>1. rtk[u] # None => Session(rtk[u]) # s
      BY DEF IInv, GoneInv, Holds
    <3>2. endedAt'[s] = endedAt[s]
      BY <2>1, <2>2, <3>1 DEF IInv, TypeOK, SetShape, Ended, redis
    <3>3. \A v \in Users : ~Holds(v, s)'
      BY <2>1, <2>3 DEF IInv, TypeOK, GoneInv, Extends, SetShape, Holds, Session, redis
    <3> QED
      BY <3>2, <3>3
  <2>7. ASSUME NEW s \in gone', s \notin gone
        PROVE  /\ s = Session(rtk[u]) /\ rtk[u] # None /\ endedAt'[s] = clock
               /\ \A q \in Requests : ~Extends(q, s)
               /\ \A v \in Users : ~Holds(v, s)'
    <3>1. /\ s = Session(rtk[u]) /\ rtk[u] # None /\ endedAt'[s] = clock
          /\ \A q \in Requests : ~Extends(q, s)
      BY <2>1, <2>2, <2>7 DEF IInv, TypeOK, SetShape, Ended, redis
    <3>2. minted[s].user = u
      BY <2>5, <3>1 DEF Holds
    <3>3. ASSUME NEW v \in Users, v # u PROVE ~Holds(v, s)'
      BY <2>1, <2>3, <2>5, <3>2, <3>3 DEF IInv, TypeOK, SetShape, Holds, Session, redis
    <3>4. ~Holds(u, s)'
      BY <2>1, <2>3, <2>7, <3>1
      DEF IInv, TypeOK, SetShape, Ended, Holds, Session, redis, history
    <3> QED
      BY <3>1, <3>3, <3>4
  <2>8. \A i \in Ids : minted[i] # None => minted[i].at <= clock
    BY DEF IInv, MintedInv
  <2> QED
    BY <2>3, <2>4, <2>6, <2>7, <2>8 DEF IInv, GoneInv, Session
<1>12. ASSUME NEW r \in Requests, Receive(r) PROVE GoneInv'
  BY <1>12 DEF GoneInv, IInv, Session, Holds, Extends, Receive, Goto, redis, history
<1>13. ASSUME NEW r \in Requests, Vanish(r) PROVE GoneInv'
  BY <1>13 DEF TypeOK, GoneInv, IInv, Session, Holds, Extends, Vanish, redis, history
<1>14. CASE UNCHANGED vars
  BY <1>14 DEF GoneInv, IInv, Session, Holds, Extends, vars, redis, history
<1> QED
  BY <1>1, <1>2, <1>3, <1>4, <1>5, <1>6, <1>7, <1>8, <1>9, <1>10, <1>11, <1>12, <1>13,
      <1>14
  DEF Next, Step

(* A minted id stays with its request until it is stored. *)
LEMMA FreshStep == IInv /\ [Next]_vars => FreshInv'
<1> SUFFICES ASSUME IInv, [Next]_vars PROVE FreshInv'
  OBVIOUS
<1> USE NoneAssumption, SecsAssumption
<1>1. ASSUME Tick PROVE FreshInv'
  BY <1>1 DEF FreshInv, IInv, Tick, redis
<1>2. ASSUME NEW u \in Users, Expire(u) PROVE FreshInv'
  BY <1>2 DEF CarryInv, Carries, FreshInv, IInv, Expire
<1>3. ASSUME NEW r \in Requests, NEW kind \in Kinds, NEW b \in Browsers, Start(r, kind, b)
      PROVE FreshInv'
  <2>1. PICK x \in Request, c \in Calls : StartShape(r, kind, b, x, c)
    BY <1>3, StartEffect DEF IInv
  <2> QED
    BY <2>1 DEF CarryInv, Carries, FreshInv, IInv, StartShape, redis
<1>4. ASSUME NEW r \in Requests, RevokeGet(r) PROVE FreshInv'
  BY <1>4 DEF FreshInv, IInv, RevokeGet, AfterRevoke, Goto, redis
<1>5. ASSUME NEW r \in Requests, RevokeDel(r) PROVE FreshInv'
  <2>1. PICK u \in Users : DelShape(r, u)
    BY <1>5, DelEffect DEF IInv
  <2>2. rtk[u] # None => /\ rtk[u] \in Ids /\ Session(rtk[u]) \in Ids
                         /\ minted[rtk[u]] # None /\ minted[Session(rtk[u])] # None
    BY DEF TypeOK, Token, MintedInv, Session, IInv
  <2> QED
    BY <2>1, <2>2 DEF TypeOK, CarryInv, Carries, FreshInv, IInv, DelShape
<1>6. ASSUME NEW r \in Requests, LogIn(r) PROVE FreshInv'
  BY <1>6 DEF TypeOK, FreshInv, IInv, LogIn, Goto, redis
<1>7. ASSUME NEW r \in Requests, SignUp(r) PROVE FreshInv'
  BY <1>7 DEF FreshInv, IInv, SignUp, Goto, redis
<1>8. ASSUME NEW r \in Requests, RefreshCheck(r) PROVE FreshInv'
  BY <1>8 DEF FreshInv, IInv, RefreshCheck, Goto, redis
<1>9. ASSUME NEW r \in Requests, RefreshGet(r) PROVE FreshInv'
  BY <1>9 DEF FreshInv, IInv, RefreshGet, Goto, redis
<1>10. ASSUME NEW r \in Requests, Mint(r) PROVE FreshInv'
  <2>1. PICK i \in Ids, t \in Token : MintShape(r, i, t)
    BY <1>10, MintEffect DEF IInv
  <2> QED
    BY <2>1 DEF TypeOK, MintedInv, FreshInv, IInv, MintShape, redis
<1>11. ASSUME NEW r \in Requests, Set(r) PROVE FreshInv'
  <2>1. PICK u \in Users : SetShape(r, u)
    BY <1>11, SetEffect DEF IInv
  <2>2. rtk[u] # None => /\ rtk[u] \in Ids /\ Session(rtk[u]) \in Ids
                         /\ minted[rtk[u]] # None /\ minted[Session(rtk[u])] # None
    BY DEF TypeOK, Token, MintedInv, Session, IInv
  <2> QED
    BY <2>1 DEF IInv, TypeOK, Request, FreshInv, SetShape, redis
<1>12. ASSUME NEW r \in Requests, Receive(r) PROVE FreshInv'
  BY <1>12
  DEF TypeOK, Request, CarryInv, Carries, FreshInv, IInv, Receive, Cookies, Blank,
      Goto, redis
<1>13. ASSUME NEW r \in Requests, Vanish(r) PROVE FreshInv'
  BY <1>13 DEF TypeOK, CarryInv, Carries, FreshInv, IInv, Vanish, Blank, redis
<1>14. CASE UNCHANGED vars
  BY <1>14 DEF FreshInv, IInv, vars, redis
<1> QED
  BY <1>1, <1>2, <1>3, <1>4, <1>5, <1>6, <1>7, <1>8, <1>9, <1>10, <1>11, <1>12, <1>13,
      <1>14
  DEF Next, Step

-----------------------------------------------------------------------------
(* The invariant of every behaviour. *)
THEOREM Invariance == Spec => []IInv
<1>1. Init => IInv
  BY InitInv
<1>2. IInv /\ [Next]_vars => IInv'
  BY TypeStep, CarryStep, MintedStep, GoneStep, FreshStep DEF IInv
<1> QED
  BY <1>1, <1>2, PTL DEF Spec

(* Requests, keys, cookies and tokens keep their types (Sessions). *)
THEOREM SessionTypes == Spec => []TypeOK
BY Invariance, PTL DEF IInv

(* A session that ended with no refresh of it under way is never stored    *)
(* again, and its access tokens outlive it by AccessSecs at most: what     *)
(* revoke_auth.rs and gen_new_auth.rs rely on, as validate_access_auth.rs  *)
(* does not ask Redis.                                                     *)
THEOREM GoneForGood == Spec => []GoneFadesOut
<1>1. IInv => GoneFadesOut
  <2> SUFFICES ASSUME IInv, NEW s \in gone
               PROVE  /\ \A u \in Users : ~Holds(u, s)
                      /\ \A i \in Ids : /\ minted[i] # None /\ Session(i) = s
                                        /\ \E ip \in Addresses : Accepts(i, ip)
                                        => clock <= endedAt[s] + AccessSecs
    BY DEF GoneFadesOut
  <2>1. \A u \in Users : ~Holds(u, s)
    BY DEF IInv, GoneInv
  <2>2. ASSUME NEW i \in Ids, minted[i] # None, Session(i) = s,
               NEW ip \in Addresses, Accepts(i, ip)
        PROVE  clock <= endedAt[s] + AccessSecs
    <3>1. minted[i].at <= endedAt[s]
      BY <2>2 DEF IInv, GoneInv
    <3>2. clock <= minted[i].at + AccessSecs
      BY <2>2, SecsAssumption DEF Accepts, Expired, AccessExpires, IInv, TypeOK, Token
    <3>3. /\ clock \in Nat /\ minted[i].at \in Nat /\ endedAt[s] \in Nat
          /\ AccessSecs \in Nat
      BY <2>2, SecsAssumption DEF IInv, TypeOK, Token
    <3> QED
      BY <3>1, <3>2, <3>3
  <2> QED
    BY <2>1, <2>2
<1> QED
  BY <1>1, Invariance, PTL

(* The refresh id that a SET stores is one that nobody has seen before     *)
(* (extend_auth.rs, gen_new_auth.rs): an old cookie is never good again.   *)
THEOREM RefreshIdsRotate == Spec => IdsRotate
<1> DEFINE Rotates ==
      \A u \in Users : rtk'[u] # rtk[u] /\ rtk'[u] # None =>
        /\ \A v \in Users : rtk[v] # rtk'[u]
        /\ \A b \in Browsers : jar[b] # rtk'[u]
        /\ \A q \in Requests : req[q].tok # rtk'[u]
<1>1. IInv /\ [Next]_vars => [Rotates]_vars
  <2> SUFFICES ASSUME IInv, Next PROVE Rotates
    OBVIOUS
  <2>1. ASSUME NEW r \in Requests, Set(r) PROVE Rotates
    <3>1. PICK u \in Users : SetShape(r, u)
      BY <2>1, SetEffect DEF IInv
    <3> QED
      BY <3>1 DEF IInv, TypeOK, FreshInv, SetShape, redis
  <2>2. ASSUME NEW r \in Requests, RevokeDel(r) PROVE Rotates
    <3>1. PICK u \in Users : DelShape(r, u)
      BY <2>2, DelEffect DEF IInv
    <3> QED
      BY <3>1 DEF IInv, TypeOK, DelShape
  <2>3. ASSUME NEW u \in Users, Expire(u) PROVE Rotates
    BY <2>3 DEF Expire, IInv, TypeOK
  <2>4. CASE rtk' = rtk
    BY <2>4
  <2> QED
    BY <2>1, <2>2, <2>3, <2>4
    DEF Next, Step, Tick, Start, RevokeGet, LogIn, SignUp, RefreshCheck, RefreshGet,
        Mint, Receive, Vanish, redis
<1> QED
  BY <1>1, Invariance, PTL DEF Spec, IdsRotate
-----------------------------------------------------------------------------
(***************************************************************************)
(* One request at a time and no fault.  SignedInStaysSignedIn speaks of    *)
(* the moments between requests; during one, the refresh id of a browser   *)
(* may already be replaced in Redis by the one its response carries.       *)
(***************************************************************************)
Serial == ~overlapped /\ faults = 0
Alone  == \A q, r \in Requests : pc[q] # "idle" /\ pc[r] # "idle" => q = r
OneJar == \A a, b \in Browsers : jar[a] = jar[b] /\ jar[a] # None => a = b

Alive(i)  == clock < RefreshExpires(i) /\ Session(i) \notin gone
Stored(i) == rtk[minted[i].user] = i
Given(q)  == req[q].cookies = "give"

LiveInv ==
  \A b \in Browsers : jar[b] # None /\ Alive(jar[b]) =>
    Stored(jar[b]) \/ \E q \in Requests : Given(q) /\ req[q].browser = b

(* Only a response gives a token.  It is in no browser yet, and Redis has it. *)
GivenInv ==
  \A q \in Requests : Given(q) =>
    /\ pc[q] = "reply"
    /\ \A b \in Browsers : jar[b] # req[q].new
    /\ Alive(req[q].new) => Stored(req[q].new)

(* A refresh replaces the token of its own browser, which is the one in    *)
(* Redis from the comparison on, unless its key has expired since.         *)
RefreshInv ==
  \A q \in Requests : req[q].kind = "refresh" =>
    /\ pc[q] \in {"check", "get", "mint", "set"} => req[q].tok = jar[req[q].browser]
    /\ pc[q] \in {"mint", "set"} => rtk[minted[req[q].tok].user] \in {req[q].tok, None}
    /\ pc[q] = "set" => /\ Session(req[q].new) = Session(req[q].tok)
                        /\ minted[req[q].new].user = minted[req[q].tok].user

(* A login and a sign-up begin a session that has no other token. *)
NewInv ==
  \A q \in Requests : pc[q] = "set" /\ req[q].kind # "refresh" =>
    \A i \in Ids : minted[i] # None /\ Session(i) = Session(req[q].new) => i = req[q].new

(* A key outlives the cookie with its id. *)
KeyInv == \A u \in Users : rtk[u] # None => RefreshExpires(rtk[u]) <= dies[u]

Kept == Alone /\ OneJar /\ LiveInv /\ GivenInv /\ RefreshInv /\ NewInv
SerialInv == Serial => Kept

LEMMA KeyStep == IInv /\ KeyInv /\ [Next]_vars => KeyInv'
<1> SUFFICES ASSUME IInv, KeyInv, [Next]_vars PROVE KeyInv'
  OBVIOUS
<1> USE NoneAssumption, SecsAssumption DEF KeyInv, RefreshExpires
<1>1. CASE rtk' = rtk /\ dies' = dies /\ minted' = minted
  BY <1>1
<1>2. ASSUME NEW u \in Users, Expire(u) PROVE KeyInv'
  BY <1>2 DEF IInv, TypeOK, Expire
<1>3. ASSUME NEW r \in Requests, RevokeDel(r) PROVE KeyInv'
  <2>1. PICK u \in Users : DelShape(r, u)
    BY <1>3, DelEffect DEF IInv
  <2> QED
    BY <2>1 DEF IInv, TypeOK, DelShape
<1>4. ASSUME NEW r \in Requests, Mint(r) PROVE KeyInv'
  <2>1. PICK i \in Ids, t \in Token : MintShape(r, i, t)
    BY <1>4, MintEffect DEF IInv
  <2>2. \A u \in Users : rtk[u] # None => rtk[u] # i /\ rtk[u] \in Ids
    BY <2>1 DEF IInv, TypeOK, MintedInv, MintShape
  <2>3. \A u \in Users : rtk[u] # None => minted'[rtk[u]] = minted[rtk[u]]
    BY <2>1, <2>2 DEF IInv, TypeOK, MintShape
  <2>4. rtk' = rtk /\ dies' = dies
    BY <2>1 DEF MintShape, redis
  <2> QED
    BY <2>3, <2>4
<1>5. ASSUME NEW r \in Requests, Set(r) PROVE KeyInv'
  <2> DEFINE u == minted[req[r].new].user
  <2>1. req[r].new \in Ids /\ minted[req[r].new] \in Token /\ minted[req[r].new].at <= clock
    BY <1>5 DEF Set, Goto, IInv, CarryInv, Carries, MintedInv, TypeOK
  <2>2. u \in Users /\ minted[req[r].new].at \in Nat
    BY <2>1 DEF Token
  <2>3. minted' = minted
    BY <1>5 DEF Set
  <2>4. \/ rtk' = rtk /\ dies' = dies
        \/ /\ rtk' = [rtk EXCEPT ![u] = req[r].new]
           /\ dies' = [dies EXCEPT ![u] = clock + RefreshSecs]
    BY <1>5 DEF Set, Store, redis
  <2> HIDE DEF u
  <2>5. clock \in Nat /\ RefreshSecs \in Nat
    BY DEF IInv, TypeOK
  <2>6. minted[req[r].new].at + RefreshSecs <= clock + RefreshSecs
    BY <2>1, <2>2, <2>5
  <2> QED
    BY <2>2, <2>3, <2>4, <2>6 DEF IInv, TypeOK
<1> QED
  BY <1>1, <1>2, <1>3, <1>4, <1>5
  DEF Next, Step, Tick, Start, RevokeGet, LogIn, SignUp, RefreshCheck, RefreshGet,
      Receive, Vanish, vars, redis

(* What a request does alone: the others are idle and stay so. *)
LEMMA OthersIdle ==
  ASSUME TypeOK, Alone, NEW r \in Requests, pc[r] # "idle",
         NEW c, pc' = [pc EXCEPT ![r] = c]
  PROVE  /\ \A q \in Requests : q # r => pc[q] = "idle" /\ pc'[q] = "idle"
         /\ pc'[r] = c /\ Alone'
  BY DEF TypeOK, Alone

(* The sessions that a DEL or a SET of the only request ends. *)
LEMMA NothingExtends ==
  ASSUME TypeOK, Alone, NEW r \in Requests, pc[r] # "idle", NEW s, ~Extends(r, s)
  PROVE  \A q \in Requests : ~Extends(q, s)
  BY DEF Alone, Extends

(* Only the request's place moves: Redis, the jars and the tokens stay,    *)
(* and it does not come to a SET.                                          *)
LEMMA QuietStep ==
  ASSUME IInv, Kept, NEW r \in Requests, pc[r] \notin {"idle", "reply"}, req' = req,
         UNCHANGED <<clock, rtk, minted, jar, gone>>,
         NEW c, pc' = [pc EXCEPT ![r] = c], c # "set",
         c \in {"check", "get"} => pc[r] \in {"check", "get"},
         c = "mint" /\ req[r].kind = "refresh" =>
           /\ pc[r] = "get"
           /\ rtk[minted[req[r].tok].user] = req[r].tok
  PROVE  Kept'
<1>1. /\ \A q \in Requests : q # r => pc[q] = "idle" /\ pc'[q] = "idle"
      /\ pc'[r] = c /\ Alone'
  BY OthersIdle DEF IInv, Kept
<1>2. \A q \in Requests : ~Given(q) /\ ~Given(q)'
  BY <1>1 DEF Kept, GivenInv, Given
<1>3. OneJar' /\ LiveInv' /\ GivenInv'
  BY <1>2 DEF Kept, OneJar, LiveInv, GivenInv, Alive, Stored, RefreshExpires, Session
<1>4. RefreshInv'
  BY <1>1 DEF Kept, RefreshInv
<1>5. NewInv'
  BY <1>1 DEF NewInv
<1> QED
  BY <1>1, <1>3, <1>4, <1>5 DEF Kept

LEMMA SerialStart ==
  ASSUME IInv, Kept, NEW r \in Requests, NEW kind \in Kinds, NEW b \in Browsers,
         Start(r, kind, b), Serial'
  PROVE  Kept'
<1>1. PICK x \in Request, c \in Calls : StartShape(r, kind, b, x, c)
  BY StartEffect DEF IInv
<1>2. \A q \in Requests : pc[q] = "idle"
  BY DEF Start, Serial, Busy
<1>3. /\ pc' = [pc EXCEPT ![r] = c] /\ req' = [req EXCEPT ![r] = x]
      /\ UNCHANGED <<clock, rtk, minted, jar, gone>>
      /\ x.browser = b /\ x.cookies # "give" /\ c \notin {"get", "mint", "set"}
      /\ c = "check" => x.tok = jar[b]
  BY <1>1, NoneAssumption DEF StartShape, redis, history
<1>4. \A q \in Requests : q # r => pc'[q] = "idle" /\ req'[q] = req[q]
  BY <1>2, <1>3 DEF IInv, TypeOK
<1>5. pc'[r] = c /\ req'[r] = x
  BY <1>3 DEF IInv, TypeOK
<1>6. Alone'
  BY <1>4 DEF Alone
<1>7. \A q \in Requests : ~Given(q) /\ ~Given(q)'
  BY <1>2, <1>3, <1>4, <1>5 DEF Kept, GivenInv, Given
<1>8. OneJar' /\ LiveInv' /\ GivenInv'
  BY <1>3, <1>7 DEF Kept, OneJar, LiveInv, GivenInv, Alive, Stored, RefreshExpires, Session
<1>9. RefreshInv' /\ NewInv'
  BY <1>3, <1>4, <1>5 DEF RefreshInv, NewInv
<1> QED
  BY <1>6, <1>8, <1>9 DEF Kept

(* A DEL ends the session whose token it takes. *)
LEMMA SerialDel ==
  ASSUME IInv, Kept, NEW r \in Requests, RevokeDel(r)
  PROVE  Kept'
<1> USE NoneAssumption
<1> DEFINE u == minted[req[r].tok].user
           c == AfterRevoke(r)
<1>1. req[r].tok \in Ids /\ minted[req[r].tok] \in Token
  BY DEF RevokeDel, Goto, IInv, CarryInv, Carries, MintedInv, TypeOK
<1>2. u \in Users
  BY <1>1 DEF Token
<1>3. /\ \/ rtk' = rtk /\ gone' = gone
         \/ /\ rtk' = [rtk EXCEPT ![u] = None]
            /\ IF rtk[u] # None THEN End(Session(rtk[u])) ELSE gone' = gone
      /\ pc[r] = "delete" /\ pc' = [pc EXCEPT ![r] = c]
      /\ UNCHANGED <<clock, minted, jar, req>>
  BY DEF RevokeDel, Goto
<1>4. c \in {"handler", "reply"}
  BY DEF AfterRevoke
<1> HIDE DEF u, c
<1>5. /\ \A q \in Requests : q # r => pc[q] = "idle" /\ pc'[q] = "idle"
      /\ pc'[r] = c /\ Alone'
  BY <1>3, OthersIdle DEF IInv, Kept
<1>6. rtk[u] # None => \A q \in Requests : ~Extends(q, Session(rtk[u]))
  BY <1>3, NothingExtends DEF IInv, Kept, Extends
<1>7. \/ rtk' = rtk /\ gone' = gone
      \/ /\ rtk' = [rtk EXCEPT ![u] = None]
         /\ gone' = IF rtk[u] # None THEN gone \cup {Session(rtk[u])} ELSE gone
  BY <1>3, <1>6 DEF End
<1>8. \A q \in Requests : ~Given(q) /\ ~Given(q)'
  BY <1>3, <1>5 DEF Kept, GivenInv, Given
<1>9. LiveInv'
  <2> SUFFICES ASSUME NEW b \in Browsers, jar[b] # None, Alive(jar[b])' PROVE Stored(jar[b])'
    BY <1>3 DEF LiveInv
  <2>1. Alive(jar[b])
    BY <1>3, <1>7 DEF Alive, RefreshExpires, Session
  <2>2. Stored(jar[b])
    BY <2>1, <1>8 DEF Kept, LiveInv
  <2>3. jar[b] \in Ids /\ minted[jar[b]].user \in Users
    BY DEF IInv, TypeOK, MintedInv, Token
  <2>4. rtk' = rtk \/ minted[jar[b]].user # u
    BY <1>3, <1>7, <2>2 DEF Alive, Stored, Session
  <2> QED
    BY <1>2, <1>3, <1>7, <2>2, <2>3, <2>4 DEF IInv, TypeOK, Stored
<1>10. OneJar' /\ GivenInv'
  BY <1>3, <1>8 DEF Kept, OneJar, GivenInv
<1>11. RefreshInv' /\ NewInv'
  BY <1>4, <1>5 DEF RefreshInv, NewInv
<1> QED
  BY <1>5, <1>9, <1>10, <1>11 DEF Kept

LEMMA SerialMint ==
  ASSUME IInv, Kept, NEW r \in Requests, Mint(r)
  PROVE  Kept'
<1> USE NoneAssumption
<1>1. PICK i \in Ids, t \in Token : MintShape(r, i, t)
  BY MintEffect DEF IInv
<1>2. /\ pc[r] = "mint" /\ pc' = [pc EXCEPT ![r] = "set"]
      /\ UNCHANGED <<clock, rtk, jar, gone>>
      /\ minted[i] = None /\ minted' = [minted EXCEPT ![i] = t]
      /\ req' = [req EXCEPT ![r].new = i]
  BY <1>1 DEF MintShape, redis, history
<1>3. /\ \A q \in Requests : q # r => pc[q] = "idle" /\ pc'[q] = "idle" /\ req'[q] = req[q]
      /\ pc'[r] = "set" /\ Alone'
  BY <1>2, OthersIdle DEF IInv, TypeOK, Kept
<1>4. /\ req'[r].new = i /\ req'[r].kind = req[r].kind /\ req'[r].tok = req[r].tok
      /\ req'[r].browser = req[r].browser /\ req'[r].cookies = req[r].cookies
  BY <1>2 DEF IInv, TypeOK, Request
<1>5. \A j \in Ids : minted[j] # None => minted'[j] = minted[j]
  BY <1>2 DEF IInv, TypeOK
<1>6. minted'[i] = t
  BY <1>2 DEF IInv, TypeOK
<1>7. \A q \in Requests : ~Given(q) /\ ~Given(q)'
  BY <1>2, <1>3, <1>4 DEF Kept, GivenInv, Given
<1>8. OneJar' /\ GivenInv'
  BY <1>2, <1>7 DEF Kept, OneJar, GivenInv
<1>9. LiveInv'
  <2>1. \A b \in Browsers : jar[b] # None => minted'[jar[b]] = minted[jar[b]]
    BY <1>5 DEF IInv, TypeOK, MintedInv
  <2> QED
    BY <1>2, <1>7, <2>1 DEF Kept, LiveInv, Alive, Stored, RefreshExpires, Session
<1>10. RefreshInv'
  <2> SUFFICES ASSUME req[r].kind = "refresh"
               PROVE  /\ req[r].tok = jar[req[r].browser]
                      /\ rtk[minted'[req[r].tok].user] \in {req[r].tok, None}
                      /\ minted'[i].session = minted'[req[r].tok].session
                      /\ minted'[i].user = minted'[req[r].tok].user
    BY <1>2, <1>3, <1>4 DEF RefreshInv, Session
  <2>1. req[r].tok \in Ids /\ minted[req[r].tok] # None
    BY <1>2 DEF IInv, CarryInv, Carries, MintedInv
  <2>2. minted'[req[r].tok] = minted[req[r].tok]
    BY <1>5, <2>1
  <2>3. t.session = minted[req[r].tok].session /\ t.user = minted[req[r].tok].user
    BY <1>1 DEF MintShape, Session
  <2> QED
    BY <1>2, <1>6, <2>2, <2>3 DEF Kept, RefreshInv
<1>11. NewInv'
  <2> SUFFICES ASSUME req[r].kind # "refresh", NEW j \in Ids, minted'[j] # None,
                      minted'[j].session = minted'[i].session
               PROVE  j = i
    BY <1>3, <1>4 DEF NewInv, Session
  <2>1. t.session = i
    BY <1>1 DEF MintShape
  <2>2. j # i => minted[j] # None /\ minted'[j] = minted[j] /\ minted[Session(j)] # None
    BY <1>2 DEF IInv, TypeOK, MintedInv
  <2> QED
    BY <1>2, <1>6, <2>1, <2>2 DEF Session
<1> QED
  BY <1>3, <1>8, <1>9, <1>10, <1>11 DEF Kept

(* A SET puts the token it will give into Redis.  For a refresh it takes   *)
(* the place of the one its browser has; a login or a sign-up ends the     *)
(* session whose token it displaces.                                       *)
LEMMA SerialSet ==
  ASSUME IInv, Kept, NEW r \in Requests, Set(r), Serial, Serial'
  PROVE  Kept'
<1> USE NoneAssumption
<1> DEFINE i == req[r].new
           u == minted[i].user
           s == Session(i)
<1>1. pc[r] = "set" /\ i \in Ids /\ minted[i] # None /\ minted[i] \in Token
  BY DEF Set, Goto, IInv, CarryInv, Carries, MintedInv, TypeOK
<1>2. u \in Users
  BY <1>1 DEF Token
<1>3. req' = [req EXCEPT ![r].cookies = "give"] /\ Store(r)
  <2>1. PICK a \in Answers :
          /\ Answer(a)
          /\ req' = IF a = "done" THEN [req EXCEPT ![r].cookies = "give"] ELSE req
          /\ \/ Effect(a) /\ Store(r)
             \/ ~Effect(a) /\ UNCHANGED <<redis, gone, endedAt>>
    BY DEF Set
  <2>2. a = "done"
    BY <2>1 DEF Answer, Serial
  <2> QED
    BY <2>1, <2>2 DEF Effect
<1>4. /\ rtk' = [rtk EXCEPT ![u] = i]
      /\ IF rtk[u] # None /\ ~Holds(u, s) THEN End(Session(rtk[u])) ELSE gone' = gone
  BY <1>3 DEF Store
<1>5. pc' = [pc EXCEPT ![r] = "reply"] /\ UNCHANGED <<clock, minted, jar>>
  BY DEF Set, Goto
<1>6. req[r].kind = "refresh" =>
        /\ req[r].tok = jar[req[r].browser] /\ req[r].browser \in Browsers
        /\ s = Session(req[r].tok) /\ rtk[u] \in {req[r].tok, None}
  BY <1>1 DEF Kept, RefreshInv, IInv, CarryInv, Carries
<1>7. req[r].kind # "refresh" =>
        \A j \in Ids : minted[j] # None /\ Session(j) = s => j = i
  BY <1>1 DEF Kept, NewInv
<1>8. (\A b \in Browsers : jar[b] # i) /\ (\A v \in Users : rtk[v] # i)
  BY <1>1 DEF IInv, FreshInv
<1>9. Extends(r, Session(rtk[u])) => Session(rtk[u]) = s
  BY <1>1 DEF Extends
<1>10. req'[r].new = i /\ req'[r].browser = req[r].browser /\ Given(r)'
  BY <1>3 DEF IInv, TypeOK, Request, Given
<1> HIDE DEF i, u, s
<1>11. /\ \A q \in Requests : q # r => pc[q] = "idle" /\ pc'[q] = "idle" /\ req'[q] = req[q]
       /\ pc'[r] = "reply" /\ Alone'
  BY <1>1, <1>3, <1>5, OthersIdle DEF IInv, TypeOK, Kept
<1>12. \A q \in Requests : ~Given(q) /\ (q # r => ~Given(q)')
  BY <1>1, <1>11 DEF Kept, GivenInv, Given
<1>13. \/ gone' = gone
       \/ rtk[u] # None /\ gone' = gone \cup {Session(rtk[u])}
  BY <1>4 DEF End
<1>14. rtk[u] # None /\ Session(rtk[u]) # s => Session(rtk[u]) \in gone'
  <2> SUFFICES ASSUME rtk[u] # None, Session(rtk[u]) # s PROVE Session(rtk[u]) \in gone'
    OBVIOUS
  <2>1. \A q \in Requests : ~Extends(q, Session(rtk[u]))
    BY <1>1, <1>9, NothingExtends DEF IInv, Kept
  <2>2. End(Session(rtk[u]))
    BY <1>4 DEF Holds
  <2> QED
    BY <2>1, <2>2 DEF End
<1>15. LiveInv'
  <2> SUFFICES ASSUME NEW b \in Browsers, jar[b] # None, Alive(jar[b])', b # req[r].browser
               PROVE  Stored(jar[b])'
    BY <1>5, <1>10 DEF LiveInv
  <2>1. Stored(jar[b]) /\ Session(jar[b]) \notin gone'
    BY <1>5, <1>12, <1>13 DEF Kept, LiveInv, Alive, RefreshExpires, Session
  <2>2. jar[b] \in Ids /\ minted[jar[b]] # None /\ minted[jar[b]].user \in Users
    BY DEF IInv, TypeOK, MintedInv, Token
  <2>3. minted[jar[b]].user # u
    <3> SUFFICES ASSUME rtk[u] = jar[b] PROVE FALSE
      BY <2>1 DEF Stored
    <3>1. Session(jar[b]) = s
      BY <1>14, <2>1
    <3>2. CASE req[r].kind = "refresh"
      BY <1>6, <3>2 DEF Kept, OneJar
    <3>3. CASE req[r].kind # "refresh"
      BY <1>7, <1>8, <2>2, <3>1, <3>3
    <3> QED
      BY <3>2, <3>3
  <2> QED
    BY <1>2, <1>4, <1>5, <2>1, <2>2, <2>3 DEF IInv, TypeOK, Stored
<1>16. GivenInv'
  <2>1. rtk'[u] = i /\ u = minted'[i].user
    BY <1>2, <1>4, <1>5 DEF IInv, TypeOK, u
  <2> QED
    BY <1>5, <1>8, <1>10, <1>11, <1>12, <2>1 DEF GivenInv, Stored
<1>17. OneJar'
  BY <1>5 DEF Kept, OneJar
<1>18. RefreshInv' /\ NewInv'
  BY <1>11 DEF RefreshInv, NewInv
<1> QED
  BY <1>11, <1>15, <1>16, <1>17, <1>18 DEF Kept

(* The response brings its token to the browser, or leaves the browser     *)
(* what it had, or takes it.                                               *)
LEMMA SerialReceive ==
  ASSUME IInv, Kept, NEW r \in Requests, Receive(r)
  PROVE  Kept'
<1> USE NoneAssumption
<1> DEFINE k == req[r].browser
<1>1. /\ pc[r] = "reply" /\ k \in Browsers
      /\ req[r].cookies \in {"keep", "clear", "give"}
  BY DEF Receive, Goto, IInv, CarryInv, Carries, TypeOK, Request
<1>2. /\ pc' = [pc EXCEPT ![r] = "idle"] /\ req' = [req EXCEPT ![r] = Blank]
      /\ jar' = [jar EXCEPT ![k] = Cookies(r)]
      /\ UNCHANGED <<clock, rtk, minted, gone>>
  BY DEF Receive, Goto, redis, history
<1>3. /\ \A q \in Requests : q # r => pc[q] = "idle" /\ pc'[q] = "idle" /\ req'[q] = req[q]
      /\ pc'[r] = "idle" /\ req'[r] = Blank /\ Alone'
  BY <1>1, <1>2, OthersIdle DEF IInv, TypeOK, Kept
<1>4. \A q \in Requests : (q # r => ~Given(q)) /\ ~Given(q)'
  BY <1>3 DEF Kept, GivenInv, Given, Blank
<1>5. /\ jar'[k] = Cookies(r)
      /\ \A b \in Browsers : b # k => jar'[b] = jar[b]
  BY <1>1, <1>2 DEF IInv, TypeOK
<1>6. \/ Cookies(r) = jar[k] /\ ~Given(r)
      \/ Cookies(r) = None
      \/ Cookies(r) = req[r].new /\ Given(r)
  BY <1>1 DEF Cookies, Given
<1> HIDE DEF k
<1>7. OneJar'
  BY <1>5, <1>6 DEF Kept, OneJar, GivenInv
<1>8. LiveInv'
  <2> SUFFICES ASSUME NEW b \in Browsers, jar'[b] # None, Alive(jar'[b])
               PROVE  Stored(jar'[b])
    BY <1>2 DEF LiveInv, Alive, Stored, RefreshExpires, Session
  <2>1. CASE b # k
    BY <1>4, <1>5, <2>1 DEF Kept, LiveInv, k
  <2>2. CASE b = k
    BY <1>4, <1>5, <1>6, <2>2 DEF Kept, LiveInv, GivenInv
  <2> QED
    BY <2>1, <2>2
<1>9. GivenInv'
  BY <1>4 DEF GivenInv
<1>10. RefreshInv' /\ NewInv'
  BY <1>3 DEF RefreshInv, NewInv
<1> QED
  BY <1>3, <1>7, <1>8, <1>9, <1>10 DEF Kept

LEMMA SerialStep == IInv /\ KeyInv /\ SerialInv /\ [Next]_vars => SerialInv'
<1> SUFFICES ASSUME IInv, KeyInv, SerialInv, [Next]_vars, Serial' PROVE Kept'
  BY DEF SerialInv
<1> USE NoneAssumption, SecsAssumption
<1>1. Serial
  <2>1. faults \in Nat /\ overlapped \in BOOLEAN
    BY DEF IInv, TypeOK
  <2>2. faults' = 0 /\ overlapped' = FALSE
    <3>1. TypeOK'
      BY TypeStep DEF IInv
    <3> QED
      BY <3>1 DEF Serial, TypeOK
  <2>3. CASE UNCHANGED <<faults, overlapped>>
    BY <2>3 DEF Serial
  <2>4. ASSUME NEW r \in Requests, NEW kind \in Kinds, NEW b \in Browsers, Start(r, kind, b)
        PROVE  Serial
    BY <2>4 DEF Start, Serial
  <2>5. CASE overlapped' = overlapped /\ \E a \in Answers : Answer(a)
    BY <2>1, <2>2, <2>5 DEF Answer, Serial
  <2>6. CASE overlapped' = overlapped /\ faults' = faults + 1
    BY <2>1, <2>2, <2>6
  <2> QED
    BY <2>3, <2>4, <2>5, <2>6
    DEF Next, Step, Tick, Expire, RevokeGet, RevokeDel, LogIn, SignUp, RefreshCheck,
        RefreshGet, Mint, Set, Receive, Vanish, vars, Answers
<1>2. Kept
  BY <1>1 DEF SerialInv
<1>3. CASE Tick
  <2>1. UNCHANGED <<rtk, minted, jar, pc, req, gone>> /\ clock' = clock + 1
    BY <1>3 DEF Tick, redis, history
  <2>2. \A i \in Ids : minted[i] # None => (Alive(i)' => Alive(i))
    BY <2>1 DEF Alive, RefreshExpires, Session, IInv, TypeOK, Token
  <2>3. \A b \in Browsers : jar[b] # None => jar[b] \in Ids /\ minted[jar[b]] # None
    BY DEF IInv, TypeOK, MintedInv
  <2>4. \A q \in Requests : Given(q) => req[q].new \in Ids /\ minted[req[q].new] # None
    BY DEF IInv, CarryInv, Carries, MintedInv, Given
  <2>5. LiveInv'
    BY <1>2, <2>1, <2>2, <2>3 DEF Kept, LiveInv, Stored, Given
  <2>6. GivenInv'
    BY <1>2, <2>1, <2>2, <2>4 DEF Kept, GivenInv, Stored, Given
  <2> QED
    BY <1>2, <2>1, <2>5, <2>6 DEF Kept, Alone, OneJar, RefreshInv, NewInv, Session
<1>4. ASSUME NEW u \in Users, Expire(u) PROVE Kept'
  <2>1. /\ rtk[u] # None /\ clock = dies[u] /\ rtk' = [rtk EXCEPT ![u] = None]
        /\ UNCHANGED <<clock, minted, jar, pc, req, gone>>
    BY <1>4 DEF Expire, history
  <2>2. \A i \in Ids : minted[i] # None /\ Alive(i) /\ Stored(i) => Stored(i)'
    <3> SUFFICES ASSUME NEW i \in Ids, minted[i] # None, Alive(i), Stored(i) PROVE Stored(i)'
      OBVIOUS
    <3>1. i # rtk[u]
      BY <2>1 DEF KeyInv, Alive, RefreshExpires, IInv, TypeOK, Token
    <3>2. minted[i].user # u
      BY <3>1 DEF Stored
    <3> QED
      BY <2>1, <3>2 DEF Stored, IInv, TypeOK, Token
  <2>3. \A b \in Browsers : jar[b] # None => jar[b] \in Ids /\ minted[jar[b]] # None
    BY DEF IInv, TypeOK, MintedInv
  <2>4. \A q \in Requests : Given(q) => req[q].new \in Ids /\ minted[req[q].new] # None
    BY DEF IInv, CarryInv, Carries, MintedInv, Given
  <2>5. \A i : Alive(i)' <=> Alive(i)
    BY <2>1 DEF Alive, RefreshExpires, Session
  <2>6. LiveInv'
    BY <1>2, <2>1, <2>2, <2>3, <2>5 DEF Kept, LiveInv, Given
  <2>7. GivenInv'
    BY <1>2, <2>1, <2>2, <2>4, <2>5 DEF Kept, GivenInv, Given
  <2>8. RefreshInv'
    BY <1>2, <2>1 DEF Kept, RefreshInv, IInv, TypeOK, Session
  <2> QED
    BY <1>2, <2>1, <2>6, <2>7, <2>8 DEF Kept, Alone, OneJar, NewInv, Session
<1>5. ASSUME NEW r \in Requests, NEW kind \in Kinds, NEW b \in Browsers, Start(r, kind, b)
      PROVE  Kept'
  BY <1>2, <1>5, SerialStart
<1>6. ASSUME NEW r \in Requests, RevokeGet(r) PROVE Kept'
  <2>1. \E c \in {"delete", "handler", "reply"} : pc' = [pc EXCEPT ![r] = c]
    BY <1>6 DEF RevokeGet, AfterRevoke, Goto
  <2>2. /\ pc[r] = "revoke" /\ req' = req /\ UNCHANGED <<clock, rtk, minted, jar, gone>>
    BY <1>6 DEF RevokeGet, Goto, redis, history
  <2> QED
    BY <1>2, <2>1, <2>2, QuietStep
<1>7. ASSUME NEW r \in Requests, RevokeDel(r) PROVE Kept'
  BY <1>2, <1>7, SerialDel
<1>8. ASSUME NEW r \in Requests, LogIn(r) \/ SignUp(r) PROVE Kept'
  <2>1. \E c \in {"mint", "reply"} : pc' = [pc EXCEPT ![r] = c]
    BY <1>8 DEF LogIn, SignUp, Goto
  <2>2. /\ pc[r] = "handler" /\ req' = req /\ UNCHANGED <<clock, rtk, minted, jar, gone>>
        /\ req[r].kind # "refresh"
    BY <1>8 DEF LogIn, SignUp, Goto, redis, history
  <2> QED
    BY <1>2, <2>1, <2>2, QuietStep
<1>9. ASSUME NEW r \in Requests, RefreshCheck(r) PROVE Kept'
  <2>1. \E c \in {"get", "reply"} : pc' = [pc EXCEPT ![r] = c]
    BY <1>9 DEF RefreshCheck, Goto
  <2>2. /\ pc[r] = "check" /\ req' = req /\ UNCHANGED <<clock, rtk, minted, jar, gone>>
    BY <1>9 DEF RefreshCheck, Goto, redis, history
  <2> QED
    BY <1>2, <2>1, <2>2, QuietStep
<1>10. ASSUME NEW r \in Requests, RefreshGet(r) PROVE Kept'
  <2>1. \E c \in {"mint", "reply"} :
          /\ pc' = [pc EXCEPT ![r] = c]
          /\ c = "mint" => rtk[minted[req[r].tok].user] = req[r].tok
    BY <1>10 DEF RefreshGet, Goto
  <2>2. /\ pc[r] = "get" /\ req' = req /\ UNCHANGED <<clock, rtk, minted, jar, gone>>
    BY <1>10 DEF RefreshGet, Goto, redis, history
  <2> QED
    BY <1>2, <2>1, <2>2, QuietStep
<1>11. ASSUME NEW r \in Requests, Mint(r) PROVE Kept'
  BY <1>2, <1>11, SerialMint
<1>12. ASSUME NEW r \in Requests, Set(r) PROVE Kept'
  BY <1>1, <1>2, <1>12, SerialSet
<1>13. ASSUME NEW r \in Requests, Receive(r) PROVE Kept'
  BY <1>2, <1>13, SerialReceive
<1>14. \A r \in Requests : ~Vanish(r)
  BY <1>1 DEF Vanish, Serial
<1>15. CASE UNCHANGED vars
  BY <1>2, <1>15
  DEF vars, redis, history, Kept, Alone, OneJar, LiveInv, GivenInv, RefreshInv, NewInv, Alive,
      Stored, Given, RefreshExpires, Session
<1> QED
  BY <1>3, <1>4, <1>5, <1>6, <1>7, <1>8, <1>9, <1>10, <1>11, <1>12, <1>13, <1>14, <1>15
  DEF Next, Step

(* With one request at a time and no fault, and whatever logins, sign-ups, *)
(* refreshes and sign-outs came before: a browser whose session nobody     *)
(* ended has the refresh id that Redis has, and at every second until its  *)
(* cookies run out the access token is accepted or may be refreshed.       *)
THEOREM NobodyIsLockedOut == Spec => []SignedInStaysSignedIn
<1>1. Init => IInv /\ KeyInv /\ SerialInv
  <2> SUFFICES ASSUME Init PROVE IInv /\ KeyInv /\ SerialInv
    OBVIOUS
  <2>1. KeyInv
    BY DEF Init, KeyInv
  <2>2. SerialInv
    BY DEF Init, SerialInv, Kept, Alone, OneJar, LiveInv, GivenInv, RefreshInv, NewInv, Given, Blank
  <2> QED
    BY InitInv, <2>1, <2>2
<1>2. IInv /\ KeyInv /\ SerialInv /\ [Next]_vars => (IInv /\ KeyInv /\ SerialInv)'
  BY TypeStep, CarryStep, MintedStep, GoneStep, FreshStep, KeyStep, SerialStep DEF IInv
<1>3. IInv /\ SerialInv => SignedInStaysSignedIn
  <2> SUFFICES ASSUME IInv, SerialInv, Serial, Busy = {}, NEW b \in Browsers,
                      jar[b] # None, Alive(jar[b])
               PROVE  /\ Stored(jar[b])
                      /\ \/ Accepts(jar[b], minted[jar[b]].ip)
                         \/ MayRefresh(jar[b], minted[jar[b]].ip)
    BY DEF SignedInStaysSignedIn, Serial, Alive, Stored
  <2>1. Stored(jar[b])
    BY DEF SerialInv, Kept, LiveInv, GivenInv, Busy
  <2>2. minted[jar[b]].at \in Nat /\ clock \in Nat
    BY NoneAssumption DEF IInv, TypeOK, MintedInv, Token
  <2>3. \/ Accepts(jar[b], minted[jar[b]].ip)
        \/ MayRefresh(jar[b], minted[jar[b]].ip)
    BY <2>2, SecsAssumption
    DEF Accepts, MayRefresh, Expired, CloseToExpire, AccessExpires, RefreshExpires, Alive
  <2> QED
    BY <2>1, <2>3
<1> QED
  BY <1>1, <1>2, <1>3, PTL DEF Spec
=============================================================================
