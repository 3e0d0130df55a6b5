-------------------------- MODULE Cooldowns_proofs --------------------------
(***************************************************************************)
(* What the cooldowns promise for any number of requests, addresses and    *)
(* accounts, and any number of failures.                                   *)
(***************************************************************************)
EXTENDS Cooldowns, TLAPS

USE DEF Kinds, Pcs, CheckPcs, MarkPcs

Records == [pc : Pcs, kind : Kinds, who : Emails \cup Users \cup {None},
            address : Addresses \cup {None}]

-----------------------------------------------------------------------------
(* The inductive invariant.                                                *)

\* A request is at a call of its kind, and knows what that call needs.
Fits(x) ==
  \/ x.pc = "idle"
  \/ /\ x.kind = "contact" /\ x.who \in Emails /\ x.address \in Addresses
     /\ x.pc # "ask"
  \/ /\ x.kind = "newsletter" /\ x.who \in Emails
     /\ x.pc \in {"domain", "lookup", "check", "ask", "send", "mark"}
  \/ /\ x.kind = "verify" /\ x.who \in Users
     /\ x.pc \in {"check", "mark", "ask", "send"}
CarryInv == \A r \in Requests : Fits(req[r])

\* At most one request is past a key that is not loose.
UniqueInv == \A r \in Requests, q \in Requests : \A k \in Passed(r) \cap Passed(q) :
                r = q \/ k \in loose

\* Keys that a request has written.
Marked(r) ==
  (IF req[r].kind # "newsletter" /\ req[r].pc \notin {"idle", "domain", "lookup", "check", "mark"}
   THEN {OwnKey(r)} ELSE {})
  \cup
  (IF req[r].kind = "contact" /\ req[r].pc \in {"count", "insert", "send"}
   THEN {AddressKey(r)} ELSE {})
MarkedInv == \A r \in Requests : Marked(r) \subseteq keys

\* Keys for which a request has yet to make a ticket or a mail.
Unserved(r) ==
  IF \/ req[r].kind = "contact" /\ req[r].pc = "send"
     \/ req[r].kind = "newsletter" /\ req[r].pc = "mark"
  THEN {} ELSE Passed(r)
Mailed(r) == req[r].kind = "newsletter" /\ req[r].pc = "mark"
ServedInv == \A k \in Keys \ loose :
  /\ served[k] <= 1
  /\ \A r \in Requests : k \in Unserved(r) => served[k] = 0
  /\ served[k] > 0 => k \in keys \/ \E r \in Requests : Mailed(r) /\ OwnKey(r) = k

LimitInv ==
  /\ OpenWithinLimit
  /\ \A r \in Requests : req[r].kind = "contact" /\ req[r].pc = "insert" =>
        open[req[r].who] < Allowed \/ OwnKey(r) \in loose

NewsInv ==
  /\ HeldBackMeansMailed
  /\ \A r \in Requests : Mailed(r) => served[OwnKey(r)] > 0

IInv == /\ TypeOK /\ CarryInv /\ UniqueInv /\ MarkedInv
        /\ ServedInv /\ LimitInv /\ NewsInv

-----------------------------------------------------------------------------
(* The keys of a request, and how it moves.                                *)

LEMMA KeysOf ==
  ASSUME TypeOK, CarryInv, NEW r \in Requests
  PROVE  /\ Passed(r) \subseteq Keys
         /\ req[r].pc # "idle" => OwnKey(r) \in Keys
         /\ req[r].kind = "contact" /\ req[r].pc # "idle" => AddressKey(r) \in Keys
         /\ OwnKey(r) # AddressKey(r)
<1>1. req[r] \in Records /\ Fits(req[r])
  BY DEF TypeOK, CarryInv, Records
<1> QED
  BY <1>1 DEF Fits, Passed, OwnKey, AddressKey, Keys, Records

\* A request that is somewhere else and otherwise the same.
Moved(r, p) ==
  /\ req'[r].pc = p /\ req'[r].kind = req[r].kind
  /\ req'[r].who = req[r].who /\ req'[r].address = req[r].address
Others(r) == \A q \in Requests \ {r} : req'[q] = req[q]

LEMMA AtPc ==
  ASSUME NEW x \in Records, NEW p \in Pcs
  PROVE  /\ [x EXCEPT !.pc = p] \in Records
         /\ [x EXCEPT !.pc = p].pc = p /\ [x EXCEPT !.pc = p].kind = x.kind
         /\ [x EXCEPT !.pc = p].who = x.who /\ [x EXCEPT !.pc = p].address = x.address
BY DEF Records

LEMMA AfterTypes ==
  ASSUME NEW kind, NEW pc PROVE After(kind, pc) \in Pcs
BY DEF After

LEMMA MoveEffect ==
  ASSUME TypeOK, NEW r \in Requests, NEW p \in Pcs, req' = [req EXCEPT ![r].pc = p]
  PROVE  req' \in [Requests -> Records] /\ Others(r) /\ Moved(r, p)
<1>1. req \in [Requests -> Records]
  BY DEF TypeOK, Records
<1>2. req' = [req EXCEPT ![r] = [req[r] EXCEPT !.pc = p]]
  OBVIOUS
<1>3. [req[r] EXCEPT !.pc = p] \in Records
  BY <1>1, AtPc
<1>4. req' \in [Requests -> Records] /\ req'[r] = [req[r] EXCEPT !.pc = p] /\ Others(r)
  BY <1>1, <1>2, <1>3 DEF Others
<1>5. Moved(r, p)
  BY <1>1, <1>4, AtPc DEF Moved
<1> QED
  BY <1>4, <1>5

LEMMA GoEffect ==
  ASSUME TypeOK, NEW r \in Requests, Go(r)
  PROVE  /\ req' \in [Requests -> Records]
         /\ Others(r) /\ Moved(r, After(req[r].kind, req[r].pc))
<1> DEFINE p == After(req[r].kind, req[r].pc)
<1>1. p \in Pcs /\ req' = [req EXCEPT ![r].pc = p]
  BY AfterTypes DEF Go
<1> HIDE DEF p
<1>2. req' \in [Requests -> Records] /\ Others(r) /\ Moved(r, p)
  BY <1>1, MoveEffect
<1> QED
  BY <1>2 DEF p

LEMMA IdleTypes == Idle \in Records
BY Zenon DEF Idle, Records

LEMMA EndEffect ==
  ASSUME TypeOK, NEW r \in Requests, End(r)
  PROVE  /\ req' \in [Requests -> Records]
         /\ Others(r) /\ req'[r].pc = "idle" /\ req'[r].kind = "verify"
<1>1. req' \in [Requests -> Records] /\ req'[r] = Idle /\ Others(r)
  BY IdleTypes DEF TypeOK, End, Others, Records
<1> QED
  BY <1>1 DEF Idle

-----------------------------------------------------------------------------
(* A request that ends, and makes or marks nothing, disturbs nothing.      *)
LEMMA EndKeeps ==
  ASSUME IInv, NEW r \in Requests, Others(r), req'[r].pc = "idle", req'[r].kind = "verify",
         keys \subseteq keys', loose \subseteq loose', served' = served, open' = open,
         \A e \in Emails : <<"newsletter", e>> \in keys' =>
             \/ <<"newsletter", e>> \in keys
             \/ Mailed(r) /\ <<"newsletter", e>> = OwnKey(r),
         loose' \in SUBSET Keys, Mailed(r) => OwnKey(r) \in loose'
  PROVE  CarryInv' /\ UniqueInv' /\ MarkedInv' /\ ServedInv' /\ LimitInv' /\ NewsInv'
<1>1. CarryInv'
  BY DEF IInv, CarryInv, Fits, Others
<1>2. UniqueInv'
  BY DEF IInv, UniqueInv, Passed, OwnKey, AddressKey, Others
<1>3. MarkedInv'
  BY DEF IInv, MarkedInv, Marked, OwnKey, AddressKey, Others
<1>4. ServedInv'
  BY DEF IInv, ServedInv, Unserved, Passed, Mailed, OwnKey, AddressKey, Others
<1>5. LimitInv'
  BY DEF IInv, LimitInv, OpenWithinLimit, OwnKey, Others
<1>6. NewsInv'
  BY DEF IInv, NewsInv, HeldBackMeansMailed, Mailed, OwnKey, Others
<1> QED
  BY <1>1, <1>2, <1>3, <1>4, <1>5, <1>6

-----------------------------------------------------------------------------
(* The steps.                                                              *)
LEMMA StepInv == ASSUME CooldownConstants, IInv, Next PROVE IInv'
<1> USE DEF IInv
<1> DEFINE Rest == CarryInv' /\ UniqueInv' /\ MarkedInv' /\ ServedInv' /\ LimitInv' /\ NewsInv'
\* A request comes in.
<1>1. ASSUME NEW r \in Requests, NEW kind \in Kinds, NEW who \in Emails \cup Users,
             NEW a \in Addresses \cup {None}, Start(r, kind, who, a),
             kind # "verify" => who \in Emails, kind = "contact" => a \in Addresses,
             kind = "verify" => who \in Users
      PROVE  IInv'
  <2> DEFINE p == IF kind = "verify" THEN "check" ELSE "domain"
             x == [pc |-> p, kind |-> kind, who |-> who, address |-> a]
  <2>1. p \in Pcs /\ req' = [req EXCEPT ![r] = x]
    BY <1>1 DEF Start
  <2>2. p \in {"check", "domain"} /\ (kind = "verify" <=> p = "check")
    OBVIOUS
  <2> HIDE DEF p
  <2>3. x \in Records
    BY <2>1, Zenon DEF Records
  <2>4. /\ req' \in [Requests -> Records] /\ Others(r)
        /\ req'[r].pc = p /\ req'[r].kind = kind /\ req'[r].who = who /\ req'[r].address = a
    BY <2>1, <2>3 DEF TypeOK, Records, Others
  <2>5. UNCHANGED <<keys, verdict, open, served, loose, faults>> /\ received' \in Nat
    BY <1>1 DEF Start, TypeOK
  <2> HIDE DEF x
  <2>6. TypeOK'
    BY <2>4, <2>5 DEF TypeOK, Records
  <2>7. CarryInv'
    BY <1>1, <2>2, <2>4 DEF CarryInv, Fits, Others
  <2>8. UniqueInv' /\ MarkedInv'
    BY <2>2, <2>4, <2>5 DEF UniqueInv, MarkedInv, Marked, Passed, OwnKey, AddressKey, Others
  <2>9. ServedInv'
    BY <2>2, <2>4, <2>5, <1>1 DEF ServedInv, Unserved, Mailed, Passed, OwnKey, AddressKey, Others, Start
  <2>10. LimitInv' /\ NewsInv'
    BY <2>2, <2>4, <2>5, <1>1 DEF LimitInv, NewsInv, OpenWithinLimit, HeldBackMeansMailed, Mailed, OwnKey, Others, Start
  <2> QED
    BY <2>6, <2>7, <2>8, <2>9, <2>10
\* A request goes on and has made and marked nothing.
<1>2. ASSUME NEW r \in Requests, NEW p \in Pcs, req' \in [Requests -> Records], Others(r), Moved(r, p),
             UNCHANGED <<keys, served, open, loose>>,
             \/ req[r].pc \in {"domain", "lookup"} /\ p \in {"lookup", "check"}
             \/ req[r].pc = "ask" /\ p = "send" /\ req[r].kind # "contact"
             \/ req[r].pc = "count" /\ p = "insert" /\ open[req[r].who] < Allowed,
             req[r].kind = "verify" => p # "lookup"
      PROVE  Rest
  <2>1. CarryInv'
    BY <1>2 DEF CarryInv, Fits, Others, Moved
  <2>2. UniqueInv' /\ MarkedInv'
    BY <1>2 DEF UniqueInv, MarkedInv, Marked, Passed, OwnKey, AddressKey, Others, Moved
  <2>3. ServedInv'
    BY <1>2 DEF ServedInv, Unserved, Mailed, Passed, OwnKey, AddressKey, Others, Moved
  <2>4. LimitInv' /\ NewsInv'
    BY <1>2 DEF LimitInv, NewsInv, OpenWithinLimit, HeldBackMeansMailed, Mailed, OwnKey, Others, Moved
  <2> QED
    BY <2>1, <2>2, <2>3, <2>4
<1>3. ASSUME NEW r \in Requests, ReadVerdict(r) PROVE IInv'
  <2>1. req[r].pc = "domain" /\ UNCHANGED <<keys, verdict, open, served, loose, received, faults>>
    BY <1>3 DEF ReadVerdict
  <2>2. req[r].kind # "verify"
    BY <2>1 DEF CarryInv, Fits
  <2>3. CASE Go(r)
    <3>1. req' \in [Requests -> Records] /\ Others(r) /\ Moved(r, "check")
      BY <2>1, <2>3, GoEffect DEF After
    <3>2. Rest
      BY <1>2, <2>1, <2>2, <3>1
    <3> QED
      BY <2>1, <3>1, <3>2 DEF TypeOK, Records
  <2>4. CASE End(r)
    <3>1. req' \in [Requests -> Records] /\ Others(r) /\ req'[r].pc = "idle" /\ req'[r].kind = "verify"
      BY <2>4, EndEffect
    <3>2. Rest
      BY <2>1, <3>1, EndKeeps DEF Mailed, TypeOK
    <3> QED
      BY <2>1, <3>1, <3>2 DEF TypeOK, Records
  <2>5. CASE req' = [req EXCEPT ![r].pc = "lookup"]
    <3>1. req' \in [Requests -> Records] /\ Others(r) /\ Moved(r, "lookup")
      BY <2>5, MoveEffect
    <3>2. Rest
      BY <1>2, <2>1, <2>2, <3>1
    <3> QED
      BY <2>1, <3>1, <3>2 DEF TypeOK, Records
  <2> QED
    BY <1>3, <2>3, <2>4, <2>5 DEF ReadVerdict
<1>4. ASSUME NEW r \in Requests, NEW fails \in BOOLEAN, LookUp(r, fails) PROVE IInv'
  <2> DEFINE good == ~fails /\ Domain[req[r].who] \in GoodDomains
  <2>1. req[r].pc = "lookup" /\ UNCHANGED <<keys, open, served, loose, received>>
    BY <1>4 DEF LookUp
  <2>6. req' = [req EXCEPT ![r] = IF good THEN [req[r] EXCEPT !.pc = "check"] ELSE Idle]
    BY <1>4, Zenon DEF LookUp
  <2>2. verdict' \in [Domains -> {"t", "f", None}] /\ faults' \in Nat
    <3> DEFINE v == IF good THEN "t" ELSE "f"
    <3>1. verdict' = [verdict EXCEPT ![Domain[req[r].who]] = v]
      BY <1>4, Zenon DEF LookUp
    <3>2. v \in {"t", "f"}
      OBVIOUS
    <3>3. faults' = faults \/ faults' = faults + 1
      BY <1>4, Zenon DEF LookUp
    <3>4. faults' \in Nat
      BY <3>3 DEF TypeOK
    <3> HIDE DEF v
    <3>5. verdict' \in [Domains -> {"t", "f", None}]
      BY <3>1, <3>2 DEF TypeOK
    <3> QED
      BY <3>4, <3>5
  <2>3. req[r].kind # "verify"
    BY <2>1 DEF CarryInv, Fits
  <2>4. CASE good
    <3>1. req' \in [Requests -> Records] /\ Others(r) /\ Moved(r, "check")
      <4>1. req' = [req EXCEPT ![r] = [req[r] EXCEPT !.pc = "check"]]
        BY <2>4, <2>6
      <4>2. req' = [req EXCEPT ![r].pc = "check"]
        BY <4>1
      <4> QED
        BY <4>2, MoveEffect
    <3>2. Rest
      BY <1>2, <2>1, <2>3, <3>1
    <3> QED
      BY <2>1, <2>2, <3>1, <3>2 DEF TypeOK, Records
  <2>5. CASE ~good
    <3>1. End(r)
      BY <2>5, <2>6 DEF End
    <3>2. req' \in [Requests -> Records] /\ Others(r) /\ req'[r].pc = "idle" /\ req'[r].kind = "verify"
      BY <3>1, EndEffect
    <3>3. Rest
      BY <2>1, <3>2, EndKeeps DEF Mailed, TypeOK
    <3> QED
      BY <2>1, <2>2, <3>2, <3>3 DEF TypeOK, Records
  <2> QED
    BY <2>4, <2>5
\* The cooldown lets a request pass.
<1>5. ASSUME NEW r \in Requests, Check(r) PROVE IInv'
  <2>1. req[r].pc \in CheckPcs /\ UNCHANGED <<keys, verdict, open, served, received, faults>>
    BY <1>5 DEF Check
  <2>2. CASE KeyAt(r) \in keys
    <3>1. req' \in [Requests -> Records] /\ Others(r) /\ req'[r].pc = "idle" /\ req'[r].kind = "verify"
          /\ loose' = loose
      BY <1>5, <2>2, EndEffect DEF Check
    <3>2. Rest
      BY <2>1, <3>1, EndKeeps DEF Mailed, TypeOK
    <3> QED
      BY <2>1, <3>1, <3>2 DEF TypeOK, Records
  <2>3. CASE KeyAt(r) \notin keys
    <3> DEFINE p == After(req[r].kind, req[r].pc)
    <3>1. /\ req' \in [Requests -> Records] /\ Others(r) /\ Moved(r, p)
          /\ loose' = IF \E q \in Requests \ {r} : KeyAt(r) \in Passed(q)
                      THEN loose \cup {KeyAt(r)} ELSE loose
      BY <1>5, <2>3, GoEffect DEF Check
    <3>2. \/ req[r].pc = "check" /\ req[r].kind = "newsletter" /\ p = "ask"
          \/ req[r].pc = "check" /\ req[r].kind # "newsletter" /\ p = "mark"
          \/ req[r].pc = "checkaddress" /\ req[r].kind = "contact" /\ p = "markaddress"
      BY <2>1 DEF After, CarryInv, Fits
    <3> HIDE DEF p
    <3>3. KeyAt(r) \in Keys
      BY <2>1, KeysOf DEF KeyAt, CarryInv, Fits
    <3>4. TypeOK'
      BY <2>1, <3>1, <3>3 DEF TypeOK, Records
    <3>5. CarryInv'
      BY <2>1, <3>1, <3>2 DEF CarryInv, Fits, Others, Moved
    <3>6. /\ Passed(r)' = Passed(r) \cup {KeyAt(r)} /\ Marked(r)' = Marked(r)
          /\ \A q \in Requests \ {r} : Passed(q)' = Passed(q) /\ Marked(q)' = Marked(q)
      BY <3>1, <3>2 DEF Passed, Marked, OwnKey, AddressKey, KeyAt, Others, Moved
    <3>7. \A q \in Requests : Unserved(q)' \subseteq Passed(q)' /\ Mailed(q)' = Mailed(q)
                              /\ (q # r => Unserved(q)' = Unserved(q)) /\ OwnKey(q)' = OwnKey(q)
      BY <3>1, <3>2 DEF Unserved, Mailed, Passed, OwnKey, AddressKey, Others, Moved
    <3>8. UniqueInv'
      BY <3>1, <3>6 DEF UniqueInv
    <3>9. MarkedInv'
      BY <2>1, <3>6 DEF MarkedInv
    <3>10. ServedInv'
      <4>1. \A k \in Passed(r) \ {KeyAt(r)} : k \in Unserved(r)
        BY <3>2 DEF Unserved
      <4>2. \A q \in Requests : Mailed(q) => OwnKey(q) \in Passed(q)
        BY DEF Mailed, Passed
      <4>3. ~Mailed(r)
        BY <3>2 DEF Mailed
      <4>4. KeyAt(r) \notin loose' => served[KeyAt(r)] = 0
        BY <2>3, <3>1, <3>3, <4>2, <4>3 DEF ServedInv, TypeOK
      <4> QED
        BY <2>1, <3>1, <3>6, <3>7, <4>1, <4>4 DEF ServedInv
    <3>11. LimitInv'
      BY <2>1, <3>1, <3>2 DEF LimitInv, OpenWithinLimit, OwnKey, Others, Moved
    <3>12. NewsInv'
      BY <2>1, <3>7 DEF NewsInv, HeldBackMeansMailed
    <3> QED
      BY <3>4, <3>5, <3>8, <3>9, <3>10, <3>11, <3>12
  <2> QED
    BY <2>2, <2>3
\* The key is written.
<1>6. ASSUME NEW r \in Requests, Mark(r) PROVE IInv'
  <2> DEFINE p == After(req[r].kind, req[r].pc)
  <2>1. /\ req[r].pc \in MarkPcs /\ UNCHANGED <<verdict, open, served, loose, received, faults>>
        /\ keys' = keys \cup {KeyAt(r)}
        /\ req' \in [Requests -> Records] /\ Others(r) /\ Moved(r, p)
    BY <1>6, GoEffect DEF Mark
  <2>2. \/ req[r].pc = "mark" /\ req[r].kind = "newsletter" /\ p = "idle"
        \/ req[r].pc = "mark" /\ req[r].kind = "contact" /\ p = "checkaddress"
        \/ req[r].pc = "mark" /\ req[r].kind = "verify" /\ p = "ask"
        \/ req[r].pc = "markaddress" /\ req[r].kind = "contact" /\ p = "count"
    BY <2>1 DEF After, CarryInv, Fits
  <2> HIDE DEF p
  <2>3. KeyAt(r) \in Keys
    BY <2>1, KeysOf DEF KeyAt, CarryInv, Fits
  <2>4. TypeOK'
    BY <2>1, <2>3 DEF TypeOK, Records
  <2>5. CarryInv'
    BY <2>1, <2>2 DEF CarryInv, Fits, Others, Moved
  <2>6. /\ Passed(r)' \subseteq Passed(r) /\ Marked(r)' \subseteq Marked(r) \cup {KeyAt(r)}
        /\ Unserved(r)' \subseteq Unserved(r) /\ ~Mailed(r)'
        /\ Mailed(r) => KeyAt(r) = OwnKey(r)
    BY <2>1, <2>2 DEF Passed, Marked, Unserved, Mailed, OwnKey, AddressKey, KeyAt, Moved
  <2>7. \A q \in Requests \ {r} :
          /\ Passed(q)' = Passed(q) /\ Marked(q)' = Marked(q) /\ Unserved(q)' = Unserved(q)
          /\ Mailed(q)' = Mailed(q) /\ OwnKey(q)' = OwnKey(q)
    BY <2>1 DEF Passed, Marked, Unserved, Mailed, OwnKey, AddressKey, Others
  <2>8. UniqueInv'
    BY <2>1, <2>6, <2>7 DEF UniqueInv
  <2>9. MarkedInv'
    BY <2>1, <2>6, <2>7 DEF MarkedInv
  <2>10. ServedInv'
    BY <2>1, <2>6, <2>7 DEF ServedInv
  <2>11. LimitInv'
    BY <2>1, <2>2 DEF LimitInv, OpenWithinLimit, OwnKey, Others, Moved
  <2>12. NewsInv'
    <3>1. ASSUME NEW e \in Emails, KeyAt(r) = <<"newsletter", e>> PROVE Mailed(r)
      BY <2>1, <2>2, <3>1 DEF KeyAt, OwnKey, AddressKey, Mailed
    <3> QED
      BY <2>1, <2>6, <2>7, <3>1 DEF NewsInv, HeldBackMeansMailed
  <2> QED
    BY <2>4, <2>5, <2>8, <2>9, <2>10, <2>11, <2>12
<1>7. ASSUME NEW r \in Requests, NEW yes \in BOOLEAN, Ask(r, yes) PROVE IInv'
  <2>1. req[r].pc = "ask" /\ UNCHANGED <<keys, verdict, open, served, loose, received, faults>>
        /\ (Go(r) \/ End(r))
    BY <1>7 DEF Ask
  <2>2. CASE Go(r)
    <3>1. req' \in [Requests -> Records] /\ Others(r) /\ Moved(r, "send")
      BY <2>1, <2>2, GoEffect DEF After
    <3>2. req[r].kind # "contact"
      BY <2>1 DEF CarryInv, Fits
    <3>3. Rest
      BY <1>2, <2>1, <3>1, <3>2
    <3> QED
      BY <2>1, <3>1, <3>3 DEF TypeOK, Records
  <2>3. CASE End(r)
    <3>1. req' \in [Requests -> Records] /\ Others(r) /\ req'[r].pc = "idle" /\ req'[r].kind = "verify"
      BY <2>3, EndEffect
    <3>2. Rest
      BY <2>1, <3>1, EndKeeps DEF Mailed, TypeOK
    <3> QED
      BY <2>1, <3>1, <3>2 DEF TypeOK, Records
  <2> QED
    BY <2>1, <2>2, <2>3
<1>8. ASSUME NEW r \in Requests, Count(r) PROVE IInv'
  <2>1. req[r].pc = "count" /\ UNCHANGED <<keys, verdict, open, served, loose, received, faults>>
    BY <1>8 DEF Count
  <2>2. req[r].kind = "contact" /\ req[r].who \in Emails
    BY <2>1 DEF CarryInv, Fits
  <2>3. CASE open[req[r].who] < Allowed
    <3>1. Go(r)
      BY <1>8, <2>2, <2>3, CooldownConstants DEF Count, TypeOK
    <3>2. req' \in [Requests -> Records] /\ Others(r) /\ Moved(r, "insert")
      BY <2>1, <3>1, GoEffect DEF After
    <3>3. Rest
      BY <1>2, <2>1, <2>2, <2>3, <3>2
    <3> QED
      BY <2>1, <3>2, <3>3 DEF TypeOK, Records
  <2>4. CASE ~(open[req[r].who] < Allowed)
    <3>1. End(r)
      BY <1>8, <2>2, <2>4, CooldownConstants DEF Count, TypeOK
    <3>2. req' \in [Requests -> Records] /\ Others(r) /\ req'[r].pc = "idle" /\ req'[r].kind = "verify"
      BY <3>1, EndEffect
    <3>3. Rest
      BY <2>1, <3>2, EndKeeps DEF Mailed, TypeOK
    <3> QED
      BY <2>1, <3>2, <3>3 DEF TypeOK, Records
  <2> QED
    BY <2>3, <2>4
\* A ticket or a mail is made for keys that nobody else is past.
<1>9. ASSUME NEW r \in Requests, NEW done \in SUBSET Keys, done \subseteq Unserved(r),
             served' = [k \in Keys |-> IF k \in done THEN served[k] + 1 ELSE served[k]],
             Others(r), keys' = keys, loose \subseteq loose', loose' \in SUBSET Keys,
             Passed(r)' \subseteq Passed(r), Marked(r)' \subseteq Marked(r),
             Unserved(r)' = {}, ~Mailed(r),
             Mailed(r)' => OwnKey(r)' \in done /\ OwnKey(r)' = OwnKey(r),
             \A k \in done : k \in Marked(r) \/ k \in loose' \/ (Mailed(r)' /\ OwnKey(r)' = k)
      PROVE  UniqueInv' /\ MarkedInv' /\ ServedInv' /\ NewsInv'
  <2>1. \A q \in Requests \ {r} :
          /\ Passed(q)' = Passed(q) /\ Marked(q)' = Marked(q) /\ Unserved(q)' = Unserved(q)
          /\ Mailed(q)' = Mailed(q) /\ OwnKey(q)' = OwnKey(q)
          /\ Unserved(q) \subseteq Passed(q)
    BY <1>9 DEF Passed, Marked, Unserved, Mailed, OwnKey, AddressKey, Others
  <2>2. Unserved(r) \subseteq Passed(r)
    BY DEF Unserved
  <2>3. served \in [Keys -> Nat] /\ \A k \in Keys : served'[k] =
            IF k \in done THEN served[k] + 1 ELSE served[k]
    BY <1>9 DEF TypeOK
  <2>4. UniqueInv'
    BY <1>9, <2>1 DEF UniqueInv
  <2>5. MarkedInv'
    BY <1>9, <2>1 DEF MarkedInv
  <2>6. ASSUME NEW k \in Keys \ loose' 
        PROVE  /\ served'[k] <= 1
               /\ \A q \in Requests : k \in Unserved(q)' => served'[k] = 0
               /\ served'[k] > 0 => k \in keys' \/ \E q \in Requests : Mailed(q)' /\ OwnKey(q)' = k
    <3>1. CASE k \in done
      <4>1. served[k] = 0 /\ served'[k] = 1
        BY <1>9, <2>3, <3>1 DEF ServedInv
      <4>2. \A q \in Requests \ {r} : k \notin Unserved(q)
        BY <1>9, <2>1, <2>2, <3>1 DEF UniqueInv
      <4>3. k \in keys' \/ \E q \in Requests : Mailed(q)' /\ OwnKey(q)' = k
        BY <1>9, <3>1 DEF MarkedInv
      <4> QED
        BY <1>9, <2>1, <3>1, <4>1, <4>2, <4>3
    <3>2. CASE k \notin done
      <4>1. served'[k] = served[k]
        BY <2>3, <3>2
      <4> QED
        BY <1>9, <2>1, <2>6, <4>1 DEF ServedInv
    <3> QED
      BY <3>1, <3>2
  <2>7. ServedInv'
    BY <2>6 DEF ServedInv
  <2>8. NewsInv'
    <3>1. \A k \in Keys : served'[k] >= served[k] /\ (k \in done => served'[k] > 0)
      BY <2>3
    <3>2. \A e \in Emails : <<"newsletter", e>> \in Keys
      BY DEF Keys
    <3>3. \A q \in Requests : Mailed(q) => OwnKey(q) \in Keys
      BY KeysOf DEF Mailed
    <3> QED
      BY <1>9, <2>1, <2>3, <3>1, <3>2, <3>3 DEF NewsInv, HeldBackMeansMailed
  <2> QED
    BY <2>4, <2>5, <2>7, <2>8
\* The ticket keeps to the limit.
<1>10. ASSUME NEW r \in Requests, req[r].kind = "contact", req[r].pc = "insert", req[r].who \in Emails,
              open' = [open EXCEPT ![req[r].who] = @ + 1], Others(r), req'[r].pc # "insert",
              loose' = loose
       PROVE  LimitInv'
  <2>1. open[req[r].who] < Allowed \/ OwnKey(r) \in loose
    BY <1>10 DEF LimitInv
  <2>2. OwnKey(r) = <<"contact", req[r].who>>
    BY <1>10 DEF OwnKey
  <2>3. OpenWithinLimit'
    BY <1>10, <2>1, <2>2, CooldownConstants DEF LimitInv, OpenWithinLimit, TypeOK
  <2>4. ASSUME NEW q \in Requests, (req[q].kind = "contact" /\ req[q].pc = "insert")'
        PROVE  (open[req[q].who] < Allowed \/ OwnKey(q) \in loose)'
    <3>1. q # r /\ req'[q] = req[q] /\ req[q].kind = "contact" /\ req[q].pc = "insert"
      BY <1>10, <2>4 DEF Others
    <3>2. CASE req[q].who = req[r].who
      <4>1. OwnKey(q) = OwnKey(r) /\ OwnKey(q) \in Passed(q) /\ OwnKey(r) \in Passed(r)
        BY <1>10, <3>1, <3>2 DEF OwnKey, Passed
      <4>2. OwnKey(q) \in loose
        BY <3>1, <4>1 DEF UniqueInv
      <4> QED
        BY <1>10, <3>1, <4>2 DEF OwnKey
    <3>3. CASE req[q].who # req[r].who
      BY <1>10, <3>1, <3>3 DEF LimitInv, OwnKey, TypeOK
    <3> QED
      BY <3>2, <3>3
  <2> QED
    BY <2>3, <2>4 DEF LimitInv
<1>11. ASSUME NEW r \in Requests, Insert(r) PROVE IInv'
  <2> DEFINE done == {OwnKey(r), AddressKey(r)}
  <2>1. /\ req[r].pc = "insert" /\ UNCHANGED <<keys, verdict, loose, received, faults>>
        /\ open' = [open EXCEPT ![req[r].who] = @ + 1]
        /\ served' = [k \in Keys |-> IF k \in done THEN served[k] + 1 ELSE served[k]]
        /\ req' \in [Requests -> Records] /\ Others(r) /\ Moved(r, "send")
    BY <1>11, GoEffect DEF Insert, After
  <2>2. req[r].kind = "contact" /\ req[r].who \in Emails /\ req[r].address \in Addresses
    BY <2>1 DEF CarryInv, Fits
  <2>3. done \in SUBSET Keys
    BY <2>1, <2>2, KeysOf
  <2>4. /\ done \subseteq Unserved(r) /\ Passed(r)' = Passed(r) /\ Marked(r)' = Marked(r)
        /\ done \subseteq Marked(r)
        /\ Unserved(r)' = {} /\ ~Mailed(r) /\ ~Mailed(r)'
    BY <2>1, <2>2 DEF Unserved, Passed, Marked, Mailed, OwnKey, AddressKey, Moved
  <2> HIDE DEF done
  <2>5. loose \in SUBSET Keys /\ loose' = loose
    BY <2>1 DEF TypeOK
  <2>6. UniqueInv' /\ MarkedInv' /\ ServedInv' /\ NewsInv'
    BY <1>9, <2>1, <2>3, <2>4, <2>5
  <2>7. TypeOK'
    BY <2>1, <2>2 DEF TypeOK, Records
  <2>8. CarryInv'
    BY <2>1, <2>2 DEF CarryInv, Fits, Others, Moved
  <2>9. LimitInv'
    BY <1>10, <2>1, <2>2 DEF Moved
  <2> QED
    BY <2>6, <2>7, <2>8, <2>9
<1>12. ASSUME NEW r \in Requests, Send(r) PROVE IInv'
  <2> DEFINE done == IF req[r].kind = "contact" THEN {} ELSE {OwnKey(r)}
             p == After(req[r].kind, req[r].pc)
  <2>1. /\ req[r].pc = "send" /\ UNCHANGED <<keys, verdict, open, loose, received, faults>>
        /\ req' \in [Requests -> Records] /\ Others(r) /\ Moved(r, p)
    BY <1>12, GoEffect DEF Send
  <2>2. \/ req[r].kind = "newsletter" /\ p = "mark"
        \/ req[r].kind # "newsletter" /\ p = "idle"
    BY <2>1 DEF After, TypeOK
  <2>3. OwnKey(r) \in Keys
    BY <2>1, KeysOf
  <2>4. served' = [k \in Keys |-> IF k \in done THEN served[k] + 1 ELSE served[k]]
    BY <1>12, <2>3 DEF Send, TypeOK
  <2>5. done \in SUBSET Keys /\ loose \in SUBSET Keys /\ loose' = loose
    BY <2>1, <2>3 DEF TypeOK
  <2> HIDE DEF p
  <2>6. /\ done \subseteq Unserved(r) /\ Passed(r)' \subseteq Passed(r) /\ Marked(r)' \subseteq Marked(r)
        /\ Unserved(r)' = {} /\ ~Mailed(r)
        /\ Mailed(r)' => OwnKey(r)' \in done /\ OwnKey(r)' = OwnKey(r)
        /\ \A k \in done : k \in Marked(r) \/ (Mailed(r)' /\ OwnKey(r)' = k)
    BY <2>1, <2>2 DEF Unserved, Passed, Marked, Mailed, OwnKey, AddressKey, Moved
  <2> HIDE DEF done
  <2>7. UniqueInv' /\ MarkedInv' /\ ServedInv' /\ NewsInv'
    BY <1>9, <2>1, <2>4, <2>5, <2>6
  <2>8. TypeOK'
    BY <2>1, <2>4 DEF TypeOK, Records
  <2>9. CarryInv'
    BY <2>1, <2>2 DEF CarryInv, Fits, Others, Moved
  <2>10. LimitInv'
    BY <2>1, <2>2 DEF LimitInv, OpenWithinLimit, OwnKey, Others, Moved
  <2> QED
    BY <2>7, <2>8, <2>9, <2>10
<1>13. ASSUME NEW r \in Requests, NEW effect \in BOOLEAN, Fail(r, effect) PROVE IInv'
  <2> DEFINE mailed == req[r].pc = "send" /\ req[r].kind # "contact" /\ effect
             inserted == req[r].pc = "insert" /\ effect
             done == IF inserted THEN {OwnKey(r), AddressKey(r)}
                     ELSE IF mailed THEN {OwnKey(r)} ELSE {}
  <2>1. /\ req[r].pc # "idle" /\ End(r) /\ faults' = faults + 1 /\ received' = received
    BY <1>13 DEF Fail
  <2>2. /\ open' = IF inserted THEN [open EXCEPT ![req[r].who] = @ + 1] ELSE open
        /\ served' = [k \in Keys |-> IF k \in done THEN served[k] + 1 ELSE served[k]]
    BY <1>13, Zenon DEF Fail
  <2>3. \/ keys' = keys
        \/ req[r].pc \in MarkPcs /\ keys' = keys \cup {KeyAt(r)}
    BY <1>13, Zenon DEF Fail
  <2>4. loose' = IF req[r].kind = "newsletter" /\ req[r].pc \in {"send", "mark"}
                 THEN loose \cup {OwnKey(r)} ELSE loose
    BY <1>13, Zenon DEF Fail
  <2>5. verdict' \in [Domains -> {"t", "f", None}]
    <3> DEFINE v == IF Domain[req[r].who] \in GoodDomains THEN "t" ELSE "f"
    <3>1. verdict' = verdict \/ verdict' = [verdict EXCEPT ![Domain[req[r].who]] = v]
      BY <1>13, Zenon DEF Fail
    <3>2. v \in {"t", "f"}
      OBVIOUS
    <3> HIDE DEF v
    <3> QED
      BY <3>1, <3>2 DEF TypeOK
  <2>6. req' \in [Requests -> Records] /\ Others(r) /\ req'[r].pc = "idle" /\ req'[r].kind = "verify"
    BY <2>1, EndEffect
  <2>7. OwnKey(r) \in Keys /\ (req[r].kind = "contact" => AddressKey(r) \in Keys)
    BY <2>1, KeysOf
  <2>8. req[r].pc \in {"insert", "markaddress"} => req[r].kind = "contact" /\ req[r].who \in Emails
    BY DEF CarryInv, Fits
  <2>9. TypeOK'
    <3>1. open' \in [Emails -> Nat]
      <4>1. open' = open \/ open' = [open EXCEPT ![req[r].who] = @ + 1]
        BY <2>2, Zenon
      <4> QED
        BY <4>1 DEF TypeOK
    <3>2. served' \in [Keys -> Nat]
      BY <2>2 DEF TypeOK
    <3>3. keys' \in SUBSET Keys
      BY <2>3, <2>7, <2>8 DEF TypeOK, KeyAt
    <3>4. loose' \in SUBSET Keys
      BY <2>4, <2>7 DEF TypeOK
    <3> QED
      BY <2>1, <2>5, <2>6, <3>1, <3>2, <3>3, <3>4 DEF TypeOK, Records
  <2>10. CASE inserted
    <3>1. /\ req[r].kind = "contact" /\ req[r].pc = "insert" /\ req[r].who \in Emails
          /\ done = {OwnKey(r), AddressKey(r)} /\ loose' = loose /\ keys' = keys
      BY <2>3, <2>4, <2>8, <2>10
    <3>2. /\ done \subseteq Unserved(r) /\ done \subseteq Marked(r) /\ ~Mailed(r)
          /\ Passed(r)' = {} /\ Marked(r)' = {} /\ Unserved(r)' = {} /\ ~Mailed(r)'
      BY <2>6, <3>1 DEF Unserved, Passed, Marked, Mailed, OwnKey, AddressKey
    <3>3. done \in SUBSET Keys /\ loose' \in SUBSET Keys
      BY <2>7, <3>1 DEF TypeOK
    <3>4. LimitInv'
      <4>1. open' = [open EXCEPT ![req[r].who] = @ + 1]
        BY <2>2, <2>10
      <4> QED
        BY <1>10, <2>6, <3>1, <4>1
    <3> HIDE DEF done
    <3>5. UniqueInv' /\ MarkedInv' /\ ServedInv' /\ NewsInv'
      BY <1>9, <2>2, <2>6, <3>1, <3>2, <3>3
    <3>6. CarryInv'
      BY <2>6 DEF CarryInv, Fits, Others
    <3> QED
      BY <2>9, <3>4, <3>5, <3>6
  <2>11. CASE mailed
    <3>1. /\ req[r].kind # "contact" /\ req[r].pc = "send" /\ open' = open
          /\ done = {OwnKey(r)} /\ loose \subseteq loose' /\ keys' = keys
          /\ req[r].kind = "newsletter" => OwnKey(r) \in loose'
      BY <2>2, <2>3, <2>4, <2>11
    <3>2. /\ done \subseteq Unserved(r) /\ (\A k \in done : k \in Marked(r) \/ k \in loose') /\ ~Mailed(r)
          /\ Passed(r)' = {} /\ Marked(r)' = {} /\ Unserved(r)' = {} /\ ~Mailed(r)'
      BY <2>6, <3>1 DEF Unserved, Passed, Marked, Mailed, OwnKey, AddressKey
    <3>3. done \in SUBSET Keys /\ loose' \in SUBSET Keys
      BY <2>7, <2>9, <3>1 DEF TypeOK
    <3>4. LimitInv'
      BY <2>6, <3>1 DEF LimitInv, OpenWithinLimit, OwnKey, Others
    <3> HIDE DEF done
    <3>5. UniqueInv' /\ MarkedInv' /\ ServedInv' /\ NewsInv'
      BY <1>9, <2>2, <2>6, <3>1, <3>2, <3>3
    <3>6. CarryInv'
      BY <2>6 DEF CarryInv, Fits, Others
    <3> QED
      BY <2>9, <3>4, <3>5, <3>6
  <2>12. CASE ~inserted /\ ~mailed
    <3>1. open' = open /\ done = {}
      BY <2>2, <2>12
    <3>2. served' = served
      BY <2>2, <3>1 DEF TypeOK
    <3>3. Mailed(r) => OwnKey(r) \in loose'
      BY <2>4 DEF Mailed
    <3>4. \A e \in Emails : <<"newsletter", e>> \in keys' =>
             \/ <<"newsletter", e>> \in keys
             \/ Mailed(r) /\ <<"newsletter", e>> = OwnKey(r)
      BY <2>3, <2>8 DEF Mailed, KeyAt, OwnKey, AddressKey
    <3>5. keys \subseteq keys' /\ loose \subseteq loose' /\ loose' \in SUBSET Keys
      BY <2>3, <2>4, <2>9 DEF TypeOK
    <3>6. Rest
      BY <2>6, <3>1, <3>2, <3>3, <3>4, <3>5, EndKeeps
    <3> QED
      BY <2>9, <3>6
  <2> QED
    BY <2>10, <2>11, <2>12
\* A key runs out, that nobody is past.
<1>14. ASSUME NEW k \in Keys, Expire(k) PROVE IInv'
  <2>1. /\ k \in keys /\ keys' = keys \ {k} /\ served' = [served EXCEPT ![k] = 0]
        /\ \A r \in Requests : k \notin Passed(r)
        /\ UNCHANGED <<req, verdict, open, loose, received, faults>>
    BY <1>14 DEF Expire
  <2>2. \A r \in Requests :
          /\ Passed(r)' = Passed(r) /\ Marked(r)' = Marked(r) /\ Unserved(r)' = Unserved(r)
          /\ Mailed(r)' = Mailed(r) /\ OwnKey(r)' = OwnKey(r)
          /\ Marked(r) \subseteq Passed(r) /\ (Mailed(r) => OwnKey(r) \in Passed(r))
    BY <2>1 DEF Passed, Marked, Unserved, Mailed, OwnKey, AddressKey
  <2>3. TypeOK' /\ CarryInv'
    BY <2>1 DEF TypeOK, CarryInv, Fits
  <2>4. UniqueInv' /\ MarkedInv'
    BY <2>1, <2>2 DEF UniqueInv, MarkedInv
  <2>5. ServedInv'
    BY <2>1, <2>2 DEF ServedInv, TypeOK
  <2>6. LimitInv'
    BY <2>1, <2>2 DEF LimitInv, OpenWithinLimit
  <2>7. NewsInv'
    BY <2>1, <2>2 DEF NewsInv, HeldBackMeansMailed, TypeOK
  <2> QED
    BY <2>3, <2>4, <2>5, <2>6, <2>7
<1>15. ASSUME NEW d \in Domains, ForgetVerdict(d) PROVE IInv'
  <2>1. UNCHANGED <<req, keys, open, served, loose, received, faults>>
        /\ verdict' \in [Domains -> {"t", "f", None}]
    BY <1>15 DEF ForgetVerdict, TypeOK
  <2>2. TypeOK' /\ CarryInv'
    BY <2>1 DEF TypeOK, CarryInv, Fits
  <2>3. UniqueInv' /\ MarkedInv' /\ ServedInv'
    BY <2>1 DEF UniqueInv, MarkedInv, ServedInv, Marked, Unserved, Passed, Mailed, OwnKey, AddressKey
  <2>4. LimitInv' /\ NewsInv'
    BY <2>1 DEF LimitInv, NewsInv, OpenWithinLimit, HeldBackMeansMailed, Mailed, OwnKey
  <2> QED
    BY <2>2, <2>3, <2>4
<1>16. ASSUME NEW e \in Emails, Close(e) PROVE IInv'
  <2>1. UNCHANGED <<req, keys, verdict, served, loose, received, faults>>
        /\ open[e] > 0 /\ open' = [open EXCEPT ![e] = @ - 1]
    BY <1>16 DEF Close
  <2>2. TypeOK' /\ CarryInv'
    BY <2>1 DEF TypeOK, CarryInv, Fits
  <2>3. UniqueInv' /\ MarkedInv' /\ ServedInv'
    BY <2>1 DEF UniqueInv, MarkedInv, ServedInv, Marked, Unserved, Passed, Mailed, OwnKey, AddressKey
  <2>4. \A x \in Emails : open'[x] <= open[x] /\ open[x] \in Nat /\ open'[x] \in Nat
    BY <2>1 DEF TypeOK
  <2>5. \A r \in Requests : req[r].kind = "contact" /\ req[r].pc = "insert" => req[r].who \in Emails
    BY DEF CarryInv, Fits
  <2>6. LimitInv' 
    BY <2>1, <2>4, <2>5, CooldownConstants DEF LimitInv, OpenWithinLimit, OwnKey
  <2>7. NewsInv'
    BY <2>1 DEF NewsInv, HeldBackMeansMailed, Mailed, OwnKey
  <2> QED
    BY <2>2, <2>3, <2>6, <2>7
<1>17. ASSUME NEW r \in Requests, Step(r) PROVE IInv'
  <2>1. ASSUME NEW e \in Emails, NEW a \in Addresses, Start(r, "contact", e, a) PROVE IInv'
    BY <1>1, <2>1
  <2>2. ASSUME NEW e \in Emails, Start(r, "newsletter", e, None) PROVE IInv'
    BY <1>1, <2>2
  <2>3. ASSUME NEW u \in Users, Start(r, "verify", u, None) PROVE IInv'
    BY <1>1, <2>3
  <2> QED
    BY <1>17, <2>1, <2>2, <2>3, <1>3, <1>4, <1>5, <1>6, <1>7, <1>8, <1>11, <1>12, <1>13 DEF Step
<1> QED
  BY <1>14, <1>15, <1>16, <1>17 DEF Next

LEMMA InitInv == ASSUME CooldownConstants, Init PROVE IInv
<1>1. \A r \in Requests : req[r] = Idle /\ req[r].pc = "idle" /\ req[r].kind = "verify"
  BY DEF Init, Idle
<1>2. TypeOK
  <2>1. req \in [Requests -> Records]
    BY IdleTypes DEF Init
  <2> QED
    BY <2>1 DEF Init, TypeOK, Records
<1>3. CarryInv
  BY <1>1 DEF CarryInv, Fits
<1>4. UniqueInv /\ MarkedInv
  BY <1>1 DEF UniqueInv, MarkedInv, Passed, Marked
<1>5. ServedInv
  BY <1>1 DEF Init, ServedInv
<1>6. LimitInv /\ NewsInv
  BY <1>1, CooldownConstants DEF Init, LimitInv, NewsInv, OpenWithinLimit, HeldBackMeansMailed, Mailed
<1> QED
  BY <1>2, <1>3, <1>4, <1>5, <1>6 DEF IInv

-----------------------------------------------------------------------------
(* The invariant of every behaviour. *)
THEOREM Invariance == Spec => []IInv
<1>1. Init => IInv
  BY InitInv, CooldownConstants
<1>2. ASSUME IInv, UNCHANGED vars PROVE IInv'
  <2>1. TypeOK' /\ CarryInv'
    BY <1>2 DEF IInv, TypeOK, CarryInv, Fits, vars
  <2>2. UniqueInv' /\ MarkedInv'
    BY <1>2 DEF IInv, UniqueInv, MarkedInv, Marked, Passed, OwnKey, AddressKey, vars
  <2>3. ServedInv'
    BY <1>2 DEF IInv, ServedInv, Unserved, Passed, Mailed, OwnKey, AddressKey, vars
  <2>4. LimitInv' /\ NewsInv'
    BY <1>2 DEF IInv, LimitInv, NewsInv, OpenWithinLimit, HeldBackMeansMailed, Mailed, OwnKey, vars
  <2> QED
    BY <2>1, <2>2, <2>3, <2>4 DEF IInv
<1>3. IInv /\ [Next]_vars => IInv'
  BY <1>2, StepInv, CooldownConstants
<1> QED
  BY <1>1, <1>3, PTL DEF Spec

(* Requests, keys and counts keep their types (Cooldowns).                 *)
THEOREM CooldownTypes == Spec => []TypeOK
BY Invariance, PTL DEF IInv

(* One ticket or mail per cooldown, for all keys that no two requests got  *)
(* past at once (contact.rs, send_verification.rs, subscribe_newsletter.rs) *)
THEOREM OncePerCooldown == Spec => []ServedOncePerCooldown
<1>1. IInv => ServedOncePerCooldown
  BY DEF IInv, ServedInv, ServedOncePerCooldown
<1> QED
  BY <1>1, Invariance, PTL

(* The limit of open tickets holds wherever the cooldown of the address    *)
(* does: the count of contact.rs needs no lock then.                       *)
THEOREM CooldownGuardsLimit == Spec => []OpenWithinLimit
<1>1. IInv => OpenWithinLimit
  BY DEF IInv, LimitInv
<1> QED
  BY <1>1, Invariance, PTL

(* The newsletter form holds nobody back who was sent nothing              *)
(* (subscribe_newsletter.rs).                                              *)
THEOREM NobodyHeldBackForNothing == Spec => []HeldBackMeansMailed
<1>1. IInv => HeldBackMeansMailed
  BY DEF IInv, NewsInv
<1> QED
  BY <1>1, Invariance, PTL

-----------------------------------------------------------------------------
(* Verdicts on domains.                                                    *)

\* A verdict "t" was given to a domain that deserves it, and a request that
\* carries the address of another domain has not got past verify_email.
Vouched(x) ==
  x.kind # "verify" /\ x.pc \notin {"idle", "domain", "lookup"} => Domain[x.who] \in GoodDomains
DomainInv ==
  /\ \A d \in Domains : verdict[d] = "t" => d \in GoodDomains
  /\ \A r \in Requests : Vouched(req[r])
  /\ OnlyGoodDomains

\* A call that lets a vouched request go on, or ends it.
LEMMA VouchedStays ==
  ASSUME IInv, DomainInv, NEW r \in Requests, Go(r) \/ End(r), Vouched(req'[r])
  PROVE  \A q \in Requests : Vouched(req'[q])
<1>1. Others(r)
  BY GoEffect, EndEffect DEF IInv
<1> QED  BY <1>1 DEF DomainInv, Others

LEMMA GoesOn ==
  ASSUME IInv, DomainInv, NEW r \in Requests, Go(r),
         req[r].pc \notin {"idle", "domain", "lookup"}
  PROVE  Vouched(req'[r])
<1>1. Moved(r, After(req[r].kind, req[r].pc)) /\ Vouched(req[r])
  BY GoEffect DEF IInv, DomainInv
<1> QED  BY <1>1 DEF Moved, Vouched

LEMMA Ends == ASSUME IInv, NEW r \in Requests, End(r) PROVE Vouched(req'[r])
<1>1. req'[r].pc = "idle"
  BY EndEffect DEF IInv
<1> QED  BY <1>1 DEF Vouched

\* The keys of an address that no mail can reach.
BadKeys == {"contact", "newsletter"} \X {e \in Emails : Domain[e] \notin GoodDomains}

\* A request makes something for its own keys, and it was vouched for.
LEMMA OwnKeysGood ==
  ASSUME IInv, DomainInv, NEW r \in Requests, req[r].pc \in {"insert", "send"}
  PROVE  /\ OwnKey(r) \notin BadKeys
         /\ req[r].pc = "insert" =>
              AddressKey(r) \notin BadKeys /\ Domain[req[r].who] \in GoodDomains
<1>1. Fits(req[r]) /\ Vouched(req[r])
  BY DEF IInv, CarryInv, DomainInv
<1> QED  BY <1>1 DEF Fits, Vouched, OwnKey, AddressKey, BadKeys

LEMMA DomainStep ==
  ASSUME CooldownConstants, IInv, DomainInv, Next PROVE DomainInv'
<1> USE DEF DomainInv
<1>0. TypeOK' /\ TypeOK
  BY StepInv DEF IInv
<1>k. BadKeys \subseteq Keys
  BY DEF BadKeys, Keys
<1>s. ASSUME UNCHANGED <<open, served>> PROVE OnlyGoodDomains'
  BY <1>s DEF OnlyGoodDomains
<1>1. ASSUME NEW r \in Requests, NEW kind \in Kinds, NEW who, NEW a, Start(r, kind, who, a)
      PROVE  DomainInv'
  <2>1. \A q \in Requests : Vouched(req'[q])
    <3>1. \A q \in Requests \ {r} : req'[q] = req[q]
      BY <1>0, <1>1 DEF Start, TypeOK
    <3>2. Vouched(req'[r])
      BY <1>0, <1>1 DEF Start, TypeOK, Vouched
    <3> QED  BY <3>1, <3>2
  <2> QED  BY <1>1, <1>s, <2>1 DEF Start
<1>2. ASSUME NEW r \in Requests, ReadVerdict(r) PROVE DomainInv'
  <2>1. CASE verdict[Domain[req[r].who]] = "t"
    <3>1. Go(r) /\ req[r].pc = "domain"
      BY <1>2, <2>1 DEF ReadVerdict
    <3>2. req[r].who \in Emails /\ Domain[req[r].who] \in GoodDomains
      BY <2>1, <3>1 DEF IInv, CarryInv, Fits, Domains
    <3>3. Vouched(req'[r])
      BY <3>1, <3>2, GoEffect DEF IInv, Moved, Vouched
    <3> QED  BY <1>2, <1>s, <3>1, <3>3, VouchedStays DEF ReadVerdict
  <2>2. CASE verdict[Domain[req[r].who]] = "f"
    <3>1. End(r)
      BY <1>2, <2>2 DEF ReadVerdict
    <3> QED  BY <1>2, <1>s, <3>1, Ends, VouchedStays DEF ReadVerdict
  <2>3. CASE verdict[Domain[req[r].who]] \notin {"t", "f"}
    <3>1. req' = [req EXCEPT ![r].pc = "lookup"]
      BY <1>2, <2>3 DEF ReadVerdict
    <3>2. Others(r) /\ Moved(r, "lookup")
      BY <1>0, <3>1, MoveEffect
    <3>3. \A q \in Requests : Vouched(req'[q])
      BY <3>2 DEF Others, Moved, Vouched
    <3> QED  BY <1>2, <1>s, <3>3 DEF ReadVerdict
  <2> QED  BY <2>1, <2>2, <2>3
<1>3. ASSUME NEW r \in Requests, NEW fails \in BOOLEAN, LookUp(r, fails) PROVE DomainInv'
  <2> DEFINE good == ~fails /\ Domain[req[r].who] \in GoodDomains
             d == Domain[req[r].who]
  <2>1. /\ verdict' = [verdict EXCEPT ![d] = IF good THEN "t" ELSE "f"]
        /\ req' = [req EXCEPT ![r] = IF good THEN [req[r] EXCEPT !.pc = "check"] ELSE Idle]
        /\ UNCHANGED <<open, served>>
    BY <1>3 DEF LookUp
  <2>2. \A c \in Domains : verdict'[c] = "t" => c \in GoodDomains
    BY <1>0, <2>1 DEF TypeOK
  <2>3. \A q \in Requests \ {r} : req'[q] = req[q]
    BY <1>0, <2>1 DEF TypeOK
  <2>4. CASE good
    <3>1. req' = [req EXCEPT ![r].pc = "check"]
      BY <2>1, <2>4
    <3>2. Vouched(req'[r])
      BY <1>0, <2>4, <3>1, MoveEffect DEF Moved, Vouched
    <3> QED  BY <1>s, <2>1, <2>2, <2>3, <3>2
  <2>5. CASE ~good
    <3>1. End(r)
      BY <2>1, <2>5 DEF End
    <3> QED  BY <1>s, <2>1, <2>2, <3>1, Ends, VouchedStays
  <2> QED  BY <2>4, <2>5
<1>4. ASSUME NEW r \in Requests, Check(r) PROVE DomainInv'
  <2>1. Go(r) \/ End(r)
    BY <1>4 DEF Check
  <2>2. Vouched(req'[r])
    BY <1>4, <2>1, GoesOn, Ends DEF Check
  <2> QED  BY <1>4, <1>s, <2>1, <2>2, VouchedStays DEF Check
<1>5. ASSUME NEW r \in Requests, Mark(r) PROVE DomainInv'
  <2>1. Go(r) /\ Vouched(req'[r])
    BY <1>5, GoesOn DEF Mark
  <2> QED  BY <1>5, <1>s, <2>1, VouchedStays DEF Mark
<1>6. ASSUME NEW r \in Requests, NEW yes \in BOOLEAN, Ask(r, yes) PROVE DomainInv'
  <2>1. Go(r) \/ End(r)
    BY <1>6 DEF Ask
  <2>2. Vouched(req'[r])
    BY <1>6, <2>1, GoesOn, Ends DEF Ask
  <2> QED  BY <1>6, <1>s, <2>1, <2>2, VouchedStays DEF Ask
<1>7. ASSUME NEW r \in Requests, Count(r) PROVE DomainInv'
  <2>1. Go(r) \/ End(r)
    BY <1>7 DEF Count
  <2>2. Vouched(req'[r])
    BY <1>7, <2>1, GoesOn, Ends DEF Count
  <2> QED  BY <1>7, <1>s, <2>1, <2>2, VouchedStays DEF Count
<1>8. ASSUME NEW r \in Requests, Insert(r) PROVE DomainInv'
  <2>1. Go(r) /\ Vouched(req'[r]) /\ req[r].pc = "insert"
    BY <1>8, GoesOn DEF Insert
  <2>2. /\ OwnKey(r) \notin BadKeys /\ AddressKey(r) \notin BadKeys
        /\ Domain[req[r].who] \in GoodDomains
    BY <2>1, OwnKeysGood
  <2>3. \A k \in BadKeys : served'[k] = served[k]
    BY <1>8, <1>k, <2>2 DEF Insert
  <2>4. \A e \in Emails : Domain[e] \notin GoodDomains => open'[e] = open[e]
    BY <1>0, <1>8, <2>2 DEF Insert, TypeOK
  <2>5. OnlyGoodDomains'
    BY <2>3, <2>4 DEF BadKeys, OnlyGoodDomains
  <2> QED  BY <1>8, <2>1, <2>5, VouchedStays DEF Insert
<1>9. ASSUME NEW r \in Requests, Send(r) PROVE DomainInv'
  <2>1. Go(r) /\ Vouched(req'[r]) /\ req[r].pc = "send"
    BY <1>9, GoesOn DEF Send
  <2>2. OwnKey(r) \notin BadKeys
    BY <2>1, OwnKeysGood
  <2>3. \A k \in BadKeys : served'[k] = served[k]
    BY <1>0, <1>9, <1>k, <2>2 DEF Send, TypeOK
  <2>4. OnlyGoodDomains'
    BY <1>9, <2>3 DEF Send, BadKeys, OnlyGoodDomains
  <2> QED  BY <1>9, <2>1, <2>4, VouchedStays DEF Send
<1>10. ASSUME NEW r \in Requests, NEW effect \in BOOLEAN, Fail(r, effect) PROVE DomainInv'
  <2> DEFINE mailed == req[r].pc = "send" /\ req[r].kind # "contact" /\ effect
             inserted == req[r].pc = "insert" /\ effect
             done == IF inserted THEN {OwnKey(r), AddressKey(r)}
                     ELSE IF mailed THEN {OwnKey(r)} ELSE {}
  <2>1. /\ End(r)
        /\ open' = IF inserted THEN [open EXCEPT ![req[r].who] = @ + 1] ELSE open
        /\ served' = [k \in Keys |-> IF k \in done THEN served[k] + 1 ELSE served[k]]
        /\ verdict' = IF req[r].pc = "lookup" /\ effect
                      THEN [verdict EXCEPT ![Domain[req[r].who]] =
                              IF Domain[req[r].who] \in GoodDomains THEN "t" ELSE "f"]
                      ELSE verdict
    BY <1>10 DEF Fail
  <2>2. done \cap BadKeys = {} /\ (inserted => Domain[req[r].who] \in GoodDomains)
    BY OwnKeysGood
  <2>3. \A k \in BadKeys : served'[k] = served[k]
    BY <1>k, <2>1, <2>2
  <2>4. \A e \in Emails : Domain[e] \notin GoodDomains => open'[e] = open[e]
    BY <1>0, <2>1, <2>2 DEF TypeOK
  <2>5. OnlyGoodDomains'
    BY <2>3, <2>4 DEF BadKeys, OnlyGoodDomains
  <2>6. \A c \in Domains : verdict'[c] = "t" => c \in GoodDomains
    BY <1>0, <2>1 DEF TypeOK
  <2> QED  BY <2>1, <2>5, <2>6, Ends, VouchedStays
<1>11. ASSUME NEW k \in Keys, Expire(k) PROVE DomainInv'
  <2>1. \A x \in BadKeys : served'[x] = served[x] \/ served'[x] = 0
    BY <1>0, <1>11, <1>k DEF Expire, TypeOK
  <2>2. OnlyGoodDomains'
    BY <1>11, <2>1 DEF Expire, BadKeys, OnlyGoodDomains
  <2> QED  BY <1>11, <2>2 DEF Expire
<1>12. ASSUME NEW c \in Domains, ForgetVerdict(c) PROVE DomainInv'
  <2>1. \A d \in Domains : verdict'[d] = verdict[d] \/ verdict'[d] = None
    BY <1>0, <1>12 DEF ForgetVerdict, TypeOK
  <2>2. None # "t"
    BY DEF CooldownConstants
  <2> QED  BY <1>12, <1>s, <2>1, <2>2 DEF ForgetVerdict
<1>13. ASSUME NEW e \in Emails, Close(e) PROVE DomainInv'
  <2>1. \A x \in Emails : open[x] = 0 => open'[x] = 0
    BY <1>0, <1>13 DEF Close, TypeOK
  <2>2. OnlyGoodDomains'
    BY <1>13, <2>1 DEF Close, OnlyGoodDomains
  <2> QED  BY <1>13, <2>2 DEF Close
<1> QED
  BY <1>1, <1>2, <1>3, <1>4, <1>5, <1>6, <1>7, <1>8, <1>9, <1>10, <1>11, <1>12, <1>13
     DEF Next, Step

(* Nothing is made for an address whose domain cannot have mail, whatever  *)
(* verdicts are kept, race or fail (verify_email, check_domain).           *)
THEOREM OnlyRealDomains == Spec => []OnlyGoodDomains
<1>1. Init => DomainInv
  <2> SUFFICES ASSUME Init PROVE DomainInv
    OBVIOUS
  <2>1. \A d \in Domains : verdict[d] # "t"
    BY CooldownConstants DEF Init, CooldownConstants
  <2>2. \A r \in Requests : req[r].pc = "idle"
    BY DEF Init, Idle
  <2>3. OnlyGoodDomains
    BY DEF Init, OnlyGoodDomains, Keys
  <2> QED  BY <2>1, <2>2, <2>3 DEF DomainInv, Vouched
<1>2. IInv /\ DomainInv /\ [Next]_vars => DomainInv'
  <2>1. ASSUME DomainInv, UNCHANGED vars PROVE DomainInv'
    BY <2>1 DEF DomainInv, OnlyGoodDomains, Vouched, vars
  <2> QED  BY <2>1, DomainStep, CooldownConstants
<1>3. DomainInv => OnlyGoodDomains
  BY DEF DomainInv
<1> QED  BY <1>1, <1>2, <1>3, Invariance, PTL DEF Spec
=============================================================================
