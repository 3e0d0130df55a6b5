------------------------------ MODULE Cooldowns ------------------------------
(***************************************************************************)
(* The three requests that anybody may repeat, and what holds them back:   *)
(* the contact form (contact.rs), the verification mail                    *)
(* (send_verification.rs) and the newsletter form (subscribe_newsletter.rs) *)
(*                                                                         *)
(* Each reads a key in Redis, refuses when the key is there, and writes it *)
(* in a later call.  One step here is one call to Redis, Postgres or       *)
(* Lambda.  A key that is found absent and is not written yet protects     *)
(* nothing: "loose" remembers the keys for which that has mattered, so     *)
(* that the properties speak of all the others.                            *)
(***************************************************************************)
EXTENDS Naturals, FiniteSets

CONSTANTS
    Emails,      \* addresses given in the forms
    Addresses,   \* what contact.rs makes of a client address and the day
    Users,       \* accounts that ask for the verification mail
    Requests,    \* requests under way at once
    Domain,      \* [Emails -> the domains]
    GoodDomains, \* those with an MX, an SPF and a DMARC record
    None,
    Allowed,     \* ALLOWED_TICKETS_OPEN_AT_ONCE
    MaxRequests, \* bound: requests that come in
    MaxFaults    \* bound: calls that fail, handlers that stop

Domains == {Domain[e] : e \in Emails}
Kinds == {"contact", "newsletter", "verify"}
\* "contact:<email>", "contact:<address>", "user:<id>:verify", base64(email).
Keys == ({"contact", "newsletter"} \X Emails) \cup ({"address"} \X Addresses)
        \cup ({"verify"} \X Users)

ASSUME CooldownConstants ==
    /\ Domain \in [Emails -> Domains]
    /\ None \notin Emails \cup Addresses \cup Users \cup {"t", "f"}
    /\ Allowed \in Nat /\ MaxRequests \in Nat /\ MaxFaults \in Nat

VARIABLES
    req,     \* the requests
    keys,    \* keys in Redis
    verdict, \* the domain's key: "t", "f" or None
    open,    \* supporttickets of an address that are not Closed
    served,  \* history: tickets or mails for a key since it last ran out
    loose,   \* history: keys that two requests at once, or a fault, got past
    received, \* how many requests have come in
    faults

vars == <<req, keys, verdict, open, served, loose, received, faults>>

Pcs == {"idle", "domain", "lookup", "check", "mark", "checkaddress", "markaddress",
        "count", "insert", "ask", "send"}
Idle == [pc |-> "idle", kind |-> "verify", who |-> None, address |-> None]

Init ==
    /\ req = [r \in Requests |-> Idle]
    /\ keys = {}
    /\ verdict = [d \in Domains |-> None]
    /\ open = [e \in Emails |-> 0]
    /\ served = [k \in Keys |-> 0]
    /\ loose = {}
    /\ received = 0 /\ faults = 0

-----------------------------------------------------------------------------
(* The order of the calls.                                                 *)

\* Mutant: the newsletter key is written before the mail is sent.
AfterMarksFirst(kind, pc) ==
    CASE pc = "domain" -> "check"
      [] pc = "check" -> "mark"
      [] pc = "mark" /\ kind # "contact" -> "ask"
      [] pc = "ask" -> "send"
      [] pc = "mark" /\ kind = "contact" -> "checkaddress"
      [] pc = "checkaddress" -> "markaddress"
      [] pc = "markaddress" -> "count"
      [] pc = "count" -> "insert"
      [] pc = "insert" -> "send"
      [] OTHER -> "idle"

\* The call after the one at pc, when that one lets the request go on.
After(kind, pc) ==
    CASE pc = "domain" -> "check"
      [] pc = "check" -> IF kind = "newsletter" THEN "ask" ELSE "mark"
      [] pc = "ask" -> "send"
      [] pc = "send" /\ kind = "newsletter" -> "mark"
      [] pc = "mark" /\ kind = "verify" -> "ask"
      [] pc = "mark" /\ kind = "contact" -> "checkaddress"
      [] pc = "checkaddress" -> "markaddress"
      [] pc = "markaddress" -> "count"
      [] pc = "count" -> "insert"
      [] pc = "insert" -> "send"
      [] OTHER -> "idle"

Go(r) == req' = [req EXCEPT ![r].pc = After(req[r].kind, req[r].pc)]
End(r) == req' = [req EXCEPT ![r] = Idle]

OwnKey(r) == <<req[r].kind, req[r].who>>
AddressKey(r) == <<"address", req[r].address>>
\* The key that the call at hand reads or writes.
KeyAt(r) == IF req[r].pc \in {"checkaddress", "markaddress"} THEN AddressKey(r) ELSE OwnKey(r)

\* Keys that a request has found absent.
Passed(r) ==
    (IF req[r].pc \in {"idle", "domain", "lookup", "check"} THEN {} ELSE {OwnKey(r)})
    \cup
    (IF req[r].kind = "contact" /\ req[r].pc \in {"markaddress", "count", "insert", "send"}
     THEN {AddressKey(r)} ELSE {})

\* The calls at which a key is checked or marked.
CheckPcs == {"check", "checkaddress"}
MarkPcs == {"mark", "markaddress"}

-----------------------------------------------------------------------------
(* The calls, when they succeed.                                           *)

\* A request passes validation and the other filters.
Start(r, kind, who, a) ==
    /\ req[r].pc = "idle"
    /\ received < MaxRequests
    /\ received' = received + 1
    /\ req' = [req EXCEPT ![r] = [pc |-> IF kind = "verify" THEN "check" ELSE "domain",
                                  kind |-> kind, who |-> who, address |-> a]]
    /\ UNCHANGED <<keys, verdict, open, served, loose, faults>>

\* verify_email: the verdict in Redis decides, when there is one.
ReadVerdict(r) ==
    /\ req[r].pc = "domain"
    /\ CASE verdict[Domain[req[r].who]] = "t" -> Go(r)
         [] verdict[Domain[req[r].who]] = "f" -> End(r)
         [] OTHER -> req' = [req EXCEPT ![r].pc = "lookup"]
    /\ UNCHANGED <<keys, verdict, open, served, loose, received, faults>>

\* Mutant: a lookup that fails does not count against the domain.
LookUpLenient(r, fails) ==
    /\ req[r].pc = "lookup"
    /\ fails => faults < MaxFaults
    /\ LET good == fails \/ Domain[req[r].who] \in GoodDomains
       IN  /\ verdict' = [verdict EXCEPT ![Domain[req[r].who]] = IF good THEN "t" ELSE "f"]
           /\ req' = [req EXCEPT ![r] = IF good THEN [req[r] EXCEPT !.pc = "check"] ELSE Idle]
    /\ faults' = IF fails THEN faults + 1 ELSE faults
    /\ UNCHANGED <<keys, open, served, loose, received>>

\* check_domain: three lookups, and one that fails counts as a record that is
\* not there.  The verdict is kept for three days either way.
LookUp(r, fails) ==
    /\ req[r].pc = "lookup"
    /\ fails => faults < MaxFaults
    /\ LET good == ~fails /\ Domain[req[r].who] \in GoodDomains
       IN  /\ verdict' = [verdict EXCEPT ![Domain[req[r].who]] = IF good THEN "t" ELSE "f"]
           /\ req' = [req EXCEPT ![r] = IF good THEN [req[r] EXCEPT !.pc = "check"] ELSE Idle]
    /\ faults' = IF fails THEN faults + 1 ELSE faults
    /\ UNCHANGED <<keys, open, served, loose, received>>

\* GET of a cooldown: 429 when the key is there.
Check(r) ==
    /\ req[r].pc \in CheckPcs
    /\ IF KeyAt(r) \in keys
       THEN End(r) /\ UNCHANGED loose
       ELSE /\ Go(r)
            /\ loose' = IF \E q \in Requests \ {r} : KeyAt(r) \in Passed(q)
                        THEN loose \cup {KeyAt(r)} ELSE loose
    /\ UNCHANGED <<keys, verdict, open, served, received, faults>>

\* Mutants: the key of the address is never written; the key has no prefix.
MarkOwnOnly(r) ==
    /\ req[r].pc \in MarkPcs
    /\ keys' = keys \cup {OwnKey(r)}
    /\ Go(r)
    /\ UNCHANGED <<verdict, open, served, loose, received, faults>>
MarkBare(r) ==
    /\ req[r].pc \in MarkPcs
    /\ keys' = keys \cup {KeyAt(r)[2]}
    /\ Go(r)
    /\ UNCHANGED <<verdict, open, served, loose, received, faults>>

\* SET of a cooldown.
Mark(r) ==
    /\ req[r].pc \in MarkPcs
    /\ keys' = keys \cup {KeyAt(r)}
    /\ Go(r)
    /\ UNCHANGED <<verdict, open, served, loose, received, faults>>

\* The account (is it there and not verified yet?) or the mail list (is the
\* address not in it yet?) lets the request go on, or not.
Ask(r, yes) ==
    /\ req[r].pc = "ask"
    /\ IF yes THEN Go(r) ELSE End(r)
    /\ UNCHANGED <<keys, verdict, open, served, loose, received, faults>>

\* Mutant: one ticket more than is allowed.
CountAbove(r) ==
    /\ req[r].pc = "count"
    /\ IF open[req[r].who] > Allowed THEN End(r) ELSE Go(r)
    /\ UNCHANGED <<keys, verdict, open, served, loose, received, faults>>

\* The open tickets of the address are counted, outside the transaction.
Count(r) ==
    /\ req[r].pc = "count"
    /\ IF open[req[r].who] >= Allowed THEN End(r) ELSE Go(r)
    /\ UNCHANGED <<keys, verdict, open, served, loose, received, faults>>

\* The transaction commits a ticket and its message.
Insert(r) ==
    /\ req[r].pc = "insert"
    /\ open' = [open EXCEPT ![req[r].who] = @ + 1]
    /\ served' = [k \in Keys |-> IF k \in {OwnKey(r), AddressKey(r)} THEN served[k] + 1
                                                                     ELSE served[k]]
    /\ Go(r)
    /\ UNCHANGED <<keys, verdict, loose, received, faults>>

\* The mail function is invoked.  For a contact request that is only a notice.
Send(r) ==
    /\ req[r].pc = "send"
    /\ served' = IF req[r].kind = "contact" THEN served
                                            ELSE [served EXCEPT ![OwnKey(r)] = @ + 1]
    /\ Go(r)
    /\ UNCHANGED <<keys, verdict, open, loose, received, faults>>

-----------------------------------------------------------------------------
(* Failures, time, and the others.                                         *)

\* The call at hand fails, before it had its effect or after, or the handler
\* stops; the request ends.  (That a contact request whose notice fails is
\* answered with OK makes no difference to what is kept.)  A newsletter mail
\* that went out leaves no key behind then.
Fail(r, effect) ==
    /\ req[r].pc # "idle"
    /\ faults < MaxFaults
    /\ faults' = faults + 1
    /\ End(r)
    /\ LET mailed == req[r].pc = "send" /\ req[r].kind # "contact" /\ effect
           inserted == req[r].pc = "insert" /\ effect
           done == IF inserted THEN {OwnKey(r), AddressKey(r)}
                   ELSE IF mailed THEN {OwnKey(r)} ELSE {}
       IN  /\ open' = IF inserted THEN [open EXCEPT ![req[r].who] = @ + 1] ELSE open
           /\ served' = [k \in Keys |-> IF k \in done THEN served[k] + 1 ELSE served[k]]
           /\ keys' = IF req[r].pc \in MarkPcs /\ effect THEN keys \cup {KeyAt(r)} ELSE keys
           /\ loose' = IF req[r].kind = "newsletter" /\ req[r].pc \in {"send", "mark"}
                       THEN loose \cup {OwnKey(r)} ELSE loose
    /\ verdict' = IF req[r].pc = "lookup" /\ effect
                  THEN [verdict EXCEPT ![Domain[req[r].who]] =
                           IF Domain[req[r].who] \in GoodDomains THEN "t" ELSE "f"]
                  ELSE verdict
    /\ UNCHANGED received

\* A key runs out.  A request is answered or abandoned within 30 seconds (API
\* Gateway), and the shortest cooldown is two minutes: a request that found
\* the key absent has ended before a key written after that runs out.
Expire(k) ==
    /\ k \in keys
    /\ \A r \in Requests : k \notin Passed(r)
    /\ keys' = keys \ {k}
    /\ served' = [served EXCEPT ![k] = 0]
    /\ UNCHANGED <<req, verdict, open, loose, received, faults>>

ForgetVerdict(d) ==
    /\ verdict[d] # None
    /\ verdict' = [verdict EXCEPT ![d] = None]
    /\ UNCHANGED <<req, keys, open, served, loose, received, faults>>

\* The staff closes a ticket (Tickets).
Close(e) ==
    /\ open[e] > 0
    /\ open' = [open EXCEPT ![e] = @ - 1]
    /\ UNCHANGED <<req, keys, verdict, served, loose, received, faults>>

Step(r) ==
    \/ \E e \in Emails, a \in Addresses : Start(r, "contact", e, a)
    \/ \E e \in Emails : Start(r, "newsletter", e, None)
    \/ \E u \in Users : Start(r, "verify", u, None)
    \/ ReadVerdict(r) \/ Check(r) \/ Mark(r) \/ Count(r) \/ Insert(r) \/ Send(r)
    \/ \E b \in BOOLEAN : LookUp(r, b) \/ Ask(r, b) \/ Fail(r, b)

Next ==
    \/ \E r \in Requests : Step(r)
    \/ \E k \in Keys : Expire(k)
    \/ \E d \in Domains : ForgetVerdict(d)
    \/ \E e \in Emails : Close(e)

Spec == Init /\ [][Next]_vars

-----------------------------------------------------------------------------
(* Properties.                                                             *)

\* The requests, the keys, the verdicts and the counts are what they should be.
TypeOK ==
    /\ req \in [Requests -> [pc : Pcs, kind : Kinds, who : Emails \cup Users \cup {None},
                             address : Addresses \cup {None}]]
    /\ keys \in SUBSET Keys
    /\ verdict \in [Domains -> {"t", "f", None}]
    /\ open \in [Emails -> Nat]
    /\ served \in [Keys -> Nat]
    /\ loose \in SUBSET Keys
    /\ received \in Nat /\ faults \in Nat

\* Between two times that a key runs out, one ticket or mail is made for it:
\* one ticket for an address of either kind, one verification mail for an
\* account and one confirmation mail for an address.  The exceptions are two
\* requests that read the key before either wrote it, and a newsletter mail
\* that went out with no key written.
ServedOncePerCooldown == \A k \in Keys \ loose : served[k] <= 1

\* The limit of open tickets, counted outside the transaction that adds one,
\* holds all the same, because the cooldown keeps requests of one address
\* apart: only a key that two of them got past lets it be exceeded.
OpenWithinLimit ==
    \A e \in Emails : open[e] > Allowed => <<"contact", e>> \in loose

\* The newsletter form does not hold back an address that was sent nothing
\* ("If sent successfully, add encoded email to redis cache"): neither an
\* address that is in the list nor one for which a call failed.
HeldBackMeansMailed == \A e \in Emails : <<"newsletter", e>> \in keys => served[<<"newsletter", e>>] > 0

\* Nothing is ever made for an address of a domain that cannot have mail,
\* whatever verdicts are kept, race or fail.
OnlyGoodDomains ==
    \A e \in Emails : Domain[e] \notin GoodDomains =>
        open[e] = 0 /\ served[<<"contact", e>>] = 0 /\ served[<<"newsletter", e>>] = 0
==============================================================================
