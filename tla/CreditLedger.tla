---------------------------- MODULE CreditLedger ----------------------------
(***************************************************************************)
(* What the credit system promises one user, with no cache, no network and *)
(* no failure in sight.  Credits come in batches that expire; a unit of    *)
(* credit is a pair <<batch, k>>.  A payer pays its whole price in one     *)
(* step, out of units that have not expired, those that expire first       *)
(* first, and every unit is spent at most once.  Credit enters the ledger  *)
(* in two ways only: the one grant that confirming the e-mail address      *)
(* earns, and one refund of what a payer has paid.                         *)
(*                                                                         *)
(* Credits implements this specification (Credits!LedgerSpec).             *)
(***************************************************************************)
EXTENDS Integers, Sequences, FiniteSets

CONSTANTS
  Payer,          \* those who pay: the requests to /generate
  Grantor,        \* those who may grant: the requests to /verify
  Price,          \* Price[p]: what payer p pays
  GrantSize,      \* the units the one grant is worth
  Start,          \* the batches the user holds at the beginning
  Nobody,         \* their owner
  Time            \* the times there are

LedgerAssumption ==
  /\ Price \in [Payer -> Nat \ {0}]
  /\ GrantSize \in Nat \ {0}
  /\ Time \subseteq Nat
  /\ Payer \cap Grantor = {}
  /\ Start \in Seq([size : Nat, expireat : Nat, owner : {Nobody}])
  /\ Nobody \notin Payer \cup Grantor

VARIABLES
  clock,          \* the time
  batches,        \* every batch ever minted, as [size, expireat, owner]
  live,           \* the units nobody has spent
  spent           \* spent[p]: the units payer p has spent

ledgerVars == <<clock, batches, live, spent>>

UnitsOf(i, n) == {i} \X (1 .. n)
Minted == UNION {UnitsOf(i, batches[i].size) : i \in DOMAIN batches}
ExpiryOf(u) == batches[u[1]].expireat
Usable == {u \in live : ExpiryOf(u) > clock}
MintedBy(S) == {i \in DOMAIN batches : batches[i].owner \in S}
-----------------------------------------------------------------------------
LedgerInit ==
  /\ clock = 0
  /\ batches = Start
  /\ live = UNION {UnitsOf(i, Start[i].size) : i \in DOMAIN Start}
  /\ spent = [p \in Payer |-> {}]

(* Time passes; nothing else changes. *)
Advance ==
  /\ clock' \in Nat /\ clock' > clock
  /\ UNCHANGED <<batches, live, spent>>

(* Payer p pays its price with the usable units that expire first. *)
Spend(p) ==
  \E D \in SUBSET Usable :
    /\ spent[p] = {}
    /\ Cardinality(D) = Price[p]
    /\ \A d \in D, u \in Usable \ D : ExpiryOf(d) <= ExpiryOf(u)
    /\ live' = live \ D
    /\ spent' = [spent EXCEPT ![p] = D]
    /\ UNCHANGED <<clock, batches>>

(* A new batch of n units appears for owner o, with some expiry. *)
Mint(o, n) ==
  \E e \in Time :
    /\ batches' = Append(batches, [size |-> n, expireat |-> e, owner |-> o])
    /\ live' = live \cup UnitsOf(Len(batches) + 1, n)
    /\ UNCHANGED <<clock, spent>>

(* The grant is made once. *)
Grant(v) ==
  /\ MintedBy(Grantor) = {}
  /\ Mint(v, GrantSize)

(* Only what was paid is refunded, and only once. *)
Refund(p) ==
  /\ spent[p] # {}
  /\ MintedBy({p}) = {}
  /\ Mint(p, Price[p])

LedgerNext ==
  \/ Advance
  \/ \E p \in Payer : Spend(p) \/ Refund(p)
  \/ \E v \in Grantor : Grant(v)

LedgerSpec == LedgerInit /\ [][LedgerNext]_ledgerVars
-----------------------------------------------------------------------------
(* Every unit ever minted is live or has been spent by one payer, and no    *)
(* unit is both, or spent by two, or spent without having been minted.     *)
Conserved ==
  /\ live \cup UNION {spent[p] : p \in Payer} = Minted
  /\ \A p \in Payer : spent[p] \cap live = {}
  /\ \A p, q \in Payer : p # q => spent[p] \cap spent[q] = {}

(* Whoever has paid has paid the whole price.                              *)
WholePrice == \A p \in Payer : spent[p] # {} => Cardinality(spent[p]) = Price[p]

(* The user is given credit at most once for the confirmation of the       *)
(* address, and at most once for each payment, of the same size.           *)
CreditedOnce ==
  /\ \A i, j \in MintedBy(Grantor) : i = j
  /\ \A i \in MintedBy(Grantor) : batches[i].size = GrantSize
  /\ \A p \in Payer : \A i, j \in MintedBy({p}) :
       i = j /\ spent[p] # {} /\ batches[i].size = Price[p]
=============================================================================
