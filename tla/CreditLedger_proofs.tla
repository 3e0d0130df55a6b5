------------------------- MODULE CreditLedger_proofs -------------------------
(***************************************************************************)
(* What follows from the ledger alone, for any payers, prices and batches: *)
(* credit is conserved, prices are paid in full, and a grant or a refund   *)
(* is made once.  Whatever implements the ledger inherits these.           *)
(***************************************************************************)
EXTENDS CreditLedger, TLAPS

Batch == [size : Nat, expireat : Nat, owner : Payer \cup Grantor \cup {Nobody}]

LedgerTypeOK ==
  /\ clock \in Nat
  /\ batches \in Seq(Batch)
  /\ spent \in [Payer -> SUBSET (Nat \X Nat)]

LedgerInv == LedgerTypeOK /\ Conserved /\ WholePrice /\ CreditedOnce

LEMMA SeqOfSubset ==
  ASSUME NEW S, NEW T, S \subseteq T, NEW s \in Seq(S) PROVE s \in Seq(T)
<1>1. Len(s) \in Nat /\ s \in [1 .. Len(s) -> S]
  OBVIOUS
<1>2. s \in [1 .. Len(s) -> T]
  BY <1>1
<1> QED  BY <1>1, <1>2

LEMMA LedgerInitInv == ASSUME LedgerAssumption, LedgerInit PROVE LedgerInv
<1> USE DEF LedgerAssumption, LedgerInit
<1> DEFINE First == [size : Nat, expireat : Nat, owner : {Nobody}]
<1>0. \A i \in DOMAIN Start : Start[i] \in First
  <2>1. Start \in Seq(First)
    OBVIOUS
  <2> HIDE DEF First
  <2>2. Start \in [1 .. Len(Start) -> First] /\ Len(Start) \in Nat
    BY <2>1
  <2> QED  BY <2>2
<1>1. LedgerTypeOK
  <2>1. Start \in Seq(Batch)
    <3>1. First \subseteq Batch
      BY DEF Batch
    <3>2. Start \in Seq(First)
      OBVIOUS
    <3> QED  BY <3>1, <3>2, SeqOfSubset
  <2> QED  BY <2>1 DEF LedgerTypeOK
<1>2. Conserved
  BY DEF Conserved, Minted
<1>3. WholePrice
  BY DEF WholePrice
<1>4. CreditedOnce
  <2>1. \A i \in DOMAIN batches : batches[i].owner = Nobody
    BY <1>0
  <2>2. MintedBy(Grantor) = {} /\ \A p \in Payer : MintedBy({p}) = {}
    BY <2>1 DEF MintedBy
  <2> QED  BY <2>2 DEF CreditedOnce
<1> QED  BY <1>1, <1>2, <1>3, <1>4 DEF LedgerInv

\* A payment moves units from live to spent.
LEMMA SpendKeeps ==
  ASSUME LedgerAssumption, LedgerInv, NEW p \in Payer, Spend(p)
  PROVE  LedgerInv'
<1>1. PICK D \in SUBSET Usable :
        /\ spent[p] = {}
        /\ Cardinality(D) = Price[p]
        /\ live' = live \ D
        /\ spent' = [spent EXCEPT ![p] = D]
        /\ UNCHANGED <<clock, batches>>
  BY DEF Spend
<1>2. D \subseteq live /\ live \subseteq Minted /\ Minted' = Minted
  BY <1>1 DEF Usable, LedgerInv, Conserved, Minted
<1>3. Minted \subseteq Nat \X Nat
  BY DEF Minted, UnitsOf, LedgerInv, LedgerTypeOK, Batch
<1>4. LedgerTypeOK'
  BY <1>1, <1>2, <1>3 DEF LedgerInv, LedgerTypeOK
<1>5. spent'[p] = D /\ \A q \in Payer \ {p} : spent'[q] = spent[q]
  BY <1>1 DEF LedgerInv, LedgerTypeOK
<1>6. Conserved'
  <2>1. \A q \in Payer : spent'[q] \cap live' = {}
    BY <1>1, <1>5 DEF LedgerInv, Conserved
  <2>2. \A q, r \in Payer : q # r => spent'[q] \cap spent'[r] = {}
    BY <1>2, <1>5 DEF LedgerInv, Conserved
  <2>3. live' \cup UNION {spent'[q] : q \in Payer} = Minted
    BY <1>1, <1>2, <1>5 DEF LedgerInv, Conserved
  <2> QED  BY <2>1, <2>2, <2>3, <1>2 DEF Conserved
<1>7. WholePrice'
  BY <1>1, <1>5 DEF LedgerInv, WholePrice
<1>8. CreditedOnce'
  BY <1>1, <1>5 DEF LedgerInv, CreditedOnce, MintedBy
<1> QED  BY <1>4, <1>6, <1>7, <1>8 DEF LedgerInv

\* A new batch adds its units to the live ones and to nothing else.
LEMMA MintKeeps ==
  ASSUME LedgerAssumption, LedgerInv, NEW o \in Payer \cup Grantor, NEW n \in Nat,
         Mint(o, n),
         o \in Grantor => n = GrantSize /\ MintedBy(Grantor) = {},
         o \in Payer => n = Price[o] /\ MintedBy({o}) = {} /\ spent[o] # {}
  PROVE  LedgerInv'
<1> DEFINE new == Len(batches) + 1
<1>1. PICK e \in Time :
        /\ batches' = Append(batches, [size |-> n, expireat |-> e, owner |-> o])
        /\ live' = live \cup UnitsOf(new, n)
        /\ UNCHANGED <<clock, spent>>
  BY DEF Mint
<1>2. /\ DOMAIN batches' = DOMAIN batches \cup {new} /\ new \notin DOMAIN batches
      /\ batches'[new] = [size |-> n, expireat |-> e, owner |-> o]
      /\ \A i \in DOMAIN batches : batches'[i] = batches[i]
  BY <1>1 DEF LedgerInv, LedgerTypeOK
<1>3. LedgerTypeOK'
  BY <1>1 DEF LedgerAssumption, LedgerInv, LedgerTypeOK, Batch
<1>4. Minted' = Minted \cup UnitsOf(new, n)
  BY <1>2 DEF Minted
<1>5. Minted \cap UnitsOf(new, n) = {}
  BY <1>2 DEF Minted, UnitsOf
<1>6. Conserved'
  BY <1>1, <1>4, <1>5 DEF LedgerInv, Conserved
<1>7. WholePrice'
  BY <1>1 DEF LedgerInv, WholePrice
<1>8. \A S : MintedBy(S)' = MintedBy(S) \cup (IF o \in S THEN {new} ELSE {})
  BY <1>2 DEF MintedBy
<1>9. CreditedOnce'
  <2> USE DEF LedgerAssumption
  <2>1. \A i, j \in MintedBy(Grantor)' : i = j
    BY <1>8 DEF LedgerInv, CreditedOnce
  <2>2. \A i \in MintedBy(Grantor)' : batches'[i].size = GrantSize
    BY <1>2, <1>8 DEF LedgerInv, CreditedOnce, MintedBy
  <2>3. ASSUME NEW p \in Payer, NEW i \in MintedBy({p})', NEW j \in MintedBy({p})'
        PROVE  i = j /\ spent'[p] # {} /\ batches'[i].size = Price[p]
    BY <1>1, <1>2, <1>8 DEF LedgerInv, CreditedOnce, MintedBy
  <2> QED  BY <2>1, <2>2, <2>3 DEF CreditedOnce
<1> QED  BY <1>3, <1>6, <1>7, <1>9 DEF LedgerInv

LEMMA LedgerStep ==
  ASSUME LedgerAssumption, LedgerInv, [LedgerNext]_ledgerVars PROVE LedgerInv'
<1>1. CASE Advance \/ UNCHANGED ledgerVars
  BY <1>1 DEF Advance, ledgerVars, LedgerInv, LedgerTypeOK, Conserved, WholePrice,
     CreditedOnce, Minted, MintedBy
<1>2. ASSUME NEW p \in Payer, Spend(p) PROVE LedgerInv'
  BY <1>2, SpendKeeps
<1>3. ASSUME NEW p \in Payer, Refund(p) PROVE LedgerInv'
  BY <1>3, MintKeeps DEF Refund, LedgerAssumption
<1>4. ASSUME NEW v \in Grantor, Grant(v) PROVE LedgerInv'
  BY <1>4, MintKeeps DEF Grant, LedgerAssumption
<1> QED  BY <1>1, <1>2, <1>3, <1>4 DEF LedgerNext

-----------------------------------------------------------------------------
(* No implementation of the ledger creates or destroys a credit, charges   *)
(* in part, or grants or refunds twice.                                    *)
THEOREM LedgerIsKept ==
  ASSUME LedgerAssumption
  PROVE  LedgerSpec => [](Conserved /\ WholePrice /\ CreditedOnce)
<1>1. LedgerInit => LedgerInv
  BY LedgerInitInv
<1>2. LedgerInv /\ [LedgerNext]_ledgerVars => LedgerInv'
  BY LedgerStep
<1>3. LedgerInv => Conserved /\ WholePrice /\ CreditedOnce
  BY DEF LedgerInv
<1> QED  BY <1>1, <1>2, <1>3, PTL DEF LedgerSpec
=============================================================================
