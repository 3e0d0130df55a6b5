---------------------------- MODULE Credits_proofs ----------------------------
(***************************************************************************)
(* The invariants of Credits and its refinement of CreditLedger, for any    *)
(* requests, prices, rows and lifetimes and any number of failures.        *)
(***************************************************************************)
EXTENDS Credits, FiniteSetTheorems, TLAPS

Phases == {"check", "debit", "refund", "unsend", "grant"}
Rows == [credits : Nat \ {0}, expireat : Nat]
Batches == [size : Nat \ {0}, expireat : Nat, owner : Owners]

-----------------------------------------------------------------------------
(* The inductive invariant.                                                *)

\* A row keeps the expiry it was inserted with, and no time lies ahead.
RowsInv ==
  /\ now <= MaxNow
  /\ \A r \in Requests : utc[r] <= now
  /\ \A i \in DOMAIN rows : rows[i].expireat = minted[i].expireat

\* Where a generate request is before it can have been debited, and where it
\* is only after that.
Unpaid == {"idle", "mget", "query", "setT", "setE", "txn", "rejected", "baddata"}
Paid == {"delT", "delE", "insert", "mark", "send", "refund", "unmark", "ok"}

\* What holds of generate request g alone, at each call it is about to make.
PhaseFits(g) ==
  /\ phase[g] # "grant"
  /\ pc[g] \in Unpaid => phase[g] \in {"check", "debit"}
  /\ pc[g] \in {"txn", "insert", "mark", "send", "ok"} => phase[g] = "debit"
  /\ pc[g] = "refund" => phase[g] \in {"refund", "unsend"}
  /\ pc[g] = "unmark" => phase[g] = "unsend"
  /\ pc[g] \in {"delT", "delE"} => phase[g] # "check"
PaymentFits(g) ==
  /\ pc[g] \in Unpaid => charged[g] = {}
  /\ pc[g] \in Paid => charged[g] # {}
  /\ phase[g] \in {"check", "debit"} \/ pc[g] = "refund" => ~Refunded(g)
FaultFits(g) ==
  /\ phase[g] \in {"refund", "unsend"} => faults > 0
  /\ charged[g] # {} /\ pc[g] \in {"error", "crashed"} => faults > 0
JobFits(g) ==
  /\ g \in jobs \cup queue => charged[g] # {}
  /\ pc[g] \in {"mark", "send", "ok"} => g \in jobs
  /\ pc[g] \in {"send", "ok"} => g \in marks
  /\ pc[g] = "ok" => g \in queue
  /\ g \in queue => g \in jobs /\ (pc[g] = "ok" \/ g \in lost)
Fits(g) == PhaseFits(g) /\ PaymentFits(g) /\ FaultFits(g) /\ JobFits(g)

\* The grant is made by the request that sets emailverified.
GrantInv ==
  /\ \A i \in DOMAIN minted : minted[i].owner \in Verifies => verified
  /\ \A v \in Verifies :
       /\ pc[v] \in {"idle", "delT", "delE", "ok", "rejected", "error", "crashed"}
       /\ pc[v] \in {"delT", "delE"} => phase[v] = "grant"

\* While nothing overlaps and nothing fails, one request at most is under way,
\* what it has read is what the table says, and unless it is half way through
\* a fill or an invalidation, the two keys come from one reading of the table.
Serial == ~overlapped /\ faults = 0
ReadOf(tot, exp, t) ==
  /\ t \in Nat /\ t <= now
  /\ tot = Worth(LiveRows(t))
  /\ \A i \in LiveRows(t) : exp <= Secs(rows[i].expireat)
OneReading == \E t \in Nat : ReadOf(cacheT.value, cacheE.value, t)
CacheInv ==
  Serial =>
    /\ \A r, q \in Requests : InFlight(r) /\ InFlight(q) => r = q
    /\ \A r \in Requests :
         /\ pc[r] \in {"setT", "setE"} => ReadOf(total[r], Secs(expire[r]), utc[r])
         /\ pc[r] = "setE" /\ cacheT # NoKey => cacheT.value = total[r]
         /\ pc[r] = "delE" => cacheT = NoKey
    /\ cacheT # NoKey /\ cacheE # NoKey
         /\ (\A r \in Requests : pc[r] \notin {"setE", "delT", "delE"})
       => OneReading

FitInv == \A g \in Generates : Fits(g)

IInv == TypeOK /\ RowsInv /\ FitInv /\ GrantInv /\ CacheInv

-----------------------------------------------------------------------------
(* The operators of the model.                                             *)

LEMMA SeqOfSubset ==
  ASSUME NEW S, NEW T, S \subseteq T, NEW s \in Seq(S) PROVE s \in Seq(T)
<1>1. Len(s) \in Nat /\ s \in [1 .. Len(s) -> S]
  OBVIOUS
<1>2. s \in [1 .. Len(s) -> T]
  BY <1>1
<1> QED  BY <1>1, <1>2

LEMMA SecsNat == ASSUME NEW t \in Nat PROVE Secs(t) \in Nat
BY DurationAssumption DEF Secs

LEMMA SecsMonotone ==
  ASSUME NEW a \in Nat, NEW b \in Nat, a <= b PROVE Secs(a) <= Secs(b)
BY DurationAssumption DEF Secs

LEMMA LifeNat == 
  ASSUME TypeOK, NEW r \in Requests PROVE Life(r) \in Nat
BY SecsNat DEF TypeOK, Life

LEMMA KeyType ==
  ASSUME TypeOK, NEW r \in Requests, NEW n \in Nat PROVE Key(r, n) \in [value : Nat, dies : Nat]
<1>1. Life(r) * Second \in Nat
  <2>1. \A a, b \in Nat : a * b \in Nat
    OBVIOUS
  <2> QED  BY <2>1, LifeNat, DurationAssumption
<1> QED  BY <1>1 DEF Key, TypeOK

\* A set of units is finite, because rows are numbered from 1.
LEMMA UnitsFinite ==
  ASSUME TypeOK, NEW S \in SUBSET DOMAIN rows
  PROVE  IsFiniteSet(Units(S)) /\ Worth(S) \in Nat
<1> DEFINE f == [i \in S |-> UnitsOf(i, rows[i].credits)]
           T == {UnitsOf(i, rows[i].credits) : i \in S}
<1>1. IsFiniteSet(S)
  <2>1. S \subseteq 1 .. Len(minted) /\ Len(minted) \in Nat
    BY DEF TypeOK
  <2>2. IsFiniteSet(1 .. Len(minted))
    BY <2>1, FS_Interval
  <2> QED  BY <2>1, <2>2, FS_Subset
<1>2. IsFiniteSet(T)
  <2>1. f \in Surjection(S, T)
    BY DEF Surjection
  <2> QED  BY <1>1, <2>1, FS_Surjection
<1>3. ASSUME NEW i \in S PROVE IsFiniteSet(UnitsOf(i, rows[i].credits))
  <2>1. 1 \in Int /\ rows[i].credits \in Int
    BY DEF TypeOK
  <2>2. IsFiniteSet(1 .. rows[i].credits)
    BY <2>1, FS_Interval
  <2>3. IsFiniteSet({i})
    BY FS_Singleton
  <2> QED  BY <2>2, <2>3, FS_Product DEF UnitsOf
<1>4. IsFiniteSet(Units(S))
  BY <1>2, <1>3, FS_UNION DEF Units
<1> QED  BY <1>4, FS_CardinalityType DEF Worth

\* A set of numbers that is not empty has a least one.
LEMMA LeastNumber ==
  ASSUME NEW T \in SUBSET Nat, T # {}
  PROVE  \E x \in T : \A y \in T : x <= y
<1> DEFINE F == {0 .. x : x \in T}
<1>1. F \subseteq FiniteSubsetsOf(Nat)
  <2> SUFFICES ASSUME NEW x \in T PROVE 0 .. x \in FiniteSubsetsOf(Nat)
    OBVIOUS
  <2>1. 0 \in Int /\ x \in Int /\ 0 .. x \in SUBSET Nat
    OBVIOUS
  <2>2. IsFiniteSet(0 .. x)
    BY <2>1, FS_Interval
  <2> QED  BY <2>1, <2>2 DEF FiniteSubsetsOf
<1>2. PICK X \in F : \A Y \in F : <<Y, X>> \notin StrictSubsetOrdering(Nat)
  <2>1. F # {}
    OBVIOUS
  <2> HIDE DEF F
  <2> QED  BY <1>1, <2>1, FS_StrictSubsetOrderingWellFounded, WFMin
<1>3. PICK x \in T : X = 0 .. x
  OBVIOUS
<1>4. ASSUME NEW y \in T, y < x PROVE FALSE
  <2>1. 0 .. y \in F /\ 0 .. y \in SUBSET Nat /\ X \in SUBSET Nat
    BY <1>3
  <2>2. 0 .. y \subseteq X /\ x \in X /\ x \notin 0 .. y
    BY <1>3, <1>4
  <2>3. <<0 .. y, X>> \in StrictSubsetOrdering(Nat)
    BY <2>1, <2>2 DEF StrictSubsetOrdering
  <2> QED  BY <1>2, <2>1, <2>3
<1> QED  BY <1>4

\* Of the rows that are not empty, one expires first.
LEMMA EarliestIsFirst ==
  ASSUME TypeOK, NEW S \in SUBSET DOMAIN rows, S # {}
  PROVE  /\ Earliest(S) \in S
         /\ \A j \in S : rows[Earliest(S)].expireat <= rows[j].expireat
<1> DEFINE T == {rows[i].expireat : i \in S}
<1>1. T \in SUBSET Nat /\ T # {}
  BY DEF TypeOK
<1>2. PICK x \in T : \A y \in T : x <= y
  BY <1>1, LeastNumber
<1>3. \E i \in S : \A j \in S : rows[i].expireat <= rows[j].expireat
  BY <1>2
<1> QED  BY <1>3 DEF Earliest

\* Moving on changes the place of one request, and notes whether another is
\* under way.
LEMMA GotoEffect ==
  ASSUME TypeOK, NEW r \in Requests, NEW to \in Outcomes, Goto(r, to)
  PROVE  /\ pc' \in [Requests -> Outcomes] /\ overlapped' \in BOOLEAN
         /\ pc'[r] = to /\ \A q \in Requests \ {r} : pc'[q] = pc[q]
         /\ ~overlapped' => ~overlapped /\ \A q \in Requests \ {r} : ~InFlight(q)
BY DEF Goto, TypeOK

\* The total after a read: enough to go on to the next step, or the end.
LEMMA ResumeEffect ==
  ASSUME TypeOK, NEW r \in Requests, NEW tot \in Nat, Resume(r, tot),
         r \in Generates => phase[r] \in {"check", "debit"}
  PROVE  \E to \in {"ok", "rejected", "error", "mget", "txn"} :
           /\ Goto(r, to)
           /\ phase' = phase \/ phase' = [phase EXCEPT ![r] = "debit"]
           /\ r \notin Generates => phase' = phase
           /\ r \in Generates =>
                /\ to # "ok"
                /\ phase'[r] = IF to \in {"mget", "txn"} THEN "debit" ELSE phase[r]
<1> DEFINE enough == r \in Generates /\ tot >= Cost[r]
           Post(to) == /\ Goto(r, to)
                       /\ phase' = phase \/ phase' = [phase EXCEPT ![r] = "debit"]
                       /\ r \notin Generates => phase' = phase
                       /\ r \in Generates =>
                            /\ to # "ok"
                            /\ phase'[r] = IF to \in {"mget", "txn"} THEN "debit" ELSE phase[r]
<1>0. [phase EXCEPT ![r] = "debit"][r] = "debit" /\ Profiles \cap Generates = {}
  BY RequestsAssumption DEF TypeOK
<1>1. CASE r \in Profiles
  BY <1>0, <1>1 DEF Resume
<1>2. CASE r \notin Profiles /\ ~enough /\ phase[r] = "check"
  <2>1. Post("rejected")
    BY <1>2 DEF Resume
  <2> QED  BY <2>1
<1>3. CASE r \notin Profiles /\ ~enough /\ phase[r] = "debit"
  <2>1. Post("error")
    BY <1>3 DEF Resume
  <2> QED  BY <2>1
<1>4. CASE enough /\ phase[r] = "check"
  <2>1. Post("mget")
    BY <1>0, <1>4 DEF Resume
  <2> QED  BY <2>1
<1>5. CASE enough /\ phase[r] # "check"
  <2>1. Post("txn")
    BY <1>0, <1>5 DEF Resume
  <2> QED  BY <2>1
<1>6. CASE r \notin Profiles /\ ~enough /\ phase[r] \notin {"check", "debit"}
  <2>1. Post("txn")
    BY <1>6 DEF Resume
  <2> QED  BY <2>1
<1> QED  BY <1>1, <1>2, <1>3, <1>4, <1>5, <1>6

-----------------------------------------------------------------------------
(* Each part of the invariant, of a step of one request.                   *)

\* A step of r says nothing of the other generate requests.
LEMMA FitStep ==
  ASSUME FitInv, NEW r \in Requests,
         \A g \in Generates \ {r} :
           /\ pc'[g] = pc[g] /\ phase'[g] = phase[g] /\ charged'[g] = charged[g]
           /\ g \in jobs' <=> g \in jobs
           /\ g \in marks' <=> g \in marks
           /\ g \in queue' <=> g \in queue
           /\ Refunded(g)' => Refunded(g),
         lost \subseteq lost', faults \in Nat, faults' \in Nat, faults' >= faults,
         r \in Generates => Fits(r)'
  PROVE  FitInv'
<1> SUFFICES ASSUME NEW g \in Generates \ {r} PROVE Fits(g)'
  BY DEF FitInv
<1>1. Fits(g)
  BY DEF FitInv
<1>2. PhaseFits(g)'
  BY <1>1 DEF Fits, PhaseFits
<1>3. PaymentFits(g)'
  <2>1. (~Refunded(g))' <=> ~(Refunded(g)')
    OBVIOUS
  <2> QED  BY <1>1, <2>1 DEF Fits, PaymentFits
<1>4. FaultFits(g)'
  BY <1>1 DEF Fits, FaultFits
<1>5. JobFits(g)'
  BY <1>1 DEF Fits, JobFits
<1> QED  BY <1>2, <1>3, <1>4, <1>5 DEF Fits

LEMMA ReadOfSame ==
  ASSUME UNCHANGED <<now, rows>>, NEW tot, NEW exp, NEW t
  PROVE  ReadOf(tot, exp, t)' <=> ReadOf(tot, exp, t)
BY DEF ReadOf, Worth, Units, LiveRows

LEMMA OneReadingSame ==
  ASSUME UNCHANGED <<now, rows, cacheT, cacheE>>, OneReading PROVE OneReading'
<1>1. PICK t \in Nat : ReadOf(cacheT.value, cacheE.value, t)
  BY DEF OneReading
<1>2. ReadOf(cacheT.value, cacheE.value, t)'
  BY <1>1 DEF ReadOf, Worth, Units, LiveRows
<1>3. t \in Nat
  BY <1>1
<1> QED  BY <1>2, <1>3 DEF OneReading

\* A step that leaves the table alone: what r leaves in the cache is right,
\* and the others were not under way.
LEMMA CacheStep ==
  ASSUME TypeOK, CacheInv, NEW r \in Requests, NEW to \in Outcomes, Goto(r, to),
         UNCHANGED <<now, rows>>, faults' \in Nat, faults' >= faults,
         Serial /\ Serial' =>
           /\ to \in {"setT", "setE"} => ReadOf(total'[r], Secs(expire'[r]), utc'[r])
           /\ to = "setE" /\ cacheT' # NoKey => cacheT'.value = total'[r]
           /\ to = "delE" => cacheT' = NoKey
           /\ to \notin {"setE", "delT", "delE"} /\ cacheT' # NoKey /\ cacheE' # NoKey =>
                OneReading'
  PROVE  CacheInv'
<1> SUFFICES ASSUME Serial'
             PROVE  (/\ \A p, q \in Requests : InFlight(p) /\ InFlight(q) => p = q
                     /\ \A q \in Requests :
                          /\ pc[q] \in {"setT", "setE"} =>
                               ReadOf(total[q], Secs(expire[q]), utc[q])
                          /\ pc[q] = "setE" /\ cacheT # NoKey => cacheT.value = total[q]
                          /\ pc[q] = "delE" => cacheT = NoKey
                     /\ cacheT # NoKey /\ cacheE # NoKey
                          /\ (\A q \in Requests : pc[q] \notin {"setE", "delT", "delE"})
                        => OneReading)'
  BY DEF CacheInv
<1>1. /\ Serial /\ faults' = 0
      /\ pc'[r] = to /\ \A q \in Requests \ {r} : pc'[q] = pc[q] /\ ~InFlight(q)
  <2>1. /\ pc'[r] = to
        /\ ~overlapped' => ~overlapped /\ \A q \in Requests \ {r} : ~InFlight(q)
        /\ \A q \in Requests \ {r} : pc'[q] = pc[q]
    BY GotoEffect
  <2>2. faults \in Nat
    BY DEF TypeOK
  <2> QED  BY <2>1, <2>2 DEF Serial
<1>2. \A q \in Requests \ {r} :
        pc[q] \notin {"query", "setT", "setE", "delT", "delE"} /\ ~InFlight(q)'
  BY <1>1 DEF InFlight, Done
<1>3. (\A p, q \in Requests : InFlight(p) /\ InFlight(q) => p = q)'
  BY <1>2
<1>4. ASSUME NEW q \in Requests
      PROVE  (/\ pc[q] \in {"setT", "setE"} => ReadOf(total[q], Secs(expire[q]), utc[q])
              /\ pc[q] = "setE" /\ cacheT # NoKey => cacheT.value = total[q]
              /\ pc[q] = "delE" => cacheT = NoKey)'
  <2>1. CASE q = r
    BY <2>1, <1>1, ReadOfSame
  <2>2. CASE q # r
    BY <2>2, <1>1, <1>2
  <2> QED  BY <2>1, <2>2
<1>5. (cacheT # NoKey /\ cacheE # NoKey
         /\ (\A q \in Requests : pc[q] \notin {"setE", "delT", "delE"})
       => OneReading)'
  <2>1. ASSUME cacheT' # NoKey, cacheE' # NoKey, pc'[r] \notin {"setE", "delT", "delE"}
        PROVE  OneReading'
    BY <1>1, <2>1
  <2> QED  BY <2>1
<1> QED  BY <1>3, <1>4, <1>5

-----------------------------------------------------------------------------
(* Steps that leave the table and the cache alone.                         *)

\* Request r moves on, and only what belongs to it and the cache change.
LEMMA CallKeeps ==
  ASSUME IInv, NEW r \in Requests, NEW to \in Outcomes, Goto(r, to),
         UNCHANGED <<now, table>>, cacheT' \in Keys, cacheE' \in Keys,
         phase' \in [Requests -> Phases],
         \A q \in Requests \ {r} : phase'[q] = phase[q],
         utc' \in [Requests -> Nat], total' \in [Requests -> Nat],
         \A q \in Requests : utc'[q] <= now,
         expire' \in [Requests -> Nat], next' \in [Generates -> Nat],
         jobs' \subseteq Generates, marks' \subseteq Generates, queue' \subseteq Generates,
         \A g \in Generates \ {r} :
           /\ g \in jobs' <=> g \in jobs
           /\ g \in marks' <=> g \in marks
           /\ g \in queue' <=> g \in queue,
         lost \subseteq lost', lost' \subseteq Requests, faults' \in Nat, faults' >= faults,
         r \in Generates => Fits(r)',
         r \in Verifies =>
           /\ to \in {"idle", "delT", "delE", "ok", "rejected", "error", "crashed"}
           /\ to \in {"delT", "delE"} => phase'[r] = "grant",
         CacheInv'
  PROVE  IInv'
<1> USE DEF IInv, table
<1>1. /\ pc' \in [Requests -> Outcomes] /\ overlapped' \in BOOLEAN
      /\ pc'[r] = to /\ \A q \in Requests \ {r} : pc'[q] = pc[q]
  BY GotoEffect
<1>2. TypeOK'
  BY <1>1 DEF TypeOK, Phases
<1>3. RowsInv'
  BY DEF RowsInv
<1>4. FitInv'
  <2>1. \A g \in Generates : Refunded(g)' <=> Refunded(g)
    BY DEF Refunded
  <2>2. faults \in Nat
    BY DEF TypeOK
  <2> QED  BY <1>1, <2>1, <2>2, FitStep DEF Requests
<1>5. GrantInv'
  <2>1. Verifies \subseteq Requests
    BY DEF Requests
  <2> QED  BY <1>1, <2>1 DEF GrantInv
<1> QED  BY <1>2, <1>3, <1>4, <1>5

\* As before, and the cache stays as it is.
LEMMA MoveKeeps ==
  ASSUME IInv, NEW r \in Requests, NEW to \in Outcomes, Goto(r, to),
         UNCHANGED <<now, table, cache>>,
         phase' \in [Requests -> Phases],
         \A q \in Requests \ {r} : phase'[q] = phase[q],
         utc' \in [Requests -> Nat], total' \in [Requests -> Nat],
         \A q \in Requests : utc'[q] <= now,
         expire' \in [Requests -> Nat], next' \in [Generates -> Nat],
         jobs' \subseteq Generates, marks' \subseteq Generates, queue' \subseteq Generates,
         \A g \in Generates \ {r} :
           /\ g \in jobs' <=> g \in jobs
           /\ g \in marks' <=> g \in marks
           /\ g \in queue' <=> g \in queue,
         lost \subseteq lost', lost' \subseteq Requests, faults' \in Nat, faults' >= faults,
         r \in Generates => Fits(r)',
         r \in Verifies =>
           /\ to \in {"idle", "delT", "delE", "ok", "rejected", "error", "crashed"}
           /\ to \in {"delT", "delE"} => phase'[r] = "grant",
         faults' = 0 => pc[r] \notin {"setE", "delT", "delE"} /\ to \notin {"setE", "delE"},
         to = "setT" => ReadOf(total'[r], Secs(expire'[r]), utc'[r])
  PROVE  IInv'
<1>1. /\ UNCHANGED <<now, rows, cacheT, cacheE>>
      /\ cacheT' \in Keys /\ cacheE' \in Keys
  BY DEF table, cache, IInv, TypeOK
<1>2. CacheInv'
  <2>1. ASSUME Serial, Serial', cacheT' # NoKey, cacheE' # NoKey
        PROVE  OneReading'
    <3>1. pc[r] \notin {"setE", "delT", "delE"}
      BY <2>1 DEF Serial
    <3>2. \A q \in Requests \ {r} : pc[q] \notin {"setE", "delT", "delE"}
      BY <2>1, GotoEffect DEF IInv, Serial, InFlight, Done
    <3>3. OneReading
      BY <1>1, <2>1, <3>1, <3>2 DEF IInv, CacheInv
    <3> QED  BY <1>1, <3>3, OneReadingSame
  <2>2. Serial' => faults' = 0
    BY DEF Serial
  <2> QED  BY <1>1, <2>1, <2>2, CacheStep DEF IInv
<1>3. UNCHANGED <<now, table>>
  OBVIOUS
<1> QED  BY <1>1, <1>2, <1>3, CallKeeps

\* What a step that ends a request leaves as it was.
LEMMA StillKeeps ==
  ASSUME IInv, NEW r \in Requests, NEW to \in Done, Goto(r, to),
         UNCHANGED <<now, table, cache, local, job, lost>>,
         faults' \in Nat, faults' >= faults,
         r \in Generates => Fits(r)',
         r \in Verifies => to \in {"ok", "rejected", "error", "crashed"},
         faults' = 0 => pc[r] \notin {"setE", "delT", "delE"}
  PROVE  IInv'
<1>1. /\ phase' = phase /\ phase \in [Requests -> Phases]
      /\ utc' = utc /\ utc \in [Requests -> Nat]
      /\ \A q \in Requests : utc'[q] <= now
      /\ total' = total /\ total \in [Requests -> Nat]
      /\ expire' = expire /\ expire \in [Requests -> Nat]
      /\ next' = next /\ next \in [Generates -> Nat]
  BY DEF IInv, TypeOK, RowsInv, Phases, local
<1>2. /\ jobs' = jobs /\ marks' = marks /\ queue' = queue /\ lost' = lost
      /\ jobs \subseteq Generates /\ marks \subseteq Generates /\ queue \subseteq Generates
      /\ lost \subseteq Requests
  BY DEF IInv, TypeOK, job
<1>3. to \in Outcomes /\ to \notin {"delT", "delE", "setE", "setT", "query"}
  BY DEF Outcomes, Done
<1>4. UNCHANGED <<now, table, cache>>
  OBVIOUS
<1> QED  BY <1>1, <1>2, <1>3, <1>4, MoveKeeps

\* A failure ends the request, or at least its use of the service.
LEMMA ReadFailsKeeps == ASSUME IInv, NEW r \in Requests, ReadFails(r) PROVE IInv'
<1> USE DEF IInv
<1>1. /\ Goto(r, "error") /\ "error" \in Outcomes
      /\ UNCHANGED <<now, table, cache, local, job, lost>>
      /\ faults' = faults + 1 /\ faults \in Nat
  BY DEF ReadFails, Fault, Outcomes, Done, TypeOK
<1>2. pc'[r] = "error"
  BY <1>1, GotoEffect
<1>3. ASSUME r \in Generates PROVE Fits(r)'
  <2>1. Fits(r) /\ pc[r] \in Unpaid
    BY <1>3 DEF FitInv, ReadFails, Unpaid
  <2> QED
    BY <1>1, <1>2, <2>1 DEF Fits, PhaseFits, PaymentFits, FaultFits, JobFits, Refunded,
       Unpaid, Paid, table, local, job
<1>4. faults' \in Nat /\ faults' >= faults /\ faults' # 0
  BY <1>1
<1> QED  BY <1>1, <1>3, <1>4, StillKeeps DEF Done

LEMMA CrashKeeps == ASSUME IInv, NEW r \in Requests, Crash(r) PROVE IInv'
<1> USE DEF IInv
<1>1. /\ Goto(r, "crashed") /\ "crashed" \in Outcomes
      /\ UNCHANGED <<now, table, cache, local, job, lost>>
      /\ faults' = faults + 1 /\ faults \in Nat
  BY DEF Crash, Fault, Outcomes, Done, TypeOK
<1>2. pc'[r] = "crashed"
  BY <1>1, GotoEffect
<1>3. ASSUME r \in Generates PROVE Fits(r)'
  <2>1. Fits(r) /\ pc[r] # "ok"
    BY <1>3 DEF FitInv, Crash, InFlight, Done
  <2> QED
    BY <1>1, <1>2, <2>1 DEF Fits, PhaseFits, PaymentFits, FaultFits, JobFits, Refunded,
       Unpaid, Paid, table, local, job
<1>4. faults' \in Nat /\ faults' >= faults /\ faults' # 0
  BY <1>1
<1> QED  BY <1>1, <1>3, <1>4, StillKeeps DEF Done

\* The debit finds too little, or its transaction fails.
LEMMA NoDebitKeeps ==
  ASSUME IInv, NEW g \in Generates, DebitShort(g) \/ DebitAborts(g) PROVE IInv'
<1> USE DEF IInv
<1>1. PICK to \in {"baddata", "error"} : Goto(g, to)
  BY DEF DebitShort, DebitAborts
<1>2. /\ UNCHANGED <<now, table, cache, local, job, lost, faults>>
      /\ g \in Requests /\ to \in Outcomes /\ pc[g] = "txn" /\ g \notin Verifies
  BY RequestsAssumption DEF DebitShort, DebitAborts, Requests, Outcomes, Done
<1>3. pc'[g] = to
  BY <1>1, <1>2, GotoEffect
<1>4. Fits(g)'
  <2>1. Fits(g)
    BY DEF FitInv
  <2> QED
    BY <1>2, <1>3, <2>1 DEF Fits, PhaseFits, PaymentFits, FaultFits, JobFits, Refunded,
       Unpaid, Paid, table, local, job
<1>5. faults' \in Nat /\ faults' >= faults /\ to \in Done
  BY <1>2 DEF TypeOK, Done
<1> QED  BY <1>1, <1>2, <1>4, <1>5, StillKeeps

\* A request that has paid nothing and moves on without paying.
LEMMA UnpaidFits ==
  ASSUME IInv, NEW g \in Generates, pc[g] \in Unpaid, pc'[g] \in Unpaid \cup {"error"},
         phase'[g] \in {"check", "debit"}, pc'[g] = "txn" => phase'[g] = "debit",
         UNCHANGED <<charged, minted, job, lost, faults>>
  PROVE  Fits(g)'
<1>1. Fits(g)
  BY DEF IInv, FitInv
<1> QED
  BY <1>1 DEF Fits, PhaseFits, PaymentFits, FaultFits, JobFits, Refunded, Unpaid, Paid, job

\* The four steps of get_total_credits: who makes them, and what is at stake.
LEMMA ReaderIs ==
  ASSUME IInv, NEW r \in Requests,
         pc[r] \in {"mget", "query", "setT", "setE"} \/ (pc[r] = "idle" /\ r \notin Verifies)
  PROVE  /\ r \notin Verifies
         /\ r \in Generates => pc[r] \in Unpaid /\ phase[r] \in {"check", "debit"}
<1>1. r \notin Verifies
  BY DEF IInv, GrantInv
<1>2. ASSUME r \in Generates PROVE pc[r] \in Unpaid /\ phase[r] \in {"check", "debit"}
  BY <1>2 DEF IInv, FitInv, Fits, PhaseFits, Unpaid
<1> QED  BY <1>1, <1>2

\* A step of a read that does not write the cache.
LEMMA ReadKeeps ==
  ASSUME IInv, NEW r \in Requests, NEW to \in {"ok", "rejected", "error", "mget", "txn", "query", "setT"},
         pc[r] \in {"mget", "query", "setT"} \/ (pc[r] = "idle" /\ r \notin Verifies),
         Goto(r, to), UNCHANGED <<now, table, cache, next, job, lost, faults>>,
         utc' \in [Requests -> Nat], total' \in [Requests -> Nat],
         expire' \in [Requests -> Nat],
         phase' = phase \/ phase' = [phase EXCEPT ![r] = "debit"],
         r \in Generates =>
           /\ to # "ok" /\ phase'[r] \in {"check", "debit"}
           /\ to = "txn" => phase'[r] = "debit",
         \A q \in Requests : utc'[q] <= now,
         to = "setT" => ReadOf(total'[r], Secs(expire'[r]), utc'[r])
  PROVE  IInv'
<1>1. r \notin Verifies /\ (r \in Generates => pc[r] \in Unpaid /\ phase[r] \in {"check", "debit"})
  BY ReaderIs
<1>2. to \in Outcomes
  BY DEF Outcomes, Done
<1>3. pc'[r] = to
  BY <1>2, GotoEffect DEF IInv
<1>4. ASSUME r \in Generates PROVE Fits(r)'
  <2>1. pc'[r] \in Unpaid \cup {"error"}
    BY <1>3, <1>4 DEF Unpaid
  <2>2. UNCHANGED <<charged, minted, job, lost, faults>>
    BY DEF table
  <2>3. pc[r] \in Unpaid /\ phase'[r] \in {"check", "debit"}
        /\ (pc'[r] = "txn" => phase'[r] = "debit")
    BY <1>1, <1>3, <1>4
  <2> QED  BY <1>4, <2>1, <2>2, <2>3, UnpaidFits
<1>5. /\ phase' \in [Requests -> Phases]
      /\ \A q \in Requests \ {r} : phase'[q] = phase[q]
  BY DEF IInv, TypeOK, Phases
<1>6. /\ next' = next /\ next \in [Generates -> Nat]
      /\ faults' = faults /\ faults \in Nat /\ faults' >= faults
      /\ lost' = lost /\ lost \subseteq Requests
  BY DEF IInv, TypeOK
<1>7. /\ jobs' = jobs /\ marks' = marks /\ queue' = queue
      /\ jobs \subseteq Generates /\ marks \subseteq Generates /\ queue \subseteq Generates
  BY DEF IInv, TypeOK, job
<1>8. UNCHANGED <<now, table, cache>> /\ to \notin {"setE", "delE", "delT"}
      /\ pc[r] \notin {"setE", "delE", "delT"}
  OBVIOUS
<1> QED  BY <1>1, <1>2, <1>4, <1>5, <1>6, <1>7, <1>8, MoveKeeps

LEMMA MGetKeeps == ASSUME IInv, NEW r \in Requests, MGet(r) PROVE IInv'
<1>1. /\ pc[r] \in {"mget", "query", "setT"} \/ (pc[r] = "idle" /\ r \notin Verifies)
      /\ utc' = [utc EXCEPT ![r] = now]
      /\ expire' = expire
      /\ UNCHANGED <<now, table, cache, next, job, lost, faults>>
  BY DEF MGet
<1>2. /\ utc' \in [Requests -> Nat] /\ expire' \in [Requests -> Nat]
      /\ \A q \in Requests : utc'[q] <= now
  BY <1>1 DEF IInv, TypeOK, RowsInv
<1>3. r \in Generates => phase[r] \in {"check", "debit"}
  BY <1>1, ReaderIs
<1>4. CASE CacheHit /\ total' = [total EXCEPT ![r] = cacheT.value] /\ Resume(r, cacheT.value)
  <2>1. cacheT.value \in Nat
    BY <1>4 DEF CacheHit, IInv, TypeOK, Keys
  <2>2. total' \in [Requests -> Nat]
    BY <1>4, <2>1 DEF IInv, TypeOK
  <2>3. PICK to \in {"ok", "rejected", "error", "mget", "txn"} :
           /\ Goto(r, to)
           /\ phase' = phase \/ phase' = [phase EXCEPT ![r] = "debit"]
           /\ r \in Generates =>
                to # "ok" /\ phase'[r] = IF to \in {"mget", "txn"} THEN "debit" ELSE phase[r]
    BY <1>3, <1>4, <2>1, ResumeEffect DEF IInv
  <2> QED  BY <1>1, <1>2, <1>3, <2>2, <2>3, ReadKeeps
<1>5. CASE Goto(r, "query") /\ UNCHANGED <<phase, total>>
  <2>1. total' \in [Requests -> Nat]
    BY <1>5 DEF IInv, TypeOK
  <2> QED  BY <1>1, <1>2, <1>3, <1>5, <2>1, ReadKeeps
<1> QED  BY <1>4, <1>5 DEF MGet

LEMMA QueryRowsKeeps == ASSUME IInv, NEW r \in Requests, QueryRows(r) PROVE IInv'
<1> DEFINE found == LiveRows(utc[r])
<1>1. /\ pc[r] = "query"
      /\ total' = [total EXCEPT ![r] = Worth(found)]
      /\ UNCHANGED <<now, table, cache, utc, next, job, lost, faults>>
  BY DEF QueryRows
<1>2. r \in Generates => phase[r] \in {"check", "debit"}
  BY <1>1, ReaderIs
<1>3. found \subseteq DOMAIN rows /\ Worth(found) \in Nat
  <2>1. found \subseteq DOMAIN rows
    BY DEF LiveRows
  <2> QED  BY <2>1, UnitsFinite DEF IInv
<1>4. /\ total' \in [Requests -> Nat] /\ total'[r] = Worth(found)
      /\ utc' = utc /\ utc \in [Requests -> Nat]
      /\ \A q \in Requests : utc'[q] <= now
  BY <1>1, <1>3 DEF IInv, TypeOK, RowsInv
<1>5. CASE found = {} /\ Resume(r, 0) /\ UNCHANGED expire
  <2>1. expire' \in [Requests -> Nat]
    BY <1>5 DEF IInv, TypeOK
  <2>2. PICK to \in {"ok", "rejected", "error", "mget", "txn"} :
           /\ Goto(r, to)
           /\ phase' = phase \/ phase' = [phase EXCEPT ![r] = "debit"]
           /\ r \in Generates =>
                to # "ok" /\ phase'[r] = IF to \in {"mget", "txn"} THEN "debit" ELSE phase[r]
    BY <1>2, <1>5, ResumeEffect DEF IInv
  <2> QED  BY <1>1, <1>2, <1>4, <2>1, <2>2, ReadKeeps
<1>6. CASE /\ found # {} /\ Goto(r, "setT") /\ UNCHANGED phase
           /\ expire' = [expire EXCEPT ![r] = rows[Earliest(found)].expireat]
  <2>1. /\ Earliest(found) \in found
        /\ \A j \in found : rows[Earliest(found)].expireat <= rows[j].expireat
    BY <1>3, <1>6, EarliestIsFirst DEF IInv
  <2>2. \A j \in DOMAIN rows : rows[j].expireat \in Nat
    BY DEF IInv, TypeOK
  <2>3. /\ expire' \in [Requests -> Nat]
        /\ expire'[r] = rows[Earliest(found)].expireat
    BY <1>3, <1>6, <2>1, <2>2 DEF IInv, TypeOK
  <2>4. \A i \in found : Secs(expire'[r]) <= Secs(rows[i].expireat)
    BY <1>3, <2>1, <2>2, <2>3, SecsMonotone
  <2>5. ReadOf(total'[r], Secs(expire'[r]), utc'[r])
    BY <1>4, <2>4 DEF ReadOf
  <2> QED  BY <1>1, <1>2, <1>4, <1>6, <2>3, <2>5, ReadKeeps
<1> QED  BY <1>5, <1>6 DEF QueryRows

-----------------------------------------------------------------------------
(* Steps that write the cache.                                             *)

\* The types of what a call of r leaves alone, when that is all but the cache.
LEMMA LocalTypes ==
  ASSUME IInv, UNCHANGED local
  PROVE  /\ phase' = phase /\ phase \in [Requests -> Phases]
         /\ utc' \in [Requests -> Nat] /\ \A q \in Requests : utc'[q] <= now
         /\ total' \in [Requests -> Nat] /\ expire' \in [Requests -> Nat]
         /\ next' \in [Generates -> Nat]
BY DEF IInv, TypeOK, RowsInv, Phases, local

LEMMA JobTypes ==
  ASSUME IInv, UNCHANGED job
  PROVE  /\ jobs' = jobs /\ marks' = marks /\ queue' = queue
         /\ jobs \subseteq Generates /\ marks \subseteq Generates /\ queue \subseteq Generates
BY DEF IInv, TypeOK, job

LEMMA SetTotalKeeps == ASSUME IInv, NEW r \in Requests, SetTotal(r) PROVE IInv'
<1>1. /\ pc[r] = "setT" /\ UNCHANGED <<now, table, cacheE, local, job, lost, faults>>
  BY DEF SetTotal
<1>2. r \notin Verifies /\ (r \in Generates => pc[r] \in Unpaid /\ phase[r] \in {"check", "debit"})
  BY <1>1, ReaderIs
<1>3. faults' = faults /\ faults \in Nat /\ faults' >= faults /\ lost' = lost /\ lost \subseteq Requests
  BY <1>1 DEF IInv, TypeOK
<1>4. UNCHANGED <<charged, minted, job, lost, faults>> /\ phase' = phase
      /\ UNCHANGED <<now, rows, total, expire, utc>>
  BY <1>1 DEF table, local
<1>5. CASE Goto(r, "error") /\ UNCHANGED cacheT
  <2>1. pc'[r] = "error"
    BY <1>5, GotoEffect DEF IInv, Outcomes, Done
  <2>2. r \in Generates => Fits(r)'
    BY <1>2, <1>4, <2>1, UnpaidFits
  <2>3. UNCHANGED <<now, table, cache, local, job, lost>>
    BY <1>1, <1>5 DEF cache
  <2> QED  BY <1>1, <1>2, <1>3, <1>5, <2>2, <2>3, StillKeeps DEF Done
<1>6. CASE Goto(r, "setE") /\ cacheT' = Key(r, total[r])
  <2>1. "setE" \in Outcomes
    BY DEF Outcomes
  <2>2. pc'[r] = "setE"
    BY <1>6, <2>1, GotoEffect DEF IInv
  <2>3. r \in Generates => Fits(r)'
    BY <1>2, <1>4, <2>2, UnpaidFits DEF Unpaid
  <2>4. cacheT' \in Keys /\ cacheE' \in Keys /\ cacheT'.value = total[r]
    <3>1. total[r] \in Nat /\ cacheE' \in Keys
      BY <1>1 DEF IInv, TypeOK
    <3> QED  BY <1>6, <3>1, KeyType DEF IInv, Key, Keys
  <2>5. CacheInv'
    <3>1. Serial => ReadOf(total'[r], Secs(expire'[r]), utc'[r])
      BY <1>1, <1>4 DEF IInv, CacheInv
    <3> QED  BY <1>3, <1>4, <1>6, <2>1, <2>4, <3>1, CacheStep DEF IInv
  <2> QED  BY <1>1, <1>2, <1>3, <1>6, <2>1, <2>3, <2>4, <2>5, LocalTypes, JobTypes, CallKeeps
<1> QED  BY <1>5, <1>6 DEF SetTotal

LEMMA SetExpireKeeps == ASSUME IInv, NEW r \in Requests, SetExpire(r) PROVE IInv'
<1>1. /\ pc[r] = "setE" /\ cacheE' = Key(r, Secs(expire[r])) /\ Resume(r, total[r])
      /\ UNCHANGED <<now, table, cacheT, utc, total, expire, next, job, lost, faults>>
  BY DEF SetExpire
<1>2. r \notin Verifies /\ (r \in Generates => pc[r] \in Unpaid /\ phase[r] \in {"check", "debit"})
  BY <1>1, ReaderIs
<1>3. /\ faults' = faults /\ faults \in Nat /\ faults' >= faults
      /\ lost' = lost /\ lost \subseteq Requests
      /\ utc' \in [Requests -> Nat] /\ \A q \in Requests : utc'[q] <= now
      /\ total' \in [Requests -> Nat] /\ expire' \in [Requests -> Nat]
      /\ next' \in [Generates -> Nat]
      /\ total[r] \in Nat /\ expire[r] \in Nat
  BY <1>1 DEF IInv, TypeOK, RowsInv
<1>4. PICK to \in {"ok", "rejected", "error", "mget", "txn"} :
         /\ Goto(r, to)
         /\ phase' = phase \/ phase' = [phase EXCEPT ![r] = "debit"]
         /\ r \in Generates =>
              to # "ok" /\ phase'[r] = IF to \in {"mget", "txn"} THEN "debit" ELSE phase[r]
  BY <1>1, <1>2, <1>3, ResumeEffect DEF IInv
<1>5. to \in Outcomes
  BY DEF Outcomes, Done
<1>6. pc'[r] = to
  BY <1>4, <1>5, GotoEffect DEF IInv
<1>7. r \in Generates => Fits(r)'
  <2>1. UNCHANGED <<charged, minted, job, lost, faults>>
    BY <1>1 DEF table
  <2> QED  BY <1>2, <1>4, <1>6, <2>1, UnpaidFits DEF Unpaid
<1>8. /\ phase' \in [Requests -> Phases]
      /\ \A q \in Requests \ {r} : phase'[q] = phase[q]
  BY <1>4 DEF IInv, TypeOK, Phases
<1>9. cacheT' \in Keys /\ cacheE' \in Keys /\ cacheE'.value = Secs(expire[r])
  <2>1. cacheT' \in Keys /\ Secs(expire[r]) \in Nat
    BY <1>1, <1>3, SecsNat DEF IInv, TypeOK
  <2> QED  BY <1>1, <2>1, KeyType DEF IInv, Key, Keys
<1>10. CacheInv'
  <2>1. ASSUME Serial, cacheT' # NoKey PROVE OneReading'
    <3>1. /\ ReadOf(total[r], Secs(expire[r]), utc[r])
          /\ cacheT'.value = total[r] /\ cacheE'.value = Secs(expire[r])
          /\ utc[r] \in Nat
      BY <1>1, <1>9, <2>1 DEF IInv, CacheInv, TypeOK
    <3>2. UNCHANGED <<now, rows>>
      BY <1>1 DEF table
    <3>3. ReadOf(cacheT'.value, cacheE'.value, utc[r])
      BY <3>1
    <3> QED  BY <3>1, <3>2, <3>3 DEF OneReading, ReadOf, Worth, Units, LiveRows
  <2>2. UNCHANGED <<now, rows>>
    BY <1>1 DEF table
  <2> QED  BY <1>3, <1>4, <1>5, <2>1, <2>2, CacheStep DEF IInv
<1> QED
  BY <1>1, <1>2, <1>3, <1>4, <1>5, <1>7, <1>8, <1>9, <1>10, JobTypes, CallKeeps

\* What an answer does to the history.
LEMMA AnswerEffect ==
  ASSUME IInv, NEW r \in Requests, NEW a \in Answers, Answer(r, a)
  PROVE  /\ faults \in Nat /\ faults' \in Nat /\ faults' >= faults
         /\ a # "done" => faults' > 0
         /\ lost \subseteq lost' /\ lost' \subseteq Requests
         /\ a = "lost" => r \in lost'
BY DEF Answer, Fault, Answers, IInv, TypeOK

\* After an invalidation, or when it has failed.
LEMMA DelGoesTo ==
  ASSUME IInv, NEW r \in Requests, pc[r] \in {"delT", "delE"},
         NEW to, to \in {AfterDel(r), AfterDelFails(r)}
  PROVE  /\ to \in Outcomes /\ to \notin {"setT", "setE", "delT", "delE"}
         /\ r \in Verifies => to \in {"ok", "error"}
         /\ r \in Generates =>
              to = (CASE phase[r] = "unsend" -> "unmark"
                      [] phase[r] = "debit" /\ to = AfterDel(r) -> "insert"
                      [] OTHER -> "error")
<1>1. CASE r \in Verifies
  <2>1. phase[r] = "grant" /\ r \notin Generates
    BY <1>1, RequestsAssumption DEF IInv, GrantInv
  <2> QED  BY <1>1, <2>1 DEF AfterDel, AfterDelFails, Outcomes, Done
<1>2. CASE r \in Generates
  <2>1. phase[r] \in {"debit", "refund", "unsend"} /\ r \notin Verifies
    <3>1. phase[r] \in Phases
      BY DEF IInv, TypeOK, Phases
    <3>2. PhaseFits(r)
      BY <1>2 DEF IInv, FitInv, Fits
    <3> QED  BY <1>2, <3>1, <3>2, RequestsAssumption DEF PhaseFits, Phases
  <2>2. CASE phase[r] = "debit"
    BY <1>2, <2>1, <2>2 DEF AfterDel, AfterDelFails, Outcomes, Done
  <2>3. CASE phase[r] = "refund"
    BY <1>2, <2>1, <2>3 DEF AfterDel, AfterDelFails, AfterRefund, Outcomes, Done
  <2>4. CASE phase[r] = "unsend"
    BY <1>2, <2>1, <2>4 DEF AfterDel, AfterDelFails, AfterRefund, Outcomes, Done
  <2> QED  BY <2>1, <2>2, <2>3, <2>4
<1>3. CASE r \in Profiles
  <2>1. r \notin Generates /\ r \notin Verifies
    BY <1>3, RequestsAssumption
  <2>2. phase[r] \in Phases
    BY DEF IInv, TypeOK, Phases
  <2> QED
    BY <2>1, <2>2 DEF Phases, AfterDel, AfterDelFails, AfterRefund, Outcomes, Done
<1> QED  BY <1>1, <1>2, <1>3 DEF Requests

\* The place that follows fits, if a failure has been counted.
LEMMA DelFits ==
  ASSUME IInv, NEW g \in Generates, pc[g] \in {"delT", "delE"},
         UNCHANGED <<table, local, job>>, faults' \in Nat, faults' >= faults,
         lost \subseteq lost',
         \/ pc'[g] = "delE"
         \/ pc'[g] = AfterDel(g)
         \/ pc'[g] = AfterDelFails(g) /\ faults' > 0
  PROVE  Fits(g)'
<1>1. /\ Fits(g) /\ phase[g] \in {"debit", "refund", "unsend"} /\ faults \in Nat
      /\ UNCHANGED <<charged, minted, phase, jobs, marks, queue>> /\ g \in Requests
  <2>1. phase[g] \in Phases /\ faults \in Nat /\ g \in Requests
    BY DEF IInv, TypeOK, Phases, Requests
  <2> QED  BY <2>1 DEF IInv, FitInv, Fits, PhaseFits, Phases, table, local, job
<1>2. \/ pc'[g] = "delE"
      \/ pc'[g] = "insert" /\ phase[g] = "debit"
      \/ pc'[g] = "unmark" /\ phase[g] = "unsend"
      \/ pc'[g] = "error" /\ faults' > 0
  <2>1. phase[g] = "debit" => AfterDel(g) = "insert" /\ AfterDelFails(g) = "error"
    BY DEF AfterDel, AfterDelFails
  <2>2. phase[g] = "refund" => AfterDel(g) = "error" /\ AfterDelFails(g) = "error"
    BY DEF AfterDel, AfterDelFails, AfterRefund
  <2>3. phase[g] = "unsend" => AfterDel(g) = "unmark" /\ AfterDelFails(g) = "unmark"
    BY DEF AfterDel, AfterDelFails, AfterRefund
  <2>4. phase[g] \in {"refund", "unsend"} => faults' > 0
    BY <1>1 DEF Fits, FaultFits
  <2> QED  BY <1>1, <2>1, <2>2, <2>3, <2>4
<1> QED
  BY <1>1, <1>2 DEF Fits, PhaseFits, PaymentFits, FaultFits, JobFits, Refunded, Unpaid, Paid

LEMMA DelTotalKeeps == ASSUME IInv, NEW r \in Requests, DelTotal(r) PROVE IInv'
<1> DEFINE to(a) == IF a = "done" THEN "delE" ELSE AfterDelFails(r)
<1>1. /\ pc[r] = "delT" /\ UNCHANGED <<now, table, cacheE, local, job>>
  BY DEF DelTotal
<1>2. PICK a \in Answers :
        /\ cacheT' = IF Effect(a) THEN NoKey ELSE cacheT
        /\ Goto(r, to(a))
        /\ Answer(r, a)
  BY DEF DelTotal
<1>3. /\ faults \in Nat /\ faults' \in Nat /\ faults' >= faults
      /\ a # "done" => faults' > 0
      /\ lost \subseteq lost' /\ lost' \subseteq Requests
  BY <1>2, AnswerEffect
<1>4. /\ to(a) \in Outcomes /\ to(a) \notin {"setT", "setE", "delT"}
      /\ r \in Verifies => to(a) \in {"delE", "ok", "error"}
  BY <1>1, DelGoesTo DEF Outcomes
<1> HIDE DEF to
<1>5. pc'[r] = to(a)
  BY <1>2, <1>4, GotoEffect DEF IInv
<1>6. r \in Generates => Fits(r)'
  BY <1>1, <1>2, <1>3, <1>5, DelFits DEF to
<1>7. cacheT' \in Keys /\ cacheE' \in Keys
  BY <1>1, <1>2 DEF IInv, TypeOK, Keys
<1>8. CacheInv'
  <2>1. Serial' => to(a) = "delE" /\ cacheT' = NoKey
    BY <1>2, <1>3 DEF Serial, to, Effect
  <2>2. UNCHANGED <<now, rows>>
    BY <1>1 DEF table
  <2> QED  BY <1>2, <1>3, <1>4, <2>1, <2>2, CacheStep DEF IInv
<1>9. r \in Verifies /\ to(a) \in {"delT", "delE"} => phase'[r] = "grant"
  BY <1>1 DEF IInv, GrantInv, local
<1> QED
  BY <1>1, <1>2, <1>3, <1>4, <1>6, <1>7, <1>8, <1>9, LocalTypes, JobTypes, CallKeeps

LEMMA DelExpireKeeps == ASSUME IInv, NEW r \in Requests, DelExpire(r) PROVE IInv'
<1> DEFINE to(a) == IF a = "done" THEN AfterDel(r) ELSE AfterDelFails(r)
<1>1. /\ pc[r] = "delE" /\ UNCHANGED <<now, table, cacheT, local, job>>
  BY DEF DelExpire
<1>2. PICK a \in Answers :
        /\ cacheE' = IF Effect(a) THEN NoKey ELSE cacheE
        /\ Goto(r, to(a))
        /\ Answer(r, a)
  BY DEF DelExpire
<1>3. /\ faults \in Nat /\ faults' \in Nat /\ faults' >= faults
      /\ a # "done" => faults' > 0
      /\ lost \subseteq lost' /\ lost' \subseteq Requests
  BY <1>2, AnswerEffect
<1>4. /\ to(a) \in Outcomes /\ to(a) \notin {"setT", "setE", "delT", "delE"}
      /\ r \in Verifies => to(a) \in {"ok", "error"}
  BY <1>1, DelGoesTo
<1> HIDE DEF to
<1>5. pc'[r] = to(a)
  BY <1>2, <1>4, GotoEffect DEF IInv
<1>6. r \in Generates => Fits(r)'
  BY <1>1, <1>2, <1>3, <1>5, DelFits DEF to
<1>7. cacheT' \in Keys /\ cacheE' \in Keys
  BY <1>1, <1>2 DEF IInv, TypeOK, Keys
<1>8. CacheInv'
  <2>1. Serial' => cacheE' = NoKey
    BY <1>2, <1>3 DEF Serial, Effect
  <2>2. UNCHANGED <<now, rows>>
    BY <1>1 DEF table
  <2> QED  BY <1>2, <1>3, <1>4, <2>1, <2>2, CacheStep DEF IInv
<1> QED
  BY <1>1, <1>2, <1>3, <1>4, <1>6, <1>7, <1>8, LocalTypes, JobTypes, CallKeeps

-----------------------------------------------------------------------------
(* The job after the debit.                                                *)

\* A step between the debit and the end that may touch the job of g alone.
LEMMA PlaceKeeps ==
  ASSUME IInv, NEW g \in Generates, NEW to \in Outcomes, Goto(g, to),
         NEW a \in Answers, Answer(g, a),
         pc[g] \in {"insert", "mark", "send", "unmark"},
         to \notin {"setT", "setE", "delE"},
         UNCHANGED <<now, table, cache, utc, total, expire, next>>,
         phase' \in [Requests -> Phases], \A q \in Requests \ {g} : phase'[q] = phase[q],
         jobs' \subseteq Generates, marks' \subseteq Generates, queue' \subseteq Generates,
         \A q \in Generates \ {g} :
           /\ q \in jobs' <=> q \in jobs
           /\ q \in marks' <=> q \in marks
           /\ q \in queue' <=> q \in queue,
         Fits(g)'
  PROVE  IInv'
<1>1. /\ faults' \in Nat /\ faults' >= faults
      /\ lost \subseteq lost' /\ lost' \subseteq Requests
      /\ g \in Requests /\ g \notin Verifies
  BY AnswerEffect, RequestsAssumption DEF Requests
<1>2. /\ utc' \in [Requests -> Nat] /\ \A q \in Requests : utc'[q] <= now
      /\ total' \in [Requests -> Nat] /\ expire' \in [Requests -> Nat]
      /\ next' \in [Generates -> Nat]
  BY DEF IInv, TypeOK, RowsInv
<1>3. UNCHANGED <<now, table, cache>>
  OBVIOUS
<1> QED  BY <1>1, <1>2, <1>3, MoveKeeps

LEMMA InsertJobKeeps == ASSUME IInv, NEW g \in Generates, InsertJob(g) PROVE IInv'
<1> DEFINE to(a) == IF a = "done" THEN "mark" ELSE "refund"
<1>1. PICK a \in Answers :
        /\ jobs' = IF Effect(a) THEN jobs \cup {g} ELSE jobs
        /\ Goto(g, to(a))
        /\ phase' = IF a = "done" THEN phase ELSE [phase EXCEPT ![g] = "refund"]
        /\ Answer(g, a)
  BY DEF InsertJob
<1>2. /\ pc[g] = "insert" /\ g \in Requests
      /\ UNCHANGED <<now, table, cache, utc, total, expire, next, marks, queue>>
  BY DEF InsertJob, Requests
<1>3. to(a) \in Outcomes /\ to(a) \notin {"setT", "setE", "delE"}
  BY DEF Outcomes
<1>4. /\ faults \in Nat /\ faults' \in Nat /\ faults' >= faults
      /\ a # "done" => faults' > 0
      /\ lost \subseteq lost'
  BY <1>1, <1>2, AnswerEffect
<1>5. /\ phase' \in [Requests -> Phases] /\ \A q \in Requests \ {g} : phase'[q] = phase[q]
      /\ phase'[g] = IF a = "done" THEN phase[g] ELSE "refund"
      /\ jobs' \subseteq Generates /\ marks' \subseteq Generates /\ queue' \subseteq Generates
      /\ \A q \in Generates \ {g} : q \in jobs' <=> q \in jobs
      /\ a = "done" => g \in jobs'
      /\ g \in jobs => g \in jobs'
  BY <1>1, <1>2 DEF IInv, TypeOK, Phases, Effect
<1>6. Fits(g)'
  <2>1. Fits(g)
    BY DEF IInv, FitInv
  <2>2. pc'[g] = to(a)
    BY <1>1, <1>2, <1>3, GotoEffect DEF IInv
  <2>3. UNCHANGED <<charged, minted>>
    BY <1>2 DEF table
  <2> QED
    BY <1>2, <1>4, <1>5, <2>1, <2>2, <2>3
       DEF Fits, PhaseFits, PaymentFits, FaultFits, JobFits, Refunded, Unpaid, Paid
<1> QED  BY <1>1, <1>2, <1>3, <1>5, <1>6, PlaceKeeps

LEMMA MarkWorkingKeeps == ASSUME IInv, NEW g \in Generates, MarkWorking(g) PROVE IInv'
<1> DEFINE to(a) == IF a = "done" THEN "send" ELSE "refund"
<1>1. PICK a \in Answers :
        /\ marks' = IF Effect(a) THEN marks \cup {g} ELSE marks
        /\ Goto(g, to(a))
        /\ phase' = IF a = "done" THEN phase ELSE [phase EXCEPT ![g] = "refund"]
        /\ Answer(g, a)
  BY DEF MarkWorking
<1>2. /\ pc[g] = "mark" /\ g \in Requests
      /\ UNCHANGED <<now, table, cache, utc, total, expire, next, jobs, queue>>
  BY DEF MarkWorking, Requests
<1>3. to(a) \in Outcomes /\ to(a) \notin {"setT", "setE", "delE"}
  BY DEF Outcomes
<1>4. /\ faults \in Nat /\ faults' \in Nat /\ faults' >= faults
      /\ a # "done" => faults' > 0
      /\ lost \subseteq lost'
  BY <1>1, <1>2, AnswerEffect
<1>5. /\ phase' \in [Requests -> Phases] /\ \A q \in Requests \ {g} : phase'[q] = phase[q]
      /\ phase'[g] = IF a = "done" THEN phase[g] ELSE "refund"
      /\ jobs' \subseteq Generates /\ marks' \subseteq Generates /\ queue' \subseteq Generates
      /\ \A q \in Generates \ {g} : q \in marks' <=> q \in marks
      /\ a = "done" => g \in marks'
  BY <1>1, <1>2 DEF IInv, TypeOK, Phases, Effect
<1>6. Fits(g)'
  <2>1. Fits(g)
    BY DEF IInv, FitInv
  <2>2. pc'[g] = to(a)
    BY <1>1, <1>2, <1>3, GotoEffect DEF IInv
  <2>3. UNCHANGED <<charged, minted>>
    BY <1>2 DEF table
  <2> QED
    BY <1>2, <1>4, <1>5, <2>1, <2>2, <2>3
       DEF Fits, PhaseFits, PaymentFits, FaultFits, JobFits, Refunded, Unpaid, Paid
<1> QED  BY <1>1, <1>2, <1>3, <1>5, <1>6, PlaceKeeps

LEMMA SendJobKeeps == ASSUME IInv, NEW g \in Generates, SendJob(g) PROVE IInv'
<1> DEFINE to(a) == IF a = "done" THEN "ok" ELSE "refund"
<1>1. PICK a \in Answers :
        /\ queue' = IF Effect(a) THEN queue \cup {g} ELSE queue
        /\ Goto(g, to(a))
        /\ phase' = IF a = "done" THEN phase ELSE [phase EXCEPT ![g] = "unsend"]
        /\ Answer(g, a)
  BY DEF SendJob
<1>2. /\ pc[g] = "send" /\ g \in Requests
      /\ UNCHANGED <<now, table, cache, utc, total, expire, next, jobs, marks>>
  BY DEF SendJob, Requests
<1>3. to(a) \in Outcomes /\ to(a) \notin {"setT", "setE", "delE"}
  BY DEF Outcomes, Done
<1>4. /\ faults \in Nat /\ faults' \in Nat /\ faults' >= faults
      /\ a # "done" => faults' > 0
      /\ lost \subseteq lost' /\ (a = "lost" => g \in lost')
  BY <1>1, <1>2, AnswerEffect
<1>5. /\ phase' \in [Requests -> Phases] /\ \A q \in Requests \ {g} : phase'[q] = phase[q]
      /\ phase'[g] = IF a = "done" THEN phase[g] ELSE "unsend"
      /\ jobs' \subseteq Generates /\ marks' \subseteq Generates /\ queue' \subseteq Generates
      /\ \A q \in Generates \ {g} : q \in queue' <=> q \in queue
      /\ a = "done" => g \in queue'
      /\ g \in queue' => g \in queue \/ a \in {"done", "lost"}
  BY <1>1, <1>2 DEF IInv, TypeOK, Phases, Effect
<1>6. Fits(g)'
  <2>1. Fits(g)
    BY DEF IInv, FitInv
  <2>2. pc'[g] = to(a)
    BY <1>1, <1>2, <1>3, GotoEffect DEF IInv
  <2>3. UNCHANGED <<charged, minted>>
    BY <1>2 DEF table
  <2> QED
    BY <1>2, <1>4, <1>5, <2>1, <2>2, <2>3
       DEF Fits, PhaseFits, PaymentFits, FaultFits, JobFits, Refunded, Unpaid, Paid
<1> QED  BY <1>1, <1>2, <1>3, <1>5, <1>6, PlaceKeeps

LEMMA UnmarkKeeps == ASSUME IInv, NEW g \in Generates, Unmark(g) PROVE IInv'
<1>1. PICK a \in Answers :
        /\ marks' = IF Effect(a) THEN marks \ {g} ELSE marks
        /\ Answer(g, a)
  BY DEF Unmark
<1>2. /\ pc[g] = "unmark" /\ g \in Requests /\ Goto(g, "error")
      /\ UNCHANGED <<now, table, cache, local, jobs, queue>>
  BY DEF Unmark, Requests
<1>3. "error" \in Outcomes
  BY DEF Outcomes, Done
<1>4. faults \in Nat /\ faults' \in Nat /\ faults' >= faults /\ lost \subseteq lost'
  BY <1>1, <1>2, AnswerEffect
<1>5. /\ phase' \in [Requests -> Phases] /\ phase' = phase
      /\ jobs' \subseteq Generates /\ marks' \subseteq Generates /\ queue' \subseteq Generates
      /\ \A q \in Generates \ {g} : q \in marks' <=> q \in marks
      /\ UNCHANGED <<utc, total, expire, next>>
  BY <1>1, <1>2 DEF IInv, TypeOK, Phases, local
<1>6. Fits(g)'
  <2>1. Fits(g)
    BY DEF IInv, FitInv
  <2>2. pc'[g] = "error"
    BY <1>2, <1>3, GotoEffect DEF IInv
  <2>3. UNCHANGED <<charged, minted>>
    BY <1>2 DEF table
  <2> QED
    BY <1>2, <1>4, <1>5, <2>1, <2>2, <2>3
       DEF Fits, PhaseFits, PaymentFits, FaultFits, JobFits, Refunded, Unpaid, Paid
<1> QED  BY <1>1, <1>2, <1>3, <1>5, <1>6, PlaceKeeps

-----------------------------------------------------------------------------
(* Confirmations that grant nothing.                                       *)

LEMMA NoGrantKeeps ==
  ASSUME IInv, NEW v \in Verifies,
         VerifyAborts(v) \/ (Verify(v) /\ verified)
  PROVE  IInv'
<1>1. /\ v \in Requests /\ v \notin Generates /\ pc[v] = "idle"
      /\ UNCHANGED <<now, table, cache, local, job, lost, faults>>
  BY RequestsAssumption DEF VerifyAborts, Verify, Requests, table, local
<1>2. PICK to \in {"rejected", "error"} : Goto(v, to)
  BY DEF VerifyAborts, Verify
<1>3. to \in Done /\ faults' \in Nat /\ faults' >= faults
  BY <1>1 DEF Done, IInv, TypeOK
<1> QED  BY <1>1, <1>2, <1>3, StillKeeps

LEMMA VerifyCommitFailsKeeps == ASSUME IInv, NEW v \in Verifies, VerifyCommitFails(v) PROVE IInv'
<1>1. /\ v \in Requests /\ v \notin Generates /\ pc[v] = "idle" /\ Goto(v, "delT")
      /\ phase' = [phase EXCEPT ![v] = "grant"]
      /\ faults' = faults + 1
      /\ UNCHANGED <<now, table, cache, utc, total, expire, next, job, lost>>
  BY RequestsAssumption DEF VerifyCommitFails, Fault, Requests
<1>2. /\ faults' \in Nat /\ faults' >= faults /\ faults' # 0 /\ "delT" \in Outcomes
      /\ phase' \in [Requests -> Phases] /\ phase'[v] = "grant"
      /\ \A q \in Requests \ {v} : phase'[q] = phase[q]
      /\ utc' \in [Requests -> Nat] /\ \A q \in Requests : utc'[q] <= now
      /\ total' \in [Requests -> Nat] /\ expire' \in [Requests -> Nat]
      /\ next' \in [Generates -> Nat]
      /\ lost' = lost /\ lost \subseteq Requests
  BY <1>1 DEF IInv, TypeOK, RowsInv, Phases, Outcomes
<1> QED  BY <1>1, <1>2, JobTypes, MoveKeeps

-----------------------------------------------------------------------------
(* Steps that change the table.                                            *)

\* Whoever changes the table goes on to invalidate the cache.
LEMMA CacheAfterChange ==
  ASSUME TypeOK, NEW r \in Requests, NEW to \in Outcomes, Goto(r, to),
         faults' = 0 => to = "delT"
  PROVE  CacheInv'
<1> SUFFICES ASSUME Serial'
             PROVE  (/\ \A p, q \in Requests : InFlight(p) /\ InFlight(q) => p = q
                     /\ \A q \in Requests :
                          /\ pc[q] \in {"setT", "setE"} =>
                               ReadOf(total[q], Secs(expire[q]), utc[q])
                          /\ pc[q] = "setE" /\ cacheT # NoKey => cacheT.value = total[q]
                          /\ pc[q] = "delE" => cacheT = NoKey
                     /\ cacheT # NoKey /\ cacheE # NoKey
                          /\ (\A q \in Requests : pc[q] \notin {"setE", "delT", "delE"})
                        => OneReading)'
  BY DEF CacheInv
<1>1. pc'[r] = "delT" /\ \A q \in Requests \ {r} : pc'[q] = pc[q] /\ ~InFlight(q)
  BY GotoEffect DEF Serial
<1>2. \A q \in Requests \ {r} :
        pc'[q] \notin {"setT", "setE", "delT", "delE"} /\ ~InFlight(q)'
  BY <1>1 DEF InFlight, Done
<1> QED  BY <1>1, <1>2

\* What is left to show of a step of r that changes the table.
LEMMA ChangeKeeps ==
  ASSUME IInv, NEW r \in Requests, NEW to \in Outcomes, Goto(r, to),
         UNCHANGED <<now, cache, utc, total, expire, job>>,
         minted' \in Seq(Batches), DOMAIN rows' \subseteq DOMAIN minted',
         rows' \in [DOMAIN rows' -> Rows],
         \A i \in DOMAIN rows' : rows'[i].expireat = minted'[i].expireat,
         verified' \in BOOLEAN, next' \in [Generates -> Nat],
         charged' \in [Generates -> SUBSET (Nat \X Nat)],
         phase' \in [Requests -> Phases],
         \A q \in Requests \ {r} : phase'[q] = phase[q],
         \A g \in Generates \ {r} :
           charged'[g] = charged[g] /\ (Refunded(g)' => Refunded(g)),
         lost \subseteq lost', lost' \subseteq Requests, faults' \in Nat, faults' >= faults,
         r \in Generates => Fits(r)',
         GrantInv', faults' = 0 => to = "delT"
  PROVE  IInv'
<1> USE DEF IInv
<1>1. /\ pc' \in [Requests -> Outcomes] /\ overlapped' \in BOOLEAN
      /\ pc'[r] = to /\ \A q \in Requests \ {r} : pc'[q] = pc[q]
  BY GotoEffect
<1>2. TypeOK'
  BY <1>1 DEF TypeOK, Phases, Rows, Batches, cache, job
<1>3. RowsInv'
  BY DEF RowsInv
<1>4. FitInv'
  <2>1. faults \in Nat /\ jobs' = jobs /\ marks' = marks /\ queue' = queue
    BY DEF TypeOK, job
  <2> QED  BY <1>1, <2>1, FitStep DEF Requests
<1>5. CacheInv'
  BY CacheAfterChange
<1> QED  BY <1>2, <1>3, <1>4, <1>5

\* A new row has the next creditid, and nothing else changes.
NewId == Len(minted) + 1
LEMMA InsertEffect ==
  ASSUME TypeOK, NEW r \in Requests, NEW n \in Nat \ {0}, NEW expiry \in Nat,
         InsertRow(r, n, expiry)
  PROVE  /\ minted' \in Seq(Batches)
         /\ DOMAIN minted' = DOMAIN minted \cup {NewId} /\ NewId \notin DOMAIN minted
         /\ minted'[NewId].size = n /\ minted'[NewId].expireat = expiry /\ minted'[NewId].owner = r
         /\ \A i \in DOMAIN minted : minted'[i] = minted[i]
         /\ DOMAIN rows' = DOMAIN rows \cup {NewId} /\ NewId \notin DOMAIN rows
         /\ rows' \in [DOMAIN rows' -> Rows]
         /\ rows'[NewId].credits = n /\ rows'[NewId].expireat = expiry
         /\ \A i \in DOMAIN rows : rows'[i] = rows[i]
<1> DEFINE b == [size |-> n, expireat |-> expiry, owner |-> r]
<1>1. minted \in Seq(Batches) /\ b \in Batches
  BY DEF TypeOK, Batches, Owners
<1>2. minted' = Append(minted, b)
  BY DEF InsertRow
<1>3. /\ minted' \in Seq(Batches) /\ DOMAIN minted' = DOMAIN minted \cup {NewId}
      /\ NewId \notin DOMAIN minted /\ minted'[NewId] = b
      /\ \A i \in DOMAIN minted : minted'[i] = minted[i]
  <2> HIDE DEF b
  <2> QED  BY <1>1, <1>2 DEF NewId
<1>4. rows' = [i \in DOMAIN rows \cup {NewId} |->
                IF i = NewId THEN [credits |-> n, expireat |-> expiry] ELSE rows[i]]
  BY DEF InsertRow, NewId
<1>5. rows \in [DOMAIN rows -> Rows] /\ NewId \notin DOMAIN rows
  BY <1>3 DEF TypeOK, Rows
<1>6. [credits |-> n, expireat |-> expiry] \in Rows
  BY DEF Rows
<1> QED  BY <1>2, <1>3, <1>4, <1>5, <1>6

\* So the table stays a table, and only r has a batch more.
LEMMA InsertKeepsTable ==
  ASSUME TypeOK, RowsInv, NEW r \in Requests, NEW n \in Nat \ {0}, NEW expiry \in Nat,
         InsertRow(r, n, expiry)
  PROVE  /\ minted' \in Seq(Batches) /\ DOMAIN rows' \subseteq DOMAIN minted'
         /\ rows' \in [DOMAIN rows' -> Rows]
         /\ \A i \in DOMAIN rows' : rows'[i].expireat = minted'[i].expireat
         /\ \A i \in DOMAIN minted' :
              minted'[i].owner = r \/ (i \in DOMAIN minted /\ minted'[i] = minted[i])
<1>1. /\ minted' \in Seq(Batches)
      /\ DOMAIN minted' = DOMAIN minted \cup {NewId}
      /\ minted'[NewId].size = n /\ minted'[NewId].expireat = expiry /\ minted'[NewId].owner = r
      /\ \A i \in DOMAIN minted : minted'[i] = minted[i]
      /\ DOMAIN rows' = DOMAIN rows \cup {NewId}
      /\ rows' \in [DOMAIN rows' -> Rows]
      /\ rows'[NewId].credits = n /\ rows'[NewId].expireat = expiry
      /\ \A i \in DOMAIN rows : rows'[i] = rows[i]
  BY InsertEffect
<1>2. /\ DOMAIN rows \subseteq DOMAIN minted
      /\ \A i \in DOMAIN rows : rows[i].expireat = minted[i].expireat
  BY DEF TypeOK, RowsInv
<1>4. \A i \in DOMAIN rows' : rows'[i].expireat = minted'[i].expireat
  <2> SUFFICES ASSUME NEW i \in DOMAIN rows' PROVE rows'[i].expireat = minted'[i].expireat
    OBVIOUS
  <2>1. CASE i = NewId
    BY <1>1, <2>1
  <2>2. CASE i \in DOMAIN rows
    <3>1. i \in DOMAIN minted
      BY <1>2, <2>2
    <3>2. minted'[i] = minted[i] /\ rows'[i] = rows[i]
      BY <1>1, <2>2, <3>1
    <3> QED  BY <1>2, <2>2, <3>2
  <2> QED  BY <1>1, <2>1, <2>2
<1>5. DOMAIN rows' \subseteq DOMAIN minted'
  BY <1>1, <1>2
<1> QED  BY <1>1, <1>4, <1>5


\* A pair is a unit of a set of rows if its row is one of them and has it.
LEMMA UnitOf ==
  ASSUME NEW S, NEW i, NEW k
  PROVE  <<i, k>> \in Units(S) <=> i \in S /\ k \in 1 .. rows[i].credits
BY DEF Units, UnitsOf

LEMMA UnitPair ==
  ASSUME NEW S, NEW u \in Units(S)
  PROVE  \E i \in S : \E k \in 1 .. rows[i].credits : u = <<i, k>>
BY DEF Units, UnitsOf

\* What the drain loop takes, when it breaks at p.
Taken(g, before, p) ==
  Units(before) \cup
    ({p} \X ((rows[p].credits - (Cost[g] - Worth(before)) + 1) .. rows[p].credits))

\* It is the price, to the unit.
LEMMA TakenIsPrice ==
  ASSUME TypeOK, NEW g \in Generates, NEW before \in SUBSET LiveRows(now),
         NEW p \in LiveRows(now), BreaksAt(g, LiveRows(now), before, p)
  PROVE  /\ rows[p].credits - (Cost[g] - Worth(before)) \in 0 .. (rows[p].credits - 1)
         /\ Taken(g, before, p) \subseteq Units(LiveRows(now))
         /\ Taken(g, before, p) # {}
         /\ Cardinality(Taken(g, before, p)) = Cost[g]
<1> DEFINE c == rows[p].credits
           w == Worth(before)
           left == c - (Cost[g] - w)
           T == {p} \X ((left + 1) .. c)
<1>1. /\ before \in SUBSET DOMAIN rows /\ p \in DOMAIN rows /\ p \notin before
      /\ w < Cost[g] /\ Cost[g] <= w + c
  BY DEF BreaksAt, LiveRows
<1>2. IsFiniteSet(Units(before)) /\ w \in Nat /\ c \in Nat \ {0} /\ Cost[g] \in Nat \ {0}
  BY <1>1, UnitsFinite, CostAssumption DEF TypeOK
<1>3. left \in 0 .. (c - 1)
  BY <1>1, <1>2
<1>4. IsFiniteSet(T) /\ Cardinality(T) = Cost[g] - w
  <2>1. IsFiniteSet({p}) /\ Cardinality({p}) = 1
    BY FS_Singleton
  <2>2. left + 1 \in Int /\ c \in Int /\ left + 1 <= c
    BY <1>2, <1>3
  <2> HIDE DEF left, c
  <2>3. IsFiniteSet((left + 1) .. c) /\ Cardinality((left + 1) .. c) = c - (left + 1) + 1
    BY <2>2, FS_Interval
  <2>4. IsFiniteSet(T) /\ Cardinality(T) = 1 * (c - (left + 1) + 1)
    BY <2>1, <2>3, FS_Product
  <2> QED  BY <1>2, <2>4 DEF left, c
<1>5. Units(before) \cap T = {}
  BY <1>1, UnitPair
<1>6. Cardinality(Units(before) \cup T) = Cost[g]
  <2>1. Cardinality(Units(before) \cup T) = w + (Cost[g] - w) - Cardinality({})
    BY <1>2, <1>4, <1>5, FS_Union DEF Worth
  <2>2. Cardinality({}) = 0
    BY FS_EmptySet
  <2> QED  BY <1>2, <2>1, <2>2
<1>7. Units(before) \cup T \subseteq Units(LiveRows(now))
  <2>1. \A u \in Units(before) : u \in Units(LiveRows(now))
    BY DEF Units
  <2>2. \A u \in T : u \in Units(LiveRows(now))
    BY <1>2, <1>3, UnitOf
  <2> QED  BY <2>1, <2>2
<1>8. <<p, c>> \in T
  BY <1>2, <1>3
<1> QED  BY <1>3, <1>6, <1>7, <1>8 DEF Taken

\* What the debit does to the table.
LEMMA DrainEffect ==
  ASSUME TypeOK, NEW g \in Generates, NEW before \in SUBSET LiveRows(now),
         NEW p \in LiveRows(now), BreaksAt(g, LiveRows(now), before, p), Drain(g, before, p)
  PROVE  /\ DOMAIN rows' \subseteq DOMAIN rows
         /\ rows' \in [DOMAIN rows' -> Rows]
         /\ \A i \in DOMAIN rows' : rows'[i].expireat = rows[i].expireat
         /\ charged' \in [Generates -> SUBSET (Nat \X Nat)]
         /\ charged'[g] = Taken(g, before, p)
         /\ \A q \in Generates \ {g} : charged'[q] = charged[q]
         /\ next' \in [Generates -> Nat]
         /\ Units(DOMAIN rows)' = Units(DOMAIN rows) \ Taken(g, before, p)
<1> DEFINE left == rows[p].credits - (Cost[g] - Worth(before))
           kept == DOMAIN rows \ (before \cup IF left = 0 THEN {p} ELSE {})
<1>1. /\ left \in 0 .. (rows[p].credits - 1)
      /\ Taken(g, before, p) \subseteq Units(LiveRows(now))
  BY TakenIsPrice
<1>2. /\ before \in SUBSET DOMAIN rows /\ p \in DOMAIN rows /\ p \notin before
      /\ rows \in [DOMAIN rows -> Rows] /\ DOMAIN rows \subseteq Nat
  BY DEF BreaksAt, LiveRows, TypeOK, Rows
<1>3. /\ rows' = [i \in kept |-> IF i = p THEN [rows[p] EXCEPT !.credits = left] ELSE rows[i]]
      /\ next' = [next EXCEPT ![g] = IF left = 0 THEN 1 ELSE Secs(rows[p].expireat)]
      /\ charged' = [charged EXCEPT ![g] = Taken(g, before, p)]
  BY DEF Drain, Taken
<1>4. \A i \in DOMAIN rows : rows[i].credits \in Nat \ {0} /\ rows[i].expireat \in Nat
  BY <1>2 DEF Rows
<1>5. /\ DOMAIN rows' = kept
      /\ \A i \in kept : i # p => rows'[i] = rows[i]
      /\ p \in kept => left > 0 /\ rows'[p] = [rows[p] EXCEPT !.credits = left]
  BY <1>1, <1>3, <1>4
<1>6. \A i \in kept :
        /\ rows'[i] \in Rows
        /\ rows'[i].expireat = rows[i].expireat
        /\ rows'[i].credits = IF i = p THEN left ELSE rows[i].credits
  <2> HIDE DEF left
  <2>1. left \in Nat
    BY <1>1, <1>2, <1>4
  <2>2. p \in kept => /\ rows'[p] \in Rows /\ rows'[p].expireat = rows[p].expireat
                      /\ rows'[p].credits = left
    BY <1>2, <1>5, <2>1 DEF Rows
  <2> QED  BY <1>2, <1>5, <2>2
<1>7. rows' \in [DOMAIN rows' -> Rows]
  BY <1>3, <1>5, <1>6
<1>8. charged' \in [Generates -> SUBSET (Nat \X Nat)] /\ charged'[g] = Taken(g, before, p)
      /\ \A q \in Generates \ {g} : charged'[q] = charged[q]
  <2>1. Units(LiveRows(now)) \subseteq Nat \X Nat
    <3>1. \A u \in Units(LiveRows(now)) : u \in Nat \X Nat
      BY <1>2, <1>4, UnitPair DEF LiveRows
    <3> QED  BY <3>1
  <2>2. charged \in [Generates -> SUBSET (Nat \X Nat)]
    BY DEF TypeOK
  <2> QED  BY <1>1, <1>3, <2>1, <2>2
<1>9. next' \in [Generates -> Nat]
  <2>1. Secs(rows[p].expireat) \in Nat
    BY <1>2, <1>4, SecsNat
  <2> QED  BY <1>3, <2>1 DEF TypeOK
<1>10. ASSUME NEW i, NEW k
       PROVE  <<i, k>> \in Units(DOMAIN rows)' <=>
                <<i, k>> \in Units(DOMAIN rows) /\ <<i, k>> \notin Taken(g, before, p)
  <2>1. <<i, k>> \in Units(DOMAIN rows)' <=> i \in kept /\ k \in 1 .. rows'[i].credits
    BY <1>5 DEF Units, UnitsOf
  <2>2. <<i, k>> \in Units(DOMAIN rows) <=> i \in DOMAIN rows /\ k \in 1 .. rows[i].credits
    BY UnitOf
  <2>3. <<i, k>> \in Taken(g, before, p) <=>
           \/ i \in before /\ k \in 1 .. rows[i].credits
           \/ i = p /\ k \in (left + 1) .. rows[p].credits
    BY UnitOf DEF Taken
  <2>4. CASE i = p
    <3>1. left \in Nat /\ rows[p].credits \in Nat /\ left < rows[p].credits
      BY <1>1, <1>2, <1>4
    <3>2. k \in 1 .. left <=>
            k \in 1 .. rows[p].credits /\ k \notin (left + 1) .. rows[p].credits
      <4> HIDE DEF left
      <4> QED  BY <3>1
    <3>3. i \in kept <=> left # 0
      BY <1>2, <2>4
    <3>4. left = 0 => k \notin 1 .. left
      <4> HIDE DEF left
      <4> QED  OBVIOUS
    <3> QED  BY <1>2, <1>6, <2>1, <2>2, <2>3, <2>4, <3>2, <3>3, <3>4
  <2>5. CASE i # p
    <3>1. i \in kept <=> i \in DOMAIN rows /\ i \notin before
      BY <2>5
    <3> QED  BY <1>2, <1>6, <2>1, <2>2, <2>3, <2>5, <3>1
  <2> QED  BY <2>4, <2>5
<1>11. Units(DOMAIN rows)' = Units(DOMAIN rows) \ Taken(g, before, p)
  <2>1. \A u \in Units(DOMAIN rows)' : \E i, k : u = <<i, k>>
    BY DEF Units, UnitsOf
  <2>2. \A u \in Units(DOMAIN rows) : \E i, k : u = <<i, k>>
    BY UnitPair
  <2> QED  BY <1>10, <2>1, <2>2
<1> QED  BY <1>5, <1>6, <1>7, <1>8, <1>9, <1>11

LEMMA DebitKeeps == ASSUME IInv, NEW g \in Generates, Debit(g) PROVE IInv'
<1> DEFINE to(a) == IF a = "done" THEN "delT" ELSE "error"
<1>1. PICK a \in {"done", "lost"}, before \in SUBSET LiveRows(now), p \in LiveRows(now) :
        /\ BreaksAt(g, LiveRows(now), before, p)
        /\ Drain(g, before, p)
        /\ Goto(g, to(a))
        /\ Answer(g, a)
  BY DEF Debit
<1>2. /\ pc[g] = "txn" /\ g \in Requests /\ g \notin Verifies
      /\ UNCHANGED <<now, verified, minted, cache, phase, utc, total, expire, job>>
  BY RequestsAssumption DEF Debit, Requests
<1>3. /\ faults \in Nat /\ faults' \in Nat /\ faults' >= faults
      /\ a # "done" => faults' > 0
      /\ lost \subseteq lost' /\ lost' \subseteq Requests
  <2>1. a \in Answers
    BY DEF Answers
  <2> QED  BY <1>1, <1>2, <2>1, AnswerEffect
<1>4. to(a) \in Outcomes /\ (a = "done" => to(a) = "delT") /\ (a # "done" => to(a) = "error")
  BY DEF Outcomes, Done
<1> HIDE DEF to
<1>5. pc'[g] = to(a) /\ \A q \in Requests \ {g} : pc'[q] = pc[q]
  BY <1>1, <1>2, <1>4, GotoEffect DEF IInv
<1>6. Taken(g, before, p) # {}
  BY <1>1, TakenIsPrice DEF IInv
<1>7. /\ DOMAIN rows' \subseteq DOMAIN rows
      /\ rows' \in [DOMAIN rows' -> Rows]
      /\ \A i \in DOMAIN rows' : rows'[i].expireat = rows[i].expireat
      /\ charged' \in [Generates -> SUBSET (Nat \X Nat)]
      /\ charged'[g] = Taken(g, before, p)
      /\ \A q \in Generates \ {g} : charged'[q] = charged[q]
      /\ next' \in [Generates -> Nat]
  BY <1>1, DrainEffect DEF IInv
<1>8. /\ minted' \in Seq(Batches) /\ DOMAIN rows' \subseteq DOMAIN minted'
      /\ \A i \in DOMAIN rows' : rows'[i].expireat = minted'[i].expireat
      /\ verified' \in BOOLEAN
      /\ phase' \in [Requests -> Phases] /\ phase' = phase
      /\ \A q \in Generates : Refunded(q)' => Refunded(q)
  BY <1>2, <1>7 DEF IInv, TypeOK, RowsInv, Batches, Phases, Refunded
<1>9. GrantInv'
  <2>1. \A v \in Verifies : pc'[v] = pc[v] /\ phase'[v] = phase[v]
    BY <1>2, <1>5 DEF Requests
  <2> QED  BY <1>2, <2>1 DEF IInv, GrantInv
<1>10. Fits(g)'
  <2>1. Fits(g) /\ phase[g] = "debit"
    BY <1>2 DEF IInv, FitInv, Fits, PhaseFits
  <2>2. UNCHANGED <<minted, phase, jobs, marks, queue>>
    BY <1>2 DEF job
  <2>3. PhaseFits(g)' /\ PaymentFits(g)'
    BY <1>4, <1>5, <1>6, <1>7, <2>1, <2>2
       DEF Fits, PhaseFits, PaymentFits, Refunded, Unpaid, Paid
  <2>4. FaultFits(g)' /\ JobFits(g)'
    BY <1>2, <1>3, <1>4, <1>5, <1>6, <1>7, <2>1, <2>2 DEF Fits, FaultFits, JobFits
  <2> QED  BY <2>3, <2>4 DEF Fits
<1>11. /\ UNCHANGED <<now, cache, utc, total, expire, job>>
       /\ faults' = 0 => to(a) = "delT"
  BY <1>2, <1>3, <1>4
<1> QED
  BY <1>1, <1>2, <1>3, <1>4, <1>7, <1>8, <1>9, <1>10, <1>11, ChangeKeeps

LEMMA RefundKeeps == ASSUME IInv, NEW g \in Generates, Refund(g) PROVE IInv'
<1> DEFINE to(a) == IF a = "done" THEN "delT" ELSE AfterRefund(g)
           new == Len(minted) + 1
<1>1. PICK a \in Answers :
        /\ IF Effect(a) THEN InsertRow(g, Cost[g], now + RefundLife)
                        ELSE UNCHANGED <<rows, minted>>
        /\ Goto(g, to(a))
        /\ Answer(g, a)
  BY DEF Refund
<1>2. /\ pc[g] = "refund" /\ g \in Requests
      /\ UNCHANGED <<now, verified, charged, cache, local, job>>
  BY DEF Refund, Requests
<1>3. /\ faults \in Nat /\ faults' \in Nat /\ faults' >= faults
      /\ lost \subseteq lost' /\ lost' \subseteq Requests
  BY <1>1, <1>2, AnswerEffect
<1>4. /\ Fits(g) /\ phase[g] \in {"refund", "unsend"} /\ faults > 0
      /\ Cost[g] \in Nat \ {0} /\ now + RefundLife \in Nat
  <2>1. Fits(g) /\ Cost[g] \in Nat \ {0} /\ now + RefundLife \in Nat
    BY CostAssumption, DurationAssumption DEF IInv, FitInv, TypeOK
  <2> QED  BY <1>2, <2>1 DEF Fits, PhaseFits, FaultFits
<1>5. /\ to(a) \in Outcomes
      /\ a = "done" => to(a) = "delT"
      /\ a # "done" => to(a) = IF phase[g] = "unsend" THEN "unmark" ELSE "error"
  BY DEF Outcomes, Done, AfterRefund
<1> HIDE DEF to
<1>6. pc'[g] = to(a)
  BY <1>1, <1>2, <1>5, GotoEffect DEF IInv
<1>7. /\ minted' \in Seq(Batches) /\ DOMAIN rows' \subseteq DOMAIN minted'
      /\ rows' \in [DOMAIN rows' -> Rows]
      /\ \A i \in DOMAIN rows' : rows'[i].expireat = minted'[i].expireat
      /\ \A i \in DOMAIN minted' : minted'[i].owner = g \/ (i \in DOMAIN minted /\ minted'[i] = minted[i])
  <2>1. CASE Effect(a)
    <3>1. InsertRow(g, Cost[g], now + RefundLife)
      BY <1>1, <2>1
    <3> QED  BY <1>2, <1>4, <3>1, InsertKeepsTable DEF IInv
  <2>2. CASE ~Effect(a)
    <3>1. UNCHANGED <<rows, minted>>
      BY <1>1, <2>2
    <3> QED  BY <3>1 DEF IInv, TypeOK, RowsInv, Batches, Rows
  <2> QED  BY <2>1, <2>2
<1>8. \A q \in Generates \ {g} : Refunded(q)' => Refunded(q)
  BY <1>7 DEF Refunded
<1>9. GrantInv'
  <2>1. g \notin Verifies
    BY RequestsAssumption
  <2>2. \A v \in Verifies : pc'[v] = pc[v] /\ phase'[v] = phase[v]
    BY <1>1, <1>2, <1>5, <2>1, GotoEffect DEF IInv, Requests, local
  <2> QED  BY <1>2, <1>7, <2>1, <2>2 DEF IInv, GrantInv
<1>10. Fits(g)'
  <2>1. UNCHANGED <<charged, phase, jobs, marks, queue>>
    BY <1>2 DEF local, job
  <2>2. PhaseFits(g)' /\ PaymentFits(g)'
    BY <1>2, <1>4, <1>5, <1>6, <2>1 DEF Fits, PhaseFits, PaymentFits, Unpaid, Paid
  <2>3. FaultFits(g)' /\ JobFits(g)'
    BY <1>2, <1>3, <1>4, <1>5, <1>6, <2>1 DEF Fits, FaultFits, JobFits
  <2> QED  BY <2>2, <2>3 DEF Fits
<1>11. /\ UNCHANGED <<now, cache, utc, total, expire, job>>
       /\ verified' \in BOOLEAN /\ next' \in [Generates -> Nat]
       /\ charged' \in [Generates -> SUBSET (Nat \X Nat)] /\ charged' = charged
       /\ phase' \in [Requests -> Phases] /\ phase' = phase
       /\ faults' # 0
  BY <1>2, <1>3, <1>4 DEF IInv, TypeOK, Phases, local
<1> QED
  BY <1>1, <1>2, <1>3, <1>5, <1>7, <1>8, <1>9, <1>10, <1>11, ChangeKeeps

\* The confirmation that grants the free credits.
LEMMA GrantKeeps == ASSUME IInv, NEW v \in Verifies, Verify(v), ~verified PROVE IInv'
<1>1. /\ v \in Requests /\ v \notin Generates /\ pc[v] = "idle"
      /\ verified' = TRUE
      /\ InsertRow(v, FreeCredits, now + FreeLife)
      /\ Goto(v, "delT")
      /\ phase' = [phase EXCEPT ![v] = "grant"]
      /\ UNCHANGED <<now, charged, cache, utc, total, expire, next, job, lost, faults>>
  BY RequestsAssumption DEF Verify, Requests
<1>2. now + FreeLife \in Nat /\ FreeCredits \in Nat \ {0} /\ "delT" \in Outcomes
  BY DurationAssumption DEF IInv, TypeOK, Outcomes
<1>3. /\ minted' \in Seq(Batches) /\ DOMAIN rows' \subseteq DOMAIN minted'
      /\ rows' \in [DOMAIN rows' -> Rows]
      /\ \A i \in DOMAIN rows' : rows'[i].expireat = minted'[i].expireat
      /\ \A i \in DOMAIN minted' : minted'[i].owner = v \/ (i \in DOMAIN minted /\ minted'[i] = minted[i])
  BY <1>1, <1>2, InsertKeepsTable DEF IInv
<1>4. \A q \in Generates : Refunded(q)' => Refunded(q)
  BY <1>1, <1>3 DEF Refunded
<1>5. GrantInv'
  <2>1. pc'[v] = "delT" /\ phase'[v] = "grant"
    BY <1>1, <1>2, GotoEffect DEF IInv, TypeOK
  <2>2. \A q \in Verifies \ {v} : pc'[q] = pc[q] /\ phase'[q] = phase[q]
    BY <1>1, <1>2, GotoEffect DEF IInv, TypeOK, Requests
  <2> QED  BY <1>1, <2>1, <2>2 DEF IInv, GrantInv
<1>6. /\ verified' \in BOOLEAN /\ next' \in [Generates -> Nat]
      /\ charged' \in [Generates -> SUBSET (Nat \X Nat)] /\ charged' = charged
      /\ phase' \in [Requests -> Phases]
      /\ \A q \in Requests \ {v} : phase'[q] = phase[q]
      /\ lost \subseteq lost' /\ lost' \subseteq Requests /\ faults' \in Nat /\ faults' >= faults
  BY <1>1 DEF IInv, TypeOK, Phases
<1> QED  BY <1>1, <1>2, <1>3, <1>4, <1>5, <1>6, ChangeKeeps

-----------------------------------------------------------------------------
(* Every step.                                                             *)

\* Time passing changes no total that was read, and can only drop keys.
LEMMA TickKeeps == ASSUME IInv, Tick PROVE IInv'
<1>1. /\ now' = now + 1 /\ now < MaxNow /\ now \in Nat
      /\ cacheT' \in {cacheT, NoKey} /\ cacheE' \in {cacheE, NoKey}
      /\ UNCHANGED <<rows, verified, minted, charged, pc, phase, utc, total, expire, next,
                     jobs, marks, queue, lost, overlapped, faults>>
  BY DEF Tick, table, local, job, IInv, TypeOK
<1>2. TypeOK'
  BY <1>1 DEF IInv, TypeOK, Keys
<1>3. RowsInv'
  BY <1>1, BoundAssumption DEF IInv, TypeOK, RowsInv
<1>4. FitInv'
  <2> SUFFICES ASSUME NEW g \in Generates PROVE Fits(g)'
    BY DEF FitInv
  <2>1. Fits(g)
    BY DEF IInv, FitInv
  <2> QED
    BY <1>1, <2>1 DEF Fits, PhaseFits, PaymentFits, FaultFits, JobFits, Refunded
<1>5. GrantInv'
  BY <1>1 DEF IInv, GrantInv
<1>6. CacheInv'
  <2> SUFFICES ASSUME Serial'
               PROVE  (/\ \A p, q \in Requests : InFlight(p) /\ InFlight(q) => p = q
                       /\ \A q \in Requests :
                            /\ pc[q] \in {"setT", "setE"} =>
                                 ReadOf(total[q], Secs(expire[q]), utc[q])
                            /\ pc[q] = "setE" /\ cacheT # NoKey => cacheT.value = total[q]
                            /\ pc[q] = "delE" => cacheT = NoKey
                       /\ cacheT # NoKey /\ cacheE # NoKey
                            /\ (\A q \in Requests : pc[q] \notin {"setE", "delT", "delE"})
                          => OneReading)'
    BY DEF CacheInv
  <2>1. Serial
    BY <1>1 DEF Serial
  <2>2. (\A p, q \in Requests : InFlight(p) /\ InFlight(q) => p = q)'
    BY <1>1, <2>1 DEF IInv, CacheInv, InFlight
  <2>3. ASSUME NEW q \in Requests
        PROVE  (/\ pc[q] \in {"setT", "setE"} => ReadOf(total[q], Secs(expire[q]), utc[q])
                /\ pc[q] = "setE" /\ cacheT # NoKey => cacheT.value = total[q]
                /\ pc[q] = "delE" => cacheT = NoKey)'
    <3>1. /\ pc[q] \in {"setT", "setE"} => ReadOf(total[q], Secs(expire[q]), utc[q])
          /\ pc[q] = "setE" /\ cacheT # NoKey => cacheT.value = total[q]
          /\ pc[q] = "delE" => cacheT = NoKey
      BY <2>1 DEF IInv, CacheInv
    <3>2. ASSUME pc[q] \in {"setT", "setE"}
          PROVE  ReadOf(total[q], Secs(expire[q]), utc[q])'
      <4>1. ReadOf(total[q], Secs(expire[q]), utc[q])
        BY <3>1, <3>2
      <4> QED  BY <1>1, <4>1 DEF ReadOf, Worth, Units, LiveRows, Secs
    <3> QED  BY <1>1, <3>1, <3>2
  <2>4. (cacheT # NoKey /\ cacheE # NoKey
           /\ (\A q \in Requests : pc[q] \notin {"setE", "delT", "delE"})
         => OneReading)'
    <3> SUFFICES ASSUME cacheT' # NoKey, cacheE' # NoKey,
                        \A q \in Requests : pc'[q] \notin {"setE", "delT", "delE"}
                 PROVE  OneReading'
      OBVIOUS
    <3>1. cacheT' = cacheT /\ cacheE' = cacheE
      BY <1>1
    <3>2. OneReading
      BY <1>1, <2>1, <3>1 DEF IInv, CacheInv
    <3>3. PICK t \in Nat : ReadOf(cacheT.value, cacheE.value, t)
      BY <3>2 DEF OneReading
    <3>4. ReadOf(cacheT.value, cacheE.value, t)'
      BY <1>1, <3>1, <3>3 DEF ReadOf, Worth, Units, LiveRows
    <3> QED  BY <3>3, <3>4 DEF OneReading
  <2> QED  BY <2>2, <2>3, <2>4
<1> QED  BY <1>2, <1>3, <1>4, <1>5, <1>6 DEF IInv

LEMMA StutterKeeps == ASSUME IInv, UNCHANGED vars PROVE IInv'
<1>1. /\ UNCHANGED <<now, rows, verified, minted, charged, cacheT, cacheE, pc, phase, utc>>
      /\ UNCHANGED <<total, expire, next, jobs, marks, queue, lost, overlapped, faults>>
  BY DEF vars, table, cache, local, job
<1>2. TypeOK' /\ RowsInv' /\ GrantInv'
  BY <1>1 DEF IInv, TypeOK, RowsInv, GrantInv
<1>3. FitInv'
  <2> SUFFICES ASSUME NEW g \in Generates PROVE Fits(g)'
    BY DEF FitInv
  <2>1. Fits(g)
    BY DEF IInv, FitInv
  <2> QED
    BY <1>1, <2>1 DEF Fits, PhaseFits, PaymentFits, FaultFits, JobFits, Refunded
<1>4. CacheInv'
  BY <1>1 DEF IInv, CacheInv, Serial, InFlight, OneReading, ReadOf, Worth, Units, LiveRows
<1> QED  BY <1>2, <1>3, <1>4 DEF IInv

\* The ledger a user starts with, as a sequence of batches.
First == [i \in DOMAIN StartRows |->
            [size |-> StartRows[i].credits, expireat |-> StartRows[i].expireat,
             owner |-> "start"]]

LEMMA FirstType ==
  /\ DOMAIN First = DOMAIN StartRows
  /\ First \in Seq([size : Nat \ {0}, expireat : Nat, owner : {"start"}])
  /\ StartRows \in [DOMAIN StartRows -> Rows]
  /\ \A i \in DOMAIN StartRows :
       /\ First[i].size = StartRows[i].credits
       /\ First[i].expireat = StartRows[i].expireat
       /\ First[i].owner = "start"
<1> DEFINE B == [size : Nat \ {0}, expireat : Nat, owner : {"start"}]
<1>1. StartRows \in Seq(Rows)
  BY StartAssumption DEF Rows
<1>2. StartRows \in [1 .. Len(StartRows) -> Rows] /\ Len(StartRows) \in Nat
  BY <1>1
<1>3. \A i \in DOMAIN StartRows : First[i] \in B
  BY <1>2 DEF First, Rows
<1>4. First \in [1 .. Len(StartRows) -> B]
  BY <1>2, <1>3 DEF First
<1>5. First \in Seq(B)
  <2> HIDE DEF B
  <2> QED  BY <1>2, <1>4
<1> QED  BY <1>2, <1>5 DEF First

LEMMA InitIInv == ASSUME Init PROVE IInv
<1> USE DEF Init
<1>1. /\ minted = First /\ rows = StartRows
      /\ minted \in Seq(Batches)
      /\ DOMAIN rows = DOMAIN minted /\ rows \in [DOMAIN rows -> Rows]
      /\ \A i \in DOMAIN minted : minted[i].owner = "start"
      /\ \A i \in DOMAIN rows : rows[i].expireat = minted[i].expireat
  <2>1. [size : Nat \ {0}, expireat : Nat, owner : {"start"}] \subseteq Batches
    BY DEF Batches, Owners
  <2>2. \A s \in Seq([size : Nat \ {0}, expireat : Nat, owner : {"start"}]) : s \in Seq(Batches)
    BY <2>1, SeqOfSubset
  <2>3. minted = First
    BY DEF First
  <2> QED  BY <2>2, <2>3, FirstType
<1>2. TypeOK
  BY <1>1 DEF TypeOK, Batches, Rows, Keys, Outcomes
<1>3. RowsInv
  BY <1>1, BoundAssumption DEF RowsInv
<1>4. FitInv
  <2>1. \A g \in Generates : ~Refunded(g) /\ g \in Requests
    BY <1>1, RequestsAssumption DEF Refunded, Requests
  <2> QED
    BY <2>1 DEF FitInv, Fits, PhaseFits, PaymentFits, FaultFits, JobFits, Unpaid, Paid
<1>5. GrantInv
  BY <1>1, RequestsAssumption DEF GrantInv, Requests
<1>6. CacheInv
  BY DEF CacheInv, InFlight
<1> QED  BY <1>2, <1>3, <1>4, <1>5, <1>6 DEF IInv

LEMMA NextKeeps == ASSUME IInv, [Next]_vars PROVE IInv'
<1>1. ASSUME NEW r \in Requests, Read(r) PROVE IInv'
  BY <1>1, MGetKeeps, QueryRowsKeeps, SetTotalKeeps, SetExpireKeeps, ReadFailsKeeps DEF Read
<1>2. ASSUME NEW r \in Requests, Write(r) PROVE IInv'
  BY <1>2, DelTotalKeeps, DelExpireKeeps, CrashKeeps DEF Write
<1>3. ASSUME NEW g \in Generates, Pay(g) PROVE IInv'
  BY <1>3, DebitKeeps, NoDebitKeeps DEF Pay
<1>4. ASSUME NEW g \in Generates, Place(g) PROVE IInv'
  BY <1>4, InsertJobKeeps, MarkWorkingKeeps, SendJobKeeps, RefundKeeps, UnmarkKeeps DEF Place
<1>5. ASSUME NEW v \in Verifies, Grant(v) PROVE IInv'
  BY <1>5, GrantKeeps, NoGrantKeeps, VerifyCommitFailsKeeps DEF Grant
<1>6. ASSUME Tick PROVE IInv'
  BY <1>6, TickKeeps
<1>7. ASSUME UNCHANGED vars PROVE IInv'
  BY <1>7, StutterKeeps
<1> QED  BY <1>1, <1>2, <1>3, <1>4, <1>5, <1>6, <1>7 DEF Next, Stop

(* The state of a request, its payment, its refund and its job, the grant   *)
(* and, while nothing overlaps, the cache fit together at every step.       *)
THEOREM Invariance == Spec => []IInv
<1>1. Init => IInv
  BY InitIInv
<1>2. IInv /\ [Next]_vars => IInv'
  BY NextKeeps
<1> QED  BY <1>1, <1>2, PTL DEF Spec

(* The state keeps the shape the code gives it; in particular              *)
(* decrement_total_credits leaves no row of zero credits in the table.     *)
THEOREM CreditTypes == Spec => []TypeOK
<1>1. IInv => TypeOK
  BY DEF IInv
<1> QED  BY <1>1, Invariance, PTL

(* A request to /generate that is answered with a job id has been debited  *)
(* and not refunded, and its row, its status key and its message exist.    *)
THEOREM NoFreeJobs == Spec => []OkMeansPaid
<1>1. IInv => OkMeansPaid
  <2> SUFFICES ASSUME IInv, NEW g \in Generates, pc[g] = "ok"
               PROVE  charged[g] # {} /\ ~Refunded(g) /\ g \in jobs \cap marks \cap queue
    BY DEF OkMeansPaid
  <2>1. Fits(g)
    BY DEF IInv, FitInv
  <2> QED  BY <2>1 DEF Fits, PhaseFits, PaymentFits, JobFits, Paid
<1> QED  BY <1>1, Invariance, PTL

(* A message in the generate queue has been paid for, and was refunded as  *)
(* well only if the reply to its SendMessage was lost.                     *)
THEOREM NoFreeMessages == Spec => []QueuedMeansPaid
<1>1. IInv => QueuedMeansPaid
  <2> SUFFICES ASSUME IInv, NEW g \in queue
               PROVE  charged[g] # {} /\ g \in jobs /\ (Refunded(g) => g \in lost)
    BY DEF QueuedMeansPaid
  <2>1. Fits(g)
    BY DEF IInv, FitInv, TypeOK
  <2> QED  BY <2>1 DEF Fits, PhaseFits, PaymentFits, JobFits
<1> QED  BY <1>1, Invariance, PTL

(* Without an infrastructure fault a request is debited only if it goes on *)
(* to its job, whatever runs beside it.                                    *)
THEOREM ConcurrencyCostsNothing == Spec => []ChargedMeansJob
<1>1. IInv => ChargedMeansJob
  <2> SUFFICES ASSUME IInv, faults = 0, NEW g \in Generates
               PROVE  charged[g] # {} <=>
                        pc[g] \in {"delT", "delE", "insert", "mark", "send", "ok"}
    BY DEF ChargedMeansJob
  <2>1. Fits(g) /\ pc[g] \in Outcomes
    BY DEF IInv, FitInv, TypeOK, Requests
  <2>2. pc[g] \notin {"refund", "unmark"}
    BY <2>1 DEF Fits, PhaseFits, FaultFits
  <2> QED
    BY <2>1, <2>2 DEF Fits, PaymentFits, FaultFits, Unpaid, Paid, Outcomes, Done
<1> QED  BY <1>1, Invariance, PTL

(* When no request overlaps another and no call fails, a total that the    *)
(* cache answers with is the live total of the table.                      *)
THEOREM CacheIsCoherent == Spec => []CacheCoherentWhenSerial
<1>1. IInv => CacheCoherentWhenSerial
  <2> SUFFICES ASSUME IInv, Serial, \A r \in Requests : ~InFlight(r), CacheHit
               PROVE  cacheT.value = Worth(LiveRows(now))
    BY DEF CacheCoherentWhenSerial, Serial
  <2>1. OneReading
    BY DEF IInv, CacheInv, InFlight, Done, CacheHit
  <2>2. PICK t \in Nat : ReadOf(cacheT.value, cacheE.value, t)
    BY <2>1 DEF OneReading
  <2>3. /\ t <= now /\ now \in Nat
        /\ cacheT.value = Worth(LiveRows(t))
        /\ \A i \in LiveRows(t) : cacheE.value <= Secs(rows[i].expireat)
        /\ cacheE.value \in Nat /\ cacheE.value > Secs(now) /\ Secs(now) \in Nat
        /\ \A i \in DOMAIN rows : rows[i].expireat \in Nat
    BY <2>2, SecsNat DEF IInv, TypeOK, ReadOf, CacheHit, Keys
  <2>4. ASSUME NEW i \in LiveRows(t) PROVE rows[i].expireat > now
    <3>1. rows[i].expireat \in Nat /\ Secs(rows[i].expireat) \in Nat
      BY <2>3, SecsNat DEF LiveRows
    <3>2. rows[i].expireat <= now => Secs(rows[i].expireat) <= Secs(now)
      BY <2>3, <3>1, SecsMonotone
    <3> QED  BY <2>3, <3>1, <3>2
  <2>5. LiveRows(t) = LiveRows(now)
    BY <2>3, <2>4 DEF LiveRows
  <2> QED  BY <2>3, <2>5
<1> QED  BY <1>1, Invariance, PTL

-----------------------------------------------------------------------------
(* What a step may do.                                                     *)

\* Only a debit takes credits, and only its own request's.
LEMMA OnlyDebitCharges ==
  ASSUME Next, \A g \in Generates : ~Debit(g)
  PROVE  charged' = charged
<1>1. ASSUME NEW r \in Requests, Read(r) PROVE charged' = charged
  BY <1>1 DEF Read, MGet, QueryRows, SetTotal, SetExpire, ReadFails, table
<1>2. ASSUME NEW r \in Requests, Write(r) PROVE charged' = charged
  BY <1>2 DEF Write, DelTotal, DelExpire, Crash, table
<1>3. ASSUME NEW g \in Generates, Pay(g) PROVE charged' = charged
  BY <1>3 DEF Pay, DebitShort, DebitAborts, table
<1>4. ASSUME NEW g \in Generates, Place(g) PROVE charged' = charged
  BY <1>4 DEF Place, InsertJob, MarkWorking, SendJob, Refund, Unmark, table
<1>5. ASSUME NEW v \in Verifies, Grant(v) PROVE charged' = charged
  BY <1>5 DEF Grant, Verify, VerifyAborts, VerifyCommitFails, table
<1> QED
  BY <1>1, <1>2, <1>3, <1>4, <1>5 DEF Next, Tick, Stop, vars, table

(* x-next-fetch is 1, or the second in which the earliest row that is left *)
(* expires: the client never waits past the next change of its total.      *)
THEOREM FetchIsHonest == Spec => NextFetchHonest
<1> DEFINE Honest ==
      \A g \in Generates : charged'[g] # charged[g] =>
        \/ next'[g] = 1
        \/ \E p \in DOMAIN rows' :
             /\ next'[g] = Secs(rows'[p].expireat)
             /\ \A i \in DOMAIN rows' :
                  rows'[i].expireat > now => rows'[i].expireat >= rows'[p].expireat
<1>1. IInv /\ [Next]_vars => [Honest]_vars
  <2> SUFFICES ASSUME IInv, Next PROVE Honest
    OBVIOUS
  <2>1. CASE \A g \in Generates : ~Debit(g)
    BY <2>1, OnlyDebitCharges
  <2>2. ASSUME NEW g \in Generates, Debit(g) PROVE Honest
    <3>1. PICK before \in SUBSET LiveRows(now), p \in LiveRows(now) :
            BreaksAt(g, LiveRows(now), before, p) /\ Drain(g, before, p)
      BY <2>2 DEF Debit
    <3> DEFINE left == rows[p].credits - (Cost[g] - Worth(before))
               kept == DOMAIN rows \ (before \cup IF left = 0 THEN {p} ELSE {})
    <3>2. /\ \A i \in DOMAIN rows' : rows'[i].expireat = rows[i].expireat
          /\ \A q \in Generates \ {g} : charged'[q] = charged[q]
          /\ DOMAIN rows' = kept
          /\ next'[g] = IF left = 0 THEN 1 ELSE Secs(rows[p].expireat)
      BY <3>1, DrainEffect DEF IInv, TypeOK, Drain
    <3>3. ASSUME left # 0
          PROVE  /\ p \in kept
                 /\ \A i \in kept : rows[i].expireat > now => rows[i].expireat >= rows[p].expireat
      <4>1. p \in DOMAIN rows /\ p \notin before
        BY <3>1 DEF BreaksAt, LiveRows
      <4>2. \A i \in kept : rows[i].expireat > now => i \in LiveRows(now) \ before
        BY DEF LiveRows
      <4>3. \A i \in LiveRows(now) \ before : rows[i].expireat >= rows[p].expireat
        BY <3>1 DEF BreaksAt, LiveRows, IInv, TypeOK
      <4> QED  BY <3>3, <4>1, <4>2, <4>3
    <3> HIDE DEF left, kept
    <3> QED  BY <3>2, <3>3
  <2> QED  BY <2>1, <2>2
<1> QED  BY <1>1, Invariance, PTL DEF Spec, NextFetchHonest

-----------------------------------------------------------------------------
(* The table and its history implement the ledger.                         *)

\* Steps that the ledger does not see.
Unseen == UNCHANGED <<now, rows, minted, charged>>

LEMMA UnseenStutters == ASSUME Unseen PROVE UNCHANGED Ledger!ledgerVars
BY DEF Unseen, Ledger!ledgerVars, Units

\* The units that the ledger may spend are those of the live rows.
LEMMA UsableIsLive == ASSUME TypeOK, RowsInv PROVE Ledger!Usable = Units(LiveRows(now))
<1>1. ASSUME NEW i \in DOMAIN rows, NEW k
      PROVE  <<i, k>> \in Units(LiveRows(now)) <=>
               <<i, k>> \in Units(DOMAIN rows) /\ Ledger!ExpiryOf(<<i, k>>) > now
  BY UnitOf DEF LiveRows, RowsInv, Ledger!ExpiryOf
<1>2. \A u \in Units(DOMAIN rows) : \E i \in DOMAIN rows : \E k : u = <<i, k>>
  BY UnitPair
<1>3. \A u \in Units(LiveRows(now)) : \E i \in DOMAIN rows : \E k : u = <<i, k>>
  BY UnitPair DEF LiveRows
<1> QED  BY <1>1, <1>2, <1>3 DEF Ledger!Usable

\* The ledger counts as its implementation does.
LEMMA SameCardinality == ASSUME NEW S PROVE Ledger!Cardinality(S) = Cardinality(S)
BY DEF Ledger!Cardinality, Cardinality

\* A debit is a payment, whether its caller hears of it or not.
LEMMA DebitSpends == ASSUME IInv, NEW g \in Generates, Debit(g) PROVE Ledger!Spend(g)
<1>1. PICK before \in SUBSET LiveRows(now), p \in LiveRows(now) :
        BreaksAt(g, LiveRows(now), before, p) /\ Drain(g, before, p)
  BY DEF Debit
<1> DEFINE D == Taken(g, before, p)
<1>2. D \in SUBSET Ledger!Usable /\ Cardinality(D) = Cost[g]
  BY <1>1, TakenIsPrice, UsableIsLive DEF IInv
<1>3. charged[g] = {}
  BY DEF Debit, IInv, FitInv, Fits, PaymentFits, Unpaid
<1>4. ASSUME NEW d \in D, NEW u \in Ledger!Usable \ D
      PROVE  Ledger!ExpiryOf(d) <= Ledger!ExpiryOf(u)
  <2>1. PICK i \in LiveRows(now) : \E k \in 1 .. rows[i].credits : d = <<i, k>>
    BY <1>2, UsableIsLive, UnitPair DEF IInv
  <2>2. PICK j \in LiveRows(now) : \E m \in 1 .. rows[j].credits : u = <<j, m>>
    BY UsableIsLive, UnitPair DEF IInv
  <2>3. i \in before \cup {p}
    BY <2>1, UnitOf DEF Taken
  <2>4. j \notin before
    BY <2>2, UnitOf DEF Taken
  <2>5. /\ rows[i].expireat \in Nat /\ rows[j].expireat \in Nat /\ rows[p].expireat \in Nat
        /\ minted[i].expireat = rows[i].expireat /\ minted[j].expireat = rows[j].expireat
    BY DEF IInv, TypeOK, RowsInv, LiveRows
  <2>6. rows[i].expireat <= rows[p].expireat /\ rows[p].expireat <= rows[j].expireat
    BY <1>1, <2>3, <2>4, <2>5 DEF BreaksAt
  <2> QED  BY <2>1, <2>2, <2>5, <2>6 DEF Ledger!ExpiryOf
<1>5. /\ Units(DOMAIN rows)' = Units(DOMAIN rows) \ D
      /\ charged' = [charged EXCEPT ![g] = D]
      /\ UNCHANGED <<now, minted>>
  BY <1>1, DrainEffect DEF IInv, Drain, Taken, Debit
<1> HIDE DEF D
<1>6. Ledger!Cardinality(D) = Cost[g]
  BY <1>2, SameCardinality
<1> QED  BY <1>2, <1>3, <1>4, <1>5, <1>6 DEF Ledger!Spend

\* An insertion is a batch of the ledger.
LEMMA InsertMints ==
  ASSUME IInv, NEW r \in Requests, NEW n \in Nat \ {0},
         NEW life \in {FreeLife, RefundLife},
         InsertRow(r, n, now + life), UNCHANGED <<now, charged>>
  PROVE  Ledger!Mint(r, n)
<1>1. now + life \in Nat /\ now + life \in 0 .. (MaxNow + FreeLife + RefundLife)
  BY DurationAssumption, BoundAssumption DEF IInv, TypeOK, RowsInv
<1>2. minted' = Append(minted, [size |-> n, expireat |-> now + life, owner |-> r])
  BY DEF InsertRow
<1>3. /\ DOMAIN rows' = DOMAIN rows \cup {NewId} /\ NewId \notin DOMAIN rows
      /\ rows'[NewId].credits = n
      /\ \A i \in DOMAIN rows : rows'[i] = rows[i]
  BY <1>1, InsertEffect DEF IInv
<1>4. Units(DOMAIN rows)' = Units(DOMAIN rows) \cup Ledger!UnitsOf(NewId, n)
  <2>1. \A i, k : <<i, k>> \in Units(DOMAIN rows)' <=>
                    i \in DOMAIN rows' /\ k \in 1 .. rows'[i].credits
    BY DEF Units, UnitsOf
  <2>2. \A i, k : <<i, k>> \in Units(DOMAIN rows) <=>
                    i \in DOMAIN rows /\ k \in 1 .. rows[i].credits
    BY UnitOf
  <2>3. \A i, k : <<i, k>> \in Ledger!UnitsOf(NewId, n) <=> i = NewId /\ k \in 1 .. n
    BY DEF Ledger!UnitsOf
  <2>4. \A i, k : <<i, k>> \in Units(DOMAIN rows)' <=>
                    <<i, k>> \in Units(DOMAIN rows) \/ <<i, k>> \in Ledger!UnitsOf(NewId, n)
    BY <1>3, <2>1, <2>2, <2>3
  <2>5. \A u \in Units(DOMAIN rows)' : \E i, k : u = <<i, k>>
    BY DEF Units, UnitsOf
  <2>6. \A u \in Units(DOMAIN rows) : \E i, k : u = <<i, k>>
    BY UnitPair
  <2>7. \A u \in Ledger!UnitsOf(NewId, n) : \E i, k : u = <<i, k>>
    BY DEF Ledger!UnitsOf
  <2> QED  BY <2>4, <2>5, <2>6, <2>7
<1> QED  BY <1>1, <1>2, <1>4 DEF Ledger!Mint, NewId

LEMMA RefundRefunds ==
  ASSUME IInv, NEW g \in Generates, Refund(g) PROVE Ledger!Refund(g) \/ Unseen
<1>1. CASE UNCHANGED <<rows, minted>>
  BY <1>1 DEF Refund, Unseen
<1>2. CASE InsertRow(g, Cost[g], now + RefundLife)
  <2>1. Cost[g] \in Nat \ {0} /\ g \in Requests /\ UNCHANGED <<now, charged>>
    BY CostAssumption DEF Requests, Refund
  <2>2. Ledger!Mint(g, Cost[g])
    BY <1>2, <2>1, InsertMints
  <2>3. charged[g] # {} /\ ~Refunded(g)
    BY DEF Refund, IInv, FitInv, Fits, PaymentFits, Paid
  <2>4. Ledger!MintedBy({g}) = {}
    BY <2>3 DEF Ledger!MintedBy, Refunded
  <2> QED  BY <2>2, <2>3, <2>4 DEF Ledger!Refund
<1> QED  BY <1>1, <1>2 DEF Refund

LEMMA GrantGrants ==
  ASSUME IInv, NEW v \in Verifies, Grant(v) PROVE Ledger!Grant(v) \/ Unseen
<1>1. CASE Verify(v) /\ ~verified
  <2>1. /\ InsertRow(v, FreeCredits, now + FreeLife) /\ UNCHANGED <<now, charged>>
        /\ v \in Requests /\ FreeCredits \in Nat \ {0}
    BY <1>1, DurationAssumption DEF Verify, Requests
  <2>2. Ledger!Mint(v, FreeCredits)
    BY <2>1, InsertMints
  <2>3. Ledger!MintedBy(Verifies) = {}
    BY <1>1 DEF Ledger!MintedBy, IInv, GrantInv
  <2> QED  BY <2>2, <2>3 DEF Ledger!Grant
<1>2. CASE ~(Verify(v) /\ ~verified)
  BY <1>2 DEF Grant, Verify, VerifyAborts, VerifyCommitFails, Unseen, table
<1> QED  BY <1>1, <1>2

LEMMA LedgerInit == ASSUME Init PROVE Ledger!LedgerInit
<1>1. /\ minted = First /\ rows = StartRows /\ now = 0
      /\ charged = [g \in Generates |-> {}]
  BY DEF Init, First
<1>2. Units(DOMAIN rows) =
        UNION {UnitsOf(i, First[i].size) : i \in DOMAIN First}
  BY <1>1, FirstType DEF Units
<1> QED  BY <1>1, <1>2 DEF Ledger!LedgerInit, Ledger!UnitsOf, UnitsOf, First

LEMMA LedgerNext ==
  ASSUME IInv, [Next]_vars PROVE [Ledger!LedgerNext]_(Ledger!ledgerVars)
<1>1. ASSUME NEW r \in Requests, Read(r) \/ Write(r) PROVE Unseen
  BY <1>1 DEF Read, MGet, QueryRows, SetTotal, SetExpire, ReadFails, Write, DelTotal,
     DelExpire, Crash, table, Unseen
<1>2. ASSUME NEW g \in Generates, Pay(g) PROVE Ledger!Spend(g) \/ Unseen
  BY <1>2, DebitSpends DEF Pay, DebitShort, DebitAborts, table, Unseen
<1>3. ASSUME NEW g \in Generates, Place(g) PROVE Ledger!Refund(g) \/ Unseen
  BY <1>3, RefundRefunds
     DEF Place, InsertJob, MarkWorking, SendJob, Unmark, table, Unseen
<1>4. ASSUME NEW v \in Verifies, Grant(v) PROVE Ledger!Grant(v) \/ Unseen
  BY <1>4, GrantGrants
<1>5. ASSUME Tick PROVE Ledger!Advance
  <2>1. now' \in Nat /\ now' > now /\ UNCHANGED <<rows, minted, charged>>
    BY <1>5 DEF Tick, IInv, TypeOK, table
  <2> QED  BY <2>1 DEF Ledger!Advance, Units
<1>6. UNCHANGED vars => Unseen
  BY DEF vars, table, Unseen
<1> QED
  BY <1>1, <1>2, <1>3, <1>4, <1>5, <1>6, UnseenStutters DEF Next, Stop, Ledger!LedgerNext

(* Whatever the cache says, however requests interleave, and whatever      *)
(* fails, table allocatedcredits is a ledger: a debit takes its price to   *)
(* the unit, once, from the credits that expire first; nobody spends what  *)
(* another has spent; a refund gives back a payment once, and the          *)
(* confirmation of the address is rewarded once.                           *)
THEOREM TableIsALedger == Spec => LedgerSpec
<1>1. Init => Ledger!LedgerInit
  BY LedgerInit
<1>2. IInv /\ [Next]_vars => [Ledger!LedgerNext]_(Ledger!ledgerVars)
  BY LedgerNext
<1> QED  BY <1>1, <1>2, Invariance, PTL DEF Spec, LedgerSpec, Ledger!LedgerSpec

-----------------------------------------------------------------------------
(* What the table inherits from the ledger.                                *)
Kept == INSTANCE CreditLedger_proofs WITH
  Payer <- Generates, Grantor <- Verifies, Price <- Cost, GrantSize <- FreeCredits,
  Start <- [i \in DOMAIN StartRows |->
              [size |-> StartRows[i].credits, expireat |-> StartRows[i].expireat,
               owner |-> "start"]],
  Nobody <- "start", Time <- 0 .. (MaxNow + FreeLife + RefundLife),
  clock <- now, batches <- minted, live <- Units(DOMAIN rows), spent <- charged

LEMMA LedgerApplies == Kept!LedgerAssumption
<1> DEFINE B == [size : Nat \ {0}, expireat : Nat, owner : {"start"}]
           C == [size : Nat, expireat : Nat, owner : {"start"}]
<1>1. First \in Seq(C)
  <2>1. B \subseteq C /\ First \in Seq(B)
    BY FirstType
  <2> HIDE DEF B, C
  <2> QED  BY <2>1, SeqOfSubset
<1>2. 0 .. (MaxNow + FreeLife + RefundLife) \subseteq Nat
  BY BoundAssumption, DurationAssumption
<1> QED
  BY <1>1, <1>2, CostAssumption, RequestsAssumption, DurationAssumption
     DEF Kept!LedgerAssumption, First, Requests

LEMMA SameInit == Ledger!LedgerInit <=> Kept!LedgerInit
BY DEF Ledger!LedgerInit, Kept!LedgerInit, Ledger!UnitsOf, Kept!UnitsOf

LEMMA SameNext ==
  [Ledger!LedgerNext]_(Ledger!ledgerVars) => [Kept!LedgerNext]_(Kept!ledgerVars)
<1>1. Ledger!ledgerVars = Kept!ledgerVars /\ (UNCHANGED Ledger!ledgerVars => UNCHANGED Kept!ledgerVars)
  BY DEF Ledger!ledgerVars, Kept!ledgerVars
<1>2. Ledger!Advance => Kept!Advance
  BY DEF Ledger!Advance, Kept!Advance
<1>3. \A u : Ledger!ExpiryOf(u) = Kept!ExpiryOf(u)
  BY DEF Ledger!ExpiryOf, Kept!ExpiryOf
<1>4. Ledger!Usable = Kept!Usable
  BY <1>3 DEF Ledger!Usable, Kept!Usable
<1>5. \A S : Ledger!Cardinality(S) = Kept!Cardinality(S)
  BY DEF Ledger!Cardinality, Kept!Cardinality
<1>6. ASSUME NEW p \in Generates, Ledger!Spend(p) PROVE Kept!Spend(p)
  BY <1>3, <1>4, <1>5, <1>6 DEF Ledger!Spend, Kept!Spend
<1>7. ASSUME NEW o, NEW n, Ledger!Mint(o, n) PROVE Kept!Mint(o, n)
  BY <1>7 DEF Ledger!Mint, Kept!Mint, Ledger!UnitsOf, Kept!UnitsOf
<1>8. \A S : Ledger!MintedBy(S) = Kept!MintedBy(S)
  BY DEF Ledger!MintedBy, Kept!MintedBy
<1>9. ASSUME NEW p \in Generates, Ledger!Refund(p) PROVE Kept!Refund(p)
  BY <1>7, <1>8, <1>9 DEF Ledger!Refund, Kept!Refund
<1>10. ASSUME NEW v \in Verifies, Ledger!Grant(v) PROVE Kept!Grant(v)
  BY <1>7, <1>8, <1>10 DEF Ledger!Grant, Kept!Grant
<1> QED
  BY <1>1, <1>2, <1>6, <1>9, <1>10 DEF Ledger!LedgerNext, Kept!LedgerNext

(* No credit is created or destroyed: every credit ever granted is in the  *)
(* table or was spent by one request, never both and never by two; whoever *)
(* has paid has paid the whole price; the confirmation is rewarded once,   *)
(* and each payment refunded at most once, in full.                        *)
THEOREM CreditIsConserved ==
  Spec => [](Ledger!Conserved /\ Ledger!WholePrice /\ Ledger!CreditedOnce)
<1>1. Kept!LedgerSpec => [](Kept!Conserved /\ Kept!WholePrice /\ Kept!CreditedOnce)
  BY LedgerApplies, Kept!LedgerIsKept
<1>2. Kept!Conserved /\ Kept!WholePrice /\ Kept!CreditedOnce =>
        Ledger!Conserved /\ Ledger!WholePrice /\ Ledger!CreditedOnce
  <2>1. Ledger!Minted = Kept!Minted
    BY DEF Ledger!Minted, Kept!Minted, Ledger!UnitsOf, Kept!UnitsOf
  <2>2. \A S : Ledger!Cardinality(S) = Kept!Cardinality(S)
    BY DEF Ledger!Cardinality, Kept!Cardinality
  <2>3. \A S : Ledger!MintedBy(S) = Kept!MintedBy(S)
    BY DEF Ledger!MintedBy, Kept!MintedBy
  <2> QED
    BY <2>1, <2>2, <2>3 DEF Ledger!Conserved, Kept!Conserved, Ledger!WholePrice,
       Kept!WholePrice, Ledger!CreditedOnce, Kept!CreditedOnce
<1> QED
  BY <1>1, <1>2, SameInit, SameNext, TableIsALedger, PTL
     DEF LedgerSpec, Ledger!LedgerSpec, Kept!LedgerSpec
=============================================================================
