---------------------------- MODULE Ledger_proofs ----------------------------
(***************************************************************************)
(* What an append-only trail linked to its tip guarantees, what            *)
(* verify_chain of TamperEvidentLedger shows, and when the ledger is such  *)
(* a trail, for any number of writers, decisions and ids and without a     *)
(* bound on the clock.                                                     *)
(***************************************************************************)
EXTENDS Ledger, HashChain, FiniteSetTheorems, TLAPS

ChainInv == ChainTypeOK /\ NoFork /\ NoMissingLink /\ TipIsLast

LEMMA ChainStep ==
  ASSUME Hash \subseteq Nat \ {0}, ChainInv, ChainNext
  PROVE  ChainInv'
<1> PICK e \in EventIds, d \in Payloads, h \in Hash : AppendRecord(e, d, h)
  BY DEF ChainNext
<1> DEFINE new == [event |-> e, data |-> d, prev |-> tip, hash |-> h]
<1> USE DEF ChainInv, AppendRecord, Genesis
<1>1. ChainTypeOK'
  BY DEF ChainTypeOK, ChainRecord
<1>2. NoFork'
  BY DEF NoFork, TipIsLast
<1>3. NoMissingLink'
  BY DEF NoMissingLink, TipIsLast
<1>4. TipIsLast'
  <2>1. ASSUME NEW r \in records
        PROVE  r.prev # h /\ r.hash <= h
    <3>1. r.prev = 0 \/ \E s \in records : s.hash = r.prev
      BY DEF NoMissingLink
    <3>2. \A s \in records : s.hash < h /\ s.hash \in Nat
      BY DEF ChainTypeOK, ChainRecord
    <3>3. h \in Nat \ {0}
      OBVIOUS
    <3> QED
      BY <3>1, <3>2, <3>3
  <2>2. new.prev # h /\ new.hash <= h
    <3>1. tip = 0 \/ \E r \in records : r.hash = tip
      BY DEF TipIsLast
    <3>2. \A s \in records : s.hash < h /\ s.hash \in Nat
      BY DEF ChainTypeOK, ChainRecord
    <3>3. h \in Nat \ {0}
      OBVIOUS
    <3> QED
      BY <3>1, <3>2, <3>3
  <2>3. records' = records \cup {new} /\ tip' = h
    OBVIOUS
  <2>4. new \in records' /\ new.hash = tip'
    BY <2>3
  <2>5. \A r \in records' : r.prev # tip' /\ r.hash <= tip'
    BY <2>1, <2>2, <2>3
  <2> QED
    BY <2>4, <2>5 DEF TipIsLast
<1> QED
  BY <1>1, <1>2, <1>3, <1>4

\* An append-only trail never forks, has no gap, and its tip is its last record.
THEOREM ChainIntact ==
  ASSUME Hash \subseteq Nat \ {0}
  PROVE  ChainSpec => [](NoFork /\ NoMissingLink /\ TipIsLast)
<1>1. ChainInit => ChainInv
  BY DEF ChainInit, ChainInv, ChainTypeOK, NoFork, NoMissingLink, TipIsLast
<1>2. ChainInv /\ [ChainNext]_chainVars => ChainInv'
  <2>1. ASSUME ChainInv, UNCHANGED chainVars
        PROVE  ChainInv'
    BY <2>1 DEF ChainInv, ChainTypeOK, NoFork, NoMissingLink, TipIsLast, chainVars
  <2> QED
    BY <2>1, ChainStep
<1>3. ChainInv => NoFork /\ NoMissingLink /\ TipIsLast
  BY DEF ChainInv
<1> QED
  BY <1>1, <1>2, <1>3, PTL DEF ChainSpec

-----------------------------------------------------------------------------

\* A row is what RecordOf builds, with its hash over the rest of it.
Row(r) ==
    /\ r = [id |-> r.id, time |-> r.time,
            decision |-> [data |-> r.decision.data, previous_hash |-> r.previous_hash],
            previous_hash |-> r.previous_hash, hash |-> r.hash]
    /\ r.time \in Nat
    /\ r.hash = CalculateHash(r.decision, r.previous_hash, r.time)

Rows ==
    /\ IsFiniteSet(ledger)
    /\ \A r \in ledger : Row(r)
    /\ \A r, s \in ledger : r.hash = s.hash => r = s

\* Where a call is, and that the predecessor it fetched was the latest record.
Calls ==
    /\ clock \in Nat
    /\ DOMAIN call = Writers
    /\ \A w \in Writers :
          \/ call[w] = Idle
          \/ call[w].at = "timed" /\ call[w].time \in Nat
          \/ /\ call[w].at = "fetched" /\ call[w].time \in Nat
             /\ \/ call[w].seen = {} /\ call[w].previous = None
                \/ \E q \in Latest(call[w].seen) : call[w].previous = q.hash

\* r names the record just before it in time, or nothing if there is none.
Follows(r, rows) ==
    \/ /\ r.previous_hash = None
       /\ \A p \in rows : r.time <= p.time
    \/ \E q \in rows :
          /\ r.previous_hash = q.hash /\ q.time < r.time
          /\ \A p \in rows : p.time <= q.time \/ r.time <= p.time

\* As long as nothing disturbed the ledger.
Undisturbed ==
    ~disturbed =>
        /\ \A r, s \in ledger : r.time = s.time => r = s
        /\ \A r \in ledger : Follows(r, ledger)

LedgerInv == Rows /\ Calls /\ Undisturbed

-----------------------------------------------------------------------------

\* An order of a finite set of records goes through all of them.
LEMMA OrderCovers ==
  ASSUME NEW R, IsFiniteSet(R), NEW s \in Orders(R)
  PROVE  /\ Cardinality(R) \in Nat
         /\ DOMAIN s = 1 .. Cardinality(R)
         /\ \A i \in DOMAIN s : s[i] \in R
         /\ \A i, j \in DOMAIN s : s[i] = s[j] => i = j
         /\ \A i, j \in DOMAIN s : i < j => s[i].time <= s[j].time
         /\ \A r \in R : \E i \in DOMAIN s : s[i] = r
<1> DEFINE n == Cardinality(R)
<1>1. n \in Nat
  BY FS_CardinalityType
<1>2. s \in [1 .. n -> R] /\ \A i, j \in 1 .. n : i < j => s[i] # s[j] /\ s[i].time <= s[j].time
  BY DEF Orders
<1>3. \A i, j \in 1 .. n : s[i] = s[j] => i = j
  <2> SUFFICES ASSUME NEW i \in 1 .. n, NEW j \in 1 .. n, s[i] = s[j], i # j
               PROVE  FALSE
    OBVIOUS
  <2>1. i < j \/ j < i
    BY <1>1
  <2> QED
    BY <2>1, <1>2
<1>4. s \in Injection(1 .. n, R)
  BY <1>2, <1>3 DEF Injection, IsInjective
<1>5. Cardinality(1 .. n) = n
  BY <1>1, FS_Interval
<1>6. s \in Surjection(1 .. n, R)
  BY <1>4, <1>5, FS_Injection
<1> QED
  BY <1>1, <1>2, <1>3, <1>6 DEF Surjection

\* A hash is never None.
LEMMA HashIsSome == \A d, p, t : CalculateHash(d, p, t) # None
  BY DEF CalculateHash, None

\* Different contents have different hashes.
LEMMA HashIsInjective ==
  \A d, p, t, e, q, u :
     CalculateHash(d, p, t) = CalculateHash(e, q, u) => d = e /\ p = q /\ t = u
  BY DEF CalculateHash

\* Every step of every writer, and of the clock, keeps the invariant.
LEMMA LedgerStep == LedgerInv /\ [LedgerNext]_ledgerVars => LedgerInv'
<1> SUFFICES ASSUME LedgerInv, [LedgerNext]_ledgerVars
             PROVE  LedgerInv'
  OBVIOUS
<1> USE DEF LedgerInv
<1>1. CASE Tick
  BY <1>1 DEF Tick, Rows, Calls, Undisturbed
<1>2. ASSUME NEW w \in Writers, NEW decision \in Decisions, NEW id \in RecordIds,
             Begin(w, decision, id)
      PROVE  LedgerInv'
  <2>1. Rows' /\ Undisturbed'
    BY <1>2 DEF Begin, Rows, Undisturbed
  <2>2. Calls'
    BY <1>2 DEF Begin, Calls, Idle
  <2> QED
    BY <2>1, <2>2
<1>3. ASSUME NEW w \in Writers, Fetch(w)
      PROVE  LedgerInv'
  <2>1. Rows' /\ Undisturbed'
    BY <1>3 DEF Fetch, Rows, Undisturbed
  <2>2. call[w].time \in Nat
    BY <1>3 DEF Fetch, Calls, Idle
  <2>3. PICK previous \in IF ledger = {} THEN {None} ELSE {r.hash : r \in Latest(ledger)} :
          call' = [call EXCEPT ![w] =
                      [at |-> "fetched", id |-> call[w].id, time |-> call[w].time,
                       decision |-> call[w].decision, previous |-> previous, seen |-> ledger]]
    BY <1>3 DEF Fetch
  <2>4. \/ ledger = {} /\ previous = None
        \/ \E q \in Latest(ledger) : previous = q.hash
    BY <2>3
  <2>5. Calls'
    BY <1>3, <2>2, <2>3, <2>4 DEF Fetch, Calls, Idle
  <2> QED
    BY <2>1, <2>5
<1>4. ASSUME NEW w \in Writers, Insert(w)
      PROVE  LedgerInv'
  <2> DEFINE new == RecordOf(call[w])
  <2>1. /\ ledger' = ledger \cup {new}
        /\ \A r \in ledger : r.hash # new.hash
        /\ call' = [call EXCEPT ![w] = Idle]
        /\ UNCHANGED clock
        /\ ~disturbed' => ~disturbed /\ call[w].seen = ledger
                          /\ \A r \in ledger : ~(r.time >= call[w].time)
    BY <1>4 DEF Insert
  <2>2. /\ call[w].at = "fetched" /\ call[w].time \in Nat
        /\ \/ call[w].seen = {} /\ call[w].previous = None
           \/ \E q \in Latest(call[w].seen) : call[w].previous = q.hash
    BY <1>4 DEF Insert, Calls, Idle
  <2>3. /\ Row(new) /\ new.time = call[w].time /\ new.previous_hash = call[w].previous
    BY <2>2 DEF RecordOf, Row
  <2>4. Rows'
    <3>1. IsFiniteSet(ledger')
      BY <2>1, FS_AddElement DEF Rows
    <3>2. \A r \in ledger' : Row(r)
      BY <2>1, <2>3 DEF Rows
    <3>3. \A r, s \in ledger' : r.hash = s.hash => r = s
      BY <2>1 DEF Rows
    <3> QED
      BY <3>1, <3>2, <3>3 DEF Rows, Row
  <2>5. Calls'
    BY <2>1 DEF Calls, Idle
  <2>6. ASSUME ~disturbed'
        PROVE  /\ \A r, s \in ledger' : r.time = s.time => r = s
               /\ \A r \in ledger' : Follows(r, ledger')
    <3>1. ~disturbed /\ call[w].seen = ledger
      BY <2>1, <2>6
    <3>2. \A r \in ledger : r.time < new.time /\ r.time \in Nat /\ new.time \in Nat
      BY <2>1, <2>2, <2>3, <2>6 DEF Rows, Row
    <3>3. \A r, s \in ledger' : r.time = s.time => r = s
      BY <2>1, <3>1, <3>2 DEF Undisturbed
    <3>4. Follows(new, ledger')
      <4>1. CASE ledger = {} /\ new.previous_hash = None
        BY <4>1, <2>1, <2>2, <2>3 DEF Follows
      <4>2. CASE \E q \in Latest(ledger) : new.previous_hash = q.hash
        BY <4>2, <2>1, <3>2 DEF Follows, Latest
      <4> QED
        BY <4>1, <4>2, <2>2, <2>3, <3>1
    <3>5. ASSUME NEW r \in ledger
          PROVE  Follows(r, ledger')
      <4>1. Follows(r, ledger)
        BY <3>1 DEF Undisturbed
      <4>2. r.time <= new.time
        BY <3>2
      <4>3. CASE r.previous_hash = None /\ \A p \in ledger : r.time <= p.time
        BY <4>2, <4>3, <2>1 DEF Follows
      <4>4. CASE \E q \in ledger :
                   /\ r.previous_hash = q.hash /\ q.time < r.time
                   /\ \A p \in ledger : p.time <= q.time \/ r.time <= p.time
        BY <4>2, <4>4, <2>1 DEF Follows
      <4> QED
        BY <4>1, <4>3, <4>4 DEF Follows
    <3> QED
      BY <2>1, <3>3, <3>4, <3>5
  <2>7. Undisturbed'
    BY <2>6 DEF Undisturbed, Follows
  <2> QED
    BY <2>4, <2>5, <2>7
<1>5. ASSUME NEW w \in Writers, Fail(w)
      PROVE  LedgerInv'
  <2>1. Rows' /\ Undisturbed'
    BY <1>5 DEF Fail, Rows, Undisturbed
  <2>2. Calls'
    BY <1>5 DEF Fail, Calls, Idle
  <2> QED
    BY <2>1, <2>2
<1>6. CASE UNCHANGED ledgerVars
  BY <1>6 DEF ledgerVars, Rows, Calls, Undisturbed
<1> QED
  BY <1>1, <1>2, <1>3, <1>4, <1>5, <1>6 DEF LedgerNext

\* The rows are what record_decision built and have hashes of their own; while
\* nothing is disturbed every row names the one before it in time.
THEOREM LedgerInvariant == LedgerSpec => []LedgerInv
<1>1. LedgerInit => LedgerInv
  BY FS_EmptySet DEF LedgerInit, LedgerInv, Rows, Calls, Undisturbed
<1> QED
  BY <1>1, LedgerStep, PTL DEF LedgerSpec

-----------------------------------------------------------------------------

\* record_decision, one call after the other and at different times, makes a
\* ledger that verify_chain accepts, for any number of decisions.
THEOREM LedgerVerifies == LedgerSpec => []ChainVerifies
<1>1. LedgerInv => ChainVerifies
  <2> SUFFICES ASSUME LedgerInv, ~disturbed, NEW s \in Orders(ledger), NEW i \in DOMAIN s
               PROVE  /\ s[i].previous_hash = Expected(s, i)
                      /\ s[i].decision.previous_hash = Expected(s, i)
                      /\ s[i].hash = CalculateHash(s[i].decision, s[i].previous_hash, s[i].time)
    BY DEF ChainVerifies, VerifiesChain, Verified
  <2>1. /\ Cardinality(ledger) \in Nat
        /\ DOMAIN s = 1 .. Cardinality(ledger)
        /\ \A k \in DOMAIN s : s[k] \in ledger
        /\ \A k, j \in DOMAIN s : s[k] = s[j] => k = j
        /\ \A k, j \in DOMAIN s : k < j => s[k].time <= s[j].time
        /\ \A r \in ledger : \E k \in DOMAIN s : s[k] = r
    BY OrderCovers DEF LedgerInv, Rows
  <2>2. \A k \in DOMAIN s : s[k] \in ledger /\ Row(s[k]) /\ s[k].time \in Nat
    BY <2>1 DEF LedgerInv, Rows, Row
  <2>3. s[i].decision.previous_hash = s[i].previous_hash
    BY <2>2 DEF Row
  <2>4. s[i].hash = CalculateHash(s[i].decision, s[i].previous_hash, s[i].time)
    BY <2>2 DEF Row
  <2>5. Follows(s[i], ledger) /\ \A r, t \in ledger : r.time = t.time => r = t
    BY <2>2 DEF LedgerInv, Undisturbed
  <2>6. CASE i = 1
    <3>1. \A p \in ledger : s[1].time <= p.time /\ p.time \in Nat
      <4> SUFFICES ASSUME NEW p \in ledger
                   PROVE  s[1].time <= p.time /\ p.time \in Nat
        OBVIOUS
      <4>1. PICK k \in DOMAIN s : s[k] = p
        BY <2>1
      <4>2. k = 1 \/ 1 < k
        BY <2>1
      <4> QED
        BY <4>1, <4>2, <2>1, <2>2, <2>6
    <3>2. s[i].previous_hash = None
      BY <2>2, <2>5, <2>6, <3>1 DEF Follows
    <3> QED
      BY <2>3, <2>4, <2>6, <3>2 DEF Expected
  <2>7. CASE i # 1
    <3>1. i - 1 \in DOMAIN s /\ i - 1 < i
      BY <2>1, <2>7
    <3> DEFINE q == s[i - 1]
    <3>2. q \in ledger /\ q.time \in Nat /\ s[i].time \in Nat /\ q.time < s[i].time
      <4>1. q.time <= s[i].time /\ q # s[i]
        BY <2>1, <3>1
      <4> QED
        BY <4>1, <2>2, <2>5, <3>1
    <3>3. PICK p \in ledger :
            /\ s[i].previous_hash = p.hash /\ p.time < s[i].time
            /\ \A r \in ledger : r.time <= p.time \/ s[i].time <= r.time
      BY <2>5, <3>2 DEF Follows
    <3>4. PICK k \in DOMAIN s : s[k] = p
      BY <2>1
    <3>5. p.time \in Nat
      BY <2>2, <3>4
    <3>6. q.time <= p.time
      BY <3>2, <3>3
    <3>7. k < i
      <4> SUFFICES ASSUME ~(k < i)
                   PROVE  FALSE
        OBVIOUS
      <4>1. k = i \/ i < k
        BY <2>1
      <4> QED
        BY <4>1, <2>1, <2>2, <3>3, <3>4, <3>5
    <3>8. k = i - 1 \/ k < i - 1
      BY <2>1, <3>7
    <3>9. p.time <= q.time
      BY <2>1, <3>1, <3>2, <3>4, <3>5, <3>8
    <3>10. p = q
      BY <2>5, <3>2, <3>5, <3>6, <3>9
    <3> QED
      BY <2>3, <2>4, <2>7, <3>3, <3>10 DEF Expected
  <2> QED
    BY <2>6, <2>7
<1> QED
  BY <1>1, LedgerInvariant, PTL

\* A ledger that verify_chain accepts is one chain, however the calls of its
\* writers overlapped.
THEOREM LedgerAcceptedIsOneChain == LedgerSpec => []AcceptedIsOneChain
<1>1. LedgerInv => AcceptedIsOneChain
  <2> SUFFICES ASSUME LedgerInv, NEW s \in Orders(ledger), Verified(s)
               PROVE  /\ \A r, t \in ledger : r.previous_hash = t.previous_hash => r = t
                      /\ \A r \in ledger :
                            r.previous_hash = None \/ \E t \in ledger : t.hash = r.previous_hash
    BY DEF AcceptedIsOneChain, MayVerify
  <2>1. /\ Cardinality(ledger) \in Nat
        /\ DOMAIN s = 1 .. Cardinality(ledger)
        /\ \A k \in DOMAIN s : s[k] \in ledger
        /\ \A k, j \in DOMAIN s : s[k] = s[j] => k = j
        /\ \A r \in ledger : \E k \in DOMAIN s : s[k] = r
    BY OrderCovers DEF LedgerInv, Rows
  <2>2. \A k \in DOMAIN s : /\ k = 1 => s[k].previous_hash = None
                            /\ k # 1 => /\ k - 1 \in DOMAIN s
                                        /\ s[k].previous_hash = s[k - 1].hash
    BY <2>1 DEF Verified, Expected
  <2>3. \A r \in ledger : r.hash # None
    BY HashIsSome DEF LedgerInv, Rows, Row
  <2>4. ASSUME NEW r \in ledger, NEW t \in ledger, r.previous_hash = t.previous_hash
        PROVE  r = t
    <3>1. PICK i \in DOMAIN s : s[i] = r
      BY <2>1
    <3>2. PICK j \in DOMAIN s : s[j] = t
      BY <2>1
    <3>3. CASE i = 1
      BY <3>1, <3>2, <3>3, <2>1, <2>2, <2>3, <2>4
    <3>4. CASE j = 1
      BY <3>1, <3>2, <3>4, <2>1, <2>2, <2>3, <2>4
    <3>5. CASE i # 1 /\ j # 1
      <4>1. s[i - 1].hash = s[j - 1].hash /\ i - 1 \in DOMAIN s /\ j - 1 \in DOMAIN s
        BY <3>1, <3>2, <3>5, <2>2, <2>4
      <4>2. i - 1 = j - 1
        BY <4>1, <2>1 DEF LedgerInv, Rows
      <4> QED
        BY <4>2, <3>1, <3>2, <2>1
    <3> QED
      BY <3>3, <3>4, <3>5
  <2>5. ASSUME NEW r \in ledger
        PROVE  r.previous_hash = None \/ \E t \in ledger : t.hash = r.previous_hash
    <3>1. PICK i \in DOMAIN s : s[i] = r
      BY <2>1
    <3> QED
      BY <3>1, <2>1, <2>2
  <2> QED
    BY <2>4, <2>5
<1> QED
  BY <1>1, LedgerInvariant, PTL

\* In a ledger that verifies, verify_chain notices a changed decision and a
\* missing record, unless it is the newest.
THEOREM LedgerChangeDetected == LedgerSpec => []ChangeDetected
<1>1. LedgerInv => ChangeDetected
  <2> SUFFICES ASSUME LedgerInv, NEW s \in Orders(ledger), Verified(s), NEW r \in ledger
               PROVE  /\ \A d \in Decisions \ {r.decision.data} :
                            ~MayVerify((ledger \ {r}) \cup {[r EXCEPT !.decision.data = d]})
                      /\ r \notin Latest(ledger) => ~MayVerify(ledger \ {r})
    BY DEF ChangeDetected, MayVerify
  <2>0. Row(r)
    BY DEF LedgerInv, Rows
  <2>1. /\ Cardinality(ledger) \in Nat
        /\ DOMAIN s = 1 .. Cardinality(ledger)
        /\ \A k \in DOMAIN s : s[k] \in ledger
        /\ \A k, j \in DOMAIN s : s[k] = s[j] => k = j
        /\ \A k, j \in DOMAIN s : k < j => s[k].time <= s[j].time
        /\ \A q \in ledger : \E k \in DOMAIN s : s[k] = q
    BY OrderCovers DEF LedgerInv, Rows
  <2>2. ASSUME NEW d \in Decisions \ {r.decision.data},
               MayVerify((ledger \ {r}) \cup {[r EXCEPT !.decision.data = d]})
        PROVE  FALSE
    <3> DEFINE forged == [r EXCEPT !.decision.data = d]
               R == (ledger \ {r}) \cup {forged}
    <3>1. PICK t \in Orders(R) : Verified(t)
      BY <2>2 DEF MayVerify
    <3>2. IsFiniteSet(R)
      BY FS_RemoveElement, FS_AddElement DEF LedgerInv, Rows
    <3>3. PICK i \in DOMAIN t : t[i] = forged
      <4>1. forged \in R
        OBVIOUS
      <4>2. \A q \in R : \E i \in DOMAIN t : t[i] = q
        <5> HIDE DEF forged, R
        <5> QED
          BY <3>2, OrderCovers
      <4> QED
        BY <4>1, <4>2
    <3>4. forged.hash = CalculateHash(forged.decision, forged.previous_hash, forged.time)
      BY <3>1, <3>3 DEF Verified
    <3>5. forged.hash = r.hash /\ forged.decision.data = d
      BY <2>0 DEF Row
    <3>6. forged.decision = r.decision
      BY <3>4, <3>5, <2>0, HashIsInjective DEF Row
    <3> QED
      BY <3>5, <3>6
  <2>3. ASSUME r \notin Latest(ledger), MayVerify(ledger \ {r})
        PROVE  FALSE
    <3>1. PICK p \in ledger : ~(p.time <= r.time)
      BY <2>3 DEF Latest
    <3>2. PICK i \in DOMAIN s : s[i] = r
      BY <2>1
    <3>3. PICK k \in DOMAIN s : s[k] = p
      BY <2>1
    <3>4. i < k
      <4>1. ~(k < i) /\ k # i
        BY <2>1, <3>1, <3>2, <3>3 DEF LedgerInv, Rows, Row
      <4> QED
        BY <4>1, <2>1
    <3>5. i + 1 \in DOMAIN s /\ i + 1 # 1 /\ (i + 1) - 1 = i
      BY <2>1, <3>4
    <3> DEFINE next == s[i + 1]
    <3>6. next \in ledger \ {r} /\ next.previous_hash = r.hash
      <4>1. next.previous_hash = s[i].hash
        BY <3>5 DEF Verified, Expected
      <4>2. next # s[i]
        BY <2>1, <3>5
      <4> QED
        BY <4>1, <4>2, <2>1, <3>2, <3>5
    <3>7. PICK t \in Orders(ledger \ {r}) : Verified(t)
      BY <2>3 DEF MayVerify
    <3>8. IsFiniteSet(ledger \ {r})
      BY FS_RemoveElement DEF LedgerInv, Rows
    <3>9. /\ \A j \in DOMAIN t : t[j] \in ledger \ {r}
          /\ DOMAIN t = 1 .. Cardinality(ledger \ {r}) /\ Cardinality(ledger \ {r}) \in Nat
      BY <3>8, OrderCovers
    <3>10. PICK j \in DOMAIN t : t[j] = next
      <4>1. \A q \in ledger \ {r} : \E j \in DOMAIN t : t[j] = q
        BY <3>8, OrderCovers
      <4> QED
        BY <4>1, <3>6
    <3>11. r.hash = Expected(t, j)
      BY <3>6, <3>7, <3>10 DEF Verified
    <3>12. CASE j = 1
      BY <3>11, <3>12, <2>0, HashIsSome DEF Expected, Row
    <3>13. CASE j # 1
      <4>1. j - 1 \in DOMAIN t
        BY <3>9, <3>13
      <4>2. t[j - 1].hash = r.hash /\ t[j - 1] \in ledger \ {r}
        BY <4>1, <3>9, <3>11, <3>13 DEF Expected
      <4> QED
        BY <4>2 DEF LedgerInv, Rows
    <3> QED
      BY <3>12, <3>13
  <2> QED
    BY <2>2, <2>3
<1> QED
  BY <1>1, LedgerInvariant, PTL
-----------------------------------------------------------------------------

\* What a call works on.
CallData ==
    /\ clock \in 0 .. MaxTime
    /\ DOMAIN call = Writers
    /\ \A w \in Writers :
          call[w] # Idle => /\ call[w].time \in 0 .. MaxTime
                            /\ call[w].decision \in Decisions /\ call[w].id \in RecordIds

LEMMA CallDataStep == CallData /\ [LedgerNext]_ledgerVars => CallData'
<1> SUFFICES ASSUME CallData, [LedgerNext]_ledgerVars
             PROVE  CallData'
  OBVIOUS
<1> USE LedgerAssumption DEF CallData
<1>1. CASE Tick
  BY <1>1 DEF Tick
<1>2. ASSUME NEW w \in Writers, NEW decision \in Decisions, NEW id \in RecordIds,
             Begin(w, decision, id)
      PROVE  CallData'
  BY <1>2 DEF Begin
<1>3. ASSUME NEW w \in Writers, Fetch(w)
      PROVE  CallData'
  <2>1. call[w] # Idle
    BY <1>3 DEF Fetch, Idle
  <2> QED
    BY <1>3, <2>1 DEF Fetch
<1>4. ASSUME NEW w \in Writers, Insert(w) \/ Fail(w)
      PROVE  CallData'
  BY <1>4 DEF Insert, Fail
<1>5. CASE UNCHANGED ledgerVars
  BY <1>5 DEF ledgerVars
<1> QED
  BY <1>1, <1>2, <1>3, <1>4, <1>5 DEF LedgerNext

\* An insertion that nothing disturbs appends a record to the chain.
LEMMA InsertAppends ==
  ASSUME LedgerInv, CallData, NEW w \in Writers, Insert(w), ~disturbed'
  PROVE  Chain!ChainNext
<1> DEFINE c == call[w]
           new == RecordOf(c)
           entry(r) == [event |-> r.id, data |-> r.decision.data,
                        prev |-> Ordinal(r.previous_hash), hash |-> Ordinal(r.hash)]
<1>1. /\ c # Idle /\ ~disturbed /\ c.seen = ledger
      /\ c.time \in 0 .. MaxTime /\ c.decision \in Decisions /\ c.id \in RecordIds
      /\ ledger' = ledger \cup {new}
      /\ \A r \in ledger : r.id # c.id /\ ~(r.time >= c.time)
  BY DEF Insert, Idle, CallData
<1>2. \/ ledger = {} /\ c.previous = None
      \/ \E q \in Latest(ledger) : c.previous = q.hash
  BY <1>1 DEF Insert, LedgerInv, Calls, Idle
<1>3. /\ new.id = c.id /\ new.decision.data = c.decision /\ new.time = c.time
      /\ new.previous_hash = c.previous /\ Ordinal(new.hash) = c.time + 1
  BY DEF RecordOf, Ordinal, CalculateHash, None
<1>4. \A r \in ledger : r.time \in Nat /\ Ordinal(r.hash) = r.time + 1
  <2>1. \A d, p, t : Ordinal(CalculateHash(d, p, t)) = t + 1
    BY DEF Ordinal, CalculateHash, None
  <2>2. \A r \in ledger : r.time \in Nat /\ r.hash = CalculateHash(r.decision, r.previous_hash, r.time)
    BY DEF LedgerInv, Rows, Row
  <2> QED
    BY <2>1, <2>2
<1> HIDE DEF new
<1>5. ChainRecords' = ChainRecords \cup {entry(new)}
  BY <1>1 DEF ChainRecords
<1>6. ChainTip = Ordinal(c.previous)
  <2>1. CASE ledger = {} /\ c.previous = None
    BY <2>1 DEF ChainTip, Ordinal
  <2>2. ASSUME NEW q \in Latest(ledger), c.previous = q.hash
        PROVE  ChainTip = Ordinal(c.previous)
    <3>1. ledger # {} /\ q \in ledger
      BY DEF Latest
    <3>2. \A r \in Latest(ledger) : r = q
      BY <1>1, <1>4, <3>1 DEF Latest, LedgerInv, Undisturbed
    <3>3. (CHOOSE r \in Latest(ledger) : TRUE) = q
      BY <3>2
    <3> QED
      BY <2>2, <3>1, <3>3 DEF ChainTip
  <2> QED
    BY <1>2, <2>1, <2>2
<1>7. ChainTip' = c.time + 1
  <2>1. Latest(ledger') = {new}
    BY <1>1, <1>3, <1>4 DEF Latest
  <2>2. (CHOOSE r \in Latest(ledger') : TRUE) = new
    BY <2>1
  <2>3. ledger' # {}
    BY <1>1
  <2> QED
    BY <1>3, <2>2, <2>3 DEF ChainTip
<1>8. \A e \in ChainRecords : e.event # c.id /\ e.hash < c.time + 1
  BY <1>1, <1>4 DEF ChainRecords
<1>9. Chain!AppendRecord(c.id, c.decision, c.time + 1)
  BY <1>3, <1>5, <1>6, <1>7, <1>8 DEF Chain!AppendRecord
<1>10. c.time + 1 \in 1 .. MaxTime + 1
  BY <1>1, LedgerAssumption
<1> QED
  BY <1>1, <1>9, <1>10 DEF Chain!ChainNext

\* TamperEvidentLedger keeps the trail README.md promises until two calls overlap
\* or the clock stands still between them.
THEOREM LedgerKeepsChain == LedgerSpec => KeepsChain
<1>1. LedgerInit => Chain!ChainInit
  BY DEF LedgerInit, Chain!ChainInit, Chain!Genesis, ChainRecords, ChainTip
<1>2. LedgerInit => CallData
  BY LedgerAssumption DEF LedgerInit, CallData
<1>3. LedgerInv /\ CallData /\ [LedgerNext]_ledgerVars
        => [~disturbed' => Chain!ChainNext \/ UNCHANGED Chain!chainVars]_ledgerVars
  <2> SUFFICES ASSUME LedgerInv, CallData, LedgerNext, ~disturbed'
               PROVE  Chain!ChainNext \/ UNCHANGED Chain!chainVars
    OBVIOUS
  <2>1. ASSUME NEW w \in Writers, Insert(w)
        PROVE  Chain!ChainNext
    BY <2>1, InsertAppends
  <2>2. ASSUME UNCHANGED ledger
        PROVE  UNCHANGED Chain!chainVars
    BY <2>2 DEF Chain!chainVars, ChainRecords, ChainTip
  <2> QED
    BY <2>1, <2>2 DEF LedgerNext, Tick, Begin, Fetch, Fail
<1>4. LedgerSpec => []CallData
  BY <1>2, CallDataStep, PTL DEF LedgerSpec
<1> QED
  BY <1>1, <1>3, <1>4, LedgerInvariant, PTL DEF LedgerSpec, KeepsChain
=============================================================================
