------------------------------- MODULE Ledger -------------------------------
(***************************************************************************)
(* TamperEvidentLedger (packages/logic, repository/logger.py): a table of  *)
(* decisions in SQLite, each with the hash of the record that was latest   *)
(* when it was made.  The time is taken, the latest record is fetched and  *)
(* the new one is inserted in three steps that nothing joins, and records  *)
(* are ordered by time.time(), which may stand still between two calls.    *)
(***************************************************************************)
EXTENDS Integers, FiniteSets

CONSTANTS Writers,     \* processes and threads with a TamperEvidentLedger
          Decisions,   \* what a decision says
          RecordIds,   \* decision_id, given by the caller or a new uuid
          MaxTime      \* bound on the clock

ASSUME LedgerAssumption == MaxTime \in Nat

VARIABLES ledger,      \* the rows of tamper_evident_ledger, a set
          clock,       \* what time.time() returns
          call,        \* for every writer, how far its record_decision is
          disturbed    \* whether two calls overlapped or the clock stood still

ledgerVars == <<ledger, clock, call, disturbed>>

\* previous_hash of the first record; a hash is the triple that is hashed.
None == <<>>

Idle == [at |-> "idle"]

\* _calculate_hash; the decision includes its metadata.
CalculateHash(decision, previous, time) == <<decision, previous, time>>

LedgerInit ==
    /\ ledger = {} /\ clock = 0
    /\ call = [w \in Writers |-> Idle]
    /\ disturbed = FALSE

Tick ==
    /\ clock < MaxTime
    /\ clock' = clock + 1
    /\ UNCHANGED <<ledger, call, disturbed>>

\* record_decision takes the time first.
Begin(w, decision, id) ==
    /\ call[w] = Idle
    /\ call' = [call EXCEPT ![w] =
                   [at |-> "timed", id |-> id, time |-> clock, decision |-> decision]]
    /\ UNCHANGED <<ledger, clock, disturbed>>

\* Mutant: ascending order.
Latest_First(records) == {r \in records : \A s \in records : r.time <= s.time}

\* order_by(timestamp.desc()).first() returns one of these.
Latest(records) == {r \in records : \A s \in records : s.time <= r.time}

\* The latest record is fetched; seen is kept for a property.
Fetch(w) ==
    /\ call[w].at = "timed"
    /\ \E previous \in IF ledger = {} THEN {None} ELSE {r.hash : r \in Latest(ledger)} :
          call' = [call EXCEPT ![w] =
                      [at |-> "fetched", id |-> call[w].id, time |-> call[w].time,
                       decision |-> call[w].decision, previous |-> previous, seen |-> ledger]]
    /\ UNCHANGED <<ledger, clock, disturbed>>

\* The record that a call has built.
RecordOf(c) ==
    LET decision == [data |-> c.decision, previous_hash |-> c.previous]
    IN  [id |-> c.id, time |-> c.time, decision |-> decision, previous_hash |-> c.previous,
         hash |-> CalculateHash(decision, c.previous, c.time)]

\* The commit, which needs a new id and a new hash.
Insert(w) ==
    /\ call[w].at = "fetched"
    /\ \A r \in ledger : r.id # call[w].id /\ r.hash # RecordOf(call[w]).hash
    /\ ledger' = ledger \cup {RecordOf(call[w])}
    /\ call' = [call EXCEPT ![w] = Idle]
    /\ disturbed' = (\/ disturbed
                     \/ call[w].seen # ledger
                     \/ \E r \in ledger : r.time >= call[w].time)
    /\ UNCHANGED clock

\* An exception: rollback, and it is raised again.
Fail(w) ==
    /\ call[w] # Idle
    /\ call' = [call EXCEPT ![w] = Idle]
    /\ UNCHANGED <<ledger, clock, disturbed>>

LedgerNext ==
    \/ Tick
    \/ \E w \in Writers :
          \/ \E decision \in Decisions, id \in RecordIds : Begin(w, decision, id)
          \/ Fetch(w) \/ Insert(w) \/ Fail(w)

LedgerSpec == LedgerInit /\ [][LedgerNext]_ledgerVars

-----------------------------------------------------------------------------
(* verify_chain                                                            *)

\* The orders in which order_by(timestamp.asc()) may return the records.
Orders(records) ==
    {s \in [1 .. Cardinality(records) -> records] :
        \A i, j \in DOMAIN s : i < j => s[i] # s[j] /\ s[i].time <= s[j].time}

\* expected_previous_hash at the i-th record.
Expected(s, i) == IF i = 1 THEN None ELSE s[i - 1].hash

\* Mutant: the links are not looked at.
Verified_NoLinks(s) ==
    \A i \in DOMAIN s :
        s[i].hash = CalculateHash(s[i].decision, s[i].previous_hash, s[i].time)

\* Mutant: the hash is not computed again.
Verified_NoHash(s) ==
    \A i \in DOMAIN s :
        /\ s[i].previous_hash = Expected(s, i)
        /\ s[i].decision.previous_hash = Expected(s, i)

Verified(s) ==
    \A i \in DOMAIN s :
        /\ s[i].previous_hash = Expected(s, i)
        /\ s[i].decision.previous_hash = Expected(s, i)
        /\ s[i].hash = CalculateHash(s[i].decision, s[i].previous_hash, s[i].time)

\* verify_chain returns True, whatever the order of equal timestamps; and it
\* can return True.
VerifiesChain(records) == \A s \in Orders(records) : Verified(s)
MayVerify(records) == \E s \in Orders(records) : Verified(s)

-----------------------------------------------------------------------------
(* Properties.                                                             *)

\* A ledger that nobody touched verifies, as long as no call overlapped
\* another and the clock moved between them ("True if the chain is unbroken
\* and untampered"); failed calls and duplicate ids in between do no harm.
ChainVerifies == ~disturbed => VerifiesChain(ledger)

\* What verify_chain accepts is one chain of all the records, whoever wrote
\* them: one first record, no two with the same predecessor, and every
\* predecessor still there.  A fork that two writers make is always found.
AcceptedIsOneChain ==
    MayVerify(ledger) =>
        /\ \A r, s \in ledger : r.previous_hash = s.previous_hash => r = s
        /\ \A r \in ledger :
              r.previous_hash = None \/ \E s \in ledger : s.hash = r.previous_hash

\* In a ledger that verifies, a decision that is changed and a record that is
\* missing are found, whatever the order of equal timestamps; only the newest
\* record can go without a trace.
ChangeDetected ==
    MayVerify(ledger) =>
        \A r \in ledger :
            /\ \A d \in Decisions \ {r.decision.data} :
                  ~MayVerify((ledger \ {r}) \cup {[r EXCEPT !.decision.data = d]})
            /\ r \notin Latest(ledger) => ~MayVerify(ledger \ {r})

-----------------------------------------------------------------------------
(* The chain the table stands for.                                         *)

\* Hashes in the order of the times they were computed at, from one on.
Ordinal(hash) == IF hash = None THEN 0 ELSE hash[3] + 1

ChainRecords ==
    {[event |-> r.id, data |-> r.decision.data, prev |-> Ordinal(r.previous_hash),
      hash |-> Ordinal(r.hash)] : r \in ledger}

ChainTip == IF ledger = {} THEN 0 ELSE Ordinal((CHOOSE r \in Latest(ledger) : TRUE).hash)

Chain == INSTANCE HashChain WITH EventIds <- RecordIds, Payloads <- Decisions,
                                 Hash <- 1 .. MaxTime + 1,
                                 records <- ChainRecords, tip <- ChainTip

\* As long as no call overlaps another and the clock moves between them, the
\* ledger implements HashChain: what the writers do is to append records, each
\* with the hash of the one before it.
KeepsChain ==
    /\ Chain!ChainInit
    /\ [][~disturbed' => Chain!ChainNext \/ UNCHANGED Chain!chainVars]_ledgerVars
=============================================================================
