----------------------------- MODULE HashChain -----------------------------
(***************************************************************************)
(* What README.md promises of the audit trail: every record carries the    *)
(* hash of its predecessor, records are only ever appended, and the tip is *)
(* the hash of the last one.  This is the abstract specification that the  *)
(* file-backed store (AuditStore) and the SQLite ledger                    *)
(* (TamperEvidentLedger) are compared with.                                *)
(***************************************************************************)
EXTENDS Integers

CONSTANTS EventIds,   \* identifiers of audit events
          Payloads,   \* what an event says, as far as a property tells apart
          Hash        \* positive numbers, in the order the hashes are computed

VARIABLES records,    \* the records of the chain, a set
          tip         \* the hash of the last record, Genesis when there is none

chainVars == <<records, tip>>

\* "0" * 64, the previous_hash of the first record.
Genesis == 0

ChainRecord ==
    [event : EventIds, data : Payloads, prev : Hash \cup {Genesis}, hash : Hash]

ChainInit == records = {} /\ tip = Genesis

\* A new record is linked to the tip and becomes the tip.
AppendRecord(e, d, h) ==
    /\ \A r \in records : r.event # e /\ r.hash < h
    /\ records' = records \cup {[event |-> e, data |-> d, prev |-> tip, hash |-> h]}
    /\ tip' = h

ChainNext ==
    \E e \in EventIds, d \in Payloads, h \in Hash : AppendRecord(e, d, h)

ChainSpec == ChainInit /\ [][ChainNext]_chainVars

-----------------------------------------------------------------------------

ChainTypeOK == records \subseteq ChainRecord /\ tip \in Hash \cup {Genesis}

\* No two records name the same predecessor: the trail never forks.
NoFork == \A r, s \in records : r.prev = s.prev => r = s

\* Every predecessor named is still there: the trail has no gap.
NoMissingLink ==
    \A r \in records : r.prev = Genesis \/ \E s \in records : s.hash = r.prev

\* The tip is the one hash that no record names as its predecessor.
TipIsLast ==
    /\ \A r \in records : r.prev # tip /\ r.hash <= tip
    /\ tip = Genesis \/ \E r \in records : r.hash = tip

=============================================================================
