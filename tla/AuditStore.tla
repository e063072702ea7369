----------------------------- MODULE AuditStore -----------------------------
(***************************************************************************)
(* FileStateStore.save_audit_event (packages/core/guard/core/state/impl.py) *)
(* with its files.  The default state_backend is "file" with the path      *)
(* "./state_data" for the gateway and for every in-process SDK client, so  *)
(* several processes (Writers) use the same directory.  No lock guards it: *)
(* a save reads last_audit_hash.txt, rewrites the event's own file and     *)
(* rewrites last_audit_hash.txt, and the file operations of two writers    *)
(* interleave.  Rewriting a file truncates it first, which other writers   *)
(* can see and which a crash can leave behind.                             *)
(*                                                                         *)
(* SHA-256 is taken to be free of collisions: hashes are numbered in the   *)
(* order in which they are computed.                                       *)
(***************************************************************************)
EXTENDS Integers

CONSTANTS Writers,    \* processes that write to the directory
          EventIds,   \* file names under audit_events/
          Payloads,   \* contents a property can tell apart
          MaxHash,    \* bound: number of saves that are begun
          UniqueIds,  \* TRUE when callers never reuse an event id
          MayAbort    \* the writers whose saves can be cut short

ASSUME AuditStoreAssumption ==
    /\ MaxHash \in Nat
    /\ UniqueIds \in BOOLEAN
    /\ MayAbort \subseteq Writers

VARIABLES last_audit_hash,  \* the text of last_audit_hash.txt
          audit_events,     \* the files under audit_events/
          issued,           \* how many hashes have been computed
          save              \* the save each writer has in progress

storeVars == <<last_audit_hash, audit_events, issued, save>>

Genesis == 0      \* "0" * 64, read when last_audit_hash.txt does not exist
Truncated == -1   \* "", read from last_audit_hash.txt between open and write
Roots == {Genesis, Truncated}

Hash == 1 .. MaxHash

\* A file of audit_events/: not there, just truncated, holding bytes that are
\* not JSON, or holding a record.
Absent  == [kind |-> "absent"]
Blank   == [kind |-> "blank"]
Garbled == [kind |-> "garbled"]
\* "by", the process that wrote the record, is auxiliary: the file does not say.
Records == [kind : {"record"}, data : Payloads, prev : Hash \cup Roots, hash : Hash,
            by : Writers]
Files   == {Absent, Blank, Garbled} \cup Records

IsRecord(e) == audit_events[e].kind = "record"

Idle == [pc |-> "idle"]
Saves == [pc : {"open", "dump", "openLast", "writeLast"}, event : EventIds,
          data : Payloads, prev : Hash \cup Roots, hash : Hash]

Busy(w) == save[w].pc # "idle"

TypeOK ==
    /\ last_audit_hash \in Hash \cup Roots
    /\ audit_events \in [EventIds -> Files]
    /\ issued \in 0 .. MaxHash
    /\ save \in [Writers -> Saves \cup {Idle}]

StoreInit ==
    /\ last_audit_hash = Genesis
    /\ audit_events = [e \in EventIds |-> Absent]
    /\ issued = 0
    /\ save = [w \in Writers |-> Idle]

-----------------------------------------------------------------------------

\* An id that nobody has used for a file and nobody is about to use.
FreshId(e) ==
    /\ audit_events[e].kind = "absent"
    /\ \A w \in Writers : Busy(w) => save[w].event # e

\* Mutant: last_audit_hash.txt is written before the record.
ReadLastHash_HashFirst(w, e, d) ==
    /\ ~Busy(w)
    /\ issued < MaxHash
    /\ UniqueIds => FreshId(e)
    /\ issued' = issued + 1
    /\ save' = [save EXCEPT ![w] = [pc |-> "open", event |-> e, data |-> d,
                                    prev |-> last_audit_hash, hash |-> issued + 1]]
    /\ last_audit_hash' = issued + 1
    /\ UNCHANGED audit_events

\* _get_last_hash, then the record and its hash are computed in memory.
ReadLastHash(w, e, d) ==
    /\ ~Busy(w)
    /\ issued < MaxHash
    /\ UniqueIds => FreshId(e)
    /\ issued' = issued + 1
    /\ save' = [save EXCEPT ![w] = [pc |-> "open", event |-> e, data |-> d,
                                    prev |-> last_audit_hash, hash |-> issued + 1]]
    /\ UNCHANGED <<last_audit_hash, audit_events>>

\* _write_json opens the event's file with mode "w".
OpenEvent(w) ==
    /\ save[w].pc = "open"
    /\ audit_events' = [audit_events EXCEPT ![save[w].event] = Blank]
    /\ save' = [save EXCEPT ![w].pc = "dump"]
    /\ UNCHANGED <<last_audit_hash, issued>>

RecordOf(w) == [kind |-> "record", data |-> save[w].data, prev |-> save[w].prev,
                hash |-> save[w].hash, by |-> w]

\* json.dump reaches the file.  When another writer has written to it since
\* this one truncated it, the shorter text may leave the tail of the longer.
DumpEvent(w) ==
    /\ save[w].pc = "dump"
    /\ \/ audit_events' = [audit_events EXCEPT ![save[w].event] = RecordOf(w)]
       \/ /\ audit_events[save[w].event].kind # "blank"
          /\ audit_events' = [audit_events EXCEPT ![save[w].event] = Garbled]
    /\ save' = [save EXCEPT ![w].pc = "openLast"]
    /\ UNCHANGED <<last_audit_hash, issued>>

\* _set_last_hash: write_text truncates last_audit_hash.txt ...
OpenLastHash(w) ==
    /\ save[w].pc = "openLast"
    /\ last_audit_hash' = Truncated
    /\ save' = [save EXCEPT ![w].pc = "writeLast"]
    /\ UNCHANGED <<audit_events, issued>>

\* Mutant: the predecessor's hash is written back.
WriteLastHash_Previous(w) ==
    /\ save[w].pc = "writeLast"
    /\ last_audit_hash' = save[w].prev
    /\ save' = [save EXCEPT ![w] = Idle]
    /\ UNCHANGED <<audit_events, issued>>

\* ... and writes the 64 digits: save_audit_event returns.
WriteLastHash(w) ==
    /\ save[w].pc = "writeLast"
    /\ last_audit_hash' = save[w].hash
    /\ save' = [save EXCEPT ![w] = Idle]
    /\ UNCHANGED <<audit_events, issued>>

\* Mutant: a save that fails removes the event's file again.
AbortSave_Removes(w) ==
    /\ w \in MayAbort
    /\ Busy(w)
    /\ save' = [save EXCEPT ![w] = Idle]
    /\ audit_events' = [audit_events EXCEPT ![save[w].event] = Absent]
    /\ UNCHANGED <<last_audit_hash, issued>>

\* The process is killed, or a file operation raises OSError; a dump that runs
\* out of space leaves part of the text behind.
AbortSave(w) ==
    /\ w \in MayAbort
    /\ Busy(w)
    /\ save' = [save EXCEPT ![w] = Idle]
    /\ \/ audit_events' = audit_events
       \/ /\ save[w].pc = "dump"
          /\ audit_events' = [audit_events EXCEPT ![save[w].event] = Garbled]
    /\ UNCHANGED <<last_audit_hash, issued>>

FileStep(w) ==
    OpenEvent(w) \/ DumpEvent(w) \/ OpenLastHash(w) \/ WriteLastHash(w)

StoreNext ==
    \E w \in Writers :
        \/ \E e \in EventIds, d \in Payloads : ReadLastHash(w, e, d)
        \/ FileStep(w)
        \/ AbortSave(w)

StoreSpec == StoreInit /\ [][StoreNext]_storeVars

-----------------------------------------------------------------------------

\* The hashes that get_audit_events shows.
StoredHashes == {audit_events[e].hash : e \in {x \in EventIds : IsRecord(x)}}

\* A predecessor the trail still shows, or the start of a trail.
Linked(h) == h \in Roots \cup StoredHashes

\* No record names a predecessor that is not in the trail, and neither will the
\* next one: whatever the interleaving of the processes and wherever a save is
\* cut short, last_audit_hash.txt is written after the record it stands for
\* (save_audit_event, lines 115-116).  Holds when event ids are not reused.
NoGap ==
    /\ Linked(last_audit_hash)
    /\ \A e \in EventIds : IsRecord(e) => Linked(audit_events[e].prev)

\* A record that has been written is never changed or emptied again, whatever
\* other processes save at the same time, when event ids are not reused.
RecordsKept ==
    [][\A e \in EventIds : IsRecord(e) => audit_events'[e] = audit_events[e]]_storeVars

\* Two records of one process never name the same predecessor, although other
\* processes move last_audit_hash.txt back and forth in between: a fork has at
\* most one branch per process.  (A predecessor read while the file was
\* truncated is no predecessor.)  Holds of the processes whose saves are not cut
\* short, whatever is cut short in the others.
OwnBranch ==
    \A e, f \in EventIds :
        /\ IsRecord(e) /\ IsRecord(f)
        /\ audit_events[e].by = audit_events[f].by /\ audit_events[e].by \notin MayAbort
        /\ audit_events[e].prev = audit_events[f].prev
        /\ audit_events[e].prev # Truncated
        => e = f

-----------------------------------------------------------------------------

\* The chain the directory stands for.  A record is appended when its text
\* reaches the file; the tip is the record of the save in progress until that
\* save has written last_audit_hash.txt.
ChainRecords ==
    {[event |-> e, data |-> audit_events[e].data, prev |-> audit_events[e].prev,
      hash |-> audit_events[e].hash] : e \in {x \in EventIds : IsRecord(x)}}

Appended(w) == save[w].pc \in {"openLast", "writeLast"}

ChainTip ==
    IF \E w \in Writers : Appended(w)
    THEN save[CHOOSE w \in Writers : Appended(w)].hash
    ELSE last_audit_hash

Chain == INSTANCE HashChain WITH records <- ChainRecords, tip <- ChainTip

\* A single process that is not interrupted and never reuses an event id keeps
\* the trail README.md promises: save_audit_event implements HashChain.
KeepsChain == Chain!ChainSpec

\* The two promises of HashChain read off the directory itself, for any number
\* of processes: "each record includes the hash of its predecessor" in one line.
OneChain ==
    \A e, f \in EventIds :
        IsRecord(e) /\ IsRecord(f) /\ audit_events[e].prev = audit_events[f].prev
        => e = f

=============================================================================
