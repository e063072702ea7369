-------------------------- MODULE SafetyLoop_proofs --------------------------
(* Theorems about the audit store and about the safety loop that writes to it, *)
(* for every set of processes, event ids, contents, actions, impact scores and *)
(* addresses and every bound on the number of requests and saves.              *)
EXTENDS SafetyLoop, TLAPS

\* The types of save and audit_events are preserved by each file operation.
LEMMA StepTypes ==
  ASSUME TypeOK, StoreNext
  PROVE  TypeOK'
<1> USE AuditStoreAssumption DEF TypeOK, Roots, Genesis, Truncated, Hash, Files, Records,
        Absent, Blank, Garbled, Saves, Idle, Busy
<1>1. ASSUME NEW w \in Writers, NEW e \in EventIds, NEW d \in Payloads, ReadLastHash(w, e, d)
      PROVE  TypeOK'
  BY <1>1 DEF ReadLastHash
<1>2. ASSUME NEW w \in Writers, OpenEvent(w)
      PROVE  TypeOK'
  <2>1. save[w] \in Saves
    BY <1>2 DEF OpenEvent
  <2> QED
    BY <1>2, <2>1 DEF OpenEvent
<1>3. ASSUME NEW w \in Writers, DumpEvent(w)
      PROVE  TypeOK'
  <2>1. save[w] \in Saves
    BY <1>3 DEF DumpEvent
  <2>2. RecordOf(w) \in Records
    BY <2>1 DEF RecordOf
  <2> QED
    BY <1>3, <2>1, <2>2 DEF DumpEvent
<1>4. ASSUME NEW w \in Writers, OpenLastHash(w)
      PROVE  TypeOK'
  <2>1. save[w] \in Saves
    BY <1>4 DEF OpenLastHash
  <2> QED
    BY <1>4, <2>1 DEF OpenLastHash
<1>5. ASSUME NEW w \in Writers, WriteLastHash(w)
      PROVE  TypeOK'
  <2>1. save[w] \in Saves
    BY <1>5 DEF WriteLastHash
  <2> QED
    BY <1>5, <2>1 DEF WriteLastHash
<1>6. ASSUME NEW w \in Writers, AbortSave(w)
      PROVE  TypeOK'
  BY <1>6 DEF AbortSave
<1> QED
  BY <1>1, <1>2, <1>3, <1>4, <1>5, <1>6 DEF StoreNext, FileStep

\* Every reachable state is type correct.
THEOREM StoreTypeOK == StoreSpec => []TypeOK
<1>1. StoreInit => TypeOK
  BY AuditStoreAssumption DEF StoreInit, TypeOK, Roots, Files, Idle, Hash
<1>2. TypeOK /\ [StoreNext]_storeVars => TypeOK'
  BY StepTypes DEF TypeOK, storeVars, Busy
<1> QED
  BY <1>1, <1>2, PTL DEF StoreSpec

-----------------------------------------------------------------------------
(* No gap in the trail, when event ids are not reused.                        *)

\* A save in progress has its file for itself, and has left there what its
\* program counter says.
OwnsFile ==
    /\ \A v, w \in Writers :
          Busy(v) /\ Busy(w) /\ save[v].event = save[w].event => v = w
    /\ \A w \in Writers :
          /\ save[w].pc = "open" => audit_events[save[w].event].kind = "absent"
          /\ save[w].pc = "dump" => audit_events[save[w].event].kind = "blank"
          /\ Appended(w) => /\ IsRecord(save[w].event)
                            /\ audit_events[save[w].event].hash = save[w].hash

\* The predecessor a save in progress has read is in the trail.
SavesLinked == \A w \in Writers : Busy(w) => Linked(save[w].prev)

GapInv == TypeOK /\ OwnsFile /\ SavesLinked /\ NoGap

\* No step changes a record.
Kept == \A e \in EventIds : IsRecord(e) => audit_events'[e] = audit_events[e]

LEMMA KeptStep ==
  ASSUME TypeOK, OwnsFile, StoreNext
  PROVE  Kept
<1> USE DEF TypeOK, OwnsFile, Kept, IsRecord, Saves, Idle, Busy, Appended
<1>1. ASSUME NEW w \in Writers, OpenEvent(w)
      PROVE  Kept
  <2>1. save[w] \in Saves
    BY <1>1 DEF OpenEvent
  <2> QED
    BY <1>1, <2>1 DEF OpenEvent
<1>2. ASSUME NEW w \in Writers, DumpEvent(w)
      PROVE  Kept
  <2>1. save[w] \in Saves
    BY <1>2 DEF DumpEvent
  <2> QED
    BY <1>2, <2>1 DEF DumpEvent
<1>3. ASSUME NEW w \in Writers, AbortSave(w)
      PROVE  Kept
  <2>1. save[w] \in Saves
    BY <1>3 DEF AbortSave
  <2> QED
    BY <1>3, <2>1 DEF AbortSave
<1> QED
  BY <1>1, <1>2, <1>3 DEF StoreNext, FileStep, ReadLastHash, OpenLastHash, WriteLastHash

\* What is linked stays linked.
LEMMA LinkedKept ==
  ASSUME Kept, NEW h, Linked(h)
  PROVE  Linked(h)'
BY DEF Kept, Linked, StoredHashes, IsRecord

LEMMA OwnsFileStep ==
  ASSUME UniqueIds, TypeOK, OwnsFile, StoreNext
  PROVE  OwnsFile'
<1> USE DEF TypeOK, OwnsFile, IsRecord, Saves, Idle, Busy, Appended
<1>1. ASSUME NEW w \in Writers, NEW e \in EventIds, NEW d \in Payloads, ReadLastHash(w, e, d)
      PROVE  OwnsFile'
  BY <1>1 DEF ReadLastHash, FreshId
<1>2. ASSUME NEW w \in Writers, OpenEvent(w)
      PROVE  OwnsFile'
  <2>1. save[w] \in Saves
    BY <1>2 DEF OpenEvent
  <2> QED
    BY <1>2, <2>1 DEF OpenEvent, Blank
<1>3. ASSUME NEW w \in Writers, DumpEvent(w)
      PROVE  OwnsFile'
  <2>1. save[w] \in Saves
    BY <1>3 DEF DumpEvent
  <2> QED
    BY <1>3, <2>1 DEF DumpEvent, RecordOf
<1>4. ASSUME NEW w \in Writers, OpenLastHash(w)
      PROVE  OwnsFile'
  <2>1. save[w] \in Saves
    BY <1>4 DEF OpenLastHash
  <2> QED
    BY <1>4, <2>1 DEF OpenLastHash
<1>5. ASSUME NEW w \in Writers, WriteLastHash(w)
      PROVE  OwnsFile'
  BY <1>5 DEF WriteLastHash
<1>6. ASSUME NEW w \in Writers, AbortSave(w)
      PROVE  OwnsFile'
  <2>1. save[w] \in Saves
    BY <1>6 DEF AbortSave
  <2> QED
    BY <1>6, <2>1 DEF AbortSave
<1> QED
  BY <1>1, <1>2, <1>3, <1>4, <1>5, <1>6 DEF StoreNext, FileStep

\* The hashes that stay or come into play in a step are linked after it.
LEMMA NoGapStep ==
  ASSUME UniqueIds, GapInv, StoreNext
  PROVE  SavesLinked' /\ NoGap'
<1> USE DEF GapInv, TypeOK, IsRecord, Saves, Idle, Busy, Appended, SavesLinked, NoGap
<1>k. Kept /\ OwnsFile'
  BY KeptStep, OwnsFileStep
<1>l. ASSUME NEW h, Linked(h)
      PROVE  Linked(h)'
  BY <1>k, <1>l, LinkedKept
<1>1. ASSUME NEW w \in Writers, NEW e \in EventIds, NEW d \in Payloads, ReadLastHash(w, e, d)
      PROVE  SavesLinked' /\ NoGap'
  BY <1>1, <1>l DEF ReadLastHash
<1>2. ASSUME NEW w \in Writers, OpenEvent(w)
      PROVE  SavesLinked' /\ NoGap'
  <2>1. save[w] \in Saves
    BY <1>2 DEF OpenEvent
  <2> QED
    BY <1>2, <2>1, <1>l DEF OpenEvent, Blank
<1>3. ASSUME NEW w \in Writers, DumpEvent(w)
      PROVE  SavesLinked' /\ NoGap'
  <2>1. save[w] \in Saves
    BY <1>3 DEF DumpEvent
  <2> QED
    BY <1>3, <2>1, <1>l DEF DumpEvent, RecordOf, Garbled
<1>4. ASSUME NEW w \in Writers, OpenLastHash(w)
      PROVE  SavesLinked' /\ NoGap'
  <2>1. Linked(Truncated)'
    BY DEF Linked, Roots
  <2> QED
    BY <1>4, <2>1, <1>l DEF OpenLastHash
<1>5. ASSUME NEW w \in Writers, WriteLastHash(w)
      PROVE  SavesLinked' /\ NoGap'
  <2>1. Linked(save[w].hash)
    BY <1>5 DEF WriteLastHash, OwnsFile, Linked, StoredHashes
  <2> QED
    BY <1>5, <2>1, <1>l DEF WriteLastHash
<1>6. ASSUME NEW w \in Writers, AbortSave(w)
      PROVE  SavesLinked' /\ NoGap'
  <2>1. save[w] \in Saves
    BY <1>6 DEF AbortSave
  <2> QED
    BY <1>6, <2>1, <1>l DEF AbortSave, Garbled
<1> QED
  BY <1>1, <1>2, <1>3, <1>4, <1>5, <1>6 DEF StoreNext, FileStep

LEMMA GapInvariant == UniqueIds => (StoreSpec => []GapInv)
<1> SUFFICES ASSUME UniqueIds
             PROVE  StoreSpec => []GapInv
  OBVIOUS
<1>1. StoreInit => GapInv
  <2> SUFFICES ASSUME StoreInit
               PROVE  GapInv
    OBVIOUS
  <2>1. TypeOK
    BY AuditStoreAssumption DEF StoreInit, TypeOK, Roots, Files, Idle, Hash
  <2> QED
    BY <2>1 DEF StoreInit, GapInv, OwnsFile, SavesLinked, NoGap, Linked, Roots, Idle, Busy,
                Appended, IsRecord, Absent
<1>2. GapInv /\ [StoreNext]_storeVars => GapInv'
  <2>1. ASSUME GapInv, StoreNext
        PROVE  GapInv'
    BY <2>1, StepTypes, OwnsFileStep, NoGapStep DEF GapInv
  <2>2. ASSUME GapInv, UNCHANGED storeVars
        PROVE  GapInv'
    BY <2>2 DEF GapInv, TypeOK, OwnsFile, SavesLinked, NoGap, Linked, StoredHashes, Busy,
                Appended, IsRecord, storeVars
  <2> QED
    BY <2>1, <2>2
<1> QED
  BY <1>1, <1>2, PTL DEF StoreSpec

\* Whatever the number of processes, their interleaving and the saves that are
\* cut short, the trail has no gap as long as event ids are not reused.
THEOREM StoreNoGap == UniqueIds => (StoreSpec => []NoGap)
<1> SUFFICES ASSUME UniqueIds
             PROVE  StoreSpec => []NoGap
  OBVIOUS
<1>1. GapInv => NoGap
  BY DEF GapInv
<1> QED
  BY <1>1, GapInvariant, PTL

\* Under the same condition no record is ever changed.
THEOREM StoreKeepsRecords == UniqueIds => (StoreSpec => RecordsKept)
<1> SUFFICES ASSUME UniqueIds
             PROVE  StoreSpec => RecordsKept
  OBVIOUS
<1>1. GapInv /\ [StoreNext]_storeVars
        => [\A e \in EventIds : IsRecord(e) => audit_events'[e] = audit_events[e]]_storeVars
  BY KeptStep DEF GapInv, Kept
<1> QED
  BY <1>1, GapInvariant, PTL DEF StoreSpec, RecordsKept

-----------------------------------------------------------------------------
(* At most one branch per process whose saves are not cut short.              *)

\* The hashes in play are known ones, and the hash of a save in progress is
\* still its own: it is not the tip, nobody else has it, nobody has read it.
HashesInPlay ==
    /\ last_audit_hash <= issued
    /\ \A e \in EventIds : IsRecord(e) => audit_events[e].prev <= issued
    /\ \A w \in Writers : Busy(w) =>
          /\ save[w].hash <= issued
          /\ save[w].prev <= issued
          /\ save[w].hash # last_audit_hash
    /\ \A v, w \in Writers : Busy(v) /\ Busy(w) =>
          /\ save[v].hash = save[w].hash => v = w
          /\ save[v].hash # save[w].prev

\* A predecessor that has been used cannot be read again by the process that
\* used it: either it is not the tip and never will be, or that process has
\* not finished the save that used it.
Spent ==
    \A e \in EventIds : IsRecord(e) /\ audit_events[e].by \notin MayAbort =>
        \/ audit_events[e].prev = Truncated
        \/ /\ last_audit_hash # audit_events[e].prev
           /\ \A v \in Writers : Busy(v) => save[v].hash # audit_events[e].prev
        \/ LET w == audit_events[e].by
           IN  Busy(w) /\ save[w].hash = audit_events[e].hash
                       /\ save[w].prev = audit_events[e].prev

\* A process whose save in progress has read the predecessor of one of its
\* records is saving that very record.
SameSave ==
    \A e \in EventIds : \A w \in Writers :
        /\ IsRecord(e)
        /\ audit_events[e].by = w /\ w \notin MayAbort
        /\ Busy(w)
        /\ save[w].prev = audit_events[e].prev
        /\ save[w].prev # Truncated
        => Appended(w) /\ save[w].event = e

BranchInv == TypeOK /\ HashesInPlay /\ Spent /\ SameSave /\ OwnBranch

LEMMA BranchStep ==
  ASSUME BranchInv, StoreNext
  PROVE  BranchInv'
<1> USE AuditStoreAssumption DEF BranchInv, TypeOK, IsRecord, Saves, Records, Idle, Busy,
        Appended, Roots, Genesis, Truncated, Hash
<1>t. TypeOK'
  BY StepTypes
<1>1. ASSUME NEW w \in Writers, NEW e \in EventIds, NEW d \in Payloads, ReadLastHash(w, e, d)
      PROVE  BranchInv'
  <2> USE <1>1 DEF ReadLastHash
  <2>a. \A x \in EventIds : IsRecord(x) => audit_events[x].prev \in Int
    BY DEF Files, Absent, Blank, Garbled
  <2>b. \A v \in Writers : Busy(v) => save[v].hash \in Int /\ save[v].prev \in Int
    OBVIOUS
  <2>c. issued \in Int /\ last_audit_hash \in Int
    OBVIOUS
  <2>d. /\ \A v \in Writers \ {w} : save'[v] = save[v]
        /\ save'[w] = [pc |-> "open", event |-> e, data |-> d,
                       prev |-> last_audit_hash, hash |-> issued + 1]
    OBVIOUS
  <2>1. HashesInPlay'
    <3>1. (\A x \in EventIds : IsRecord(x) => audit_events[x].prev <= issued)'
      BY <2>a, <2>c DEF HashesInPlay
    <3>2. last_audit_hash' <= issued'
      BY <2>c DEF HashesInPlay
    <3>3. ASSUME NEW v \in Writers, Busy(v)'
          PROVE  (/\ save[v].hash <= issued
                  /\ save[v].prev <= issued
                  /\ save[v].hash # last_audit_hash)'
      BY <2>b, <2>c, <2>d, <3>3 DEF HashesInPlay
    <3>4. ASSUME NEW u \in Writers, NEW v \in Writers, Busy(u)', Busy(v)'
          PROVE  (/\ save[u].hash = save[v].hash => u = v
                  /\ save[u].hash # save[v].prev)'
      BY <2>b, <2>c, <2>d, <3>4 DEF HashesInPlay
    <3> QED
      BY <3>1, <3>2, <3>3, <3>4 DEF HashesInPlay
  <2>2. Spent'
    BY DEF Spent, HashesInPlay, Files, Absent, Blank, Garbled
  <2>3. SameSave'
    BY DEF SameSave, Spent
  <2>4. OwnBranch'
    BY DEF OwnBranch
  <2> QED
    BY <1>t, <2>1, <2>2, <2>3, <2>4
<1>2. ASSUME NEW w \in Writers, OpenEvent(w)
      PROVE  BranchInv'
  <2> USE <1>2 DEF OpenEvent, Blank
  <2>0. save[w] \in Saves
    OBVIOUS
  <2>1. HashesInPlay'
    BY <2>0 DEF HashesInPlay
  <2>2. Spent'
    BY <2>0 DEF Spent
  <2>3. SameSave'
    BY <2>0 DEF SameSave
  <2>4. OwnBranch'
    BY <2>0 DEF OwnBranch
  <2> QED
    BY <1>t, <2>1, <2>2, <2>3, <2>4
<1>3. ASSUME NEW w \in Writers, DumpEvent(w)
      PROVE  BranchInv'
  <2> USE <1>3 DEF DumpEvent, RecordOf, Garbled
  <2>0. save[w] \in Saves
    OBVIOUS
  <2>1. HashesInPlay'
    BY <2>0 DEF HashesInPlay
  <2>2. Spent'
    BY <2>0 DEF Spent
  <2>3. SameSave'
    BY <2>0 DEF SameSave
  <2>4. OwnBranch'
    BY <2>0 DEF OwnBranch, SameSave
  <2> QED
    BY <1>t, <2>1, <2>2, <2>3, <2>4
<1>4. ASSUME NEW w \in Writers, OpenLastHash(w)
      PROVE  BranchInv'
  <2> USE <1>4 DEF OpenLastHash
  <2>0. save[w] \in Saves
    OBVIOUS
  <2>1. HashesInPlay'
    BY <2>0 DEF HashesInPlay
  <2>2. Spent'
    BY <2>0 DEF Spent
  <2>3. SameSave'
    BY <2>0 DEF SameSave
  <2>4. OwnBranch'
    BY <2>0 DEF OwnBranch
  <2> QED
    BY <1>t, <2>1, <2>2, <2>3, <2>4
<1>5. ASSUME NEW w \in Writers, WriteLastHash(w)
      PROVE  BranchInv'
  <2> USE <1>5 DEF WriteLastHash
  <2>0. save[w] \in Saves
    OBVIOUS
  <2>1. HashesInPlay'
    BY <2>0 DEF HashesInPlay
  <2>2. Spent'
    BY <2>0 DEF Spent, HashesInPlay
  <2>3. SameSave'
    BY <2>0 DEF SameSave
  <2>4. OwnBranch'
    BY <2>0 DEF OwnBranch
  <2> QED
    BY <1>t, <2>1, <2>2, <2>3, <2>4
<1>6. ASSUME NEW w \in Writers, AbortSave(w)
      PROVE  BranchInv'
  <2> USE <1>6 DEF AbortSave, Garbled
  <2>0. save[w] \in Saves
    OBVIOUS
  <2>1. HashesInPlay'
    BY <2>0 DEF HashesInPlay
  <2>2. Spent'
    BY <2>0 DEF Spent
  <2>3. SameSave'
    BY <2>0 DEF SameSave
  <2>4. OwnBranch'
    BY <2>0 DEF OwnBranch
  <2> QED
    BY <1>t, <2>1, <2>2, <2>3, <2>4
<1> QED
  BY <1>1, <1>2, <1>3, <1>4, <1>5, <1>6 DEF StoreNext, FileStep

LEMMA BranchInvariant == StoreSpec => []BranchInv
<1>1. StoreInit => BranchInv
  <2> SUFFICES ASSUME StoreInit
               PROVE  BranchInv
    OBVIOUS
  <2>1. TypeOK
    BY AuditStoreAssumption DEF StoreInit, TypeOK, Roots, Files, Idle, Hash
  <2> QED
    BY <2>1 DEF StoreInit, BranchInv, HashesInPlay, Spent, SameSave, OwnBranch, Idle, Busy,
                IsRecord, Absent, Genesis
<1>2. BranchInv /\ [StoreNext]_storeVars => BranchInv'
  <2>1. ASSUME BranchInv, UNCHANGED storeVars
        PROVE  BranchInv'
    BY <2>1 DEF BranchInv, TypeOK, HashesInPlay, Spent, SameSave, OwnBranch, Busy,
                Appended, IsRecord, storeVars
  <2> QED
    BY <2>1, BranchStep
<1> QED
  BY <1>1, <1>2, PTL DEF StoreSpec

\* However the saves of several processes interleave, and even when event ids
\* are reused, no process forks its own branch of the trail unless a save of
\* its own has been cut short.
THEOREM StoreOwnBranch == StoreSpec => []OwnBranch
<1>1. BranchInv => OwnBranch
  BY DEF BranchInv
<1> QED
  BY <1>1, BranchInvariant, PTL

-----------------------------------------------------------------------------
(* A single process that is not interrupted keeps the chain of HashChain.     *)

SingleProcess ==
    /\ UniqueIds
    /\ MayAbort = {}
    /\ \A v, w \in Writers : v = w

\* Until the record of the save in progress is written, the tip is still the
\* predecessor that save has read, and its hash is later than all others.  The
\* tip is truncated only by a save that has yet to write it.
TipRead ==
    /\ \A e \in EventIds : IsRecord(e) => audit_events[e].hash <= issued
    /\ \A w \in Writers : save[w].pc \in {"open", "dump"} =>
          /\ save[w].prev = last_audit_hash
          /\ \A e \in EventIds : IsRecord(e) => audit_events[e].hash < save[w].hash
    /\ \A w \in Writers : Busy(w) => save[w].hash <= issued
    /\ last_audit_hash = Truncated => \E w \in Writers : save[w].pc = "writeLast"

\* So that nobody has read it truncated.
NeverTruncated ==
    /\ \A e \in EventIds : IsRecord(e) => audit_events[e].prev # Truncated
    /\ \A w \in Writers : Busy(w) => save[w].prev # Truncated

SingleInv == GapInv /\ TipRead /\ NeverTruncated

LEMMA SingleStep ==
  ASSUME SingleProcess, SingleInv, StoreNext
  PROVE  SingleInv'
<1> USE AuditStoreAssumption DEF SingleProcess, SingleInv, IsRecord, Saves, Idle, Busy,
        Roots, Genesis, Truncated, Hash
<1>t. TypeOK /\ GapInv'
  BY StepTypes, OwnsFileStep, NoGapStep DEF GapInv
<1>h. \A x \in EventIds : IsRecord(x) => audit_events[x].hash \in Int
  BY <1>t DEF TypeOK, Files, Records, Absent, Blank, Garbled
<1>1. ASSUME NEW w \in Writers, NEW e \in EventIds, NEW d \in Payloads, ReadLastHash(w, e, d)
      PROVE  SingleInv'
  <2> USE <1>1 DEF ReadLastHash
  <2>1. issued \in Int
    BY <1>t DEF TypeOK
  <2>2. /\ \A v \in Writers : v = w
        /\ save'[w] = [pc |-> "open", event |-> e, data |-> d,
                       prev |-> last_audit_hash, hash |-> issued + 1]
    BY <1>t DEF TypeOK
  <2>3. TipRead'
    BY <1>h, <2>1, <2>2 DEF TipRead
  <2>4. NeverTruncated'
    BY <2>2 DEF TipRead, NeverTruncated
  <2> QED
    BY <1>t, <2>3, <2>4
<1>2. ASSUME NEW w \in Writers, OpenEvent(w)
      PROVE  SingleInv'
  <2> USE <1>2 DEF OpenEvent, Blank
  <2>0. save[w] \in Saves
    BY <1>t DEF TypeOK
  <2>3. TipRead'
    BY <1>t, <2>0 DEF TipRead, TypeOK
  <2>4. NeverTruncated'
    BY <1>t, <2>0 DEF NeverTruncated, TypeOK
  <2> QED
    BY <1>t, <2>3, <2>4
<1>3. ASSUME NEW w \in Writers, DumpEvent(w)
      PROVE  SingleInv'
  <2> USE <1>3 DEF DumpEvent, RecordOf, Garbled
  <2>0. save[w] \in Saves
    BY <1>t DEF TypeOK
  <2>3. TipRead'
    BY <1>t, <2>0 DEF TipRead, TypeOK
  <2>4. NeverTruncated'
    BY <1>t, <2>0 DEF NeverTruncated, TypeOK
  <2> QED
    BY <1>t, <2>3, <2>4
<1>4. ASSUME NEW w \in Writers, OpenLastHash(w)
      PROVE  SingleInv'
  <2> USE <1>4 DEF OpenLastHash
  <2>0. save[w] \in Saves
    BY <1>t DEF TypeOK
  <2>3. TipRead'
    BY <1>t, <2>0 DEF TipRead, TypeOK
  <2>4. NeverTruncated'
    BY <1>t, <2>0 DEF NeverTruncated, TypeOK
  <2> QED
    BY <1>t, <2>3, <2>4
<1>5. ASSUME NEW w \in Writers, WriteLastHash(w)
      PROVE  SingleInv'
  <2> USE <1>5 DEF WriteLastHash
  <2>0. save[w] \in Saves
    BY <1>t DEF TypeOK
  <2>3. TipRead'
    BY <1>t, <2>0 DEF TipRead, TypeOK
  <2>4. NeverTruncated'
    BY <1>t, <2>0 DEF NeverTruncated, TypeOK
  <2> QED
    BY <1>t, <2>3, <2>4
<1> QED
  BY <1>1, <1>2, <1>3, <1>4, <1>5 DEF StoreNext, FileStep, AbortSave

LEMMA SingleInvariant == SingleProcess => (StoreSpec => []SingleInv)
<1> SUFFICES ASSUME SingleProcess
             PROVE  StoreSpec => []SingleInv
  OBVIOUS
<1>1. StoreInit /\ GapInv => SingleInv
  BY AuditStoreAssumption DEF StoreInit, SingleInv, TipRead, NeverTruncated, Idle, Busy,
     IsRecord, Absent, Genesis, Truncated
<1>2. SingleInv /\ [StoreNext]_storeVars /\ GapInv' => SingleInv'
  <2>1. ASSUME SingleInv, GapInv', UNCHANGED storeVars
        PROVE  SingleInv'
    BY <2>1 DEF SingleInv, TipRead, NeverTruncated, Busy, IsRecord, storeVars
  <2> QED
    BY <2>1, SingleStep
<1>3. UniqueIds
  BY DEF SingleProcess
<1>4. StoreSpec => []GapInv
  BY <1>3, GapInvariant
<1> QED
  BY <1>1, <1>2, <1>4, PTL DEF StoreSpec

\* A single process, not interrupted, never forks the trail.
THEOREM StoreOneChain == SingleProcess => (StoreSpec => []OneChain)
<1> SUFFICES ASSUME SingleProcess
             PROVE  StoreSpec => []OneChain
  OBVIOUS
<1>1. BranchInv /\ SingleInv => OneChain
  BY DEF BranchInv, SingleInv, SingleProcess, OwnBranch, OneChain, NeverTruncated, TypeOK,
         IsRecord, Files, Records, Absent, Blank, Garbled
<1>2. StoreSpec => []BranchInv
  BY BranchInvariant DEF SingleProcess
<1>3. StoreSpec => []SingleInv
  BY SingleInvariant
<1> QED
  BY <1>1, <1>2, <1>3, PTL

\* Seen as a chain, a file step of a single process appends a record or leaves
\* the chain as it was.
LEMMA ChainStepMaps ==
  ASSUME SingleProcess, SingleInv, [StoreNext]_storeVars
  PROVE  [Chain!ChainNext]_(Chain!chainVars)
<1> USE AuditStoreAssumption DEF SingleProcess, SingleInv, GapInv, IsRecord, Idle, Busy,
        Appended, Chain!chainVars
<1>0. ASSUME NEW w \in Writers, Busy(w)
      PROVE  save[w] \in Saves
  BY <1>0 DEF TypeOK
<1>u. \A w \in Writers : (\E v \in Writers : Appended(v)) => ChainTip = save[w].hash
  BY DEF ChainTip
<1>v. \A w \in Writers : (\E v \in Writers : Appended(v))' => ChainTip' = save'[w].hash
  BY DEF ChainTip
<1>1. ASSUME NEW w \in Writers, NEW e \in EventIds, NEW d \in Payloads, ReadLastHash(w, e, d)
      PROVE  UNCHANGED Chain!chainVars
  <2>1. ~(\E v \in Writers : Appended(v)) /\ ~(\E v \in Writers : Appended(v))'
    BY <1>1 DEF ReadLastHash, TypeOK
  <2> QED
    BY <1>1, <2>1 DEF ReadLastHash, ChainRecords, ChainTip
<1>2. ASSUME NEW w \in Writers, OpenEvent(w)
      PROVE  UNCHANGED Chain!chainVars
  <2>1. save[w] \in Saves
    BY <1>0, <1>2 DEF OpenEvent
  <2>2. ~(\E v \in Writers : Appended(v)) /\ ~(\E v \in Writers : Appended(v))'
    BY <1>2, <2>1 DEF OpenEvent, TypeOK
  <2>3. ChainTip' = ChainTip
    BY <1>2, <2>2 DEF OpenEvent, ChainTip
  <2>4. \A e \in EventIds : /\ IsRecord(e) <=> IsRecord(e)'
                            /\ IsRecord(e) => audit_events'[e] = audit_events[e]
    BY <1>2, <2>1 DEF OpenEvent, TypeOK, OwnsFile, Blank, Saves
  <2>5. ChainRecords' = ChainRecords
    BY <2>4 DEF ChainRecords
  <2> QED
    BY <2>3, <2>5
<1>3. ASSUME NEW w \in Writers, DumpEvent(w)
      PROVE  Chain!ChainNext
  <2> DEFINE s == save[w]
             new == [event |-> s.event, data |-> s.data, prev |-> s.prev, hash |-> s.hash]
  <2>1. /\ s \in Saves
        /\ s.pc = "dump"
        /\ audit_events[s.event].kind = "blank"
        /\ audit_events' = [audit_events EXCEPT ![s.event] = RecordOf(w)]
    BY <1>0, <1>3 DEF DumpEvent, OwnsFile
  <2>2. ChainTip = s.prev
    <3>1. ~(\E v \in Writers : Appended(v))
      BY <2>1
    <3> QED
      BY <2>1, <3>1 DEF ChainTip, TipRead
  <2>3. ChainTip' = s.hash
    <3>1. Appended(w)' /\ save'[w].hash = s.hash
      BY <1>3, <2>1 DEF DumpEvent, TypeOK, Saves
    <3> QED
      BY <3>1, <1>v
  <2>4. /\ audit_events'[s.event].kind = "record" /\ ~IsRecord(s.event)
        /\ audit_events'[s.event] = RecordOf(w)
        /\ \A e \in EventIds \ {s.event} : audit_events'[e] = audit_events[e]
    <3>1. audit_events \in [EventIds -> Files] /\ s.event \in EventIds
      BY <2>1 DEF TypeOK, Saves
    <3>2. audit_events'[s.event] = RecordOf(w)
      BY <2>1, <3>1
    <3>3. RecordOf(w).kind = "record"
      BY DEF RecordOf
    <3>4. \A e \in EventIds \ {s.event} : audit_events'[e] = audit_events[e]
      BY <2>1, <3>1
    <3> QED
      BY <2>1, <3>2, <3>3, <3>4
  <2>5. ChainRecords' = ChainRecords \cup {new}
    BY <2>1, <2>4 DEF ChainRecords, RecordOf, Saves
  <2>6. \A r \in ChainRecords : r.event # s.event /\ r.hash < s.hash
    BY <2>1, <2>4 DEF ChainRecords, TipRead
  <2>7. s.event \in EventIds /\ s.data \in Payloads /\ s.hash \in Hash
    BY <2>1 DEF Saves
  <2>8. Chain!AppendRecord(s.event, s.data, s.hash)
    BY <2>2, <2>3, <2>5, <2>6 DEF Chain!AppendRecord
  <2> QED
    BY <2>7, <2>8 DEF Chain!ChainNext
<1>4. ASSUME NEW w \in Writers, OpenLastHash(w)
      PROVE  UNCHANGED Chain!chainVars
  <2>1. save[w] \in Saves
    BY <1>0, <1>4 DEF OpenLastHash
  <2>2. Appended(w) /\ Appended(w)' /\ save'[w].hash = save[w].hash
    BY <1>4, <2>1 DEF OpenLastHash, TypeOK, Saves
  <2> QED
    BY <1>4, <2>2, <1>u, <1>v DEF OpenLastHash, ChainRecords
<1>5. ASSUME NEW w \in Writers, WriteLastHash(w)
      PROVE  UNCHANGED Chain!chainVars
  <2>1. Appended(w) /\ ~(\E v \in Writers : Appended(v))'
    BY <1>5 DEF WriteLastHash, TypeOK
  <2>2. ChainTip = save[w].hash
    BY <2>1, <1>u
  <2>3. ChainTip' = save[w].hash
    BY <1>5, <2>1 DEF WriteLastHash, ChainTip
  <2> QED
    BY <1>5, <2>2, <2>3 DEF WriteLastHash, ChainRecords
<1>6. CASE UNCHANGED storeVars
  BY <1>6 DEF storeVars, ChainRecords, ChainTip
<1> QED
  BY <1>1, <1>2, <1>3, <1>4, <1>5, <1>6 DEF StoreNext, FileStep, AbortSave

\* A single process, not interrupted, implements the append-only chain that the
\* documentation describes.
THEOREM StoreKeepsChain == SingleProcess => (StoreSpec => KeepsChain)
<1> SUFFICES ASSUME SingleProcess
             PROVE  StoreSpec => KeepsChain
  OBVIOUS
<1>1. StoreInit => Chain!ChainInit
  BY DEF StoreInit, Chain!ChainInit, ChainRecords, ChainTip, IsRecord, Absent, Idle,
         Appended, Genesis, Chain!Genesis
<1>2. SingleInv /\ [StoreNext]_storeVars => [Chain!ChainNext]_(Chain!chainVars)
  BY ChainStepMaps
<1>3. StoreSpec => []SingleInv
  BY SingleInvariant
<1> QED
  BY <1>1, <1>2, <1>3, PTL DEF StoreSpec, KeepsChain, Chain!ChainSpec

-----------------------------------------------------------------------------
(* The safety loop.                                                        *)

LEMMA EventIdsOfLoop ==
  /\ \A a \in Actions : <<"enf", a>> \in EventIds /\ <<"decision", a>> \in EventIds
  /\ \A n \in ScoreIds : <<"score", n>> \in EventIds
  /\ FALSE \in Payloads /\ TRUE \in Payloads
  /\ \A b \in BOOLEAN : b \in Payloads
  /\ \A score : ThresholdMet(score) \in Payloads
  /\ \A sre, database \in BOOLEAN : Validate(sre, database) \in Payloads
<1>1. (\A a \in Actions : <<"enf", a>> \in EventIds /\ <<"decision", a>> \in EventIds)
        /\ (\A n \in ScoreIds : <<"score", n>> \in EventIds)
  BY SafetyLoopAssumption
<1>2. Payloads = BOOLEAN
  BY SafetyLoopAssumption
<1>3. FALSE \in BOOLEAN /\ TRUE \in BOOLEAN
  OBVIOUS
<1>4. \A score : ThresholdMet(score) \in BOOLEAN
  BY SMT DEF ThresholdMet
<1>5. \A sre, database \in BOOLEAN : Validate(sre, database) \in BOOLEAN
  BY Zenon DEF Validate
<1> QED
  BY <1>1, <1>2, <1>3, <1>4, <1>5, Zenon

\* Every save of the loop begins with a read of the last hash.
LEMMA SaveBegins ==
  ASSUME NEW w \in Writers, NEW e \in EventIds, NEW d \in Payloads, ReadLastHash(w, e, d)
  PROVE  StoreNext
BY DEF StoreNext

\* What a step of the loop does to the files is a step of the store.
LEMMA LoopStepIsStoreStep ==
  ASSUME LoopTypeOK, [Next]_vars
  PROVE  [StoreNext]_storeVars
<1> USE DEF LoopTypeOK, Request, NoRequest
<1>0. ASSUME NEW w \in Writers, loop[w].phase # "idle"
      PROVE  loop[w].action \in Actions /\ loop[w] \in Request
  BY <1>0
<1>1. ASSUME NEW w \in Writers, Submit(w)
      PROVE  StoreNext
  <2>1. PICK a \in Actions, sre \in BOOLEAN, database \in BOOLEAN, valid \in BOOLEAN :
          \/ RecordAndReturn(w, NewRequest(a, FALSE, FALSE), FALSE, Denied)
          \/ ReadLastHash(w, <<"enf", a>>, Validate(sre, database))
    BY <1>1, Zenon DEF Submit
  <2>2. NewRequest(a, FALSE, FALSE).action = a
    BY DEF NewRequest
  <2>3. CASE RecordAndReturn(w, NewRequest(a, FALSE, FALSE), FALSE, Denied)
    BY <2>2, <2>3, EventIdsOfLoop, SaveBegins, Zenon DEF RecordAndReturn
  <2>4. CASE ReadLastHash(w, <<"enf", a>>, Validate(sre, database))
    BY <2>4, EventIdsOfLoop, SaveBegins, Zenon
  <2> QED
    BY <2>1, <2>3, <2>4, Zenon
<1>2. ASSUME NEW w \in Writers, Assess(w)
      PROVE  StoreNext
  <2>1. \/ ReadLastHash(w, <<"decision", loop[w].action>>, FALSE)
        \/ \E n \in ScoreIds, impact \in Impacts :
              ReadLastHash(w, <<"score", n>>, ThresholdMet(ActionScore(impact)))
    BY <1>2 DEF Assess, RecordAndReturn
  <2>2. loop[w].action \in Actions
    BY <1>0, <1>2 DEF Assess
  <2> QED
    BY <2>1, <2>2, EventIdsOfLoop, SaveBegins
<1>3. ASSUME NEW w \in Writers, Gate(w)
      PROVE  StoreNext
  <2>1. ReadLastHash(w, <<"decision", loop[w].action>>, ThresholdMet(loop[w].score))
    BY <1>3 DEF Gate, RecordAndReturn
  <2>2. loop[w].action \in Actions
    BY <1>0, <1>3 DEF Gate
  <2> QED
    BY <2>1, <2>2, EventIdsOfLoop, SaveBegins
<1>4. ASSUME NEW w \in Writers, Failure(w)
      PROVE  StoreNext
  <2>1. ReadLastHash(w, <<"decision", loop[w].action>>, FALSE)
    BY <1>4 DEF Failure
  <2>2. loop[w].action \in Actions
    BY <1>0, <1>4 DEF Failure
  <2> QED
    BY <2>1, <2>2, EventIdsOfLoop, SaveBegins
<1>5. ASSUME NEW w \in Writers,
             SaveStep(w) \/ Return(w) \/ SimulationRaises(w) \/ SaveRaises(w) \/ Crash(w)
      PROVE  [StoreNext]_storeVars
  BY <1>5 DEF SaveStep, Return, SimulationRaises, SaveRaises, Crash, StoreNext, storeVars
<1>6. CASE UNCHANGED vars
  BY <1>6 DEF vars, storeVars
<1> QED
  BY <1>1, <1>2, <1>3, <1>4, <1>5, <1>6 DEF Next, Work

\* The loop keeps the types of its own state.
LEMMA LoopStepTypes ==
  ASSUME LoopTypeOK, [Next]_vars
  PROVE  LoopTypeOK'
<1>a. /\ loop \in [Writers -> Request \cup {NoRequest}] /\ submitted \in SUBSET Actions
      /\ requests \in 0 .. MaxRequests /\ replies \subseteq Request
  BY DEF LoopTypeOK
<1>t. TypeOK'
  <2>1. TypeOK /\ [StoreNext]_storeVars
    BY LoopStepIsStoreStep DEF LoopTypeOK
  <2>2. CASE UNCHANGED storeVars
    BY <2>1, <2>2 DEF storeVars, TypeOK
  <2> QED
    BY <2>1, <2>2, StepTypes
<1>0. ASSUME NEW w \in Writers, loop[w].phase # "idle"
      PROVE  loop[w] \in Request
  BY <1>0, <1>a DEF NoRequest
<1>d. Denied \in Nat /\ TRUE \in BOOLEAN /\ FALSE \in BOOLEAN
  BY DEF Denied
<1>v. \A sre, database \in BOOLEAN : Validate(sre, database) \in BOOLEAN
  BY Zenon DEF Validate
<1>b. \A s : ThresholdMet(s) \in BOOLEAN
  BY SMT DEF ThresholdMet
\* A process gets a new request to work on, nothing else of the loop changes.
<1>l. ASSUME NEW w \in Writers, NEW r \in Request \cup {NoRequest},
             loop' = [loop EXCEPT ![w] = r], UNCHANGED <<submitted, requests, replies>>
      PROVE  LoopTypeOK'
  BY <1>a, <1>t, <1>l DEF LoopTypeOK
<1>r. ASSUME NEW w \in Writers, NEW r \in Request, NEW b \in BOOLEAN,
             NEW n \in Nat \cup {NoRisk}
      PROVE  [r EXCEPT !.phase = "record", !.is_authorized = b, !.risk_score = n] \in Request
  BY DEF Request
<1>1. ASSUME NEW w \in Writers, Submit(w)
      PROVE  LoopTypeOK'
  <2>1. PICK a \in Actions, sre \in BOOLEAN, database \in BOOLEAN, valid \in BOOLEAN :
          /\ submitted' = submitted \cup {a}
          /\ \/ RecordAndReturn(w, NewRequest(a, FALSE, FALSE), FALSE, Denied)
             \/ loop' = [loop EXCEPT ![w] = NewRequest(a, TRUE, Validate(sre, database))]
    BY <1>1, Zenon DEF Submit
  <2>2. \A b, policy \in BOOLEAN : NewRequest(a, b, policy) \in Request
    BY DEF NewRequest, Request, NoRisk
  <2>3. \E r \in Request : loop' = [loop EXCEPT ![w] = r]
    <3>1. CASE RecordAndReturn(w, NewRequest(a, FALSE, FALSE), FALSE, Denied)
      BY <1>d, <1>r, <2>2, <3>1 DEF RecordAndReturn
    <3>2. CASE loop' = [loop EXCEPT ![w] = NewRequest(a, TRUE, Validate(sre, database))]
      BY <1>d, <1>v, <2>2, <3>2, Zenon
    <3> QED
      BY <2>1, <3>1, <3>2
  <2>4. /\ requests' \in 0 .. MaxRequests /\ UNCHANGED replies
        /\ submitted' \in SUBSET Actions
    BY <1>1, <1>a, <2>1, SafetyLoopAssumption DEF Submit
  <2> QED
    BY <1>a, <1>t, <2>3, <2>4 DEF LoopTypeOK
<1>2. ASSUME NEW w \in Writers, NEW b \in BOOLEAN, NEW n \in Nat \cup {NoRisk},
             loop[w] \in Request, RecordAndReturn(w, loop[w], b, n),
             UNCHANGED <<submitted, requests, replies>>
      PROVE  LoopTypeOK'
  BY <1>l, <1>r, <1>2 DEF RecordAndReturn
<1>3. ASSUME NEW w \in Writers, Assess(w)
      PROVE  LoopTypeOK'
  <2>1. loop[w] \in Request
    BY <1>0, <1>3 DEF Assess
  <2>2. \A impact \in Impacts : ActionScore(impact) \in Nat
    BY SafetyLoopAssumption DEF ActionScore
  <2>3. UNCHANGED <<submitted, requests, replies>>
    BY <1>3 DEF Assess
  <2>4. CASE RecordAndReturn(w, loop[w], FALSE, Denied)
    BY <1>2, <1>d, <2>1, <2>3, <2>4
  <2>5. ASSUME NEW n \in Nat,
               loop' = [loop EXCEPT ![w] = [@ EXCEPT !.phase = "score", !.funds = TRUE,
                                                     !.score = n]]
        PROVE  LoopTypeOK'
    <3>1. [loop[w] EXCEPT !.phase = "score", !.funds = TRUE, !.score = n] \in Request
      BY <2>1 DEF Request
    <3> QED
      BY <1>l, <2>3, <2>5, <3>1
  <2> QED
    BY <1>3, <2>2, <2>4, <2>5 DEF Assess
<1>4. ASSUME NEW w \in Writers, Gate(w)
      PROVE  LoopTypeOK'
  <2>1. loop[w] \in Request
    BY <1>0, <1>4 DEF Gate
  <2>2. loop[w].score \in Nat \cup {NoRisk}
    BY <2>1 DEF Request
  <2> QED
    BY <1>2, <1>4, <1>b, <2>1, <2>2 DEF Gate
<1>5. ASSUME NEW w \in Writers, SimulationRaises(w)
      PROVE  LoopTypeOK'
  <2>1. loop[w] \in Request
    BY <1>0, <1>5 DEF SimulationRaises
  <2>2. [loop[w] EXCEPT !.phase = "failing", !.funds = TRUE, !.raised = TRUE] \in Request
    BY <2>1 DEF Request
  <2> QED
    BY <1>5, <1>l, <2>2 DEF SimulationRaises
<1>6. ASSUME NEW w \in Writers, Failure(w)
      PROVE  LoopTypeOK'
  <2>1. loop[w] \in Request
    BY <1>0, <1>6 DEF Failure
  <2>2. [loop[w] EXCEPT !.phase = "failure", !.is_authorized = FALSE,
                        !.risk_score = Denied] \in Request
    BY <1>d, <2>1 DEF Request
  <2> QED
    BY <1>6, <1>l, <2>2 DEF Failure
<1>7. ASSUME NEW w \in Writers, Return(w)
      PROVE  LoopTypeOK'
  <2>1. loop[w] \in Request
    BY <1>0, <1>7 DEF Return
  <2> QED
    BY <1>7, <1>a, <1>t, <2>1 DEF Return, LoopTypeOK
<1>8. ASSUME NEW w \in Writers, SaveRaises(w)
      PROVE  LoopTypeOK'
  <2>1. loop[w] \in Request
    BY <1>8, <1>a DEF SaveRaises
  <2>2. [loop[w] EXCEPT !.is_authorized = FALSE, !.risk_score = NoRisk] \in Request
    BY <2>1 DEF Request
  <2>3. [loop[w] EXCEPT !.phase = "failing", !.raised = TRUE] \in Request
    BY <2>1 DEF Request
  <2> QED
    BY <1>8, <1>a, <1>t, <2>2, <2>3 DEF SaveRaises, LoopTypeOK
<1>9. ASSUME NEW w \in Writers, Crash(w) \/ SaveStep(w)
      PROVE  LoopTypeOK'
  BY <1>9, <1>a, <1>t DEF Crash, SaveStep, loopVars, LoopTypeOK
<1>10. CASE UNCHANGED vars
  BY <1>10, <1>a, <1>t DEF vars, loopVars, LoopTypeOK
<1> QED
  BY <1>1, <1>3, <1>4, <1>5, <1>6, <1>7, <1>8, <1>9, <1>10 DEF Next, Work

\* Every reachable state of the loop is type correct.
THEOREM LoopTypes == Spec => []LoopTypeOK
<1>1. Init => LoopTypeOK
  BY SafetyLoopAssumption, AuditStoreAssumption
     DEF Init, StoreInit, LoopTypeOK, TypeOK, Files, Roots
<1> QED
  BY <1>1, LoopStepTypes, PTL DEF Spec

\* The loop with its callers uses the store as AuditStore describes: what is
\* proved of every user of the store holds of the safety loop.
THEOREM LoopImplementsStore == Spec => StoreSpec
<1>1. Init => StoreInit
  BY DEF Init
<1>2. LoopTypeOK /\ [Next]_vars => [StoreNext]_storeVars
  BY LoopStepIsStoreStep
<1> QED
  BY <1>1, <1>2, LoopTypes, PTL DEF Spec, StoreSpec

\* Two records of one process never name the same predecessor, for the saves of
\* the safety loop, unless a save of that process has been cut short.
THEOREM LoopOwnBranch == Spec => []OwnBranch
  BY LoopImplementsStore, StoreOwnBranch, PTL

-----------------------------------------------------------------------------
(* Default deny.                                                              *)

Checked(r) ==
    /\ r.identity /\ r.policy /\ r.funds
    /\ r.score # NoRisk /\ ThresholdMet(r.score)
    /\ ~r.raised

\* What the loop knows of a request in each phase: a check is only begun when
\* the ones before it passed, and the response is computed from all of them.
InPhase(r) ==
    /\ r.phase = "policy" => ~r.raised /\ (r.policy => r.identity)
    /\ r.phase = "score" => /\ r.identity /\ r.policy /\ r.funds
                            /\ r.score # NoRisk /\ ~r.raised
    /\ r.phase = "record" => /\ r.is_authorized => Checked(r)
                             /\ ~r.is_authorized => r.risk_score > 850
    /\ r.phase = "failure" => ~r.is_authorized /\ r.risk_score > 850

\* An answer that has left the loop.
Answer(r) ==
    /\ r.is_authorized => Checked(r)
    /\ ~r.is_authorized => r.risk_score = NoRisk \/ r.risk_score > 850

CheckInv ==
    /\ \A w \in Writers : loop[w] # NoRequest => InPhase(loop[w])
    /\ \A r \in replies : Answer(r)

LEMMA CheckStep ==
  ASSUME LoopTypeOK, CheckInv, [Next]_vars
  PROVE  CheckInv'
<1>a. /\ loop \in [Writers -> Request \cup {NoRequest}]
      /\ \A w \in Writers : loop[w] # NoRequest => InPhase(loop[w])
      /\ \A r \in replies : Answer(r)
  BY DEF LoopTypeOK, CheckInv
<1>0. ASSUME NEW w \in Writers, loop[w].phase # "idle"
      PROVE  loop[w] \in Request /\ InPhase(loop[w])
  BY <1>0, <1>a DEF NoRequest
\* A process goes on with a request of which the loop knows what its phase says.
<1>l. ASSUME NEW w \in Writers, NEW r, r = NoRequest \/ InPhase(r),
             loop' = [loop EXCEPT ![w] = r], UNCHANGED replies
      PROVE  CheckInv'
  BY <1>a, <1>l DEF CheckInv
\* A denial by the loop.
<1>d. ASSUME NEW w \in Writers, NEW r \in Request, RecordAndReturn(w, r, FALSE, Denied),
             UNCHANGED replies
      PROVE  CheckInv'
  <2> DEFINE s == [r EXCEPT !.phase = "record", !.is_authorized = FALSE, !.risk_score = Denied]
  <2>1. s.phase = "record" /\ ~s.is_authorized /\ s.risk_score > 850
    BY DEF Request, Denied
  <2>2. InPhase(s)
    BY <2>1 DEF InPhase
  <2> QED
    BY <1>d, <1>l, <2>2 DEF RecordAndReturn
<1>1. ASSUME NEW w \in Writers, Submit(w)
      PROVE  CheckInv'
  <2>1. PICK a \in Actions, sre \in BOOLEAN, database \in BOOLEAN, valid \in BOOLEAN :
          \/ RecordAndReturn(w, NewRequest(a, FALSE, FALSE), FALSE, Denied)
          \/ loop' = [loop EXCEPT ![w] = NewRequest(a, TRUE, Validate(sre, database))]
    BY <1>1, Zenon DEF Submit
  <2>2. UNCHANGED replies
    BY <1>1 DEF Submit
  <2>3. CASE RecordAndReturn(w, NewRequest(a, FALSE, FALSE), FALSE, Denied)
    <3>1. NewRequest(a, FALSE, FALSE) \in Request
      BY DEF NewRequest, Request, NoRisk
    <3> QED
      BY <1>d, <2>2, <2>3, <3>1
  <2>4. CASE loop' = [loop EXCEPT ![w] = NewRequest(a, TRUE, Validate(sre, database))]
    <3>1. InPhase(NewRequest(a, TRUE, Validate(sre, database)))
      BY DEF InPhase, NewRequest
    <3> QED
      BY <1>l, <2>2, <2>4, <3>1
  <2> QED
    BY <2>1, <2>3, <2>4
<1>2. ASSUME NEW w \in Writers, Assess(w)
      PROVE  CheckInv'
  <2>1. loop[w] \in Request /\ InPhase(loop[w]) /\ loop[w].phase = "policy"
    BY <1>0, <1>2 DEF Assess
  <2>2. UNCHANGED replies
    BY <1>2 DEF Assess
  <2>3. CASE RecordAndReturn(w, loop[w], FALSE, Denied)
    BY <1>d, <2>1, <2>2, <2>3
  <2>4. ASSUME NEW n \in Nat, loop[w].policy,
               loop' = [loop EXCEPT ![w] = [@ EXCEPT !.phase = "score", !.funds = TRUE,
                                                     !.score = n]]
        PROVE  CheckInv'
    <3> DEFINE s == [loop[w] EXCEPT !.phase = "score", !.funds = TRUE, !.score = n]
    <3>1. /\ s.phase = "score" /\ s.funds /\ s.score = n
          /\ s.policy = loop[w].policy /\ s.identity = loop[w].identity
          /\ s.raised = loop[w].raised
      BY <2>1 DEF Request
    <3>2. InPhase(s)
      BY <2>1, <2>4, <3>1 DEF InPhase, NoRisk
    <3> QED
      BY <1>l, <2>2, <2>4, <3>2
  <2>5. \A impact \in Impacts : ActionScore(impact) \in Nat
    BY SafetyLoopAssumption DEF ActionScore
  <2> QED
    BY <1>2, <2>3, <2>4, <2>5 DEF Assess
<1>3. ASSUME NEW w \in Writers, Gate(w)
      PROVE  CheckInv'
  <2> DEFINE authorized == ThresholdMet(loop[w].score)
             s == [loop[w] EXCEPT !.phase = "record", !.is_authorized = authorized,
                                  !.risk_score = loop[w].score]
  <2>1. loop[w] \in Request /\ InPhase(loop[w]) /\ loop[w].phase = "score"
    BY <1>0, <1>3 DEF Gate
  <2>2. loop[w].score \in Nat
    BY <2>1 DEF InPhase, Request
  <2>3. /\ s.phase = "record" /\ s.is_authorized = authorized /\ s.risk_score = loop[w].score
        /\ s.identity = loop[w].identity /\ s.policy = loop[w].policy
        /\ s.funds = loop[w].funds /\ s.score = loop[w].score /\ s.raised = loop[w].raised
    BY <2>1 DEF Request
  <2>4. InPhase(s)
    <3>1. CASE authorized
      BY <2>1, <2>2, <2>3, <3>1 DEF InPhase, Checked
    <3>2. CASE ~authorized
      <4>1. ~s.is_authorized
        BY <2>3, <3>2, Zenon
      <4>2. s.risk_score > 850
        BY <2>2, <2>3, <3>2 DEF ThresholdMet
      <4> QED
        BY <2>3, <4>1, <4>2 DEF InPhase
    <3> QED
      BY <3>1, <3>2
  <2> QED
    BY <1>3, <1>l, <2>4 DEF Gate, RecordAndReturn
<1>4. ASSUME NEW w \in Writers, SimulationRaises(w)
      PROVE  CheckInv'
  <2> DEFINE s == [loop[w] EXCEPT !.phase = "failing", !.funds = TRUE, !.raised = TRUE]
  <2>1. loop[w] \in Request
    BY <1>0, <1>4 DEF SimulationRaises
  <2>2. s.phase = "failing"
    BY <2>1 DEF Request
  <2>3. InPhase(s)
    BY <2>2 DEF InPhase
  <2> QED
    BY <1>4, <1>l, <2>3 DEF SimulationRaises
<1>5. ASSUME NEW w \in Writers, Failure(w)
      PROVE  CheckInv'
  <2> DEFINE s == [loop[w] EXCEPT !.phase = "failure", !.is_authorized = FALSE,
                                  !.risk_score = Denied]
  <2>1. loop[w] \in Request
    BY <1>0, <1>5 DEF Failure
  <2>2. s.phase = "failure" /\ ~s.is_authorized /\ s.risk_score > 850
    BY <2>1 DEF Request, Denied
  <2>3. InPhase(s)
    BY <2>2 DEF InPhase
  <2> QED
    BY <1>5, <1>l, <2>3 DEF Failure
<1>6. ASSUME NEW w \in Writers, Return(w)
      PROVE  CheckInv'
  <2>1. InPhase(loop[w]) /\ loop[w].phase \in {"record", "failure"}
    BY <1>0, <1>6 DEF Return
  <2>2. Answer(loop[w])
    BY <2>1 DEF InPhase, Answer
  <2> QED
    BY <1>6, <1>a, <2>2 DEF Return, CheckInv
<1>7. ASSUME NEW w \in Writers, SaveRaises(w)
      PROVE  CheckInv'
  <2>1. loop[w] \in Request
    BY <1>7, <1>a DEF SaveRaises
  <2>2. CASE loop[w].phase # "failure"
    <3> DEFINE s == [loop[w] EXCEPT !.phase = "failing", !.raised = TRUE]
    <3>1. s.phase = "failing"
      BY <2>1 DEF Request
    <3>2. InPhase(s)
      BY <3>1 DEF InPhase
    <3> QED
      BY <1>7, <1>l, <2>2, <3>2 DEF SaveRaises
  <2>3. CASE loop[w].phase = "failure"
    <3> DEFINE s == [loop[w] EXCEPT !.is_authorized = FALSE, !.risk_score = NoRisk]
    <3>1. ~s.is_authorized /\ s.risk_score = NoRisk
      BY <2>1 DEF Request
    <3>2. Answer(s)
      BY <3>1 DEF Answer
    <3> QED
      BY <1>7, <1>a, <2>3, <3>2 DEF SaveRaises, CheckInv
  <2> QED
    BY <2>2, <2>3
<1>8. ASSUME NEW w \in Writers, Crash(w) \/ SaveStep(w)
      PROVE  CheckInv'
  BY <1>8, <1>a DEF Crash, SaveStep, loopVars, CheckInv
<1>9. CASE UNCHANGED vars
  BY <1>9, <1>a DEF vars, loopVars, CheckInv
<1> QED
  BY <1>1, <1>2, <1>3, <1>4, <1>5, <1>6, <1>7, <1>8, <1>9 DEF Next, Work

LEMMA LoopChecks == Spec => []CheckInv
<1>1. Init => CheckInv
  BY DEF Init, CheckInv
<1> QED
  BY <1>1, LoopTypes, CheckStep, PTL DEF Spec

\* Default deny: an answer approves only when every check was run and passed and
\* nothing raised on the way, for any number of processes sharing the store,
\* wherever a save fails or a process is killed.
THEOREM LoopApprovesOnlyIfChecked == Spec => []ApprovedOnlyIfChecked
<1>1. CheckInv => ApprovedOnlyIfChecked
  BY DEF CheckInv, ApprovedOnlyIfChecked, Answer, Checked
<1> QED
  BY <1>1, LoopChecks, PTL

\* A circuit breaker whose threshold is at most that of the scoring module runs
\* nothing that the loop has not approved.
THEOREM LoopBreakerAgrees == Threshold <= 850 => (Spec => []BreakerAgrees)
<1> SUFFICES ASSUME Threshold <= 850
             PROVE  Spec => []BreakerAgrees
  OBVIOUS
<1>1. ASSUME LoopTypeOK, CheckInv
      PROVE  BreakerAgrees
  <2>1. ASSUME NEW r \in replies, r.risk_score # NoRisk, r.risk_score <= Threshold
        PROVE  r.is_authorized
    <3>1. r.risk_score \in Nat /\ Answer(r)
      BY <1>1, <2>1 DEF LoopTypeOK, Request, CheckInv
    <3> QED
      BY <1>1, <2>1, <3>1, SafetyLoopAssumption DEF Answer
  <2> QED
    BY <2>1 DEF BreakerAgrees, BreakerRuns, EnvoyForwards
<1> QED
  BY <1>1, LoopTypes, LoopChecks, PTL

-----------------------------------------------------------------------------
(* What the directory says of each action, when no action id is sent twice.   *)

Enf(a) == <<"enf", a>>
Decision(a) == <<"decision", a>>

Working(w) == loop[w] # NoRequest

\* The save of w has reached the event's file, if there is one in progress.
Written(w) == ~Busy(w) \/ Appended(w)

\* The save of w in progress is that of event e with verdict d.
Saving(w, e, d) ==
    /\ Busy(w) => save[w].event = e /\ save[w].data = d
    /\ save[w].pc = "dump" => audit_events[e] = Blank
    /\ Written(w) => Says(e, d)

\* The files of w's action, phase by phase.
PolicyFiles(w, r) ==
    /\ Saving(w, Enf(r.action), r.policy)
    /\ ~IsRecord(Decision(r.action))

ScoreFiles(w, r) ==
    /\ Busy(w) => save[w].event \in {"score"} \X ScoreIds
    /\ Says(Enf(r.action), TRUE)
    /\ ~IsRecord(Decision(r.action))

RecordFiles(w, r) ==
    /\ Saving(w, Decision(r.action), r.is_authorized)
    /\ r.is_authorized => /\ Says(Enf(r.action), TRUE)
                          /\ Busy(w) => audit_events[Enf(r.action)].hash < save[w].hash

FilesOf(w) ==
    /\ loop[w].phase = "policy" => PolicyFiles(w, loop[w])
    /\ loop[w].phase = "score" => ScoreFiles(w, loop[w])
    /\ loop[w].phase = "record" => RecordFiles(w, loop[w])
    /\ loop[w].phase = "failing" => ~Busy(w)
    /\ loop[w].phase = "failure" => /\ Saving(w, Decision(loop[w].action), FALSE)
                                    /\ ~loop[w].is_authorized

\* An approval of a on file is backed by its policy verdict.
Backed(a) ==
    Says(Decision(a), TRUE) =>
        Says(Enf(a), TRUE) /\ audit_events[Enf(a)].hash < audit_events[Decision(a)].hash

\* An answered request is out of the loop's hands, its decision on file.
Settled(r) ==
    /\ r.action \in submitted
    /\ \A w \in Writers : Working(w) => loop[w].action # r.action
    /\ r.risk_score # NoRisk => Says(Decision(r.action), r.is_authorized)

\* One process at most works on an action, and only on one that was sent.
OneWorker ==
    \A w \in Writers :
        IF Working(w)
        THEN /\ loop[w].action \in submitted
             /\ \A v \in Writers : Working(v) /\ loop[v].action = loop[w].action => v = w
        ELSE ~Busy(w)

HashesIssued ==
    /\ \A e \in EventIds : IsRecord(e) => audit_events[e].hash <= issued
    /\ \A w \in Writers : Busy(w) => save[w].hash <= issued

EvidenceInv ==
    /\ OneWorker
    /\ HashesIssued
    /\ \A a \in Actions \ submitted : ~IsRecord(Enf(a)) /\ ~IsRecord(Decision(a))
    /\ \A w \in Writers : Working(w) => FilesOf(w)
    /\ \A a \in Actions : Backed(a)
    /\ \A r \in replies : Settled(r)

LEMMA EventsDiffer ==
  ASSUME NEW a \in Actions
  PROVE  /\ Enf(a) \in EventIds /\ Decision(a) \in EventIds
         /\ \A b \in Actions : Enf(a) # Decision(b)
         /\ \A b \in Actions : b # a => Enf(a) # Enf(b) /\ Decision(a) # Decision(b)
         /\ \A e \in {"score"} \X ScoreIds : e # Enf(a) /\ e # Decision(a)
BY EventIdsOfLoop DEF Enf, Decision

LEMMA HashesIssuedStep ==
  ASSUME LoopTypeOK, HashesIssued, [Next]_vars
  PROVE  HashesIssued'
<1> USE AuditStoreAssumption DEF TypeOK, HashesIssued, IsRecord, Files, Saves, Records, Idle,
        Busy, Hash, Absent, Blank, Garbled
<1>1. TypeOK /\ [StoreNext]_storeVars
  BY LoopStepIsStoreStep DEF LoopTypeOK
<1>2. CASE UNCHANGED storeVars
  BY <1>2 DEF storeVars
<1>3. ASSUME NEW w \in Writers, NEW e \in EventIds, NEW d \in Payloads, ReadLastHash(w, e, d)
      PROVE  HashesIssued'
  BY <1>1, <1>3 DEF ReadLastHash
<1>4. ASSUME NEW w \in Writers, OpenEvent(w)
      PROVE  HashesIssued'
  BY <1>1, <1>4 DEF OpenEvent
<1>5. ASSUME NEW w \in Writers, DumpEvent(w)
      PROVE  HashesIssued'
  BY <1>1, <1>5 DEF DumpEvent, RecordOf
<1>6. ASSUME NEW w \in Writers, OpenLastHash(w) \/ WriteLastHash(w)
      PROVE  HashesIssued'
  BY <1>1, <1>6 DEF OpenLastHash, WriteLastHash
<1>7. ASSUME NEW w \in Writers, AbortSave(w)
      PROVE  HashesIssued'
  BY <1>1, <1>7 DEF AbortSave
<1> QED
  BY <1>1, <1>2, <1>3, <1>4, <1>5, <1>6, <1>7 DEF StoreNext, FileStep

\* What the other processes know of their files is not disturbed by a step of w,
\* which works on action a.
LEMMA OthersUndisturbed ==
  ASSUME LoopTypeOK, NEW v \in Writers, Working(v), FilesOf(v),
         loop'[v] = loop[v], save'[v] = save[v],
         audit_events'[Enf(loop[v].action)] = audit_events[Enf(loop[v].action)],
         audit_events'[Decision(loop[v].action)] = audit_events[Decision(loop[v].action)]
  PROVE  Working(v)' /\ FilesOf(v)'
<1> DEFINE r == loop[v]
<1>1. \A e, d : audit_events'[e] = audit_events[e] =>
                    /\ Saving(v, e, d) => Saving(v, e, d)'
                    /\ Says(e, d) => Says(e, d)'
                    /\ ~IsRecord(e) => ~IsRecord(e)'
  BY DEF Saving, Says, Written, Appended, Busy, IsRecord
<1>2. r' = r /\ (Busy(v)' <=> Busy(v))
  BY DEF Busy
<1>3. PolicyFiles(v, r) => PolicyFiles(v, r)'
  BY <1>1, <1>2 DEF PolicyFiles
<1>4. ScoreFiles(v, r) => ScoreFiles(v, r)'
  BY <1>1, <1>2 DEF ScoreFiles
<1>5. RecordFiles(v, r) => RecordFiles(v, r)'
  BY <1>1, <1>2 DEF RecordFiles
<1> QED
  BY <1>1, <1>2, <1>3, <1>4, <1>5 DEF FilesOf, Working

\* A step of w, which works on action a, keeps the invariant when it keeps the
\* part of it that speaks of w and of a.
LEMMA EvidenceFrame ==
  ASSUME LoopTypeOK, LoopTypeOK', EvidenceInv, HashesIssued',
         NEW w \in Writers, NEW a \in Actions,
         \A v \in Writers \ {w} : loop'[v] = loop[v] /\ save'[v] = save[v],
         \A b \in Actions \ {a} : /\ audit_events'[Enf(b)] = audit_events[Enf(b)]
                                  /\ audit_events'[Decision(b)] = audit_events[Decision(b)],
         submitted' = submitted \cup {a},
         \A v \in Writers \ {w} : Working(v) => loop[v].action # a,
         Working(w)' => loop'[w].action = a /\ FilesOf(w)',
         ~Working(w)' => ~Busy(w)',
         Backed(a)',
         \A r \in replies' : Settled(r)' \/ (r \in replies /\ r.action # a)
  PROVE  EvidenceInv'
<1>a. /\ \A v \in Writers : loop[v] \in Request \cup {NoRequest}
      /\ submitted \subseteq Actions /\ replies \subseteq Request
      /\ \A r \in Request : r.action \in Actions
  BY DEF LoopTypeOK, Request
<1>b. \A v \in Writers : Working(v) => loop[v].action \in Actions
  BY <1>a DEF Working
<1>i. /\ OneWorker
      /\ \A b \in Actions \ submitted : ~IsRecord(Enf(b)) /\ ~IsRecord(Decision(b))
      /\ \A v \in Writers : Working(v) => FilesOf(v)
      /\ \A b \in Actions : Backed(b)
      /\ \A r \in replies : Settled(r)
  BY DEF EvidenceInv
<1>1. \A v \in Writers \ {w} : /\ Working(v)' <=> Working(v)
                               /\ Busy(v)' <=> Busy(v)
                               /\ Working(v) => FilesOf(v)'
  BY <1>b, <1>i, OthersUndisturbed DEF Working, Busy
<1>2. OneWorker'
  BY <1>1, <1>i DEF OneWorker
<1>3. \A b \in Actions \ submitted' : ~IsRecord(Enf(b))' /\ ~IsRecord(Decision(b))'
  BY <1>i DEF IsRecord
<1>4. \A v \in Writers : Working(v)' => FilesOf(v)'
  BY <1>1
<1>5. \A b \in Actions : Backed(b)'
  <2>1. ASSUME NEW b \in Actions \ {a}
        PROVE  Backed(b)'
    BY <1>i DEF Backed, Says, IsRecord
  <2> QED
    BY <2>1
<1>6. ASSUME NEW r \in replies'
      PROVE  Settled(r)'
  <2>1. ASSUME r \in replies, r.action # a
        PROVE  Settled(r)'
    <3>1. Settled(r) /\ r.action \in Actions
      BY <1>a, <1>i, <2>1
    <3>2. audit_events'[Decision(r.action)] = audit_events[Decision(r.action)]
      BY <2>1, <3>1
    <3>3. \A v \in Writers : Working(v)' => loop'[v].action # r.action
      BY <1>1, <2>1, <3>1 DEF Settled
    <3>4. Says(Decision(r.action), r.is_authorized) => Says(Decision(r.action), r.is_authorized)'
      BY <3>2 DEF Says, IsRecord
    <3> QED
      BY <3>1, <3>3, <3>4 DEF Settled
  <2> QED
    BY <2>1
<1> QED
  BY <1>2, <1>3, <1>4, <1>5, <1>6 DEF EvidenceInv

\* What a process in the middle of a request knows.
LEMMA WorkerKnows ==
  ASSUME LoopTypeOK, EvidenceInv, NEW w \in Writers, Working(w)
  PROVE  /\ loop[w] \in Request /\ loop[w].action \in Actions /\ FilesOf(w)
         /\ submitted = submitted \cup {loop[w].action}
         /\ \A v \in Writers \ {w} : Working(v) => loop[v].action # loop[w].action
         /\ \A r \in replies : Settled(r) /\ r.action # loop[w].action
         /\ Backed(loop[w].action)
<1>1. loop[w] \in Request /\ loop[w].action \in Actions
  BY DEF LoopTypeOK, Working, Request
<1>2. OneWorker /\ FilesOf(w) /\ (\A r \in replies : Settled(r)) /\ Backed(loop[w].action)
  BY <1>1 DEF EvidenceInv
<1>3. loop[w].action \in submitted
  BY <1>2 DEF OneWorker
<1>4. \A v \in Writers \ {w} : Working(v) => loop[v].action # loop[w].action
  BY <1>2 DEF OneWorker
<1>5. \A r \in replies : r.action # loop[w].action
  BY <1>2 DEF Settled
<1> QED
  BY <1>1, <1>2, <1>3, <1>4, <1>5

\* The frame of EvidenceFrame for a step in the middle of a request.
LEMMA WorkFrame ==
  ASSUME LoopTypeOK, LoopTypeOK', EvidenceInv, HashesIssued',
         NEW w \in Writers, Working(w), NEW a, a = loop[w].action,
         \A v \in Writers \ {w} : loop'[v] = loop[v] /\ save'[v] = save[v],
         \A b \in Actions \ {a} : /\ audit_events'[Enf(b)] = audit_events[Enf(b)]
                                  /\ audit_events'[Decision(b)] = audit_events[Decision(b)],
         submitted' = submitted,
         Working(w)' => loop'[w].action = a /\ FilesOf(w)',
         ~Working(w)' => ~Busy(w)',
         Backed(a)',
         \A r \in replies' : r \in replies \/ Settled(r)'
  PROVE  EvidenceInv'
<1>1. /\ a \in Actions /\ submitted' = submitted \cup {a}
      /\ \A v \in Writers \ {w} : Working(v) => loop[v].action # a
      /\ \A r \in replies : r.action # a
  BY WorkerKnows
<1>2. \A r \in replies' : Settled(r)' \/ (r \in replies /\ r.action # a)
  BY <1>1
<1> QED
  BY <1>1, <1>2, EvidenceFrame

\* The save in progress is of a file of the process's own.
LEMMA OwnEvent ==
  ASSUME LoopTypeOK, EvidenceInv, NEW w \in Writers, Working(w), Busy(w)
  PROVE  /\ loop[w].phase \in {"policy", "score", "record", "failure"}
         /\ loop[w].phase = "policy" => save[w].event = Enf(loop[w].action)
         /\ loop[w].phase \in {"record", "failure"} =>
                save[w].event = Decision(loop[w].action)
         /\ loop[w].phase = "score" => save[w].event \in {"score"} \X ScoreIds
         /\ \A b \in Actions \ {loop[w].action} :
                save[w].event # Enf(b) /\ save[w].event # Decision(b)
<1>1. loop[w] \in Request /\ loop[w].action \in Actions /\ FilesOf(w)
  BY WorkerKnows
<1>2. loop[w].phase \in {"policy", "score", "record", "failing", "failure"}
  BY <1>1 DEF Request
<1>3. loop[w].phase # "failing"
  BY <1>1 DEF FilesOf
<1>4. loop[w].phase = "policy" => save[w].event = Enf(loop[w].action)
  BY <1>1 DEF FilesOf, PolicyFiles, Saving
<1>5. loop[w].phase \in {"record", "failure"} => save[w].event = Decision(loop[w].action)
  BY <1>1 DEF FilesOf, RecordFiles, Saving
<1>6. loop[w].phase = "score" => save[w].event \in {"score"} \X ScoreIds
  BY <1>1 DEF FilesOf, ScoreFiles
<1> QED
  BY <1>1, <1>2, <1>3, <1>4, <1>5, <1>6, EventsDiffer

\* A file operation of a save: open, dump, and the two of last_audit_hash.txt.
LEMMA EvidenceSaveStep ==
  ASSUME LoopTypeOK, LoopTypeOK', EvidenceInv, HashesIssued',
         NEW w \in Writers, SaveStep(w)
  PROVE  EvidenceInv'
<1> PICK e : e = save[w].event
  OBVIOUS
<1>b. Busy(w)
  BY DEF SaveStep, FileStep, OpenEvent, DumpEvent, OpenLastHash, WriteLastHash, Busy
<1>w. Working(w)
  BY <1>b DEF EvidenceInv, OneWorker
<1>l. /\ UNCHANGED <<loop, submitted, replies>>
      /\ save \in [Writers -> Saves \cup {Idle}] /\ audit_events \in [EventIds -> Files]
  BY DEF SaveStep, loopVars, LoopTypeOK, TypeOK
<1>s. save[w] \in Saves
  BY <1>b, <1>l DEF Busy, Idle
<1> PICK a : a = loop[w].action
  OBVIOUS
<1> DEFINE r == loop[w]
<1>a. /\ r \in Request /\ a \in Actions /\ FilesOf(w) /\ Backed(a)
      /\ Enf(a) \in EventIds /\ Decision(a) \in EventIds /\ Enf(a) # Decision(a)
      /\ \A x \in {"score"} \X ScoreIds : x # Enf(a) /\ x # Decision(a)
  BY <1>w, WorkerKnows, EventsDiffer
<1>e. /\ r.phase \in {"policy", "score", "record", "failure"}
      /\ r.phase = "policy" => e = Enf(a)
      /\ r.phase \in {"record", "failure"} => e = Decision(a)
      /\ r.phase = "score" => e \in {"score"} \X ScoreIds
      /\ \A b \in Actions \ {a} : e # Enf(b) /\ e # Decision(b)
  BY <1>b, <1>w, OwnEvent
<1>o. \A v \in Writers \ {w} : loop'[v] = loop[v] /\ save'[v] = save[v]
  BY <1>l DEF SaveStep, FileStep, OpenEvent, DumpEvent, OpenLastHash, WriteLastHash
<1>f. \A x \in EventIds \ {e} : audit_events'[x] = audit_events[x]
  BY <1>l DEF SaveStep, FileStep, OpenEvent, DumpEvent, OpenLastHash, WriteLastHash
<1>g. \A b \in Actions \ {a} : /\ audit_events'[Enf(b)] = audit_events[Enf(b)]
                               /\ audit_events'[Decision(b)] = audit_events[Decision(b)]
  BY <1>e, <1>f, EventsDiffer
<1>q. ASSUME FilesOf(w)', Backed(a)'
      PROVE  EvidenceInv'
  <2>1. Working(w)' /\ loop'[w].action = a
    BY <1>w, <1>l DEF Working
  <2> QED
    BY <1>a, <1>g, <1>l, <1>o, <1>q, <1>w, <2>1, WorkFrame
\* The operations that do not touch the event's file.
<1>1. CASE OpenLastHash(w) \/ WriteLastHash(w)
  <2>1. /\ UNCHANGED audit_events
        /\ save[w].pc \in {"openLast", "writeLast"}
        /\ save'[w] = Idle \/ save'[w] = [save[w] EXCEPT !.pc = "writeLast"]
    BY <1>1, <1>l DEF OpenLastHash, WriteLastHash
  <2>2. /\ Written(w) /\ Written(w)' /\ save'[w].pc # "dump"
        /\ Busy(w)' => /\ save'[w].event = save[w].event /\ save'[w].data = save[w].data
                       /\ save'[w].hash = save[w].hash
    BY <1>s, <2>1 DEF Written, Busy, Appended, Saves, Idle
  <2>3. \A x, d : Saving(w, x, d) => Saving(w, x, d)'
    BY <1>b, <2>1, <2>2 DEF Saving, Says, IsRecord
  <2>4. FilesOf(w)'
    BY <1>a, <1>b, <1>e, <1>l, <2>1, <2>2, <2>3
       DEF FilesOf, PolicyFiles, ScoreFiles, RecordFiles, Says, IsRecord
  <2>5. Backed(a)'
    BY <1>a, <2>1 DEF Backed, Says, IsRecord
  <2> QED
    BY <1>q, <2>4, <2>5
<1>2. CASE OpenEvent(w)
  <2>1. /\ audit_events'[e] = Blank /\ save[w].pc = "open" /\ e \in EventIds
        /\ save'[w] = [save[w] EXCEPT !.pc = "dump"]
    BY <1>2, <1>l, <1>s DEF OpenEvent, Saves
  <2>2. /\ ~Written(w)' /\ save'[w].event = save[w].event /\ save'[w].data = save[w].data
        /\ save'[w].hash = save[w].hash
    BY <1>s, <2>1 DEF Written, Busy, Appended, Saves
  <2>3. \A d : Saving(w, e, d) => Saving(w, e, d)'
    BY <1>b, <2>1, <2>2 DEF Saving
  <2>4. CASE r.phase = "policy"
    <3>1. ~IsRecord(Decision(a)) /\ Saving(w, Enf(a), r.policy)
      BY <1>a, <2>4 DEF FilesOf, PolicyFiles
    <3>2. ~IsRecord(Decision(a))'
      BY <1>a, <1>e, <1>f, <2>4, <3>1 DEF IsRecord
    <3>3. FilesOf(w)'
      BY <1>e, <1>l, <2>3, <2>4, <3>1, <3>2 DEF FilesOf, PolicyFiles
    <3> QED
      BY <1>q, <3>2, <3>3 DEF Backed, Says
  <2>5. CASE r.phase = "score"
    <3>1. /\ audit_events'[Enf(a)] = audit_events[Enf(a)]
          /\ audit_events'[Decision(a)] = audit_events[Decision(a)]
      BY <1>a, <1>e, <1>f, <2>5
    <3>2. FilesOf(w)'
      BY <1>a, <1>e, <1>l, <2>2, <2>5, <3>1 DEF FilesOf, ScoreFiles, Says, IsRecord
    <3>3. Backed(a)'
      BY <1>a, <3>1 DEF Backed, Says, IsRecord
    <3> QED
      BY <1>q, <3>2, <3>3
  <2>6. CASE r.phase \in {"record", "failure"}
    <3>1. /\ audit_events'[Enf(a)] = audit_events[Enf(a)]
          /\ audit_events'[Decision(a)] = Blank
      BY <1>a, <1>e, <1>f, <2>1, <2>6
    <3>2. Backed(a)'
      BY <3>1 DEF Backed, Says, IsRecord, Blank
    <3>3. FilesOf(w)'
      BY <1>a, <1>b, <1>e, <1>l, <2>2, <2>3, <2>6, <3>1
         DEF FilesOf, RecordFiles, Says, IsRecord
    <3> QED
      BY <1>q, <3>2, <3>3
  <2> QED
    BY <1>e, <2>4, <2>5, <2>6
<1>3. CASE DumpEvent(w)
  <2>1. /\ save[w].pc = "dump" /\ e \in EventIds
        /\ save'[w] = [save[w] EXCEPT !.pc = "openLast"]
        /\ \/ audit_events'[e] = RecordOf(w)
           \/ audit_events[e].kind # "blank"
    BY <1>3, <1>l, <1>s DEF DumpEvent, Saves
  <2>2. /\ Written(w)' /\ save'[w].pc = "openLast"
        /\ save'[w].event = save[w].event /\ save'[w].data = save[w].data
        /\ save'[w].hash = save[w].hash
    BY <1>s, <2>1 DEF Written, Appended, Saves
  <2>3. ASSUME NEW d, Saving(w, e, d)
        PROVE  /\ Saving(w, e, d)' /\ IsRecord(e)'
               /\ audit_events'[e].data = d /\ audit_events'[e].hash = save[w].hash
    <3>1. audit_events'[e] = RecordOf(w) /\ save[w].data = d
      BY <1>b, <2>1, <2>3 DEF Saving, Blank
    <3>2. /\ IsRecord(e)' /\ audit_events'[e].data = d
          /\ audit_events'[e].hash = save[w].hash
      BY <3>1 DEF RecordOf, IsRecord
    <3> QED
      BY <2>2, <3>1, <3>2 DEF Saving, Says
  <2>4. CASE r.phase = "policy"
    <3>1. ~IsRecord(Decision(a)) /\ Saving(w, Enf(a), r.policy)
      BY <1>a, <2>4 DEF FilesOf, PolicyFiles
    <3>2. ~IsRecord(Decision(a))'
      BY <1>a, <1>e, <1>f, <2>4, <3>1 DEF IsRecord
    <3>3. FilesOf(w)'
      BY <1>e, <1>l, <2>3, <2>4, <3>1, <3>2 DEF FilesOf, PolicyFiles
    <3> QED
      BY <1>q, <3>2, <3>3 DEF Backed, Says
  <2>5. CASE r.phase = "score"
    <3>1. /\ audit_events'[Enf(a)] = audit_events[Enf(a)]
          /\ audit_events'[Decision(a)] = audit_events[Decision(a)]
      BY <1>a, <1>e, <1>f, <2>5
    <3>2. FilesOf(w)'
      BY <1>a, <1>e, <1>l, <2>2, <2>5, <3>1 DEF FilesOf, ScoreFiles, Says, IsRecord
    <3>3. Backed(a)'
      BY <1>a, <3>1 DEF Backed, Says, IsRecord
    <3> QED
      BY <1>q, <3>2, <3>3
  <2>6. CASE r.phase = "record"
    <3>1. RecordFiles(w, r) /\ Saving(w, e, r.is_authorized)
      BY <1>a, <1>e, <2>6 DEF FilesOf, RecordFiles
    <3>2. audit_events'[Enf(a)] = audit_events[Enf(a)]
      BY <1>a, <1>e, <1>f, <2>6
    <3>3. r.is_authorized => Says(Enf(a), TRUE) /\ audit_events[Enf(a)].hash < save[w].hash
      BY <1>b, <3>1 DEF RecordFiles
    <3>4. FilesOf(w)'
      BY <1>e, <1>l, <2>2, <2>3, <2>6, <3>1, <3>2, <3>3
         DEF FilesOf, RecordFiles, Says, IsRecord
    <3>5. Says(Decision(a), TRUE)' => r.is_authorized
      BY <1>e, <2>3, <2>6, <3>1 DEF Says
    <3>6. Backed(a)'
      BY <1>e, <2>3, <2>6, <3>1, <3>2, <3>3, <3>5 DEF Backed, Says, IsRecord
    <3> QED
      BY <1>q, <3>4, <3>6
  <2>7. CASE r.phase = "failure"
    <3>1. Saving(w, e, FALSE) /\ ~r.is_authorized
      BY <1>a, <1>e, <2>7 DEF FilesOf
    <3>2. FilesOf(w)'
      BY <1>e, <1>l, <2>3, <2>7, <3>1 DEF FilesOf
    <3>3. ~Says(Decision(a), TRUE)'
      BY <1>e, <2>3, <2>7, <3>1 DEF Says
    <3> QED
      BY <1>q, <3>2, <3>3 DEF Backed
  <2> QED
    BY <1>e, <2>4, <2>5, <2>6, <2>7
<1> QED
  BY <1>1, <1>2, <1>3 DEF SaveStep, FileStep

\* The part of the frame that a step has which only begins a save, or does not
\* touch the directory: the files stay, and a save in progress is w's new one.
LEMMA EvidenceLoopStep ==
  ASSUME LoopTypeOK, LoopTypeOK', EvidenceInv, HashesIssued',
         NEW w \in Writers, Working(w), NEW r \in Request,
         loop' = [loop EXCEPT ![w] = r], r.action = loop[w].action,
         UNCHANGED <<audit_events, submitted, replies>>,
         \A v \in Writers \ {w} : save'[v] = save[v],
         FilesOf(w)'
  PROVE  EvidenceInv'
<1> PICK a : a = loop[w].action
  OBVIOUS
<1>1. a \in Actions /\ Backed(a) /\ w \in DOMAIN loop
  BY WorkerKnows DEF LoopTypeOK
<1>2. Backed(a)'
  BY <1>1 DEF Backed, Says, IsRecord
<1>3. loop'[w] = r /\ Working(w)'
  BY <1>1 DEF Working, Request, NoRequest
<1> QED
  BY <1>1, <1>2, <1>3, WorkFrame

\* What ReadLastHash leaves for the process that begins a save.
LEMMA SaveBegun ==
  ASSUME LoopTypeOK, NEW w \in Writers, NEW e, NEW d, ReadLastHash(w, e, d)
  PROVE  /\ UNCHANGED audit_events
         /\ \A v \in Writers \ {w} : save'[v] = save[v]
         /\ Saving(w, e, d)'
         /\ save'[w].event = e /\ save'[w].hash = issued + 1
<1>1. w \in DOMAIN save
  BY DEF LoopTypeOK, TypeOK
<1>2. /\ save'[w].pc = "open" /\ save'[w].event = e /\ save'[w].data = d
      /\ save'[w].hash = issued + 1
  BY <1>1 DEF ReadLastHash
<1>3. Saving(w, e, d)'
  BY <1>2 DEF Saving, Written, Busy, Appended
<1> QED
  BY <1>1, <1>2, <1>3 DEF ReadLastHash

LEMMA EvidenceWorkStep ==
  ASSUME LoopTypeOK, LoopTypeOK', EvidenceInv, HashesIssued',
         NEW w \in Writers,
         Assess(w) \/ Gate(w) \/ Failure(w) \/ SimulationRaises(w)
  PROVE  EvidenceInv'
<1>w. Working(w)
  <2>1. loop[w].phase # "idle"
    BY DEF Assess, Gate, Failure, SimulationRaises
  <2> QED
    BY <2>1 DEF Working, NoRequest
<1> PICK a, r : a = loop[w].action /\ r = loop[w]
  OBVIOUS
<1>a. /\ r \in Request /\ a \in Actions /\ FilesOf(w) /\ Backed(a)
      /\ Enf(a) \in EventIds /\ Decision(a) \in EventIds
      /\ \A x \in {"score"} \X ScoreIds : x # Enf(a) /\ x # Decision(a)
      /\ w \in DOMAIN loop
  BY <1>w, WorkerKnows, EventsDiffer DEF LoopTypeOK
<1>b. \A v \in Writers : loop[v] \in Request \cup {NoRequest}
  BY DEF LoopTypeOK
<1>u. UNCHANGED <<submitted, replies>>
  BY DEF Assess, Gate, Failure, SimulationRaises
<1>t. ASSUME NEW s, loop' = [loop EXCEPT ![w] = s], s.phase # "idle"
      PROVE  s \in Request /\ loop'[w] = s
  <2>1. loop'[w] = s /\ loop'[w] \in Request \cup {NoRequest}
    BY <1>a, <1>t DEF LoopTypeOK
  <2> QED
    BY <1>t, <2>1 DEF NoRequest
\* The loop begins to save its decision.
<1>d. ASSUME NEW b \in BOOLEAN, NEW n, RecordAndReturn(w, r, b, n),
             b => Says(Enf(a), TRUE)
      PROVE  EvidenceInv'
  <2> PICK s : s = [r EXCEPT !.phase = "record", !.is_authorized = b, !.risk_score = n]
    OBVIOUS
  <2>1. s.phase = "record" /\ s.is_authorized = b /\ s.action = a
    BY <1>a DEF Request
  <2>2. s \in Request /\ loop'[w] = s /\ loop' = [loop EXCEPT ![w] = s]
    BY <1>d, <1>t, <2>1 DEF RecordAndReturn
  <2>3. ReadLastHash(w, Decision(a), b)
    BY <1>d DEF RecordAndReturn, Decision
  <2>4. /\ UNCHANGED audit_events
        /\ \A v \in Writers \ {w} : save'[v] = save[v]
        /\ Saving(w, Decision(a), b)' /\ save'[w].hash = issued + 1
    BY <2>3, SaveBegun
  <2>5. Says(Enf(a), TRUE) => audit_events[Enf(a)].hash < issued + 1
    <3>1. issued \in Nat /\ (IsRecord(Enf(a)) => audit_events[Enf(a)] \in Records)
      BY <1>a DEF LoopTypeOK, TypeOK, Files, IsRecord, Absent, Blank, Garbled
    <3>2. IsRecord(Enf(a)) => audit_events[Enf(a)].hash <= issued
      BY <1>a DEF EvidenceInv, HashesIssued
    <3> QED
      BY <3>1, <3>2 DEF Says, Records, Hash
  <2>6. RecordFiles(w, s)'
    BY <1>d, <2>1, <2>4, <2>5 DEF RecordFiles, Says, IsRecord
  <2>7. FilesOf(w)'
    BY <2>1, <2>2, <2>6 DEF FilesOf
  <2> QED
    BY <1>u, <1>w, <2>1, <2>2, <2>4, <2>7, EvidenceLoopStep
<1>f. Denied \in Nat /\ FALSE \in BOOLEAN
  BY DEF Denied
<1>1. CASE Assess(w)
  <2>1. PolicyFiles(w, r) /\ ~Busy(w) /\ r.phase = "policy"
    BY <1>1, <1>a DEF Assess, FilesOf
  <2>2. Says(Enf(a), r.policy) /\ ~IsRecord(Decision(a))
    BY <2>1 DEF PolicyFiles, Saving, Written
  <2>3. CASE RecordAndReturn(w, r, FALSE, Denied)
    BY <1>d, <1>f, <2>3
  <2>4. ASSUME NEW n \in ScoreIds, NEW score, r.policy,
               ReadLastHash(w, <<"score", n>>, ThresholdMet(score)),
               loop' = [loop EXCEPT ![w] = [@ EXCEPT !.phase = "score", !.funds = TRUE,
                                                     !.score = score]]
        PROVE  EvidenceInv'
    <3> PICK s : s = [r EXCEPT !.phase = "score", !.funds = TRUE, !.score = score]
      OBVIOUS
    <3>1. s.phase = "score" /\ s.action = a
      BY <1>a DEF Request
    <3>2. s \in Request /\ loop'[w] = s /\ loop' = [loop EXCEPT ![w] = s]
      BY <1>t, <2>4, <3>1
    <3>3. /\ UNCHANGED audit_events
          /\ \A v \in Writers \ {w} : save'[v] = save[v]
          /\ save'[w].event \in {"score"} \X ScoreIds
      BY <2>4, SaveBegun
    <3>4. r.policy = TRUE
      BY <1>a, <2>4 DEF Request
    <3>5. ScoreFiles(w, s)'
      BY <2>2, <3>1, <3>3, <3>4 DEF ScoreFiles, Says, IsRecord
    <3>6. FilesOf(w)'
      BY <3>1, <3>2, <3>5 DEF FilesOf
    <3> QED
      BY <1>u, <1>w, <3>1, <3>2, <3>3, <3>6, EvidenceLoopStep
  <2> QED
    BY <1>1, <2>3, <2>4 DEF Assess
<1>2. CASE Gate(w)
  <2>1. ScoreFiles(w, r)
    BY <1>2, <1>a DEF Gate, FilesOf
  <2>2. Says(Enf(a), TRUE)
    BY <2>1 DEF ScoreFiles
  <2>3. ThresholdMet(r.score) \in BOOLEAN
    BY SMT DEF ThresholdMet
  <2> QED
    BY <1>2, <1>d, <2>2, <2>3 DEF Gate
<1>3. CASE Failure(w)
  <2> PICK s : s = [r EXCEPT !.phase = "failure", !.is_authorized = FALSE,
                             !.risk_score = Denied]
    OBVIOUS
  <2>1. s.phase = "failure" /\ ~s.is_authorized /\ s.action = a
    BY <1>a DEF Request
  <2>2. s \in Request /\ loop'[w] = s /\ loop' = [loop EXCEPT ![w] = s]
    BY <1>3, <1>t, <2>1 DEF Failure
  <2>3. ReadLastHash(w, Decision(a), FALSE)
    BY <1>3 DEF Failure, Decision
  <2>4. /\ UNCHANGED audit_events
        /\ \A v \in Writers \ {w} : save'[v] = save[v]
        /\ Saving(w, Decision(a), FALSE)'
    BY <2>3, SaveBegun
  <2>5. FilesOf(w)'
    BY <2>1, <2>2, <2>4 DEF FilesOf
  <2> QED
    BY <1>u, <1>w, <2>1, <2>2, <2>4, <2>5, EvidenceLoopStep
<1>4. CASE SimulationRaises(w)
  <2> PICK s : s = [r EXCEPT !.phase = "failing", !.funds = TRUE, !.raised = TRUE]
    OBVIOUS
  <2>1. s.phase = "failing" /\ s.action = a
    BY <1>a DEF Request
  <2>2. s \in Request /\ loop'[w] = s /\ loop' = [loop EXCEPT ![w] = s]
    BY <1>4, <1>t, <2>1 DEF SimulationRaises
  <2>3. UNCHANGED <<audit_events, save>> /\ ~Busy(w)
    BY <1>4 DEF SimulationRaises, storeVars
  <2>4. FilesOf(w)'
    BY <2>1, <2>2, <2>3 DEF FilesOf, Busy
  <2> QED
    BY <1>u, <1>w, <2>1, <2>2, <2>3, <2>4, EvidenceLoopStep
<1> QED
  BY <1>1, <1>2, <1>3, <1>4

LEMMA EvidenceSubmit ==
  ASSUME ~MayRetry, LoopTypeOK, LoopTypeOK', EvidenceInv, HashesIssued',
         NEW w \in Writers, Submit(w)
  PROVE  EvidenceInv'
<1>1. PICK a \in Actions, sre \in BOOLEAN, database \in BOOLEAN, valid \in BOOLEAN :
        /\ a \notin submitted
        /\ submitted' = submitted \cup {a}
        /\ \/ RecordAndReturn(w, NewRequest(a, FALSE, FALSE), FALSE, Denied)
           \/ /\ ReadLastHash(w, Enf(a), Validate(sre, database))
              /\ loop' = [loop EXCEPT ![w] = NewRequest(a, TRUE, Validate(sre, database))]
  BY Zenon DEF Submit, Enf
<1>i. /\ ~Working(w) /\ UNCHANGED replies
      /\ OneWorker /\ \A r \in replies : Settled(r)
      /\ ~IsRecord(Enf(a)) /\ ~IsRecord(Decision(a))
      /\ w \in DOMAIN loop
  BY <1>1 DEF Submit, Working, EvidenceInv, LoopTypeOK
<1>2. /\ \A v \in Writers \ {w} : Working(v) => loop[v].action # a
      /\ \A r \in replies : r.action # a
  BY <1>1, <1>i DEF OneWorker, Settled
<1>q. ASSUME UNCHANGED audit_events, \A v \in Writers \ {w} : save'[v] = save[v],
             NEW s, loop' = [loop EXCEPT ![w] = s], s.action = a, s.phase # "idle",
             FilesOf(w)'
      PROVE  EvidenceInv'
  <2>1. \A v \in Writers \ {w} : loop'[v] = loop[v] /\ save'[v] = save[v]
    BY <1>q DEF LoopTypeOK
  <2>2. loop'[w] = s /\ Working(w)'
    BY <1>i, <1>q DEF Working, NoRequest
  <2>3. Backed(a)'
    BY <1>i, <1>q DEF Backed, Says, IsRecord
  <2> QED
    BY <1>1, <1>2, <1>i, <1>q, <2>1, <2>2, <2>3, EvidenceFrame
<1>3. CASE RecordAndReturn(w, NewRequest(a, FALSE, FALSE), FALSE, Denied)
  <2> PICK s : s = [NewRequest(a, FALSE, FALSE) EXCEPT !.phase = "record",
                       !.is_authorized = FALSE, !.risk_score = Denied]
    OBVIOUS
  <2>1. s.phase = "record" /\ s.action = a /\ s.is_authorized = FALSE
    BY DEF NewRequest
  <2>2. loop' = [loop EXCEPT ![w] = s] /\ loop'[w] = s
    BY <1>3, <1>i DEF RecordAndReturn
  <2>3. ReadLastHash(w, Decision(a), FALSE)
    <3>1. NewRequest(a, FALSE, FALSE).action = a
      BY DEF NewRequest
    <3> QED
      BY <1>3, <3>1 DEF RecordAndReturn, Decision
  <2>4. /\ UNCHANGED audit_events
        /\ \A v \in Writers \ {w} : save'[v] = save[v]
        /\ Saving(w, Decision(a), FALSE)'
    BY <2>3, SaveBegun
  <2>5. FilesOf(w)'
    BY <2>1, <2>2, <2>4 DEF FilesOf, RecordFiles
  <2> QED
    BY <1>q, <2>1, <2>2, <2>4, <2>5
<1>4. ASSUME NEW b, ReadLastHash(w, Enf(a), b), loop' = [loop EXCEPT ![w] = NewRequest(a, TRUE, b)]
      PROVE  EvidenceInv'
  <2> PICK s : s = NewRequest(a, TRUE, b)
    OBVIOUS
  <2>1. s.phase = "policy" /\ s.action = a /\ s.policy = b
    BY DEF NewRequest
  <2>2. loop' = [loop EXCEPT ![w] = s] /\ loop'[w] = s
    BY <1>4, <1>i
  <2>3. /\ UNCHANGED audit_events
        /\ \A v \in Writers \ {w} : save'[v] = save[v]
        /\ Saving(w, Enf(a), b)'
    BY <1>4, SaveBegun
  <2>4. ~IsRecord(Decision(a))'
    BY <1>i, <2>3 DEF IsRecord
  <2>5. FilesOf(w)'
    BY <2>1, <2>2, <2>3, <2>4 DEF FilesOf, PolicyFiles
  <2> QED
    BY <1>q, <2>1, <2>2, <2>3, <2>5
<1> QED
  BY <1>1, <1>3, <1>4

\* The request is answered, given up, or goes to the except clause.
LEMMA EvidenceEndStep ==
  ASSUME LoopTypeOK, LoopTypeOK', EvidenceInv, HashesIssued',
         NEW w \in Writers, Return(w) \/ SaveRaises(w) \/ Crash(w)
  PROVE  EvidenceInv'
<1>w. Working(w)
  <2>1. Return(w) => loop[w].phase # "idle"
    BY DEF Return
  <2> QED
    BY <2>1 DEF SaveRaises, Crash, Working, NoRequest
<1> PICK a, r : a = loop[w].action /\ r = loop[w]
  OBVIOUS
<1>a. /\ r \in Request /\ a \in Actions /\ a \in submitted /\ FilesOf(w) /\ Backed(a)
      /\ Enf(a) \in EventIds /\ Decision(a) \in EventIds
      /\ \A x \in {"score"} \X ScoreIds : x # Enf(a) /\ x # Decision(a)
      /\ \A v \in Writers \ {w} : Working(v) => loop[v].action # a
      /\ w \in DOMAIN loop /\ w \in DOMAIN save
  <2>1. a \in submitted
    BY <1>w, WorkerKnows
  <2> QED
    BY <1>w, <2>1, WorkerKnows, EventsDiffer DEF LoopTypeOK, TypeOK
<1>u. UNCHANGED submitted /\ ~Busy(w)' /\ \A v \in Writers \ {w} : save'[v] = save[v]
  <2>1. AbortSave(w) => ~Busy(w)' /\ \A v \in Writers \ {w} : save'[v] = save[v]
    BY <1>a DEF AbortSave, Busy, Idle
  <2>2. UNCHANGED storeVars /\ ~Busy(w) => ~Busy(w)' /\ \A v \in Writers \ {w} : save'[v] = save[v]
    BY DEF storeVars, Busy
  <2> QED
    BY <2>1, <2>2 DEF Return, SaveRaises, Crash
\* The files: at most the file of the save that was cut short is garbled.
<1>f. /\ \A b \in Actions \ {a} : /\ audit_events'[Enf(b)] = audit_events[Enf(b)]
                                  /\ audit_events'[Decision(b)] = audit_events[Decision(b)]
      /\ Backed(a)'
  <2>1. CASE audit_events' = audit_events
    BY <1>a, <2>1 DEF Backed, Says, IsRecord
  <2>2. CASE AbortSave(w) /\ audit_events' = [audit_events EXCEPT ![save[w].event] = Garbled]
    <3> PICK e : e = save[w].event
      OBVIOUS
    <3>1. Busy(w)
      BY <2>2 DEF AbortSave
    <3>2. /\ r.phase \in {"policy", "score", "record", "failure"}
          /\ r.phase = "policy" => e = Enf(a)
          /\ r.phase \in {"record", "failure"} => e = Decision(a)
          /\ r.phase = "score" => e \in {"score"} \X ScoreIds
          /\ \A b \in Actions \ {a} : e # Enf(b) /\ e # Decision(b)
      BY <1>w, <3>1, OwnEvent
    <3>3. /\ \A x \in EventIds \ {e} : audit_events'[x] = audit_events[x]
          /\ e \in EventIds => audit_events'[e] = Garbled
      BY <2>2 DEF LoopTypeOK, TypeOK
    <3>4. \A b \in Actions \ {a} : /\ audit_events'[Enf(b)] = audit_events[Enf(b)]
                                   /\ audit_events'[Decision(b)] = audit_events[Decision(b)]
      BY <3>2, <3>3, EventsDiffer
    <3>5. CASE r.phase = "policy"
      <4>1. ~IsRecord(Decision(a)) /\ Decision(a) # e
        BY <1>a, <3>2, <3>5, EventsDiffer DEF FilesOf, PolicyFiles
      <4> QED
        BY <1>a, <3>3, <3>4, <4>1 DEF Backed, Says, IsRecord
    <3>6. CASE r.phase = "score"
      BY <1>a, <3>2, <3>3, <3>4, <3>6 DEF Backed, Says, IsRecord
    <3>7. CASE r.phase \in {"record", "failure"}
      BY <1>a, <3>2, <3>3, <3>4, <3>7 DEF Backed, Says, IsRecord, Garbled
    <3> QED
      BY <3>2, <3>5, <3>6, <3>7
  <2>3. audit_events' = audit_events \/ (AbortSave(w) /\ ~UNCHANGED audit_events)
    BY DEF Return, SaveRaises, Crash, storeVars
  <2> QED
    BY <2>1, <2>2, <2>3 DEF AbortSave
\* What the frame leaves: w is done, or goes to the except clause.
<1>q. ASSUME loop' = [loop EXCEPT ![w] = NoRequest] \/
                (\E s \in Request : /\ loop' = [loop EXCEPT ![w] = s]
                                   /\ s.action = a /\ s.phase = "failing"),
             \A x \in replies' : x \in replies \/ Settled(x)'
      PROVE  EvidenceInv'
  <2>1. \A v \in Writers \ {w} : loop'[v] = loop[v]
    BY <1>q DEF LoopTypeOK
  <2>2. Working(w)' => loop'[w].action = a /\ loop'[w].phase = "failing"
    BY <1>a, <1>q DEF Working
  <2>3. Working(w)' => FilesOf(w)'
    BY <1>u, <2>2 DEF FilesOf
  <2> QED
    BY <1>a, <1>f, <1>q, <1>u, <1>w, <2>1, <2>2, <2>3, WorkFrame
\* The answer that leaves the loop.
<1>s. ASSUME NEW x, x.action = a, loop' = [loop EXCEPT ![w] = NoRequest],
             x.risk_score # NoRisk => Says(Decision(a), x.is_authorized)'
      PROVE  Settled(x)'
  <2>1. \A v \in Writers : Working(v)' => loop'[v].action # a
    BY <1>a, <1>s DEF Working, LoopTypeOK
  <2> QED
    BY <1>a, <1>s, <1>u, <2>1 DEF Settled
<1>1. CASE Return(w)
  <2>1. /\ loop' = [loop EXCEPT ![w] = NoRequest] /\ replies' = replies \cup {r}
        /\ UNCHANGED audit_events /\ ~Busy(w) /\ r.phase \in {"record", "failure"}
    BY <1>1 DEF Return, storeVars
  <2>2. Says(Decision(a), r.is_authorized)
    <3>1. CASE r.phase = "record"
      BY <1>a, <2>1, <3>1 DEF FilesOf, RecordFiles, Saving, Written
    <3>2. CASE r.phase = "failure"
      <4>1. r.is_authorized = FALSE /\ Says(Decision(a), FALSE)
        BY <1>a, <2>1, <3>2 DEF FilesOf, Saving, Written, Request
      <4> QED
        BY <4>1
    <3> QED
      BY <2>1, <3>1, <3>2
  <2>3. Says(Decision(a), r.is_authorized)'
    BY <2>1, <2>2 DEF Says, IsRecord
  <2> QED
    BY <1>q, <1>s, <2>1, <2>3
<1>2. CASE SaveRaises(w)
  <2>1. CASE r.phase # "failure"
    <3> PICK s : s = [r EXCEPT !.phase = "failing", !.raised = TRUE]
      OBVIOUS
    <3>1. s \in Request /\ s.phase = "failing" /\ s.action = a
      BY <1>a DEF Request
    <3>2. loop' = [loop EXCEPT ![w] = s] /\ replies' = replies
      BY <1>2, <2>1 DEF SaveRaises
    <3> QED
      BY <1>q, <3>1, <3>2
  <2>2. CASE r.phase = "failure"
    <3> PICK x : x = [r EXCEPT !.is_authorized = FALSE, !.risk_score = NoRisk]
      OBVIOUS
    <3>1. x.action = a /\ x.risk_score = NoRisk
      BY <1>a DEF Request
    <3>2. loop' = [loop EXCEPT ![w] = NoRequest] /\ replies' = replies \cup {x}
      BY <1>2, <2>2 DEF SaveRaises
    <3> QED
      BY <1>q, <1>s, <3>1, <3>2
  <2> QED
    BY <2>1, <2>2
<1>3. CASE Crash(w)
  BY <1>3, <1>q DEF Crash
<1> QED
  BY <1>1, <1>2, <1>3

LEMMA EvidenceStep ==
  ASSUME ~MayRetry, LoopTypeOK, EvidenceInv, [Next]_vars
  PROVE  EvidenceInv'
<1>1. LoopTypeOK' /\ HashesIssued'
  BY LoopStepTypes, HashesIssuedStep DEF EvidenceInv
<1>2. CASE UNCHANGED vars
  BY <1>2 DEF vars, loopVars, storeVars, EvidenceInv, OneWorker, HashesIssued, Working, Busy,
        FilesOf, PolicyFiles, ScoreFiles, RecordFiles, Saving, Written, Appended, Backed,
        Settled, Says, IsRecord
<1>3. ASSUME NEW w \in Writers,
             Submit(w) \/ Work(w) \/ SimulationRaises(w) \/ SaveRaises(w) \/ Crash(w)
      PROVE  EvidenceInv'
  BY <1>1, <1>3, EvidenceSubmit, EvidenceSaveStep, EvidenceWorkStep, EvidenceEndStep DEF Work
<1> QED
  BY <1>2, <1>3 DEF Next

LEMMA LoopEvidence == ~MayRetry => (Spec => []EvidenceInv)
<1> SUFFICES ASSUME ~MayRetry
             PROVE  Spec => []EvidenceInv
  OBVIOUS
<1>1. Init => EvidenceInv
  <2> SUFFICES ASSUME Init
               PROVE  EvidenceInv
    OBVIOUS
  <2>1. \A e \in EventIds : ~IsRecord(e)
    BY DEF Init, StoreInit, IsRecord, Absent
  <2>2. \A w \in Writers : ~Working(w) /\ ~Busy(w)
    BY DEF Init, StoreInit, Working, Busy, Idle
  <2> QED
    BY <2>1, <2>2, EventsDiffer
       DEF Init, EvidenceInv, OneWorker, HashesIssued, Backed, Says
<1> QED
  BY <1>1, LoopTypes, EvidenceStep, PTL DEF Spec

\* The ledger shows every decision that was returned, with its verdict, for any
\* number of processes in one directory, wherever saves fail or processes are
\* killed, when no action id is sent twice.
THEOREM LoopDecisionOnRecord == ~MayRetry => (Spec => []DecisionOnRecord)
<1> SUFFICES ASSUME ~MayRetry
             PROVE  Spec => []DecisionOnRecord
  OBVIOUS
<1>1. EvidenceInv => DecisionOnRecord
  BY DEF EvidenceInv, Settled, DecisionOnRecord, Decision
<1> QED
  BY <1>1, LoopEvidence, PTL

\* An approval on file is backed by the policy verdict that allowed it, saved
\* before it, under the same assumption.
THEOREM LoopApprovalHasEvidence == ~MayRetry => (Spec => []ApprovalHasEvidence)
<1> SUFFICES ASSUME ~MayRetry
             PROVE  Spec => []ApprovalHasEvidence
  OBVIOUS
<1>1. EvidenceInv => ApprovalHasEvidence
  BY DEF EvidenceInv, Backed, ApprovalHasEvidence, Decision, Enf
<1> QED
  BY <1>1, LoopEvidence, PTL

=============================================================================
