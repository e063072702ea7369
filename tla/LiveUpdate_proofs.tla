------------------------ MODULE LiveUpdate_proofs ------------------------
(***************************************************************************)
(* Theorems about LiveUpdate, for any number of policies, workflows and    *)
(* changes, and one monitor thread (SingleMonitor).  The two writers of a  *)
(* workflow share no lock: the order of what they write rests on two facts *)
(* that LiveInv carries along.  The batch of the monitor is exactly what   *)
(* is left of the fetched changes, in order (BatchInOrder), so the engine  *)
(* only moves forward (StatesApplied).  And a registration keeps           *)
(* _workflow_lock from its first read to its last write, so the policy it  *)
(* holds can become old by one commit at most, whose broadcast cannot      *)
(* start before the registration has returned (HeldIsCurrent, Replayed).   *)
(***************************************************************************)
EXTENDS LiveUpdate, FiniteSetTheorems, SequenceTheorems, TLAPS

\* One monitor thread: start was not called again after a stop that timed out.
SingleMonitor == \A s, t \in Monitors : s = t

\* The number of the last change that the monitor is done with.
Applied(t) == fetched - Len(thread[t].batch)

Applying(t) == thread[t].pc \in {"commit", "snapshot", "broadcast"}
Committed(t) == thread[t].pc \in {"snapshot", "broadcast"}

\* The batch is what is left of the fetched changes, oldest first.
BatchInOrder ==
    \A t \in Monitors :
        /\ Applied(t) >= 0
        /\ \A i \in 1 .. Len(thread[t].batch) : thread[t].batch[i] = Applied(t) + i
        /\ Applying(t) <=> Len(thread[t].batch) > 0
        /\ \A n \in lost : n <= Applied(t)

\* A policy stands at a change of its own that the monitor is done with, or at
\* the one it is about to broadcast.
StatesApplied ==
    /\ \A p \in Policies : states[p] # None =>
          /\ states[p] \in 1 .. fetched /\ Policy(states[p]) = p
          /\ \A t \in Monitors :
                states[p] <= Applied(t) \/ (Committed(t) /\ states[p] = Applied(t) + 1)
    /\ \A t \in Monitors : Committed(t) => states[Policy(Applied(t) + 1)] = Applied(t) + 1

\* No workflow is ahead of the engine.
InstalledBehind ==
    \A w \in Workflows, p \in Policies : installed[w][p] <= states[p]

\* A step of NoDowngrade.
NoDowngradeStep ==
    \A w \in Workflows, p \in Policies : installed'[w][p] >= installed[w][p]

\* A registration holds the current policy, or one whose successor waits for the
\* lock that the registration holds; what it holds is no older than what the
\* workflow runs.
HeldIsCurrent ==
    LET r == registering
    IN  r.phase = "apply" =>
            /\ r.held \in 1 .. fetched
            /\ installed[r.workflow][Policy(r.held)] <= r.held
            /\ r.held <= states[Policy(r.held)]
            /\ \/ r.held = states[Policy(r.held)]
               \/ \E t \in Monitors : thread[t].pc = "snapshot"
                                      /\ states[Policy(r.held)] = Applied(t) + 1

UpToDate(w, p) ==
    \/ installed[w][p] = states[p]
    \/ OnItsWay(w, states[p])
    \/ <<w, p>> \in missed

\* The registration in progress has replayed all policies but those still to do.
Replayed ==
    LET r == registering
    IN  r # NotRegistering =>
            \A p \in Policies :
                Covers(r.workflow, p) =>
                    \/ p \in r.todo
                    \/ r.phase = "apply" /\ p = Policy(r.held)
                    \/ UpToDate(r.workflow, p)

LiveInv ==
    /\ LiveTypeOK
    /\ BatchInOrder
    /\ StatesApplied
    /\ InstalledBehind
    /\ HeldIsCurrent
    /\ Replayed
    /\ WorkflowsUpToDate
    /\ LastChangeWins

\* The queue that Poll hands out is a sequence of numbers.
LEMMA NumberSeq ==
  ASSUME NEW m \in Nat, NEW n \in Nat, m + n <= MaxChanges
  PROVE  /\ [i \in 1 .. n |-> m + i] \in Seq(Number)
         /\ Len([i \in 1 .. n |-> m + i]) = n
<1>1. [i \in 1 .. n |-> m + i] \in [1 .. n -> Number]
  BY LiveUpdateAssumption DEF Number
<1>2. [1 .. n -> Number] \subseteq Seq(Number)
  OBVIOUS
<1>3. \A s \in [1 .. n -> Number] : s \in Seq(Number) /\ Len(s) = n
  OBVIOUS
<1> QED
  BY <1>1, <1>2, <1>3

\* What a monitor that is applying a batch has at its head, and what is left.
LEMMA BatchFacts ==
  ASSUME LiveTypeOK, BatchInOrder, NEW t \in Monitors
  PROVE  /\ Len(thread[t].batch) \in Nat /\ Applied(t) \in Nat
         /\ fetched = Applied(t) + Len(thread[t].batch)
         /\ fetched \in Nat /\ fetched <= Len(changes) /\ Len(changes) <= MaxChanges
         /\ Applying(t) => /\ Len(thread[t].batch) > 0
                           /\ Current(t) = Applied(t) + 1
                           /\ Current(t) \in 1 .. fetched
                           /\ Current(t) \in Number
                           /\ Policy(Current(t)) \in Policies
                           /\ Tail(thread[t].batch) \in Seq(Number)
                           /\ Len(Tail(thread[t].batch)) = Len(thread[t].batch) - 1
                           /\ \A i \in 1 .. Len(thread[t].batch) - 1 :
                                  Tail(thread[t].batch)[i] = Applied(t) + 1 + i
         /\ ~Applying(t) => Applied(t) = fetched
         /\ Unapplied(t) = Applied(t) + 1 .. fetched
<1> DEFINE b == thread[t].batch
<1>1. b \in Seq(Number) /\ changes \in Seq(Change)
  BY DEF LiveTypeOK, Thread
<1>2. /\ Len(b) \in Nat /\ fetched \in Nat /\ Len(changes) \in Nat
      /\ fetched <= Len(changes) /\ Len(changes) <= MaxChanges
  BY <1>1, LenProperties DEF LiveTypeOK
<1>3. /\ Applied(t) \in Nat /\ fetched = Applied(t) + Len(b)
      /\ \A i \in 1 .. Len(b) : b[i] = Applied(t) + i
      /\ Applying(t) <=> Len(b) > 0
  <2>1. /\ Applied(t) >= 0
        /\ \A i \in 1 .. Len(b) : b[i] = Applied(t) + i
    BY DEF BatchInOrder
  <2>2. Applying(t) <=> Len(b) > 0
    BY DEF BatchInOrder
  <2>3. Applied(t) \in Int /\ fetched = Applied(t) + Len(b)
    BY <1>2 DEF Applied
  <2>4. Applied(t) \in Nat
    BY <2>1, <2>3
  <2> QED
    BY <2>1, <2>2, <2>3, <2>4
<1>4. ASSUME Applying(t)
      PROVE  /\ Current(t) = Applied(t) + 1
             /\ Tail(b) \in Seq(Number) /\ Len(Tail(b)) = Len(b) - 1
             /\ \A i \in 1 .. Len(b) - 1 : Tail(b)[i] = Applied(t) + 1 + i
  <2>1. b # <<>>
    BY <1>3, <1>4, EmptySeq
  <2>2. /\ Tail(b) \in Seq(Number) /\ Len(Tail(b)) = Len(b) - 1
        /\ \A i \in 1 .. Len(Tail(b)) : Tail(b)[i] = b[i + 1]
    BY <1>1, <2>1, HeadTailProperties
  <2>3. Current(t) = b[1]
    BY <1>1, <2>1 DEF Current
  <2> QED
    BY <1>2, <1>3, <1>4, <2>2, <2>3
<1>5. Applying(t) => Current(t) \in 1 .. fetched
  BY <1>2, <1>3, <1>4
<1>6. \A n \in 1 .. fetched : n \in Number /\ Policy(n) \in Policies
  <2>1. ASSUME NEW n \in 1 .. fetched
        PROVE  n \in Number /\ n \in 1 .. Len(changes)
    BY <1>2, LiveUpdateAssumption DEF Number
  <2>2. \A n \in 1 .. Len(changes) : changes[n] \in Change
    BY <1>1, ElementOfSeq
  <2> QED
    BY <2>1, <2>2 DEF Policy, Change
<1>7. Unapplied(t) = Applied(t) + 1 .. fetched
  <2>1. ASSUME NEW n \in Applied(t) + 1 .. fetched
        PROVE  n - Applied(t) \in 1 .. Len(b) /\ b[n - Applied(t)] = n
    <3>1. n - Applied(t) \in 1 .. Len(b)
      BY <1>2, <1>3
    <3>2. b[n - Applied(t)] = Applied(t) + (n - Applied(t))
      BY <1>3, <3>1
    <3> QED
      BY <1>3, <3>1, <3>2
  <2>2. \A n \in Applied(t) + 1 .. fetched : \E i \in 1 .. Len(b) : b[i] = n
    BY <2>1
  <2>3. \A i \in 1 .. Len(b) : b[i] \in Applied(t) + 1 .. fetched
    BY <1>2, <1>3
  <2> QED
    BY <2>2, <2>3 DEF Unapplied
<1> QED
  BY <1>2, <1>3, <1>4, <1>5, <1>6, <1>7

\* Every step keeps the types; the batch must be in order for Tail to be typed.
LEMMA TypeStep ==
  ASSUME LiveTypeOK, BatchInOrder, [LiveNext]_vars
  PROVE  LiveTypeOK'
<1> USE LiveUpdateAssumption DEF LiveTypeOK
<1>d. Dead \in Thread
  BY EmptySeq DEF Dead, Thread
<1>n. NotRegistering.phase # "apply" /\ NotRegistering.phase # "next"
  BY DEF NotRegistering
<1>1. CASE PushChange
  <2>1. PICK c \in Change : changes' = Append(changes, c)
    BY <1>1 DEF PushChange
  <2>2. changes' \in Seq(Change) /\ Len(changes') = Len(changes) + 1
    BY <2>1, AppendProperties
  <2>3. Len(changes) \in Nat
    BY LenProperties
  <2> QED
    BY <1>1, <2>2, <2>3 DEF PushChange
<1>2. ASSUME NEW w \in Workflows, Register(w)
      PROVE  LiveTypeOK'
  <2>1. PICK S \in SUBSET Policies :
          /\ subscriptions' = [subscriptions EXCEPT ![w] = S]
          /\ registering' = [phase |-> "next", workflow |-> w,
                             todo |-> IF S = {} THEN Known ELSE S,
                             size |-> Cardinality(Known), held |-> None]
    BY <1>2 DEF Register
  <2>2. Cardinality(Known) \in Nat
    BY FS_CardinalityType, FS_Subset DEF Known
  <2>3. registering' \in Registration
    BY <2>1, <2>2 DEF Registration, Known
  <2> QED
    BY <1>2, <2>1, <2>3 DEF Register
<1>3. CASE RegisterNext
  <2>1. registering \in Registration /\ registering.workflow \in workflows
    BY <1>3, <1>n DEF RegisterNext
  <2>2. registering' \in Registration /\ registering'.workflow \in workflows'
    <3>1. PICK p \in registering.todo :
            registering' = [registering EXCEPT !.todo = @ \ {p}, !.held = states[p],
                               !.phase = IF p \in Known THEN "apply" ELSE "next"]
      BY <1>3 DEF RegisterNext
    <3>2. p \in Policies /\ states[p] \in Number \cup {None} /\ workflows' = workflows
      BY <1>3, <2>1 DEF Registration, RegisterNext
    <3> QED
      BY <2>1, <3>1, <3>2 DEF Registration
  <2> QED
    BY <1>3, <2>2 DEF RegisterNext
<1>4. CASE RegisterApply
  <2>1. registering \in Registration /\ registering.workflow \in workflows
    BY <1>4, <1>n DEF RegisterApply
  <2>2. registering' \in Registration /\ registering'.workflow \in workflows'
    BY <1>4, <2>1 DEF RegisterApply, Registration
  <2>3. installed' \in [Workflows -> [Policies -> Number \cup {None}]]
    BY <1>4, <2>1 DEF RegisterApply, Registration
  <2> QED
    BY <1>4, <2>2, <2>3 DEF RegisterApply
<1>5. CASE RegisterEnds
  BY <1>5, <1>n DEF RegisterEnds, Registration
<1>6. ASSUME NEW w \in Workflows, Unregister(w)
      PROVE  LiveTypeOK'
  BY <1>6 DEF Unregister, WorkflowLockFree
<1>7. CASE Start
  <2>1. [Dead EXCEPT !.pc = "idle"] \in Thread
    BY <1>d DEF Thread
  <2> QED
    <3>1. PICK t \in Monitors :
            running' = {t} /\ thread' = [thread EXCEPT ![t] = [Dead EXCEPT !.pc = "idle"]]
            /\ stopping' = {J \ {t} : J \in stopping}
      BY <1>7 DEF Start
    <3>2. stopping' \in SUBSET (SUBSET Monitors)
      BY <3>1
    <3>3. thread' \in [Monitors -> Thread]
      BY <2>1, <3>1
    <3>4. stopEvent' \in BOOLEAN
      BY <1>7 DEF Start
    <3> QED
      BY <1>7, <3>1, <3>2, <3>3, <3>4 DEF Start
<1>8. CASE Stop
  <2>1. running \in SUBSET Monitors
    BY DEF NoThread
  <2>2. stopping' \in SUBSET (SUBSET Monitors)
    BY <1>8, <2>1 DEF Stop
  <2> QED
    BY <1>8, <2>2 DEF Stop
<1>18. CASE Joined
  BY <1>18 DEF Joined, NoThread
\* The steps of a monitor thread.
<1>t. ASSUME NEW t \in Monitors, NEW r \in Thread, Goes(t, r)
      PROVE  thread' \in [Monitors -> Thread]
  BY <1>t DEF Goes
<1>h. ASSUME NEW t \in Monitors, Applying(t)
      PROVE  /\ thread[t] \in Thread /\ Len(thread[t].batch) \in Nat
             /\ Len(thread[t].batch) > 0
             /\ Current(t) \in Number /\ Policy(Current(t)) \in Policies
             /\ [thread[t] EXCEPT !.pc = "snapshot"] \in Thread
             /\ \A S \in SUBSET Workflows :
                   [thread[t] EXCEPT !.pc = "broadcast", !.todo = S] \in Thread
  <2>1. /\ thread[t] \in Thread /\ Len(thread[t].batch) \in Nat
        /\ Len(thread[t].batch) > 0
        /\ Current(t) \in Number /\ Policy(Current(t)) \in Policies
    BY <1>h, BatchFacts
  <2>2. /\ [thread[t] EXCEPT !.pc = "snapshot"] \in Thread
        /\ \A S \in SUBSET Workflows :
              [thread[t] EXCEPT !.pc = "broadcast", !.todo = S] \in Thread
    BY <2>1 DEF Thread
  <2> QED
    BY <2>1, <2>2
<1>9. ASSUME NEW t \in Monitors, Poll(t)
      PROVE  LiveTypeOK'
  <2>1. CASE Goes(t, Dead) /\ UNCHANGED fetched
    BY <1>9, <1>d, <1>t, <2>1 DEF Poll
  <2>2. CASE /\ Goes(t, [pc |-> "commit", todo |-> {},
                         batch |-> [i \in 1 .. Len(changes) - fetched |-> fetched + i]])
             /\ fetched < Len(changes) /\ fetched' = Len(changes)
    <3>1. fetched \in Nat /\ Len(changes) \in Nat
      BY LenProperties
    <3>2. [i \in 1 .. Len(changes) - fetched |-> fetched + i] \in Seq(Number)
      <4>1. Len(changes) - fetched \in Nat /\ fetched + (Len(changes) - fetched) <= MaxChanges
        BY <2>2, <3>1
      <4> QED
        BY <3>1, <4>1, NumberSeq
    <3>3. [pc |-> "commit", todo |-> {},
           batch |-> [i \in 1 .. Len(changes) - fetched |-> fetched + i]] \in Thread
      BY <3>2 DEF Thread
    <3> QED
      BY <1>9, <1>t, <2>2, <3>1, <3>3 DEF Poll
  <2> QED
    BY <1>9, <2>1, <2>2 DEF Poll
<1>10. ASSUME NEW t \in Monitors, Applying(t), NextInBatch(t)
       PROVE  thread' \in [Monitors -> Thread]
  <2>1. Tail(thread[t].batch) \in Seq(Number)
    BY <1>10, BatchFacts
  <2>2. [pc |-> IF Len(thread[t].batch) = 1 THEN "idle" ELSE "commit",
         batch |-> Tail(thread[t].batch), todo |-> {}] \in Thread
    BY <2>1 DEF Thread
  <2> QED
    BY <1>10, <1>t, <2>2 DEF NextInBatch
<1>11. ASSUME NEW t \in Monitors, SkipUnchanged(t) \/ EndBroadcast(t)
       PROVE  LiveTypeOK'
  BY <1>10, <1>11 DEF SkipUnchanged, EndBroadcast, Applying
<1>12. ASSUME NEW t \in Monitors, Commit(t)
       PROVE  LiveTypeOK'
  BY <1>12, <1>h, <1>t DEF Commit, Applying
<1>13. ASSUME NEW t \in Monitors, Snapshot(t)
       PROVE  LiveTypeOK'
  BY <1>13, <1>h, <1>t DEF Snapshot, Applying
<1>14. ASSUME NEW t \in Monitors, Install(t)
       PROVE  LiveTypeOK'
  <2>1. PICK w \in thread[t].todo :
          /\ installed' = [installed EXCEPT ![w][Policy(Current(t))] = Current(t)]
          /\ missed' = missed \ {<<w, Policy(Current(t))>>}
          /\ Goes(t, [thread[t] EXCEPT !.todo = @ \ {w}])
    BY <1>14 DEF Install
  <2>2. [thread[t] EXCEPT !.todo = @ \ {w}] \in Thread /\ w \in Workflows
    <3>1. thread[t] \in Thread
      OBVIOUS
    <3> HIDE DEF LiveTypeOK
    <3>2. thread[t].todo \in SUBSET Workflows
      BY <3>1 DEF Thread
    <3> QED
      BY <2>1, <3>1, <3>2 DEF Thread
  <2>3. installed' \in [Workflows -> [Policies -> Number \cup {None}]]
    BY <1>14, <1>h, <2>1, <2>2 DEF Install, Applying
  <2> QED
    BY <1>14, <1>t, <2>1, <2>2, <2>3 DEF Install
<1>15. ASSUME NEW t \in Monitors, ApplyRaises(t)
       PROVE  LiveTypeOK'
  <2>1. Applying(t) /\ [Dead EXCEPT !.pc = "dying"] \in Thread
    BY <1>15, <1>d DEF ApplyRaises, Applying, Thread
  <2>2. Unapplied(t) \subseteq 1 .. fetched
    BY <2>1, BatchFacts
  <2>3. thread[t].todo \subseteq Workflows /\ Policy(Current(t)) \in Policies
    BY <1>h, <2>1 DEF Thread
  <2> QED
    BY <1>15, <1>t, <2>1, <2>2, <2>3 DEF ApplyRaises
<1>16. ASSUME NEW t \in Monitors, Die(t)
       PROVE  LiveTypeOK'
  BY <1>16, <1>d, <1>t DEF Die
<1>17. CASE UNCHANGED vars
  BY <1>17 DEF vars
<1> QED
  BY <1>1, <1>2, <1>3, <1>4, <1>5, <1>6, <1>7, <1>8, <1>9, <1>11, <1>12, <1>13, <1>14,
     <1>15, <1>16, <1>17, <1>18 DEF LiveNext, CallerStep, RegisterStep, MonitorStep

\* A thread that is not in the middle of a batch.
Resting == {Dead, [Dead EXCEPT !.pc = "idle"], [Dead EXCEPT !.pc = "dying"]}

\* How far the monitor is after each of its steps.
LEMMA MonitorMoves ==
  ASSUME LiveTypeOK, BatchInOrder, NEW t \in Monitors
  PROVE  /\ \A r \in Resting :
               thread' = [thread EXCEPT ![t] = r] /\ fetched' = fetched =>
                  /\ Applied(t)' = fetched /\ Len(thread'[t].batch) = 0
                  /\ ~Applying(t)' /\ ~Committed(t)'
         /\ UNCHANGED <<thread, fetched>> =>
               /\ Applied(t)' = Applied(t)
               /\ Applying(t)' <=> Applying(t)
               /\ Committed(t)' <=> Committed(t)
         /\ Poll(t) => ~Applying(t) /\ Applied(t)' = Applied(t) /\ ~Committed(t)'
                       /\ fetched \in Nat /\ fetched <= fetched'
         /\ SkipUnchanged(t) \/ EndBroadcast(t) =>
               /\ Applying(t) /\ Applied(t)' = Applied(t) + 1 /\ ~Committed(t)'
         /\ Commit(t) => Applying(t) /\ ~Committed(t) /\ Applied(t)' = Applied(t)
                         /\ Committed(t)' /\ Applying(t)'
                         /\ thread'[t].batch = thread[t].batch
         /\ Snapshot(t) \/ Install(t) =>
               /\ Applying(t) /\ Committed(t) /\ Applied(t)' = Applied(t)
               /\ Committed(t)' /\ Applying(t)' /\ thread'[t].batch = thread[t].batch
         /\ ApplyRaises(t) => Applying(t)
<1>f. /\ Len(thread[t].batch) \in Nat /\ Applied(t) \in Nat
      /\ fetched = Applied(t) + Len(thread[t].batch)
      /\ fetched \in Nat /\ Len(changes) \in Nat
      /\ Applying(t) => Len(thread[t].batch) > 0
      /\ ~Applying(t) => Applied(t) = fetched
      /\ thread[t] \in Thread
  BY BatchFacts, LenProperties DEF LiveTypeOK
<1>g. \A r : thread' = [thread EXCEPT ![t] = r] => thread'[t] = r
  BY DEF LiveTypeOK
<1>1. ASSUME NEW r \in Resting, thread' = [thread EXCEPT ![t] = r], fetched' = fetched
      PROVE  /\ Applied(t)' = fetched /\ Len(thread'[t].batch) = 0
             /\ ~Applying(t)' /\ ~Committed(t)'
  <2>1. r.batch = <<>> /\ r.pc \in {"dead", "idle", "dying"}
    BY DEF Resting, Dead
  <2>2. thread'[t] = r
    BY <1>1, <1>g
  <2>3. Len(thread'[t].batch) = 0
    BY <2>1, <2>2
  <2> QED
    BY <1>1, <1>f, <2>1, <2>2, <2>3 DEF Applied, Applying, Committed
<1>2. ASSUME UNCHANGED <<thread, fetched>>
      PROVE  /\ Applied(t)' = Applied(t)
             /\ Applying(t)' <=> Applying(t)
             /\ Committed(t)' <=> Committed(t)
  BY <1>2 DEF Applied, Applying, Committed
<1>3. ASSUME Poll(t)
      PROVE  ~Applying(t) /\ Applied(t)' = Applied(t) /\ ~Committed(t)'
             /\ fetched \in Nat /\ fetched <= fetched'
  <2>1. ~Applying(t)
    BY <1>3 DEF Poll, Applying
  <2>2. CASE Goes(t, Dead) /\ UNCHANGED fetched
    BY <1>1, <1>f, <2>1, <2>2 DEF Goes, Resting
  <2>3. CASE /\ Goes(t, [pc |-> "commit", todo |-> {},
                         batch |-> [i \in 1 .. Len(changes) - fetched |-> fetched + i]])
             /\ fetched < Len(changes) /\ fetched' = Len(changes)
    <3>1. /\ thread'[t].pc = "commit"
          /\ thread'[t].batch = [i \in 1 .. Len(changes) - fetched |-> fetched + i]
      BY <2>3 DEF Goes, LiveTypeOK
    <3>2. Len(thread'[t].batch) = Len(changes) - fetched
      BY <1>f, <2>3, <3>1, BatchFacts, NumberSeq
    <3>3. fetched' - Len(thread'[t].batch) = fetched
      BY <1>f, <2>3, <3>2
    <3>4. Applied(t)' = Applied(t)
      BY <1>f, <2>1, <3>3 DEF Applied
    <3>5. ~Committed(t)'
      BY <3>1 DEF Committed
    <3> QED
      BY <1>f, <2>1, <2>3, <3>4, <3>5
  <2> QED
    BY <1>3, <2>2, <2>3 DEF Poll
<1>4. ASSUME SkipUnchanged(t) \/ EndBroadcast(t)
      PROVE  Applying(t) /\ Applied(t)' = Applied(t) + 1 /\ ~Committed(t)'
  <2>1. Applying(t) /\ NextInBatch(t) /\ UNCHANGED fetched
    BY <1>4 DEF SkipUnchanged, EndBroadcast, Applying
  <2>2. /\ thread'[t].batch = Tail(thread[t].batch)
        /\ thread'[t].pc \in {"idle", "commit"}
    BY <1>g, <2>1 DEF NextInBatch, Goes
  <2>3. Len(thread'[t].batch) = Len(thread[t].batch) - 1
    BY <2>1, <2>2, BatchFacts
  <2>4. Applied(t)' = Applied(t) + 1
    <3>1. fetched' - Len(thread'[t].batch) = (fetched - Len(thread[t].batch)) + 1
      BY <1>f, <2>1, <2>3
    <3> QED
      BY <3>1 DEF Applied
  <2>5. ~Committed(t)'
    BY <2>2 DEF Committed
  <2> QED
    BY <2>1, <2>4, <2>5
<1>5. ASSUME Commit(t)
      PROVE  /\ Applying(t) /\ ~Committed(t) /\ Applied(t)' = Applied(t)
             /\ Committed(t)' /\ Applying(t)' /\ thread'[t].batch = thread[t].batch
  <2>1. thread'[t].batch = thread[t].batch /\ thread'[t].pc = "snapshot"
    BY <1>5, <1>f, <1>g DEF Commit, Goes, Thread
  <2> QED
    BY <1>5, <2>1 DEF Commit, Applied, Applying, Committed
<1>6. ASSUME Snapshot(t) \/ Install(t)
      PROVE  /\ Applying(t) /\ Committed(t) /\ Applied(t)' = Applied(t)
             /\ Committed(t)' /\ Applying(t)' /\ thread'[t].batch = thread[t].batch
  <2>1. thread'[t].batch = thread[t].batch /\ thread'[t].pc = "broadcast"
    BY <1>6, <1>f, <1>g DEF Snapshot, Install, Goes, Thread
  <2> QED
    BY <1>6, <2>1 DEF Snapshot, Install, Applied, Applying, Committed
<1>7. ApplyRaises(t) => Applying(t)
  BY DEF ApplyRaises, Applying
<1> QED
  BY <1>1, <1>2, <1>3, <1>4, <1>5, <1>6, <1>7

\* Steps that are not a monitor's leave every thread alone, or start one.
OutsideStep ==
    \/ PushChange \/ Stop \/ Joined \/ RegisterStep
    \/ \E w \in Workflows : Register(w) \/ Unregister(w)

\* What the callers leave alone.
LEMMA OutsideLeaves ==
  ASSUME OutsideStep
  PROVE  UNCHANGED <<thread, fetched, states, lost>>
BY DEF OutsideStep, PushChange, Stop, Joined, RegisterStep, RegisterNext, RegisterApply,
       RegisterEnds, Register, Unregister

\* The batch stays what is left of the fetched changes, oldest first.
LEMMA BatchStep ==
  ASSUME SingleMonitor, LiveTypeOK, BatchInOrder, [LiveNext]_vars
  PROVE  BatchInOrder'
<1>0. CASE UNCHANGED <<thread, fetched, lost>>
  BY <1>0 DEF BatchInOrder, Applied, Applying
<1>1. CASE OutsideStep \/ UNCHANGED vars
  BY <1>0, <1>1, OutsideLeaves DEF vars
<1>q. ASSUME NEW t \in Monitors,
             /\ Applied(t)' >= 0
             /\ \A i \in 1 .. Len(thread'[t].batch) : thread'[t].batch[i] = Applied(t)' + i
             /\ Applying(t)' <=> Len(thread'[t].batch) > 0
             /\ \A n \in lost' : n <= Applied(t)'
      PROVE  BatchInOrder'
  BY <1>q DEF SingleMonitor, BatchInOrder
<1>r. ASSUME NEW t \in Monitors, NEW r \in Resting, thread' = [thread EXCEPT ![t] = r],
             fetched' = fetched, lost' \subseteq 1 .. fetched
      PROVE  BatchInOrder'
  <2>1. Applied(t)' = fetched /\ ~Applying(t)' /\ Len(thread'[t].batch) = 0
    BY <1>r, MonitorMoves
  <2>2. fetched \in Nat
    BY BatchFacts
  <2>3. /\ Applied(t)' >= 0
        /\ \A i \in 1 .. Len(thread'[t].batch) : thread'[t].batch[i] = Applied(t)' + i
        /\ \A n \in lost' : n <= Applied(t)'
    <3>1. Applied(t)' >= 0
      BY <2>1, <2>2
    <3>2. \A i \in 1 .. Len(thread'[t].batch) : FALSE
      BY <2>1
    <3>3. \A n \in lost' : n <= fetched
      BY <1>r, <2>2
    <3> QED
      BY <2>1, <3>1, <3>2, <3>3, Zenon
  <2>4. Applying(t)' <=> Len(thread'[t].batch) > 0
    BY <2>1
  <2> QED
    BY <1>q, <2>3, <2>4
<1>l. lost \subseteq 1 .. fetched
  BY DEF LiveTypeOK
<1>2. CASE Start
  <2>1. PICK t \in Monitors : thread' = [thread EXCEPT ![t] = [Dead EXCEPT !.pc = "idle"]]
    BY <1>2 DEF Start
  <2> QED
    BY <1>2, <1>l, <1>r, <2>1 DEF Start, Resting
<1>3. ASSUME NEW t \in Monitors, Poll(t)
      PROVE  BatchInOrder'
  <2>1. CASE Goes(t, Dead) /\ UNCHANGED fetched
    BY <1>3, <1>l, <1>r, <2>1 DEF Poll, Goes, Resting
  <2>2. CASE /\ Goes(t, [pc |-> "commit", todo |-> {},
                         batch |-> [i \in 1 .. Len(changes) - fetched |-> fetched + i]])
             /\ fetched < Len(changes) /\ fetched' = Len(changes)
    <3>1. /\ thread'[t].pc = "commit"
          /\ thread'[t].batch = [i \in 1 .. Len(changes) - fetched |-> fetched + i]
      BY <2>2 DEF Goes, LiveTypeOK
    <3>2. /\ Len(changes) \in Nat /\ fetched \in Nat /\ Len(changes) <= MaxChanges
          /\ Applied(t) = fetched /\ Applied(t)' = Applied(t)
      BY <1>3, MonitorMoves, BatchFacts, LenProperties DEF LiveTypeOK
    <3>3. Len(thread'[t].batch) = Len(changes) - fetched
      BY <2>2, <3>1, <3>2, NumberSeq
    <3>4. \A i \in 1 .. Len(thread'[t].batch) : thread'[t].batch[i] = fetched + i
      BY <3>1, <3>3
    <3>5. lost' = lost
      BY <1>3 DEF Poll
    <3>6. Applying(t)'
      BY <3>1 DEF Applying
    <3> QED
      BY <1>l, <1>q, <2>2, <3>2, <3>3, <3>4, <3>5, <3>6
  <2> QED
    BY <1>3, <2>1, <2>2 DEF Poll
<1>4. ASSUME NEW t \in Monitors, SkipUnchanged(t) \/ EndBroadcast(t)
      PROVE  BatchInOrder'
  <2>1. NextInBatch(t) /\ lost' = lost
    BY <1>4 DEF SkipUnchanged, EndBroadcast
  <2>2. /\ thread'[t].batch = Tail(thread[t].batch)
        /\ thread'[t].pc = IF Len(thread[t].batch) = 1 THEN "idle" ELSE "commit"
    BY <2>1 DEF NextInBatch, Goes, LiveTypeOK
  <2>3. /\ Applying(t) /\ Applied(t)' = Applied(t) + 1
        /\ Applied(t) \in Nat /\ Len(thread[t].batch) \in Nat /\ Len(thread[t].batch) > 0
        /\ Len(Tail(thread[t].batch)) = Len(thread[t].batch) - 1
        /\ \A i \in 1 .. Len(thread[t].batch) - 1 :
              Tail(thread[t].batch)[i] = Applied(t) + 1 + i
    BY <1>4, MonitorMoves, BatchFacts
  <2>8. Len(thread'[t].batch) = Len(thread[t].batch) - 1
    BY <2>2, <2>3
  <2>4. Applying(t)' <=> Len(thread'[t].batch) > 0
    <3>1. thread'[t].pc = "idle" \/ thread'[t].pc = "commit"
      BY <2>2
    <3>2. thread'[t].pc = "idle" <=> Len(thread[t].batch) = 1
      BY <2>2
    <3>3. Applying(t)' <=> thread'[t].pc = "commit"
      BY <3>1 DEF Applying
    <3>4. Len(thread[t].batch) \in Nat /\ Len(thread[t].batch) > 0
      BY <2>3
    <3>5. Len(thread'[t].batch) > 0 <=> Len(thread[t].batch) # 1
      <4>1. \A k, n : n \in Nat /\ n > 0 /\ k = n - 1 => (k > 0 <=> n # 1)
        OBVIOUS
      <4> QED
        BY <2>8, <3>4, <4>1, Zenon
    <3>6. thread'[t].pc = "commit" <=> Len(thread[t].batch) # 1
      BY <3>1, <3>2
    <3> QED
      BY <3>3, <3>5, <3>6, Zenon
  <2>5. \A n \in lost : n <= Applied(t) + 1
    BY <1>l, <2>3 DEF BatchInOrder
  <2>6. \A i \in 1 .. Len(thread'[t].batch) : thread'[t].batch[i] = Applied(t)' + i
    BY <2>2, <2>3
  <2>7. Applied(t)' >= 0
    BY <2>3
  <2>9. \A n \in lost' : n <= Applied(t)'
    BY <2>1, <2>3, <2>5
  <2> QED
    BY <1>q, <2>4, <2>6, <2>7, <2>9, Zenon
<1>5. ASSUME NEW t \in Monitors, Commit(t) \/ Snapshot(t) \/ Install(t)
      PROVE  BatchInOrder'
  <2>1. thread'[t].batch = thread[t].batch /\ UNCHANGED lost
    BY <1>5, MonitorMoves DEF Commit, Snapshot, Install
  <2>2. Applied(t)' = Applied(t) /\ Applying(t) /\ Applying(t)'
    BY <1>5, MonitorMoves
  <2>3. /\ Applied(t) >= 0
        /\ \A k \in 1 .. Len(thread[t].batch) : thread[t].batch[k] = Applied(t) + k
        /\ Len(thread[t].batch) > 0
        /\ \A n \in lost : n <= Applied(t)
    BY <2>2 DEF BatchInOrder
  <2>4. /\ Applied(t)' >= 0
        /\ \A k \in 1 .. Len(thread'[t].batch) : thread'[t].batch[k] = Applied(t)' + k
        /\ Applying(t)' <=> Len(thread'[t].batch) > 0
        /\ \A n \in lost' : n <= Applied(t)'
    BY <2>1, <2>2, <2>3, Zenon
  <2> QED
    BY <1>q, <2>4, Zenon
<1>6. ASSUME NEW t \in Monitors, ApplyRaises(t)
      PROVE  BatchInOrder'
  <2>1. Unapplied(t) \subseteq 1 .. fetched
    BY BatchFacts
  <2> QED
    BY <1>6, <1>l, <1>r, <2>1 DEF ApplyRaises, Goes, Resting
<1>7. ASSUME NEW t \in Monitors, Die(t)
      PROVE  BatchInOrder'
  BY <1>7, <1>l, <1>r DEF Die, Goes, Resting
<1> QED
  BY <1>1, <1>2, <1>3, <1>4, <1>5, <1>6, <1>7
     DEF LiveNext, CallerStep, OutsideStep, MonitorStep

\* Every fetched change is about a policy.
LEMMA HistoryTyped ==
  ASSUME LiveTypeOK
  PROVE  fetched \in Nat /\ \A n \in 1 .. fetched : Policy(n) \in Policies
<1>1. /\ fetched \in 0 .. Len(changes) /\ Len(changes) \in Nat
      /\ \A n \in 1 .. Len(changes) : changes[n] \in Change
  BY LenProperties, ElementOfSeq DEF LiveTypeOK
<1>2. \A n \in 1 .. fetched : n \in 1 .. Len(changes)
  BY <1>1
<1> QED
  BY <1>1, <1>2 DEF Policy, Change

\* A change that was fetched is never altered.
LEMMA ChangesKept ==
  ASSUME LiveTypeOK, [LiveNext]_vars
  PROVE  \A n \in 1 .. fetched : changes'[n] = changes[n] /\ Policy(n)' = Policy(n)
<1>1. CASE PushChange
  <2>1. PICK c \in Change : changes' = Append(changes, c)
    BY <1>1 DEF PushChange
  <2>2. \A n \in 1 .. Len(changes) : changes'[n] = changes[n]
    BY <2>1, AppendProperties DEF LiveTypeOK
  <2>3. fetched \in 0 .. Len(changes) /\ Len(changes) \in Nat
    BY LenProperties DEF LiveTypeOK
  <2>4. \A n \in 1 .. fetched : n \in 1 .. Len(changes)
    BY <2>3
  <2> QED
    BY <2>2, <2>4 DEF Policy
<1>2. CASE UNCHANGED changes
  BY <1>2 DEF Policy
<1> QED
  BY <1>1, <1>2
     DEF LiveNext, CallerStep, RegisterStep, MonitorStep, Start, Stop, Joined, Register,
         Unregister, RegisterNext, RegisterApply, RegisterEnds, Poll, SkipUnchanged, Commit,
         Snapshot, Install, EndBroadcast, ApplyRaises, Die, vars

\* The part of a step that StatesApplied and the invariants after it depend on.
LEMMA RestingStep ==
  ASSUME LiveTypeOK, BatchInOrder, NEW t \in Monitors,
         \/ Start /\ thread' = [thread EXCEPT ![t] = [Dead EXCEPT !.pc = "idle"]]
         \/ ApplyRaises(t) \/ Die(t)
  PROVE  /\ Applied(t)' = fetched /\ ~Applying(t)' /\ ~Committed(t)' /\ fetched' = fetched
         /\ UNCHANGED <<changes, states, workflows, subscriptions, installed, registering, ready>>
         /\ thread'[t].pc # "snapshot" /\ thread'[t].pc # "broadcast"
<1>1. \E r \in Resting : thread' = [thread EXCEPT ![t] = r]
  BY DEF ApplyRaises, Die, Goes, Resting
<1>2. fetched' = fetched
  BY DEF Start, ApplyRaises, Die
<1>3. Applied(t)' = fetched /\ ~Applying(t)' /\ ~Committed(t)'
  BY <1>1, <1>2, MonitorMoves
<1> QED
  BY <1>2, <1>3 DEF Start, ApplyRaises, Die, Committed

\* A policy stands at a change that the monitor has reached, or at none.
LEMMA StatesStep ==
  ASSUME SingleMonitor, LiveTypeOK, BatchInOrder, StatesApplied, [LiveNext]_vars
  PROVE  StatesApplied'
<1>a. /\ states \in [Policies -> Number \cup {None}]
      /\ \A p \in Policies : states[p] # None =>
            states[p] \in 1 .. fetched /\ Policy(states[p]) = p
  BY DEF LiveTypeOK, StatesApplied
<1>b. \A t \in Monitors, p \in Policies : states[p] # None =>
         states[p] <= Applied(t) \/ (Committed(t) /\ states[p] = Applied(t) + 1)
  BY DEF StatesApplied
<1>c. \A t \in Monitors : Committed(t) => states[Policy(Applied(t) + 1)] = Applied(t) + 1
  BY DEF StatesApplied
<1>k. \A n \in 1 .. fetched : Policy(n)' = Policy(n)
  BY ChangesKept
<1>q. ASSUME NEW t \in Monitors, UNCHANGED states, fetched' \in Nat, fetched' >= fetched,
             \A p \in Policies : states[p] # None =>
                states[p] <= Applied(t)' \/ (Committed(t)' /\ states[p] = Applied(t)' + 1),
             Committed(t)' => Committed(t) /\ Applied(t)' = Applied(t)
      PROVE  StatesApplied'
  <2>1. \A p \in Policies : states'[p] # None =>
            states'[p] \in 1 .. fetched' /\ changes'[states'[p]].policy = p
    <3>1. \A n \in 1 .. fetched : n \in 1 .. fetched'
      BY <1>q, BatchFacts
    <3> QED
      BY <1>a, <1>k, <1>q, <3>1 DEF Policy
  <2>2. Committed(t)' => states'[Policy(Applied(t) + 1)'] = Applied(t)' + 1
    <3>1. ASSUME Committed(t)'
          PROVE  states'[changes'[Applied(t)' + 1].policy] = Applied(t)' + 1
      <4>1. Committed(t) /\ Applied(t)' = Applied(t)
        BY <1>q, <3>1
      <4>2. Applying(t)
        BY <4>1 DEF Committed, Applying
      <4>3. Applied(t) + 1 \in 1 .. fetched
        BY <4>2, BatchFacts
      <4> QED
        BY <1>c, <1>k, <1>q, <4>1, <4>3 DEF Policy
    <3> QED
      BY <3>1 DEF Policy
  <2>3. \A s \in Monitors : s = t
    BY DEF SingleMonitor
  <2> QED
    BY <1>q, <2>1, <2>2, <2>3 DEF StatesApplied, Policy
<1>f. \A t \in Monitors : /\ fetched \in Nat /\ Applied(t) \in Nat /\ Applied(t) <= fetched
                          /\ ~Applying(t) => Applied(t) = fetched
                          /\ Committed(t) => Applying(t)
  BY BatchFacts DEF Committed, Applying
<1>1. CASE OutsideStep \/ UNCHANGED vars
  <2>1. UNCHANGED <<thread, fetched, states>>
    BY <1>1, OutsideLeaves DEF vars
  <2>2. PICK t \in Monitors : TRUE
    BY LiveUpdateAssumption
  <2>3. Applied(t)' = Applied(t) /\ (Committed(t)' <=> Committed(t))
    BY <2>1, MonitorMoves
  <2> QED
    BY <1>b, <1>f, <1>q, <2>1, <2>3
<1>r. ASSUME NEW t \in Monitors,
             Applied(t)' = fetched /\ ~Committed(t)' /\ fetched' = fetched /\ UNCHANGED states
      PROVE  StatesApplied'
  BY <1>a, <1>f, <1>q, <1>r
<1>2. CASE Start
  <2>1. PICK t \in Monitors : thread' = [thread EXCEPT ![t] = [Dead EXCEPT !.pc = "idle"]]
    BY <1>2 DEF Start
  <2> QED
    BY <1>2, <1>r, <2>1, RestingStep
<1>3. ASSUME NEW t \in Monitors, Poll(t)
      PROVE  StatesApplied'
  <2>1. /\ ~Applying(t) /\ Applied(t)' = Applied(t) /\ ~Committed(t)'
        /\ fetched <= fetched' /\ fetched' \in Nat
    BY <1>3, MonitorMoves, TypeStep, LenProperties DEF LiveTypeOK
  <2>2. UNCHANGED states
    BY <1>3 DEF Poll
  <2> QED
    BY <1>b, <1>f, <1>q, <2>1, <2>2
<1>4. ASSUME NEW t \in Monitors, SkipUnchanged(t) \/ EndBroadcast(t)
      PROVE  StatesApplied'
  <2>1. Applied(t)' = Applied(t) + 1 /\ ~Committed(t)'
    BY <1>4, MonitorMoves
  <2>2. UNCHANGED <<states, fetched>>
    BY <1>4 DEF SkipUnchanged, EndBroadcast
  <2>3. \A p \in Policies : states[p] # None => states[p] <= Applied(t) + 1
    BY <1>a, <1>b, <1>f
  <2> QED
    BY <1>f, <1>q, <2>1, <2>2, <2>3
<1>5. ASSUME NEW t \in Monitors, Snapshot(t) \/ Install(t)
      PROVE  StatesApplied'
  <2>1. Committed(t) /\ Committed(t)' /\ Applied(t)' = Applied(t)
    BY <1>5, MonitorMoves
  <2>2. UNCHANGED <<states, fetched>>
    BY <1>5 DEF Snapshot, Install
  <2> QED
    BY <1>b, <1>f, <1>q, <2>1, <2>2
<1>6. ASSUME NEW t \in Monitors, Commit(t)
      PROVE  StatesApplied'
  <2>1. /\ Applying(t) /\ ~Committed(t) /\ Applied(t)' = Applied(t) /\ Committed(t)'
        /\ UNCHANGED <<changes, fetched>>
    BY <1>6, MonitorMoves DEF Commit
  <2>2. Current(t) = Applied(t) + 1 /\ Current(t) \in 1 .. fetched /\ Policy(Current(t)) \in Policies
    BY <2>1, BatchFacts
  <2>3. states' = [states EXCEPT ![Policy(Current(t))] = Current(t)]
    BY <1>6 DEF Commit
  <2> PICK n, q : n = Current(t) /\ q = Policy(Current(t))
    OBVIOUS
  <2>4. /\ states'[q] = n /\ q \in Policies /\ n \in 1 .. fetched /\ n = Applied(t) + 1
        /\ changes'[n].policy = q
        /\ \A p \in Policies \ {q} : states'[p] = states[p]
    BY <1>a, <2>1, <2>2, <2>3 DEF Policy
  <2>5. \A p \in Policies : states'[p] # None =>
            /\ states'[p] \in 1 .. fetched' /\ changes'[states'[p]].policy = p
            /\ states'[p] <= Applied(t)' \/ states'[p] = Applied(t)' + 1
    <3>1. ASSUME NEW p \in Policies \ {q}, states'[p] # None
          PROVE  /\ states'[p] \in 1 .. fetched' /\ changes'[states'[p]].policy = p
                 /\ states'[p] <= Applied(t)'
      BY <1>a, <1>b, <2>1, <2>4, <3>1 DEF Policy
    <3> QED
      BY <2>1, <2>4, <3>1
  <2>6. states'[changes'[Applied(t)' + 1].policy] = Applied(t)' + 1
    BY <2>1, <2>4
  <2>7. \A s \in Monitors : s = t
    BY DEF SingleMonitor
  <2> QED
    BY <2>1, <2>5, <2>6, <2>7 DEF StatesApplied, Policy
<1>7. ASSUME NEW t \in Monitors, ApplyRaises(t) \/ Die(t)
      PROVE  StatesApplied'
  BY <1>7, <1>r, RestingStep
<1> QED
  BY <1>1, <1>2, <1>3, <1>4, <1>5, <1>6, <1>7
     DEF LiveNext, CallerStep, OutsideStep, MonitorStep

\* Nobody installs a policy that is newer than the engine's, or older than the
\* one it replaces.
LEMMA InstalledStep ==
  ASSUME LiveTypeOK, BatchInOrder, StatesApplied, InstalledBehind, HeldIsCurrent,
         [LiveNext]_vars
  PROVE  InstalledBehind' /\ NoDowngradeStep
<1>a. /\ states \in [Policies -> Number \cup {None}]
      /\ installed \in [Workflows -> [Policies -> Number \cup {None}]]
      /\ Number \cup {None} \subseteq Nat
      /\ \A w \in Workflows, p \in Policies : installed[w][p] <= states[p]
  BY LiveUpdateAssumption DEF LiveTypeOK, InstalledBehind, Number, None
<1>i. \A w \in Workflows, p \in Policies : installed[w][p] \in Nat /\ states[p] \in Nat
  BY <1>a
<1>0. CASE UNCHANGED <<installed, states>>
  BY <1>0, <1>a, <1>i DEF InstalledBehind, NoDowngradeStep
<1>1. CASE RegisterApply
  <2> PICK r : r = registering
    OBVIOUS
  <2> PICK v, q, n : v = r.workflow /\ q = Policy(r.held) /\ n = r.held
    OBVIOUS
  <2>1. /\ r.phase = "apply" /\ states' = states
        /\ installed' = [installed EXCEPT ![v][q] = n]
    BY <1>1 DEF RegisterApply
  <2>2. r \in Registration
    BY <2>1 DEF LiveTypeOK, NotRegistering
  <2>3. /\ v \in Workflows /\ n \in 1 .. fetched
        /\ installed[v][q] <= n /\ n <= states[q]
    BY <2>1, <2>2 DEF HeldIsCurrent, Registration
  <2>4. q \in Policies
    BY <2>3, HistoryTyped
  <2>5. \A w \in Workflows, p \in Policies :
           installed'[w][p] = IF w = v /\ p = q THEN n ELSE installed[w][p]
    BY <1>a, <2>1, <2>3, <2>4
  <2> QED
    BY <1>a, <1>i, <2>1, <2>3, <2>5 DEF InstalledBehind, NoDowngradeStep
<1>2. ASSUME NEW t \in Monitors, Commit(t)
      PROVE  InstalledBehind' /\ NoDowngradeStep
  <2> PICK n, q : n = Current(t) /\ q = Policy(Current(t))
    OBVIOUS
  <2>1. Applying(t) /\ ~Committed(t) /\ installed' = installed
    BY <1>2, MonitorMoves DEF Commit
  <2>2. n = Applied(t) + 1 /\ q \in Policies /\ Applied(t) \in Nat
    BY <2>1, BatchFacts
  <2>3. \A p \in Policies : states'[p] = IF p = q THEN n ELSE states[p]
    BY <1>2, <1>a, <2>2 DEF Commit
  <2>4. states[q] <= n
    BY <1>a, <2>1, <2>2 DEF StatesApplied, None
  <2>5. \A w \in Workflows : installed[w][q] <= n
    BY <1>a, <1>i, <2>2, <2>4
  <2> QED
    BY <1>a, <1>i, <2>1, <2>3, <2>5 DEF InstalledBehind, NoDowngradeStep
<1>3. ASSUME NEW t \in Monitors, Install(t)
      PROVE  InstalledBehind' /\ NoDowngradeStep
  <2> PICK n, q : n = Current(t) /\ q = Policy(Current(t))
    OBVIOUS
  <2>1. PICK v \in thread[t].todo : installed' = [installed EXCEPT ![v][q] = n]
    BY <1>3 DEF Install
  <2>2. Applying(t) /\ Committed(t) /\ states' = states
    BY <1>3, MonitorMoves DEF Install
  <2>3. /\ n = Applied(t) + 1 /\ q \in Policies /\ v \in Workflows
    BY <2>2, BatchFacts DEF LiveTypeOK, Thread
  <2>4. states[q] = n
    BY <2>2, <2>3 DEF StatesApplied
  <2>5. \A w \in Workflows, p \in Policies :
           installed'[w][p] = IF w = v /\ p = q THEN n ELSE installed[w][p]
    BY <1>a, <2>1, <2>3
  <2> QED
    BY <1>a, <1>i, <2>2, <2>4, <2>5 DEF InstalledBehind, NoDowngradeStep
<1> QED
  BY <1>0, <1>1, <1>2, <1>3
     DEF LiveNext, CallerStep, RegisterStep, MonitorStep, PushChange, Start, Stop, Joined,
         Register, Unregister, RegisterNext, RegisterEnds, Poll, SkipUnchanged,
         Snapshot, EndBroadcast, ApplyRaises, Die, vars

\* While a registration holds _workflow_lock, at most the commit of the change at
\* the head of the batch makes what it has read old, and its broadcast waits.
LEMMA HeldStep ==
  ASSUME SingleMonitor, LiveTypeOK, BatchInOrder, StatesApplied, InstalledBehind,
         HeldIsCurrent, [LiveNext]_vars
  PROVE  HeldIsCurrent'
<1>a. /\ states \in [Policies -> Number \cup {None}]
      /\ installed \in [Workflows -> [Policies -> Number \cup {None}]]
      /\ fetched \in Nat
  BY LenProperties DEF LiveTypeOK
<1>k. \A n \in 1 .. fetched : Policy(n)' = Policy(n) /\ changes'[n] = changes[n]
  BY ChangesKept
<1> PICK r, n, q, v : r = registering /\ n = r.held /\ q = Policy(r.held) /\ v = r.workflow
  OBVIOUS
<1>h. r.phase = "apply" =>
        /\ n \in 1 .. fetched /\ q \in Policies /\ v \in Workflows
        /\ installed[v][q] <= n /\ n <= states[q]
        /\ \/ n = states[q]
           \/ \E t \in Monitors : thread[t].pc = "snapshot" /\ states[q] = Applied(t) + 1
  BY HistoryTyped DEF HeldIsCurrent, LiveTypeOK, NotRegistering, Registration
\* A step that leaves the registration alone.
<1>q. ASSUME r.phase = "apply" =>
                /\ registering' = r /\ fetched' \in Nat /\ fetched <= fetched'
                /\ installed'[v][q] <= n /\ n <= states'[q]
                /\ \/ n = states'[q]
                   \/ \E t \in Monitors : thread'[t].pc = "snapshot"
                                          /\ states'[q] = Applied(t)' + 1,
             r.phase # "apply" => registering'.phase # "apply"
      PROVE  HeldIsCurrent'
  <2>1. CASE r.phase = "apply"
    <3>1. changes'[n].policy = q /\ n \in 1 .. fetched'
      BY <1>a, <1>h, <1>k, <1>q, <2>1 DEF Policy
    <3> QED
      BY <1>q, <2>1, <3>1 DEF HeldIsCurrent, Policy
  <2>2. CASE r.phase # "apply"
    BY <1>q, <2>2 DEF HeldIsCurrent
  <2> QED
    BY <2>1, <2>2
<1>1. CASE UNCHANGED <<thread, fetched, states, installed, registering>>
  <2>1. \A t \in Monitors : Applied(t)' = Applied(t)
    BY <1>1 DEF Applied
  <2>2. fetched <= fetched
    BY <1>a
  <2> QED
    BY <1>1, <1>a, <1>h, <1>q, <2>1, <2>2
<1>2. ASSUME NEW w \in Workflows, Register(w)
      PROVE  HeldIsCurrent'
  BY <1>2 DEF Register, HeldIsCurrent
<1>3. CASE RegisterNext
  <2>1. PICK p \in r.todo :
          registering' = [r EXCEPT !.todo = @ \ {p}, !.held = states[p],
                             !.phase = IF p \in Known THEN "apply" ELSE "next"]
    BY <1>3 DEF RegisterNext
  <2>2. r \in Registration /\ UNCHANGED <<installed, states, fetched, changes>>
    BY <1>3 DEF RegisterNext, LiveTypeOK, NotRegistering
  <2>3. p \in Policies /\ v \in Workflows
    BY <2>2 DEF Registration
  <2>4. /\ registering'.held = states[p] /\ registering'.workflow = v
        /\ registering'.phase = IF p \in Known THEN "apply" ELSE "next"
    BY <2>1, <2>2 DEF Registration
  <2>5. CASE p \in Known
    <3>1. /\ states[p] \in 1 .. fetched /\ changes[states[p]].policy = p
          /\ installed[v][p] <= states[p]
      BY <2>3, <2>5 DEF Known, StatesApplied, InstalledBehind, Policy
    <3> PICK m : m = states[p]
      OBVIOUS
    <3>2. /\ registering'.held = m /\ changes'[m].policy = p /\ m \in 1 .. fetched'
          /\ installed'[v][p] <= m /\ states'[p] = m /\ m <= m
      BY <1>a, <2>2, <2>4, <3>1
    <3> QED
      BY <2>4, <3>2 DEF HeldIsCurrent, Policy
  <2>6. CASE p \notin Known
    BY <2>4, <2>6 DEF HeldIsCurrent
  <2> QED
    BY <2>5, <2>6
<1>4. CASE RegisterApply \/ RegisterEnds
  <2>1. CASE RegisterApply
    <3>1. r \in Registration
      BY <2>1 DEF RegisterApply, LiveTypeOK, NotRegistering
    <3>2. registering'.phase = "next"
      BY <2>1, <3>1 DEF RegisterApply, Registration
    <3> QED
      BY <3>2 DEF HeldIsCurrent
  <2> QED
    BY <1>4, <2>1 DEF RegisterEnds, NotRegistering, HeldIsCurrent
<1>5. ASSUME NEW t \in Monitors, thread[t].pc # "snapshot", UNCHANGED <<registering, installed>>,
             UNCHANGED states, fetched' \in Nat, fetched <= fetched'
      PROVE  HeldIsCurrent'
  <2>1. \A s \in Monitors : s = t
    BY DEF SingleMonitor
  <2>2. r.phase = "apply" => n = states[q]
    BY <1>5, <1>h, <2>1
  <2> QED
    BY <1>5, <1>h, <1>q, <2>2
<1>6. CASE Start
  <2>1. PICK t \in Monitors : thread[t].pc = "dead"
    BY <1>6 DEF Start, IsAlive
  <2> QED
    BY <1>5, <1>6, <1>a, <2>1 DEF Start
<1>7. ASSUME NEW t \in Monitors, Poll(t)
      PROVE  HeldIsCurrent'
  <2>1. fetched <= fetched' /\ fetched' \in Nat
    BY <1>7, MonitorMoves, TypeStep, LenProperties DEF LiveTypeOK
  <2> QED
    BY <1>5, <1>7, <2>1 DEF Poll
<1>8. ASSUME NEW t \in Monitors,
             SkipUnchanged(t) \/ EndBroadcast(t) \/ ApplyRaises(t) \/ Die(t)
      PROVE  HeldIsCurrent'
  <2>1. thread[t].pc # "snapshot" /\ UNCHANGED <<registering, installed, states, fetched>>
    BY <1>8 DEF SkipUnchanged, EndBroadcast, ApplyRaises, Die
  <2> QED
    BY <1>5, <1>a, <2>1
<1>9. ASSUME NEW t \in Monitors, Commit(t)
      PROVE  HeldIsCurrent'
  <2> PICK m, p : m = Current(t) /\ p = Policy(Current(t))
    OBVIOUS
  <2>1. /\ Applying(t) /\ ~Committed(t) /\ Applied(t)' = Applied(t)
        /\ UNCHANGED <<registering, installed, fetched>>
        /\ thread[t].pc = "commit"
    BY <1>9, MonitorMoves DEF Commit
  <2>2. m = Applied(t) + 1 /\ p \in Policies /\ Applied(t) \in Nat
    BY <2>1, BatchFacts
  <2>3. /\ \A x \in Policies : states'[x] = IF x = p THEN m ELSE states[x]
        /\ thread'[t].pc = "snapshot"
    BY <1>9, <1>a, <2>2 DEF Commit, Goes, LiveTypeOK, Thread
  <2>4. \A s \in Monitors : s = t
    BY DEF SingleMonitor
  <2>5. r.phase = "apply" => n = states[q]
    BY <1>h, <2>1, <2>4
  <2>6. states[p] <= m
    BY <1>a, <2>1, <2>2 DEF StatesApplied, None
  <2>7. CASE p = q
    BY <1>a, <1>h, <1>q, <2>1, <2>2, <2>3, <2>5, <2>6, <2>7
  <2>8. CASE p # q
    BY <1>a, <1>h, <1>q, <2>1, <2>3, <2>5, <2>8
  <2> QED
    BY <2>7, <2>8
<1>10. ASSUME NEW t \in Monitors, Snapshot(t)
       PROVE  HeldIsCurrent'
  BY <1>10 DEF Snapshot, WorkflowLockFree, NotRegistering, HeldIsCurrent
<1>11. ASSUME NEW t \in Monitors, Install(t)
       PROVE  HeldIsCurrent'
  <2> PICK m, p : m = Current(t) /\ p = Policy(Current(t))
    OBVIOUS
  <2>1. PICK w \in thread[t].todo : installed' = [installed EXCEPT ![w][p] = m]
    BY <1>11 DEF Install
  <2>2. /\ Applying(t) /\ Committed(t) /\ UNCHANGED <<states, registering, fetched>>
        /\ thread[t].pc = "broadcast"
    BY <1>11, MonitorMoves DEF Install
  <2>3. m = Applied(t) + 1 /\ p \in Policies /\ w \in Workflows
    BY <2>2, BatchFacts DEF LiveTypeOK, Thread
  <2>4. states[p] = m
    BY <2>2, <2>3 DEF StatesApplied
  <2>5. \A s \in Monitors : s = t
    BY DEF SingleMonitor
  <2>6. r.phase = "apply" => n = states[q]
    BY <1>h, <2>2, <2>5
  <2>7. r.phase = "apply" =>
          installed'[v][q] = IF w = v /\ p = q THEN m ELSE installed[v][q]
    BY <1>a, <1>h, <2>1, <2>3
  <2>8. r.phase = "apply" => installed'[v][q] <= n /\ n <= states'[q] /\ n = states'[q]
    BY <1>h, <2>2, <2>4, <2>6, <2>7
  <2> QED
    BY <1>a, <1>q, <2>2, <2>8
<1>12. ASSUME NEW w \in Workflows, Unregister(w)
       PROVE  HeldIsCurrent'
  BY <1>1, <1>12 DEF Unregister
<1>13. CASE PushChange \/ Stop \/ Joined \/ UNCHANGED vars
  BY <1>1, <1>13 DEF PushChange, Stop, Joined, vars
<1> QED
  BY <1>2, <1>3, <1>4, <1>6, <1>7, <1>8, <1>9, <1>10, <1>11, <1>12, <1>13
     DEF LiveNext, CallerStep, RegisterStep, MonitorStep

\* What a workflow runs of a policy it covers stays current, or on its way.
LEMMA UpToDateStep ==
  ASSUME SingleMonitor, LiveTypeOK, BatchInOrder, StatesApplied, HeldIsCurrent,
         [LiveNext]_vars,
         NEW w \in workflows, NEW p \in Policies, Covers(w, p), UpToDate(w, p)
  PROVE  UpToDate(w, p)'
<1>a. /\ states \in [Policies -> Number \cup {None}]
      /\ installed \in [Workflows -> [Policies -> Number \cup {None}]]
      /\ w \in Workflows
  BY DEF LiveTypeOK
\* Nothing is on its way when the monitor is neither about to take the snapshot
\* nor has w left to do.
<1>n. ASSUME NEW t \in Monitors, thread[t].pc # "snapshot",
             ~(thread[t].pc = "broadcast" /\ w \in thread[t].todo),
             UNCHANGED <<installed, states>>, missed \subseteq missed'
      PROVE  UpToDate(w, p)'
  <2>1. ~OnItsWay(w, states[p])
    BY <1>n DEF SingleMonitor, OnItsWay
  <2> QED
    BY <1>n, <2>1 DEF UpToDate
<1>1. CASE UNCHANGED <<installed, states, thread, missed>>
  BY <1>1 DEF UpToDate, OnItsWay, Current
<1>2. CASE RegisterApply
  <2> PICK r, q, n : r = registering /\ q = Policy(r.held) /\ n = r.held
    OBVIOUS
  <2>1. /\ r.phase = "apply" /\ UNCHANGED <<states, thread>>
        /\ installed' = [installed EXCEPT ![r.workflow][q] = n]
        /\ missed' = missed \ {<<r.workflow, q>>}
    BY <1>2 DEF RegisterApply
  <2>2. /\ n \in 1 .. fetched /\ q \in Policies /\ r.workflow \in Workflows
        /\ \/ n = states[q]
           \/ \E t \in Monitors : thread[t].pc = "snapshot" /\ states[q] = Applied(t) + 1
    BY <2>1, HistoryTyped DEF HeldIsCurrent, LiveTypeOK, NotRegistering, Registration
  <2>3. CASE r.workflow = w /\ q = p
    <3>1. CASE n = states[q]
      <4>1. installed'[w][p] = states'[p]
        BY <1>a, <2>1, <2>2, <2>3, <3>1
      <4> QED
        BY <4>1 DEF UpToDate
    <3>2. ASSUME NEW t \in Monitors, thread[t].pc = "snapshot", states[q] = Applied(t) + 1
          PROVE  UpToDate(w, p)'
      <4>1. Current(t) = Applied(t) + 1
        BY <3>2, BatchFacts DEF Applying
      <4>2. OnItsWay(w, states[p])'
        BY <2>1, <2>3, <3>2, <4>1 DEF OnItsWay, Current
      <4> QED
        BY <4>2 DEF UpToDate
    <3> QED
      BY <2>2, <3>1, <3>2
  <2>4. CASE ~(r.workflow = w /\ q = p)
    <3>1. installed'[w][p] = installed[w][p] /\ (<<w, p>> \in missed => <<w, p>> \in missed')
      BY <1>a, <2>1, <2>2, <2>4
    <3>2. OnItsWay(w, states[p]) => OnItsWay(w, states[p])'
      BY <2>1 DEF OnItsWay, Current
    <3> QED
      BY <2>1, <3>1, <3>2 DEF UpToDate
  <2> QED
    BY <2>3, <2>4
<1>3. CASE Start
  <2>1. PICK t \in Monitors : thread[t].pc = "dead"
    BY <1>3 DEF Start, IsAlive
  <2> QED
    BY <1>3, <1>n, <2>1 DEF Start
<1>4. ASSUME NEW t \in Monitors, Poll(t) \/ SkipUnchanged(t) \/ Die(t) \/ EndBroadcast(t)
      PROVE  UpToDate(w, p)'
  BY <1>4, <1>n DEF Poll, SkipUnchanged, Die, EndBroadcast
\* The steps of a broadcast, seen from policy p.
<1>c. ASSUME NEW t \in Monitors, Committed(t), NEW n, n = states[p], Current(t) = n
      PROVE  Policy(Current(t)) = p
  <2>1. Current(t) \in 1 .. fetched
    BY <1>c, BatchFacts DEF Committed, Applying
  <2> QED
    BY <1>c, <2>1 DEF StatesApplied, None
<1>5. ASSUME NEW t \in Monitors, Commit(t)
      PROVE  UpToDate(w, p)'
  <2> PICK n, q : n = Current(t) /\ q = Policy(Current(t))
    OBVIOUS
  <2>1. /\ thread[t].pc = "commit" /\ UNCHANGED <<installed, missed>>
        /\ states' = [states EXCEPT ![q] = n]
        /\ thread'[t].pc = "snapshot" /\ thread'[t].batch = thread[t].batch
    BY <1>5 DEF Commit, Goes, LiveTypeOK, Thread
  <2>2. q \in Policies
    BY <2>1, BatchFacts DEF Applying
  <2>3. CASE p = q
    <3>1. Current(t)' = states'[p]
      BY <1>a, <2>1, <2>2, <2>3 DEF Current
    <3> QED
      BY <2>1, <3>1 DEF UpToDate, OnItsWay
  <2>4. CASE p # q
    <3>1. ~OnItsWay(w, states[p])
      BY <2>1 DEF SingleMonitor, OnItsWay
    <3> QED
      BY <1>a, <2>1, <2>4, <3>1 DEF UpToDate
  <2> QED
    BY <2>3, <2>4
<1>6. ASSUME NEW t \in Monitors, Snapshot(t)
      PROVE  UpToDate(w, p)'
  <2>1. /\ thread[t].pc = "snapshot" /\ UNCHANGED <<installed, states, missed>>
        /\ thread'[t].pc = "broadcast" /\ thread'[t].batch = thread[t].batch
        /\ thread'[t].todo = {v \in workflows : Covers(v, Policy(Current(t)))}
    BY <1>6 DEF Snapshot, Goes, LiveTypeOK, Thread
  <2>2. CASE OnItsWay(w, states[p])
    <3>1. Current(t) = states[p]
      BY <2>2 DEF SingleMonitor, OnItsWay
    <3>2. Policy(Current(t)) = p
      BY <1>c, <2>1, <3>1 DEF Committed
    <3>3. w \in thread'[t].todo /\ Current(t)' = Current(t)
      BY <2>1, <3>2 DEF Current
    <3> QED
      BY <2>1, <3>1, <3>3 DEF UpToDate, OnItsWay
  <2> QED
    BY <2>1, <2>2 DEF UpToDate
<1>7. ASSUME NEW t \in Monitors, Install(t)
      PROVE  UpToDate(w, p)'
  <2> PICK n, q : n = Current(t) /\ q = Policy(Current(t))
    OBVIOUS
  <2>1. PICK v \in thread[t].todo :
          /\ installed' = [installed EXCEPT ![v][q] = n]
          /\ missed' = missed \ {<<v, q>>}
          /\ Goes(t, [thread[t] EXCEPT !.todo = @ \ {v}])
    BY <1>7 DEF Install
  <2>2. /\ Applying(t) /\ Committed(t) /\ states' = states /\ thread[t].pc = "broadcast"
        /\ n = Applied(t) + 1 /\ q \in Policies /\ v \in Workflows
    BY <1>7, MonitorMoves, BatchFacts DEF Install, LiveTypeOK, Thread
  <2>3. /\ thread'[t].pc = "broadcast" /\ thread'[t].batch = thread[t].batch
        /\ thread'[t].todo = thread[t].todo \ {v}
    BY <2>1, <2>2 DEF Goes, LiveTypeOK, Thread
  <2>4. states[q] = n
    BY <2>2 DEF StatesApplied
  <2>5. CASE v = w /\ q = p
    <3>1. installed'[w][p] = states'[p]
      BY <1>a, <2>1, <2>2, <2>4, <2>5
    <3> QED
      BY <3>1 DEF UpToDate
  <2>6. CASE ~(v = w /\ q = p)
    <3>1. installed'[w][p] = installed[w][p] /\ (<<w, p>> \in missed => <<w, p>> \in missed')
      BY <1>a, <2>1, <2>2, <2>6
    <3>2. ASSUME OnItsWay(w, states[p])
          PROVE  OnItsWay(w, states[p])'
      <4>1. Current(t) = states[p] /\ w \in thread[t].todo
        BY <2>2, <3>2 DEF SingleMonitor, OnItsWay
      <4>2. q = p
        BY <1>c, <2>2, <4>1
      <4>3. w \in thread'[t].todo /\ Current(t)' = Current(t)
        BY <2>3, <2>6, <4>1, <4>2 DEF Current
      <4> QED
        BY <2>2, <2>3, <4>1, <4>3 DEF OnItsWay
    <3> QED
      BY <2>2, <3>1, <3>2 DEF UpToDate, OnItsWay
  <2> QED
    BY <2>5, <2>6
<1>8. ASSUME NEW t \in Monitors, ApplyRaises(t)
      PROVE  UpToDate(w, p)'
  <2>1. /\ UNCHANGED <<installed, states>> /\ thread[t].pc # "snapshot"
        /\ missed' = missed \cup (thread[t].todo \X {Policy(Current(t))})
    BY <1>8 DEF ApplyRaises
  <2>2. CASE thread[t].pc = "broadcast" /\ w \in thread[t].todo
    <3>1. CASE OnItsWay(w, states[p])
      <4>1. Current(t) = states[p]
        BY <3>1 DEF SingleMonitor, OnItsWay
      <4>2. Policy(Current(t)) = p
        BY <1>c, <2>2, <4>1 DEF Committed
      <4> QED
        BY <2>1, <2>2, <4>2 DEF UpToDate
    <3> QED
      BY <2>1, <3>1 DEF UpToDate
  <2>3. CASE ~(thread[t].pc = "broadcast" /\ w \in thread[t].todo)
    BY <1>n, <2>1, <2>3
  <2> QED
    BY <2>2, <2>3
<1>9. CASE PushChange \/ Stop \/ Joined \/ RegisterNext \/ RegisterEnds \/ UNCHANGED vars
           \/ \E v \in Workflows : Register(v) \/ Unregister(v)
  BY <1>1, <1>9 DEF PushChange, Stop, Joined, RegisterNext, RegisterEnds, Register,
                    Unregister, vars
<1> QED
  BY <1>2, <1>3, <1>4, <1>5, <1>6, <1>7, <1>8, <1>9
     DEF LiveNext, CallerStep, RegisterStep, MonitorStep

\* A policy that the registration is done with stays current, or on its way.
LEMMA ReplayedStep ==
  ASSUME SingleMonitor, LiveTypeOK, BatchInOrder, StatesApplied, InstalledBehind,
         HeldIsCurrent, Replayed, [LiveNext]_vars
  PROVE  Replayed'
<1> PICK r, v : r = registering /\ v = registering.workflow
  OBVIOUS
<1>a. /\ states \in [Policies -> Number \cup {None}]
      /\ installed \in [Workflows -> [Policies -> Number \cup {None}]]
      /\ Number \cup {None} \subseteq Nat
  BY LiveUpdateAssumption DEF LiveTypeOK, Number, None
<1>t. r # NotRegistering =>
        /\ r \in Registration /\ v \in workflows /\ v \in Workflows
        /\ \A p \in Policies : Covers(v, p) =>
              p \in r.todo \/ (r.phase = "apply" /\ p = Policy(r.held)) \/ UpToDate(v, p)
  BY DEF LiveTypeOK, Replayed
<1>k. \A p \in Policies :
         r # NotRegistering /\ Covers(v, p) /\ UpToDate(v, p) => UpToDate(v, p)'
  BY <1>t, UpToDateStep
\* A registration that is left alone.
<1>1. CASE UNCHANGED <<registering, subscriptions>>
  <2>1. ASSUME r # NotRegistering, NEW p \in Policies, Covers(v, p)
        PROVE  p \in r.todo \/ (r.phase = "apply" /\ p = changes'[r.held].policy)
                 \/ UpToDate(v, p)'
    <3>1. r.phase = "apply" => changes'[r.held] = changes[r.held]
      BY ChangesKept DEF HeldIsCurrent
    <3> QED
      BY <1>k, <1>t, <2>1, <3>1 DEF Policy
  <2>2. \A p \in Policies : Covers(v, p)' = Covers(v, p)
    BY <1>1 DEF Covers
  <2> QED
    BY <1>1, <2>1, <2>2 DEF Replayed, Policy
<1>2. ASSUME NEW w \in Workflows, Register(w)
      PROVE  Replayed'
  <2>1. PICK S \in SUBSET Policies :
          /\ subscriptions' = [subscriptions EXCEPT ![w] = S]
          /\ registering' = [phase |-> "next", workflow |-> w,
                             todo |-> IF S = {} THEN Known ELSE S,
                             size |-> Cardinality(Known), held |-> None]
    BY <1>2 DEF Register
  <2>2. UNCHANGED <<installed, states>>
    BY <1>2 DEF Register
  <2>3. subscriptions'[w] = S /\ registering'.workflow = w
        /\ registering'.todo = IF S = {} THEN Known ELSE S
    BY <2>1 DEF LiveTypeOK
  <2>4. ASSUME NEW p \in Policies, S = {} \/ p \in S, p \notin registering'.todo
        PROVE  installed'[w][p] = states'[p]
    <3>1. states[p] = None
      BY <2>3, <2>4 DEF Known
    <3>2. installed[w][p] <= states[p] /\ installed[w][p] \in Nat
      BY <1>a DEF InstalledBehind
    <3> QED
      BY <2>2, <3>1, <3>2 DEF None
  <2>5. \A p \in Policies : Covers(w, p)' => S = {} \/ p \in S
    BY <2>3 DEF Covers
  <2>6. \A p \in Policies : installed'[w][p] = states'[p] => UpToDate(w, p)'
    BY DEF UpToDate
  <2> QED
    BY <2>3, <2>4, <2>5, <2>6 DEF Replayed
<1>3. CASE RegisterNext
  <2>1. PICK q \in r.todo :
          registering' = [r EXCEPT !.todo = @ \ {q}, !.held = states[q],
                             !.phase = IF q \in Known THEN "apply" ELSE "next"]
    BY <1>3 DEF RegisterNext
  <2>2. r # NotRegistering /\ r.phase = "next"
        /\ UNCHANGED <<installed, states, subscriptions, changes>>
    BY <1>3 DEF RegisterNext, NotRegistering
  <2>3. /\ registering'.held = states[q] /\ registering'.workflow = v
        /\ registering'.phase = IF q \in Known THEN "apply" ELSE "next"
        /\ registering'.todo = r.todo \ {q}
    BY <1>t, <2>1, <2>2 DEF Registration
  <2>4. ASSUME NEW p \in Policies, Covers(v, p)
        PROVE  p \in registering'.todo
                 \/ (registering'.phase = "apply" /\ p = changes'[registering'.held].policy)
                 \/ UpToDate(v, p)'
    <3>1. CASE p = q /\ q \in Known
      <4>1. changes[states[q]].policy = q
        BY <3>1 DEF Known, StatesApplied, Policy
      <4> QED
        BY <2>2, <2>3, <3>1, <4>1
    <3>2. CASE p = q /\ q \notin Known
      <4>1. states[p] = None /\ installed[v][p] <= states[p] /\ installed[v][p] \in Nat
        BY <1>a, <1>t, <2>2, <3>2 DEF Known, InstalledBehind
      <4>2. installed'[v][p] = states'[p]
        BY <2>2, <4>1 DEF None
      <4> QED
        BY <4>2 DEF UpToDate
    <3>3. CASE p # q
      <4>1. p \in r.todo \/ UpToDate(v, p)
        BY <1>t, <2>2, <2>4
      <4> QED
        BY <1>k, <2>2, <2>3, <2>4, <3>3, <4>1
    <3> QED
      BY <3>1, <3>2, <3>3
  <2>5. \A p \in Policies : Covers(v, p)' = Covers(v, p)
    BY <2>2 DEF Covers
  <2> QED
    BY <2>3, <2>4, <2>5 DEF Replayed, Policy
<1>4. CASE RegisterApply
  <2> PICK n, q : n = r.held /\ q = Policy(r.held)
    OBVIOUS
  <2>1. /\ r.phase = "apply" /\ r # NotRegistering
        /\ UNCHANGED <<states, thread, subscriptions>>
        /\ installed' = [installed EXCEPT ![v][q] = n]
        /\ registering' = [r EXCEPT !.phase = "next", !.held = None]
    BY <1>4 DEF RegisterApply, NotRegistering
  <2>2. /\ n \in 1 .. fetched /\ q \in Policies /\ v \in Workflows
        /\ \/ n = states[q]
           \/ \E t \in Monitors : thread[t].pc = "snapshot" /\ states[q] = Applied(t) + 1
    BY <1>t, <2>1, HistoryTyped DEF HeldIsCurrent
  <2>3. registering'.workflow = v /\ registering'.todo = r.todo
    BY <1>t, <2>1 DEF Registration
  <2>4. UpToDate(v, q)'
    <3>1. CASE n = states[q]
      <4>1. installed'[v][q] = states'[q]
        BY <1>a, <2>1, <2>2, <3>1
      <4> QED
        BY <4>1 DEF UpToDate
    <3>2. ASSUME NEW t \in Monitors, thread[t].pc = "snapshot", states[q] = Applied(t) + 1
          PROVE  UpToDate(v, q)'
      <4>1. Current(t) = Applied(t) + 1
        BY <3>2, BatchFacts DEF Applying
      <4>2. OnItsWay(v, states[q])'
        BY <2>1, <3>2, <4>1 DEF OnItsWay, Current
      <4> QED
        BY <4>2 DEF UpToDate
    <3> QED
      BY <2>2, <3>1, <3>2
  <2>5. ASSUME NEW p \in Policies, Covers(v, p)
        PROVE  p \in r.todo \/ UpToDate(v, p)'
    BY <1>k, <1>t, <2>1, <2>4, <2>5
  <2>6. \A p \in Policies : Covers(v, p)' = Covers(v, p)
    BY <2>1 DEF Covers
  <2> QED
    BY <2>3, <2>5, <2>6 DEF Replayed
<1>5. CASE RegisterEnds
  BY <1>5 DEF RegisterEnds, Replayed
<1>6. ASSUME NEW w \in Workflows, Unregister(w)
      PROVE  Replayed'
  BY <1>6 DEF Unregister, WorkflowLockFree, Replayed
<1>7. CASE PushChange \/ Start \/ Stop \/ Joined \/ UNCHANGED vars
           \/ \E t \in Monitors : MonitorStep(t) \/ ApplyRaises(t)
  <2>1. UNCHANGED <<registering, subscriptions>>
    BY <1>7 DEF PushChange, Start, Stop, Joined, vars, MonitorStep, Poll, SkipUnchanged,
                Commit, Snapshot, Install, EndBroadcast, Die, ApplyRaises
  <2> QED
    BY <1>1, <2>1
<1> QED
  BY <1>2, <1>3, <1>4, <1>5, <1>6, <1>7 DEF LiveNext, CallerStep, RegisterStep

\* A workflow becomes ready when its registration has replayed every policy.
LEMMA ReadyStep ==
  ASSUME SingleMonitor, LiveTypeOK, BatchInOrder, StatesApplied, HeldIsCurrent, Replayed,
         WorkflowsUpToDate, [LiveNext]_vars
  PROVE  WorkflowsUpToDate'
<1>1. ASSUME NEW w \in ready, w \in ready', NEW p \in Policies, Covers(w, p)'
      PROVE  UpToDate(w, p)'
  <2>1. subscriptions'[w] = subscriptions[w]
    BY <1>1 DEF LiveTypeOK, LiveNext, CallerStep, RegisterStep, MonitorStep, PushChange,
       Start, Stop, Joined, Register, Unregister, RegisterNext, RegisterApply, RegisterEnds,
       Poll, SkipUnchanged, Commit, Snapshot, Install, EndBroadcast, ApplyRaises, Die, vars
  <2>2. Covers(w, p) /\ w \in workflows
    BY <1>1, <2>1 DEF Covers, LiveTypeOK
  <2>3. UpToDate(w, p)
    BY <2>2 DEF WorkflowsUpToDate, UpToDate
  <2> QED
    BY <2>2, <2>3, UpToDateStep
<1>2. ASSUME NEW w \in ready', w \notin ready, NEW p \in Policies, Covers(w, p)'
      PROVE  UpToDate(w, p)'
  <2>1. RegisterEnds /\ registering.todo = {} /\ w = registering.workflow
    BY <1>2 DEF LiveNext, CallerStep, RegisterStep, MonitorStep, PushChange,
       Start, Stop, Joined, Register, Unregister, RegisterNext, RegisterApply, RegisterEnds,
       Poll, SkipUnchanged, Commit, Snapshot, Install, EndBroadcast, ApplyRaises, Die, vars
  <2>2. /\ registering # NotRegistering /\ registering.phase = "next"
        /\ UNCHANGED subscriptions
    BY <1>2, <2>1 DEF RegisterEnds, NotRegistering
  <2>3. w \in workflows /\ Covers(w, p)
    BY <1>2, <2>1, <2>2 DEF Covers, LiveTypeOK
  <2>4. UpToDate(w, p)
    BY <2>1, <2>2, <2>3 DEF Replayed
  <2> QED
    BY <2>3, <2>4, UpToDateStep
<1>3. \A w \in ready', p \in Policies : Covers(w, p)' => UpToDate(w, p)'
  BY <1>1, <1>2
<1> QED
  BY <1>3 DEF WorkflowsUpToDate, UpToDate

\* The changes that the monitor is done with, counted.
DoneBy(t, p) == {n \in 1 .. Applied(t) : Policy(n) = p} \ lost

\* With one monitor, what is done is what is before its batch and not lost.
LEMMA DoneIs ==
  SingleMonitor /\ LiveTypeOK /\ BatchInOrder =>
      \A t \in Monitors : /\ Applied(t) \in Nat /\ Applied(t) <= fetched
                          /\ \A p \in Policies : Done(p) = DoneBy(t, p)
<1> SUFFICES ASSUME SingleMonitor, LiveTypeOK, BatchInOrder, NEW t \in Monitors
             PROVE  /\ Applied(t) \in Nat /\ Applied(t) <= fetched
                    /\ \A p \in Policies : Done(p) = DoneBy(t, p)
  OBVIOUS
<1>1. /\ Applied(t) \in Nat /\ Len(thread[t].batch) \in Nat /\ fetched \in Nat
      /\ fetched = Applied(t) + Len(thread[t].batch)
      /\ Unapplied(t) = Applied(t) + 1 .. fetched
  BY BatchFacts
<1>2. UNION {Unapplied(s) : s \in Monitors} = Unapplied(t)
  BY DEF SingleMonitor
<1>3. \A n \in 1 .. fetched : n \notin Unapplied(t) <=> n \in 1 .. Applied(t)
  BY <1>1
<1>4. \A n \in 1 .. Applied(t) : n \in 1 .. fetched
  BY <1>1
<1>5. ASSUME NEW p \in Policies
      PROVE  Done(p) = DoneBy(t, p)
  BY <1>2, <1>3, <1>4 DEF Done, DoneBy
<1> QED
  BY <1>1, <1>5

\* What LastChangeWins says of one policy.
Wins(p) ==
    \A n \in Done(p) : (\A m \in Done(p) : m <= n) => SameText(n) \/ (states[p] > n)

\* A change that the monitor finishes is newer than all it has finished before.
LEMMA LastChangeStep ==
  ASSUME SingleMonitor, LiveTypeOK, BatchInOrder, StatesApplied, LastChangeWins,
         [LiveNext]_vars
  PROVE  LastChangeWins'
<1>a. states \in [Policies -> Number \cup {None}] /\ lost \subseteq 1 .. fetched
  BY DEF LiveTypeOK
<1>d. /\ \A t \in Monitors : Applied(t) \in Nat /\ Applied(t) <= fetched
      /\ \A t \in Monitors, p \in Policies : Done(p) = DoneBy(t, p)
  BY DoneIs
<1>e. \A t \in Monitors, p \in Policies : Done(p)' = DoneBy(t, p)'
  <2>1. LiveTypeOK' /\ BatchInOrder' /\ SingleMonitor'
    BY TypeStep, BatchStep DEF SingleMonitor
  <2>2. (SingleMonitor /\ LiveTypeOK /\ BatchInOrder =>
            \A t \in Monitors : /\ Applied(t) \in Nat /\ Applied(t) <= fetched
                                /\ \A p \in Policies : Done(p) = DoneBy(t, p))'
    BY DoneIs, PTL
  <2> QED
    BY <2>1, <2>2
<1>k. \A n \in 1 .. fetched : changes'[n] = changes[n] /\ Policy(n)' = Policy(n)
  BY ChangesKept
<1>f. fetched \in Nat
  BY LenProperties DEF LiveTypeOK
<1>w. ASSUME \A p \in Policies : Wins(p)'
      PROVE  LastChangeWins'
  BY <1>w DEF LastChangeWins, Wins
\* Nothing is done, and the policy stands where it stood.
<1>q. ASSUME NEW p \in Policies, states'[p] = states[p], Done(p)' = Done(p)
      PROVE  Wins(p)'
  <2>1. ASSUME NEW n \in Done(p), \A m \in Done(p) : m <= n
        PROVE  SameText(n)' \/ states'[p] > n
    <3>1. n \in 1 .. fetched /\ Policy(n) = p
      BY DEF Done
    <3>2. SameText(n) \/ states[p] > n
      BY <2>1 DEF LastChangeWins
    <3>3. states[p] # None => states[p] \in 1 .. fetched
      BY DEF StatesApplied
    <3>4. SameText(n) => SameText(n)'
      BY <1>k, <1>q, <3>1, <3>3 DEF SameText, Known, Policy
    <3> QED
      BY <1>q, <3>2, <3>4
  <2> QED
    BY <1>q, <2>1 DEF Wins
\* A change that is being broadcast is the one its policy stands at.
<1>i. ASSUME NEW t \in Monitors, thread[t].pc = "broadcast"
      PROVE  SameText(Current(t))
  <2>1. /\ Committed(t) /\ Current(t) = Applied(t) + 1
        /\ Current(t) \in 1 .. fetched /\ Policy(Current(t)) \in Policies
    BY <1>i, BatchFacts DEF Committed, Applying
  <2>2. states[Policy(Current(t))] = Current(t)
    BY <2>1 DEF StatesApplied
  <2>3. Current(t) # None
    BY <2>1 DEF None
  <2> QED
    BY <2>1, <2>2, <2>3 DEF SameText, Known
\* Change c is the newest that is done, and the policy has its text.
<1>r. ASSUME NEW p \in Policies, NEW c \in Done(p)', \A n \in Done(p)' : n \in Nat /\ n <= c,
             SameText(c)'
      PROVE  Wins(p)'
  <2>1. ASSUME NEW n \in Done(p)', \A m \in Done(p)' : m <= n
        PROVE  SameText(n)'
    <3>1. n = c
      <4>1. n <= c /\ c <= n /\ n \in Nat /\ c \in Nat
        BY <1>r, <2>1
      <4> QED
        BY <4>1
    <3> QED
      BY <1>r, <3>1
  <2> QED
    BY <2>1 DEF Wins
\* What is done does not change when Applied and lost do not.
<1>s. ASSUME NEW t \in Monitors, Applied(t)' = Applied(t), lost' = lost
      PROVE  \A p \in Policies : Done(p)' = Done(p)
  <2>1. \A n \in 1 .. Applied(t) : Policy(n)' = Policy(n)
    BY <1>d, <1>f, <1>k
  <2> QED
    <3>1. \A p \in Policies : DoneBy(t, p)' = DoneBy(t, p)
      BY <1>s, <2>1 DEF DoneBy
    <3> QED
      BY <1>d, <1>e, <3>1
\* The monitor is done with the change at the head of its batch, or drops the rest.
<1>h. ASSUME NEW t \in Monitors, Applying(t),
             UNCHANGED <<states, changes, fetched>>,
             SameText(Current(t)),
             \A p \in Policies : Done(p)' = {n \in 1 .. Applied(t) + 1 : Policy(n) = p} \ lost
      PROVE  \A p \in Policies : Wins(p)'
  <2> PICK c, q : c = Current(t) /\ q = Policy(Current(t))
    OBVIOUS
  <2>1. c = Applied(t) + 1 /\ c \in 1 .. fetched /\ q \in Policies /\ Policy(c) = q
    BY <1>h, BatchFacts
  <2>2. c \notin lost
    BY <1>d, <2>1 DEF BatchInOrder
  <2>3. SameText(c)'
    BY <1>h DEF SameText, Known, Policy
  <2>4. ASSUME NEW p \in Policies
        PROVE  Wins(p)'
    <3>1. CASE p = q
      <4>1. c \in Done(p)' /\ \A n \in Done(p)' : n \in Nat /\ n <= c
        <5>1. Done(p)' = {n \in 1 .. c : Policy(n) = q} \ lost
          BY <1>h, <2>1, <3>1
        <5>2. c \in Nat /\ c >= 1
          BY <1>f, <2>1
        <5>3. c \in 1 .. c /\ \A n \in 1 .. c : n \in Nat /\ n <= c
          BY <5>2
        <5> QED
          BY <2>1, <2>2, <5>1, <5>3, Zenon
      <4> QED
        BY <1>r, <2>3, <4>1
    <3>2. CASE p # q
      <4>1. Done(p)' = DoneBy(t, p)
        BY <1>d, <1>h, <2>1, <3>2 DEF DoneBy
      <4> QED
        BY <1>d, <1>h, <1>q, <4>1
    <3> QED
      BY <3>1, <3>2
  <2> QED
    BY <2>4
<1>1. CASE UNCHANGED <<thread, fetched, states, lost>>
  <2> PICK t \in Monitors : TRUE
    BY LiveUpdateAssumption
  <2>1. Applied(t)' = Applied(t)
    BY <1>1 DEF Applied
  <2> QED
    BY <1>1, <1>q, <1>s, <1>w, <2>1
<1>2. CASE OutsideStep \/ UNCHANGED vars
  BY <1>1, <1>2, OutsideLeaves DEF vars
<1>3. ASSUME NEW t \in Monitors, ~Applying(t), Applied(t)' = fetched, UNCHANGED <<states, lost>>
      PROVE  LastChangeWins'
  <2>1. Applied(t)' = Applied(t)
    BY <1>3, BatchFacts
  <2> QED
    BY <1>3, <1>q, <1>s, <1>w, <2>1
<1>4. CASE Start
  <2>1. PICK t \in Monitors :
          thread[t].pc = "dead" /\ thread' = [thread EXCEPT ![t] = [Dead EXCEPT !.pc = "idle"]]
    BY <1>4 DEF Start, IsAlive
  <2>2. Applied(t)' = fetched /\ ~Applying(t)
    BY <1>4, <2>1, RestingStep DEF Applying
  <2> QED
    BY <1>3, <1>4, <2>2 DEF Start
<1>5. ASSUME NEW t \in Monitors, Die(t)
      PROVE  LastChangeWins'
  <2>1. Applied(t)' = fetched /\ ~Applying(t)
    BY <1>5, RestingStep DEF Die, Applying
  <2> QED
    BY <1>3, <1>5, <2>1 DEF Die
<1>6. ASSUME NEW t \in Monitors, Poll(t) \/ Snapshot(t) \/ Install(t)
      PROVE  LastChangeWins'
  <2>1. Applied(t)' = Applied(t) /\ UNCHANGED <<states, lost>>
    BY <1>6, MonitorMoves DEF Poll, Snapshot, Install
  <2> QED
    BY <1>q, <1>s, <1>w, <2>1
<1>7. ASSUME NEW t \in Monitors, Commit(t)
      PROVE  LastChangeWins'
  <2> PICK c, q : c = Current(t) /\ q = Policy(Current(t))
    OBVIOUS
  <2>1. Applying(t) /\ Applied(t)' = Applied(t) /\ lost' = lost
    BY <1>7, MonitorMoves DEF Commit
  <2>2. c = Applied(t) + 1 /\ q \in Policies
    BY <2>1, BatchFacts
  <2>3. \A p \in Policies : states'[p] = IF p = q THEN c ELSE states[p]
    BY <1>7, <1>a, <2>2 DEF Commit
  <2>4. \A p \in Policies : Done(p)' = Done(p)
    BY <1>s, <2>1
  <2>5. \A n \in Done(q)' : n < states'[q]
    BY <1>d, <2>2, <2>3, <2>4 DEF DoneBy
  <2>6. Wins(q)'
    <3>1. \A n \in Done(q)' : states'[q] > n
      <4>1. \A n \in Done(q)' : n \in Nat /\ states'[q] \in Nat
        BY <1>d, <2>2, <2>3, <2>4 DEF DoneBy
      <4> QED
        BY <2>5, <4>1
    <3> QED
      BY <3>1 DEF Wins
  <2>7. \A p \in Policies : p # q => Wins(p)'
    BY <1>q, <2>3, <2>4
  <2> QED
    BY <1>w, <2>6, <2>7
<1>8. ASSUME NEW t \in Monitors, SkipUnchanged(t) \/ EndBroadcast(t)
      PROVE  LastChangeWins'
  <2>1. /\ Applying(t) /\ Applied(t)' = Applied(t) + 1
        /\ UNCHANGED <<states, changes, fetched, lost>>
    BY <1>8, MonitorMoves DEF SkipUnchanged, EndBroadcast
  <2>2. SameText(Current(t))
    BY <1>8, <1>i DEF SkipUnchanged, EndBroadcast
  <2>3. \A p \in Policies : Done(p)' = {n \in 1 .. Applied(t) + 1 : Policy(n) = p} \ lost
    BY <1>e, <2>1 DEF DoneBy, Policy
  <2> QED
    BY <1>h, <1>w, <2>1, <2>2, <2>3
<1>9. ASSUME NEW t \in Monitors, ApplyRaises(t)
      PROVE  LastChangeWins'
  <2>1. /\ Applying(t) /\ Applied(t)' = fetched
        /\ UNCHANGED <<states, changes, fetched>>
        /\ lost' = lost \cup {n \in Unapplied(t) : thread[t].pc = "commit" \/ n # Current(t)}
        /\ thread[t].pc \in {"commit", "broadcast"}
    BY <1>9, RestingStep DEF ApplyRaises, Applying
  <2>2. /\ Unapplied(t) = Applied(t) + 1 .. fetched /\ Current(t) = Applied(t) + 1
        /\ Current(t) \in 1 .. fetched
    BY <2>1, BatchFacts
  <2>3. \A p \in Policies : Done(p)' = {n \in 1 .. fetched : Policy(n) = p} \ lost'
    BY <1>e, <2>1 DEF DoneBy, Policy
  <2>4. CASE thread[t].pc = "commit"
    <3>1. \A n : n \in (1 .. fetched) \ lost' <=> n \in (1 .. Applied(t)) \ lost
      BY <1>d, <1>f, <2>1, <2>2, <2>4
    <3>2. \A p \in Policies : Done(p)' = Done(p)
      BY <1>d, <2>3, <3>1 DEF DoneBy
    <3> QED
      BY <1>q, <1>w, <2>1, <3>2
  <2>5. CASE thread[t].pc = "broadcast"
    <3>1. \A n : n \in (1 .. fetched) \ lost' <=> n \in (1 .. Applied(t) + 1) \ lost
      BY <1>d, <1>f, <2>1, <2>2, <2>5 DEF BatchInOrder
    <3>2. \A p \in Policies :
             Done(p)' = {n \in 1 .. Applied(t) + 1 : Policy(n) = p} \ lost
      BY <2>3, <3>1
    <3>3. SameText(Current(t))
      BY <1>i, <2>5
    <3> QED
      BY <1>h, <1>w, <2>1, <3>2, <3>3
  <2> QED
    BY <2>1, <2>4, <2>5
<1> QED
  BY <1>2, <1>4, <1>5, <1>6, <1>7, <1>8, <1>9
     DEF LiveNext, CallerStep, OutsideStep, MonitorStep

\* The invariant holds when the engine is built.
LEMMA LiveInvStart ==
  LiveInit => LiveInv
<1> SUFFICES ASSUME LiveInit
             PROVE  LiveInv
  OBVIOUS
<1> USE LiveUpdateAssumption DEF LiveInit
<1>1. changes \in Seq(Change) /\ Len(changes) = 0
  BY EmptySeq
<1>2. \A t \in Monitors : /\ thread[t] = Dead /\ Dead \in Thread /\ Dead.pc = "dead"
                          /\ Len(Dead.batch) = 0
  BY EmptySeq DEF Dead, Thread
<1>3. LiveTypeOK
  <2>1. 0 <= MaxChanges /\ fetched \in 0 .. Len(changes)
    BY <1>1
  <2>2. thread \in [Monitors -> Thread]
    BY <1>2
  <2> QED
    BY <1>1, <2>1, <2>2 DEF LiveTypeOK, NoThread
<1>4. BatchInOrder
  <2>1. \A t \in Monitors : Applied(t) = 0 /\ ~Applying(t)
    BY <1>2 DEF Applied, Applying
  <2> QED
    BY <1>2, <2>1 DEF BatchInOrder
<1>5. StatesApplied
  BY <1>2 DEF StatesApplied, Committed
<1>6. InstalledBehind /\ HeldIsCurrent /\ Replayed /\ WorkflowsUpToDate
  BY DEF InstalledBehind, HeldIsCurrent, Replayed, WorkflowsUpToDate, NotRegistering, None
<1>7. LastChangeWins
  BY DEF LastChangeWins, Done
<1> QED
  BY <1>3, <1>4, <1>5, <1>6, <1>7 DEF LiveInv

\* Every step of one monitor and its callers keeps the invariant.
LEMMA LiveInvStep ==
  SingleMonitor /\ LiveInv /\ [LiveNext]_vars => LiveInv' /\ NoDowngradeStep
<1> SUFFICES ASSUME SingleMonitor, LiveInv, [LiveNext]_vars
             PROVE  LiveInv' /\ NoDowngradeStep
  OBVIOUS
<1>1. /\ LiveTypeOK /\ BatchInOrder /\ StatesApplied /\ InstalledBehind /\ HeldIsCurrent
      /\ Replayed /\ WorkflowsUpToDate /\ LastChangeWins
  BY DEF LiveInv
<1>2. LiveTypeOK' /\ BatchInOrder' /\ StatesApplied'
  BY <1>1, TypeStep, BatchStep, StatesStep
<1>3. InstalledBehind' /\ NoDowngradeStep /\ HeldIsCurrent'
  BY <1>1, InstalledStep, HeldStep
<1>4. Replayed' /\ WorkflowsUpToDate' /\ LastChangeWins'
  BY <1>1, ReplayedStep, ReadyStep, LastChangeStep
<1> QED
  BY <1>2, <1>3, <1>4 DEF LiveInv

\* The invariant of the live update engine with one monitor thread.
THEOREM LiveInvariant ==
  SingleMonitor => (LiveSpec => []LiveInv)
<1> SUFFICES ASSUME SingleMonitor
             PROVE  LiveSpec => []LiveInv
  OBVIOUS
<1>1. LiveInv /\ [LiveNext]_vars => LiveInv'
  BY LiveInvStep
<1> QED
  BY <1>1, LiveInvStart, PTL DEF LiveSpec

\* A workflow whose registration has returned runs the committed policy, or that
\* policy is on its way or its delivery raised (register_workflow, apply_change).
THEOREM LiveWorkflowsUpToDate ==
  SingleMonitor => (LiveSpec => []WorkflowsUpToDate)
<1> SUFFICES ASSUME SingleMonitor
             PROVE  LiveSpec => []WorkflowsUpToDate
  OBVIOUS
<1>1. LiveInv => WorkflowsUpToDate
  BY DEF LiveInv
<1> QED
  BY <1>1, LiveInvariant, PTL

\* The text of the last change that apply_change handled is the one in force.
THEOREM LiveLastChangeWins ==
  SingleMonitor => (LiveSpec => []LastChangeWins)
<1> SUFFICES ASSUME SingleMonitor
             PROVE  LiveSpec => []LastChangeWins
  OBVIOUS
<1>1. LiveInv => LastChangeWins
  BY DEF LiveInv
<1> QED
  BY <1>1, LiveInvariant, PTL

\* No workflow goes back to an older policy, although registrations and
\* broadcasts write to it without a common lock.
THEOREM LiveNoDowngrade ==
  SingleMonitor => (LiveSpec => NoDowngrade)
<1> SUFFICES ASSUME SingleMonitor
             PROVE  LiveSpec => NoDowngrade
  OBVIOUS
<1>1. LiveInv /\ [LiveNext]_vars =>
         [\A w \in Workflows, p \in Policies : installed'[w][p] >= installed[w][p]]_vars
  BY LiveInvStep DEF NoDowngradeStep
<1> QED
  BY <1>1, LiveInvariant, PTL DEF LiveSpec, NoDowngrade

=============================================================================
