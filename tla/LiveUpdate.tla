----------------------------- MODULE LiveUpdate -----------------------------
(***************************************************************************)
(* LiveUpdateEngine (packages/logic/guard/logic/live_update/engine.py)     *)
(* with an InMemoryPolicyChangeSource and the AtomicWorkflowStores that    *)
(* are registered with it.  A monitor thread fetches the queued changes    *)
(* and applies them one by one: the new policy is committed under          *)
(* _state_lock, and broadcast afterwards, outside of that lock, to a       *)
(* snapshot of the workflows.  Other threads push changes, register and    *)
(* unregister workflows (under _workflow_lock, which register_workflow     *)
(* holds while it reads _states without _state_lock), stop and start the   *)
(* monitor.  Nobody else calls apply_change here: a thread that does is to  *)
(* the monitor what a second monitor is.                                   *)
(*                                                                         *)
(* A change is known by its number: the position at which it was pushed.   *)
(* Versions and diff summaries are left out.                               *)
(***************************************************************************)
EXTENDS Integers, Sequences, FiniteSets

CONSTANTS Policies,    \* policy ids
          Texts,       \* raw texts, up to their fingerprint
          Workflows,   \* workflow ids, each with one AtomicWorkflowStore
          Monitors,    \* monitor threads
          MaxChanges,  \* bound: number of changes pushed
          MayOverrun,  \* TRUE when stop(timeout) may return before the thread is dead
          MayRaise     \* TRUE when translate or apply_policy_update may raise

ASSUME LiveUpdateAssumption ==
    /\ IsFiniteSet(Policies)
    /\ Monitors # {}
    /\ MaxChanges \in Nat
    /\ MayOverrun \in BOOLEAN /\ MayRaise \in BOOLEAN

VARIABLES changes,       \* auxiliary: every change ever pushed
          fetched,       \* how many of them fetch_changes has handed out
          states,        \* _states: the change each policy stands at
          workflows,     \* _workflows
          subscriptions, \* _subscriptions
          installed,     \* the policies of each AtomicWorkflowStore
          registering,   \* the register_workflow that holds _workflow_lock
          running,       \* _monitor_thread: {} or the set of that thread
          stopping,      \* {}, or {J} while stop() waits for the threads J to end
          stopEvent,     \* _stop_event
          thread,        \* what each monitor thread is doing
          ready,         \* auxiliary: workflows whose register_workflow returned
          missed,        \* auxiliary: deliveries that an exception has dropped
          lost           \* auxiliary: changes that an exception has dropped

vars == <<changes, fetched, states, workflows, subscriptions, installed, registering,
          running, stopping, stopEvent, thread, ready, missed, lost>>

Change == [policy : Policies, text : Texts]
Number == 1 .. MaxChanges
None == 0

NoThread == {}
NotRegistering == [phase |-> "none"]

\* "held" is the policy a registration has read and not yet applied, or None.
Registration == [phase : {"next", "apply"}, workflow : Workflows, todo : SUBSET Policies,
                 size : Nat, held : Number \cup {None}]

\* "batch" is what fetch_changes returned, its head the change being applied.
Thread == [pc : {"dead", "idle", "commit", "snapshot", "broadcast", "dying"},
           batch : Seq(Number), todo : SUBSET Workflows]

Dead == [pc |-> "dead", batch |-> <<>>, todo |-> {}]

LiveTypeOK ==
    /\ changes \in Seq(Change) /\ Len(changes) <= MaxChanges
    /\ fetched \in 0 .. Len(changes)
    /\ states \in [Policies -> Number \cup {None}]
    /\ workflows \in SUBSET Workflows
    /\ subscriptions \in [Workflows -> SUBSET Policies]
    /\ installed \in [Workflows -> [Policies -> Number \cup {None}]]
    /\ registering \in {r \in Registration : r.workflow \in workflows} \cup {NotRegistering}
    /\ running \in {NoThread} \cup {{t} : t \in Monitors}
    /\ stopping \in SUBSET (SUBSET Monitors)
    /\ stopEvent \in BOOLEAN
    /\ thread \in [Monitors -> Thread]
    /\ ready \in SUBSET workflows
    /\ missed \in SUBSET (Workflows \X Policies)
    /\ lost \in SUBSET (1 .. fetched)

LiveInit ==
    /\ changes = <<>> /\ fetched = 0
    /\ states = [p \in Policies |-> None]
    /\ workflows = {}
    /\ subscriptions = [w \in Workflows |-> {}]
    /\ installed = [w \in Workflows |-> [p \in Policies |-> None]]
    /\ registering = NotRegistering
    /\ running = NoThread /\ stopping = {} /\ stopEvent = FALSE
    /\ thread = [t \in Monitors |-> Dead]
    /\ ready = {} /\ missed = {} /\ lost = {}

Known == {p \in Policies : states[p] # None}

Policy(n) == changes[n].policy

\* An empty subscription covers every policy.
Covers(w, p) == subscriptions[w] = {} \/ p \in subscriptions[w]

WorkflowLockFree == registering = NotRegistering

-----------------------------------------------------------------------------
(* The callers.                                                            *)

PushChange ==
    /\ Len(changes) < MaxChanges
    /\ \E c \in Change : changes' = Append(changes, c)
    /\ UNCHANGED <<fetched, states, workflows, subscriptions, installed, registering, running,
                   stopping, stopEvent, thread, ready, missed, lost>>

\* Mutant: a workflow without a subscription is not given the current policies.
Register_NoReplay(w) ==
    /\ WorkflowLockFree
    /\ workflows' = workflows \cup {w}
    /\ \E S \in SUBSET Policies :
          /\ subscriptions' = [subscriptions EXCEPT ![w] = S]
          /\ registering' = [phase |-> "next", workflow |-> w,
                             todo |-> S,
                             size |-> Cardinality(Known), held |-> None]
    /\ ready' = ready \ {w}
    /\ UNCHANGED <<changes, fetched, states, installed, running, stopping, stopEvent, thread,
                   missed, lost>>

\* register_workflow, up to its loop over the policies.
Register(w) ==
    /\ WorkflowLockFree
    /\ workflows' = workflows \cup {w}
    /\ \E S \in SUBSET Policies :
          /\ subscriptions' = [subscriptions EXCEPT ![w] = S]
          /\ registering' = [phase |-> "next", workflow |-> w,
                             todo |-> IF S = {} THEN Known ELSE S,
                             size |-> Cardinality(Known), held |-> None]
    /\ ready' = ready \ {w}
    /\ UNCHANGED <<changes, fetched, states, installed, running, stopping, stopEvent, thread,
                   missed, lost>>

\* The iteration over _states.values() raises when a key has been added to it.
Resized(r) == subscriptions[r.workflow] = {} /\ r.size # Cardinality(Known)

\* The next policy is read from _states, which _workflow_lock does not protect.
RegisterNext ==
    LET r == registering
    IN  /\ r.phase = "next"
        /\ ~Resized(r)
        /\ \E p \in r.todo :
              registering' = [r EXCEPT !.todo = @ \ {p}, !.held = states[p],
                                       !.phase = IF p \in Known THEN "apply" ELSE "next"]
        /\ UNCHANGED <<changes, fetched, states, workflows, subscriptions, installed, running,
                       stopping, stopEvent, thread, ready, missed, lost>>

RegisterApply ==
    LET r == registering
    IN  /\ r.phase = "apply"
        /\ registering' = [r EXCEPT !.phase = "next", !.held = None]
        /\ installed' = [installed EXCEPT ![r.workflow][Policy(r.held)] = r.held]
        /\ missed' = missed \ {<<r.workflow, Policy(r.held)>>}
        /\ UNCHANGED <<changes, fetched, states, workflows, subscriptions, running, stopping,
                       stopEvent, thread, ready, lost>>

\* register_workflow returns, or its iteration or apply_policy_update raises and
\* leaves the workflow registered.
RegisterEnds ==
    LET r == registering
    IN  /\ \/ r.phase = "next" /\ Resized(r) /\ UNCHANGED ready
           \/ r.phase = "apply" /\ MayRaise /\ UNCHANGED ready
           \/ /\ r.phase = "next" /\ ~Resized(r) /\ r.todo = {}
              /\ ready' = ready \cup {r.workflow}
        /\ registering' = NotRegistering
        /\ UNCHANGED <<changes, fetched, states, workflows, subscriptions, installed, running,
                       stopping, stopEvent, thread, missed, lost>>

Unregister(w) ==
    /\ WorkflowLockFree
    /\ w \in workflows
    /\ workflows' = workflows \ {w}
    /\ subscriptions' = [subscriptions EXCEPT ![w] = {}]
    /\ ready' = ready \ {w}
    /\ UNCHANGED <<changes, fetched, states, installed, registering, running, stopping,
                   stopEvent, thread, missed, lost>>

IsAlive(t) == thread[t].pc # "dead"

\* start: does nothing while the monitor is alive.  A stop() that is still in
\* join goes on: the thread it waits for is not the new one.
Start ==
    /\ \A t \in running : ~IsAlive(t)
    /\ \E t \in Monitors :
          /\ ~IsAlive(t)
          /\ running' = {t}
          /\ stopping' = {J \ {t} : J \in stopping}
          /\ thread' = [thread EXCEPT ![t] = [Dead EXCEPT !.pc = "idle"]]
    /\ stopEvent' = FALSE
    /\ UNCHANGED <<changes, fetched, states, workflows, subscriptions, installed, registering,
                   ready, missed, lost>>

Stop ==
    /\ stopping = {}
    /\ stopping' = {running} /\ stopEvent' = TRUE
    /\ UNCHANGED <<changes, fetched, states, workflows, subscriptions, installed, registering,
                   running, thread, ready, missed, lost>>

\* join returns: the thread is dead, or timeout_seconds are over.  Whichever
\* thread the engine has by now is forgotten.
Joined ==
    /\ \E J \in stopping : MayOverrun \/ \A t \in J : ~IsAlive(t)
    /\ stopping' = {} /\ running' = NoThread
    /\ UNCHANGED <<changes, fetched, states, workflows, subscriptions, installed, registering,
                   stopEvent, thread, ready, missed, lost>>

-----------------------------------------------------------------------------
(* The monitor thread.                                                     *)

Goes(t, r) == thread' = [thread EXCEPT ![t] = r]

\* Mutant: fetch_changes pops the newest change first.
Poll_LastFirst(t) ==
    /\ thread[t].pc = "idle"
    /\ \/ stopEvent /\ Goes(t, Dead) /\ UNCHANGED fetched
       \/ /\ ~stopEvent
          /\ fetched < Len(changes)
          /\ Goes(t, [pc |-> "commit", todo |-> {},
                      batch |-> [i \in 1 .. Len(changes) - fetched |-> Len(changes) + 1 - i]])
          /\ fetched' = Len(changes)
    /\ UNCHANGED <<changes, states, workflows, subscriptions, installed, registering, running,
                   stopping, stopEvent, ready, missed, lost>>

\* The loop ends, or sync_once fetches the queue.
Poll(t) ==
    /\ thread[t].pc = "idle"
    /\ \/ stopEvent /\ Goes(t, Dead) /\ UNCHANGED fetched
       \/ /\ ~stopEvent
          /\ fetched < Len(changes)
          /\ Goes(t, [pc |-> "commit", todo |-> {},
                      batch |-> [i \in 1 .. Len(changes) - fetched |-> fetched + i]])
          /\ fetched' = Len(changes)
    /\ UNCHANGED <<changes, states, workflows, subscriptions, installed, registering, running,
                   stopping, stopEvent, ready, missed, lost>>

Current(t) == Head(thread[t].batch)

\* The change at the head of the batch is done.
NextInBatch(t) ==
    Goes(t, [pc |-> IF Len(thread[t].batch) = 1 THEN "idle" ELSE "commit",
             batch |-> Tail(thread[t].batch), todo |-> {}])

\* The policy stands at a change with the text of change n.
SameText(n) ==
    LET p == Policy(n)
    IN  p \in Known /\ changes[states[p]].text = changes[n].text

\* apply_change returns early.
SkipUnchanged(t) ==
    /\ thread[t].pc = "commit" /\ SameText(Current(t))
    /\ NextInBatch(t)
    /\ UNCHANGED <<changes, fetched, states, workflows, subscriptions, installed,
                   registering, running, stopping, stopEvent, ready, missed, lost>>

\* apply_change commits the new policy under _state_lock.
Commit(t) ==
    /\ thread[t].pc = "commit" /\ ~SameText(Current(t))
    /\ states' = [states EXCEPT ![Policy(Current(t))] = Current(t)]
    /\ Goes(t, [thread[t] EXCEPT !.pc = "snapshot"])
    /\ UNCHANGED <<changes, fetched, workflows, subscriptions, installed, registering,
                   running, stopping, stopEvent, ready, missed, lost>>

\* Mutant: the workflows are copied without _workflow_lock.
Snapshot_NoLock(t) ==
    /\ thread[t].pc = "snapshot"
    /\ Goes(t, [thread[t] EXCEPT !.pc = "broadcast",
                                 !.todo = {w \in workflows : Covers(w, Policy(Current(t)))}])
    /\ UNCHANGED <<changes, fetched, states, workflows, subscriptions, installed, registering,
                   running, stopping, stopEvent, ready, missed, lost>>

\* _broadcast_policy copies the workflows and subscriptions under _workflow_lock.
Snapshot(t) ==
    /\ thread[t].pc = "snapshot"
    /\ WorkflowLockFree
    /\ Goes(t, [thread[t] EXCEPT !.pc = "broadcast",
                                 !.todo = {w \in workflows : Covers(w, Policy(Current(t)))}])
    /\ UNCHANGED <<changes, fetched, states, workflows, subscriptions, installed, registering,
                   running, stopping, stopEvent, ready, missed, lost>>

Install(t) ==
    /\ thread[t].pc = "broadcast"
    /\ \E w \in thread[t].todo :
          /\ installed' = [installed EXCEPT ![w][Policy(Current(t))] = Current(t)]
          /\ missed' = missed \ {<<w, Policy(Current(t))>>}
          /\ Goes(t, [thread[t] EXCEPT !.todo = @ \ {w}])
    /\ UNCHANGED <<changes, fetched, states, workflows, subscriptions, registering, running,
                   stopping, stopEvent, ready, lost>>

\* Mutant: sync_once returns after the first change that it applies.
EndBroadcast_DropsRest(t) ==
    /\ thread[t].pc = "broadcast" /\ thread[t].todo = {}
    /\ Goes(t, [Dead EXCEPT !.pc = "idle"])
    /\ UNCHANGED <<changes, fetched, states, workflows, subscriptions, installed, registering,
                   running, stopping, stopEvent, ready, missed, lost>>

EndBroadcast(t) ==
    /\ thread[t].pc = "broadcast" /\ thread[t].todo = {}
    /\ NextInBatch(t)
    /\ UNCHANGED <<changes, fetched, states, workflows, subscriptions, installed, registering,
                   running, stopping, stopEvent, ready, missed, lost>>

Unapplied(t) == {thread[t].batch[i] : i \in 1 .. Len(thread[t].batch)}

\* translate raises, or a workflow does: what is left of the batch is lost, and
\* the thread ends after one more wait (the finally of _run_monitor_loop).
ApplyRaises(t) ==
    /\ MayRaise
    /\ \/ thread[t].pc = "commit" /\ ~SameText(Current(t))
       \/ thread[t].pc = "broadcast" /\ thread[t].todo # {}
    /\ missed' = missed \cup (thread[t].todo \X {Policy(Current(t))})
    /\ lost' = lost \cup {n \in Unapplied(t) : thread[t].pc = "commit" \/ n # Current(t)}
    /\ Goes(t, [Dead EXCEPT !.pc = "dying"])
    /\ UNCHANGED <<changes, fetched, states, workflows, subscriptions, installed, registering,
                   running, stopping, stopEvent, ready>>

Die(t) ==
    /\ thread[t].pc = "dying"
    /\ Goes(t, Dead)
    /\ UNCHANGED <<changes, fetched, states, workflows, subscriptions, installed, registering,
                   running, stopping, stopEvent, ready, missed, lost>>

MonitorStep(t) ==
    \/ Poll(t) \/ SkipUnchanged(t) \/ Commit(t) \/ Snapshot(t) \/ Install(t)
    \/ EndBroadcast(t) \/ Die(t)

RegisterStep == RegisterNext \/ RegisterApply \/ RegisterEnds

CallerStep ==
    \/ PushChange \/ Start \/ Stop \/ Joined
    \/ \E w \in Workflows : Register(w) \/ Unregister(w)

LiveNext ==
    \/ CallerStep \/ RegisterStep
    \/ \E t \in Monitors : MonitorStep(t) \/ ApplyRaises(t)

LiveSpec == LiveInit /\ [][LiveNext]_vars

\* Threads that can run do run.
FairLiveSpec ==
    LiveSpec /\ WF_vars(RegisterStep) /\ \A t \in Monitors : SF_vars(MonitorStep(t))

-----------------------------------------------------------------------------

\* A change that a monitor is about to deliver to w.
OnItsWay(w, n) ==
    \E t \in Monitors :
        /\ thread[t].pc = "snapshot" \/ (thread[t].pc = "broadcast" /\ w \in thread[t].todo)
        /\ Current(t) = n

\* A workflow whose registration has returned runs the policy that the engine has
\* committed, or that policy is on its way to it, or its delivery raised: whatever
\* registrations, broadcasts, commits and restarts overlap.  Holds while there is
\* one monitor thread.
WorkflowsUpToDate ==
    \A w \in ready, p \in Policies :
        Covers(w, p) =>
            \/ installed[w][p] = states[p]
            \/ OnItsWay(w, states[p])
            \/ <<w, p>> \in missed

\* A workflow never goes back to an older policy, although register_workflow and
\* a broadcast write to it without a common lock.  Holds while there is one
\* monitor thread.
NoDowngrade ==
    [][\A w \in Workflows, p \in Policies : installed'[w][p] >= installed[w][p]]_vars

\* Changes of p that a monitor is done with, one way or the other.
Done(p) == {n \in 1 .. fetched : Policy(n) = p} \ (lost \cup UNION {Unapplied(t) : t \in Monitors})

\* A policy has the text of the last change that was handed to apply_change, and
\* apply_change did not raise: no change is overtaken by an older one, and an
\* unchanged text is skipped only when it is the current one.  Holds while there is
\* one monitor thread.
LastChangeWins ==
    \A p \in Policies : \A n \in Done(p) :
        (\A m \in Done(p) : m <= n) => SameText(n) \/ (states[p] > n)

PushedTo(p) == {n \in 1 .. Len(changes) : Policy(n) = p}

\* Changes of p that w runs, has run, or does not differ from.
Arrived(w, p) ==
    LET i == installed[w][p]
    IN  {n \in PushedTo(p) : i >= n \/ (i # None /\ changes[i].text = changes[n].text)}

\* While a monitor stays alive and a workflow stays registered, every change that
\* is pushed reaches the workflow, unless an exception drops it or its delivery.
EveryChangeArrives ==
    \A w \in Workflows, p \in Policies :
        <>[](w \in ready /\ Covers(w, p) /\ \E t \in Monitors : IsAlive(t)) =>
            \A n \in Number :
                n \in PushedTo(p) ~> n \in Arrived(w, p) \cup lost \/ <<w, p>> \in missed

=============================================================================
