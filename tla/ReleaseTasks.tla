---------------------------- MODULE ReleaseTasks ----------------------------
(***************************************************************************)
(* The background release passes of one coordinator process                *)
(* (request_release and _run_releases in                                   *)
(* remote-exec/remote_exec/coordinator.py): requests collect in            *)
(* release_pending, one task runs the passes over every batch and one      *)
(* those of single batches, and the requests that arrive during a pass are *)
(* run together in the next.                                               *)
(***************************************************************************)
EXTENDS Integers, FiniteSets

CONSTANTS
    Batches,        \* batches completions ask a release for
    Every,          \* the request of the sweep: every batch (None in the code)
    MaxRequests     \* bound: requests made

\* What the constants have to be.
Parameters ==
    /\ Every \notin Batches
    /\ MaxRequests \in Nat

Targets == Batches \cup {Every}
Kinds == {"every", "single"}
Kind(t) == IF t = Every THEN "every" ELSE "single"

VARIABLES
    pending,        \* release_pending
    task,           \* a kind's task: "none", "running" or "done"
    todo,           \* what the task took from pending and has not started
    passing,        \* the target whose pass the task runs, as a set of at most one
    owed,           \* requests no pass has started for since they were made
    made            \* how many requests were made

vars == <<pending, task, todo, passing, owed, made>>

\* The shape of the state; only a task that runs has anything to do.
TypeOK ==
    /\ pending \subseteq Targets /\ owed \subseteq Targets /\ made \in 0..MaxRequests
    /\ task \in [Kinds -> {"none", "running", "done"}]
    /\ todo \in [Kinds -> SUBSET Targets]
    /\ passing \in [Kinds -> {{}} \cup {{t} : t \in Targets}]
    /\ \A k \in Kinds : todo[k] # {} \/ passing[k] # {} => task[k] = "running"

Init ==
    /\ pending = {} /\ owed = {} /\ made = 0
    /\ task = [k \in Kinds |-> "none"]
    /\ todo = [k \in Kinds |-> {}]
    /\ passing = [k \in Kinds |-> {}]

\* Mutant: a task is started only the first time.
RequestFirst(t) ==
    /\ made < MaxRequests
    /\ made' = made + 1
    /\ pending' = pending \cup {t} /\ owed' = owed \cup {t}
    /\ task' = [task EXCEPT ![Kind(t)] = IF @ = "none" THEN "running" ELSE @]
    /\ UNCHANGED <<todo, passing>>

\* request_release: note the request, and start the kind's task unless it runs.
Request(t) ==
    /\ made < MaxRequests
    /\ made' = made + 1
    /\ pending' = pending \cup {t} /\ owed' = owed \cup {t}
    /\ task' = [task EXCEPT ![Kind(t)] = "running"]
    /\ UNCHANGED <<todo, passing>>

\* The task is between two rounds of its loop.
Idle(k) == task[k] = "running" /\ todo[k] = {} /\ passing[k] = {}

\* The loop of _run_releases takes what is pending of its kind.
TakePending(k) ==
    /\ Idle(k)
    /\ LET mine == {t \in pending : Kind(t) = k}
       IN  /\ mine # {}
           /\ pending' = pending \ mine
           /\ todo' = [todo EXCEPT ![k] = mine]
    /\ UNCHANGED <<task, passing, owed, made>>

\* Nothing pending of its kind: the task is done.
Finish(k) ==
    /\ Idle(k) /\ \A t \in pending : Kind(t) # k
    /\ task' = [task EXCEPT ![k] = "done"]
    /\ UNCHANGED <<pending, todo, passing, owed, made>>

\* A pass begins: it reads the releasable actions after every request so far.
StartPass(k, t) ==
    /\ task[k] = "running" /\ passing[k] = {} /\ t \in todo[k]
    /\ todo' = [todo EXCEPT ![k] = @ \ {t}]
    /\ passing' = [passing EXCEPT ![k] = {t}]
    /\ owed' = owed \ {t}
    /\ UNCHANGED <<pending, task, made>>

\* A pass ends, also by an error, which is logged.
EndPass(k) ==
    /\ passing[k] # {}
    /\ passing' = [passing EXCEPT ![k] = {}]
    /\ UNCHANGED <<pending, task, todo, owed, made>>

Work(k) == TakePending(k) \/ Finish(k) \/ (\E t \in Targets : StartPass(k, t)) \/ EndPass(k)

Next == (\E t \in Targets : Request(t)) \/ \E k \in Kinds : Work(k)

\* The event loop runs every task that can go on.
Fairness == \A k \in Kinds : WF_vars(Work(k))

Spec == Init /\ [][Next]_vars /\ Fairness

-----------------------------------------------------------------------------

\* A request no pass has started for is noted, with a task that runs and will come to
\* it: none is dropped between a task's last look at release_pending and its end.
RequestsAreKept ==
    \A t \in owed : task[Kind(t)] = "running" /\ t \in pending \cup todo[Kind(t)]

\* Every request is followed by a pass that begins after it, so a completion's
\* children are looked at though the pass under way read the queue before it.
EveryRequestIsServed == \A t \in Targets : t \in owed ~> t \notin owed
=============================================================================
