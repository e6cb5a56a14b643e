--------------------------- MODULE BuildScheduler ---------------------------
(***************************************************************************)
(* The parallel build of a plan (build_parallel in sml/build_exec.sml):    *)
(* worker threads take ready nodes, build them, release their dependents   *)
(* and refresh the checkpoint budget, which may unlink whole checkpoint    *)
(* families.  One mutex guards the scheduler's state; a block under it is  *)
(* one action here, and a thread in ConditionVar.wait goes on only after a *)
(* broadcast.  The ready list is a set: any node the code's search could   *)
(* meet first may be taken.                                                *)
(***************************************************************************)
EXTENDS Integers, FiniteSets, Sequences

CONSTANTS
    Nodes,          \* the selected nodes of the plan
    Deps,           \* Deps[n]: direct_project_deps
    Workers,        \* the worker threads, one per job
    Retained,       \* nodes with a failed-prefix checkpoint
    Checkpointed,   \* theories whose build may create checkpoints
    Inspecting,     \* whether a build may stop for goal-state inspection
    WarnRaises,     \* whether writing a warning may fail
    None

\* What the constants have to be.
Parameters ==
    /\ IsFiniteSet(Nodes) /\ Deps \in [Nodes -> SUBSET Nodes]
    /\ IsFiniteSet(Workers) /\ Workers # {}
    /\ Retained \subseteq Nodes /\ Checkpointed \subseteq Nodes
    /\ {Inspecting, WarnRaises} \subseteq BOOLEAN
    /\ None \notin Nodes \cup Workers

VARIABLES
    remaining,      \* remaining_deps
    ready,          \* nodes whose dependencies are built and nobody has taken
    priorityReady,  \* priority_ready_count
    priorityRunning,
    priorityMode,
    focusLeft,      \* priority_focus_remaining
    running,        \* how many nodes are being built
    active,         \* active_ids: which ones
    completed,
    owner, queue,   \* checkpoint_maintenance_owner and _queue
    protected,      \* the nodes whose families the owner's refresh spares
    stopped,
    failure,
    threads,        \* how many workers have not exited
    pc, job,        \* where a worker is, and its node
    main,           \* the thread that waits for the workers
    built           \* nodes that were finished with success

counts == <<priorityReady, priorityRunning, priorityMode, focusLeft, running, completed>>
maintenance == <<owner, queue, protected>>
ends == <<stopped, failure, threads, main>>
vars == <<remaining, ready, counts, active, maintenance, ends, pc, job, built>>

\* mark_priority_focus: the retained failures and all they depend on.
Focus ==
    {n \in Nodes : \A S \in SUBSET Nodes :
                     (Retained \subseteq S /\ \A m \in S : Deps[m] \subseteq S) => n \in S}

\* Where a thread that waits on the condition variable goes once it is signalled.
Recheck == [waitWork |-> "next", waitFinish |-> "finish", waitTurn |-> "turn"]
\* ConditionVar.broadcast.
Signal(f) == [w \in Workers |-> IF f[w] \in DOMAIN Recheck THEN Recheck[f[w]] ELSE f[w]]

\* The thread that waits for the workers is signalled too.
Told == main' = IF main = "wait" THEN "check" ELSE main

Pcs == {"next", "waitWork", "build", "finish", "waitFinish", "begin", "turn", "waitTurn",
        "refresh", "end", "inspected", "raised", "failed", "cancelled", "exit", "gone"}

Count(P(_), S) == Cardinality({x \in S : P(x)})

\* The shape of the state; the counters count what they are named for.
TypeOK ==
    /\ remaining \in [Nodes -> Nat] /\ ready \subseteq Nodes /\ active \subseteq Nodes
    /\ pc \in [Workers -> Pcs] /\ job \in [Workers -> Nodes \cup {None}]
    /\ owner \in Nodes \cup {None} /\ queue \in Seq(Nodes) /\ protected \subseteq Nodes
    /\ {priorityMode, stopped, failure} \subseteq BOOLEAN
    /\ main \in {"check", "wait", "over"} /\ built \subseteq Nodes
    /\ running = Cardinality(active)
    /\ threads = Count(LAMBDA w : pc[w] # "gone", Workers)
    /\ priorityReady = Cardinality(ready \cap Retained)
    /\ priorityRunning = Cardinality(active \cap Retained)

Init ==
    /\ remaining = [n \in Nodes |-> Cardinality(Deps[n])]
    /\ ready = {n \in Nodes : Deps[n] = {}}
    /\ priorityReady = Cardinality(ready \cap Retained)
    /\ priorityRunning = 0 /\ priorityMode = (Retained # {})
    /\ focusLeft = Cardinality(Focus)
    /\ running = 0 /\ completed = 0 /\ active = {}
    /\ owner = None /\ queue = <<>> /\ protected = {}
    /\ stopped = FALSE /\ failure = FALSE
    /\ threads = Cardinality(Workers) /\ main = "check"
    /\ pc = [w \in Workers |-> "next"] /\ job = [w \in Workers |-> None]
    /\ built = {}

-----------------------------------------------------------------------------
(* Taking a node: next_work. *)

Focussed == priorityMode /\ focusLeft > 0

\* pop_ready: the focus while it lasts; then retained failures; then, with none of
\* those running, anything.
Poppable ==
    IF Focussed THEN ready \cap Focus
    ELSE IF priorityReady > 0 /\ ready \cap Retained # {} THEN ready \cap Retained
    ELSE IF priorityRunning > 0 THEN {} ELSE ready

\* pop_ready leaves the focus mode once it is over.
PopMode == priorityMode' = (priorityMode /\ (ready = {} \/ Focussed))

Open == ~failure /\ ~stopped /\ owner = None

\* Mutant: a refresh under way does not hold dispatch back.
DispatchAnyway(w, n) ==
    /\ pc[w] = "next" /\ ~failure /\ ~stopped /\ n \in Poppable
    /\ ready' = ready \ {n} /\ active' = active \cup {n}
    /\ running' = running + 1
    /\ priorityReady' = priorityReady - (IF n \in Retained THEN 1 ELSE 0)
    /\ priorityRunning' = priorityRunning + (IF n \in Retained THEN 1 ELSE 0)
    /\ PopMode
    /\ pc' = [pc EXCEPT ![w] = "build"] /\ job' = [job EXCEPT ![w] = n]
    /\ UNCHANGED <<remaining, focusLeft, completed, maintenance, ends, built>>

Dispatch(w, n) ==
    /\ pc[w] = "next" /\ Open /\ n \in Poppable
    /\ ready' = ready \ {n} /\ active' = active \cup {n}
    /\ running' = running + 1
    /\ priorityReady' = priorityReady - (IF n \in Retained THEN 1 ELSE 0)
    /\ priorityRunning' = priorityRunning + (IF n \in Retained THEN 1 ELSE 0)
    /\ PopMode
    /\ pc' = [pc EXCEPT ![w] = "build"] /\ job' = [job EXCEPT ![w] = n]
    /\ UNCHANGED <<remaining, focusLeft, completed, maintenance, ends, built>>

AllDone == completed = Cardinality(Nodes) /\ running = 0

\* Nothing to take yet: the worker waits for a signal.
WaitForWork(w) ==
    /\ pc[w] = "next" /\ ~failure /\ ~stopped
    /\ \/ owner # None /\ UNCHANGED priorityMode
       \/ owner = None /\ Poppable = {} /\ ~AllDone /\ PopMode
    /\ pc' = [pc EXCEPT ![w] = "waitWork"]
    /\ UNCHANGED <<remaining, ready, priorityReady, priorityRunning, focusLeft, running,
                   completed, active, maintenance, ends, job, built>>

\* A failure, a stop or the end of the plan.
NoMoreWork(w) ==
    /\ pc[w] = "next"
    /\ \/ (failure \/ stopped) /\ UNCHANGED priorityMode
       \/ Open /\ Poppable = {} /\ AllDone /\ PopMode
    /\ pc' = [pc EXCEPT ![w] = "exit"]
    /\ UNCHANGED <<remaining, ready, priorityReady, priorityRunning, focusLeft, running,
                   completed, active, maintenance, ends, job, built>>

-----------------------------------------------------------------------------
(* The node is built: build_one. *)

\* Up to date or restored, built, inspected, or an exception, which a child that
\* cleanup_active_children killed gives too.
BuildOne(w) ==
    /\ pc[w] = "build"
    /\ \/ pc' = [pc EXCEPT ![w] = "finish"]
       \/ job[w] \in Checkpointed /\ pc' = [pc EXCEPT ![w] = "begin"]
       \/ Inspecting /\ pc' = [pc EXCEPT ![w] = "inspected"]
       \/ pc' = [pc EXCEPT ![w] = "raised"]
    /\ UNCHANGED <<remaining, ready, counts, active, maintenance, ends, job, built>>

\* What every way of finishing a node does to the counters: finish_priority too.
LeaveActive(n) ==
    /\ running' = running - 1 /\ active' = active \ {n}
    /\ focusLeft' = focusLeft - (IF n \in Focus THEN 1 ELSE 0)
    /\ priorityRunning' = priorityRunning - (IF n \in Retained THEN 1 ELSE 0)
    /\ UNCHANGED priorityMode

Dependents(n) == {c \in Nodes : n \in Deps[c]}

\* Mutant: a dependent is released by the first of its dependencies.
ReleaseDependentsEarly(n) ==
    LET released == {c \in Dependents(n) : remaining[c] <= 2}
    IN  /\ remaining' = [c \in Nodes |-> IF c \in Dependents(n) THEN remaining[c] - 1 ELSE remaining[c]]
        /\ ready' = ready \cup released
        /\ priorityReady' = priorityReady + Cardinality(released \cap Retained)

\* release_dependent for each dependent: the ones with nothing left become ready.
ReleaseDependents(n) ==
    LET released == {c \in Dependents(n) : remaining[c] = 1}
    IN  /\ remaining' = [c \in Nodes |-> IF c \in Dependents(n) THEN remaining[c] - 1 ELSE remaining[c]]
        /\ ready' = ready \cup released
        /\ priorityReady' = priorityReady + Cardinality(released \cap Retained)

\* finish_success_transition_locked.
FinishTransition(n) ==
    /\ LeaveActive(n)
    /\ completed' = completed + 1
    /\ built' = built \cup {n}
    /\ IF stopped THEN UNCHANGED <<remaining, ready, priorityReady>> ELSE ReleaseDependents(n)

\* finish_success: not while a refresh is under way.
WaitToFinish(w) ==
    /\ pc[w] = "finish" /\ owner # None
    /\ pc' = [pc EXCEPT ![w] = "waitFinish"]
    /\ UNCHANGED <<remaining, ready, counts, active, maintenance, ends, job, built>>

FinishSuccess(w) ==
    /\ pc[w] = "finish" /\ owner = None
    /\ FinishTransition(job[w])
    /\ pc' = Signal([pc EXCEPT ![w] = "next"]) /\ job' = [job EXCEPT ![w] = None]
    /\ Told
    /\ UNCHANGED <<maintenance, stopped, failure, threads>>

-----------------------------------------------------------------------------
(* The refresh of the checkpoint budget, one worker at a time. *)

\* begin_checkpoint_maintenance: owner, or in line for it.
Enqueue(w) ==
    /\ pc[w] = "begin"
    /\ IF owner = None THEN owner' = job[w] /\ UNCHANGED queue
                       ELSE queue' = Append(queue, job[w]) /\ UNCHANGED owner
    /\ pc' = [pc EXCEPT ![w] = "turn"]
    /\ UNCHANGED <<remaining, ready, counts, active, protected, ends, job, built>>

WaitForTurn(w) ==
    /\ pc[w] = "turn" /\ owner # job[w]
    /\ pc' = [pc EXCEPT ![w] = "waitTurn"]
    /\ UNCHANGED <<remaining, ready, counts, active, maintenance, ends, job, built>>

\* The families of the active nodes, its own among them, are protected.
TakeTurn(w) ==
    /\ pc[w] = "turn" /\ owner = job[w]
    /\ protected' = active
    /\ pc' = [pc EXCEPT ![w] = "refresh"]
    /\ UNCHANGED <<remaining, ready, counts, active, owner, queue, ends, job, built>>

\* refresh_checkpoint_budget_after_node: evicts; its errors become warnings.
Refresh(w) ==
    /\ pc[w] = "refresh"
    /\ pc' = [pc EXCEPT ![w] = "end"]
    /\ UNCHANGED <<remaining, ready, counts, active, maintenance, ends, job, built>>

\* A warning of the refresh that cannot be written ends the node as a failure.
RefreshRaises(w) ==
    /\ WarnRaises /\ pc[w] = "refresh"
    /\ pc' = [pc EXCEPT ![w] = "raised"]
    /\ UNCHANGED <<remaining, ready, counts, active, maintenance, ends, job, built>>

\* Mutant: the queue is forgotten when the owner is done.
AdvanceToNone == owner' = None /\ UNCHANGED queue

\* advance_checkpoint_maintenance_locked: the next in line owns the refresh at once.
Advance ==
    IF queue = <<>> THEN owner' = None /\ UNCHANGED queue
                    ELSE owner' = Head(queue) /\ queue' = Tail(queue)

\* finish_checkpoint_maintenance.
EndMaintenance(w) ==
    /\ pc[w] = "end"
    /\ FinishTransition(job[w])
    /\ Advance
    /\ pc' = Signal([pc EXCEPT ![w] = "next"]) /\ job' = [job EXCEPT ![w] = None]
    /\ Told
    /\ UNCHANGED <<protected, stopped, failure, threads>>

-----------------------------------------------------------------------------
(* The other ends of a node, and of the build. *)

\* finish_inspected: the build stops, and the other children are killed.
FinishInspected(w) ==
    /\ pc[w] = "inspected"
    /\ LeaveActive(job[w]) /\ completed' = completed + 1
    /\ stopped' = TRUE
    /\ pc' = Signal([pc EXCEPT ![w] = "next"]) /\ job' = [job EXCEPT ![w] = None]
    /\ Told
    /\ UNCHANGED <<remaining, ready, priorityReady, maintenance, failure, threads, built>>

\* The handler asks whether the build was stopped, then says how the node ended.
StopRequested(w) ==
    /\ pc[w] = "raised"
    /\ pc' = [pc EXCEPT ![w] = IF stopped THEN "cancelled" ELSE "failed"]
    /\ UNCHANGED <<remaining, ready, counts, active, maintenance, ends, job, built>>

\* Mutant: the failure is reported and not kept.
FinishFailureUnkept(w) ==
    /\ pc[w] \in {"failed", "cancelled"}
    /\ LeaveActive(job[w])
    /\ pc' = Signal([pc EXCEPT ![w] = "exit"]) /\ job' = [job EXCEPT ![w] = None]
    /\ Told
    /\ UNCHANGED <<remaining, ready, priorityReady, completed, maintenance, stopped, failure, threads, built>>

\* finish_failure keeps the first failure, unless the build was stopped meanwhile;
\* finish_cancelled_after_stop keeps none.
FinishFailure(w) ==
    /\ pc[w] \in {"failed", "cancelled"}
    /\ LeaveActive(job[w])
    /\ failure' = (failure \/ (pc[w] = "failed" /\ ~stopped))
    /\ pc' = Signal([pc EXCEPT ![w] = "exit"]) /\ job' = [job EXCEPT ![w] = None]
    /\ Told
    /\ UNCHANGED <<remaining, ready, priorityReady, completed, maintenance, stopped, threads, built>>

WorkerExit(w) ==
    /\ pc[w] = "exit"
    /\ threads' = threads - 1
    /\ pc' = Signal([pc EXCEPT ![w] = "gone"])
    /\ Told
    /\ UNCHANGED <<remaining, ready, counts, active, maintenance, stopped, failure, job, built>>

\* wait_workers_locked; then the failure is raised or the build was a success.
WaitWorkers ==
    /\ main = "check"
    /\ main' = IF threads = 0 THEN "over" ELSE "wait"
    /\ UNCHANGED <<remaining, ready, counts, active, maintenance, stopped, failure, threads,
                   pc, job, built>>

Step(w) ==
    \/ (\E n \in Nodes : Dispatch(w, n)) \/ WaitForWork(w) \/ NoMoreWork(w)
    \/ BuildOne(w) \/ WaitToFinish(w) \/ FinishSuccess(w)
    \/ Enqueue(w) \/ WaitForTurn(w) \/ TakeTurn(w) \/ Refresh(w) \/ RefreshRaises(w) \/ EndMaintenance(w)
    \/ FinishInspected(w) \/ StopRequested(w) \/ FinishFailure(w) \/ WorkerExit(w)

Next == (\E w \in Workers : Step(w)) \/ WaitWorkers

\* Every thread runs on until it waits, and every child ends.
Fairness == (\A w \in Workers : WF_vars(Step(w))) /\ WF_vars(WaitWorkers)

Spec == Init /\ [][Next]_vars /\ Fairness

-----------------------------------------------------------------------------

\* A node is built only once everything it depends on is, and is built once: whatever
\* order the workers finish in, the countdown of remaining_deps never lets a node out
\* early or twice.
DepsBuiltFirst ==
    \A n \in active \cup ready : Deps[n] \subseteq built /\ n \notin built

\* No refresh unlinks the checkpoint family of a node that is being built: from the
\* owner's snapshot to its last eviction nothing new becomes active ("Keep dispatch
\* closed from the protected-family snapshot through eviction").
ActiveFamiliesAreProtected ==
    \A w \in Workers : pc[w] \in {"refresh", "end"} => owner = job[w] /\ active \subseteq protected

\* A build that reports success built the whole plan, unless it stopped for an
\* inspection; a build never ends with a node still active.
SuccessIsWhole ==
    main = "over" => /\ active = {}
                     /\ failure \/ stopped \/ built = Nodes

\* The build ends: no worker waits for a signal that nobody sends, also when a failure
\* or an inspection comes while others wait for their turn at the checkpoints.
BuildEnds == <>(main = "over")
=============================================================================
