---------------------------- MODULE BuildProofs -----------------------------
(***************************************************************************)
(* Proofs about what runs on one machine during a build: the scheduler of  *)
(* a parallel build, for any plan, any number of workers and any choice of *)
(* retained and checkpointed nodes; the look a worker takes at memory, for *)
(* any number of threads, workers and leases and any host; and the leases  *)
(* of the memory domain that all builds share, for any number of builds,   *)
(* any charges and budgets, killed anywhere.                               *)
(*                                                                         *)
(* The scheduler's invariant has two parts: one about the plan (what is    *)
(* ready, active and built, and the counters that stand for it), one about *)
(* the workers (who works on what and who has the maintenance turn); a     *)
(* third, WaitsInv, gives each wait on the condition variable its reason.  *)
(* That of the memory domain follows an admission through its scan: what   *)
(* it has added up so far is the charge of the leases it has looked at.    *)
(***************************************************************************)
EXTENDS MCBuild, Sums

\* The cardinalities of a component are those of the theorems about finite sets.
LEMMA CardinalityOfParts ==
    \A S : /\ Schedule!Cardinality(S) = Cardinality(S)
           /\ Schedule!IsFiniteSet(S) <=> IsFiniteSet(S)
           /\ Memory!Cardinality(S) = Cardinality(S)
           /\ Gate!Cardinality(S) = Cardinality(S)
           /\ Gate!IsFiniteSet(S) <=> IsFiniteSet(S)
  BY DEF Schedule!Cardinality, Schedule!IsFiniteSet, Memory!Cardinality, Memory!IsFiniteSet,
         Gate!Cardinality, Gate!IsFiniteSet, Cardinality, IsFiniteSet

\* The counters of the plan count what they are named for.
PlanTypes ==
    /\ remaining \in [Nodes -> Nat] /\ ready \subseteq Nodes /\ active \subseteq Nodes
    /\ built \subseteq Nodes /\ stopped \in BOOLEAN
    /\ running = Cardinality(active)
    /\ priorityReady = Cardinality(ready \cap Retained)
    /\ priorityRunning = Cardinality(active \cap Retained)

\* A node that waits to be taken is not being built.
ReadyIsIdle == ready \cap active = {}

\* The countdown of a node says how many of its dependencies are not built, until the
\* build is stopped.
RemainingIsExact ==
    ~stopped => \A n \in Nodes : remaining[n] = Cardinality(Deps[n] \ built)

\* What is built was built on what is built.
BuiltIsClosed == \A n \in built : Deps[n] \subseteq built

\* The number of completed nodes is that of the built ones, until the build is stopped.
CompletedIsBuilt == ~stopped => completed = Cardinality(built)

PlanInv ==
    /\ PlanTypes
    /\ Schedule!DepsBuiltFirst
    /\ ReadyIsIdle
    /\ RemainingIsExact
    /\ BuiltIsClosed
    /\ CompletedIsBuilt

\* The workers that have a node.
Busy == {"build", "finish", "waitFinish", "begin", "turn", "waitTurn", "refresh", "end", "inspected",
         "raised", "failed", "cancelled"}

WorkerTypes ==
    /\ pc \in [Workers -> Schedule!Pcs] /\ job \in [Workers -> Nodes \cup {None}]
    /\ owner \in Nodes \cup {None} /\ queue \in Seq(Nodes) /\ protected \subseteq Nodes
    /\ {priorityMode, failure} \subseteq BOOLEAN /\ main \in {"check", "wait", "over"}
    /\ threads = Cardinality({w \in Workers : pc[w] # "gone"})

\* The active nodes are the workers' nodes, each of one worker.
JobsAreActive ==
    /\ \A w \in Workers : job[w] # None <=> pc[w] \in Busy
    /\ \A w \in Workers : job[w] # None => job[w] \in active
    /\ \A n \in active : \E w \in Workers : job[w] = n
    /\ \A w, v \in Workers : w # v /\ job[w] = job[v] => job[w] = None

\* A node is only given up silently after a stop.
CancelledWasStopped == \A w \in Workers : pc[w] = "cancelled" => stopped

\* A worker leaves because of a failure or a stop, or as everything is built.
ExitHasReason ==
    \A w \in Workers : pc[w] \in {"exit", "gone"} => failure \/ stopped \/ built = Nodes

\* The build is over once every worker has gone.
OverWhenGone == main = "over" => threads = 0

WorkersInv ==
    /\ WorkerTypes
    /\ JobsAreActive
    /\ Schedule!ActiveFamiliesAreProtected
    /\ CancelledWasStopped
    /\ ExitHasReason
    /\ OverWhenGone

\* The inductive invariant.
SchedulerInv == PlanInv /\ WorkersInv

-----------------------------------------------------------------------------
(* The plan. *)

\* Sets of nodes are finite, and their sizes naturals.
LEMMA NodesFinite ==
    ASSUME Schedule!Parameters, NEW S \in SUBSET Nodes
    PROVE  /\ IsFiniteSet(S) /\ Cardinality(S) \in Nat
           /\ Cardinality(S) = 0 <=> S = {}
           /\ Cardinality(S) = Cardinality(Nodes) => S = Nodes
  BY FS_Subset, FS_CardinalityType, FS_EmptySet, CardinalityOfParts DEF Schedule!Parameters

\* One node more or less.
LEMMA OneNodeMore ==
    ASSUME Schedule!Parameters, NEW S \in SUBSET Nodes, NEW n \in Nodes
    PROVE  /\ n \notin S => Cardinality(S \cup {n}) = Cardinality(S) + 1
           /\ n \in S => Cardinality(S \ {n}) = Cardinality(S) - 1
  BY NodesFinite, FS_AddElement, FS_RemoveElement

\* Two sets of nodes side by side.
LEMMA NodesSideBySide ==
    ASSUME Schedule!Parameters, NEW S \in SUBSET Nodes, NEW T \in SUBSET Nodes, S \cap T = {}
    PROVE  Cardinality(S \cup T) = Cardinality(S) + Cardinality(T)
<1>1. IsFiniteSet(S) /\ IsFiniteSet(T) /\ Cardinality(S) \in Nat /\ Cardinality(T) \in Nat
  BY NodesFinite
<1>2. Cardinality(S \cup T) = Cardinality(S) + Cardinality(T) - Cardinality(S \cap T)
  BY <1>1, FS_Union
<1>3. Cardinality(S \cap T) = 0
  BY FS_EmptySet
<1>4. QED
  BY <1>1, <1>2, <1>3

\* The same among the retained ones.
LEMMA OneRetainedMore ==
    ASSUME Schedule!Parameters, NEW S \in SUBSET Nodes, NEW n \in Nodes
    PROVE  /\ n \notin S => Cardinality((S \cup {n}) \cap Retained)
                            = Cardinality(S \cap Retained) + (IF n \in Retained THEN 1 ELSE 0)
           /\ n \in S => Cardinality((S \ {n}) \cap Retained)
                         = Cardinality(S \cap Retained) - (IF n \in Retained THEN 1 ELSE 0)
<1>1. S \cap Retained \in SUBSET Nodes /\ Cardinality(S \cap Retained) \in Nat
  BY NodesFinite
<1>2. CASE n \in Retained
  <2>1. (S \cup {n}) \cap Retained = (S \cap Retained) \cup {n}
        /\ (S \ {n}) \cap Retained = (S \cap Retained) \ {n}
    BY <1>2
  <2>2. QED
    BY <1>1, <1>2, <2>1, OneNodeMore
<1>3. CASE n \notin Retained
  <2>1. (S \cup {n}) \cap Retained = S \cap Retained
        /\ (S \ {n}) \cap Retained = S \cap Retained
    BY <1>3
  <2>2. Cardinality((S \cup {n}) \cap Retained) = Cardinality(S \cap Retained)
        /\ Cardinality((S \ {n}) \cap Retained) = Cardinality(S \cap Retained)
    BY <2>1, Zenon
  <2>3. QED
    BY <1>1, <1>3, <2>2
<1>4. QED
  BY <1>2, <1>3

\* Taking a ready node.
LEMMA DispatchKeepsPlan ==
    ASSUME Schedule!Parameters, PlanInv, NEW w \in Workers, NEW n \in Nodes, Schedule!Dispatch(w, n)
    PROVE  PlanInv' /\ n \notin active
<1>1. /\ n \in ready /\ n \notin active
      /\ ready' = ready \ {n} /\ active' = active \cup {n}
      /\ running' = running + 1
      /\ priorityReady' = priorityReady - (IF n \in Retained THEN 1 ELSE 0)
      /\ priorityRunning' = priorityRunning + (IF n \in Retained THEN 1 ELSE 0)
      /\ UNCHANGED <<remaining, completed, built, stopped>>
  BY DEF Schedule!Dispatch, Schedule!Poppable, PlanInv, ReadyIsIdle, Schedule!ends
<1>2. PlanTypes'
  BY <1>1, OneNodeMore, OneRetainedMore DEF PlanInv, PlanTypes
<1>3. Schedule!DepsBuiltFirst' /\ ReadyIsIdle'
  BY <1>1 DEF PlanInv, Schedule!DepsBuiltFirst, ReadyIsIdle
<1>4. RemainingIsExact' /\ BuiltIsClosed' /\ CompletedIsBuilt'
  BY <1>1 DEF PlanInv, RemainingIsExact, BuiltIsClosed, CompletedIsBuilt
<1>5. QED
  BY <1>1, <1>2, <1>3, <1>4 DEF PlanInv

\* A node that is given up: nothing is released.
LEMMA LeaveKeepsPlan ==
    ASSUME Schedule!Parameters, PlanInv, NEW n \in active, Schedule!LeaveActive(n),
           UNCHANGED <<remaining, ready, priorityReady, built>>, stopped' \in BOOLEAN,
           stopped => stopped', UNCHANGED completed \/ stopped'
    PROVE  PlanInv'
<1>1. /\ running' = running - 1 /\ active' = active \ {n}
      /\ priorityRunning' = priorityRunning - (IF n \in Retained THEN 1 ELSE 0)
  BY DEF Schedule!LeaveActive
<1>2. PlanTypes'
  BY <1>1, OneNodeMore, OneRetainedMore DEF PlanInv, PlanTypes
<1>3. Schedule!DepsBuiltFirst' /\ ReadyIsIdle'
  BY <1>1 DEF PlanInv, Schedule!DepsBuiltFirst, ReadyIsIdle
<1>4. RemainingIsExact' /\ BuiltIsClosed' /\ CompletedIsBuilt'
  BY DEF PlanInv, PlanTypes, RemainingIsExact, BuiltIsClosed, CompletedIsBuilt
<1>5. QED
  BY <1>2, <1>3, <1>4 DEF PlanInv

\* A node that is finished: the dependents that counted it down to nothing are exactly
\* those whose dependencies are now all built, and none of them was out before.
LEMMA FinishKeepsPlan ==
    ASSUME Schedule!Parameters, PlanInv, NEW n \in active, Schedule!FinishTransition(n), UNCHANGED stopped
    PROVE  PlanInv'
<1> DEFINE released == {dep \in Schedule!Dependents(n) : remaining[dep] = 1}
<1>1. /\ running' = running - 1 /\ active' = active \ {n}
      /\ priorityRunning' = priorityRunning - (IF n \in Retained THEN 1 ELSE 0)
      /\ completed' = completed + 1 /\ built' = built \cup {n}
  BY DEF Schedule!FinishTransition, Schedule!LeaveActive
<1>2. n \in Nodes /\ n \notin built /\ Deps[n] \subseteq built /\ n \notin Deps[n] /\ n \notin ready
  BY DEF PlanInv, PlanTypes, Schedule!DepsBuiltFirst, ReadyIsIdle
<1>3. BuiltIsClosed' /\ CompletedIsBuilt'
  <2>1. Cardinality(built \cup {n}) = Cardinality(built) + 1
    BY <1>2, OneNodeMore DEF PlanInv, PlanTypes
  <2>2. QED
    BY <1>1, <1>2, <2>1 DEF PlanInv, BuiltIsClosed, CompletedIsBuilt
<1>4. running' = Cardinality(active') /\ priorityRunning' = Cardinality(active' \cap Retained)
  BY <1>1, <1>2, OneNodeMore, OneRetainedMore DEF PlanInv, PlanTypes
<1>5. CASE stopped
  <2>1. UNCHANGED <<remaining, ready, priorityReady>>
    BY <1>5 DEF Schedule!FinishTransition
  <2>2. PlanTypes'
    BY <1>1, <1>2, <1>4, <2>1 DEF PlanInv, PlanTypes
  <2>3. Schedule!DepsBuiltFirst' /\ ReadyIsIdle'
    BY <1>1, <1>2, <2>1 DEF PlanInv, Schedule!DepsBuiltFirst, ReadyIsIdle
  <2>4. RemainingIsExact'
    BY <1>5 DEF RemainingIsExact
  <2>5. QED
    BY <1>3, <2>2, <2>3, <2>4 DEF PlanInv
<1>6. CASE ~stopped
  <2>1. /\ remaining' = [dep \in Nodes |-> IF dep \in Schedule!Dependents(n) THEN remaining[dep] - 1
                                        ELSE remaining[dep]]
        /\ ready' = ready \cup released
        /\ priorityReady' = priorityReady + Cardinality(released \cap Retained)
    BY <1>6, CardinalityOfParts DEF Schedule!FinishTransition, Schedule!ReleaseDependents
  <2>2. ASSUME NEW dep \in Nodes
        PROVE  /\ Cardinality(Deps[dep] \ built) \in Nat
               /\ dep \in Schedule!Dependents(n) =>
                    Cardinality(Deps[dep] \ built') = Cardinality(Deps[dep] \ built) - 1
               /\ dep \notin Schedule!Dependents(n) => Deps[dep] \ built' = Deps[dep] \ built
               /\ Cardinality(Deps[dep] \ built') \in Nat
    <3>1. Deps[dep] \ built \in SUBSET Nodes /\ Deps[dep] \ built' \in SUBSET Nodes
      BY DEF Schedule!Parameters
    <3>2. dep \notin Schedule!Dependents(n) => Deps[dep] \ built' = Deps[dep] \ built
      BY <1>1 DEF Schedule!Dependents
    <3>3. dep \in Schedule!Dependents(n) => n \in Deps[dep] \ built
                                 /\ Deps[dep] \ built' = (Deps[dep] \ built) \ {n}
      BY <1>1, <1>2 DEF Schedule!Dependents
    <3>4. QED
      BY <1>2, <3>1, <3>2, <3>3, NodesFinite, OneNodeMore
  <2>3. RemainingIsExact' /\ remaining' \in [Nodes -> Nat]
    BY <1>6, <2>1, <2>2 DEF PlanInv, PlanTypes, RemainingIsExact
  <2>4. ASSUME NEW dep \in released
        PROVE  dep \in Nodes /\ Deps[dep] \subseteq built' /\ dep \notin built' /\ dep \notin active
               /\ dep \notin ready
    <3>1. dep \in Nodes /\ n \in Deps[dep] /\ remaining[dep] = 1
      BY DEF Schedule!Dependents
    <3>2. remaining[dep] = Cardinality(Deps[dep] \ built)
      BY <1>6, <3>1 DEF PlanInv, RemainingIsExact
    <3>3. Cardinality(Deps[dep] \ built') = remaining[dep] - 1
      BY <2>2, <3>1, <3>2 DEF Schedule!Dependents
    <3>4. Deps[dep] \ built' \in SUBSET Nodes
      BY <3>1 DEF Schedule!Parameters
    <3>5. Deps[dep] \subseteq built'
      BY <3>1, <3>3, <3>4, NodesFinite
    <3>6. QED
      BY <1>1, <1>2, <3>1, <3>5 DEF PlanInv, BuiltIsClosed, Schedule!DepsBuiltFirst
  <2>5. Schedule!DepsBuiltFirst' /\ ReadyIsIdle'
    <3>1. Schedule!DepsBuiltFirst'
      BY <1>1, <1>2, <2>1, <2>4 DEF PlanInv, Schedule!DepsBuiltFirst, ReadyIsIdle
    <3>2. ReadyIsIdle'
      BY <1>1, <2>1, <2>4 DEF PlanInv, ReadyIsIdle
    <3>3. QED
      BY <3>1, <3>2
  <2>6. priorityReady' = Cardinality(ready' \cap Retained)
    <3> DEFINE S == ready \cap Retained
               T == released \cap Retained
    <3>1. S \in SUBSET Nodes /\ T \in SUBSET Nodes /\ S \cap T = {}
          /\ ready' \cap Retained = S \cup T
      BY <2>1, <2>4 DEF PlanInv, PlanTypes
    <3>2. Cardinality(S \cup T) = Cardinality(S) + Cardinality(T)
      BY <3>1, NodesSideBySide
    <3>3. QED
      BY <2>1, <3>1, <3>2 DEF PlanInv, PlanTypes
  <2>7. PlanTypes'
    BY <1>1, <1>2, <1>4, <2>1, <2>3, <2>4, <2>6 DEF PlanInv, PlanTypes
  <2>8. QED
    BY <1>3, <2>3, <2>5, <2>7 DEF PlanInv
<1>7. QED
  BY <1>5, <1>6

-----------------------------------------------------------------------------
(* The workers. *)

\* A broadcast after a worker's own move wakes those that wait and moves nobody else.
LEMMA SignalFacts ==
    ASSUME pc \in [Workers -> Schedule!Pcs], NEW w \in Workers, NEW to \in {"next", "exit", "gone"},
           pc' = Schedule!Signal([pc EXCEPT ![w] = to])
    PROVE  /\ pc' \in [Workers -> Schedule!Pcs] /\ pc'[w] = to
           /\ \A v \in Workers \ {w} : pc'[v] \in Busy <=> pc[v] \in Busy
           /\ \A v \in Workers \ {w} : \A x \in {"refresh", "end", "cancelled", "exit", "gone"} :
                pc'[v] = x <=> pc[v] = x
<1>1. ASSUME NEW v \in Workers, v # w
      PROVE  pc'[v] = CASE pc[v] = "waitWork" -> "next" [] pc[v] = "waitFinish" -> "finish"
                        [] pc[v] = "waitTurn" -> "turn" [] OTHER -> pc[v]
  BY <1>1 DEF Schedule!Signal, Schedule!Recheck
<1>2. pc'[w] = to
  BY DEF Schedule!Signal, Schedule!Recheck
<1>3. pc' = [v \in Workers |-> pc'[v]]
  BY DEF Schedule!Signal
<1>4. \A v \in Workers : pc'[v] \in Schedule!Pcs
  BY <1>1, <1>2 DEF Schedule!Pcs
<1>5. QED
  BY <1>1, <1>2, <1>3, <1>4 DEF Busy, Schedule!Pcs

\* A worker that moves and keeps its node, if it has one.
LEMMA MoveKeepsWorkers ==
    ASSUME WorkersInv, NEW w \in Workers, NEW to \in Schedule!Pcs, pc' = [pc EXCEPT ![w] = to],
           pc[w] # "gone", to # "gone", to \in Busy <=> pc[w] \in Busy,
           to \in {"refresh", "end"} => pc[w] \in {"refresh", "end"},
           to = "cancelled" => stopped, to = "exit" => failure \/ stopped \/ built = Nodes,
           priorityMode' \in BOOLEAN,
           UNCHANGED <<active, owner, queue, protected, stopped, failure, threads, main, job, built>>
    PROVE  WorkersInv'
<1> USE DEF WorkersInv, WorkerTypes
<1>1. {v \in Workers : pc'[v] # "gone"} = {v \in Workers : pc[v] # "gone"}
  OBVIOUS
<1>2. WorkerTypes'
  BY <1>1
<1>3. JobsAreActive'
  BY DEF JobsAreActive
<1>4. Schedule!ActiveFamiliesAreProtected'
  BY DEF Schedule!ActiveFamiliesAreProtected
<1>5. CancelledWasStopped' /\ ExitHasReason' /\ OverWhenGone'
  BY DEF CancelledWasStopped, ExitHasReason, OverWhenGone
<1>6. QED
  BY <1>2, <1>3, <1>4, <1>5

\* A worker that takes a node: no refresh is under way.
LEMMA DispatchKeepsWorkers ==
    ASSUME Schedule!Parameters, PlanInv, WorkersInv, NEW w \in Workers, NEW n \in Nodes,
           Schedule!Dispatch(w, n)
    PROVE  WorkersInv'
<1> USE DEF WorkersInv, WorkerTypes
<1>1. /\ pc[w] = "next" /\ owner = None /\ n \notin active /\ active' = active \cup {n}
      /\ pc' = [pc EXCEPT ![w] = "build"] /\ job' = [job EXCEPT ![w] = n]
      /\ UNCHANGED <<owner, queue, protected, stopped, failure, threads, main, built>>
  BY DispatchKeepsPlan DEF Schedule!Dispatch, Schedule!Open, Schedule!maintenance, Schedule!ends
<1>2. priorityMode' \in BOOLEAN
  BY DEF Schedule!Dispatch, Schedule!PopMode
<1>3. {v \in Workers : pc'[v] # "gone"} = {v \in Workers : pc[v] # "gone"}
  BY <1>1
<1>4. WorkerTypes'
  BY <1>1, <1>2, <1>3 DEF Schedule!Pcs
<1>5. JobsAreActive'
  <2>1. \A v \in Workers : job'[v] # None <=> pc'[v] \in Busy
    BY <1>1 DEF JobsAreActive, Busy, Schedule!Parameters
  <2>2. \A v \in Workers : job'[v] # None => job'[v] \in active'
    BY <1>1 DEF JobsAreActive
  <2>3. ASSUME NEW i \in active'
        PROVE  \E v \in Workers : job'[v] = i
    <3>1. CASE i = n
      BY <1>1, <3>1
    <3>2. CASE i # n
      <4>1. PICK v \in Workers : job[v] = i
        BY <1>1, <3>2 DEF JobsAreActive
      <4>2. job[w] = None /\ i # None
        BY <1>1, <3>2 DEF JobsAreActive, Busy, PlanInv, PlanTypes, Schedule!Parameters
      <4>3. job'[v] = i
        BY <1>1, <4>1, <4>2
      <4>4. QED
        BY <4>3
    <3>3. QED
      BY <3>1, <3>2
  <2>4. \A u, v \in Workers : u # v /\ job'[u] = job'[v] => job'[u] = None
    BY <1>1 DEF JobsAreActive
  <2>5. QED
    BY <2>1, <2>2, <2>3, <2>4 DEF JobsAreActive
<1>6. Schedule!ActiveFamiliesAreProtected'
  BY <1>1 DEF Schedule!ActiveFamiliesAreProtected, JobsAreActive, Busy
<1>7. CancelledWasStopped' /\ ExitHasReason' /\ OverWhenGone'
  BY <1>1 DEF CancelledWasStopped, ExitHasReason, OverWhenGone
<1>8. QED
  BY <1>4, <1>5, <1>6, <1>7

\* At most one worker is in its refresh, and it is the owner.
LEMMA OneRefresh ==
    ASSUME WorkersInv, NEW w \in Workers, NEW v \in Workers, owner = job[w], pc[w] \in Busy,
           pc[v] \in {"refresh", "end"}
    PROVE  v = w
  BY DEF WorkersInv, Schedule!ActiveFamiliesAreProtected, JobsAreActive, Busy

\* A worker that is done with its node, whatever became of it.
LEMMA LeaveKeepsWorkers ==
    ASSUME Schedule!Parameters, WorkersInv, NEW w \in Workers, pc[w] \in Busy,
           NEW to \in {"next", "exit"},
           pc' = Schedule!Signal([pc EXCEPT ![w] = to]), job' = [job EXCEPT ![w] = None],
           active' = active \ {job[w]}, active \subseteq Nodes,
           UNCHANGED owner \/ pc[w] = "end", owner' \in Nodes \cup {None}, queue' \in Seq(Nodes),
           failure' \in BOOLEAN, failure => failure', stopped => stopped',
           built \subseteq built', built' \subseteq Nodes,
           to = "exit" => failure' \/ stopped',
           Schedule!Told, UNCHANGED <<protected, threads, priorityMode>>
    PROVE  WorkersInv'
<1> USE DEF WorkersInv, WorkerTypes
<1>1. pc \in [Workers -> Schedule!Pcs]
  OBVIOUS
<1>2. /\ pc' \in [Workers -> Schedule!Pcs] /\ pc'[w] = to
      /\ \A v \in Workers \ {w} : pc'[v] \in Busy <=> pc[v] \in Busy
      /\ \A v \in Workers \ {w} : \A x \in {"refresh", "end", "cancelled", "exit", "gone"} :
           pc'[v] = x <=> pc[v] = x
  BY <1>1, SignalFacts
<1>3. {v \in Workers : pc'[v] # "gone"} = {v \in Workers : pc[v] # "gone"}
  BY <1>2 DEF Busy
<1>4. WorkerTypes'
  BY <1>2, <1>3 DEF Schedule!Told
<1>5. job[w] \in active
  BY DEF JobsAreActive
<1>6. JobsAreActive'
  <2>1. \A v \in Workers : job'[v] # None <=> pc'[v] \in Busy
    <3>1. pc'[w] \notin Busy
      BY <1>2 DEF Busy
    <3>2. job'[w] = None /\ \A v \in Workers \ {w} : job'[v] = job[v]
      OBVIOUS
    <3>3. QED
      BY <1>2, <3>1, <3>2 DEF JobsAreActive
  <2>2. \A v \in Workers : job'[v] # None => job'[v] \in active'
    BY DEF JobsAreActive, Busy
  <2>3. \A n \in active' : \E v \in Workers : job'[v] = n
    BY DEF JobsAreActive
  <2>4. \A u, v \in Workers : u # v /\ job'[u] = job'[v] => job'[u] = None
    BY DEF JobsAreActive
  <2>5. QED
    BY <2>1, <2>2, <2>3, <2>4 DEF JobsAreActive
<1>7. Schedule!ActiveFamiliesAreProtected'
  <2>1. ASSUME NEW v \in Workers, pc'[v] \in {"refresh", "end"}
        PROVE  owner' = job'[v] /\ active' \subseteq protected'
    <3>1. v # w /\ pc[v] \in {"refresh", "end"}
      BY <1>2, <2>1
    <3>2. owner = job[v] /\ active \subseteq protected /\ job'[v] = job[v]
      BY <3>1 DEF Schedule!ActiveFamiliesAreProtected
    <3>3. UNCHANGED owner
      BY <3>1, OneRefresh DEF Schedule!ActiveFamiliesAreProtected
    <3>4. QED
      BY <3>2, <3>3
  <2>2. QED
    BY <2>1 DEF Schedule!ActiveFamiliesAreProtected
<1>8. CancelledWasStopped' /\ ExitHasReason'
  BY <1>2 DEF CancelledWasStopped, ExitHasReason
<1>9. OverWhenGone'
  BY DEF OverWhenGone, Schedule!Told
<1>10. QED
  BY <1>4, <1>6, <1>7, <1>8, <1>9

-----------------------------------------------------------------------------
(* Every step. *)

\* A step that leaves the plan alone.
LEMMA PlanUnchanged ==
    ASSUME PlanInv, UNCHANGED <<remaining, ready, priorityReady, priorityRunning, running, completed,
                                active, stopped, built>>
    PROVE  PlanInv'
  BY DEF PlanInv, PlanTypes, Schedule!DepsBuiltFirst, ReadyIsIdle, RemainingIsExact, BuiltIsClosed,
         CompletedIsBuilt

\* A worker leaves for want of work only when everything is built.
LEMMA AllDoneIsAllBuilt ==
    ASSUME Schedule!Parameters, PlanInv, Schedule!Open, Schedule!AllDone
    PROVE  built = Nodes
<1>1. Cardinality(built) = Cardinality(Nodes)
  BY CardinalityOfParts DEF PlanInv, CompletedIsBuilt, Schedule!Open, Schedule!AllDone
<1>2. QED
  BY <1>1, NodesFinite DEF PlanInv, PlanTypes

\* next_work and build_one: the worker moves and nothing else changes.
LEMMA MovesKeepInv ==
    ASSUME Schedule!Parameters, SchedulerInv, NEW w \in Workers,
           \/ Schedule!WaitForWork(w) \/ Schedule!NoMoreWork(w) \/ Schedule!BuildOne(w)
           \/ Schedule!WaitToFinish(w) \/ Schedule!WaitForTurn(w)
           \/ Schedule!Refresh(w) \/ Schedule!RefreshRaises(w) \/ Schedule!StopRequested(w)
    PROVE  SchedulerInv'
<1> DEFINE Same == UNCHANGED <<active, owner, queue, protected, stopped, failure, threads, main, job,
                               built>>
           Quiet == UNCHANGED <<remaining, ready, priorityReady, priorityRunning, running, completed>>
<1>1. Same /\ Quiet
  BY DEF Schedule!WaitForWork, Schedule!NoMoreWork, Schedule!BuildOne, Schedule!WaitToFinish,
     Schedule!WaitForTurn, Schedule!Refresh, Schedule!RefreshRaises,
         Schedule!StopRequested, Schedule!counts, Schedule!maintenance, Schedule!ends
<1>2. PlanInv'
  BY <1>1, PlanUnchanged DEF SchedulerInv
<1>3. priorityMode' \in BOOLEAN
  BY DEF SchedulerInv, WorkersInv, WorkerTypes, Schedule!WaitForWork, Schedule!NoMoreWork,
     Schedule!BuildOne, Schedule!WaitToFinish,
         Schedule!WaitForTurn, Schedule!Refresh, Schedule!RefreshRaises, Schedule!StopRequested,
         Schedule!counts, Schedule!PopMode
<1> DEFINE MayMove(to) ==
             /\ to \in Schedule!Pcs /\ pc' = [pc EXCEPT ![w] = to]
             /\ pc[w] # "gone" /\ to # "gone"
             /\ to \in Busy <=> pc[w] \in Busy
             /\ to \in {"refresh", "end"} => pc[w] \in {"refresh", "end"}
             /\ to = "cancelled" => stopped
             /\ to = "exit" => failure \/ stopped \/ built = Nodes
<1>4. ASSUME NEW to, MayMove(to)
      PROVE  SchedulerInv'
  BY <1>1, <1>2, <1>3, <1>4, MoveKeepsWorkers DEF SchedulerInv
<1> USE DEF Schedule!Pcs, Busy
<1>5. CASE Schedule!WaitForWork(w)
  <2>1. MayMove("waitWork")
    BY <1>5 DEF Schedule!WaitForWork
  <2>2. QED
    BY <1>4, <2>1, Zenon
<1>6. CASE Schedule!NoMoreWork(w)
  <2>1. failure \/ stopped \/ built = Nodes
    BY <1>6, AllDoneIsAllBuilt DEF Schedule!NoMoreWork, SchedulerInv
  <2>2. MayMove("exit")
    BY <1>6, <2>1 DEF Schedule!NoMoreWork
  <2>3. QED
    BY <1>4, <2>2, Zenon
<1>7. CASE Schedule!BuildOne(w)
  <2>1. MayMove("finish") \/ MayMove("begin") \/ MayMove("inspected") \/ MayMove("raised")
    BY <1>7 DEF Schedule!BuildOne
  <2>2. QED
    BY <1>4, <2>1, Zenon
<1>8. CASE Schedule!WaitToFinish(w)
  <2>1. MayMove("waitFinish")
    BY <1>8 DEF Schedule!WaitToFinish
  <2>2. QED
    BY <1>4, <2>1, Zenon
<1>9. CASE Schedule!WaitForTurn(w)
  <2>1. MayMove("waitTurn")
    BY <1>9 DEF Schedule!WaitForTurn
  <2>2. QED
    BY <1>4, <2>1, Zenon
<1>10. CASE Schedule!Refresh(w)
  <2>1. MayMove("end")
    BY <1>10 DEF Schedule!Refresh
  <2>2. QED
    BY <1>4, <2>1, Zenon
<1>11. CASE Schedule!RefreshRaises(w)
  <2>1. MayMove("raised")
    BY <1>11 DEF Schedule!RefreshRaises
  <2>2. QED
    BY <1>4, <2>1, Zenon
<1>12. CASE Schedule!StopRequested(w)
  <2>1. MayMove("cancelled") \/ MayMove("failed")
    BY <1>12 DEF Schedule!StopRequested
  <2>2. QED
    BY <1>4, <2>1, Zenon
<1>13. QED
  BY <1>5, <1>6, <1>7, <1>8, <1>9, <1>10, <1>11, <1>12

\* begin_checkpoint_maintenance: the turn is taken only by the owner, who protects
\* what is active then; a worker that queues changes no one's turn.
LEMMA TurnsKeepInv ==
    ASSUME Schedule!Parameters, SchedulerInv, NEW w \in Workers,
           Schedule!Enqueue(w) \/ Schedule!TakeTurn(w)
    PROVE  SchedulerInv'
<1> USE DEF SchedulerInv, WorkersInv, WorkerTypes
<1>1. PlanInv'
  BY PlanUnchanged DEF Schedule!Enqueue, Schedule!TakeTurn, Schedule!counts, Schedule!ends
<1>2. job[w] \in Nodes /\ pc[w] \in {"begin", "turn"}
  BY DEF Schedule!Enqueue, Schedule!TakeTurn, JobsAreActive, Busy
<1>3. /\ UNCHANGED <<active, priorityMode, stopped, failure, threads, main, job, built>>
      /\ pc' = [pc EXCEPT ![w] = "turn"] \/ pc' = [pc EXCEPT ![w] = "refresh"]
  BY DEF Schedule!Enqueue, Schedule!TakeTurn, Schedule!counts, Schedule!ends
<1>4. {v \in Workers : pc'[v] # "gone"} = {v \in Workers : pc[v] # "gone"}
  BY <1>2, <1>3
<1>5. owner' \in Nodes \cup {None} /\ queue' \in Seq(Nodes) /\ protected' \subseteq Nodes
  <2>1. Append(queue, job[w]) \in Seq(Nodes)
    BY <1>2
  <2>2. active \subseteq Nodes
    BY DEF PlanInv, PlanTypes
  <2>3. CASE Schedule!Enqueue(w)
    BY <1>2, <2>1, <2>3 DEF Schedule!Enqueue
  <2>4. CASE Schedule!TakeTurn(w)
    BY <2>2, <2>4 DEF Schedule!TakeTurn
  <2>5. QED
    BY <2>3, <2>4
<1>6. WorkerTypes'
  BY <1>3, <1>4, <1>5 DEF Schedule!Pcs
<1>7. JobsAreActive'
  BY <1>2, <1>3 DEF JobsAreActive, Busy
<1>8. Schedule!ActiveFamiliesAreProtected'
  <2>1. CASE Schedule!Enqueue(w)
    <3>1. /\ pc' = [pc EXCEPT ![w] = "turn"] /\ UNCHANGED <<protected, job, active>>
          /\ owner # None => UNCHANGED owner
      BY <2>1 DEF Schedule!Enqueue, Schedule!ends
    <3>2. \A v \in Workers : pc[v] \in {"refresh", "end"} => owner # None
      BY DEF Schedule!ActiveFamiliesAreProtected, JobsAreActive, Busy
    <3>3. QED
      BY <3>1, <3>2 DEF Schedule!ActiveFamiliesAreProtected
  <2>2. CASE Schedule!TakeTurn(w)
    <3>1. /\ pc[w] = "turn" /\ owner = job[w] /\ pc' = [pc EXCEPT ![w] = "refresh"]
          /\ protected' = active /\ UNCHANGED <<owner, job, active>>
      BY <2>2 DEF Schedule!TakeTurn, Schedule!ends
    <3>2. ASSUME NEW v \in Workers, pc'[v] \in {"refresh", "end"}
          PROVE  v = w
      BY <3>1, <3>2, OneRefresh DEF Busy
    <3>3. QED
      BY <3>1, <3>2 DEF Schedule!ActiveFamiliesAreProtected
  <2>3. QED
    BY <2>1, <2>2
<1>9. CancelledWasStopped' /\ ExitHasReason' /\ OverWhenGone'
  BY <1>2, <1>3 DEF CancelledWasStopped, ExitHasReason, OverWhenGone
<1>10. QED
  BY <1>1, <1>6, <1>7, <1>8, <1>9

\* The ends of a node: finish_success, finish_checkpoint_maintenance, finish_inspected
\* and finish_failure.
LEMMA LeavesKeepInv ==
    ASSUME Schedule!Parameters, SchedulerInv, NEW w \in Workers,
           Schedule!FinishSuccess(w) \/ Schedule!EndMaintenance(w)
           \/ Schedule!FinishInspected(w) \/ Schedule!FinishFailure(w)
    PROVE  SchedulerInv'
<1>1. PlanInv /\ WorkersInv /\ WorkerTypes /\ active \subseteq Nodes /\ built \subseteq Nodes
      /\ stopped \in BOOLEAN
  BY DEF SchedulerInv, WorkersInv, PlanInv, PlanTypes
<1>2. pc[w] \in Busy
  BY DEF Schedule!FinishSuccess, Schedule!EndMaintenance, Schedule!FinishInspected,
     Schedule!FinishFailure, Busy
<1>3. job[w] \in active /\ job[w] \in Nodes
  BY <1>1, <1>2 DEF WorkersInv, JobsAreActive
<1>4. CASE Schedule!FinishSuccess(w)
  <2>1. /\ Schedule!FinishTransition(job[w]) /\ Schedule!Told /\ job' = [job EXCEPT ![w] = None]
        /\ pc' = Schedule!Signal([pc EXCEPT ![w] = "next"])
        /\ UNCHANGED <<owner, queue, protected, stopped, failure, threads>>
    BY <1>4 DEF Schedule!FinishSuccess, Schedule!maintenance
  <2>2. PlanInv'
    BY <1>1, <1>3, <2>1, FinishKeepsPlan
  <2>3. active' = active \ {job[w]} /\ built' = built \cup {job[w]} /\ UNCHANGED priorityMode
    BY <2>1 DEF Schedule!FinishTransition, Schedule!LeaveActive
  <2>4. WorkersInv'
    BY <1>1, <1>2, <1>3, <2>1, <2>3, LeaveKeepsWorkers DEF WorkerTypes
  <2>5. QED
    BY <2>2, <2>4 DEF SchedulerInv
<1>5. CASE Schedule!EndMaintenance(w)
  <2>1. /\ Schedule!FinishTransition(job[w]) /\ Schedule!Told /\ job' = [job EXCEPT ![w] = None]
        /\ pc' = Schedule!Signal([pc EXCEPT ![w] = "next"]) /\ pc[w] = "end" /\ Schedule!Advance
        /\ UNCHANGED <<protected, stopped, failure, threads>>
    BY <1>5 DEF Schedule!EndMaintenance
  <2>2. PlanInv'
    BY <1>1, <1>3, <2>1, FinishKeepsPlan
  <2>3. active' = active \ {job[w]} /\ built' = built \cup {job[w]} /\ UNCHANGED priorityMode
    BY <2>1 DEF Schedule!FinishTransition, Schedule!LeaveActive
  <2>4. owner' \in Nodes \cup {None} /\ queue' \in Seq(Nodes)
    <3>1. queue \in Seq(Nodes)
      BY <1>1 DEF WorkerTypes
    <3>2. queue # <<>> => Head(queue) \in Nodes /\ Tail(queue) \in Seq(Nodes)
      BY <3>1
    <3>3. QED
      BY <2>1, <3>1, <3>2 DEF Schedule!Advance
  <2>5. WorkersInv'
    BY <1>1, <1>2, <1>3, <2>1, <2>3, <2>4, LeaveKeepsWorkers DEF WorkerTypes
  <2>6. QED
    BY <2>2, <2>5 DEF SchedulerInv
<1>6. CASE Schedule!FinishInspected(w)
  <2>1. /\ Schedule!LeaveActive(job[w]) /\ Schedule!Told /\ job' = [job EXCEPT ![w] = None]
        /\ pc' = Schedule!Signal([pc EXCEPT ![w] = "next"]) /\ stopped' = TRUE
        /\ UNCHANGED <<remaining, ready, priorityReady, built, owner, queue, protected, failure, threads>>
    BY <1>6 DEF Schedule!FinishInspected, Schedule!maintenance
  <2>2. PlanInv'
    BY <1>1, <1>3, <2>1, LeaveKeepsPlan
  <2>3. active' = active \ {job[w]} /\ UNCHANGED priorityMode
    BY <2>1 DEF Schedule!LeaveActive
  <2>4. WorkersInv'
    BY <1>1, <1>2, <1>3, <2>1, <2>3, LeaveKeepsWorkers DEF WorkerTypes
  <2>5. QED
    BY <2>2, <2>4 DEF SchedulerInv
<1>7. CASE Schedule!FinishFailure(w)
  <2>1. /\ Schedule!LeaveActive(job[w]) /\ Schedule!Told /\ job' = [job EXCEPT ![w] = None]
        /\ pc' = Schedule!Signal([pc EXCEPT ![w] = "exit"]) /\ pc[w] \in {"failed", "cancelled"}
        /\ failure' = (failure \/ (pc[w] = "failed" /\ ~stopped))
        /\ UNCHANGED <<remaining, ready, priorityReady, built, completed, owner, queue, protected,
                       stopped, threads>>
    BY <1>7 DEF Schedule!FinishFailure, Schedule!maintenance
  <2>2. PlanInv'
    BY <1>1, <1>3, <2>1, LeaveKeepsPlan
  <2>3. active' = active \ {job[w]} /\ UNCHANGED priorityMode
    BY <2>1 DEF Schedule!LeaveActive
  <2>4. failure' \in BOOLEAN /\ (failure => failure') /\ (failure' \/ stopped')
    BY <1>1, <2>1 DEF WorkerTypes, WorkersInv, CancelledWasStopped
  <2>5. WorkersInv'
    BY <1>1, <1>2, <1>3, <2>1, <2>3, <2>4, LeaveKeepsWorkers DEF WorkerTypes
  <2>6. QED
    BY <2>2, <2>5 DEF SchedulerInv
<1>8. QED
  BY <1>4, <1>5, <1>6, <1>7

\* A worker that leaves is counted out once.
LEMMA ExitKeepsInv ==
    ASSUME Schedule!Parameters, SchedulerInv, NEW w \in Workers, Schedule!WorkerExit(w)
    PROVE  SchedulerInv'
<1>1. /\ pc[w] = "exit" /\ threads' = threads - 1 /\ pc' = Schedule!Signal([pc EXCEPT ![w] = "gone"])
      /\ Schedule!Told /\ UNCHANGED <<priorityMode, active, owner, queue, protected, stopped,
                                      failure, job, built>>
  BY DEF Schedule!WorkerExit, Schedule!counts, Schedule!maintenance
<1>2. PlanInv'
  BY PlanUnchanged DEF Schedule!WorkerExit, Schedule!counts, SchedulerInv
<1>3. WorkersInv /\ WorkerTypes /\ pc \in [Workers -> Schedule!Pcs]
  BY DEF SchedulerInv, WorkersInv, WorkerTypes
<1>4. /\ pc' \in [Workers -> Schedule!Pcs] /\ pc'[w] = "gone"
      /\ \A v \in Workers \ {w} : pc'[v] \in Busy <=> pc[v] \in Busy
      /\ \A v \in Workers \ {w} : \A x \in {"refresh", "end", "cancelled", "exit", "gone"} :
           pc'[v] = x <=> pc[v] = x
  BY <1>1, <1>3, SignalFacts
<1>5. threads' = Cardinality({v \in Workers : pc'[v] # "gone"}) /\ threads > 0
  <2> DEFINE Here == {v \in Workers : pc[v] # "gone"}
  <2>1. IsFiniteSet(Here) /\ w \in Here
    BY <1>1, FS_Subset, CardinalityOfParts DEF Schedule!Parameters
  <2>2. {v \in Workers : pc'[v] # "gone"} = Here \ {w}
    BY <1>4
  <2>3. Cardinality(Here \ {w}) = Cardinality(Here) - 1 /\ Cardinality(Here \ {w}) \in Nat
        /\ Cardinality(Here) \in Nat
    BY <2>1, FS_RemoveElement, FS_CardinalityType
  <2>4. threads = Cardinality(Here)
    BY <1>3 DEF WorkerTypes
  <2> HIDE DEF Here
  <2>5. Cardinality({v \in Workers : pc'[v] # "gone"}) = Cardinality(Here \ {w})
    BY <2>2, Zenon
  <2>6. QED
    BY <1>1, <2>3, <2>4, <2>5
<1>6. WorkerTypes'
  BY <1>1, <1>3, <1>4, <1>5 DEF WorkerTypes, Schedule!Told
<1>7. JobsAreActive'
  <2>1. pc[w] \notin Busy /\ pc'[w] \notin Busy
    BY <1>1, <1>4 DEF Busy
  <2>2. QED
    BY <1>1, <1>3, <1>4, <2>1 DEF WorkersInv, JobsAreActive
<1>8. Schedule!ActiveFamiliesAreProtected'
  BY <1>1, <1>3, <1>4 DEF WorkersInv, Schedule!ActiveFamiliesAreProtected
<1>9. CancelledWasStopped'
  BY <1>1, <1>3, <1>4 DEF WorkersInv, CancelledWasStopped
<1>10. ExitHasReason'
  BY <1>1, <1>3, <1>4 DEF WorkersInv, ExitHasReason
<1>11. OverWhenGone'
  BY <1>1, <1>3, <1>5 DEF WorkersInv, OverWhenGone, Schedule!Told
<1>12. QED
  BY <1>2, <1>6, <1>7, <1>8, <1>9, <1>10, <1>11 DEF SchedulerInv, WorkersInv

\* The waiting thread's look at the workers, and a step of something else.
LEMMA WaitKeepsInv ==
    ASSUME SchedulerInv, Schedule!WaitWorkers \/ UNCHANGED Schedule!vars
    PROVE  SchedulerInv'
<1>1. /\ UNCHANGED <<remaining, ready, priorityReady, priorityRunning, running, completed, priorityMode>>
      /\ UNCHANGED <<active, owner, queue, protected, stopped, failure, threads, job, pc, built>>
  BY DEF Schedule!WaitWorkers, Schedule!vars, Schedule!counts, Schedule!maintenance, Schedule!ends
<1>2. main' = main \/ (main' = IF threads = 0 THEN "over" ELSE "wait")
  BY DEF Schedule!WaitWorkers, Schedule!vars, Schedule!ends
<1>3. PlanInv'
  BY <1>1, PlanUnchanged DEF SchedulerInv
<1>4. WorkersInv'
  BY <1>1, <1>2
     DEF SchedulerInv, WorkersInv, WorkerTypes, JobsAreActive,
         Schedule!ActiveFamiliesAreProtected,
                    CancelledWasStopped, ExitHasReason, OverWhenGone
<1>5. QED
  BY <1>3, <1>4 DEF SchedulerInv

\* The first state: what has no dependencies is ready, and every worker looks for work.
LEMMA SchedulerStarts ==
    ASSUME Schedule!Parameters, Schedule!Init
    PROVE  SchedulerInv
<1>1. Cardinality({}) = 0
  BY FS_EmptySet
<1>2. PlanTypes
  <2>1. \A n \in Nodes : Cardinality(Deps[n]) \in Nat
    BY NodesFinite DEF Schedule!Parameters
  <2>2. remaining \in [Nodes -> Nat]
    BY <2>1, CardinalityOfParts DEF Schedule!Init
  <2>3. active \cap Retained = {}
    BY DEF Schedule!Init
  <2>4. QED
    BY <1>1, <2>2, <2>3, CardinalityOfParts DEF Schedule!Init, PlanTypes
<1>3. Schedule!DepsBuiltFirst /\ ReadyIsIdle /\ BuiltIsClosed /\ CompletedIsBuilt
  BY <1>1 DEF Schedule!Init, Schedule!DepsBuiltFirst, ReadyIsIdle, BuiltIsClosed, CompletedIsBuilt
<1>4. RemainingIsExact
  <2>1. \A n \in Nodes : Deps[n] \ built = Deps[n]
    BY DEF Schedule!Init, Schedule!Parameters
  <2>2. QED
    BY <2>1, CardinalityOfParts DEF Schedule!Init, RemainingIsExact
<1>5. WorkerTypes
  <2>1. {w \in Workers : pc[w] # "gone"} = Workers
    BY DEF Schedule!Init
  <2>2. queue \in Seq(Nodes)
    BY DEF Schedule!Init
  <2>3. QED
    BY <2>1, <2>2, CardinalityOfParts DEF Schedule!Init, WorkerTypes, Schedule!Pcs
<1>6. JobsAreActive /\ Schedule!ActiveFamiliesAreProtected /\ CancelledWasStopped
      /\ ExitHasReason /\ OverWhenGone
  BY DEF Schedule!Init, JobsAreActive, Schedule!ActiveFamiliesAreProtected, CancelledWasStopped,
     ExitHasReason,
         OverWhenGone, Busy
<1>7. QED
  BY <1>2, <1>3, <1>4, <1>5, <1>6 DEF SchedulerInv, PlanInv, WorkersInv

\* Every step of the scheduler keeps the invariant.
LEMMA SchedulerStep ==
    ASSUME Schedule!Parameters, SchedulerInv, [Schedule!Next]_(Schedule!vars)
    PROVE  SchedulerInv'
<1>1. CASE Schedule!WaitWorkers \/ UNCHANGED Schedule!vars
  BY <1>1, WaitKeepsInv
<1>2. ASSUME NEW w \in Workers, Schedule!Step(w)
      PROVE  SchedulerInv'
  <2>1. CASE \E n \in Nodes : Schedule!Dispatch(w, n)
    <3>1. PICK n \in Nodes : Schedule!Dispatch(w, n)
      BY <2>1
    <3>2. PlanInv' /\ WorkersInv'
      BY <3>1, DispatchKeepsPlan, DispatchKeepsWorkers DEF SchedulerInv
    <3>3. QED
      BY <3>2 DEF SchedulerInv
  <2>2. CASE \/ Schedule!WaitForWork(w) \/ Schedule!NoMoreWork(w) \/ Schedule!BuildOne(w)
             \/ Schedule!WaitToFinish(w) \/ Schedule!WaitForTurn(w)
             \/ Schedule!Refresh(w) \/ Schedule!RefreshRaises(w) \/ Schedule!StopRequested(w)
    BY <2>2, MovesKeepInv
  <2>3. CASE Schedule!Enqueue(w) \/ Schedule!TakeTurn(w)
    BY <2>3, TurnsKeepInv
  <2>4. CASE Schedule!FinishSuccess(w) \/ Schedule!EndMaintenance(w)
             \/ Schedule!FinishInspected(w) \/ Schedule!FinishFailure(w)
    BY <2>4, LeavesKeepInv
  <2>5. CASE Schedule!WorkerExit(w)
    BY <2>5, ExitKeepsInv
  <2>6. QED
    BY <1>2, <2>1, <2>2, <2>3, <2>4, <2>5 DEF Schedule!Step
<1>3. QED
  BY <1>1, <1>2 DEF Schedule!Next

\* The invariant holds of every behaviour of the scheduler.
LEMMA SchedulerInvariant ==
    ASSUME Schedule!Parameters
    PROVE  Schedule!Spec => []SchedulerInv
<1>1. Schedule!Init => SchedulerInv
  BY SchedulerStarts
<1>2. SchedulerInv /\ [Schedule!Next]_(Schedule!vars) => SchedulerInv'
  BY SchedulerStep
<1>3. QED
  BY <1>1, <1>2, PTL DEF Schedule!Spec

-----------------------------------------------------------------------------

\* remaining_deps and release_dependent: for any plan and any order of finishing, a node
\* is out only with all it depends on built, and never after it is built itself.
THEOREM PlanIsBuiltInOrder ==
    ASSUME Schedule!Parameters
    PROVE  Schedule!Spec => []DepsBuiltFirst
<1>1. SchedulerInv => DepsBuiltFirst
  BY DEF SchedulerInv, PlanInv, DepsBuiltFirst
<1>2. QED
  BY <1>1, SchedulerInvariant, PTL

\* finish_checkpoint_maintenance and next_work: for any number of workers in line for the
\* turn, no family of an active node is evicted.
THEOREM RefreshSparesActiveFamilies ==
    ASSUME Schedule!Parameters
    PROVE  Schedule!Spec => []ActiveFamiliesAreProtected
<1>1. SchedulerInv => ActiveFamiliesAreProtected
  BY DEF SchedulerInv, WorkersInv, ActiveFamiliesAreProtected
<1>2. QED
  BY <1>1, SchedulerInvariant, PTL

\* wait_workers_locked: a build that ends with neither failure nor stop built every node
\* of the plan, whatever the plan.
THEOREM SuccessfulBuildIsWhole ==
    ASSUME Schedule!Parameters
    PROVE  Schedule!Spec => []SuccessIsWhole
<1>1. ASSUME SchedulerInv, main = "over"
      PROVE  active = {} /\ (failure \/ stopped \/ built = Nodes)
  <2>1. WorkersInv /\ active \subseteq Nodes
    BY <1>1 DEF SchedulerInv, PlanInv, PlanTypes
  <2>2. Cardinality({w \in Workers : pc[w] # "gone"}) = 0
    BY <1>1, <2>1 DEF WorkersInv, WorkerTypes, OverWhenGone
  <2>3. \A w \in Workers : pc[w] = "gone"
    <3>1. IsFiniteSet({w \in Workers : pc[w] # "gone"})
      BY FS_Subset, CardinalityOfParts DEF Schedule!Parameters
    <3>2. {w \in Workers : pc[w] # "gone"} = {}
      BY <2>2, <3>1, FS_EmptySet
    <3>3. QED
      BY <3>2
  <2>4. active = {}
    BY <2>1, <2>3 DEF WorkersInv, JobsAreActive, Busy, Schedule!Parameters
  <2>5. PICK w \in Workers : pc[w] = "gone"
    BY <2>3 DEF Schedule!Parameters
  <2>6. failure \/ stopped \/ built = Nodes
    BY <2>1, <2>5 DEF WorkersInv, ExitHasReason
  <2>7. QED
    BY <2>4, <2>6
<1>2. SchedulerInv => SuccessIsWhole
  BY <1>1 DEF SuccessIsWhole, Schedule!SuccessIsWhole
<1>3. QED
  BY <1>2, SchedulerInvariant, PTL

-----------------------------------------------------------------------------
(* Nobody is forgotten: what a thread waits for is only done by steps that broadcast. *)

\* The plan is a DAG (the topological sort of build_plan.sml raises on a cycle): every set
\* of its nodes has one that depends on none of them.
PlanIsADag == \A S \in (SUBSET Nodes) \ {{}} : \E n \in S : Deps[n] \cap S = {}

\* Until a failure or a stop, priority_focus_remaining counts the focus not built.
FocusIsCounted == ~failure /\ ~stopped => focusLeft = Cardinality(Schedule!Focus \ built)

\* Until then, a node with all its dependencies built is built, out, or being built.
ReadyIsComplete ==
    ~failure /\ ~stopped =>
        \A n \in Nodes : Deps[n] \subseteq built => n \in built \cup ready \cup active

\* The places where a thread waits on the condition variable.
Waits == {"waitWork", "waitFinish", "waitTurn"}

\* What a worker waits for has not happened yet.
WaitHasReason ==
    \A w \in Workers :
        /\ pc[w] = "waitWork" => /\ ~failure /\ ~stopped
                                 /\ owner # None \/ (Schedule!Poppable = {} /\ ~Schedule!AllDone)
        /\ pc[w] = "waitFinish" => owner # None
        /\ pc[w] = "waitTurn" => owner # job[w]

\* In line for the refresh, or its owner.
LinePcs == {"turn", "waitTurn"}
OwnerPcs == {"turn", "waitTurn", "refresh", "end"}

\* The owner of the refresh and every node in line for it have a worker that comes back
\* for its turn, and there is a line only behind an owner.
LineIsKept ==
    /\ queue # <<>> => owner # None
    /\ \A i \in 1 .. Len(queue) : queue[i] # owner
    /\ \A i, j \in 1 .. Len(queue) : queue[i] = queue[j] => i = j
    /\ owner # None => \E w \in Workers : job[w] = owner /\ pc[w] \in OwnerPcs
    /\ \A i \in 1 .. Len(queue) : \E w \in Workers : job[w] = queue[i] /\ pc[w] \in LinePcs
    /\ \A w \in Workers : pc[w] \in LinePcs =>
          job[w] = owner \/ \E i \in 1 .. Len(queue) : queue[i] = job[w]

\* The thread that waits for the workers waits only while there are any.
MainIsTold == main = "wait" => threads # 0

WaitsInv == FocusIsCounted /\ ReadyIsComplete /\ WaitHasReason /\ LineIsKept /\ MainIsTold

\* While the build waits for its workers, one of them goes on without a signal: no
\* order of finishes, failures, inspections and refreshes has everybody wait for a
\* broadcast that nobody is left to send (ConditionVar.wait in next_work, finish_success,
\* begin_checkpoint_maintenance and wait_workers_locked).
SomeoneIsAwake == main = "wait" => \E w \in Workers : pc[w] \notin Waits \cup {"gone"}

\* mark_priority_focus marks nodes, the retained failures and whatever a marked one
\* depends on.
LEMMA FocusFacts ==
    ASSUME Schedule!Parameters
    PROVE  /\ Schedule!Focus \subseteq Nodes
           /\ \A n \in Schedule!Focus : Deps[n] \subseteq Schedule!Focus
<1>1. ASSUME NEW n \in Schedule!Focus, NEW m \in Deps[n]
      PROVE  m \in Schedule!Focus
  <2>1. n \in Nodes /\ m \in Nodes
    BY DEF Schedule!Focus, Schedule!Parameters
  <2>2. ASSUME NEW S \in SUBSET Nodes, Retained \subseteq S, \A i \in S : Deps[i] \subseteq S
        PROVE  m \in S
    BY <2>2 DEF Schedule!Focus
  <2>3. QED
    BY <2>1, <2>2 DEF Schedule!Focus
<1>2. QED
  BY <1>1 DEF Schedule!Focus

\* A finished node: what it was the last dependency of is released, and the focus not
\* built is one less if it was in it.
LEMMA FinishKeepsCount ==
    ASSUME Schedule!Parameters, PlanInv, FocusIsCounted, ReadyIsComplete, NEW n \in active,
           Schedule!FinishTransition(n), UNCHANGED <<stopped, failure>>
    PROVE  FocusIsCounted' /\ ReadyIsComplete'
<1> SUFFICES ASSUME ~failure, ~stopped
             PROVE  /\ focusLeft' = Cardinality(Schedule!Focus \ built')
                    /\ \A m \in Nodes : Deps[m] \subseteq built' =>
                          m \in built' \cup ready' \cup active'
  BY DEF FocusIsCounted, ReadyIsComplete, Schedule!Focus
<1>1. /\ active' = active \ {n} /\ built' = built \cup {n}
      /\ focusLeft' = focusLeft - (IF n \in Schedule!Focus THEN 1 ELSE 0)
      /\ ready' = ready \cup {m \in Schedule!Dependents(n) : remaining[m] = 1}
  BY DEF Schedule!FinishTransition, Schedule!LeaveActive, Schedule!ReleaseDependents
<1>2. n \in Nodes /\ n \notin built /\ built \subseteq Nodes
  BY DEF PlanInv, PlanTypes, Schedule!DepsBuiltFirst
<1>3. focusLeft' = Cardinality(Schedule!Focus \ built')
  <2> DEFINE F == Schedule!Focus \ built
  <2>1. F \in SUBSET Nodes /\ Cardinality(F) \in Nat /\ focusLeft = Cardinality(F)
    BY FocusFacts, NodesFinite DEF FocusIsCounted
  <2>2. CASE n \in Schedule!Focus
    <3>1. n \in F /\ Schedule!Focus \ built' = F \ {n}
      BY <1>1, <1>2, <2>2
    <3> HIDE DEF F
    <3>2. Cardinality(F \ {n}) = Cardinality(F) - 1
      BY <1>2, <2>1, <3>1, OneNodeMore
    <3>3. QED
      BY <1>1, <2>1, <2>2, <3>1, <3>2
  <2>3. CASE n \notin Schedule!Focus
    <3>1. Schedule!Focus \ built' = F
      BY <1>1, <2>3
    <3> HIDE DEF F
    <3>2. QED
      BY <1>1, <2>1, <2>3, <3>1
  <2>4. QED
    BY <2>2, <2>3
<1>4. ASSUME NEW m \in Nodes, Deps[m] \subseteq built'
      PROVE  m \in built' \cup ready' \cup active'
  <2>1. CASE Deps[m] \subseteq built
    BY <1>1, <2>1 DEF ReadyIsComplete
  <2>2. CASE ~(Deps[m] \subseteq built)
    <3>1. n \in Deps[m] /\ Deps[m] \ built = {n}
      BY <1>1, <1>2, <1>4, <2>2
    <3>2. remaining[m] = Cardinality(Deps[m] \ built)
      BY DEF PlanInv, RemainingIsExact
    <3>3. Cardinality({n}) = 1
      BY FS_Singleton
    <3>4. m \in Schedule!Dependents(n) /\ remaining[m] = 1
      BY <3>1, <3>2, <3>3 DEF Schedule!Dependents
    <3>5. QED
      BY <1>1, <3>4
  <2>3. QED
    BY <2>1, <2>2
<1>5. QED
  BY <1>3, <1>4

\* After a broadcast nobody waits; who was in line or refreshing still is.
LEMMA SignalWakes ==
    ASSUME pc \in [Workers -> Schedule!Pcs], NEW w \in Workers, NEW to \in {"next", "exit", "gone"},
           pc' = Schedule!Signal([pc EXCEPT ![w] = to])
    PROVE  /\ \A v \in Workers : pc'[v] \notin Waits
           /\ pc'[w] \notin OwnerPcs
           /\ \A v \in Workers \ {w} : /\ pc'[v] \in LinePcs <=> pc[v] \in LinePcs
                                       /\ pc'[v] \in OwnerPcs <=> pc[v] \in OwnerPcs
<1>1. ASSUME NEW v \in Workers, v # w
      PROVE  pc'[v] = CASE pc[v] = "waitWork" -> "next" [] pc[v] = "waitFinish" -> "finish"
                        [] pc[v] = "waitTurn" -> "turn" [] OTHER -> pc[v]
  BY <1>1 DEF Schedule!Signal, Schedule!Recheck
<1>2. pc'[w] = to
  BY DEF Schedule!Signal, Schedule!Recheck
<1>3. QED
  BY <1>1, <1>2 DEF Waits, LinePcs, OwnerPcs

\* A step that leaves the refresh, its line and the workers in it where they are.
LEMMA LineUnmoved ==
    ASSUME LineIsKept, UNCHANGED <<owner, queue>>,
           \A v \in Workers : /\ pc'[v] \in LinePcs <=> pc[v] \in LinePcs
                              /\ pc'[v] \in OwnerPcs <=> pc[v] \in OwnerPcs
                              /\ pc[v] \in OwnerPcs => job'[v] = job[v]
    PROVE  LineIsKept'
<1>1. \A v \in Workers : pc[v] \in LinePcs => pc[v] \in OwnerPcs
  BY DEF LinePcs, OwnerPcs
<1>2. /\ owner' # None => \E v \in Workers : job'[v] = owner' /\ pc'[v] \in OwnerPcs
      /\ \A i \in 1 .. Len(queue') : \E v \in Workers : job'[v] = queue'[i] /\ pc'[v] \in LinePcs
      /\ \A v \in Workers : pc'[v] \in LinePcs =>
            job'[v] = owner' \/ \E i \in 1 .. Len(queue') : queue'[i] = job'[v]
  BY <1>1 DEF LineIsKept
<1>3. QED
  BY <1>2 DEF LineIsKept

\* A worker's own move, without a broadcast, keeps the reasons of the others as long as
\* what it leaves alone is what they wait for.
LEMMA MoveKeepsReasons ==
    ASSUME WorkersInv, WaitHasReason, NEW w \in Workers, NEW to \in Schedule!Pcs,
           pc' = [pc EXCEPT ![w] = to], UNCHANGED <<failure, stopped, owner, job>>,
           Schedule!Poppable' = Schedule!Poppable, Schedule!AllDone' = Schedule!AllDone,
           to = "waitWork" => /\ ~failure /\ ~stopped
                              /\ owner # None \/ (Schedule!Poppable = {} /\ ~Schedule!AllDone),
           to = "waitFinish" => owner # None,
           to = "waitTurn" => owner # job[w]
    PROVE  WaitHasReason'
<1>1. pc \in [Workers -> Schedule!Pcs]
  BY DEF WorkersInv, WorkerTypes
<1>2. \A v \in Workers : pc'[v] = IF v = w THEN to ELSE pc[v]
  BY <1>1
<1> HIDE DEF Schedule!Poppable, Schedule!AllDone
<1>3. QED
  BY <1>2 DEF WaitHasReason

\* pop_ready may leave the focus mode, but only once it counts for nothing.
LEMMA PopModeChangesNothing ==
    ASSUME priorityMode \in BOOLEAN, Schedule!PopMode,
           UNCHANGED <<ready, priorityReady, priorityRunning, focusLeft>>
    PROVE  Schedule!Poppable' = Schedule!Poppable
<1>1. Schedule!Focussed' = Schedule!Focussed \/ ready = {}
  BY DEF Schedule!Focussed, Schedule!PopMode
<1>2. Schedule!Focus' = Schedule!Focus
  BY DEF Schedule!Focus
<1>3. QED
  BY <1>1, <1>2 DEF Schedule!Poppable, Schedule!Focussed, Schedule!PopMode

\* A step that leaves the plan alone keeps what is counted and out.
LEMMA CountsUnmoved ==
    ASSUME FocusIsCounted, ReadyIsComplete,
           UNCHANGED <<built, ready, active, failure, stopped, focusLeft>>
    PROVE  FocusIsCounted' /\ ReadyIsComplete'
  BY DEF FocusIsCounted, ReadyIsComplete, Schedule!Focus

\* next_work's waits and exits, build_one, and the waits of finish_success and
\* begin_checkpoint_maintenance.
LEMMA MovesKeepWaits ==
    ASSUME Schedule!Parameters, WarnRaises = FALSE, SchedulerInv, WaitsInv, NEW w \in Workers,
           \/ Schedule!WaitForWork(w) \/ Schedule!NoMoreWork(w) \/ Schedule!BuildOne(w)
           \/ Schedule!WaitToFinish(w) \/ Schedule!WaitForTurn(w)
           \/ Schedule!Refresh(w) \/ Schedule!RefreshRaises(w) \/ Schedule!StopRequested(w)
    PROVE  WaitsInv'
<1>1. UNCHANGED <<remaining, ready, priorityReady, priorityRunning, focusLeft, running, completed,
                  active, owner, queue, stopped, failure, threads, main, job, built>>
  BY DEF Schedule!WaitForWork, Schedule!NoMoreWork, Schedule!BuildOne, Schedule!WaitToFinish,
         Schedule!WaitForTurn, Schedule!Refresh, Schedule!RefreshRaises,
         Schedule!StopRequested, Schedule!counts, Schedule!maintenance, Schedule!ends
<1>2. WorkersInv /\ pc \in [Workers -> Schedule!Pcs] /\ priorityMode \in BOOLEAN
  BY DEF SchedulerInv, WorkersInv, WorkerTypes
<1>3. Schedule!Poppable' = Schedule!Poppable
  <2>1. CASE UNCHANGED priorityMode
    BY <1>1, <2>1 DEF Schedule!Poppable, Schedule!Focussed, Schedule!Focus
  <2>2. CASE Schedule!PopMode
    BY <1>1, <1>2, <2>2, PopModeChangesNothing
  <2>3. QED
    BY <2>1, <2>2
       DEF Schedule!WaitForWork, Schedule!NoMoreWork, Schedule!BuildOne, Schedule!WaitToFinish,
           Schedule!WaitForTurn, Schedule!Refresh, Schedule!RefreshRaises,
           Schedule!StopRequested, Schedule!counts
<1>4. Schedule!AllDone' = Schedule!AllDone
  BY <1>1 DEF Schedule!AllDone
<1>5. FocusIsCounted' /\ ReadyIsComplete'
  BY <1>1, CountsUnmoved DEF WaitsInv
<1>6. MainIsTold'
  BY <1>1 DEF WaitsInv, MainIsTold
<1> DEFINE Reason(to) ==
             /\ to = "waitWork" => /\ ~failure /\ ~stopped
                                   /\ owner # None \/ (Schedule!Poppable = {} /\ ~Schedule!AllDone)
             /\ to = "waitFinish" => owner # None
             /\ to = "waitTurn" => owner # job[w]
           MayWait(to) ==
             /\ to \in Schedule!Pcs /\ pc' = [pc EXCEPT ![w] = to]
             /\ Reason(to)
             /\ to \in LinePcs <=> pc[w] \in LinePcs
             /\ to \in OwnerPcs <=> pc[w] \in OwnerPcs
<1>7. ASSUME NEW to, MayWait(to)
      PROVE  WaitsInv'
  <2>1. WaitHasReason'
    BY <1>1, <1>2, <1>3, <1>4, <1>7, MoveKeepsReasons DEF WaitsInv
  <2>2. LineIsKept'
    <3>1. \A v \in Workers : pc'[v] = IF v = w THEN to ELSE pc[v]
      BY <1>2, <1>7
    <3>2. \A v \in Workers : /\ pc'[v] \in LinePcs <=> pc[v] \in LinePcs
                             /\ pc'[v] \in OwnerPcs <=> pc[v] \in OwnerPcs
                             /\ pc[v] \in OwnerPcs => job'[v] = job[v]
      BY <1>1, <1>7, <3>1
    <3>3. QED
      BY <1>1, <3>2, LineUnmoved DEF WaitsInv
  <2>3. QED
    BY <1>5, <1>6, <2>1, <2>2 DEF WaitsInv
<1> USE DEF Schedule!Pcs, LinePcs, OwnerPcs
<1>8. CASE Schedule!WaitForWork(w)
  <2>1. MayWait("waitWork")
    BY <1>8 DEF Schedule!WaitForWork
  <2>2. QED
    BY <1>7, <2>1, Zenon
<1>9. CASE Schedule!NoMoreWork(w)
  <2>1. MayWait("exit")
    BY <1>9 DEF Schedule!NoMoreWork
  <2>2. QED
    BY <1>7, <2>1, Zenon
<1>10. CASE Schedule!BuildOne(w)
  <2>1. MayWait("finish") \/ MayWait("begin") \/ MayWait("inspected") \/ MayWait("raised")
    BY <1>10 DEF Schedule!BuildOne
  <2>2. QED
    BY <1>7, <2>1, Zenon
<1>11. CASE Schedule!WaitToFinish(w)
  <2>1. MayWait("waitFinish")
    BY <1>11 DEF Schedule!WaitToFinish
  <2>2. QED
    BY <1>7, <2>1, Zenon
<1>12. CASE Schedule!WaitForTurn(w)
  <2>1. MayWait("waitTurn")
    BY <1>12 DEF Schedule!WaitForTurn
  <2>2. QED
    BY <1>7, <2>1, Zenon
<1>13. CASE Schedule!Refresh(w)
  <2>1. MayWait("end")
    BY <1>13 DEF Schedule!Refresh
  <2>2. QED
    BY <1>7, <2>1, Zenon
<1>14. CASE Schedule!StopRequested(w)
  <2>1. MayWait("cancelled") \/ MayWait("failed")
    BY <1>14 DEF Schedule!StopRequested
  <2>2. QED
    BY <1>7, <2>1, Zenon
<1>15. QED
  BY <1>8, <1>9, <1>10, <1>11, <1>12, <1>13, <1>14 DEF Schedule!RefreshRaises

\* A worker that takes a node: nobody waits for work then, nor to finish.
LEMMA DispatchKeepsWaits ==
    ASSUME Schedule!Parameters, SchedulerInv, WaitsInv, NEW w \in Workers, NEW n \in Nodes,
           Schedule!Dispatch(w, n)
    PROVE  WaitsInv'
<1>1. /\ pc[w] = "next" /\ owner = None /\ n \in Schedule!Poppable
      /\ active' = active \cup {n} /\ ready' = ready \ {n}
      /\ pc' = [pc EXCEPT ![w] = "build"] /\ job' = [job EXCEPT ![w] = n]
      /\ UNCHANGED <<owner, queue, protected, stopped, failure, threads, main, built, focusLeft>>
  BY DEF Schedule!Dispatch, Schedule!Open, Schedule!maintenance, Schedule!ends
<1>2. pc \in [Workers -> Schedule!Pcs] /\ job \in [Workers -> Nodes \cup {None}]
  BY DEF SchedulerInv, WorkersInv, WorkerTypes
<1>3. \A v \in Workers : /\ pc'[v] = IF v = w THEN "build" ELSE pc[v]
                         /\ job'[v] = IF v = w THEN n ELSE job[v]
  BY <1>1, <1>2
<1>4. FocusIsCounted' /\ ReadyIsComplete'
  BY <1>1 DEF WaitsInv, FocusIsCounted, ReadyIsComplete, Schedule!Focus
<1>5. WaitHasReason'
  <2>1. \A v \in Workers : /\ pc'[v] \notin {"waitWork", "waitFinish"}
                           /\ pc'[v] = "waitTurn" => owner # job[v] /\ v # w
    BY <1>1, <1>3 DEF WaitsInv, WaitHasReason
  <2>2. QED
    BY <1>1, <1>3, <2>1 DEF WaitHasReason
<1>6. LineIsKept'
  <2>1. \A v \in Workers : /\ pc'[v] \in LinePcs <=> pc[v] \in LinePcs
                           /\ pc'[v] \in OwnerPcs <=> pc[v] \in OwnerPcs
                           /\ pc[v] \in OwnerPcs => job'[v] = job[v]
    BY <1>1, <1>3 DEF LinePcs, OwnerPcs
  <2>2. QED
    BY <1>1, <2>1, LineUnmoved DEF WaitsInv
<1>7. MainIsTold'
  BY <1>1 DEF WaitsInv, MainIsTold
<1>8. QED
  BY <1>4, <1>5, <1>6, <1>7 DEF WaitsInv

\* begin_checkpoint_maintenance: a worker becomes the owner when there is none, and the
\* last in line otherwise.
LEMMA EnqueueKeepsWaits ==
    ASSUME Schedule!Parameters, SchedulerInv, WaitsInv, NEW w \in Workers, Schedule!Enqueue(w)
    PROVE  WaitsInv'
<1>1. /\ pc[w] = "begin" /\ pc' = [pc EXCEPT ![w] = "turn"]
      /\ UNCHANGED <<remaining, ready, priorityReady, priorityRunning, priorityMode, focusLeft,
                     running, completed, active, stopped, failure, threads, main, job, built>>
  BY DEF Schedule!Enqueue, Schedule!counts, Schedule!ends
<1>2. /\ pc \in [Workers -> Schedule!Pcs] /\ job \in [Workers -> Nodes \cup {None}]
      /\ queue \in Seq(Nodes)
  BY DEF SchedulerInv, WorkersInv, WorkerTypes
<1>3. \A v \in Workers : pc'[v] = IF v = w THEN "turn" ELSE pc[v]
  BY <1>1, <1>2
<1>4. /\ job[w] # None /\ job[w] \in Nodes
      /\ \A v \in Workers : v # w => job[v] # job[w]
  BY <1>1, <1>2 DEF SchedulerInv, WorkersInv, JobsAreActive, Busy
<1>5. FocusIsCounted' /\ ReadyIsComplete'
  BY <1>1, CountsUnmoved DEF WaitsInv
<1>6. MainIsTold'
  BY <1>1 DEF WaitsInv, MainIsTold
<1>7. Schedule!Poppable' = Schedule!Poppable /\ Schedule!AllDone' = Schedule!AllDone
  BY <1>1 DEF Schedule!Poppable, Schedule!Focussed, Schedule!Focus, Schedule!AllDone
<1>8. owner' = owner \/ (owner = None /\ owner' = job[w])
  BY DEF Schedule!Enqueue
<1>9. WaitHasReason'
  <2> HIDE DEF Schedule!Poppable, Schedule!AllDone
  <2>1. QED
    BY <1>1, <1>3, <1>4, <1>7, <1>8 DEF WaitsInv, WaitHasReason
<1>10. LineIsKept
  BY DEF WaitsInv
<1>11. LineIsKept'
  <2>1. CASE owner = None
    <3>1. owner' = job[w] /\ queue' = queue /\ queue = <<>>
      BY <1>10, <2>1 DEF Schedule!Enqueue, LineIsKept
    <3>2. Len(queue') = 0 /\ \A v \in Workers : v # w => pc[v] \notin LinePcs
      <4>1. Len(queue) = 0
        BY <3>1
      <4>2. ASSUME NEW v \in Workers, pc[v] \in LinePcs PROVE FALSE
        <5>1. job[v] = None
          BY <1>10, <2>1, <4>1, <4>2 DEF LineIsKept
        <5>2. job[v] # None
          BY <4>2 DEF SchedulerInv, WorkersInv, JobsAreActive, Busy, LinePcs
        <5>3. QED
          BY <5>1, <5>2
      <4>3. QED
        BY <3>1, <4>1, <4>2
    <3>3. QED
      BY <1>1, <1>3, <3>1, <3>2 DEF LineIsKept, LinePcs, OwnerPcs
  <2>2. CASE owner # None
    <3>1. owner' = owner /\ queue' = Append(queue, job[w])
      BY <2>2 DEF Schedule!Enqueue
    <3> DEFINE k == Len(queue)
    <3>2. /\ k \in Nat /\ Len(queue') = k + 1 /\ queue'[k + 1] = job[w]
          /\ \A i \in 1 .. k : queue'[i] = queue[i]
      BY <1>2, <1>4, <3>1
    <3>3. \A i \in 1 .. k : queue[i] # job[w]
      BY <1>1, <1>4, <1>10 DEF LineIsKept, LinePcs
    <3>4. owner # job[w]
      BY <1>1, <1>4, <1>10, <2>2 DEF LineIsKept, OwnerPcs
    <3>5. \A i \in 1 .. k + 1 : i \in 1 .. k \/ i = k + 1
      BY <3>2
    <3>6. 1 .. k \subseteq 1 .. k + 1 /\ k + 1 \in 1 .. k + 1
      BY <3>2
    <3>7. /\ \A i \in 1 .. k : queue[i] # owner
          /\ \A i, j \in 1 .. k : queue[i] = queue[j] => i = j
          /\ \E v \in Workers : job[v] = owner /\ pc[v] \in OwnerPcs
          /\ \A i \in 1 .. k : \E v \in Workers : job[v] = queue[i] /\ pc[v] \in LinePcs
          /\ \A v \in Workers : pc[v] \in LinePcs =>
                job[v] = owner \/ \E i \in 1 .. k : queue[i] = job[v]
      BY <1>10, <2>2 DEF LineIsKept
    <3>8. /\ pc'[w] \in LinePcs /\ pc'[w] \in OwnerPcs /\ pc[w] \notin OwnerPcs /\ pc[w] \notin LinePcs
          /\ \A v \in Workers : v # w => pc'[v] = pc[v]
          /\ \A v \in Workers : job'[v] = job[v]
      BY <1>1, <1>3 DEF LinePcs, OwnerPcs
    <3> HIDE DEF k
    <3>9. \A i \in 1 .. k + 1 : queue'[i] # owner'
      BY <3>1, <3>2, <3>4, <3>5, <3>7
    <3>10. \A i, j \in 1 .. k + 1 : queue'[i] = queue'[j] => i = j
      BY <3>2, <3>3, <3>5, <3>7
    <3>11. \E v \in Workers : job'[v] = owner' /\ pc'[v] \in OwnerPcs
      BY <3>1, <3>7, <3>8
    <3>12. \A i \in 1 .. k + 1 : \E v \in Workers : job'[v] = queue'[i] /\ pc'[v] \in LinePcs
      BY <3>2, <3>5, <3>7, <3>8
    <3>13. \A v \in Workers : pc'[v] \in LinePcs =>
              job'[v] = owner' \/ \E i \in 1 .. k + 1 : queue'[i] = job'[v]
      BY <3>1, <3>2, <3>6, <3>7, <3>8
    <3>14. QED
      BY <2>2, <3>1, <3>2, <3>9, <3>10, <3>11, <3>12, <3>13 DEF LineIsKept
  <2>3. QED
    BY <2>1, <2>2
<1>12. QED
  BY <1>5, <1>6, <1>9, <1>11 DEF WaitsInv

\* The owner takes its turn; it is in nobody's way in the line.
LEMMA TakeTurnKeepsWaits ==
    ASSUME Schedule!Parameters, SchedulerInv, WaitsInv, NEW w \in Workers, Schedule!TakeTurn(w)
    PROVE  WaitsInv'
<1>1. /\ pc[w] = "turn" /\ owner = job[w] /\ pc' = [pc EXCEPT ![w] = "refresh"]
      /\ UNCHANGED <<remaining, ready, priorityReady, priorityRunning, priorityMode, focusLeft,
                     running, completed, active, owner, queue, stopped, failure, threads, main,
                     job, built>>
  BY DEF Schedule!TakeTurn, Schedule!counts, Schedule!ends
<1>2. WorkersInv /\ pc \in [Workers -> Schedule!Pcs]
  BY DEF SchedulerInv, WorkersInv, WorkerTypes
<1>3. \A v \in Workers : pc'[v] = IF v = w THEN "refresh" ELSE pc[v]
  BY <1>1, <1>2
<1>4. FocusIsCounted' /\ ReadyIsComplete'
  BY <1>1, CountsUnmoved DEF WaitsInv
<1>5. MainIsTold'
  BY <1>1 DEF WaitsInv, MainIsTold
<1>6. Schedule!Poppable' = Schedule!Poppable /\ Schedule!AllDone' = Schedule!AllDone
  BY <1>1 DEF Schedule!Poppable, Schedule!Focussed, Schedule!Focus, Schedule!AllDone
<1>7. WaitHasReason'
  <2> HIDE DEF Schedule!Poppable, Schedule!AllDone
  <2>1. QED
    BY <1>1, <1>3, <1>6 DEF WaitsInv, WaitHasReason
<1>8. LineIsKept'
  <2>1. LineIsKept
    BY DEF WaitsInv
  <2>2. \A i \in 1 .. Len(queue) : \E v \in Workers :
           job'[v] = queue'[i] /\ pc'[v] \in LinePcs
    BY <1>1, <1>3, <2>1 DEF LineIsKept
  <2>3. owner' # None => \E v \in Workers : job'[v] = owner' /\ pc'[v] \in OwnerPcs
    BY <1>1, <1>3 DEF OwnerPcs
  <2>4. \A v \in Workers : pc'[v] \in LinePcs =>
           job'[v] = owner' \/ \E i \in 1 .. Len(queue) : queue'[i] = job'[v]
    BY <1>1, <1>3, <2>1 DEF LineIsKept, LinePcs
  <2>5. QED
    BY <1>1, <2>1, <2>2, <2>3, <2>4 DEF LineIsKept
<1>9. QED
  BY <1>4, <1>5, <1>7, <1>8 DEF WaitsInv

\* A step that broadcasts leaves nobody waiting, so only the line and the counts are left
\* to look at.
LEMMA BroadcastKeepsWaits ==
    ASSUME WorkersInv, NEW w \in Workers, NEW to \in {"next", "exit", "gone"},
           pc' = Schedule!Signal([pc EXCEPT ![w] = to]), Schedule!Told,
           FocusIsCounted', ReadyIsComplete', LineIsKept'
    PROVE  WaitsInv'
<1>1. pc \in [Workers -> Schedule!Pcs]
  BY DEF WorkersInv, WorkerTypes
<1>2. \A v \in Workers : pc'[v] \notin Waits
  BY <1>1, SignalWakes
<1>3. WaitHasReason'
  BY <1>2 DEF WaitHasReason, Waits
<1>4. MainIsTold'
  BY DEF MainIsTold, Schedule!Told
<1>5. QED
  BY <1>3, <1>4 DEF WaitsInv

\* A worker outside the line that finishes, fails or exits leaves the line as it is.
LEMMA OutsiderKeepsLine ==
    ASSUME WorkersInv, LineIsKept, NEW w \in Workers, NEW to \in {"next", "exit", "gone"},
           pc' = Schedule!Signal([pc EXCEPT ![w] = to]), pc[w] \notin OwnerPcs,
           job' = [job EXCEPT ![w] = None] \/ job' = job, UNCHANGED <<owner, queue>>
    PROVE  LineIsKept'
<1>1. pc \in [Workers -> Schedule!Pcs] /\ job \in [Workers -> Nodes \cup {None}]
  BY DEF WorkersInv, WorkerTypes
<1>2. /\ pc'[w] \notin OwnerPcs
      /\ \A v \in Workers \ {w} : /\ pc'[v] \in LinePcs <=> pc[v] \in LinePcs
                                  /\ pc'[v] \in OwnerPcs <=> pc[v] \in OwnerPcs
  BY <1>1, SignalWakes
<1>3. \A v \in Workers \ {w} : job'[v] = job[v]
  BY <1>1
<1>4. pc[w] \notin LinePcs /\ pc'[w] \notin LinePcs
  BY <1>2 DEF LinePcs, OwnerPcs
<1>5. QED
  BY <1>2, <1>3, <1>4, LineUnmoved

\* advance_checkpoint_maintenance_locked: the first in line becomes the owner, and its
\* worker is awake.
LEMMA AdvanceKeepsLine ==
    ASSUME Schedule!Parameters, WorkersInv, LineIsKept, NEW w \in Workers, pc[w] = "end",
           pc' = Schedule!Signal([pc EXCEPT ![w] = "next"]), job' = [job EXCEPT ![w] = None],
           Schedule!Advance
    PROVE  LineIsKept'
<1>1. /\ pc \in [Workers -> Schedule!Pcs] /\ job \in [Workers -> Nodes \cup {None}]
      /\ queue \in Seq(Nodes)
  BY DEF WorkersInv, WorkerTypes
<1>2. /\ pc'[w] \notin OwnerPcs
      /\ \A v \in Workers \ {w} : /\ pc'[v] \in LinePcs <=> pc[v] \in LinePcs
                                  /\ pc'[v] \in OwnerPcs <=> pc[v] \in OwnerPcs
  BY <1>1, SignalWakes
<1>3. /\ \A v \in Workers \ {w} : job'[v] = job[v]
      /\ pc[w] \notin LinePcs /\ pc'[w] \notin LinePcs
      /\ \A v \in Workers : pc[v] \in LinePcs => pc[v] \in OwnerPcs
      /\ \A v \in Workers : pc'[v] \in LinePcs => pc'[v] \in OwnerPcs
  BY <1>1, <1>2 DEF LinePcs, OwnerPcs
<1>4. owner = job[w] /\ job[w] # None
  BY DEF WorkersInv, Schedule!ActiveFamiliesAreProtected, JobsAreActive, Busy
<1>5. \A v \in Workers : v # w /\ pc[v] \in LinePcs => job[v] # owner
  BY <1>4 DEF WorkersInv, JobsAreActive
<1> DEFINE k == Len(queue)
<1>6. /\ k \in Nat
      /\ \A i \in 1 .. k : queue[i] # owner /\ queue[i] \in Nodes
      /\ \A i, j \in 1 .. k : queue[i] = queue[j] => i = j
      /\ \A i \in 1 .. k : \E v \in Workers : job[v] = queue[i] /\ pc[v] \in LinePcs
      /\ \A v \in Workers : pc[v] \in LinePcs =>
            job[v] = owner \/ \E i \in 1 .. k : queue[i] = job[v]
  BY <1>1 DEF LineIsKept
<1>7. CASE queue = <<>>
  <2>1. owner' = None /\ queue' = queue /\ k = 0
    BY <1>7 DEF Schedule!Advance
  <2>2. \A v \in Workers : pc[v] \notin LinePcs
    BY <1>3, <1>5, <1>6, <2>1
  <2>3. \A v \in Workers : pc'[v] \notin LinePcs
    BY <1>2, <1>3, <2>2
  <2>4. 1 .. Len(queue') = {} /\ queue' = <<>>
    BY <1>7, <2>1
  <2>5. QED
    BY <2>1, <2>3, <2>4, Zenon DEF LineIsKept
<1>8. CASE queue # <<>>
  <2>1. /\ owner' = queue[1] /\ k > 0 /\ Len(queue') = k - 1
        /\ \A i \in 1 .. k - 1 : queue'[i] = queue[i + 1]
    BY <1>1, <1>8 DEF Schedule!Advance
  <2>2. owner' # None
    BY <1>6, <2>1 DEF Schedule!Parameters
  <2>3. \A i \in 1 .. k - 1 : i + 1 \in 1 .. k /\ i + 1 # 1
    BY <1>6
  <2>4. \A i \in 1 .. k : i = 1 \/ (i - 1 \in 1 .. k - 1 /\ (i - 1) + 1 = i)
    BY <1>6
  <2>5. 1 \in 1 .. k
    BY <1>6, <2>1
  <2>6. ASSUME NEW i \in 1 .. k
        PROVE  \E v \in Workers : job'[v] = queue[i] /\ pc'[v] \in LinePcs
    <3>1. PICK v \in Workers : job[v] = queue[i] /\ pc[v] \in LinePcs
      BY <1>6
    <3>2. v \in Workers \ {w}
      BY <1>3, <3>1
    <3>3. QED
      BY <1>2, <1>3, <3>1, <3>2
  <2> HIDE DEF k
  <2>7. \A i \in 1 .. k - 1 : queue'[i] # owner'
    BY <1>6, <2>1, <2>3, <2>5
  <2>8. \A i, j \in 1 .. k - 1 : queue'[i] = queue'[j] => i = j
    <3>1. SUFFICES ASSUME NEW i \in 1 .. k - 1, NEW j \in 1 .. k - 1, queue'[i] = queue'[j]
                   PROVE  i = j
      OBVIOUS
    <3>2. i + 1 = j + 1
      BY <1>6, <2>1, <2>3, <3>1
    <3>3. QED
      BY <1>6, <3>2
  <2>9. \E v \in Workers : job'[v] = owner' /\ pc'[v] \in OwnerPcs
    BY <1>3, <2>1, <2>5, <2>6
  <2>10. ASSUME NEW i \in 1 .. k - 1
         PROVE  \E v \in Workers : job'[v] = queue'[i] /\ pc'[v] \in LinePcs
    <3>1. i + 1 \in 1 .. k /\ queue'[i] = queue[i + 1]
      BY <2>1, <2>3
    <3>2. PICK v \in Workers : job'[v] = queue[i + 1] /\ pc'[v] \in LinePcs
      BY <2>6, <3>1
    <3>3. QED
      BY <3>1, <3>2
  <2>11. ASSUME NEW v \in Workers, pc'[v] \in LinePcs
         PROVE  job'[v] = owner' \/ \E i \in 1 .. k - 1 : queue'[i] = job'[v]
    <3>1. v # w /\ pc[v] \in LinePcs /\ job'[v] = job[v]
      BY <1>2, <1>3, <2>11
    <3>2. PICK i \in 1 .. k : queue[i] = job[v]
      BY <1>5, <1>6, <3>1
    <3>3. CASE i = 1
      BY <2>1, <3>1, <3>2, <3>3
    <3>4. CASE i # 1
      BY <2>1, <2>4, <3>1, <3>2, <3>4
    <3>5. QED
      BY <3>3, <3>4
  <2>12. QED
    BY <2>1, <2>2, <2>7, <2>8, <2>9, <2>10, <2>11 DEF LineIsKept, k
<1>9. QED
  BY <1>7, <1>8

\* The ends of a node and of a worker, all of which broadcast.
LEMMA LeavesKeepWaits ==
    ASSUME Schedule!Parameters, SchedulerInv, WaitsInv, NEW w \in Workers,
           \/ Schedule!FinishSuccess(w) \/ Schedule!EndMaintenance(w)
           \/ Schedule!FinishInspected(w) \/ Schedule!FinishFailure(w) \/ Schedule!WorkerExit(w)
    PROVE  WaitsInv'
<1>1. PlanInv /\ WorkersInv /\ FocusIsCounted /\ ReadyIsComplete /\ LineIsKept
  BY DEF SchedulerInv, WaitsInv
<1>2. pc[w] \in Busy => job[w] \in active
  BY <1>1 DEF WorkersInv, JobsAreActive
<1>3. CASE Schedule!FinishSuccess(w)
  <2>1. /\ pc[w] = "finish" /\ Schedule!FinishTransition(job[w]) /\ Schedule!Told
        /\ job' = [job EXCEPT ![w] = None]
        /\ pc' = Schedule!Signal([pc EXCEPT ![w] = "next"])
        /\ UNCHANGED <<owner, queue, stopped, failure>>
    BY <1>3 DEF Schedule!FinishSuccess, Schedule!maintenance
  <2>2. pc[w] \notin OwnerPcs /\ pc[w] \in Busy
    BY <2>1 DEF OwnerPcs, Busy
  <2>3. FocusIsCounted' /\ ReadyIsComplete'
    BY <1>1, <1>2, <2>1, <2>2, FinishKeepsCount
  <2>4. LineIsKept'
    BY <1>1, <2>1, <2>2, OutsiderKeepsLine
  <2>5. QED
    BY <1>1, <2>1, <2>3, <2>4, BroadcastKeepsWaits
<1>4. CASE Schedule!EndMaintenance(w)
  <2>1. /\ pc[w] = "end" /\ Schedule!FinishTransition(job[w]) /\ Schedule!Told
        /\ job' = [job EXCEPT ![w] = None] /\ Schedule!Advance
        /\ pc' = Schedule!Signal([pc EXCEPT ![w] = "next"])
        /\ UNCHANGED <<stopped, failure>>
    BY <1>4 DEF Schedule!EndMaintenance
  <2>2. pc[w] \in Busy
    BY <2>1 DEF Busy
  <2>3. FocusIsCounted' /\ ReadyIsComplete'
    BY <1>1, <1>2, <2>1, <2>2, FinishKeepsCount
  <2>4. LineIsKept'
    BY <1>1, <2>1, AdvanceKeepsLine
  <2>5. QED
    BY <1>1, <2>1, <2>3, <2>4, BroadcastKeepsWaits
<1>5. CASE Schedule!FinishInspected(w)
  <2>1. /\ pc[w] = "inspected" /\ stopped' = TRUE /\ Schedule!Told
        /\ job' = [job EXCEPT ![w] = None]
        /\ pc' = Schedule!Signal([pc EXCEPT ![w] = "next"])
        /\ UNCHANGED <<owner, queue>>
    BY <1>5 DEF Schedule!FinishInspected, Schedule!maintenance
  <2>2. FocusIsCounted' /\ ReadyIsComplete' /\ pc[w] \notin OwnerPcs
    BY <2>1 DEF FocusIsCounted, ReadyIsComplete, OwnerPcs
  <2>3. LineIsKept'
    BY <1>1, <2>1, <2>2, OutsiderKeepsLine
  <2>4. QED
    BY <1>1, <2>1, <2>2, <2>3, BroadcastKeepsWaits
<1>6. CASE Schedule!FinishFailure(w)
  <2>1. /\ pc[w] \in {"failed", "cancelled"} /\ Schedule!Told
        /\ failure' = (failure \/ (pc[w] = "failed" /\ ~stopped)) /\ stopped' = stopped
        /\ job' = [job EXCEPT ![w] = None]
        /\ pc' = Schedule!Signal([pc EXCEPT ![w] = "exit"])
        /\ UNCHANGED <<owner, queue>>
    BY <1>6 DEF Schedule!FinishFailure, Schedule!maintenance
  <2>2. failure' \/ stopped'
    BY <1>1, <2>1 DEF WorkersInv, CancelledWasStopped
  <2>3. FocusIsCounted' /\ ReadyIsComplete' /\ pc[w] \notin OwnerPcs
    BY <2>1, <2>2 DEF FocusIsCounted, ReadyIsComplete, OwnerPcs
  <2>4. LineIsKept'
    BY <1>1, <2>1, <2>3, OutsiderKeepsLine
  <2>5. QED
    BY <1>1, <2>1, <2>3, <2>4, BroadcastKeepsWaits
<1>7. CASE Schedule!WorkerExit(w)
  <2>1. /\ pc[w] = "exit" /\ Schedule!Told /\ job' = job
        /\ pc' = Schedule!Signal([pc EXCEPT ![w] = "gone"])
        /\ UNCHANGED <<owner, queue, built, ready, active, failure, stopped, focusLeft>>
    BY <1>7 DEF Schedule!WorkerExit, Schedule!maintenance, Schedule!counts
  <2>2. pc[w] \notin OwnerPcs
    BY <2>1 DEF OwnerPcs
  <2>3. FocusIsCounted' /\ ReadyIsComplete'
    BY <1>1, <2>1, CountsUnmoved
  <2>4. LineIsKept'
    BY <1>1, <2>1, <2>2, OutsiderKeepsLine
  <2>5. QED
    BY <1>1, <2>1, <2>3, <2>4, BroadcastKeepsWaits
<1>8. QED
  BY <1>3, <1>4, <1>5, <1>6, <1>7

\* The waiting thread's look at the workers, and a step of something else.
LEMMA WaitKeepsWaits ==
    ASSUME WaitsInv, Schedule!WaitWorkers \/ UNCHANGED Schedule!vars
    PROVE  WaitsInv'
<1>1. UNCHANGED <<remaining, ready, priorityReady, priorityRunning, priorityMode, focusLeft,
                  running, completed, active, owner, queue, stopped, failure, threads, pc, job,
                  built>>
  BY DEF Schedule!WaitWorkers, Schedule!vars, Schedule!counts, Schedule!maintenance, Schedule!ends
<1>2. main' = main \/ (main' = IF threads = 0 THEN "over" ELSE "wait")
  BY DEF Schedule!WaitWorkers, Schedule!vars, Schedule!ends
<1>3. FocusIsCounted' /\ ReadyIsComplete'
  BY <1>1, CountsUnmoved DEF WaitsInv
<1>4. WaitHasReason'
  <2>1. Schedule!Poppable' = Schedule!Poppable /\ Schedule!AllDone' = Schedule!AllDone
    BY <1>1 DEF Schedule!Poppable, Schedule!Focussed, Schedule!Focus, Schedule!AllDone
  <2> HIDE DEF Schedule!Poppable, Schedule!AllDone
  <2>2. QED
    BY <1>1, <2>1 DEF WaitsInv, WaitHasReason
<1>5. LineIsKept'
  BY <1>1, LineUnmoved DEF WaitsInv
<1>6. MainIsTold'
  BY <1>1, <1>2 DEF WaitsInv, MainIsTold
<1>7. QED
  BY <1>3, <1>4, <1>5, <1>6 DEF WaitsInv

\* At first nobody waits, and what has no dependencies is out.
LEMMA WaitsStart ==
    ASSUME Schedule!Parameters, Schedule!Init
    PROVE  WaitsInv
<1>1. \A w \in Workers : pc[w] = "next"
  BY DEF Schedule!Init
<1>2. FocusIsCounted
  <2>1. Schedule!Focus \ built = Schedule!Focus
    BY DEF Schedule!Init
  <2>2. focusLeft = Cardinality(Schedule!Focus)
    BY CardinalityOfParts DEF Schedule!Init
  <2>3. QED
    BY <2>1, <2>2 DEF FocusIsCounted
<1>3. ReadyIsComplete
  BY DEF Schedule!Init, ReadyIsComplete
<1>4. WaitHasReason /\ MainIsTold
  BY <1>1 DEF Schedule!Init, WaitHasReason, MainIsTold
<1>5. LineIsKept
  <2>1. owner = None /\ queue = <<>> /\ Len(queue) = 0
    BY DEF Schedule!Init
  <2>2. QED
    BY <1>1, <2>1 DEF LineIsKept, LinePcs
<1>6. QED
  BY <1>2, <1>3, <1>4, <1>5 DEF WaitsInv

\* Every step of the scheduler keeps the reasons.
LEMMA WaitsStep ==
    ASSUME Schedule!Parameters, WarnRaises = FALSE, SchedulerInv, WaitsInv,
           [Schedule!Next]_(Schedule!vars)
    PROVE  WaitsInv'
<1>1. CASE Schedule!WaitWorkers \/ UNCHANGED Schedule!vars
  BY <1>1, WaitKeepsWaits
<1>2. ASSUME NEW w \in Workers, Schedule!Step(w)
      PROVE  WaitsInv'
  <2>1. CASE \E n \in Nodes : Schedule!Dispatch(w, n)
    BY <2>1, DispatchKeepsWaits
  <2>2. CASE \/ Schedule!WaitForWork(w) \/ Schedule!NoMoreWork(w) \/ Schedule!BuildOne(w)
             \/ Schedule!WaitToFinish(w) \/ Schedule!WaitForTurn(w)
             \/ Schedule!Refresh(w) \/ Schedule!RefreshRaises(w) \/ Schedule!StopRequested(w)
    BY <2>2, MovesKeepWaits
  <2>3. CASE Schedule!Enqueue(w)
    BY <2>3, EnqueueKeepsWaits
  <2>4. CASE Schedule!TakeTurn(w)
    BY <2>4, TakeTurnKeepsWaits
  <2>5. CASE \/ Schedule!FinishSuccess(w) \/ Schedule!EndMaintenance(w)
             \/ Schedule!FinishInspected(w) \/ Schedule!FinishFailure(w) \/ Schedule!WorkerExit(w)
    BY <2>5, LeavesKeepWaits
  <2>6. QED
    BY <1>2, <2>1, <2>2, <2>3, <2>4, <2>5 DEF Schedule!Step
<1>3. QED
  BY <1>1, <1>2 DEF Schedule!Next

\* A closed set of nodes that is not all built, the focus or the plan, has one that could be.
LEMMA SomethingCanBeBuilt ==
    ASSUME PlanIsADag, Schedule!Parameters, NEW F \in SUBSET Nodes,
           \A n \in F : Deps[n] \subseteq F, ~(F \subseteq built)
    PROVE  \E n \in F : n \notin built /\ Deps[n] \subseteq built
<1> DEFINE S == F \ built
<1>1. S \in SUBSET Nodes /\ S # {}
  OBVIOUS
<1>2. S \in (SUBSET Nodes) \ {{}}
  <2> HIDE DEF S
  <2>1. QED
    BY <1>1
<1>3. PICK n \in S : Deps[n] \cap S = {}
  BY <1>2 DEF PlanIsADag
<1>4. QED
  BY <1>3

\* With every worker waiting or gone, nobody owns the refresh, so none waits for it, and
\* one that waits for work would find some.
LEMMA ReasonsKeepOneAwake ==
    ASSUME Schedule!Parameters, PlanIsADag, SchedulerInv, WaitsInv
    PROVE  SomeoneIsAwake
<1> SUFFICES ASSUME main = "wait", \A w \in Workers : pc[w] \in Waits \cup {"gone"}
             PROVE  FALSE
  BY DEF SomeoneIsAwake
<1>1. LineIsKept /\ WaitHasReason /\ WorkersInv /\ PlanInv /\ JobsAreActive /\ PlanTypes
  BY DEF WaitsInv, SchedulerInv, WorkersInv, PlanInv
<1>2. owner = None
  <2>1. SUFFICES ASSUME owner # None PROVE FALSE
    OBVIOUS
  <2>2. PICK w \in Workers : job[w] = owner /\ pc[w] \in OwnerPcs
    BY <1>1, <2>1 DEF LineIsKept
  <2>3. pc[w] = "waitTurn"
    BY <2>2 DEF Waits, OwnerPcs
  <2>4. QED
    BY <1>1, <2>2, <2>3 DEF WaitHasReason
<1>3. ASSUME NEW w \in Workers PROVE pc[w] \in {"waitWork", "gone"}
  <2>1. pc[w] # "waitFinish"
    BY <1>1, <1>2 DEF WaitHasReason
  <2>2. ASSUME pc[w] = "waitTurn" PROVE FALSE
    <3>1. job[w] # None
      BY <1>1, <2>2 DEF JobsAreActive, Busy
    <3>2. PICK i \in 1 .. Len(queue) : queue[i] = job[w]
      BY <1>1, <1>2, <2>2, <3>1 DEF LineIsKept, LinePcs
    <3>3. queue # <<>>
      BY <3>2
    <3>4. QED
      BY <1>1, <1>2, <3>3 DEF LineIsKept
  <2>3. QED
    BY <2>1, <2>2 DEF Waits
<1>4. active = {}
  <2>1. \A w \in Workers : job[w] = None
    BY <1>1, <1>3 DEF JobsAreActive, Busy
  <2>2. QED
    BY <1>1, <2>1 DEF JobsAreActive, PlanTypes, Schedule!Parameters
<1>5. PICK w \in Workers : pc[w] = "waitWork"
  <2>1. SUFFICES ASSUME \A w \in Workers : pc[w] = "gone" PROVE FALSE
    BY <1>3
  <2>2. {w \in Workers : pc[w] # "gone"} = {}
    BY <2>1
  <2>3. threads = Cardinality({w \in Workers : pc[w] # "gone"})
    BY <1>1 DEF WorkersInv, WorkerTypes
  <2>4. threads = 0
    BY <2>2, <2>3, FS_EmptySet
  <2>5. QED
    BY <2>4 DEF WaitsInv, MainIsTold
<1>6. ~failure /\ ~stopped /\ Schedule!Poppable = {} /\ ~Schedule!AllDone
  BY <1>1, <1>2, <1>5 DEF WaitHasReason
<1>7. ~(Nodes \subseteq built)
  <2>1. SUFFICES ASSUME built = Nodes PROVE FALSE
    BY <1>1 DEF PlanTypes
  <2>2. completed = Cardinality(Nodes)
    BY <1>1, <1>6, <2>1 DEF PlanInv, CompletedIsBuilt
  <2>3. running = 0
    BY <1>1, <1>4, FS_EmptySet DEF PlanTypes
  <2>4. QED
    BY <1>6, <2>2, <2>3, CardinalityOfParts DEF Schedule!AllDone
<1>8. ASSUME NEW F \in SUBSET Nodes, \A n \in F : Deps[n] \subseteq F, ~(F \subseteq built)
      PROVE  ready \cap F # {}
  <2>1. PICK n \in F : n \notin built /\ Deps[n] \subseteq built
    BY <1>8, SomethingCanBeBuilt
  <2>2. n \in ready
    BY <1>4, <1>6, <2>1 DEF WaitsInv, ReadyIsComplete
  <2>3. QED
    BY <2>1, <2>2
<1>9. ready # {}
  <2>1. \A n \in Nodes : Deps[n] \subseteq Nodes
    BY DEF Schedule!Parameters
  <2>2. QED
    BY <1>7, <1>8, <2>1
<1>10. CASE Schedule!Focussed
  <2>1. ready \cap Schedule!Focus = {}
    BY <1>6, <1>10 DEF Schedule!Poppable
  <2>2. ~(Schedule!Focus \subseteq built)
    <3>1. SUFFICES ASSUME Schedule!Focus \ built = {} PROVE FALSE
      OBVIOUS
    <3>2. focusLeft = Cardinality(Schedule!Focus \ built)
      BY <1>6 DEF WaitsInv, FocusIsCounted
    <3>3. focusLeft = 0
      BY <3>1, <3>2, FS_EmptySet
    <3>4. QED
      BY <1>10, <3>3 DEF Schedule!Focussed
  <2>3. QED
    BY <1>8, <2>1, <2>2, FocusFacts
<1>11. CASE ~Schedule!Focussed
  <2>1. priorityRunning = 0
    <3>1. active \cap Retained = {}
      BY <1>4
    <3>2. priorityRunning = Cardinality(active \cap Retained)
      BY <1>1 DEF PlanTypes
    <3>3. QED
      BY <3>1, <3>2, FS_EmptySet
  <2>2. QED
    BY <1>6, <1>9, <1>11, <2>1 DEF Schedule!Poppable
<1>12. QED
  BY <1>10, <1>11

\* For any plan that is a DAG and any number of workers, a build that waits for its workers
\* has one that goes on by itself, as long as warnings can be written: the safety that
\* BuildEnds rests on.
THEOREM NobodyIsForgotten ==
    ASSUME Schedule!Parameters, PlanIsADag, WarnRaises = FALSE
    PROVE  Schedule!Spec => []SomeoneIsAwake
<1>1. Schedule!Init => WaitsInv
  BY WaitsStart
<1>2. SchedulerInv /\ WaitsInv /\ [Schedule!Next]_(Schedule!vars) => WaitsInv'
  BY WaitsStep
<1>3. SchedulerInv /\ WaitsInv => SomeoneIsAwake
  BY ReasonsKeepOneAwake
<1>4. QED
  BY <1>1, <1>2, <1>3, SchedulerInvariant, PTL DEF Schedule!Spec

-----------------------------------------------------------------------------
(* The look a worker takes *)


GatePcs == {"idle", "locked", "created", "probing", "closing"}

GateTypes ==
    /\ {total, available, gateBudget} \subseteq Nat \cup {None}
    /\ gateFiles \subseteq Leases /\ holder \in [Leases -> {"child", None} \cup Looks]
    /\ gatePc \in [Procs \cup Looks -> GatePcs] /\ created \in [Procs -> Leases \cup {None}]
    /\ left \in [Looks -> SUBSET Leases] /\ steady \in [Looks -> BOOLEAN]
    /\ reserved \in [Looks -> Nat] /\ starting \in [Looks -> Nat]

\* Whoever scans, creates or probes leases has DIR/lock.
LockIsHeld ==
    \A t \in Procs \cup Looks :
        /\ gatePc[t] # "idle" => gateLock = t
        /\ gatePc[t] \in {"locked", "created"} => t \in Procs
        /\ gatePc[t] \in {"probing", "closing"} => t \in Looks

\* A probe has the flock only of the lease it is about to close, and a child's lease
\* keeps its file.
FlocksAreKnown ==
    \A l \in Leases : /\ holder[l] = "child" => l \in gateFiles
                      /\ \A g \in Looks : holder[l] = g => gatePc[g] = "closing"

\* A lease has its file, and nobody its flock, between its creation and its first lock.
NewLeaseIsFree ==
    \A t \in Procs : gatePc[t] = "created" => created[t] \in gateFiles /\ holder[created[t]] = None

\* What a look has added up is what admission would, of the leases it has probed.
LookAddsUp ==
    \A g \in Looks :
        /\ gatePc[g] = "idle" => reserved[g] = 0 /\ starting[g] = 0
        /\ gatePc[g] \in {"probing", "closing"} /\ steady[g] =>
             /\ left[g] \subseteq gateFiles
             /\ reserved[g] = Gate!Charges(Gate!Held \ left[g])
             /\ starting[g] = Gate!Charges((Gate!Held \cap gateYoung) \ left[g])

\* The inductive invariant.
GateInv ==
    /\ GateTypes /\ LockIsHeld /\ FlocksAreKnown /\ NewLeaseIsFree /\ LookAddsUp
    /\ ~failed

\* The charges of finitely many leases, and of one more.
LEMMA ChargesFacts ==
    ASSUME Gate!Parameters
    PROVE  /\ Gate!Charges({}) = 0
           /\ \A S \in SUBSET Leases : Gate!Charges(S) \in Nat
           /\ \A S \in SUBSET Leases : \A l \in Leases \ S :
                Gate!Charges(S \cup {l}) = Gate!Charges(S) + ChildCharge
<1>1. ChildCharge \in Nat /\ IsFiniteSet(Leases)
  BY CardinalityOfParts DEF Gate!Parameters
<1>2. Gate!Charges({}) = 0
  BY <1>1, FS_EmptySet, CardinalityOfParts DEF Gate!Charges
<1>3. ASSUME NEW S \in SUBSET Leases PROVE IsFiniteSet(S) /\ Cardinality(S) \in Nat
  BY <1>1, FS_Subset, FS_CardinalityType
<1>4. ASSUME NEW S \in SUBSET Leases PROVE Gate!Charges(S) \in Nat
  BY <1>1, <1>3, CardinalityOfParts DEF Gate!Charges
<1>5. ASSUME NEW S \in SUBSET Leases, NEW l \in Leases \ S
      PROVE  Gate!Charges(S \cup {l}) = Gate!Charges(S) + ChildCharge
  <2>1. Cardinality(S \cup {l}) = Cardinality(S) + 1 /\ Cardinality(S) \in Nat
    BY <1>3, FS_AddElement
  <2> DEFINE n == Cardinality(S)
  <2> HIDE DEF n
  <2>2. ChildCharge * (n + 1) = ChildCharge * n + ChildCharge
    BY <1>1, <2>1 DEF n
  <2>3. QED
    BY <2>1, <2>2, CardinalityOfParts DEF Gate!Charges, n
<1>6. QED
  BY <1>2, <1>4, <1>5

\* The maximum and the minimum of two numbers is one of them.
LEMMA MaxMinOfTwo ==
    ASSUME NEW m \in Int, NEW n \in Int
    PROVE  Gate!Max({m, n}) \in {m, n} /\ Gate!Min({m, n}) \in {m, n}
<1>1. \E i \in {m, n} : \A j \in {m, n} : i >= j
  OBVIOUS
<1>2. \E i \in {m, n} : \A j \in {m, n} : i =< j
  OBVIOUS
<1>3. QED
  BY <1>1, <1>2 DEF Gate!Max, Gate!Min

\* The start: nothing is held.
LEMMA GateInit ==
    ASSUME Gate!Parameters, Gate!Init PROVE GateInv
<1> USE DEF Gate!Init, Gate!Parameters
<1>1. GateTypes
  BY DEF GateTypes, GatePcs
<1>2. LockIsHeld /\ FlocksAreKnown /\ NewLeaseIsFree /\ LookAddsUp /\ ~failed
  BY DEF LockIsHeld, FlocksAreKnown, NewLeaseIsFree, LookAddsUp
<1>3. QED
  BY <1>1, <1>2 DEF GateInv

\* While a thread or a look has the lock, no other look is under way.
LEMMA OneAtATime ==
    ASSUME Gate!Parameters, GateInv, NEW t \in Procs \cup Looks, gateLock \in {t, None}
    PROVE  \A g \in (Procs \cup Looks) \ {t} : gatePc[g] = "idle"
BY DEF Gate!Parameters, GateInv, GateTypes, LockIsHeld

\* An admission that locks the directory.
LEMMA LockInv ==
    ASSUME Gate!Parameters, GateInv, NEW t \in Procs, Gate!Lock(t) PROVE GateInv'
<1>1. \A g \in (Procs \cup Looks) \ {t} : gatePc[g] = "idle"
  BY OneAtATime DEF Gate!Lock
<1>2. gatePc' = [gatePc EXCEPT ![t] = "locked"] /\ t \notin Looks
  BY DEF Gate!Lock, Gate!Goto, Gate!Parameters
<1>3. GateTypes'
  BY <1>2 DEF GateInv, GateTypes, Gate!Lock, Gate!host, Gate!look, GatePcs
<1>4. LockIsHeld' /\ NewLeaseIsFree'
  BY <1>1, <1>2 DEF GateInv, GateTypes, LockIsHeld, NewLeaseIsFree, Gate!Lock
<1>5. FlocksAreKnown' /\ ~failed'
  BY <1>1, <1>2 DEF GateInv, GateTypes, FlocksAreKnown, Gate!Lock
<1>6. LookAddsUp'
  BY <1>1, <1>2 DEF GateInv, GateTypes, LookAddsUp, Gate!Lock, Gate!look
<1>7. QED
  BY <1>3, <1>4, <1>5, <1>6 DEF GateInv

\* A lease is created, by a thread that has the lock: no probe holds any flock.
LEMMA CreateLeaseInv ==
    ASSUME Gate!Parameters, GateInv, NEW t \in Procs, NEW l \in Leases, Gate!CreateLease(t, l)
    PROVE  GateInv'
<1>1. \A g \in (Procs \cup Looks) \ {t} : gatePc[g] = "idle"
  BY OneAtATime DEF Gate!CreateLease, GateInv, LockIsHeld
<1>2. gatePc' = [gatePc EXCEPT ![t] = "created"] /\ t \notin Looks /\ gateLock = t
  BY DEF Gate!CreateLease, Gate!Goto, Gate!Parameters, GateInv, LockIsHeld
<1>3. holder[l] = None
  <2>1. holder[l] # "child"
    BY DEF Gate!CreateLease, Gate!Held, GateInv, FlocksAreKnown
  <2>2. holder[l] \notin Looks
    BY <1>1, <1>2 DEF GateInv, FlocksAreKnown
  <2>3. QED
    BY <2>1, <2>2 DEF GateInv, GateTypes
<1>4. /\ gateFiles' = Gate!Held \cup {l} /\ created' = [created EXCEPT ![t] = l]
      /\ UNCHANGED <<total, available, gateBudget, gateLock, holder, left, reserved, starting,
                     steady, failed>>
  BY DEF Gate!CreateLease, Gate!host, Gate!look
<1>5. GateTypes'
  BY <1>2, <1>4 DEF GateInv, GateTypes, GatePcs, Gate!Held
<1>6. LockIsHeld'
  BY <1>1, <1>2, <1>4 DEF GateInv, GateTypes, LockIsHeld
<1>7. NewLeaseIsFree'
  BY <1>1, <1>2, <1>3, <1>4 DEF GateInv, GateTypes, NewLeaseIsFree
<1>8. FlocksAreKnown' /\ ~failed'
  BY <1>1, <1>2, <1>4 DEF GateInv, GateTypes, FlocksAreKnown, Gate!Held
<1>9. LookAddsUp'
  BY <1>1, <1>2, <1>4 DEF GateInv, GateTypes, LookAddsUp
<1>10. QED
  BY <1>5, <1>6, <1>7, <1>8, <1>9 DEF GateInv

\* The new lease's flock is free to take, so no admission fails.
LEMMA LockLeaseInv ==
    ASSUME Gate!Parameters, GateInv, NEW t \in Procs, Gate!LockLease(t) PROVE GateInv'
<1>1. \A g \in (Procs \cup Looks) \ {t} : gatePc[g] = "idle"
  BY OneAtATime DEF Gate!LockLease, GateInv, LockIsHeld
<1>2. gatePc' = [gatePc EXCEPT ![t] = "idle"] /\ t \notin Looks
  BY DEF Gate!LockLease, Gate!Goto, Gate!Parameters
<1>3. created[t] \in Leases /\ created[t] \in gateFiles /\ holder[created[t]] = None
  BY DEF Gate!LockLease, GateInv, GateTypes, NewLeaseIsFree
<1>4. /\ holder' = [holder EXCEPT ![created[t]] = "child"]
      /\ created' = [created EXCEPT ![t] = None]
      /\ UNCHANGED <<total, available, gateBudget, gateFiles, failed, gateYoung, left, reserved,
                     starting, steady>>
  BY <1>3 DEF Gate!LockLease, Gate!host, Gate!look
<1>5. GateTypes'
  BY <1>2, <1>3, <1>4 DEF GateInv, GateTypes, GatePcs
<1>6. LockIsHeld' /\ NewLeaseIsFree'
  BY <1>1, <1>2, <1>4 DEF GateInv, GateTypes, LockIsHeld, NewLeaseIsFree
<1>7. FlocksAreKnown' /\ ~failed'
  BY <1>1, <1>2, <1>3, <1>4 DEF GateInv, GateTypes, FlocksAreKnown, Gate!Parameters
<1>8. LookAddsUp'
  BY <1>1, <1>2, <1>4 DEF GateInv, GateTypes, LookAddsUp
<1>9. QED
  BY <1>5, <1>6, <1>7, <1>8 DEF GateInv

\* Nothing is admitted: the leases nobody holds are removed.
LEMMA LeaveDirInv ==
    ASSUME Gate!Parameters, GateInv, NEW t \in Procs, Gate!LeaveDir(t) PROVE GateInv'
<1>1. \A g \in (Procs \cup Looks) \ {t} : gatePc[g] = "idle"
  BY OneAtATime DEF Gate!LeaveDir, GateInv, LockIsHeld
<1>2. gatePc' = [gatePc EXCEPT ![t] = "idle"] /\ t \notin Looks
  BY DEF Gate!LeaveDir, Gate!Goto, Gate!Parameters
<1>3. /\ gateFiles' = Gate!Held
      /\ UNCHANGED <<total, available, gateBudget, holder, created, left, reserved, starting,
                     steady, failed>>
  BY DEF Gate!LeaveDir, Gate!host, Gate!look
<1>4. GateTypes'
  BY <1>2, <1>3 DEF GateInv, GateTypes, GatePcs, Gate!Held
<1>5. LockIsHeld' /\ NewLeaseIsFree'
  BY <1>1, <1>2 DEF GateInv, GateTypes, LockIsHeld, NewLeaseIsFree
<1>6. FlocksAreKnown' /\ ~failed'
  BY <1>1, <1>2, <1>3 DEF GateInv, GateTypes, FlocksAreKnown, Gate!Held
<1>7. LookAddsUp'
  BY <1>1, <1>2, <1>3 DEF GateInv, GateTypes, LookAddsUp
<1>8. QED
  BY <1>4, <1>5, <1>6, <1>7 DEF GateInv

\* A child ends, or has allocated: a look under way is not steady any more.
LEMMA ChildChangesInv ==
    ASSUME Gate!Parameters, GateInv, NEW l \in Leases, Gate!ChildEnds(l) \/ Gate!Settle(l)
    PROVE  GateInv'
<1>1. /\ steady' = [g \in Looks |-> FALSE]
      /\ holder' \in {holder, [holder EXCEPT ![l] = None]}
      /\ UNCHANGED <<total, available, gateBudget, gateLock, gateFiles, gatePc, created, left,
                     reserved, starting, failed>>
  BY DEF Gate!ChildEnds, Gate!Settle, Gate!host
<1>2. GateTypes'
  BY <1>1 DEF GateInv, GateTypes
<1>3. LockIsHeld' /\ ~failed'
  BY <1>1 DEF GateInv, LockIsHeld
<1>4. \A m \in Leases : holder'[m] = holder[m] \/ holder'[m] = None
  BY <1>1 DEF GateInv, GateTypes
<1>5. FlocksAreKnown' /\ NewLeaseIsFree'
  BY <1>1, <1>4 DEF GateInv, GateTypes, FlocksAreKnown, NewLeaseIsFree, Gate!Parameters
<1>6. LookAddsUp'
  BY <1>1 DEF GateInv, LookAddsUp
<1>7. QED
  BY <1>2, <1>3, <1>5, <1>6 DEF GateInv

\* A look begins: it has probed nothing yet.
LEMMA OpenInv ==
    ASSUME Gate!Parameters, GateInv, NEW g \in Looks, Gate!Open(g) PROVE GateInv'
<1>1. \A t \in (Procs \cup Looks) \ {g} : gatePc[t] = "idle"
  BY OneAtATime DEF Gate!Open
<1>2. gatePc' = [gatePc EXCEPT ![g] = "probing"] /\ g \notin Procs /\ gatePc[g] = "idle"
  BY DEF Gate!Open, Gate!Goto, Gate!Parameters
<1>3. /\ gateLock' = g /\ left' = [left EXCEPT ![g] = gateFiles]
      /\ steady' = [steady EXCEPT ![g] = TRUE]
      /\ UNCHANGED <<total, available, gateBudget, gateFiles, holder, gateYoung, created, reserved,
                     starting, failed>>
  BY DEF Gate!Open, Gate!host
<1>4. GateTypes'
  BY <1>2, <1>3 DEF GateInv, GateTypes, GatePcs
<1>5. LockIsHeld' /\ NewLeaseIsFree'
  BY <1>1, <1>2, <1>3 DEF GateInv, GateTypes, LockIsHeld, NewLeaseIsFree
<1>6. FlocksAreKnown' /\ ~failed'
  BY <1>1, <1>2, <1>3 DEF GateInv, GateTypes, FlocksAreKnown
<1>7. LookAddsUp'
  <2>1. reserved[g] = 0 /\ starting[g] = 0
    BY <1>2 DEF GateInv, LookAddsUp
  <2>2. /\ Gate!Held' \ gateFiles = {} /\ (Gate!Held' \cap gateYoung') \ gateFiles = {}
    BY <1>3 DEF Gate!Held
  <2>3. left'[g] = gateFiles /\ gateFiles' = gateFiles /\ reserved'[g] = 0 /\ starting'[g] = 0
    BY <1>3, <2>1 DEF GateInv, GateTypes
  <2>4. Gate!Charges(Gate!Held' \ left'[g]) = 0
        /\ Gate!Charges((Gate!Held' \cap gateYoung') \ left'[g]) = 0
    BY <2>2, <2>3, ChargesFacts
  <2>5. \A h \in Looks \ {g} : gatePc'[h] = "idle" /\ reserved'[h] = 0 /\ starting'[h] = 0
    BY <1>1, <1>2, <1>3 DEF GateInv, GateTypes, LookAddsUp
  <2>6. gatePc'[g] = "probing"
    BY <1>2 DEF GateInv, GateTypes
  <2>7. QED
    BY <2>3, <2>4, <2>5, <2>6 DEF LookAddsUp, Gate!Charges
<1>8. QED
  BY <1>4, <1>5, <1>6, <1>7 DEF GateInv

\* What the invariant is about is unchanged: a look that goes without the lock changes
\* only what it tells.
LEMMA GateUnchanged ==
    ASSUME GateInv,
           UNCHANGED <<total, available, gateBudget, gateLock, gateFiles, holder, gateYoung,
                       gatePc, created, left, reserved, starting, steady, failed>>
    PROVE  GateInv'
<1>1. GateTypes'
  BY DEF GateInv, GateTypes
<1>2. LockIsHeld' /\ FlocksAreKnown' /\ NewLeaseIsFree' /\ ~failed'
  BY DEF GateInv, LockIsHeld, FlocksAreKnown, NewLeaseIsFree
<1>3. Gate!Held' = Gate!Held
  BY DEF Gate!Held
<1>4. LookAddsUp'
  BY <1>3 DEF GateInv, LookAddsUp, Gate!Charges
<1>5. QED
  BY <1>1, <1>2, <1>4 DEF GateInv

\* Adding one probed lease to what a look has added up.
LEMMA OneMoreProbed ==
    ASSUME Gate!Parameters, NEW S \in SUBSET Leases, NEW L \in SUBSET Leases, NEW l \in L
    PROVE  Gate!Charges(S \ (L \ {l})) = Gate!Charges(S \ L) + (IF l \in S THEN ChildCharge ELSE 0)
<1>1. CASE l \in S
  <2>1. S \ (L \ {l}) = (S \ L) \cup {l}
    BY <1>1
  <2>2. (S \ L) \in SUBSET Leases /\ l \in Leases \ (S \ L)
    OBVIOUS
  <2>3. Gate!Charges((S \ L) \cup {l}) = Gate!Charges(S \ L) + ChildCharge
    BY <2>2, ChargesFacts
  <2>4. QED
    BY <1>1, <2>1, <2>3
<1>2. CASE l \notin S
  <2>1. S \ (L \ {l}) = S \ L
    BY <1>2
  <2>2. Gate!Charges(S \ L) \in Nat
    BY ChargesFacts
  <2>3. QED
    BY <1>2, <2>1, <2>2
<1>3. QED
  BY <1>1, <1>2

\* A held lease is a child's, and adds its charge.
LEMMA CountInv ==
    ASSUME Gate!Parameters, GateInv, NEW g \in Looks, NEW l \in Leases, Gate!Count(g, l)
    PROVE  GateInv'
<1>1. \A t \in (Procs \cup Looks) \ {g} : gatePc[t] = "idle"
  BY OneAtATime DEF Gate!Count, GateInv, LockIsHeld
<1>2. /\ gatePc[g] = "probing" /\ l \in left[g] /\ l \in gateFiles /\ holder[l] # None
      /\ UNCHANGED <<total, available, gateBudget, gateLock, gateFiles, holder, gateYoung, gatePc,
                     created, steady, failed>>
      /\ left' = [left EXCEPT ![g] = @ \ {l}]
      /\ reserved' = [reserved EXCEPT ![g] = @ + ChildCharge]
      /\ starting' = [starting EXCEPT ![g] = @ + (IF l \in gateYoung THEN ChildCharge ELSE 0)]
  BY DEF Gate!Count, Gate!host
<1>3. ChildCharge \in Nat
  BY DEF Gate!Parameters
<1>4. GateTypes'
  BY <1>2, <1>3 DEF GateInv, GateTypes
<1>5. LockIsHeld' /\ NewLeaseIsFree' /\ FlocksAreKnown' /\ ~failed'
  BY <1>2 DEF GateInv, LockIsHeld, NewLeaseIsFree, FlocksAreKnown
<1>6. l \in Gate!Held
  <2>1. holder[l] \notin Looks
    BY <1>1, <1>2 DEF GateInv, FlocksAreKnown
  <2>2. QED
    BY <1>2, <2>1 DEF GateInv, GateTypes, Gate!Held
<1>7. LookAddsUp'
  <2>1. \A h \in Looks \ {g} : gatePc'[h] = "idle" /\ reserved'[h] = 0 /\ starting'[h] = 0
    BY <1>1, <1>2 DEF GateInv, GateTypes, LookAddsUp
  <2>2. Gate!Held' = Gate!Held /\ Gate!Held \in SUBSET Leases
        /\ Gate!Held \cap gateYoung \in SUBSET Leases
        /\ left[g] \in SUBSET Leases
    BY <1>2 DEF Gate!Held, GateInv, GateTypes
  <2>3. left'[g] = left[g] \ {l} /\ gatePc'[g] = "probing" /\ steady' = steady /\ gateYoung' = gateYoung
        /\ gateFiles' = gateFiles
    BY <1>2 DEF GateInv, GateTypes
  <2>4. /\ reserved'[g] = reserved[g] + ChildCharge
        /\ starting'[g] = starting[g] + (IF l \in Gate!Held \cap gateYoung THEN ChildCharge ELSE 0)
    BY <1>2, <1>6 DEF GateInv, GateTypes
  <2>5. /\ Gate!Charges(Gate!Held \ (left[g] \ {l})) = Gate!Charges(Gate!Held \ left[g]) + ChildCharge
        /\ Gate!Charges((Gate!Held \cap gateYoung) \ (left[g] \ {l}))
             = Gate!Charges((Gate!Held \cap gateYoung) \ left[g])
                 + (IF l \in Gate!Held \cap gateYoung THEN ChildCharge ELSE 0)
    BY <1>2, <1>6, <2>2, OneMoreProbed
  <2>6. steady[g] => /\ left[g] \subseteq gateFiles
                     /\ reserved[g] = Gate!Charges(Gate!Held \ left[g])
                     /\ starting[g] = Gate!Charges((Gate!Held \cap gateYoung) \ left[g])
    BY <1>2 DEF GateInv, LookAddsUp
  <2>7. steady'[g] => /\ left'[g] \subseteq gateFiles'
                      /\ reserved'[g] = Gate!Charges(Gate!Held' \ left'[g])
                      /\ starting'[g] = Gate!Charges((Gate!Held' \cap gateYoung') \ left'[g])
    BY <2>2, <2>3, <2>4, <2>5, <2>6
  <2>8. QED
    BY <2>1, <2>3, <2>7 DEF LookAddsUp, Gate!Charges
<1>8. QED
  BY <1>4, <1>5, <1>7 DEF GateInv

\* A lease nobody holds adds nothing, and its probe keeps it only while the look has
\* the lock.
LEMMA ProbeFreeInv ==
    ASSUME Gate!Parameters, GateInv, NEW g \in Looks, NEW l \in Leases, Gate!ProbeFree(g, l)
    PROVE  GateInv'
<1>1. \A t \in (Procs \cup Looks) \ {g} : gatePc[t] = "idle"
  BY OneAtATime DEF Gate!ProbeFree, GateInv, LockIsHeld
<1>2. /\ gatePc[g] = "probing" /\ l \in left[g] /\ l \in gateFiles /\ holder[l] = None
      /\ UNCHANGED <<total, available, gateBudget, gateLock, gateFiles, gateYoung, created,
                     reserved, starting, steady, failed>>
      /\ left' = [left EXCEPT ![g] = @ \ {l}]
      /\ holder' = [holder EXCEPT ![l] = g] /\ gatePc' = [gatePc EXCEPT ![g] = "closing"]
      /\ g \notin Procs /\ g # "child" /\ None # "child"
  BY DEF Gate!ProbeFree, Gate!host, Gate!Goto, Gate!Parameters
<1>3. GateTypes'
  BY <1>2 DEF GateInv, GateTypes, GatePcs
<1>4. LockIsHeld' /\ NewLeaseIsFree' /\ ~failed'
  BY <1>1, <1>2 DEF GateInv, GateTypes, LockIsHeld, NewLeaseIsFree
<1>5. FlocksAreKnown'
  BY <1>1, <1>2 DEF GateInv, GateTypes, FlocksAreKnown
<1>6. Gate!Held' = Gate!Held /\ l \notin Gate!Held
  BY <1>2 DEF GateInv, GateTypes, Gate!Held
<1>7. LookAddsUp'
  <2>1. \A h \in Looks \ {g} : gatePc'[h] = "idle" /\ reserved'[h] = 0 /\ starting'[h] = 0
    BY <1>1, <1>2 DEF GateInv, GateTypes, LookAddsUp
  <2>2. Gate!Held \in SUBSET Leases /\ Gate!Held \cap gateYoung \in SUBSET Leases
        /\ left[g] \in SUBSET Leases
    BY DEF Gate!Held, GateInv, GateTypes
  <2>3. left'[g] = left[g] \ {l} /\ gatePc'[g] = "closing" /\ steady' = steady /\ gateYoung' = gateYoung
        /\ gateFiles' = gateFiles /\ reserved' = reserved /\ starting' = starting
    BY <1>2 DEF GateInv, GateTypes
  <2>4. /\ Gate!Held \ (left[g] \ {l}) = Gate!Held \ left[g]
        /\ (Gate!Held \cap gateYoung) \ (left[g] \ {l}) = (Gate!Held \cap gateYoung) \ left[g]
    BY <1>6
  <2>5. steady[g] => /\ left[g] \subseteq gateFiles
                     /\ reserved[g] = Gate!Charges(Gate!Held \ left[g])
                     /\ starting[g] = Gate!Charges((Gate!Held \cap gateYoung) \ left[g])
    BY <1>2 DEF GateInv, LookAddsUp
  <2>6. steady'[g] => /\ left'[g] \subseteq gateFiles'
                      /\ reserved'[g] = Gate!Charges(Gate!Held' \ left'[g])
                      /\ starting'[g] = Gate!Charges((Gate!Held' \cap gateYoung') \ left'[g])
    BY <1>6, <2>3, <2>4, <2>5
  <2>7. QED
    BY <2>1, <2>3, <2>6 DEF LookAddsUp, Gate!Charges
<1>8. QED
  BY <1>3, <1>4, <1>5, <1>7 DEF GateInv

\* The probe is closed.
LEMMA CloseProbeInv ==
    ASSUME Gate!Parameters, GateInv, NEW g \in Looks, Gate!CloseProbe(g) PROVE GateInv'
<1>1. \A t \in (Procs \cup Looks) \ {g} : gatePc[t] = "idle"
  BY OneAtATime DEF Gate!CloseProbe, GateInv, LockIsHeld
<1>2. /\ gatePc[g] = "closing"
      /\ UNCHANGED <<total, available, gateBudget, gateLock, gateFiles, gateYoung, created, left,
                     reserved, starting, steady, failed>>
      /\ holder' = [l \in Leases |-> IF holder[l] = g THEN None ELSE holder[l]]
      /\ gatePc' = [gatePc EXCEPT ![g] = "probing"]
      /\ g \notin Procs /\ g # "child" /\ None # "child" /\ None \notin Looks
  BY DEF Gate!CloseProbe, Gate!host, Gate!look, Gate!Goto, Gate!Parameters
<1>3. GateTypes'
  BY <1>2 DEF GateInv, GateTypes, GatePcs
<1>4. LockIsHeld' /\ NewLeaseIsFree' /\ ~failed'
  BY <1>1, <1>2 DEF GateInv, GateTypes, LockIsHeld, NewLeaseIsFree
<1>5. FlocksAreKnown'
  BY <1>1, <1>2 DEF GateInv, GateTypes, FlocksAreKnown
<1>6. Gate!Held' = Gate!Held
  BY <1>2 DEF GateInv, GateTypes, Gate!Held
<1>7. LookAddsUp'
  <2>1. \A h \in Looks \ {g} : gatePc'[h] = "idle" /\ reserved'[h] = 0 /\ starting'[h] = 0
    BY <1>1, <1>2 DEF GateInv, GateTypes, LookAddsUp
  <2>2. gatePc'[g] = "probing"
    BY <1>2 DEF GateInv, GateTypes
  <2>3. steady[g] => /\ left[g] \subseteq gateFiles
                     /\ reserved[g] = Gate!Charges(Gate!Held \ left[g])
                     /\ starting[g] = Gate!Charges((Gate!Held \cap gateYoung) \ left[g])
    BY <1>2 DEF GateInv, LookAddsUp
  <2>4. steady'[g] => /\ left'[g] \subseteq gateFiles'
                      /\ reserved'[g] = Gate!Charges(Gate!Held' \ left'[g])
                      /\ starting'[g] = Gate!Charges((Gate!Held' \cap gateYoung') \ left'[g])
    BY <1>2, <1>6, <2>3
  <2>5. QED
    BY <2>1, <2>2, <2>4 DEF LookAddsUp, Gate!Charges
<1>8. QED
  BY <1>3, <1>4, <1>5, <1>7 DEF GateInv

\* The look is over and forgets what it added up.
LEMMA AnswerInv ==
    ASSUME Gate!Parameters, GateInv, NEW g \in Looks, Gate!Answer(g) PROVE GateInv'
<1>1. \A t \in (Procs \cup Looks) \ {g} : gatePc[t] = "idle"
  BY OneAtATime DEF Gate!Answer, GateInv, LockIsHeld
<1>2. /\ gatePc[g] = "probing" /\ gateLock = g
      /\ UNCHANGED <<total, available, gateBudget, gateFiles, holder, created, failed>>
      /\ gatePc' = [gatePc EXCEPT ![g] = "idle"] /\ left' = [left EXCEPT ![g] = {}]
      /\ reserved' = [reserved EXCEPT ![g] = 0] /\ starting' = [starting EXCEPT ![g] = 0]
      /\ steady' = [steady EXCEPT ![g] = FALSE]
      /\ g \notin Procs
  BY DEF Gate!Answer, Gate!host, Gate!Goto, Gate!Parameters, GateInv, LockIsHeld
<1>3. GateTypes'
  BY <1>2 DEF GateInv, GateTypes, GatePcs
<1>4. \A t \in Procs \cup Looks : gatePc'[t] = "idle"
  BY <1>1, <1>2 DEF GateInv, GateTypes
<1>5. LockIsHeld' /\ NewLeaseIsFree' /\ ~failed'
  BY <1>2, <1>4 DEF GateInv, LockIsHeld, NewLeaseIsFree
<1>6. FlocksAreKnown'
  BY <1>1, <1>2 DEF GateInv, GateTypes, FlocksAreKnown
<1>7. LookAddsUp'
  <2>1. \A h \in Looks : reserved'[h] = 0 /\ starting'[h] = 0
    BY <1>1, <1>2 DEF GateInv, GateTypes, LookAddsUp
  <2>2. QED
    BY <1>4, <2>1 DEF LookAddsUp
<1>8. QED
  BY <1>3, <1>5, <1>6, <1>7 DEF GateInv

\* Every step keeps the invariant.
LEMMA GateNext ==
    ASSUME Gate!Parameters, GateInv, [Gate!Next]_(Gate!vars) PROVE GateInv'
<1>1. ASSUME NEW g \in Looks, Gate!NoReport(g) PROVE GateInv'
  BY <1>1, GateUnchanged DEF Gate!NoReport, Gate!host
<1>2. CASE UNCHANGED Gate!vars
  BY <1>2, GateUnchanged DEF Gate!vars, Gate!host, Gate!look
<1>3. QED
  BY <1>1, <1>2, LockInv, CreateLeaseInv, LockLeaseInv, LeaveDirInv, ChildChangesInv, OpenInv,
     CountInv, ProbeFreeInv, CloseProbeInv, AnswerInv DEF Gate!Next

\* The reserve is a number.
LEMMA HostReserveType ==
    ASSUME NEW t \in Nat PROVE Gate!HostReserve(t) \in Int
<1>1. t \div 4 \in Int /\ 30 \in Int /\ 1 \in Int
  OBVIOUS
<1> DEFINE q == t \div 4
<1> HIDE DEF q
<1>2. Gate!Min({q, 30}) \in {q, 30}
  BY <1>1, MaxMinOfTwo DEF q
<1>3. Gate!Min({q, 30}) \in Int
  BY <1>1, <1>2 DEF q
<1>4. Gate!Max({1, Gate!Min({q, 30})}) \in {1, Gate!Min({q, 30})}
  BY <1>1, <1>3, MaxMinOfTwo
<1>5. QED
  BY <1>1, <1>3, <1>4 DEF Gate!HostReserve, q

\* What a look tells.
Answers == answer \in [Looks -> {"start", "wait", None}]

\* It is one of the two, or nothing.
LEMMA AnswersNext ==
    ASSUME Answers, [Gate!Next]_(Gate!vars) PROVE Answers'
<1>1. answer' = answer \/ \E g \in Looks : Gate!NoReport(g) \/ Gate!Answer(g)
  BY DEF Gate!Next, Gate!vars, Gate!Lock, Gate!LockLease, Gate!LeaveDir, Gate!CreateLease,
     Gate!ChildEnds, Gate!Settle, Gate!Open, Gate!CloseProbe,
         Gate!Count, Gate!ProbeFree, Gate!look
<1>2. QED
  BY <1>1 DEF Answers, Gate!NoReport, Gate!Answer

\* With the same charges, shortfall and acquire's try agree where admission does not fail.
LEMMA LookAgrees ==
    ASSUME Gate!Parameters, GateInv, NEW g \in Looks,
           NEW R \in Nat, NEW F \in Nat, reserved[g] = R, starting[g] = F,
           Gate!Attempt(LookCharge, R, F) # "fail"
    PROVE  Gate!Attempt(LookCharge, R, F) = IF Gate!Shortfall(g) THEN "wait" ELSE "start"
<1>1. LookCharge \in Nat \ {0} /\ None \notin Nat
  BY DEF Gate!Parameters
<1>2. total \in Nat \cup {None} /\ available \in Nat \cup {None} /\ gateBudget \in Nat \cup {None}
  BY DEF GateInv, GateTypes
<1> DEFINE bound == Gate!CurrentBudget
           low == /\ total # None /\ available # None
                  /\ available - F < LookCharge + Gate!Min({Gate!HostReserve(total),
                                                            Gate!Max({1, total - bound})})
<1>3. bound # None
  BY DEF Gate!Attempt
<1>4. bound \in Int /\ ~(LookCharge > bound)
  <2>1. bound \in Int
    <3>1. CASE gateBudget # None
      BY <1>2, <3>1 DEF Gate!CurrentBudget
    <3>2. CASE gateBudget = None
      BY <1>2, <1>3, <3>2, HostReserveType DEF Gate!CurrentBudget
    <3>3. QED
      BY <3>1, <3>2
  <2> HIDE DEF bound
  <2>2. LookCharge > bound => ~(LookCharge <= bound)
    BY <1>1, <2>1
  <2>3. LookCharge > bound => Gate!Attempt(LookCharge, R, F) = "fail"
    BY <1>3, <2>2 DEF Gate!Attempt, bound
  <2>4. QED
    BY <2>1, <2>3
<1>5. Gate!Shortfall(g) <=> (R # 0 /\ (R + LookCharge > bound \/ low))
  <2>1. CASE gateBudget # None
    <3>1. bound = gateBudget
      BY <2>1 DEF Gate!CurrentBudget
    <3>2. QED
      BY <2>1, <3>1 DEF Gate!Shortfall
  <2>2. CASE gateBudget = None
    <3>1. total # None /\ bound = total - Gate!HostReserve(total)
      BY <1>3, <2>2 DEF Gate!CurrentBudget
    <3>2. QED
      BY <1>3, <2>2, <3>1 DEF Gate!Shortfall
  <2>3. QED
    BY <2>1, <2>2
<1>6. Gate!Attempt(LookCharge, R, F)
        = IF R + LookCharge > bound THEN "wait"
          ELSE IF R > 0 /\ low THEN "wait" ELSE "start"
  <2>1. Gate!LiveShortfall(bound, LookCharge, F) <=> low
    BY DEF Gate!LiveShortfall
  <2>2. LookCharge <= bound
    BY <1>1, <1>4
  <2> HIDE DEF low
  <2>3. CASE R + LookCharge > bound
    BY <1>3, <2>2, <2>3 DEF Gate!Attempt
  <2>4. CASE ~(R + LookCharge > bound)
    BY <1>3, <2>1, <2>2, <2>4 DEF Gate!Attempt
  <2>5. QED
    BY <2>3, <2>4
<1> HIDE DEF bound, low
<1>7. QED
  BY <1>1, <1>4, <1>5, <1>6

\* A worker's look tells what admission would do, unless a child ended meanwhile, and no
\* admission fails because of a look: for any number of threads, workers and leases, and
\* whatever the budget and the memory of the host.
THEOREM LooksFollowAdmission ==
    ASSUME Gate!Parameters PROVE Gate!Spec => GateFollowsAdmission
<1> DEFINE Admission ==
             Gate!Attempt(LookCharge, Gate!Charges(Gate!Held), Gate!Charges(Gate!Held \cap gateYoung))
           Tells ==
             \A g \in Looks : gatePc[g] = "probing" /\ gatePc'[g] = "idle" /\ steady[g]
                 => answer'[g] = Admission \/ Admission = "fail"
<1>1. Gate!Init => GateInv
  BY GateInit
<1>2. GateInv /\ [Gate!Next]_(Gate!vars) => GateInv'
  BY GateNext
<1>3. ASSUME GateInv, Answers, [Gate!Next]_(Gate!vars) PROVE Tells
  <2> SUFFICES ASSUME NEW g \in Looks, gatePc[g] = "probing", gatePc'[g] = "idle", steady[g],
                      Admission # "fail"
               PROVE  answer'[g] = Admission
    OBVIOUS
  <2>1. Gate!Answer(g)
    <3>1. gatePc \in [Procs \cup Looks -> GatePcs] /\ g \notin Procs
      BY <1>3 DEF GateInv, GateTypes, Gate!Parameters
    <3>2. QED
      BY <1>3, <3>1
         DEF Gate!Next, Gate!vars, Gate!Lock, Gate!LockLease, Gate!LeaveDir, Gate!CreateLease,
             Gate!ChildEnds, Gate!Settle,
         Gate!Open, Gate!NoReport, Gate!CloseProbe, Gate!Answer, Gate!Count, Gate!ProbeFree, Gate!Goto
  <2>2. left[g] = {}
    BY <1>3, <2>1 DEF Gate!Answer, GateInv, LookAddsUp
  <2>3. reserved[g] = Gate!Charges(Gate!Held) /\ starting[g] = Gate!Charges(Gate!Held \cap gateYoung)
    <3>1. Gate!Held \ left[g] = Gate!Held
          /\ (Gate!Held \cap gateYoung) \ left[g] = Gate!Held \cap gateYoung
      BY <2>2
    <3>2. QED
      BY <1>3, <3>1 DEF GateInv, LookAddsUp
  <2>4. Gate!Charges(Gate!Held) \in Nat /\ Gate!Charges(Gate!Held \cap gateYoung) \in Nat
    BY <1>3, ChargesFacts DEF Gate!Held, GateInv, GateTypes
  <2>5. answer'[g] = IF Gate!Shortfall(g) THEN "wait" ELSE "start"
    BY <1>3, <2>1 DEF Gate!Answer, Answers
  <2>6. QED
    BY <1>3, <2>3, <2>4, <2>5, LookAgrees
<1>4. GateInv => ~failed
  BY DEF GateInv
<1>5. GateInv /\ Answers /\ [Gate!Next]_(Gate!vars) => [Tells]_(Gate!vars)
  BY <1>3
<1>6. Gate!Init => Answers
  BY DEF Gate!Init, Answers
<1>7. Answers /\ [Gate!Next]_(Gate!vars) => Answers'
  BY AnswersNext
<1>8. QED
  BY <1>1, <1>2, <1>4, <1>5, <1>6, <1>7, PTL
     DEF Gate!Spec, GateFollowsAdmission, Gate!GateFollowsAdmission

-----------------------------------------------------------------------------
(* The memory domain *)

\* Leases whose memory is or will be taken: a child runs, or is about to be launched.
Pending ==
    {l \in Leases : child[l] # "none" \/ \E p \in Procs : threadPc[p] \in {"admitted", "launch"} /\ mine[p] = l}
Grown == {l \in Leases : child[l] = "grown"}
Growing == Pending \ Grown

\* The budget in force.
InForce == IF budget # None THEN budget ELSE Memory!Default

ScanTypes ==
    /\ limit \in [Procs -> Int] /\ scan \in [Procs -> SUBSET Leases]
    /\ sum \in [Procs -> Nat] /\ fresh \in [Procs -> Nat]

\* A held lease has its file, and a charge; a running child holds its lease.
HeldHaveFiles ==
    /\ IsFiniteSet(files) /\ flocked \subseteq files /\ Memory!Children \subseteq flocked
    /\ \A l \in flocked : bytes[l] > 0

\* A thread that was admitted holds its lease, which has no child until it is launched.
OwnersHold ==
    \A p \in Procs : threadPc[p] \in {"admitted", "launch", "runs"} =>
        /\ mine[p] \in flocked /\ parentFd[mine[p]] = p
        /\ threadPc[p] # "runs" => child[mine[p]] = "none"

\* What will take memory and has not yet is young.
GrowingIsYoung == Growing \subseteq young

\* A scan knows the budget in force, and has counted what is held of what it has seen.
ScanCounts ==
    \A p \in Procs :
        /\ threadPc[p] # "scan" => sum[p] = 0 /\ fresh[p] = 0
        /\ threadPc[p] = "scan" => /\ limit[p] = InForce
                                   /\ SumOf(bytes, flocked \ scan[p]) <= sum[p]
                                   /\ SumOf(bytes, Growing \ scan[p]) <= fresh[p]

\* What runs and what was admitted leave the margin free.
MarginInv ==
    Live /\ (\E l, m \in Pending : l # m)
        => Total - Other - SumOf(bytes, Pending) >= Memory!Min({Reserve, LeastMargin})

\* The inductive invariant of the memory domain.
MemoryInv ==
    /\ Memory!TypeOK /\ ScanTypes /\ HeldHaveFiles /\ OwnersHold /\ GrowingIsYoung /\ ScanCounts
    /\ MarginInv

\* What the charges of some leases add up to.
LEMMA BytesIsSum ==
    ASSUME NEW S, IsFiniteSet(S), \A l \in S : bytes[l] \in Nat
    PROVE  Memory!Bytes(S) = SumOf(bytes, S)
<1>1. Memory!Bytes(S) = (CHOOSE g : AddsUp(g, bytes, S))[S]
  BY DEF Memory!Bytes, Memory!MapThenSumSet, Memory!MapThenFoldSet, AddsUp
<1>2. QED
  BY <1>1, FoldIsSum

\* What will take memory is held.
LEMMA PendingIsHeld ==
    ASSUME MemoryInv PROVE Pending \subseteq flocked /\ Growing \subseteq flocked /\ Grown \subseteq Pending
BY DEF MemoryInv, OwnersHold, HeldHaveFiles, Pending, Growing, Grown, Memory!Children

\* The sums over held leases are over finitely many charges.
LEMMA ChargesOfFiles ==
    ASSUME MemoryInv PROVE IsFiniteSet(files) /\ \A l \in files : bytes[l] \in Nat
BY DEF MemoryInv, HeldHaveFiles, Memory!TypeOK

\* The greater and the lesser of two numbers.
LEMMA BoundsOfTwo ==
    ASSUME NEW m \in Int, NEW n \in Int
    PROVE  /\ Memory!Max({m, n}) \in {m, n} /\ Memory!Max({m, n}) >= m /\ Memory!Max({m, n}) >= n
           /\ Memory!Min({m, n}) \in {m, n} /\ Memory!Min({m, n}) <= m /\ Memory!Min({m, n}) <= n
<1>1. \E i \in {m, n} : \A j \in {m, n} : i >= j
  OBVIOUS
<1>2. \E i \in {m, n} : \A j \in {m, n} : i =< j
  OBVIOUS
<1>3. QED
  BY <1>1, <1>2 DEF Memory!Max, Memory!Min

\* The margin new children are promised is a number.
LEMMA LeastMarginType ==
    ASSUME Memory!Parameters PROVE Memory!Min({Reserve, LeastMargin}) \in Int
<1>1. Reserve \in Int /\ LeastMargin \in Int
  BY DEF Memory!Parameters
<1>2. QED
  BY <1>1, BoundsOfTwo

\* Less is held, less will take memory, and no scan goes on: the sums stay covered.
LEMMA SumsStay ==
    ASSUME Memory!Parameters, MemoryInv, UNCHANGED bytes, flocked' \subseteq flocked, Pending' \subseteq Pending,
           Growing' \subseteq Growing,
           \A p \in Procs : threadPc'[p] # "scan" => sum'[p] = 0 /\ fresh'[p] = 0,
           \A p \in Procs : threadPc'[p] = "scan" =>
               /\ threadPc[p] = "scan" /\ InForce' = InForce
               /\ limit'[p] = limit[p] /\ scan'[p] = scan[p] /\ sum'[p] = sum[p] /\ fresh'[p] = fresh[p]
    PROVE  ScanCounts' /\ MarginInv'
<1>1. IsFiniteSet(files) /\ \A l \in files : bytes[l] \in Nat
  BY ChargesOfFiles
<1>2. Pending \subseteq files /\ Growing \subseteq files /\ flocked \subseteq files
  BY PendingIsHeld DEF MemoryInv, HeldHaveFiles
<1>3. ASSUME NEW s \in SUBSET files, NEW r \in SUBSET s
      PROVE  SumOf(bytes, r) <= SumOf(bytes, s) /\ SumOf(bytes, r) \in Nat /\ SumOf(bytes, s) \in Nat
  BY <1>1, SumOfFewer, SumIsNatural
<1>4. ScanCounts'
  <2> SUFFICES ASSUME NEW p \in Procs, threadPc'[p] = "scan"
               PROVE  /\ limit'[p] = InForce'
                      /\ SumOf(bytes', flocked' \ scan'[p]) <= sum'[p]
                      /\ SumOf(bytes', Growing' \ scan'[p]) <= fresh'[p]
    BY DEF ScanCounts
  <2>1. /\ limit[p] = InForce /\ SumOf(bytes, flocked \ scan[p]) <= sum[p]
        /\ SumOf(bytes, Growing \ scan[p]) <= fresh[p] /\ sum[p] \in Nat /\ fresh[p] \in Nat
    BY DEF MemoryInv, ScanCounts, ScanTypes
  <2>2. SumOf(bytes, flocked' \ scan[p]) <= sum[p]
    <3>1. flocked \ scan[p] \in SUBSET files /\ flocked' \ scan[p] \in SUBSET (flocked \ scan[p])
      BY <1>2
    <3> HIDE DEF Growing
    <3>2. QED
      BY <1>3, <2>1, <3>1
  <2>3. SumOf(bytes, Growing' \ scan[p]) <= fresh[p]
    <3>1. Growing \ scan[p] \in SUBSET files /\ Growing' \ scan[p] \in SUBSET (Growing \ scan[p])
      BY <1>2
    <3>2. QED
      BY <1>3, <2>1, <3>1
  <2>4. QED
    BY <2>1, <2>2, <2>3
<1>5. MarginInv'
  <2>1. SUFFICES ASSUME Live, \E l, m \in Pending' : l # m
                 PROVE  Total - Other - SumOf(bytes', Pending') >= Memory!Min({Reserve, LeastMargin})
    BY DEF MarginInv
  <2>2. Total - Other - SumOf(bytes, Pending) >= Memory!Min({Reserve, LeastMargin})
    BY <2>1 DEF MemoryInv, MarginInv
  <2>3. SumOf(bytes, Pending') <= SumOf(bytes, Pending) /\ SumOf(bytes, Pending') \in Nat
        /\ SumOf(bytes, Pending) \in Nat
    BY <1>2, <1>3
  <2>4. Total - Other - SumOf(bytes, Pending') >= Memory!Min({Reserve, LeastMargin})
    BY <2>2, <2>3, LeastMarginType DEF Memory!Parameters
  <2>5. QED
    BY <2>4, Zenon
<1>6. QED
  BY <1>4, <1>5

\* A thread that has a lease.
Owning == {"admitted", "launch", "runs"}

\* A thread without a lease goes from one place to another.
LEMMA MovesKeepMemory ==
    ASSUME Memory!Parameters, MemoryInv, Memory!TypeOK', ScanTypes',
           UNCHANGED <<files, bytes, flocked, parentFd, child, young, mine>>,
           \A p \in Procs : threadPc'[p] # threadPc[p] => {threadPc[p], threadPc'[p]} \cap Owning = {},
           \A p \in Procs : threadPc'[p] # "scan" => sum'[p] = 0 /\ fresh'[p] = 0,
           \A p \in Procs : threadPc'[p] = "scan" =>
               /\ threadPc[p] = "scan" /\ InForce' = InForce
               /\ limit'[p] = limit[p] /\ scan'[p] = scan[p] /\ sum'[p] = sum[p] /\ fresh'[p] = fresh[p]
    PROVE  MemoryInv'
<1>1. Pending' = Pending /\ Growing' = Growing
  BY DEF Pending, Growing, Grown, Memory!Children, Owning
<1>2. ScanCounts' /\ MarginInv'
  BY <1>1, SumsStay
<1>3. HeldHaveFiles' /\ OwnersHold' /\ GrowingIsYoung'
  BY <1>1 DEF MemoryInv, HeldHaveFiles, OwnersHold, GrowingIsYoung, Memory!Children, Owning
<1>4. QED
  BY <1>2, <1>3 DEF MemoryInv

\* Whoever is not scanning has counted nothing.
LEMMA OneScans ==
    ASSUME Memory!Parameters, MemoryInv, NEW p \in Procs, dirLock \in {p, None}
    PROVE  \A q \in Procs \ {p} : threadPc[q] \notin {"budget", "scan"} /\ sum[q] = 0 /\ fresh[q] = 0
BY DEF MemoryInv, Memory!TypeOK, ScanCounts, Memory!Parameters

\* The memory domain starts with no lease and nothing counted.
LEMMA MemoryStarts ==
    ASSUME Memory!Parameters, Memory!Init PROVE MemoryInv
<1> USE DEF Memory!Init, Memory!Parameters
<1>1. Memory!TypeOK /\ ScanTypes
  BY DEF Memory!TypeOK, ScanTypes, Memory!Pcs
<1>2. Pending = {} /\ Growing = {}
  BY DEF Pending, Growing, Memory!Children
<1>3. HeldHaveFiles
  BY FS_EmptySet DEF HeldHaveFiles, Memory!Children
<1>4. OwnersHold /\ GrowingIsYoung /\ ScanCounts /\ MarginInv
  BY <1>2 DEF OwnersHold, GrowingIsYoung, ScanCounts, MarginInv
<1>5. QED
  BY <1>1, <1>3, <1>4 DEF MemoryInv

\* The steps of threads that take no lease and scan none, and of the operator.
LEMMA MovesMemory ==
    ASSUME Memory!Parameters, MemoryInv, NEW p \in Procs,
           Memory!Acquire(p) \/ Memory!LockDir(p) \/ Memory!GiveUpLock(p) \/ Memory!Refuse(p)
           \/ Memory!Retry(p) \/ Memory!Stop(p)
    PROVE  MemoryInv'
<1> USE DEF Memory!Goto, Memory!leaseVars, Memory!scanVars, MemoryInv, ScanTypes
<1>1. CASE Memory!Acquire(p)
  <2>1. Memory!TypeOK' /\ ScanTypes'
    BY <1>1 DEF Memory!Acquire, Memory!TypeOK, Memory!Pcs
  <2>2. QED
    BY <1>1, <2>1, MovesKeepMemory DEF Memory!Acquire, Memory!TypeOK, Owning, ScanCounts, InForce
<1>2. CASE Memory!LockDir(p)
  <2>1. Memory!TypeOK' /\ ScanTypes'
    BY <1>2, OneScans DEF Memory!LockDir, Memory!TypeOK, Memory!Pcs
  <2>2. QED
    BY <1>2, <2>1, MovesKeepMemory DEF Memory!LockDir, Memory!TypeOK, Owning, ScanCounts, InForce
<1>3. CASE Memory!GiveUpLock(p)
  <2>1. Memory!TypeOK' /\ ScanTypes'
    BY <1>3 DEF Memory!GiveUpLock, Memory!TypeOK, Memory!Pcs
  <2>2. QED
    BY <1>3, <2>1, MovesKeepMemory DEF Memory!GiveUpLock, Memory!TypeOK, Owning, ScanCounts, InForce
<1>4. CASE Memory!Refuse(p)
  <2>0. dirLock = p
    BY <1>4 DEF Memory!Refuse, Memory!TypeOK
  <2>1. Memory!TypeOK' /\ ScanTypes'
    BY <1>4, <2>0, OneScans DEF Memory!Refuse, Memory!ForgetScan, Memory!TypeOK, Memory!Pcs
  <2>2. \A q \in Procs : threadPc'[q] # "scan" /\ sum'[q] = 0 /\ fresh'[q] = 0
    BY <1>4, <2>0, OneScans DEF Memory!Refuse, Memory!ForgetScan, Memory!TypeOK
  <2>3. QED
    BY <1>4, <2>1, <2>2, MovesKeepMemory DEF Memory!Refuse, Memory!TypeOK, Owning
<1>5. CASE Memory!Retry(p)
  <2>1. Memory!TypeOK' /\ ScanTypes'
    BY <1>5 DEF Memory!Retry, Memory!TypeOK, Memory!Pcs
  <2>2. QED
    BY <1>5, <2>1, MovesKeepMemory DEF Memory!Retry, Memory!TypeOK, Owning, ScanCounts, InForce
<1>6. CASE Memory!Stop(p)
  <2>1. Memory!TypeOK' /\ ScanTypes'
    BY <1>6 DEF Memory!Stop, Memory!TypeOK, Memory!Pcs
  <2>2. QED
    BY <1>6, <2>1, MovesKeepMemory DEF Memory!Stop, Memory!TypeOK, Owning, ScanCounts, InForce
<1>7. QED
  BY <1>1, <1>2, <1>3, <1>4, <1>5, <1>6

\* Another budget is set while nobody scans: what was admitted stays as it is.
LEMMA ResizeMemory ==
    ASSUME Memory!Parameters, MemoryInv, NEW n \in Budgets, Memory!Resize(n) PROVE MemoryInv'
<1> USE DEF Memory!leaseVars, Memory!scanVars, MemoryInv, ScanTypes, Memory!Resize
<1>1. Memory!TypeOK' /\ ScanTypes'
  BY DEF Memory!TypeOK, Memory!Pcs, Memory!Parameters
<1>2. QED
  BY <1>1, MovesKeepMemory DEF Memory!TypeOK, Owning, ScanCounts, InForce, Memory!Parameters

\* A thread closes its lease, if it has one, and scans no more.
LEMMA ClosesKeepMemory ==
    ASSUME Memory!Parameters, MemoryInv, NEW p \in Procs, Memory!CloseParent(p),
           threadPc' = [threadPc EXCEPT ![p] = "idle"], UNCHANGED <<files, bytes, child, young>>,
           Memory!TypeOK', ScanTypes',
           \A q \in Procs : threadPc'[q] # "scan" => sum'[q] = 0 /\ fresh'[q] = 0,
           \A q \in Procs : threadPc'[q] = "scan" =>
               /\ InForce' = InForce
               /\ limit'[q] = limit[q] /\ scan'[q] = scan[q] /\ sum'[q] = sum[q] /\ fresh'[q] = fresh[q]
    PROVE  MemoryInv'
<1>0. threadPc \in [Procs -> Memory!Pcs] /\ mine \in [Procs -> Leases \cup {None}]
      /\ flocked \subseteq Leases /\ None \notin Procs
  BY DEF MemoryInv, Memory!TypeOK, Memory!Parameters
<1>1. flocked' \subseteq flocked
  BY DEF Memory!CloseParent
<1>2. Pending' \subseteq Pending /\ Growing' \subseteq Growing
  BY <1>0 DEF Pending, Growing, Grown, Memory!CloseParent
<1>3. ScanCounts' /\ MarginInv'
  BY <1>0, <1>1, <1>2, SumsStay
<1>4. HeldHaveFiles'
  BY <1>1 DEF MemoryInv, HeldHaveFiles, Memory!CloseParent, Memory!Children
<1>5. OwnersHold'
  BY <1>0 DEF MemoryInv, OwnersHold, Memory!CloseParent, Memory!Children
<1>6. GrowingIsYoung'
  BY <1>2 DEF MemoryInv, GrowingIsYoung
<1>7. QED
  BY <1>3, <1>4, <1>5, <1>6 DEF MemoryInv

\* An admission that finds its build stopped, a release and a kill take a lease away or
\* leave it, and never charge one.
LEMMA ClosingMemory ==
    ASSUME Memory!Parameters, MemoryInv, NEW p \in Procs,
           Memory!CheckNotStopped(p) \/ Memory!Release(p) \/ Memory!Kill(p)
    PROVE  MemoryInv'
<1> USE DEF Memory!Goto, Memory!scanVars, MemoryInv, ScanTypes
<1>0. None \notin Procs
  BY DEF Memory!Parameters
<1>1. CASE Memory!CheckNotStopped(p) /\ p \in interrupted
  <2>1. Memory!TypeOK' /\ ScanTypes'
    BY <1>1 DEF Memory!CheckNotStopped, Memory!CloseParent, Memory!TypeOK, Memory!Pcs
  <2>2. QED
    BY <1>1, <2>1, ClosesKeepMemory DEF Memory!CheckNotStopped, Memory!TypeOK, ScanCounts, InForce
<1>2. CASE Memory!CheckNotStopped(p) /\ p \notin interrupted
  <2>1. Memory!TypeOK' /\ ScanTypes'
    BY <1>2 DEF Memory!CheckNotStopped, Memory!TypeOK, Memory!Pcs
  <2>2. threadPc[p] = "admitted" /\ threadPc' = [threadPc EXCEPT ![p] = "launch"]
        /\ UNCHANGED <<budget, files, bytes, flocked, parentFd, child, young, mine, limit, scan, sum, fresh>>
    BY <1>2 DEF Memory!CheckNotStopped
  <2>3. Pending' = Pending /\ Growing' = Growing
    BY <2>2 DEF Pending, Growing, Grown, Memory!TypeOK
  <2>4. ScanCounts' /\ MarginInv'
    BY <2>2, <2>3, SumsStay DEF Memory!TypeOK, ScanCounts, InForce
  <2>5. HeldHaveFiles' /\ OwnersHold' /\ GrowingIsYoung'
    BY <2>2, <2>3 DEF HeldHaveFiles, OwnersHold, GrowingIsYoung, Memory!Children, Memory!TypeOK
  <2>6. QED
    BY <2>1, <2>4, <2>5
<1>3. CASE Memory!Release(p)
  <2>1. Memory!TypeOK' /\ ScanTypes'
    BY <1>3 DEF Memory!Release, Memory!CloseParent, Memory!TypeOK, Memory!Pcs
  <2>2. QED
    BY <1>3, <2>1, ClosesKeepMemory DEF Memory!Release, Memory!TypeOK, ScanCounts, InForce
<1>4. CASE Memory!Kill(p)
  <2>1. Memory!TypeOK' /\ ScanTypes'
    BY <1>0, <1>4 DEF Memory!Kill, Memory!CloseParent, Memory!ForgetScan, Memory!TypeOK, Memory!Pcs
  <2>2. \A q \in Procs : threadPc'[q] # "scan" => sum'[q] = 0 /\ fresh'[q] = 0
    BY <1>4 DEF Memory!Kill, Memory!ForgetScan, Memory!TypeOK, ScanCounts
  <2>3. \A q \in Procs : threadPc'[q] = "scan" =>
               /\ InForce' = InForce
               /\ limit'[q] = limit[q] /\ scan'[q] = scan[q] /\ sum'[q] = sum[q] /\ fresh'[q] = fresh[q]
    BY <1>4 DEF Memory!Kill, Memory!ForgetScan, Memory!TypeOK, InForce
  <2>4. QED
    BY <1>4, <2>1, <2>2, <2>3, ClosesKeepMemory DEF Memory!Kill
<1>5. QED
  BY <1>1, <1>2, <1>3, <1>4

\* A child is launched on a lease that waits for it: as much will take memory as before.
LEMMA LaunchMemory ==
    ASSUME Memory!Parameters, MemoryInv, NEW p \in Procs, Memory!Launch(p) PROVE MemoryInv'
<1> USE DEF Memory!Goto, Memory!scanVars, MemoryInv, ScanTypes
<1>1. mine[p] \in Leases /\ mine[p] \in flocked /\ parentFd[mine[p]] = p /\ child[mine[p]] = "none"
      /\ threadPc[p] = "launch"
  BY DEF OwnersHold, Memory!Launch, Memory!TypeOK
<1>2. /\ child' = [child EXCEPT ![mine[p]] = "starting"] /\ threadPc' = [threadPc EXCEPT ![p] = "runs"]
      /\ UNCHANGED <<dirLock, budget, files, bytes, flocked, parentFd, young, checked, mine, interrupted,
                     limit, scan, sum, fresh>>
  BY DEF Memory!Launch
<1>3. Memory!TypeOK' /\ ScanTypes'
  BY <1>1, <1>2 DEF Memory!TypeOK, Memory!Pcs
<1>4. Pending' = Pending /\ Growing' = Growing
  BY <1>1, <1>2 DEF Pending, Growing, Grown, Memory!TypeOK
<1>5. ScanCounts' /\ MarginInv'
  BY <1>1, <1>2, <1>4, SumsStay DEF Memory!TypeOK, ScanCounts, InForce
<1>6. HeldHaveFiles' /\ GrowingIsYoung'
  BY <1>1, <1>2, <1>4 DEF HeldHaveFiles, GrowingIsYoung, Memory!Children, Memory!TypeOK
<1>7. OwnersHold'
  BY <1>1, <1>2 DEF OwnersHold, Memory!TypeOK
<1>8. QED
  BY <1>3, <1>5, <1>6, <1>7

\* A child takes its memory, settles or ends.
LEMMA ChildMemory ==
    ASSUME Memory!Parameters, MemoryInv, NEW l \in Leases,
           Memory!Grow(l) \/ Memory!Settle(l) \/ Memory!ChildEnds(l)
    PROVE  MemoryInv'
<1> USE DEF Memory!scanVars, MemoryInv, ScanTypes
<1>0. /\ bytes' = bytes /\ flocked' \subseteq flocked
      /\ UNCHANGED <<dirLock, budget, files, parentFd, threadPc, checked, mine, interrupted,
                     limit, scan, sum, fresh>>
  BY DEF Memory!Grow, Memory!Settle, Memory!ChildEnds
<1>1. Memory!TypeOK' /\ ScanTypes'
  BY <1>0 DEF Memory!Grow, Memory!Settle, Memory!ChildEnds, Memory!TypeOK
<1>2. Pending' \subseteq Pending /\ Growing' \subseteq Growing
  BY <1>0 DEF Memory!Grow, Memory!Settle, Memory!ChildEnds, Pending, Growing, Grown, Memory!TypeOK,
     OwnersHold
<1>3. ScanCounts' /\ MarginInv'
  BY <1>0, <1>2, SumsStay DEF ScanCounts, InForce
<1>4. HeldHaveFiles'
  BY <1>0
     DEF Memory!Grow, Memory!Settle, Memory!ChildEnds, HeldHaveFiles, Memory!Children,
         Memory!TypeOK
<1>5. OwnersHold'
  BY <1>0
     DEF Memory!Grow, Memory!Settle, Memory!ChildEnds, OwnersHold, Memory!TypeOK,
         Memory!Parameters
<1>6. GrowingIsYoung'
  <2>1. CASE Memory!Settle(l)
    BY <1>0, <2>1 DEF Memory!Settle, GrowingIsYoung, Growing, Grown, Pending, Memory!TypeOK
  <2>2. CASE ~Memory!Settle(l)
    BY <1>0, <1>2, <2>2 DEF Memory!Grow, Memory!ChildEnds, GrowingIsYoung
  <2>3. QED
    BY <2>1, <2>2
<1>7. QED
  BY <1>1, <1>3, <1>4, <1>5, <1>6

\* A scan begins with the budget in force, and has seen no lease.
LEMMA ReadBudgetMemory ==
    ASSUME Memory!Parameters, MemoryInv, NEW p \in Procs, Memory!ReadBudget(p) PROVE MemoryInv'
<1> USE DEF Memory!Goto, Memory!scanVars, Memory!leaseVars, MemoryInv, ScanTypes
<1> DEFINE asked == IF p \in checked THEN None ELSE MaxMem[p]
           now == IF budget # None THEN budget ELSE IF asked # None THEN asked ELSE Memory!Default
           conflict == asked # None /\ now # asked
<1>1. /\ threadPc[p] = "budget" /\ dirLock = p
      /\ UNCHANGED <<files, bytes, flocked, parentFd, child, young, mine, interrupted>>
      /\ budget' = IF budget = None /\ asked # None THEN asked ELSE budget
      /\ checked' = IF conflict THEN checked ELSE checked \cup {p}
      /\ IF conflict \/ Charge[p] > now
         THEN /\ threadPc' = [threadPc EXCEPT ![p] = "idle"] /\ dirLock' = None
              /\ UNCHANGED <<limit, scan, sum, fresh>>
         ELSE /\ limit' = [limit EXCEPT ![p] = now] /\ scan' = [scan EXCEPT ![p] = files]
              /\ threadPc' = [threadPc EXCEPT ![p] = "scan"] /\ UNCHANGED <<dirLock, sum, fresh>>
  BY DEF Memory!ReadBudget, Memory!TypeOK
<1>2. asked \in Nat \cup {None} /\ now \in Int
  BY DEF Memory!Parameters, Memory!TypeOK, Memory!Default
<1>3. InForce' = now
  BY <1>1, <1>2 DEF InForce, Memory!Default
<1> HIDE DEF asked, now, conflict
<1>4. \A q \in Procs \ {p} : threadPc[q] \notin {"budget", "scan"} /\ sum[q] = 0 /\ fresh[q] = 0
  BY <1>1, OneScans
<1>5. sum[p] = 0 /\ fresh[p] = 0
  BY <1>1 DEF ScanCounts
<1>6. Memory!TypeOK'
  <2>1. budget' \in Nat \cup {None} /\ checked' \subseteq Procs
    BY <1>1, <1>2 DEF Memory!TypeOK
  <2>2. threadPc' \in [Procs -> Memory!Pcs] /\ dirLock' \in Procs \cup {None}
    BY <1>1 DEF Memory!TypeOK, Memory!Pcs
  <2>3. \A q \in Procs : threadPc'[q] \in {"budget", "scan"} => dirLock' = q
    BY <1>1, <1>4 DEF Memory!TypeOK
  <2>4. QED
    BY <1>1, <2>1, <2>2, <2>3 DEF Memory!TypeOK
<1>7. ScanTypes'
  BY <1>1, <1>2 DEF Memory!TypeOK
<1>8. CASE conflict \/ Charge[p] > now
  <2>1. \A q \in Procs : threadPc'[q] # "scan" /\ sum'[q] = 0 /\ fresh'[q] = 0
    BY <1>1, <1>4, <1>5, <1>8 DEF Memory!TypeOK
  <2>2. QED
    BY <1>1, <1>6, <1>7, <1>8, <2>1, MovesKeepMemory DEF Owning, Memory!TypeOK
<1>9. CASE ~(conflict \/ Charge[p] > now)
  <2>1. Pending' = Pending /\ Growing' = Growing
    BY <1>1, <1>9 DEF Pending, Growing, Grown, Memory!TypeOK
  <2>2. HeldHaveFiles' /\ OwnersHold' /\ GrowingIsYoung'
    BY <1>1, <1>9, <2>1
       DEF HeldHaveFiles, OwnersHold, GrowingIsYoung, Memory!Children, Memory!TypeOK
  <2>3. MarginInv'
    BY <1>1, <2>1 DEF MarginInv
  <2>4. flocked' \ scan'[p] = {} /\ Growing' \ scan'[p] = {}
    BY <1>1, <1>9, <2>1, PendingIsHeld DEF HeldHaveFiles
  <2>5. SumOf(bytes', flocked' \ scan'[p]) = 0 /\ SumOf(bytes', Growing' \ scan'[p]) = 0
    BY <2>4, SumOfNothing
  <2>6. ScanCounts'
    <3>1. \A q \in Procs \ {p} : threadPc'[q] # "scan" /\ sum'[q] = 0 /\ fresh'[q] = 0
      BY <1>1, <1>4, <1>9 DEF Memory!TypeOK
    <3>2. threadPc'[p] = "scan" /\ sum'[p] = 0 /\ fresh'[p] = 0 /\ limit'[p] = now
      BY <1>1, <1>5, <1>9 DEF Memory!TypeOK
    <3>3. /\ SumOf(bytes', flocked' \ scan'[p]) <= sum'[p]
          /\ SumOf(bytes', Growing' \ scan'[p]) <= fresh'[p]
      BY <2>5, <3>2
    <3>4. QED
      BY <1>3, <3>1, <3>2, <3>3 DEF ScanCounts
  <2>7. QED
    BY <1>6, <1>7, <2>2, <2>3, <2>6
<1>10. QED
  BY <1>8, <1>9

\* One lease more is counted if it is held, and removed if it is not.
LEMMA ScanLeaseMemory ==
    ASSUME Memory!Parameters, MemoryInv, NEW p \in Procs, NEW l \in Leases, Memory!ScanLease(p, l)
    PROVE  MemoryInv'
<1> USE DEF MemoryInv, ScanTypes
<1>1. /\ threadPc[p] = "scan" /\ dirLock = p /\ l \in scan[p]
      /\ scan' = [scan EXCEPT ![p] = @ \ {l}]
      /\ UNCHANGED <<dirLock, budget, bytes, flocked, parentFd, child, threadPc, checked, limit, mine,
                     interrupted>>
  BY DEF Memory!ScanLease, Memory!TypeOK
<1>2. /\ l \in flocked => /\ sum' = [sum EXCEPT ![p] = @ + bytes[l]]
                          /\ fresh' = [fresh EXCEPT ![p] = @ + (IF l \in young THEN bytes[l] ELSE 0)]
                          /\ UNCHANGED <<files, young>>
      /\ l \notin flocked => files' = files \ {l} /\ young' = young \ {l} /\ UNCHANGED <<sum, fresh>>
  BY DEF Memory!ScanLease
<1>3. \A q \in Procs \ {p} : threadPc[q] \notin {"budget", "scan"} /\ sum[q] = 0 /\ fresh[q] = 0
  BY <1>1, OneScans
<1>4. Pending' = Pending /\ Growing' = Growing
  BY <1>1 DEF Pending, Growing, Grown
<1>5. bytes[l] \in Nat /\ sum[p] \in Nat /\ fresh[p] \in Nat
  BY DEF Memory!TypeOK
<1>6. Memory!TypeOK' /\ ScanTypes'
  <2>1. CASE l \in flocked
    BY <1>1, <1>2, <1>5, <2>1 DEF Memory!TypeOK
  <2>2. CASE l \notin flocked
    BY <1>1, <1>2, <2>2 DEF Memory!TypeOK
  <2>3. QED
    BY <2>1, <2>2
<1>7. IsFiniteSet(files')
  BY <1>2, FS_Subset DEF HeldHaveFiles
<1>8. HeldHaveFiles' /\ OwnersHold' /\ MarginInv'
  BY <1>1, <1>2, <1>4, <1>7 DEF HeldHaveFiles, OwnersHold, MarginInv, Memory!Children
<1>9. GrowingIsYoung'
  BY <1>2, <1>4, PendingIsHeld DEF GrowingIsYoung
<1>10. ScanCounts'
  <2> DEFINE seen == flocked \ scan[p]
             rising == Growing \ scan[p]
  <2>0. IsFiniteSet(files) /\ (\A m \in files : bytes[m] \in Nat) /\ seen \in SUBSET files
        /\ rising \in SUBSET files
    BY ChargesOfFiles, PendingIsHeld DEF HeldHaveFiles
  <2>1. /\ limit[p] = InForce /\ SumOf(bytes, seen) <= sum[p] /\ SumOf(bytes, rising) <= fresh[p]
        /\ SumOf(bytes, seen) \in Nat /\ SumOf(bytes, rising) \in Nat
    BY <1>1, <2>0, SumIsNatural DEF ScanCounts
  <2>2. SumOf(bytes, flocked \ (scan[p] \ {l})) <= sum'[p]
    <3>1. CASE l \in flocked
      <4>1. flocked \ (scan[p] \ {l}) = seen \cup {l} /\ l \in files \ seen
        BY <1>1, <3>1 DEF HeldHaveFiles
      <4> HIDE DEF seen
      <4>2. SumOf(bytes, seen \cup {l}) = SumOf(bytes, seen) + bytes[l]
        BY <2>0, <4>1, SumOfOneMore
      <4>3. sum'[p] = sum[p] + bytes[l]
        BY <1>2, <3>1
      <4>4. SumOf(bytes, seen \cup {l}) <= sum'[p]
        BY <1>5, <2>1, <4>2, <4>3
      <4>5. QED
        BY <4>1, <4>4, Zenon
    <3>2. CASE l \notin flocked
      <4>1. flocked \ (scan[p] \ {l}) = seen /\ sum'[p] = sum[p]
        BY <1>2, <3>2
      <4>2. QED
        BY <2>1, <4>1
    <3>3. QED
      BY <3>1, <3>2
  <2>3. SumOf(bytes, Growing \ (scan[p] \ {l})) <= fresh'[p]
    <3>1. CASE l \in Growing
      <4>1. Growing \ (scan[p] \ {l}) = rising \cup {l} /\ l \in files \ rising /\ l \in flocked
            /\ l \in young
        BY <1>1, <3>1, PendingIsHeld DEF HeldHaveFiles, GrowingIsYoung
      <4> HIDE DEF rising
      <4>2. SumOf(bytes, rising \cup {l}) = SumOf(bytes, rising) + bytes[l]
        BY <2>0, <4>1, SumOfOneMore
      <4>3. fresh'[p] = fresh[p] + bytes[l]
        BY <1>2, <4>1
      <4>4. SumOf(bytes, rising \cup {l}) <= fresh'[p]
        BY <1>5, <2>1, <4>2, <4>3
      <4>5. QED
        BY <4>1, <4>4, Zenon
    <3>2. CASE l \notin Growing
      <4>1. Growing \ (scan[p] \ {l}) = rising
        BY <3>2
      <4>2. fresh'[p] >= fresh[p] /\ fresh'[p] \in Nat
        <5>1. CASE l \in flocked /\ l \in young
          BY <1>2, <1>5, <5>1
        <5>2. CASE l \in flocked /\ l \notin young
          BY <1>2, <1>5, <5>2
        <5>3. CASE l \notin flocked
          BY <1>2, <1>5, <5>3
        <5>4. QED
          BY <5>1, <5>2, <5>3
      <4> HIDE DEF rising
      <4>3. SumOf(bytes, rising) <= fresh'[p]
        BY <1>5, <2>1, <4>2
      <4>4. QED
        BY <4>1, <4>3, Zenon
    <3>3. QED
      BY <3>1, <3>2
  <2>4. scan'[p] = scan[p] \ {l} /\ bytes' = bytes /\ flocked' = flocked /\ limit' = limit
        /\ InForce' = InForce /\ threadPc' = threadPc
    BY <1>1 DEF InForce
  <2>5. \A q \in Procs \ {p} : sum'[q] = 0 /\ fresh'[q] = 0
    BY <1>2, <1>3
  <2>6. /\ SumOf(bytes', flocked' \ scan'[p]) <= sum'[p]
        /\ SumOf(bytes', Growing' \ scan'[p]) <= fresh'[p]
    BY <1>4, <2>2, <2>3, <2>4
  <2>7. QED
    BY <1>1, <1>3, <2>1, <2>4, <2>5, <2>6 DEF ScanCounts
<1>11. QED
  BY <1>6, <1>8, <1>9, <1>10

\* A lease that fits is added.
LEMMA AdmitMemory ==
    ASSUME Memory!Parameters, MemoryInv, NEW p \in Procs, NEW l \in Leases, Memory!Admit(p, l)
    PROVE  /\ MemoryInv'
           /\ flocked' = flocked \cup {l} /\ bytes'[l] = Charge[p]
           /\ SumOf(bytes, flocked) + Charge[p] <= InForce
<1> USE DEF MemoryInv, ScanTypes
<1>1. /\ threadPc[p] = "scan" /\ dirLock = p /\ scan[p] = {} /\ Memory!Fits(p)
      /\ l \notin files \cup flocked
      /\ files' = files \cup {l} /\ bytes' = [bytes EXCEPT ![l] = Charge[p]]
      /\ flocked' = flocked \cup {l} /\ parentFd' = [parentFd EXCEPT ![l] = p]
      /\ young' = young \cup {l} /\ mine' = [mine EXCEPT ![p] = l]
      /\ dirLock' = None /\ threadPc' = [threadPc EXCEPT ![p] = "admitted"]
      /\ UNCHANGED <<budget, child, checked, interrupted>>
  BY DEF Memory!Admit, Memory!Goto, Memory!TypeOK
<1>2. /\ limit' = [limit EXCEPT ![p] = 0] /\ scan' = [scan EXCEPT ![p] = {}]
      /\ sum' = [sum EXCEPT ![p] = 0] /\ fresh' = [fresh EXCEPT ![p] = 0]
  BY DEF Memory!Admit, Memory!ForgetScan
<1>3. \A q \in Procs \ {p} : threadPc[q] \notin {"budget", "scan"} /\ sum[q] = 0 /\ fresh[q] = 0
  BY <1>1, OneScans
<1>4. Charge[p] \in Nat /\ Charge[p] > 0 /\ limit[p] \in Int /\ sum[p] \in Nat /\ fresh[p] \in Nat
      /\ Total \in Nat /\ Other \in Nat /\ Reserve \in Int /\ LeastMargin \in Int
      /\ InForce \in Int
  BY DEF Memory!Parameters, InForce, Memory!TypeOK, Memory!Default
<1>5. Memory!TypeOK' /\ ScanTypes'
  BY <1>1, <1>2, <1>3, <1>4 DEF Memory!TypeOK, Memory!Pcs
<1>6. ScanCounts'
  BY <1>1, <1>2, <1>3 DEF Memory!TypeOK, ScanCounts
<1>7. child[l] = "none"
  BY <1>1 DEF HeldHaveFiles, Memory!Children
<1>8. HeldHaveFiles'
  <2>1. IsFiniteSet(files')
    BY <1>1, FS_AddElement DEF HeldHaveFiles
  <2>2. flocked' \subseteq files' /\ Memory!Children' \subseteq flocked' /\ \A m \in flocked' : bytes'[m] > 0
    BY <1>1, <1>4 DEF HeldHaveFiles, Memory!Children, Memory!TypeOK
  <2>3. QED
    BY <2>1, <2>2 DEF HeldHaveFiles
<1>9. OwnersHold'
  BY <1>1, <1>7 DEF OwnersHold, Memory!TypeOK
<1>10. Pending' = Pending \cup {l} /\ Growing' = Growing \cup {l} /\ l \notin Pending /\ l \notin Growing
  <2>1. l \notin Pending /\ l \notin Growing
    BY <1>1, PendingIsHeld
  <2>2. Pending' = Pending \cup {l}
    BY <1>1 DEF Pending, Memory!TypeOK
  <2>3. QED
    BY <1>1, <1>7, <2>1, <2>2 DEF Growing, Grown
<1>11. GrowingIsYoung'
  BY <1>1, <1>10 DEF GrowingIsYoung
<1>12. IsFiniteSet(files) /\ (\A m \in files : bytes[m] \in Nat) /\ flocked \in SUBSET files
       /\ Pending \in SUBSET files /\ Growing \in SUBSET files /\ Grown \in SUBSET files
  BY ChargesOfFiles, PendingIsHeld DEF HeldHaveFiles
<1>13. /\ limit[p] = InForce /\ SumOf(bytes, flocked) <= sum[p] /\ SumOf(bytes, Growing) <= fresh[p]
  <2>1. flocked \ scan[p] = flocked /\ Growing \ scan[p] = Growing
    BY <1>1
  <2>2. QED
    BY <1>1, <2>1 DEF ScanCounts
<1>14. /\ SumOf(bytes, flocked) \in Nat /\ SumOf(bytes, Growing) \in Nat /\ SumOf(bytes, Grown) \in Nat
       /\ SumOf(bytes, Pending) \in Nat
  BY <1>12, SumIsNatural
<1>15. SumOf(bytes, flocked) + Charge[p] <= InForce
  BY <1>1, <1>4, <1>13, <1>14 DEF Memory!Fits
<1>16. MarginInv'
  <2>1. SUFFICES ASSUME Live, \E m, n \in Pending' : m # n
                 PROVE  Total - Other - SumOf(bytes', Pending') >= Memory!Min({Reserve, LeastMargin})
    BY DEF MarginInv
  <2>2. PICK m \in Pending : TRUE
    BY <1>10, <2>1
  <2>3. sum[p] # 0
    <3>1. m \in flocked /\ bytes[m] > 0 /\ bytes[m] \in Nat
      BY <1>12, PendingIsHeld DEF HeldHaveFiles
    <3>2. SumOf(bytes, flocked) = SumOf(bytes, flocked \ {m}) + bytes[m]
      BY <1>12, <3>1, SumOfRest
    <3>3. SumOf(bytes, flocked \ {m}) \in Nat
      BY <1>12, SumIsNatural
    <3>4. QED
      BY <1>4, <1>13, <1>14, <3>1, <3>2, <3>3
  <2>4. ~Memory!Shortfall(p)
    BY <1>1, <2>3 DEF Memory!Fits
  <2>5. Memory!MemAvailable = Total - Other - SumOf(bytes, Grown)
    <3>1. IsFiniteSet(Grown) /\ \A n \in Grown : bytes[n] \in Nat
      BY <1>12, FS_Subset
    <3>2. Memory!Bytes(Grown) = SumOf(bytes, Grown)
      BY <3>1, BytesIsSum
    <3>3. QED
      BY <3>2 DEF Memory!MemAvailable, Grown
  <2>6. SumOf(bytes, Pending) = SumOf(bytes, Growing) + SumOf(bytes, Grown)
    <3>1. Pending = Growing \cup Grown /\ Growing \cap Grown = {}
      BY PendingIsHeld DEF Growing
    <3>2. SumOf(bytes, Growing \cup Grown) = SumOf(bytes, Growing) + SumOf(bytes, Grown)
      <4> HIDE DEF Growing, Grown
      <4>1. QED
        BY <1>12, <3>1, SumOfTwoParts
    <3>3. QED
      BY <3>1, <3>2, Zenon
  <2>7. SumOf(bytes', Pending') = SumOf(bytes, Pending) + Charge[p]
    <3>1. SumOf(bytes', Pending) = SumOf(bytes, Pending)
      <4>1. \A n \in Pending : bytes'[n] = bytes[n]
        BY <1>1, <1>10, <1>12 DEF Memory!TypeOK
      <4>2. QED
        BY <4>1, SumOfSame
    <3>2. IsFiniteSet(files') /\ \A n \in files' : bytes'[n] \in Nat
      BY <1>5, <1>8 DEF HeldHaveFiles, Memory!TypeOK
    <3>3. SumOf(bytes', Pending \cup {l}) = SumOf(bytes', Pending) + bytes'[l]
      <4>1. Pending \in SUBSET files' /\ l \in files' \ Pending
        BY <1>1, <1>10, <1>12
      <4>2. QED
        BY <3>2, <4>1, SumOfOneMore
    <3>4. bytes'[l] = Charge[p]
      BY <1>1 DEF Memory!TypeOK
    <3>5. QED
      BY <1>10, <3>1, <3>3, <3>4
  <2> DEFINE room == Total - limit[p]
             margin == Memory!Min({Reserve, Memory!Max({LeastMargin, room})})
  <2>8. margin \in Int /\ margin >= Memory!Min({Reserve, LeastMargin})
        /\ Memory!Min({Reserve, LeastMargin}) \in Int
    <3>1. room \in Int
      BY <1>4
    <3> HIDE DEF room
    <3>2. Memory!Max({LeastMargin, room}) \in Int /\ Memory!Max({LeastMargin, room}) >= LeastMargin
      BY <1>4, <3>1, BoundsOfTwo
    <3>3. margin \in {Reserve, Memory!Max({LeastMargin, room})}
      BY <1>4, <3>2, BoundsOfTwo
    <3>4. /\ Memory!Min({Reserve, LeastMargin}) \in {Reserve, LeastMargin}
          /\ Memory!Min({Reserve, LeastMargin}) <= Reserve
          /\ Memory!Min({Reserve, LeastMargin}) <= LeastMargin
      BY <1>4, BoundsOfTwo
    <3> HIDE DEF margin
    <3>5. QED
      BY <1>4, <3>2, <3>3, <3>4
  <2>9. Total - Other - SumOf(bytes, Grown) - fresh[p] >= Charge[p] + margin
    <3>1. ~(Memory!MemAvailable - fresh[p] < Charge[p] + margin)
      BY <2>1, <2>4 DEF Memory!Shortfall, Memory!Margin
    <3> HIDE DEF margin
    <3>2. QED
      BY <1>4, <1>14, <2>5, <2>8, <3>1
  <2> HIDE DEF margin
  <2>10. QED
    BY <1>4, <1>13, <1>14, <2>6, <2>7, <2>8, <2>9
<1>17. bytes'[l] = Charge[p]
  BY <1>1 DEF Memory!TypeOK
<1>18. QED
  BY <1>1, <1>5, <1>6, <1>8, <1>9, <1>11, <1>15, <1>16, <1>17

\* Every step keeps the invariant.
LEMMA MemoryNext ==
    ASSUME Memory!Parameters, MemoryInv, [Memory!Next]_(Memory!vars) PROVE MemoryInv'
<1>1. CASE UNCHANGED Memory!vars
  <2>1. UNCHANGED <<dirLock, budget, files, bytes, flocked, parentFd, child, young, threadPc, checked,
                    limit, scan, sum, fresh, mine, interrupted>>
    BY <1>1 DEF Memory!vars, Memory!leaseVars, Memory!scanVars
  <2>2. Memory!TypeOK' /\ ScanTypes'
    BY <2>1 DEF MemoryInv, Memory!TypeOK, ScanTypes
  <2>3. QED
    BY <2>1, <2>2, MovesKeepMemory DEF MemoryInv, ScanCounts, InForce
<1>2. CASE Memory!Next
  BY <1>2, MovesMemory, ResizeMemory, ClosingMemory, LaunchMemory, ChildMemory, ReadBudgetMemory,
     ScanLeaseMemory, AdmitMemory DEF Memory!Next, Memory!Working
<1>3. QED
  BY <1>1, <1>2

\* The invariant holds of every behaviour of the memory domain.
LEMMA MemoryInvariant ==
    ASSUME Memory!Parameters PROVE Memory!Spec => []MemoryInv
<1>1. Memory!Init => MemoryInv
  BY MemoryStarts
<1>2. MemoryInv /\ [Memory!Next]_(Memory!vars) => MemoryInv'
  BY MemoryNext
<1>3. QED
  BY <1>1, <1>2, PTL DEF Memory!Spec

\* Only an admission takes the flock of a lease.
LEMMA OnlyAdmitHolds ==
    ASSUME [Memory!Next]_(Memory!vars), NEW m \in flocked' \ flocked
    PROVE  \E p \in Procs, l \in Leases : Memory!Admit(p, l)
BY DEF Memory!Next, Memory!Working, Memory!Acquire, Memory!LockDir, Memory!GiveUpLock,
       Memory!ReadBudget, Memory!ScanLease, Memory!Refuse, Memory!Retry, Memory!CheckNotStopped,
       Memory!Launch, Memory!Release, Memory!Grow, Memory!Settle, Memory!ChildEnds, Memory!Stop,
       Memory!Kill, Memory!Resize, Memory!CloseParent, Memory!leaseVars, Memory!vars

\* Whatever the number of threads, their charges and budgets and the size of the machine,
\* what is admitted fits the budget in force with all that is held and all that runs.
THEOREM AdmittedFitsBudget ==
    ASSUME Memory!Parameters PROVE Memory!Spec => AdmissionsFitBudget
<1> DEFINE FitsNow == \A l \in flocked' \ flocked :
                          Memory!Bytes(flocked \cup Memory!Children) + bytes'[l]
                            <= (IF budget # None THEN budget ELSE Memory!Default)
<1>1. ASSUME MemoryInv, [Memory!Next]_(Memory!vars) PROVE FitsNow
  <2> SUFFICES ASSUME NEW m \in flocked' \ flocked
               PROVE  Memory!Bytes(flocked \cup Memory!Children) + bytes'[m] <= InForce
    BY DEF InForce
  <2>1. PICK p \in Procs, l \in Leases : Memory!Admit(p, l)
    BY <1>1, OnlyAdmitHolds
  <2>2. /\ flocked' = flocked \cup {l} /\ bytes'[l] = Charge[p]
        /\ SumOf(bytes, flocked) + Charge[p] <= InForce
    BY <1>1, <2>1, AdmitMemory
  <2>3. flocked \cup Memory!Children = flocked /\ IsFiniteSet(flocked) /\ \A n \in flocked : bytes[n] \in Nat
    BY <1>1, ChargesOfFiles, FS_Subset DEF MemoryInv, HeldHaveFiles
  <2>4. Memory!Bytes(flocked) = SumOf(bytes, flocked)
    BY <2>3, BytesIsSum
  <2>5. Memory!Bytes(flocked \cup Memory!Children) = SumOf(bytes, flocked)
    BY <2>3, <2>4, Zenon
  <2>6. m = l
    BY <2>2
  <2>7. QED
    BY <2>2, <2>5, <2>6
<1>2. MemoryInv /\ [Memory!Next]_(Memory!vars) => [FitsNow]_(Memory!vars)
  BY <1>1
<1>3. Memory!Spec => [][FitsNow]_(Memory!vars)
  <2> HIDE DEF FitsNow
  <2>1. QED
    BY <1>2, MemoryInvariant, PTL DEF Memory!Spec
<1>4. QED
  BY <1>3 DEF AdmissionsFitBudget, Memory!AdmissionsFitBudget

\* Whatever the number of threads and their charges, two or more children leave the margin
\* free, whatever the budget allows.
THEOREM ChildrenKeepMargin ==
    ASSUME Memory!Parameters PROVE Memory!Spec => []MarginIsKept
<1>1. ASSUME MemoryInv PROVE MarginIsKept
  <2>1. SUFFICES ASSUME Live, Cardinality(Memory!Children) > 1
                 PROVE  Total - Other - Memory!Bytes(Memory!Children) >= Memory!Min({Reserve, LeastMargin})
    BY CardinalityOfParts DEF MarginIsKept, Memory!MarginIsKept
  <2>2. IsFiniteSet(files) /\ (\A l \in files : bytes[l] \in Nat)
        /\ Pending \in SUBSET files /\ Memory!Children \in SUBSET Pending
    <3>1. Memory!Children \subseteq Pending
      BY DEF Pending, Memory!Children
    <3>2. QED
      BY <1>1, <3>1, ChargesOfFiles, PendingIsHeld DEF MemoryInv, HeldHaveFiles
  <2>3. \E l, m \in Pending : l # m
    <3>1. IsFiniteSet(Memory!Children) /\ Memory!Children # {}
      BY <2>1, <2>2, FS_Subset, FS_EmptySet
    <3>2. PICK l \in Memory!Children : TRUE
      BY <3>1
    <3>3. Memory!Children # {l}
      BY <2>1, FS_Singleton
    <3>4. QED
      BY <2>2, <3>2, <3>3
  <2>4. Total - Other - SumOf(bytes, Pending) >= Memory!Min({Reserve, LeastMargin})
    BY <1>1, <2>1, <2>3 DEF MemoryInv, MarginInv
  <2>5. SumOf(bytes, Memory!Children) <= SumOf(bytes, Pending)
        /\ SumOf(bytes, Memory!Children) \in Nat /\ SumOf(bytes, Pending) \in Nat
    BY <2>2, SumOfFewer, SumIsNatural
  <2>6. Memory!Bytes(Memory!Children) = SumOf(bytes, Memory!Children)
    <3>1. IsFiniteSet(Memory!Children) /\ \A l \in Memory!Children : bytes[l] \in Nat
      BY <2>2, FS_Subset
    <3>2. QED
      BY <3>1, BytesIsSum
  <2>7. QED
    BY <2>4, <2>5, <2>6, LeastMarginType DEF Memory!Parameters
<1>2. QED
  BY <1>1, MemoryInvariant, PTL
=============================================================================
