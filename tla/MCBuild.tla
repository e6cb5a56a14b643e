------------------------------ MODULE MCBuild ------------------------------
(***************************************************************************)
(* What runs on one machine during a build, side by side: the scheduler of *)
(* a parallel build, the memory domain of several holbuild processes, and  *)
(* workers that look at such a domain before they claim.  They share no    *)
(* variable: in a behaviour one part moves and the others stay where they  *)
(* start.                                                                  *)
(***************************************************************************)
EXTENDS Integers, FiniteSets, Sequences, TLC

CONSTANTS
    Parts,                                      \* the parts that are checked
    None,
    Nodes, Deps, Workers, Retained, Checkpointed, Inspecting, WarnRaises,       \* BuildScheduler
    a, b, c, d, e,
    Procs, Leases, Charge, MaxMem, Budgets, Total, Reserve, LeastMargin, Other, Live,
    Interrupts,                                                                 \* MachineMemory
    p1, p2,
    Looks, ChildCharge, LookCharge, GateBudgets, Totals, Availables             \* MemoryGate

VARIABLES
    part,
    remaining, ready, priorityReady, priorityRunning, priorityMode, focusLeft, running, active,
    completed, owner, queue, protected, stopped, failure, threads, pc, job, main, built,
    dirLock, budget, files, bytes, flocked, parentFd, child, young, threadPc, checked, limit,
    scan, sum, fresh, mine, interrupted,
    total, available, gateBudget, gateLock, gateFiles, holder, gateYoung, gatePc, created, left,
    reserved, starting, steady, answer, failed

Schedule == INSTANCE BuildScheduler
Memory == INSTANCE MachineMemory WITH pc <- threadPc, stopped <- interrupted
\* Workers beside the same processes, on hosts where the budget, what is free, or neither
\* is what counts.
Gate == INSTANCE MemoryGate WITH
    Threads <- Procs, Budgets <- GateBudgets,
    budget <- gateBudget, dirLock <- gateLock, files <- gateFiles, young <- gateYoung,
    pc <- gatePc, mine <- created

ASSUME ParametersAssumption == Schedule!Parameters /\ Memory!Parameters /\ Gate!Parameters

\* c joins a and b, d stands beside them and e needs them all.
JoinedPlan == (a :> {}) @@ (b :> {}) @@ (c :> {a, b}) @@ (d :> {}) @@ (e :> {c, d})
\* Two processes with children of different size; the first may ask for a budget.
TwoCharges == (p1 :> 2) @@ (p2 :> 3)
FirstAsks == (p1 :> 5) @@ (p2 :> None)
NobodyAsks == (p1 :> None) @@ (p2 :> None)

schedule == <<remaining, ready, priorityReady, priorityRunning, priorityMode, focusLeft, running,
              active, completed, owner, queue, protected, stopped, failure, threads, pc, job,
              main, built>>
memory == <<dirLock, budget, files, bytes, flocked, parentFd, child, young, threadPc, checked,
            limit, scan, sum, fresh, mine, interrupted>>
gate == <<total, available, gateBudget, gateLock, gateFiles, holder, gateYoung, gatePc, created,
          left, reserved, starting, steady, answer, failed>>
vars == <<part, schedule, memory, gate>>

\* A part that does not move starts in one state.
Init ==
    /\ part \in Parts
    /\ Schedule!Init /\ Memory!Init /\ Gate!Init
    /\ part # "memory" => budget = None
    /\ part # "gate" => total = None /\ available = None /\ gateBudget = None

Next ==
    /\ UNCHANGED part
    /\ \/ part = "schedule" /\ Schedule!Next /\ UNCHANGED <<memory, gate>>
       \/ part = "memory" /\ Memory!Next /\ UNCHANGED <<schedule, gate>>
       \/ part = "gate" /\ Gate!Next /\ UNCHANGED <<schedule, memory>>

\* Each part's own fairness, for the part that moves.
Spec ==
    /\ Init /\ [][Next]_vars
    /\ \A w \in Workers : WF_schedule(part = "schedule" /\ Schedule!Step(w))
    /\ WF_schedule(part = "schedule" /\ Schedule!WaitWorkers)
    /\ \A p \in Procs : /\ WF_memory(part = "memory" /\ Memory!Working(p))
                      /\ SF_memory(part = "memory" /\ Memory!LockDir(p))
    /\ \A l \in Leases : WF_memory(part = "memory" /\ Memory!ChildEnds(l))

LeaseSymmetry == Permutations(Leases)

-----------------------------------------------------------------------------

\* release_dependent: a node is let out once everything it depends on is built, and once.
DepsBuiltFirst == Schedule!DepsBuiltFirst

\* begin_checkpoint_maintenance: a refresh spares the families of the nodes being built.
ActiveFamiliesAreProtected == Schedule!ActiveFamiliesAreProtected

\* wait_workers_result: a build that reports success built the whole plan.
SuccessIsWhole == Schedule!SuccessIsWhole

\* build_parallel: every build ends.
BuildEnds == part = "schedule" => Schedule!BuildEnds

\* acquire, create_lease: what is admitted fits the budget with all that is reserved and
\* all that runs.
AdmissionsFitBudget == Memory!AdmissionsFitBudget

\* live_shortfall: starting children do not eat into the margin.
MarginIsKept == Memory!MarginIsKept

\* acquire: a domain with nothing reserved lets a child in.
DomainGetsOn == Memory!DomainGetsOn

\* HostMemory.read and shortfall: a worker's look follows admission and leaves it alone.
GateFollowsAdmission == Gate!GateFollowsAdmission
=============================================================================
