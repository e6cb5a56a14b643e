---------------------------- MODULE MachineMemory ---------------------------
(***************************************************************************)
(* Machine-wide memory admission (sml/machine_memory.sml): threads of      *)
(* independent holbuild processes that share a directory start a HOL child *)
(* only while the reservations of all running children and the new one fit *)
(* the budget and memory is free for it.  A reservation is a lease file    *)
(* that counts while some descriptor holds its flock; the child inherits   *)
(* the descriptor.  DIR/lock serialises scans and new leases.  A process   *)
(* may be killed at any step.                                              *)
(***************************************************************************)
EXTENDS Integers, FiniteSets, FiniteSetsExt

CONSTANTS
    Procs,          \* threads that start children
    Leases,         \* names of lease files
    Charge,         \* --child-charge of each
    MaxMem,         \* --machine-max-mem of each, or None
    Budgets,        \* budgets the operator may set
    Total, Reserve, \* MemTotal and the reserve the default budget leaves out of it
    LeastMargin,    \* the least margin kept free
    Other,          \* what other work uses
    Live,           \* whether MemAvailable can be read
    Interrupts,     \* whether processes are killed, builds stopped and launches fail
    None

\* What the constants have to be.
Parameters ==
    /\ Charge \in [Procs -> Nat \ {0}] /\ MaxMem \in [Procs -> Nat \cup {None}]
    /\ Budgets \subseteq Nat /\ {Total, Reserve, LeastMargin, Other} \subseteq Nat
    /\ Reserve < Total
    /\ {Live, Interrupts} \subseteq BOOLEAN
    /\ None \notin Procs \cup Nat

VARIABLES
    dirLock,        \* who holds DIR/lock
    budget,         \* DIR/budget, or None
    files,          \* the lease files there are
    bytes,          \* the charge a lease was made with
    flocked,        \* leases whose flock some descriptor holds
    parentFd,       \* whose descriptor of a lease is open
    child,          \* the child started on a lease: "none", "starting", "grown"
    young,          \* leases made less than startup_seconds ago
    pc, checked,    \* where a thread is; whether its first admission is over
    limit, scan,    \* the budget it read, the leases it has still to look at
    sum, fresh,     \* the charges reserved and starting, as far as it has looked
    mine,           \* its lease
    stopped         \* whether its build was stopped since acquire began

leaseVars == <<files, bytes, flocked, parentFd, child, young>>
scanVars == <<limit, scan, sum, fresh>>
vars == <<dirLock, budget, leaseVars, pc, checked, scanVars, mine, stopped>>

Pcs == {"idle", "lock", "budget", "scan", "wait", "admitted", "launch", "runs"}

\* The shape of the state; whoever scans has the lock.
TypeOK ==
    /\ dirLock \in Procs \cup {None} /\ budget \in Nat \cup {None}
    /\ files \subseteq Leases /\ flocked \subseteq Leases /\ young \subseteq Leases
    /\ bytes \in [Leases -> Nat] /\ parentFd \in [Leases -> Procs \cup {None}]
    /\ child \in [Leases -> {"none", "starting", "grown"}]
    /\ pc \in [Procs -> Pcs] /\ checked \subseteq Procs /\ stopped \subseteq Procs
    /\ mine \in [Procs -> Leases \cup {None}]
    /\ \A p \in Procs : pc[p] \in {"budget", "scan"} => dirLock = p

Init ==
    /\ dirLock = None /\ budget \in Budgets \cup {None}
    /\ files = {} /\ flocked = {} /\ young = {}
    /\ bytes = [l \in Leases |-> 0]
    /\ parentFd = [l \in Leases |-> None] /\ child = [l \in Leases |-> "none"]
    /\ pc = [p \in Procs |-> "idle"] /\ checked = {} /\ stopped = {}
    /\ limit = [p \in Procs |-> 0] /\ scan = [p \in Procs |-> {}]
    /\ sum = [p \in Procs |-> 0] /\ fresh = [p \in Procs |-> 0]
    /\ mine = [p \in Procs |-> None]

\* What a scan found is not used after it.
ForgetScan(p) ==
    /\ limit' = [limit EXCEPT ![p] = 0] /\ scan' = [scan EXCEPT ![p] = {}]
    /\ sum' = [sum EXCEPT ![p] = 0] /\ fresh' = [fresh EXCEPT ![p] = 0]

\* default_budget.
Default == Total - Reserve

Goto(p, to) == pc' = [pc EXCEPT ![p] = to]
Children == {l \in Leases : child[l] # "none"}
Bytes(S) == MapThenSumSet(LAMBDA l : bytes[l], S)
MemAvailable == Total - Other - Bytes({l \in Leases : child[l] = "grown"})

\* The parent's descriptor is closed; a flock goes with the last descriptor.
CloseParent(p) ==
    /\ parentFd' = [l \in Leases |-> IF parentFd[l] = p THEN None ELSE parentFd[l]]
    /\ flocked' = {l \in flocked : parentFd[l] \notin {p, None} \/ l \in Children}
    /\ mine' = [mine EXCEPT ![p] = None]

-----------------------------------------------------------------------------
(* acquire *)

Acquire(p) ==
    /\ pc[p] = "idle"
    /\ Goto(p, "lock") /\ stopped' = stopped \ {p}
    /\ UNCHANGED <<dirLock, budget, leaseVars, checked, scanVars, mine>>

\* with_coordinator: the lock is polled for,
LockDir(p) ==
    /\ pc[p] = "lock" /\ dirLock = None
    /\ dirLock' = p /\ Goto(p, "budget")
    /\ UNCHANGED <<budget, leaseVars, checked, scanVars, mine, stopped>>

\* until the build stops or the lock timeout passes.
GiveUpLock(p) ==
    /\ pc[p] = "lock" /\ dirLock \notin {p, None}
    /\ Goto(p, "idle")
    /\ UNCHANGED <<dirLock, budget, leaseVars, checked, scanVars, mine, stopped>>

\* current_budget: --machine-max-mem makes the file, and must agree with it at the
\* first admission; without either, the default.
ReadBudget(p) ==
    /\ pc[p] = "budget"
    /\ LET asked == IF p \in checked THEN None ELSE MaxMem[p]
           now == IF budget # None THEN budget ELSE IF asked # None THEN asked ELSE Default
           conflict == asked # None /\ now # asked
       IN  /\ budget' = IF budget = None /\ asked # None THEN asked ELSE budget
           /\ checked' = IF conflict THEN checked ELSE checked \cup {p}
           /\ IF conflict \/ Charge[p] > now
              THEN Goto(p, "idle") /\ dirLock' = None /\ UNCHANGED scanVars
              ELSE /\ limit' = [limit EXCEPT ![p] = now] /\ scan' = [scan EXCEPT ![p] = files]
                   /\ Goto(p, "scan") /\ UNCHANGED <<dirLock, sum, fresh>>
    /\ UNCHANGED <<leaseVars, mine, stopped>>

\* lease_charge: a lease that can be locked has no holder and is removed.
ScanLease(p, l) ==
    /\ pc[p] = "scan" /\ l \in scan[p]
    /\ scan' = [scan EXCEPT ![p] = @ \ {l}]
    /\ IF l \in flocked
       THEN /\ sum' = [sum EXCEPT ![p] = @ + bytes[l]]
            /\ fresh' = [fresh EXCEPT ![p] = @ + (IF l \in young THEN bytes[l] ELSE 0)]
            /\ UNCHANGED <<files, young>>
       ELSE files' = files \ {l} /\ young' = young \ {l} /\ UNCHANGED <<sum, fresh>>
    /\ UNCHANGED <<dirLock, budget, bytes, flocked, parentFd, child, pc, checked, limit,
                   mine, stopped>>

Margin(b) == Min({Reserve, Max({LeastMargin, Total - b})})

\* Mutant: children that have not allocated yet do not count.
ShortfallNow(p) == Live /\ MemAvailable < Charge[p] + Margin(limit[p])

\* live_shortfall.
Shortfall(p) == Live /\ MemAvailable - fresh[p] < Charge[p] + Margin(limit[p])

\* Mutant: the free memory counts for the first child too.
FitsFree(p) == sum[p] + Charge[p] <= limit[p] /\ ~Shortfall(p)

\* A child that fits the budget is admitted if it is the only one or memory is free.
Fits(p) == sum[p] + Charge[p] <= limit[p] /\ (sum[p] = 0 \/ ~Shortfall(p))

\* create_lease, with its descriptor locked, and DIR/lock is freed.
Admit(p, l) ==
    /\ pc[p] = "scan" /\ scan[p] = {} /\ Fits(p)
    /\ l \notin files \cup flocked
    /\ files' = files \cup {l} /\ bytes' = [bytes EXCEPT ![l] = Charge[p]]
    /\ flocked' = flocked \cup {l} /\ parentFd' = [parentFd EXCEPT ![l] = p]
    /\ young' = young \cup {l}
    /\ mine' = [mine EXCEPT ![p] = l]
    /\ dirLock' = None /\ Goto(p, "admitted") /\ ForgetScan(p)
    /\ UNCHANGED <<budget, child, checked, stopped>>

Refuse(p) ==
    /\ pc[p] = "scan" /\ scan[p] = {} /\ ~Fits(p)
    /\ dirLock' = None /\ Goto(p, "wait") /\ ForgetScan(p)
    /\ UNCHANGED <<budget, leaseVars, checked, mine, stopped>>

\* After the delay; the build may have been stopped meanwhile.
Retry(p) ==
    /\ pc[p] = "wait"
    /\ Goto(p, IF p \in stopped THEN "idle" ELSE "lock")
    /\ UNCHANGED <<dirLock, budget, leaseVars, checked, scanVars, mine, stopped>>

\* An admission of a stopped build is given back.
CheckNotStopped(p) ==
    /\ pc[p] = "admitted"
    /\ IF p \in stopped THEN Goto(p, "idle") /\ CloseParent(p)
       ELSE Goto(p, "launch") /\ UNCHANGED <<parentFd, flocked, mine>>
    /\ UNCHANGED <<dirLock, budget, files, bytes, child, young, checked, scanVars, stopped>>

-----------------------------------------------------------------------------
(* with_reservation *)

\* The child inherits the lease's descriptor.
Launch(p) ==
    /\ pc[p] = "launch"
    /\ child' = [child EXCEPT ![mine[p]] = "starting"]
    /\ Goto(p, "runs")
    /\ UNCHANGED <<dirLock, budget, files, bytes, flocked, parentFd, young, checked, scanVars,
                   mine, stopped>>

\* Mutant: the parent unlocks the lease as it closes it.
ReleaseUnlocking(p) ==
    /\ \/ pc[p] = "runs"
       \/ Interrupts /\ pc[p] = "launch"
    /\ parentFd' = [parentFd EXCEPT ![mine[p]] = None]
    /\ flocked' = flocked \ {mine[p]}
    /\ mine' = [mine EXCEPT ![p] = None]
    /\ Goto(p, "idle")
    /\ UNCHANGED <<dirLock, budget, files, bytes, child, young, checked, scanVars, stopped>>

\* release, after the child's leader ended (some of its group may not have), or after
\* an error: the parent's copy is closed.
Release(p) ==
    /\ \/ pc[p] = "runs"
       \/ Interrupts /\ pc[p] = "launch"
    /\ CloseParent(p)
    /\ Goto(p, "idle")
    /\ UNCHANGED <<dirLock, budget, files, bytes, child, young, checked, scanVars, stopped>>

-----------------------------------------------------------------------------
(* What happens around them. *)

Grow(l) ==
    /\ child[l] = "starting"
    /\ child' = [child EXCEPT ![l] = "grown"]
    /\ UNCHANGED <<dirLock, budget, files, bytes, flocked, parentFd, young, pc, checked, scanVars,
                   mine, stopped>>

\* startup_seconds pass; a child has allocated by then.
Settle(l) ==
    /\ l \in young /\ child[l] # "starting"
    /\ \A p \in Procs : mine[p] = l => pc[p] = "runs"
    /\ young' = young \ {l}
    /\ UNCHANGED <<dirLock, budget, files, bytes, flocked, parentFd, child, pc, checked, scanVars,
                   mine, stopped>>

\* The last process of a child's group exits.
ChildEnds(l) ==
    /\ child[l] # "none"
    /\ child' = [child EXCEPT ![l] = "none"]
    /\ flocked' = IF parentFd[l] = None THEN flocked \ {l} ELSE flocked
    /\ UNCHANGED <<dirLock, budget, files, bytes, parentFd, young, pc, checked, scanVars, mine, stopped>>

\* cleanup_active_children in the thread's process.
Stop(p) ==
    /\ Interrupts /\ pc[p] \notin {"idle", "runs"} /\ p \notin stopped
    /\ stopped' = stopped \cup {p}
    /\ UNCHANGED <<dirLock, budget, leaseVars, pc, checked, scanVars, mine>>

\* The process is killed: the kernel closes what it had open.
Kill(p) ==
    /\ Interrupts /\ pc[p] # "idle"
    /\ CloseParent(p)
    /\ dirLock' = IF dirLock = p THEN None ELSE dirLock
    /\ checked' = checked \ {p} /\ stopped' = stopped \ {p}
    /\ Goto(p, "idle") /\ ForgetScan(p)
    /\ UNCHANGED <<budget, files, bytes, child, young>>

\* The operator replaces DIR/budget while holding DIR/lock.
Resize(b) ==
    /\ dirLock = None /\ budget # b
    /\ budget' = b
    /\ UNCHANGED <<dirLock, leaseVars, pc, checked, scanVars, mine, stopped>>

Working(p) ==
    \/ ReadBudget(p) \/ (\E l \in Leases : ScanLease(p, l)) \/ (\E l \in Leases : Admit(p, l))
    \/ Refuse(p) \/ Retry(p) \/ CheckNotStopped(p) \/ Launch(p) \/ Release(p)

Next ==
    \/ \E p \in Procs : Acquire(p) \/ LockDir(p) \/ GiveUpLock(p) \/ Working(p) \/ Stop(p) \/ Kill(p)
    \/ \E l \in Leases : Grow(l) \/ Settle(l) \/ ChildEnds(l)
    \/ \E b \in Budgets : Resize(b)

\* Threads go on, children end, and a lock polled for is had in the end.
Fairness ==
    /\ \A p \in Procs : WF_vars(Working(p)) /\ SF_vars(LockDir(p))
    /\ \A l \in Leases : WF_vars(ChildEnds(l))

Spec == Init /\ [][Next]_vars /\ Fairness

-----------------------------------------------------------------------------

\* A new reservation fits the budget in force with all that are held and every child
\* that has not wholly ended, also when its parent closed the lease or was killed ("the
\* kernel drops the reservation when the last process of the child's group exits, even
\* if the parent was killed"), scans of several processes overlap with children ending
\* and an operator resizes the domain.
AdmissionsFitBudget ==
    [][\A l \in flocked' \ flocked :
          Bytes(flocked \cup Children) + bytes'[l] <= (IF budget # None THEN budget ELSE Default)]_vars

\* With children that allocate within their startup time and stay within their charge,
\* two or more of them never eat into the margin kept free, also under a budget set
\* above what the machine has.
MarginIsKept ==
    Live /\ Cardinality(Children) > 1
        => Total - Other - Bytes(Children) >= Min({Reserve, LeastMargin})

\* A domain never waits on memory it does not use: once no reservation is held, a
\* thread that waits for memory gets it, gives up or sees another child start.
DomainGetsOn ==
    \A p \in Procs : (pc[p] = "wait") ~> (pc[p] \in {"admitted", "launch", "runs", "idle"} \/ Children # {})
=============================================================================
