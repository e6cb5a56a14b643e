----------------------------- MODULE MemoryGate -----------------------------
(***************************************************************************)
(* The look a worker takes at its host's memory before it claims, and for  *)
(* its reports (HostMemory, wait_for_memory and HostTelemetry.report in    *)
(* remote-exec/remote_exec/worker.py), next to the admission of holbuild   *)
(* processes that it follows (acquire and create_lease in                  *)
(* sml/machine_memory.sml, whose scan takes one step here; MachineMemory   *)
(* has its steps).  Both probe lease files by locking them, under DIR/lock.*)
(* Amounts are in units of the least reserve, 1 GiB; what /proc/meminfo    *)
(* says does not change while a look waits for the lock.                   *)
(***************************************************************************)
EXTENDS Integers, FiniteSets, FiniteSetsExt

CONSTANTS
    Threads,        \* threads of holbuild processes that start children
    Looks,          \* threads of workers that look: a main thread, a heartbeat thread
    Leases,         \* names of lease files
    ChildCharge,    \* what the threads' children are charged
    LookCharge,     \* child_charge of the worker
    Budgets,        \* what DIR/budget may say
    Totals, Availables,     \* what /proc/meminfo may say
    None

\* What the constants have to be.
Parameters ==
    /\ {ChildCharge, LookCharge} \subseteq Nat \ {0}
    /\ Budgets \cup Totals \cup Availables \subseteq Nat \cup {None}
    /\ None \notin Nat /\ Threads \cap Looks = {} /\ IsFiniteSet(Leases)
    /\ None # "child" /\ {None, "child"} \cap (Threads \cup Looks) = {}

VARIABLES
    total, available,       \* MemTotal and MemAvailable, None when missing
    budget,         \* DIR/budget, None when there is no file
    dirLock,        \* who holds DIR/lock
    files,          \* the lease files
    holder,         \* who holds a lease's flock: "child", a thread that looks, or None
    young,          \* leases less than startup_seconds old
    pc,             \* where a thread is
    mine,           \* the lease a holbuild thread has created
    left,           \* the leases a look has still to probe
    reserved, starting,     \* what it has added up
    steady,         \* history: whether no child ended or settled since it has the lock
    answer,         \* what its last look told: "start", "wait", or None
    failed          \* whether an admission could not lock its new lease

host == <<total, available, budget>>
look == <<left, reserved, starting, steady, answer>>
vars == <<host, dirLock, files, holder, young, pc, mine, look, failed>>

Init ==
    /\ total \in Totals /\ available \in Availables /\ budget \in Budgets
    /\ dirLock = None /\ files = {} /\ young = {} /\ failed = FALSE
    /\ holder = [l \in Leases |-> None]
    /\ pc = [t \in Threads \cup Looks |-> "idle"] /\ mine = [t \in Threads |-> None]
    /\ left = [g \in Looks |-> {}] /\ steady = [g \in Looks |-> FALSE]
    /\ reserved = [g \in Looks |-> 0] /\ starting = [g \in Looks |-> 0]
    /\ answer = [g \in Looks |-> None]

Goto(t, to) == pc' = [pc EXCEPT ![t] = to]
Held == {l \in files : holder[l] = "child"}
Charges(S) == ChildCharge * Cardinality(S)

\* reserve, the same in both.
HostReserve(t) == Max({1, Min({t \div 4, 30})})

-----------------------------------------------------------------------------
(* Admission, in holbuild. *)

\* current_budget, or None where it raises.
CurrentBudget ==
    CASE budget # None -> budget
      [] budget = None /\ total # None /\ total > HostReserve(total) -> total - HostReserve(total)
      [] OTHER -> None

\* live_shortfall
LiveShortfall(limit, charge, fresh) ==
    /\ total # None /\ available # None
    /\ available - fresh < charge + Min({HostReserve(total), Max({1, total - limit})})

\* acquire's try: a child is started, has to wait, or fails.
Attempt(charge, held, fresh) ==
    CASE CurrentBudget = None -> "fail"
      [] CurrentBudget # None /\ charge > CurrentBudget -> "fail"
      [] CurrentBudget # None /\ charge <= CurrentBudget /\ held + charge > CurrentBudget -> "wait"
      [] OTHER -> IF held > 0 /\ LiveShortfall(CurrentBudget, charge, fresh)
                  THEN "wait" ELSE "start"

\* with_coordinator
Lock(t) ==
    /\ t \in Threads /\ pc[t] = "idle" /\ dirLock = None
    /\ dirLock' = t /\ Goto(t, "locked")
    /\ UNCHANGED <<host, files, holder, young, mine, look, failed>>

\* The scan removes leases nobody holds; then a lease is created, not locked yet.
CreateLease(t, l) ==
    /\ pc[t] = "locked" /\ t \in Threads
    /\ Attempt(ChildCharge, Charges(Held), Charges(Held \cap young)) = "start"
    /\ l \notin Held
    /\ files' = Held \cup {l} /\ young' = (young \cap Held) \cup {l}
    /\ mine' = [mine EXCEPT ![t] = l] /\ Goto(t, "created")
    /\ UNCHANGED <<host, dirLock, holder, look, failed>>

\* try_lock of the new lease; the child inherits it.  Or the admission fails.
LockLease(t) ==
    /\ pc[t] = "created"
    /\ IF holder[mine[t]] = None
       THEN holder' = [holder EXCEPT ![mine[t]] = "child"] /\ UNCHANGED <<files, failed>>
       ELSE files' = files \ {mine[t]} /\ failed' = TRUE /\ UNCHANGED holder
    /\ dirLock' = None /\ Goto(t, "idle") /\ mine' = [mine EXCEPT ![t] = None]
    /\ UNCHANGED <<host, young, look>>

\* Nothing is admitted.
LeaveDir(t) ==
    /\ pc[t] = "locked" /\ t \in Threads
    /\ Attempt(ChildCharge, Charges(Held), Charges(Held \cap young)) # "start"
    /\ files' = Held /\ young' = young \cap Held
    /\ dirLock' = None /\ Goto(t, "idle")
    /\ UNCHANGED <<host, holder, mine, look, failed>>

\* The last process of a child's group exits.
ChildEnds(l) ==
    /\ l \in Held
    /\ holder' = [holder EXCEPT ![l] = None] /\ steady' = [g \in Looks |-> FALSE]
    /\ UNCHANGED <<host, dirLock, files, young, pc, mine, left, reserved, starting, answer, failed>>

Settle(l) ==
    /\ l \in young
    /\ young' = young \ {l} /\ steady' = [g \in Looks |-> FALSE]
    /\ UNCHANGED <<host, dirLock, files, holder, pc, mine, left, reserved, starting, answer, failed>>

-----------------------------------------------------------------------------
(* HostMemory, in a worker. *)

\* Mutant: the leases are probed without DIR/lock.
OpenUnlocked(g) ==
    /\ pc[g] = "idle"
    /\ Goto(g, "probing") /\ left' = [left EXCEPT ![g] = files]
    /\ steady' = [steady EXCEPT ![g] = TRUE]
    /\ UNCHANGED <<host, dirLock, files, holder, young, mine, reserved, starting, answer, failed>>

\* read: DIR/lock, which a main thread waits for and a report does without.
Open(g) ==
    /\ pc[g] = "idle" /\ dirLock = None
    /\ dirLock' = g
    /\ Goto(g, "probing") /\ left' = [left EXCEPT ![g] = files]
    /\ steady' = [steady EXCEPT ![g] = TRUE]
    /\ UNCHANGED <<host, files, holder, young, mine, reserved, starting, answer, failed>>

\* BlockingIOError: an admission has the lock, and there is no report now.
NoReport(g) ==
    /\ pc[g] = "idle" /\ dirLock # None /\ answer[g] # None
    /\ answer' = [answer EXCEPT ![g] = None]
    /\ UNCHANGED <<host, dirLock, files, holder, young, pc, mine, left, reserved, starting, steady,
                   failed>>

\* A lease that is held counts.
Count(g, l) ==
    /\ pc[g] = "probing" /\ l \in left[g] \cap files /\ holder[l] # None
    /\ reserved' = [reserved EXCEPT ![g] = @ + ChildCharge]
    /\ starting' = [starting EXCEPT ![g] = @ + (IF l \in young THEN ChildCharge ELSE 0)]
    /\ left' = [left EXCEPT ![g] = @ \ {l}]
    /\ UNCHANGED <<host, dirLock, files, holder, young, pc, mine, steady, answer, failed>>

\* One that nobody holds is locked by the probe until it is closed.
ProbeFree(g, l) ==
    /\ pc[g] = "probing" /\ l \in left[g] \cap files /\ holder[l] = None
    /\ holder' = [holder EXCEPT ![l] = g] /\ left' = [left EXCEPT ![g] = @ \ {l}]
    /\ Goto(g, "closing")
    /\ UNCHANGED <<host, dirLock, files, young, mine, reserved, starting, steady, answer, failed>>

CloseProbe(g) ==
    /\ pc[g] = "closing"
    /\ holder' = [l \in Leases |-> IF holder[l] = g THEN None ELSE holder[l]]
    /\ Goto(g, "probing")
    /\ UNCHANGED <<host, dirLock, files, young, mine, look, failed>>

\* shortfall, for what was read.
Shortfall(g) ==
    LET limit == CASE budget # None -> budget
                   [] budget = None /\ total # None -> total - HostReserve(total)
                   [] OTHER -> None
        charge == LookCharge
    IN  /\ reserved[g] # 0 /\ limit # None
        /\ \/ reserved[g] + charge > limit
           \/ /\ total # None /\ available # None
              /\ available - starting[g] < charge + Min({HostReserve(total), Max({1, total - limit})})

\* The lock is closed, and the main thread claims or looks again; or a report is sent.
Answer(g) ==
    /\ pc[g] = "probing" /\ left[g] \cap files = {}
    /\ answer' = [answer EXCEPT ![g] = IF Shortfall(g) THEN "wait" ELSE "start"]
    /\ dirLock' = IF dirLock = g THEN None ELSE dirLock
    /\ Goto(g, "idle") /\ left' = [left EXCEPT ![g] = {}]
    /\ reserved' = [reserved EXCEPT ![g] = 0] /\ starting' = [starting EXCEPT ![g] = 0]
    /\ steady' = [steady EXCEPT ![g] = FALSE]
    /\ UNCHANGED <<host, files, holder, young, mine, failed>>

Next ==
    \/ \E t \in Threads : Lock(t) \/ LockLease(t) \/ LeaveDir(t) \/ \E l \in Leases : CreateLease(t, l)
    \/ \E l \in Leases : ChildEnds(l) \/ Settle(l)
    \/ \E g \in Looks : \/ Open(g) \/ NoReport(g) \/ CloseProbe(g) \/ Answer(g)
                        \/ \E l \in Leases : Count(g, l) \/ ProbeFree(g, l)

Spec == Init /\ [][Next]_vars

-----------------------------------------------------------------------------

\* A worker's look follows holbuild's admission and leaves it alone: it tells to wait or
\* to start exactly when admission of such a child would wait or start with the leases
\* that are held, unless one ended while it looked; and no admission fails to lock the
\* lease it has just created because a look was probing it.
GateFollowsAdmission ==
    /\ [][\A g \in Looks : pc[g] = "probing" /\ pc'[g] = "idle" /\ steady[g]
             => answer'[g] = Attempt(LookCharge, Charges(Held), Charges(Held \cap young))
                \/ Attempt(LookCharge, Charges(Held), Charges(Held \cap young)) = "fail"]_vars
    /\ [](~failed)
=============================================================================
