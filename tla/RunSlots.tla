------------------------------ MODULE RunSlots ------------------------------
(***************************************************************************)
(* Run admission of the coordinator's claims (_claim in                    *)
(* remote-exec/remote_exec/coordinator.py): the transactions of concurrent *)
(* claims, of any replica, statement by statement.  A statement reads what *)
(* was committed when it began; a claim's own row is written when its      *)
(* transaction commits, so the cap on running runs rests on the advisory   *)
(* lock around the count.                                                  *)
(***************************************************************************)
EXTENDS Integers, FiniteSets

CONSTANTS
    Claims,     \* concurrent claim requests
    Builds,     \* actions of class build
    Runs,       \* actions of class run
    Slots,      \* REMOTE_EXEC_RUN_SLOTS
    NoClaim, NoAction

\* What the constants have to be.
Parameters ==
    /\ Slots \in Nat
    /\ IsFiniteSet(Runs) /\ IsFiniteSet(Claims)
    /\ Builds \cap Runs = {} /\ NoClaim \notin Claims /\ NoAction \notin Builds \cup Runs

VARIABLES
    state,      \* the committed state of an action: "ready", "running" or "over"
    rowLock,    \* who holds the lock of an action's row, or NoClaim
    admission,  \* who holds the advisory lock for run admission, or NoClaim
    pc,         \* where a claim's transaction is
    chosen      \* the action a claim's transaction has chosen

vars == <<state, rowLock, admission, pc, chosen>>

Actions == Builds \cup Runs

\* The shape of the state; a claim that writes has chosen a row, others have not.
TypeOK ==
    /\ state \in [Actions -> {"ready", "running", "over"}]
    /\ rowLock \in [Actions -> Claims \cup {NoClaim}]
    /\ admission \in Claims \cup {NoClaim}
    /\ pc \in [Claims -> {"idle", "lock", "count", "write"}]
    /\ chosen \in [Claims -> Actions \cup {NoAction}]
    /\ \A c \in Claims : pc[c] = "write" <=> chosen[c] # NoAction

Init ==
    /\ state = [a \in Actions |-> "ready"]
    /\ rowLock = [a \in Actions |-> NoClaim]
    /\ admission = NoClaim
    /\ pc = [c \in Claims |-> "idle"]
    /\ chosen = [c \in Claims |-> NoAction]

Running(S) == {a \in S : state[a] = "running"}

\* FOR UPDATE ... SKIP LOCKED: the ready rows of S nobody has locked.
Free(S) == {a \in S : state[a] = "ready" /\ rowLock[a] = NoClaim}

Choose(c, a) ==
    /\ rowLock' = [rowLock EXCEPT ![a] = c]
    /\ chosen' = [chosen EXCEPT ![c] = a]
    /\ pc' = [pc EXCEPT ![c] = "write"]

\* The transaction ends: its row and advisory locks go with it.
Release(c) ==
    /\ rowLock' = [a \in Actions |-> IF rowLock[a] = c THEN NoClaim ELSE rowLock[a]]
    /\ admission' = IF admission = c THEN NoClaim ELSE admission
    /\ pc' = [pc EXCEPT ![c] = "idle"]
    /\ chosen' = [chosen EXCEPT ![c] = NoAction]

\* The first CLAIM, without runs: takes a build if there is one.
TakeBuild(c, a) ==
    /\ pc[c] = "idle" /\ a \in Free(Builds)
    /\ Choose(c, a)
    /\ UNCHANGED <<state, admission>>

\* No build: go on only if runs are let in at all and one is ready.
NoBuild(c) ==
    /\ pc[c] = "idle" /\ Free(Builds) = {} /\ Slots # 0
    /\ \E a \in Runs : state[a] = "ready"
    /\ pc' = [pc EXCEPT ![c] = "lock"]
    /\ UNCHANGED <<state, rowLock, admission, chosen>>

\* Mutant: the count is taken without waiting for other claims.
LockNothing(c) ==
    /\ pc[c] = "lock"
    /\ pc' = [pc EXCEPT ![c] = "count"]
    /\ UNCHANGED <<state, rowLock, admission, chosen>>

\* pg_advisory_xact_lock: waits for the claim that has it to commit.
LockAdmission(c) ==
    /\ pc[c] = "lock" /\ admission = NoClaim
    /\ admission' = c
    /\ pc' = [pc EXCEPT ![c] = "count"]
    /\ UNCHANGED <<state, rowLock, chosen>>

\* The second CLAIM: one statement counts the running runs and chooses a row;
\* a build made ready meanwhile still goes first.
TakeCounted(c) ==
    /\ pc[c] = "count"
    /\ LET room == Cardinality(Running(Runs)) < Slots
           free == IF Free(Builds) # {} THEN Free(Builds)
                   ELSE IF room THEN Free(Runs) ELSE {}
       IN  IF free = {} THEN Release(c)
           ELSE \E a \in free : Choose(c, a) /\ UNCHANGED admission
    /\ UNCHANGED state

\* The UPDATE, the lease's INSERT and the commit.
Commit(c) ==
    /\ pc[c] = "write"
    /\ state' = [state EXCEPT ![chosen[c]] = "running"]
    /\ Release(c)

\* The connection is lost: the transaction rolls back.
RollBack(c) ==
    /\ pc[c] # "idle"
    /\ Release(c)
    /\ UNCHANGED state

\* A lease ends: the action is over, or ready again some time later.
EndLease(a, next) ==
    /\ state[a] = "running"
    /\ state' = [state EXCEPT ![a] = next]
    /\ UNCHANGED <<rowLock, admission, pc, chosen>>

Claim(c) ==
    \/ \E a \in Builds : TakeBuild(c, a)
    \/ NoBuild(c)
    \/ LockAdmission(c)
    \/ TakeCounted(c)
    \/ Commit(c)

Next ==
    \/ \E c \in Claims : Claim(c) \/ RollBack(c)
    \/ \E a \in Actions : \E next \in {"over", "ready"} : EndLease(a, next)

Spec == Init /\ [][Next]_vars

-----------------------------------------------------------------------------

\* At no time are more than RUN_SLOTS runs running, however many claims of
\* however many replicas come at once (_claim: "Serialize only run admission,
\* across replicas").
RunsWithinSlots == Cardinality(Running(Runs)) <= Slots
=============================================================================
