----------------------------- MODULE ClaimWake -----------------------------
(***************************************************************************)
(* Long-polling claims in one coordinator process (claim, _wake_claim and  *)
(* _pass_wake in remote-exec/remote_exec/coordinator.py): a claim tries    *)
(* the database, and if it gets nothing sleeps until a release that made   *)
(* an action ready hands it a wake.  The process is one event loop:        *)
(* between two awaits nothing else runs, and the database is asked across  *)
(* an await, so an action can become ready while a claim's attempt is out. *)
(* An attempt may get nothing although actions are ready: their rows are   *)
(* locked (SKIP LOCKED) or they are runs and the slots are taken.          *)
(***************************************************************************)
EXTENDS Integers, Sequences, FiniteSets, SequencesExt

CONSTANTS
    Claims,         \* the claims of workers waiting in this process
    Actions,        \* the actions releases make ready
    MaxReady        \* bound: how often releases make an action ready

\* What the constants have to be.
Parameters ==
    /\ IsFiniteSet(Claims) /\ IsFiniteSet(Actions)
    /\ MaxReady \in Nat

VARIABLES
    ready,          \* the actions committed as ready
    unwoken,        \* made ready, the release's _wake_claim still to come
    madeReady,      \* self.made_ready
    waiters,        \* self.claim_waiters: the sleeping claims, oldest first
    pc,             \* where a claim is
    seen,           \* made_ready as a claim took it before its attempt
    woken,          \* whether a wake was handed to a claim (its future is done)
    spent,          \* how many actions were made ready in all
    forgone         \* history: how many announced actions attempts left behind, that
                    \* looked in vain or lost their wake to an error

vars == <<ready, unwoken, madeReady, waiters, pc, seen, woken, spent, forgone>>

\* "start": about to try; "asked": the attempt is at the database; "empty": it
\* found nothing; "asleep": in wait_for; "awake": woken, or the wait ran out;
\* "gone": it got an action, or left.
Pcs == {"start", "asked", "empty", "asleep", "awake", "gone"}

TypeOK ==
    /\ ready \subseteq Actions /\ unwoken \in 0..MaxReady
    /\ madeReady \in 0..MaxReady /\ spent \in 0..MaxReady
    /\ waiters \in Seq(Claims) /\ IsInjective(waiters)
    /\ pc \in [Claims -> Pcs] /\ seen \in [Claims -> 0..MaxReady]
    /\ woken \in [Claims -> BOOLEAN] /\ forgone \in 0..Cardinality(Actions)

Init ==
    /\ ready = {} /\ unwoken = 0 /\ madeReady = 0 /\ waiters = <<>> /\ spent = 0 /\ forgone = 0
    /\ pc = [c \in Claims |-> "gone"]
    /\ seen = [c \in Claims |-> 0]
    /\ woken = [c \in Claims |-> FALSE]

\* _release_batch commits an action as ready; its wake comes after the await.
MakeReady(a) ==
    /\ spent < MaxReady /\ a \notin ready
    /\ ready' = ready \cup {a} /\ unwoken' = unwoken + 1 /\ spent' = spent + 1
    /\ UNCHANGED <<madeReady, waiters, pc, seen, woken, forgone>>

\* _wake_claim: the longest waiting claim gets the wake.
WakeFirst ==
    IF waiters = <<>> THEN UNCHANGED <<waiters, woken>>
    ELSE /\ waiters' = Tail(waiters)
         /\ woken' = [woken EXCEPT ![Head(waiters)] = TRUE]

Wake ==
    /\ unwoken > 0
    /\ unwoken' = unwoken - 1 /\ madeReady' = madeReady + 1
    /\ WakeFirst
    /\ UNCHANGED <<ready, pc, seen, spent, forgone>>

\* A worker asks for work.
Arrive(c) ==
    /\ pc[c] = "gone"
    /\ pc' = [pc EXCEPT ![c] = "start"]
    /\ woken' = [woken EXCEPT ![c] = FALSE]
    /\ UNCHANGED <<ready, unwoken, madeReady, waiters, seen, spent, forgone>>

\* made_ready is taken before the attempt.
Try(c) ==
    /\ pc[c] = "start"
    /\ seen' = [seen EXCEPT ![c] = madeReady]
    /\ pc' = [pc EXCEPT ![c] = "asked"]
    /\ UNCHANGED <<ready, unwoken, madeReady, waiters, woken, spent, forgone>>

\* No more actions are left behind than are ready.
AtMost(n, actions) == IF n <= Cardinality(actions) THEN n ELSE Cardinality(actions)

\* The attempt's transaction leases an action, not always the one of the wake ...
Lease(c) ==
    /\ pc[c] = "asked"
    /\ \E a \in ready : ready' = ready \ {a}
    /\ pc' = [pc EXCEPT ![c] = "gone"]
    /\ forgone' = AtMost(forgone, ready')
    /\ UNCHANGED <<unwoken, madeReady, waiters, seen, woken, spent>>

\* ... or gets none: none is ready, or none it may take.  Those announced are left
\* behind; the others' wakes are still to come.
Miss(c) ==
    /\ pc[c] = "asked"
    /\ pc' = [pc EXCEPT ![c] = "empty"]
    /\ forgone' = IF forgone + unwoken < Cardinality(ready) THEN Cardinality(ready) - unwoken
                                                           ELSE forgone
    /\ UNCHANGED <<ready, unwoken, madeReady, waiters, seen, woken, spent>>

\* Mutant: the claim sleeps whatever was made ready during its attempt.
SleepAnyway(c) ==
    /\ pc[c] = "empty"
    /\ woken' = [woken EXCEPT ![c] = FALSE]
    /\ waiters' = Append(waiters, c) /\ pc' = [pc EXCEPT ![c] = "asleep"]
    /\ UNCHANGED <<ready, unwoken, madeReady, seen, spent, forgone>>

\* Nothing was ready: sleep, unless something was made ready meanwhile.
Sleep(c) ==
    /\ pc[c] = "empty"
    /\ woken' = [woken EXCEPT ![c] = FALSE]
    /\ IF madeReady = seen[c]
       THEN waiters' = Append(waiters, c) /\ pc' = [pc EXCEPT ![c] = "asleep"]
       ELSE pc' = [pc EXCEPT ![c] = "awake"] /\ UNCHANGED waiters
    /\ UNCHANGED <<ready, unwoken, madeReady, seen, spent, forgone>>

\* The wait's time is up, with no action: the claim answers 204.
Leave(c) ==
    /\ pc[c] = "empty"
    /\ pc' = [pc EXCEPT ![c] = "gone"]
    /\ UNCHANGED <<ready, unwoken, madeReady, waiters, seen, woken, spent, forgone>>

\* The sleep ends by a wake; the recheck every CLAIM_RECHECK_SECONDS is Recheck.
WakeUp(c) ==
    /\ pc[c] = "asleep" /\ woken[c]
    /\ pc' = [pc EXCEPT ![c] = "awake"]
    /\ UNCHANGED <<ready, unwoken, madeReady, waiters, seen, woken, spent, forgone>>

Recheck(c) ==
    /\ pc[c] = "asleep" /\ ~woken[c]
    /\ pc' = [pc EXCEPT ![c] = "awake"]
    /\ waiters' = RemoveFirst(waiters, c)
    /\ UNCHANGED <<ready, unwoken, madeReady, seen, woken, spent, forgone>>

\* The worker is still there: try again.
TryAgain(c) ==
    /\ pc[c] = "awake"
    /\ pc' = [pc EXCEPT ![c] = "start"]
    /\ UNCHANGED <<ready, unwoken, madeReady, waiters, seen, woken, spent, forgone>>

\* The worker has gone, or the request is cancelled in its sleep: the claim
\* hands the wake it got, if any, to the next (_pass_wake).
Disconnect(c) ==
    /\ pc[c] \in {"asleep", "awake"}
    /\ pc' = [pc EXCEPT ![c] = "gone"]
    /\ IF woken[c] THEN WakeFirst
       ELSE /\ waiters' = RemoveFirst(waiters, c)
            /\ UNCHANGED woken
    /\ UNCHANGED <<ready, unwoken, madeReady, seen, spent, forgone>>

\* An attempt that is cut off: whether its transaction got through is open.
CutOff(c) ==
    /\ pc[c] = "asked"
    /\ pc' = [pc EXCEPT ![c] = "gone"]
    /\ ready' \in {ready} \cup {ready \ {a} : a \in ready}
    /\ UNCHANGED <<unwoken, madeReady, seen, spent>>

\* The request is cancelled while its attempt is at the database: the wake goes on.
CancelAttempt(c) ==
    /\ CutOff(c)
    /\ IF woken[c] THEN WakeFirst ELSE UNCHANGED <<waiters, woken>>
    /\ forgone' = AtMost(forgone, ready')

\* The database refuses or fails (no connection free, an error): claim raises, which
\* only a cancellation is caught for, and a wake it had is lost.
AttemptRaises(c) ==
    /\ CutOff(c)
    /\ forgone' = AtMost(IF woken[c] THEN forgone + 1 ELSE forgone, ready')
    /\ UNCHANGED <<waiters, woken>>

Step(c) == Try(c) \/ Lease(c) \/ Miss(c) \/ Sleep(c) \/ WakeUp(c) \/ TryAgain(c)

Next ==
    \/ \E a \in Actions : MakeReady(a)
    \/ Wake
    \/ \E c \in Claims : \/ Step(c) \/ Arrive(c) \/ Leave(c) \/ Recheck(c)
                         \/ Disconnect(c) \/ CancelAttempt(c) \/ AttemptRaises(c)

Spec == Init /\ [][Next]_vars

-----------------------------------------------------------------------------

Asleep == {c \in Claims : pc[c] = "asleep" /\ ~woken[c]}

\* The claims that carry a wake they have not used: they will look, or hand it on.
Carriers == {c \in Claims : woken[c] /\ pc[c] \in {"start", "asked", "asleep", "awake"}}

\* No wake is lost but by an attempt that looked in vain or raised: while a claim sleeps,
\* every ready action has its wake to come, or on its way with a claim, or was left
\* behind so.  Those left behind, and other processes' actions, are what the recheck
\* every CLAIM_RECHECK_SECONDS is for; no order of releases, attempts, sleeps, leavings
\* and cancellations adds to them.
NoLostWake ==
    Asleep # {} => Cardinality(ready) <= unwoken + Cardinality(Carriers) + forgone
=============================================================================
