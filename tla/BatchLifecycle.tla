--------------------------- MODULE BatchLifecycle ---------------------------
(***************************************************************************)
(* What the coordinator promises the client that follows a batch through   *)
(* GET /v1/batches/<id> and its event stream: the life of a batch and of   *)
(* its actions, whatever leases, retries, cache checks and sweeps do below *)
(* (remote-exec/remote_exec/coordinator.py; README, "An action moves       *)
(* through these states").                                                 *)
(***************************************************************************)
CONSTANT Keys

VARIABLES
    batch,      \* the batch's state
    isRun,      \* whether it is a run batch
    phase       \* an action's state, waiting and ready taken as one: "pending"

vars == <<batch, isRun, phase>>

Open == {"pending", "running"}

Init ==
    /\ batch = "absent" /\ isRun = FALSE
    /\ phase = [k \in Keys |-> "absent"]

Submit ==
    /\ batch = "absent"
    /\ batch' = "running"
    /\ isRun' \in BOOLEAN
    /\ phase' = [k \in Keys |-> "pending"]

Start(k) ==
    /\ batch = "running" /\ phase[k] = "pending"
    /\ phase' = [phase EXCEPT ![k] = "running"]
    /\ UNCHANGED <<batch, isRun>>

\* The action is over; the batch with it if it was the last.
Finish(k, end) ==
    /\ batch = "running" /\ phase[k] = "running"
    /\ end = "done" \/ (end = "failed" /\ isRun)
    /\ phase' = [phase EXCEPT ![k] = end]
    /\ batch' = IF \A j \in Keys : phase'[j] \in {"done", "failed"} THEN "done" ELSE "running"
    /\ UNCHANGED isRun

\* A running action goes back to the queue, and with it at most one done theory
\* of the batch, one it misses.
GiveBack(k, again) ==
    /\ batch = "running" /\ phase[k] = "running"
    /\ again \subseteq {j \in Keys : phase[j] = "done"}
    /\ \A i, j \in again : i = j
    /\ phase' = [j \in Keys |-> IF j \in again \cup {k} THEN "pending" ELSE phase[j]]
    /\ UNCHANGED <<batch, isRun>>

\* A done action whose entry the cache lost is built again.
BuildAgain(k) ==
    /\ batch = "running" /\ phase[k] = "done"
    /\ phase' = [phase EXCEPT ![k] = "pending"]
    /\ UNCHANGED <<batch, isRun>>

\* The batch ends early, for the action blamed, if any; every other action that
\* was open is cancelled.
EndEarly(final, blamed) ==
    /\ batch = "running"
    /\ batch' = final
    /\ phase' = [k \in Keys |-> IF k \in blamed THEN "failed"
                                ELSE IF phase[k] \in Open THEN "cancelled" ELSE phase[k]]
    /\ UNCHANGED isRun

Delete ==
    /\ batch \in {"done", "failed", "cancelled"}
    /\ batch' = "deleted"
    /\ phase' = [k \in Keys |-> "absent"]
    /\ UNCHANGED isRun

Next ==
    \/ Submit
    \/ \E k \in Keys : \/ Start(k)
                       \/ \E end \in {"done", "failed"} : Finish(k, end)
                       \/ \E again \in {{}} \cup {{j} : j \in Keys} : GiveBack(k, again)
                       \/ BuildAgain(k)
                       \/ EndEarly("failed", {k})
    \/ EndEarly("failed", {}) \/ EndEarly("cancelled", {})
    \/ Delete

Spec == Init /\ [][Next]_vars
=============================================================================
