----------------------------- MODULE MCServices ---------------------------
(***************************************************************************)
(* The services of the coordinator that promise progress, side by side:    *)
(* release tasks, change stream, claim order and scaling.  They share no   *)
(* variable, so what holds of one of them among the others holds of it     *)
(* alone: in a behaviour one part moves and the others stay where they     *)
(* start.                                                                  *)
(***************************************************************************)
EXTENDS Integers, Sequences, TLC

CONSTANTS
    Parts,                                      \* the parts that are checked
    ReleaseBatches, Every, MaxRequests,                \* ReleaseTasks
    Keys, States, MaxXid,                       \* EventStream
    b1, b2, warm, burst, MaxReady, NoJob,        \* ClaimOrder
    Replicas, Scaler, MaxOpen, WarmWorkers, MaxBurst, RunSlots, Hold, MaxRestarts,
    LateEffect, Unknown                         \* Scaling

VARIABLES
    part,
    pending, task, todo, passing, owed, made,
    rows, batch, next, open, writes, ender, since, seen, stream,
    ready, job, claimed,
    queue, age, read, scaledTo, command, restarts, actual

Tasks == INSTANCE ReleaseTasks WITH Batches <- ReleaseBatches
Stream == INSTANCE EventStream
Order == INSTANCE ClaimOrder WITH
    Created <- <<b1, b2>>,
    TiersOf <- (warm :> <<"standard">>) @@ (burst :> <<"high", "standard">>),
    Kinds <- {<<"build", "standard">>, <<"build", "high">>, <<"run", "high">>},
    Idle <- NoJob
Scale == INSTANCE Scaling

ASSUME ParametersAssumption ==
    Tasks!Parameters /\ Stream!Parameters /\ Order!Parameters /\ Scale!Parameters

tasks == <<pending, task, todo, passing, owed, made>>
changes == <<rows, batch, next, open, writes, ender, since, seen, stream>>
order == <<ready, job, claimed>>
scaling == <<queue, age, read, scaledTo, command, restarts, actual>>
vars == <<part, tasks, changes, order, scaling>>

\* A part that does not move starts in one state.
Init ==
    /\ part \in Parts
    /\ Tasks!Init /\ Stream!Init /\ Order!Init /\ Scale!Init
    /\ part # "stream" => \A k \in Keys : rows[k].state = "waiting"

Next ==
    /\ UNCHANGED part
    /\ \/ /\ part = "tasks" /\ Tasks!Next
          /\ UNCHANGED <<changes, order, scaling>>
       \/ /\ part = "stream" /\ Stream!Next
          /\ UNCHANGED <<tasks, order, scaling>>
       \/ /\ part = "order" /\ Order!Next
          /\ UNCHANGED <<tasks, changes, scaling>>
       \/ /\ part = "scaling" /\ Scale!Next
          /\ UNCHANGED <<tasks, changes, order>>

\* Each part's own fairness, for the part that moves.
Spec ==
    /\ Init /\ [][Next]_vars
    /\ \A k \in Tasks!Kinds : WF_tasks(part = "tasks" /\ Tasks!Work(k))
    /\ WF_changes(part = "stream" /\ Stream!Poll)
    /\ \A w \in {warm, burst} : /\ WF_order(part = "order" /\ Order!Claim(w))
                               /\ WF_order(part = "order" /\ Order!Complete(w))
    /\ WF_scaling(part = "scaling" /\ Scale!Tick)
    /\ \A r \in Replicas : WF_scaling(part = "scaling" /\ Scale!Sweep(r))
    /\ WF_scaling(part = "scaling" /\ (Scale!ScaleOk \/ Scale!ScaleFails))
    /\ SF_scaling(part = "scaling" /\ Scale!ScaleOk)

-----------------------------------------------------------------------------

\* _run_releases: a request is served by a pass that starts after it.
EveryRequestIsServed == Tasks!EveryRequestIsServed

\* The events route: all the changes are told before the batch's line, which comes in
\* the end.
ToldEverything == Stream!ToldEverything

\* CLAIM: no batch is passed over for ever.
NoBatchStarves == Order!NoBatchStarves

\* sweep and _scale: the external scaler is told the demand in the end.
ScalerIsToldDemand == part = "scaling" => Scale!ScalerIsToldDemand
=============================================================================
