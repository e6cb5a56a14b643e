------------------------------ MODULE Scaling ------------------------------
(***************************************************************************)
(* The burst worker target (burst_demand, HELD_TARGET, sweep and _scale in *)
(* remote-exec/remote_exec/coordinator.py): every replica's sweep records  *)
(* the demand it read, the target is the highest demand of the last        *)
(* SCALE_DOWN_HOLD_S, and the replica that has the scale command runs it   *)
(* when the target differs from what the command last accepted.  A sample  *)
(* is kept as its age in ticks; the youngest sample of a demand stands for *)
(* the older ones.                                                         *)
(***************************************************************************)
EXTENDS Integers, FiniteSets, FiniteSetsExt

CONSTANTS
    Replicas,       \* coordinator processes
    Scaler,         \* the replica that has REMOTE_EXEC_SCALE_CMD
    MaxOpen,        \* bound: ready or running actions of a kind
    WarmWorkers, MaxBurst, RunSlots,
    Hold,           \* SCALE_DOWN_HOLD_S in ticks
    MaxRestarts,    \* bound: restarts of the scaler's process
    LateEffect,     \* whether a command stopped at its timeout may have had its effect
    Unknown

\* What the constants have to be.
Parameters ==
    /\ Scaler \in Replicas
    /\ {MaxOpen, WarmWorkers, MaxBurst, RunSlots, Hold, MaxRestarts} \subseteq Nat
    /\ LateEffect \in BOOLEAN

Kinds == {"build", "run"} \X {"standard", "high"}
Demands == 0..MaxBurst

VARIABLES
    queue,          \* the ready and running actions of each kind
    age,            \* age[d]: age of the youngest sample d in burst_demand; Hold + 1: none
    read,           \* the demand a replica's sweep has read and not recorded
    scaledTo,       \* scaled_to of the scaler's process
    command,        \* the count the scale command runs with, or Unknown
    restarts,       \* how often the scaler's process was restarted
    actual          \* the burst workers the external scaler was last told of

vars == <<queue, age, read, scaledTo, command, restarts, actual>>

\* The shape of the state; no count is above MAX_BURST_WORKERS.
TypeOK ==
    /\ queue \in [Kinds -> 0..MaxOpen]
    /\ age \in [Demands -> 0..(Hold + 1)]
    /\ read \in [Replicas -> Demands \cup {Unknown}]
    /\ {scaledTo, command} \subseteq Demands \cup {Unknown} /\ actual \in Demands
    /\ restarts \in 0..MaxRestarts

Init ==
    /\ queue = [k \in Kinds |-> 0]
    /\ age = [d \in Demands |-> Hold + 1]
    /\ read = [r \in Replicas |-> Unknown]
    /\ scaledTo = Unknown /\ command = Unknown /\ restarts = 0 /\ actual = 0

Lesser(a, b) == IF a < b THEN a ELSE b

\* burst_demand of the queue's counts.
BurstDemand ==
    LET ready == queue[<<"build", "standard">>] + queue[<<"build", "high">>]
                    + queue[<<"run", "standard">>] + queue[<<"run", "high">>]
        runs == queue[<<"run", "standard">>] + queue[<<"run", "high">>]
        highRuns == queue[<<"run", "high">>]
        active == ready - runs + Lesser(RunSlots, runs)
        high == queue[<<"build", "high">>] + highRuns - highRuns + Lesser(RunSlots, highRuns)
    IN  Lesser(MaxBurst, Max({0, active - WarmWorkers, high}))

\* HELD_TARGET: the highest demand recorded in the hold.
HeldTarget(ages) == Max({d \in Demands : ages[d] <= Hold} \cup {0})

QueueChanges(k, n) ==
    /\ queue[k] # n
    /\ queue' = [queue EXCEPT ![k] = n]
    /\ UNCHANGED <<age, read, scaledTo, command, restarts, actual>>

Tick ==
    /\ age' = [d \in Demands |-> Lesser(age[d] + 1, Hold + 1)]
    /\ UNCHANGED <<queue, read, scaledTo, command, restarts, actual>>

\* sweep reads the queue; a replica does one sweep at a time.
ReadQueue(r) ==
    /\ read[r] = Unknown /\ (r = Scaler => command = Unknown)
    /\ read' = [read EXCEPT ![r] = BurstDemand]
    /\ UNCHANGED <<queue, age, scaledTo, command, restarts, actual>>

\* Its transaction deletes the samples past the hold, records the demand and
\* computes the target; the scaler then starts the command if the target changed.
Record(r) ==
    /\ read[r] # Unknown
    /\ read' = [read EXCEPT ![r] = Unknown]
    /\ age' = [age EXCEPT ![read[r]] = 0]
    /\ LET desired == HeldTarget(age')
       IN  command' = IF r = Scaler /\ desired # scaledTo THEN desired ELSE command
    /\ UNCHANGED <<queue, scaledTo, restarts, actual>>

\* Mutant: what the command accepted is not remembered as the process's own.
ScaleForgets ==
    /\ command # Unknown
    /\ actual' = command /\ command' = Unknown
    /\ scaledTo' = IF scaledTo = Unknown THEN command ELSE scaledTo
    /\ UNCHANGED <<queue, age, read, restarts>>

ScaleOk ==
    /\ command # Unknown
    /\ actual' = command /\ scaledTo' = command /\ command' = Unknown
    /\ UNCHANGED <<queue, age, read, restarts>>

\* The command fails, or is killed at SCALE_CMD_TIMEOUT_S; this is logged.
ScaleFails ==
    /\ command # Unknown
    /\ command' = Unknown
    /\ actual' \in {actual} \cup (IF LateEffect THEN {command} ELSE {})
    /\ UNCHANGED <<queue, age, read, scaledTo, restarts>>

\* The scaler's process is restarted; the samples are in the database.
Restart ==
    /\ restarts < MaxRestarts /\ restarts' = restarts + 1
    /\ scaledTo' = Unknown /\ command' = Unknown
    /\ read' = [read EXCEPT ![Scaler] = Unknown]
    /\ UNCHANGED <<queue, age, actual>>

Sweep(r) == ReadQueue(r) \/ Record(r)

Next ==
    \/ \E k \in Kinds, n \in 0..MaxOpen : QueueChanges(k, n)
    \/ Tick
    \/ \E r \in Replicas : Sweep(r)
    \/ ScaleOk \/ ScaleFails \/ Restart

\* Time passes and every replica sweeps; the command, tried again and again,
\* succeeds some time.
Fairness ==
    /\ WF_vars(Tick) /\ \A r \in Replicas : WF_vars(Sweep(r))
    /\ WF_vars(ScaleOk \/ ScaleFails) /\ SF_vars(ScaleOk)

Spec == Init /\ [][Next]_vars /\ Fairness

-----------------------------------------------------------------------------

\* Once the queue stays as it is, the external scaler ends up told what it demands:
\* the sweep that sees a failed command runs it again (remote-exec/README.md: "a
\* command that fails or runs over 60 seconds is logged and run again on the next
\* sweep").
ScalerIsToldDemand ==
    \A d \in Demands : <>[](BurstDemand = d) => <>[](actual = d)
=============================================================================
