--------------------------- MODULE MCCoordinator ---------------------------
(* Coordinator on small batches.                                           *)
EXTENDS Coordinator, FiniteSetsExt, TLC

CONSTANTS
    MaxTotalClaims,     \* bound: how often the batch's actions are claimed in all
    MaxOutages          \* bound: how often an action is reported unavailable

\* The behaviours with at most MaxTotalClaims claims.
Bounded == MapThenSumSet(LAMBDA k : claims[k], Keys) <= MaxTotalClaims

\* A batch of build actions just submitted, with any acyclic dependencies.
JustSubmitted ==
    /\ batch = "running" /\ class = "build"
    /\ edges \in {es \in SUBSET (Keys \X Keys) : Acyclic(es)}
    /\ state = [k \in Keys |-> "waiting"]
    /\ remaining = [k \in Keys |-> Cardinality({p \in Keys : <<k, p>> \in edges})]
    /\ tier = NoRows.tier /\ attempts = NoRows.attempts /\ lastDisk = NoRows.lastDisk
    /\ leases = {} /\ claims = [k \in Keys |-> 0]
    /\ pass = [p \in Passes |-> IdlePass]
    /\ trusted = {} /\ cached = {}

\* How many of an action's claims were taken back as unavailable.
Outages(k) == claims[k] - attempts[k]

\* The fair behaviours from there, in which outages end after MaxOutages of an action.
LiveNext == Next /\ \A l \in leases : CompleteUnavailable(l) => Outages(l.key) < MaxOutages
LiveSpec == JustSubmitted /\ [][LiveNext]_vars /\ Fairness

KeySymmetry == Permutations(Keys) \cup Permutations(Passes)
=============================================================================
