----------------------------- MODULE MCDatabase -----------------------------
(***************************************************************************)
(* How a batch gets into the coordinator's database, what its transactions *)
(* do to each other there and what becomes of an action by its results,    *)
(* side by side.  The parts share no variable: in a behaviour one part     *)
(* moves and the others stay where they start.                             *)
(***************************************************************************)
EXTENDS Transactions

CONSTANTS
    k1, k2,                                         \* for values of Keys and BuildEdges
    Nodes, MaxEdges,                                \* Submission
    MaxAttempts, StandardMb, Peaks, Ttl, MaxClaims, MaxBatches, None, BadNumber     \* Results

VARIABLES
    part,
    answer, actions, edges, edgeLines, nul, visited, depth, descendants,
    state, tier, attempts, lastFailure, hint, batches, past, moved

Submitted == INSTANCE Submission WITH Keys <- Nodes
Reported == INSTANCE Results

ASSUME ParametersAssumption == Parameters /\ Submitted!Parameters /\ Reported!Parameters

submitted == <<answer, actions, edges, edgeLines, nul, visited, depth, descendants>>
reported == <<state, tier, attempts, lastFailure, hint, batches, past, moved>>
parts == <<part, vars, submitted, reported>>

\* A part that does not move starts in one state.
PartsInit ==
    /\ part \in {"database", "submitted", "reported"}
    /\ Init /\ Submitted!Init /\ Reported!Init
    /\ part # "database" => class = "build"

\* The other batches are gone only when this one has ended too: before that their
\* deletion touches no row that another transaction does but another deletion of theirs.
OthersGoLast == row'[Batch] = "running" => \A r \in Others : row'[r] # "gone"

PartsNext ==
    /\ UNCHANGED part
    /\ \/ part = "database" /\ Next /\ OthersGoLast /\ UNCHANGED <<submitted, reported>>
       \/ part = "submitted" /\ Submitted!Next /\ UNCHANGED <<vars, reported>>
       \/ part = "reported" /\ Reported!Next /\ UNCHANGED <<vars, submitted>>

PartsSpec == PartsInit /\ [][PartsNext]_parts

\* Two actions, the second one on top of the first.
SecondOnFirst == {<<k2, k1>>}

\* Connections are alike.
Symmetry == Permutations(Sessions)

-----------------------------------------------------------------------------

\* parse_batch, submit: an accepted text is stored unless it holds a NUL.
AcceptedBatchCanBeStored == Submitted!AcceptedBatchCanBeStored

\* dag_priorities: depths and descendant counts equal their definitions over paths.
PrioritiesAreExact == Submitted!PrioritiesAreExact

\* complete, expire_leases: an action is retried, moved or failed as the README says.
RetriesAsDocumented == Reported!RetriesAsDocumented

\* _record_peak, submit, delete_expired: a theory that took much memory is remembered.
MemoryIsRemembered == Reported!MemoryIsRemembered
=============================================================================
