----------------------------- MODULE ClaimOrder -----------------------------
(***************************************************************************)
(* Which ready action a claim takes (the CLAIM statement of                *)
(* remote-exec/remote_exec/coordinator.py) when several batches have work: *)
(* class, the worker's order of tiers, then the batch with the fewest      *)
(* running actions, the one claimed from least recently, and the oldest.   *)
(* An action is its batch, class and tier; within them depth decides (see  *)
(* Submission).                                                            *)
(***************************************************************************)
EXTENDS Integers, Sequences, FiniteSets, SequencesExt, FiniteSetsExt

CONSTANTS
    Created,        \* the running batches, oldest first
    TiersOf,        \* TiersOf[w]: the list of tiers worker w claims with
    Kinds,          \* the <<class, tier>> pairs there are actions of
    RunSlots,       \* REMOTE_EXEC_RUN_SLOTS
    MaxReady,       \* bound: ready actions of a batch of one kind
    Idle

\* What the constants have to be.
Parameters ==
    /\ IsInjective(Created)
    /\ RunSlots \in Nat /\ MaxReady \in Nat
    /\ Kinds \subseteq {"build", "run"} \X {"standard", "high"}

Batches == ToSet(Created)
Workers == DOMAIN TiersOf
Actions == Batches \X Kinds

VARIABLES
    ready,          \* ready[<<b, kind>>]: how many actions of the kind are ready
    job,            \* what a worker runs: <<b, kind>>, or Idle
    claimed         \* the batches claimed from, least recently first

vars == <<ready, job, claimed>>

Init ==
    /\ ready = [a \in Actions |-> 0]
    /\ job = [w \in Workers |-> Idle]
    /\ claimed = <<>>

\* running_count of a batch, and the count behind run_capacity.
RunningOf(b) == Cardinality({w \in Workers : job[w] # Idle /\ job[w][1] = b})
RunningRuns == Cardinality({w \in Workers : job[w] # Idle /\ job[w][2][1] = "run"})

\* run_capacity: runs are candidates while there is a slot.
Allowed(kind) == kind[1] = "build" \/ RunningRuns < RunSlots

\* <<b, kind>> with a ready action a worker of these tiers may take.
Candidates(tiers) ==
    {c \in Actions : ready[c] > 0 /\ Allowed(c[2]) /\ c[2][2] \in ToSet(tiers)}

\* The position of a batch by last_claimed_at, NULLS FIRST; the never claimed tie.
Recency(b) == IF b \in ToSet(claimed) THEN CHOOSE i \in DOMAIN claimed : claimed[i] = b ELSE 0

\* Mutant: age before the last claim.
OldestRank(tiers, c) ==
    <<IF c[2][1] = "build" THEN 0 ELSE 1, CHOOSE i \in DOMAIN tiers : tiers[i] = c[2][2],
      RunningOf(c[1]), CHOOSE i \in DOMAIN Created : Created[i] = c[1], Recency(c[1])>>

\* The ORDER BY of CLAIM.
Rank(tiers, c) ==
    <<IF c[2][1] = "build" THEN 0 ELSE 1, CHOOSE i \in DOMAIN tiers : tiers[i] = c[2][2],
      RunningOf(c[1]), Recency(c[1]), CHOOSE i \in DOMAIN Created : Created[i] = c[1]>>

LexLess(s, t) == \E i \in DOMAIN s : s[i] < t[i] /\ \A j \in 1..(i - 1) : s[j] = t[j]

\* A worker with nothing to do takes the first candidate.
Claim(w) ==
    /\ job[w] = Idle
    /\ \E c \in Candidates(TiersOf[w]) :
        /\ \A d \in Candidates(TiersOf[w]) \ {c} : LexLess(Rank(TiersOf[w], c), Rank(TiersOf[w], d))
        /\ ready' = [ready EXCEPT ![c] = @ - 1]
        /\ job' = [job EXCEPT ![w] = c]
        /\ claimed' = Append(SelectSeq(claimed, LAMBDA x : x # c[1]), c[1])

\* A release makes an action ready.
Release(a) ==
    /\ ready[a] < MaxReady
    /\ ready' = [ready EXCEPT ![a] = @ + 1]
    /\ UNCHANGED <<job, claimed>>

\* A running action ends.
Complete(w) ==
    /\ job[w] # Idle
    /\ job' = [job EXCEPT ![w] = Idle]
    /\ UNCHANGED <<ready, claimed>>

Next ==
    \/ \E w \in Workers : Claim(w) \/ Complete(w)
    \/ \E a \in Actions : Release(a)

\* Workers go on claiming, and what they run ends.
Fairness == \A w \in Workers : WF_vars(Claim(w)) /\ WF_vars(Complete(w))

Spec == Init /\ [][Next]_vars /\ Fairness

-----------------------------------------------------------------------------

\* A batch that has a ready standard-tier build and nothing running is claimed from
\* in the end, however many actions other batches, also older ones, keep releasing.
NoBatchStarves ==
    \A b \in Batches :
        ready[<<b, <<"build", "standard">>>>] > 0 /\ RunningOf(b) = 0 ~> RunningOf(b) > 0
=============================================================================
