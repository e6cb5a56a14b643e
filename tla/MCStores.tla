------------------------------ MODULE MCStores ------------------------------
(***************************************************************************)
(* What holbuild keeps on disk between builds, side by side: the local     *)
(* cache, with builds of different outputs and timeouts that publish one   *)
(* key, and with garbage collection and a failing disk beside two keys of  *)
(* the same outputs; and the checkpoints of a project.                     *)
(***************************************************************************)
EXTENDS Integers, FiniteSets, TLC

CONSTANTS
    None,
    Keys, BlobsOf, Timeouts, Procs, Readers,                \* LocalCache
    k1, x, y, z,
    Family, MaxSize, Limit, JobCounts, MaxStarts            \* CheckpointBudget

VARIABLES
    part,
    manifest, blob, old, lock, proc, reader, gc, lost, during,
    disk, persisted, dirty, pc, index, job, jobs, active, wrote, owner, stop, refreshed,
    finalized, measured, failed, ended, starts

Cache == INSTANCE LocalCache
Budget == INSTANCE CheckpointBudget

ASSUME ParametersAssumption == Cache!Parameters /\ Budget!Parameters

\* Two builds of a theory that share one output.
TwoBuilds == ("v1" :> {x, y}) @@ ("v2" :> {y, z})

cache == <<manifest, blob, old, lock, proc, reader, gc, lost, during>>
budget == <<disk, persisted, dirty, pc, index, job, jobs, active, wrote, owner, stop, refreshed,
            finalized, measured, failed, ended, starts>>
vars == <<part, cache, budget>>

\* A part that does not move starts in one state.
Init ==
    /\ part \in {"publishing", "collecting", "budget"}
    /\ Cache!Init /\ Budget!Init
    /\ part # "publishing" => blob[z] = "none"
    /\ part = "budget" => old = {}
    /\ part # "budget" => disk = Budget!Empty /\ jobs = 1

\* Both builds, of one key.
PublishingOneKey ==
    \/ \E p \in Procs : Cache!Publishing(p, {k1}, Cache!Outputs, Timeouts)
    \/ \E r \in Readers : Cache!Restoring(r)
    \/ \E f \in {k1} \cup Cache!Hashes : Cache!Age(f)

\* The first build alone, of every key, by one process at a time, with GC and a disk
\* that fails.
CollectingOneBuild ==
    \/ \E p \in Procs : /\ \A q \in Procs \ {p} : proc[q].pc = "idle"
                       /\ Cache!Publishing(p, Keys, {"v1"}, {1})
    \/ \E r \in Readers : Cache!Restoring(r)
    \/ Cache!Collecting
    \/ \E f \in Keys \cup BlobsOf["v1"] : Cache!Age(f)
    \/ \E h \in BlobsOf["v1"] : Cache!Corrupt(h)

Next ==
    /\ UNCHANGED part
    /\ \/ part = "publishing" /\ PublishingOneKey /\ UNCHANGED budget
       \/ part = "collecting" /\ CollectingOneBuild /\ UNCHANGED budget
       \/ part = "budget" /\ Budget!Next /\ UNCHANGED cache

Spec == Init /\ [][Next]_vars

Symmetry == Permutations(Procs) \cup Permutations(Family)

-----------------------------------------------------------------------------

\* publish_theory_cache: a killed publisher leaves no entry without its blobs.
EntriesAreBacked == Cache!EntriesAreBacked

\* publish_cache_manifest and put_action: a timeout contract is never weakened.
ContractNeverWeakens == Cache!ContractNeverWeakens

\* install_cache_entry: what a restore installs is one entry, whole.
RestoredIsWhole == Cache!RestoredIsWhole

\* sweep_blobs: no blob of an entry that outlived the first stage goes.
GcKeepsLiveBlobs == Cache!GcKeepsLiveBlobs

\* load_or_rebuild_checkpoint_index: an index accepted unmeasured counts at least what
\* is on disk.
AcceptedIndexNeverUndercounts == Budget!AcceptedIndexNeverUndercounts

\* finalize_checkpoint_budget_state_excluding: a build ends within the limit.
EndedWithinLimit == Budget!EndedWithinLimit
=============================================================================
