-------------------------- MODULE CheckpointBudget --------------------------
(***************************************************************************)
(* The checkpoint budget of a project (build_exec.sml): checkpoint         *)
(* families on disk, the index of their sizes that a build keeps in memory *)
(* and leaves on disk for the next one, and the marker that says a build   *)
(* was under way.  A build loads the index without measuring anything when *)
(* it may trust it, evicts families while the index says the project is    *)
(* over its limit, measures again after a node that wrote checkpoints, and *)
(* at its end persists the index and takes the marker away.  A build can   *)
(* be killed between any two of these steps; the project lock keeps two    *)
(* commands of one project apart, so there is one process here.            *)
(*                                                                         *)
(* A size of 0 is a family with no artifact.  The code evicts oldest       *)
(* first; here the order is left open, which only adds behaviours.         *)
(***************************************************************************)
EXTENDS Integers, FiniteSets, FiniteSetsExt

CONSTANTS Family,      \* the checkpoint bases of the project
          MaxSize,     \* bound: the largest size of a family
          Limit,       \* checkpoint_limit_gb, 0 is no limit
          JobCounts,   \* numbers of jobs a build is run with; 1 is build_serial
          MaxStarts,   \* bound: nodes started that may write checkpoints
          None

\* What the constants have to be.
Parameters ==
    /\ IsFiniteSet(Family)
    /\ MaxSize \in Nat
    /\ Limit \in Nat
    /\ MaxStarts \in Nat
    /\ JobCounts \subseteq Nat \ {0}
    /\ None \notin Family

VARIABLES
  disk,       \* the real size of each family
  persisted,  \* .index-v2: the size of each family, or None when unreadable
  dirty,      \* .index-dirty exists
  pc,         \* where the one process is
  index,      \* the index in memory
  job,        \* the eviction under way
  jobs,
  active,     \* families of the nodes being built with checkpoints
  wrote,      \* those of them that have written checkpoints
  owner,      \* the family whose node is built and has the maintenance turn
  stop,       \* why no more nodes start: a failure, or an inspected one
  refreshed, finalized,
  measured,   \* what a refresh read: <<family, size>> before it takes the lock
  failed,     \* history: the command's last eviction left something behind
  ended,      \* history: the last command ended and persisted its index
  starts

nodes == <<active, wrote, owner, stop, starts>>
vars == <<disk, persisted, dirty, pc, index, job, jobs, nodes, refreshed, finalized,
          measured, failed, ended>>

Sizes == 0..MaxSize
Total(sizes) == MapThenSumSet(LAMBDA f : sizes[f], Family)
Empty == [f \in Family |-> 0]

\* What evict_from_index_excluding works on; "then" is what follows it.
NoJob == [index |-> Empty, todo |-> {}, over |-> FALSE, freed |-> 0,
          evicted |-> 0, before |-> 0, then |-> "idle"]
Job(sizes, protected, then) ==
  [index |-> sizes, before |-> Total(sizes), freed |-> 0, evicted |-> 0,
   todo |-> {f \in Family : sizes[f] > 0 /\ f \notin protected},
   over |-> ~(Limit <= 0 \/ Total(sizes) <= Limit), then |-> then]

\* checkpoint_index_roots_exist and checkpoint_index_covers_disk look at which
\* families are there, never at how large they are.
RootsExist(sizes) == \A f \in Family : sizes[f] > 0 => disk[f] > 0
CoversDisk(sizes) == \A f \in Family : disk[f] > 0 => sizes[f] > 0
LoadOrRebuild ==
  IF persisted # None /\ RootsExist(persisted) /\ CoversDisk(persisted)
    THEN persisted ELSE disk

Init ==
  /\ disk \in [Family -> Sizes]
  /\ persisted = None
  /\ dirty = FALSE
  /\ pc = "idle"
  /\ index = Empty
  /\ job = NoJob
  /\ jobs \in JobCounts
  /\ active = {} /\ wrote = {} /\ owner = None /\ stop = "no"
  /\ refreshed = FALSE /\ finalized = FALSE
  /\ measured = {}
  /\ failed = FALSE /\ ended = FALSE
  /\ starts = 0

-----------------------------------------------------------------------------
(* A build begins *)

\* create_checkpoint_budget_state, up to the marker.
Load ==
  /\ pc = "idle"
  /\ index' = IF dirty THEN disk ELSE LoadOrRebuild
  /\ pc' = "mark"
  /\ jobs' \in JobCounts
  /\ refreshed' = FALSE /\ finalized' = FALSE /\ stop' = "no"
  /\ failed' = FALSE /\ ended' = FALSE
  /\ UNCHANGED <<disk, persisted, dirty, job, active, wrote, measured, starts, owner>>

\* The marker is written, or the index that could not be marked is discarded;
\* the first enforcement follows.
MarkDirty ==
  /\ pc = "mark"
  /\ \/ dirty' = TRUE /\ persisted' = persisted
     \/ dirty' = dirty /\ persisted' = None
  /\ pc' = "evict"
  /\ job' = Job(index, {}, "building")
  /\ UNCHANGED <<nodes, disk, index, refreshed, finalized, measured, failed,
                 ended, jobs>>

-----------------------------------------------------------------------------
(* Eviction, one family at a time *)

\* remove_checkpoint_family_base leaves nothing, or something that
\* checkpoint_family_root_exists then sees.
EvictOne ==
  /\ pc = "evict"
  /\ job.over
  /\ job.before - job.freed > Limit
  /\ \E f \in job.todo, left \in Sizes :
       /\ left <= disk[f]
       /\ disk' = [disk EXCEPT ![f] = left]
       /\ IF left > 0
            THEN /\ job' = [job EXCEPT !.todo = @ \ {f}]
                 /\ failed' = TRUE
            ELSE /\ job' = [job EXCEPT !.todo = @ \ {f}, !.evicted = @ + 1,
                                       !.freed = @ + job.index[f],
                                       !.index[f] = 0]
                 /\ failed' = failed
  /\ UNCHANGED <<nodes, persisted, dirty, pc, index, refreshed, finalized,
                 measured, ended, jobs>>

\* The node whose refresh is over is finished with.
EndTurn ==
  /\ active' = active \ {owner}
  /\ wrote' = wrote \ {owner}
  /\ owner' = None
  /\ UNCHANGED <<stop, starts>>

\* The loop is over; enforce_checkpoint_index_locked measures again when it
\* evicted something and is still over the limit, and the index is installed.
EvictDone ==
  /\ pc = "evict"
  /\ ~job.over \/ job.todo = {} \/ job.before - job.freed <= Limit
  /\ index' = IF job.evicted > 0 /\ job.before - job.freed > Limit
                THEN disk ELSE job.index
  /\ pc' = job.then
  /\ job' = NoJob
  /\ EndTurn
  /\ UNCHANGED <<disk, persisted, dirty, refreshed, finalized, measured,
                 failed, ended, jobs>>

\* An exception out of the eviction is a warning, and the old index stays: a
\* build goes on, the final pass ends without authorising anything.  (In a gc
\* it ends the command, on disk the same as Crash.)
EvictFails ==
  /\ pc = "evict"
  /\ job.then # "gcwrite"
  /\ pc' = IF job.then = "write" THEN "clear" ELSE job.then
  /\ job' = NoJob
  /\ failed' = TRUE
  /\ EndTurn
  /\ UNCHANGED <<disk, persisted, dirty, index, refreshed, finalized,
                 measured, ended, jobs>>

-----------------------------------------------------------------------------
(* Nodes of the build and the refresh after one *)

\* The scheduler starts no node while a refresh has the maintenance turn.
Start(f) ==
  /\ pc = "building"
  /\ stop = "no"
  /\ f \notin active
  /\ Cardinality(active) < jobs
  /\ starts < MaxStarts
  /\ starts' = starts + 1
  /\ active' = active \cup {f}
  /\ UNCHANGED <<wrote, owner, stop>>
  /\ UNCHANGED <<disk, persisted, dirty, pc, index, job, jobs, refreshed,
                 finalized, measured, failed, ended>>

\* f's node is being built, perhaps beside the refresh of another one.
Runs(f) ==
  /\ f \in active \ {owner}
  /\ pc \in {"building", "measured", "evict"}

\* It writes checkpoints, or discards them with a bad cache entry.
NodeWrites(f) ==
  /\ Runs(f)
  /\ \E size \in 1..MaxSize : disk' = [disk EXCEPT ![f] = size]
  /\ wrote' = wrote \cup {f}
  /\ UNCHANGED <<active, owner, stop, starts>>
  /\ UNCHANGED <<persisted, dirty, pc, index, job, jobs, refreshed, finalized,
                 measured, failed, ended>>

DiscardFamily(f) ==
  /\ Runs(f)
  /\ disk[f] > 0
  /\ disk' = [disk EXCEPT ![f] = 0]
  /\ UNCHANGED <<persisted, dirty, pc, index, job, jobs, nodes, refreshed,
                 finalized, measured, failed, ended>>

\* It ends without having written any: restored, or built without checkpoints.
\* No refresh follows.
NodeEnds(f) ==
  /\ pc = "building"
  /\ f \in active \ wrote
  /\ active' = active \ {f}
  /\ UNCHANGED <<wrote, owner, stop, starts>>
  /\ UNCHANGED <<disk, persisted, dirty, pc, index, job, jobs, refreshed,
                 finalized, measured, failed, ended>>

\* It fails, or is cancelled because another one stopped the build.
NodeFails(f) ==
  /\ Runs(f)
  /\ active' = active \ {f}
  /\ wrote' = wrote \ {f}
  /\ stop' = IF stop = "no" THEN "failed" ELSE stop
  /\ UNCHANGED <<owner, starts>>
  /\ UNCHANGED <<disk, persisted, dirty, pc, index, job, jobs, refreshed,
                 finalized, measured, failed, ended>>

\* It was inspected: the build stops as if it had succeeded, so the flag says
\* that what it and the nodes cancelled with it wrote is to be measured.
Inspected(f) ==
  /\ Runs(f)
  /\ refreshed' = TRUE
  /\ active' = active \ {f}
  /\ wrote' = wrote \ {f}
  /\ stop' = IF stop = "no" THEN "inspected" ELSE stop
  /\ UNCHANGED <<owner, starts>>
  /\ UNCHANGED <<disk, persisted, dirty, pc, index, job, jobs, finalized,
                 measured, failed, ended>>

\* The families a refresh may not evict: build_parallel's running nodes and
\* the one that has the turn; build_serial protects none.
Protected == IF jobs > 1 THEN active ELSE {}

\* What the refresh of f's node reads: its own family and, of those a watched
\* directory gave away, the unknown and the protected ones.
ReadSizes(f) ==
  \E found \in SUBSET {g \in Family : disk[g] > 0 /\ (index[g] = 0 \/ g \in Protected)} :
    measured' = {<<g, disk[g]>> : g \in found \cup {f}}

\* Mutant: it is not noted that a refresh was needed.
MeasureUnmarked(f) ==
  /\ pc = "building"
  /\ f \in active
  /\ owner' = f
  /\ ReadSizes(f)
  /\ pc' = "measured"
  /\ UNCHANGED <<active, wrote, stop, starts>>
  /\ UNCHANGED <<disk, persisted, dirty, index, job, jobs, refreshed, finalized,
                 failed, ended>>

\* refresh_checkpoint_budget_after_node up to its lock: the flag first.
Measure(f) ==
  /\ pc = "building"
  /\ f \in active
  /\ owner' = f
  /\ refreshed' = TRUE
  /\ ReadSizes(f)
  /\ pc' = "measured"
  /\ UNCHANGED <<active, wrote, stop, starts>>
  /\ UNCHANGED <<disk, persisted, dirty, index, job, jobs, finalized, failed,
                 ended>>

\* merge_checkpoint_family_measurements: a family measured and still there is
\* put in, one that has gone is taken out.
MergeMeasured(sizes) ==
  [g \in Family |->
     IF \E m \in measured : m[1] = g
       THEN (CHOOSE m \in measured : m[1] = g)[2] * (IF disk[g] > 0 THEN 1 ELSE 0)
       ELSE sizes[g]]

\* The rest of the refresh, under the lock.
Merge ==
  /\ pc = "measured"
  /\ job' = Job(MergeMeasured(index), Protected, "building")
  /\ measured' = {}
  /\ pc' = "evict"
  /\ UNCHANGED <<nodes, disk, persisted, dirty, index, refreshed, finalized,
                 failed, ended, jobs>>

\* Measuring raised: a warning, and the index stays as it was.
RefreshFails ==
  /\ pc = "measured"
  /\ measured' = {}
  /\ pc' = "building"
  /\ EndTurn
  /\ UNCHANGED <<disk, persisted, dirty, index, job, refreshed,
                 finalized, failed, ended, jobs>>

-----------------------------------------------------------------------------
(* A build ends *)

\* finalize_checkpoint_budget_state_excluding up to the eviction: a build that
\* refreshed or failed measures everything again.
Finalize ==
  /\ pc = "building"
  /\ active = {}
  /\ pc' = "evict"
  /\ finalized' = FALSE
  /\ job' = Job(IF refreshed \/ stop = "failed" THEN disk ELSE index, {}, "write")
  /\ failed' = FALSE
  /\ UNCHANGED <<nodes, disk, persisted, dirty, index, refreshed, measured,
                 ended, jobs>>

\* write_checkpoint_index_atomically; rename_replace may have taken the old
\* index away when it fails.
WriteIndex ==
  /\ pc = "write"
  /\ \/ persisted' = index /\ finalized' = TRUE
     \/ persisted' \in {persisted, None} /\ finalized' = finalized
  /\ pc' = "clear"
  /\ UNCHANGED <<nodes, disk, dirty, index, job, refreshed, measured, failed,
                 ended, jobs>>

\* Mutant: the marker goes whatever became of the index.
ClearDirtyAlways ==
  /\ pc = "clear"
  /\ dirty' = FALSE
  /\ ended' = finalized
  /\ pc' = "idle"
  /\ UNCHANGED <<nodes, disk, persisted, index, job, refreshed, finalized,
                 measured, failed, jobs>>

\* clear_checkpoint_index_dirty.
ClearDirty ==
  /\ pc = "clear"
  /\ dirty' = (dirty /\ ~finalized)
  /\ ended' = finalized
  /\ pc' = "idle"
  /\ UNCHANGED <<nodes, disk, persisted, index, job, refreshed, finalized,
                 measured, failed, jobs>>

\* The process is killed; what is on disk stays.
Crash ==
  /\ pc # "idle"
  /\ pc' = "idle"
  /\ index' = Empty
  /\ job' = NoJob
  /\ active' = {} /\ wrote' = {} /\ owner' = None
  /\ measured' = {}
  /\ UNCHANGED <<disk, persisted, dirty, jobs, refreshed, finalized, stop, failed,
                 ended, starts>>

-----------------------------------------------------------------------------
(* holbuild gc: clean_project *)

\* Families older than the retention go, the rest is measured and evicted.
StartGc ==
  /\ pc = "idle"
  /\ \E stale \in SUBSET Family :
       LET kept == [f \in Family |-> IF f \in stale THEN 0 ELSE disk[f]]
       IN /\ disk' = kept
          /\ job' = Job(kept, {}, "gcwrite")
  /\ pc' = "evict"
  /\ failed' = FALSE /\ ended' = FALSE
  /\ UNCHANGED <<nodes, persisted, dirty, index, refreshed, finalized, measured,
                 jobs>>

\* The index is measured once more and written, then the marker goes; a write
\* that fails ends the command.
GcWrite ==
  /\ pc = "gcwrite"
  /\ \/ persisted' = disk /\ pc' = "gcclear" /\ index' = disk
     \/ persisted' \in {persisted, None} /\ pc' = "idle" /\ index' = Empty
  /\ UNCHANGED <<nodes, disk, dirty, job, refreshed, finalized, measured,
                 failed, ended, jobs>>

GcClear ==
  /\ pc = "gcclear"
  /\ dirty' = FALSE
  /\ ended' = TRUE
  /\ pc' = "idle"
  /\ UNCHANGED <<nodes, disk, persisted, index, job, refreshed, finalized,
                 measured, failed, jobs>>

Next ==
  \/ Load \/ MarkDirty
  \/ EvictOne \/ EvictDone \/ EvictFails
  \/ \E f \in Family : \/ Start(f) \/ NodeWrites(f) \/ DiscardFamily(f)
                       \/ NodeEnds(f) \/ NodeFails(f) \/ Inspected(f)
                       \/ Measure(f)
  \/ Merge \/ RefreshFails
  \/ Finalize \/ WriteIndex \/ ClearDirty \/ Crash
  \/ StartGc \/ GcWrite \/ GcClear

Spec == Init /\ [][Next]_vars

-----------------------------------------------------------------------------
(* Properties *)

\* The types, and what the flags mean between commands: nothing of a command
\* outlives it but the three things on disk.
TypeOK ==
  /\ disk \in [Family -> Sizes] /\ index \in [Family -> Sizes]
  /\ persisted \in [Family -> Sizes] \cup {None}
  /\ dirty \in BOOLEAN /\ refreshed \in BOOLEAN /\ finalized \in BOOLEAN
  /\ stop \in {"no", "failed", "inspected"} /\ failed \in BOOLEAN /\ ended \in BOOLEAN
  /\ pc \in {"idle", "mark", "evict", "building", "measured", "write", "clear",
             "gcwrite", "gcclear"}
  /\ wrote \subseteq active /\ active \subseteq Family /\ Cardinality(active) <= jobs
  /\ owner \in active \cup {None} /\ jobs \in JobCounts
  /\ measured \subseteq (Family \X Sizes)
  /\ job.index \in [Family -> Sizes] /\ job.todo \subseteq Family
  /\ job.freed \in Nat /\ job.evicted \in Nat /\ job.freed <= job.before
  /\ starts \in 0..MaxStarts
  /\ pc = "idle" => active = {} /\ job = NoJob
  /\ pc # "evict" => job = NoJob

\* The comment on the marker: "the persisted index may under-count on-disk
\* families".  An index the next build would accept without measuring counts
\* at least what is on disk, whatever was written, evicted in part, discarded
\* or killed since: trusting it can never let the project pass its limit unseen.
AcceptedIndexNeverUndercounts ==
  (/\ pc = "idle"
   /\ ~dirty
   /\ persisted # None
   /\ RootsExist(persisted)
   /\ CoversDisk(persisted)) => \A f \in Family : disk[f] <= persisted[f]

\* When a build or a gc has ended with its index persisted and the evictions of
\* its last pass came off, the checkpoints on disk are within the limit, also when
\* nodes wrote while other families were being measured.
EndedWithinLimit ==
  (pc = "idle" /\ ended /\ ~failed /\ Limit > 0) => Total(disk) <= Limit
=============================================================================
