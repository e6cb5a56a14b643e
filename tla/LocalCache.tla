----------------------------- MODULE LocalCache -----------------------------
(***************************************************************************)
(* holbuild's filesystem cache (sml/fs_cache_backend.sml, sml/cache.sml    *)
(* and the publication and restore of theory entries in                    *)
(* sml/build_exec.sml): a manifest per input key names content-addressed   *)
(* blobs.  Builds publish their outputs, remote entries are copied in,     *)
(* early cutoff aliases entries, restores read them and `cache gc` removes *)
(* what is old, all from any number of processes.  Files are written next  *)
(* to their place and renamed; the lock of an action is held by publishers *)
(* and not by GC or restores.                                              *)
(***************************************************************************)
EXTENDS Integers, FiniteSets

CONSTANTS
    Keys,           \* input keys
    BlobsOf,        \* BlobsOf[v]: the blobs of outputs v
    Timeouts,       \* proof timeouts a theory was checked under; lower is stronger
    Procs,          \* processes that publish
    Readers,        \* processes that restore
    None

\* What the constants have to be.
Parameters ==
    /\ Timeouts \subseteq Nat
    /\ None \notin Procs \cup Keys

Outputs == DOMAIN BlobsOf
Hashes == UNION {BlobsOf[v] : v \in Outputs}
Manifests == [outs : Outputs, timeout : Timeouts]

VARIABLES
    manifest,       \* actions/<key>/manifest, or None
    blob,           \* blobs/<hash>: "none", "good" or "bad"
    old,            \* keys and hashes whose file is older than GC's cutoff
    lock,           \* who holds locks/action-<key>.lock
    proc,           \* the publishers: what they publish and how far they are
    reader,         \* the restores
    gc,             \* cache GC: its stage, what it has still to look at, live blobs
    lost,           \* blobs GC or the disk took away and nobody has put back
    during          \* keys whose manifest was written since this GC began

vars == <<manifest, blob, old, lock, proc, reader, gc, lost, during>>

IdleProc == [pc |-> "idle", key |-> None, outs |-> None, timeout |-> 0, todo |-> {}, seen |-> None]
IdleReader == [pc |-> "idle", key |-> None, entry |-> None, todo |-> {}, got |-> {}]
IdleGc == [stage |-> "idle", todo |-> {}, live |-> {}]

TypeOK ==
    /\ manifest \in [Keys -> Manifests \cup {None}]
    /\ blob \in [Hashes -> {"none", "good", "bad"}]
    /\ old \subseteq Keys \cup Hashes
    /\ lock \in [Keys -> Procs \cup {None}]
    /\ \A p \in Procs : /\ proc[p].pc \in {"idle", "blobs", "write", "copy"}
                        /\ proc[p].pc \in {"blobs", "write"} => lock[proc[p].key] = p
    /\ \A r \in Readers : reader[r].pc \in {"idle", "copy", "restored", "missed"}
    /\ gc.stage \in {"idle", "actions", "blobs"}
    /\ lost \subseteq Hashes /\ during \subseteq Keys

\* An empty cache, or one whose blobs an earlier build left.
Init ==
    /\ manifest = [k \in Keys |-> None]
    /\ blob \in [Hashes -> {"none", "good"}]
    /\ old = {h \in Hashes : blob[h] = "good"}
    /\ lock = [k \in Keys |-> None]
    /\ proc = [p \in Procs |-> IdleProc]
    /\ reader = [r \in Readers |-> IdleReader]
    /\ gc = IdleGc /\ lost = {} /\ during = {}

Missing(v) == {h \in BlobsOf[v] : blob[h] # "good"}
\* cache_entry_usable: every blob of the entry verifies.
Usable(m) == m # None /\ Missing(m.outs) = {}
Stronger(t, u) == IF t < u THEN t ELSE u

Free(p) == [k \in Keys |-> IF lock[k] = p THEN None ELSE lock[k]]

\* write_text of a manifest: written aside and renamed into place.
SetManifest(k, m) ==
    /\ manifest' = [manifest EXCEPT ![k] = m]
    /\ old' = old \ {k}
    /\ during' = during \cup {k}

-----------------------------------------------------------------------------
(* Publication of a build: publish_theory_cache. *)

\* with_action_publish_lock: a key another publisher has locked is skipped.
Publish(p, k, v, t) ==
    /\ proc[p].pc = "idle" /\ lock[k] = None
    /\ proc' = [proc EXCEPT ![p] = [pc |-> "blobs", key |-> k, outs |-> v, timeout |-> t,
                                    todo |-> BlobsOf[v], seen |-> None]]
    /\ lock' = [lock EXCEPT ![k] = p]
    /\ UNCHANGED <<manifest, blob, old, reader, gc, lost, during>>

\* publish_blob: a blob that verifies stays as it is, its age too; else it is
\* copied in, replacing a corrupt one.
PutBlob(p, h) ==
    /\ proc[p].pc \in {"blobs", "copy"} /\ h \in proc[p].todo
    /\ proc' = [proc EXCEPT ![p].todo = @ \ {h}]
    /\ blob' = [blob EXCEPT ![h] = "good"]
    /\ old' = IF blob[h] = "good" THEN old ELSE old \ {h}
    /\ lost' = lost \ {h}
    /\ UNCHANGED <<manifest, lock, reader, gc, during>>

\* Mutant: the manifest may be written before the blobs are there.
ReadExistingEarly(p) ==
    /\ proc[p].pc = "blobs"
    /\ proc' = [proc EXCEPT ![p].pc = "write", ![p].seen = manifest[proc[p].key]]
    /\ UNCHANGED <<manifest, blob, old, lock, reader, gc, lost, during>>

\* publish_cache_manifest reads the entry there is.
ReadExisting(p) ==
    /\ proc[p].pc = "blobs" /\ proc[p].todo = {}
    /\ proc' = [proc EXCEPT ![p].pc = "write", ![p].seen = manifest[proc[p].key]]
    /\ UNCHANGED <<manifest, blob, old, lock, reader, gc, lost, during>>

\* Mutant: the contract of the entry there is does not count.
DecideOwn(seen, m) == m

\* What becomes of the entry: a usable one with the same outputs keeps the stronger
\* of the two contracts, one with other outputs stays, an unusable one is replaced.
Decide(seen, m) ==
    IF ~Usable(seen) THEN m
    ELSE IF seen.outs = m.outs THEN [m EXCEPT !.timeout = Stronger(seen.timeout, m.timeout)]
    ELSE seen

\* The decision: write, touch (a manifest that is still there) or only warn.
WriteManifest(p) ==
    /\ proc[p].pc = "write"
    /\ LET k == proc[p].key
           new == Decide(proc[p].seen, [outs |-> proc[p].outs, timeout |-> proc[p].timeout])
       IN  IF new # proc[p].seen THEN SetManifest(k, new)
           ELSE /\ old' = IF new.outs = proc[p].outs THEN old \ {k} ELSE old
                /\ UNCHANGED <<manifest, during>>
    /\ lock' = Free(p)
    /\ proc' = [proc EXCEPT ![p] = IdleProc]
    /\ UNCHANGED <<blob, reader, gc, lost>>

-----------------------------------------------------------------------------
(* A remote entry copied in: copy_entry with put_action. *)

\* The blobs are copied without the action's lock.
Hydrate(p, k, v, t) ==
    /\ proc[p].pc = "idle" /\ manifest[k] = None
    /\ proc' = [proc EXCEPT ![p] = [pc |-> "copy", key |-> k, outs |-> v, timeout |-> t,
                                    todo |-> BlobsOf[v], seen |-> None]]
    /\ UNCHANGED <<manifest, blob, old, lock, reader, gc, lost, during>>

\* put_action PutIfAbsentOrSame, under the lock: absent, or the same but for a
\* weaker contract, is written; the rest is AlreadyPresent or a Conflict.
PutAction(p) ==
    /\ proc[p].pc = "copy" /\ proc[p].todo = {}
    /\ lock[proc[p].key] = None
    /\ LET k == proc[p].key
           m == [outs |-> proc[p].outs, timeout |-> proc[p].timeout]
       IN  IF \/ manifest[k] = None
              \/ manifest[k].outs = m.outs /\ m.timeout < manifest[k].timeout
           THEN SetManifest(k, m)
           ELSE UNCHANGED <<manifest, old, during>>
    /\ proc' = [proc EXCEPT ![p] = IdleProc]
    /\ UNCHANGED <<blob, lock, reader, gc, lost>>

\* alias_cache_entry: a usable entry of the old key, where the new key has none.
Alias(p, k, new) ==
    /\ proc[p].pc = "idle" /\ k # new /\ lock[new] = None
    /\ manifest[new] = None /\ Usable(manifest[k])
    /\ SetManifest(new, manifest[k])
    /\ UNCHANGED <<blob, lock, proc, reader, gc, lost>>

\* A process is killed; the kernel frees its locks, what it wrote stays.
Kill(p) ==
    /\ proc[p].pc # "idle"
    /\ proc' = [proc EXCEPT ![p] = IdleProc]
    /\ lock' = Free(p)
    /\ UNCHANGED <<manifest, blob, old, reader, gc, lost, during>>

-----------------------------------------------------------------------------
(* A restore: materialize_theory_cache. *)

ReadManifest(r, k) ==
    /\ reader[r].pc = "idle"
    /\ reader' = [reader EXCEPT ![r] =
         IF manifest[k] = None THEN [IdleReader EXCEPT !.pc = "missed"]
         ELSE [pc |-> "copy", key |-> k, entry |-> manifest[k],
               todo |-> BlobsOf[manifest[k].outs], got |-> {}]]
    /\ UNCHANGED <<manifest, blob, old, lock, proc, gc, lost, during>>

\* Mutant: a blob that is there is taken as it is.
FetchUnverified(r, h) ==
    /\ reader[r].pc = "copy" /\ h \in reader[r].todo
    /\ reader' = [reader EXCEPT ![r] =
         IF blob[h] = "none" THEN [IdleReader EXCEPT !.pc = "missed"]
         ELSE [reader[r] EXCEPT !.todo = @ \ {h}, !.got = @ \cup {<<h, blob[h]>>}]]
    /\ UNCHANGED <<manifest, blob, old, lock, proc, gc, lost, during>>

\* fetch_blob: a missing or corrupt blob makes the restore a miss, and what was
\* installed is removed.
FetchBlob(r, h) ==
    /\ reader[r].pc = "copy" /\ h \in reader[r].todo
    /\ reader' = [reader EXCEPT ![r] =
         IF blob[h] # "good" THEN [IdleReader EXCEPT !.pc = "missed"]
         ELSE [reader[r] EXCEPT !.todo = @ \ {h}, !.got = @ \cup {<<h, blob[h]>>}]]
    /\ UNCHANGED <<manifest, blob, old, lock, proc, gc, lost, during>>

\* Every output installed: the manifest's age is refreshed.
Restored(r) ==
    /\ reader[r].pc = "copy" /\ reader[r].todo = {}
    /\ reader' = [reader EXCEPT ![r].pc = "restored"]
    /\ old' = old \ {reader[r].key}
    /\ UNCHANGED <<manifest, blob, lock, proc, gc, lost, during>>

\* The build goes on, with the outputs or with a build from source.
NextRestore(r) ==
    /\ reader[r].pc \in {"restored", "missed"}
    /\ reader' = [reader EXCEPT ![r] = IdleReader]
    /\ UNCHANGED <<manifest, blob, old, lock, proc, gc, lost, during>>

-----------------------------------------------------------------------------
(* Cache GC: gc_root, one at a time under gc.lock. *)

StartGc ==
    /\ gc.stage = "idle"
    /\ gc' = [stage |-> "actions", todo |-> Keys, live |-> {}]
    /\ during' = {}
    /\ UNCHANGED <<manifest, blob, old, lock, proc, reader, lost>>

\* collect_live_actions: an old entry goes, the others' blobs are live.
CollectAction(k) ==
    /\ gc.stage = "actions" /\ k \in gc.todo
    /\ IF manifest[k] # None /\ k \in old
       THEN /\ manifest' = [manifest EXCEPT ![k] = None]
            /\ gc' = [gc EXCEPT !.todo = @ \ {k}]
       ELSE /\ gc' = [gc EXCEPT !.todo = @ \ {k},
                      !.live = IF manifest[k] = None THEN @ ELSE @ \cup BlobsOf[manifest[k].outs]]
            /\ UNCHANGED manifest
    /\ UNCHANGED <<blob, old, lock, proc, reader, lost, during>>

\* Mutant: the sweep begins before every action has been read.
StartSweepEarly ==
    /\ gc.stage = "actions"
    /\ gc' = [gc EXCEPT !.stage = "blobs", !.todo = Hashes]
    /\ UNCHANGED <<manifest, blob, old, lock, proc, reader, lost, during>>

StartSweep ==
    /\ gc.stage = "actions" /\ gc.todo = {}
    /\ gc' = [gc EXCEPT !.stage = "blobs", !.todo = Hashes]
    /\ UNCHANGED <<manifest, blob, old, lock, proc, reader, lost, during>>

\* sweep_blobs: an old blob that is not live goes.
SweepBlob(h) ==
    /\ gc.stage = "blobs" /\ h \in gc.todo
    /\ gc' = [gc EXCEPT !.todo = @ \ {h}]
    /\ IF blob[h] # "none" /\ h \in old /\ h \notin gc.live
       THEN blob' = [blob EXCEPT ![h] = "none"] /\ lost' = lost \cup {h}
       ELSE UNCHANGED <<blob, lost>>
    /\ UNCHANGED <<manifest, old, lock, proc, reader, during>>

\* GC is done, or killed; its lock goes either way.
EndGc ==
    /\ gc.stage # "idle"
    /\ gc' = IdleGc
    /\ UNCHANGED <<manifest, blob, old, lock, proc, reader, lost, during>>

\* The retention passes for a file.  GC's cutoff is fixed while it runs.
Age(f) ==
    /\ gc.stage = "idle" /\ f \notin old
    /\ old' = old \cup {f}
    /\ UNCHANGED <<manifest, blob, lock, proc, reader, gc, lost, during>>

Corrupt(h) ==
    /\ blob[h] = "good"
    /\ blob' = [blob EXCEPT ![h] = "bad"]
    /\ lost' = lost \cup {h}
    /\ UNCHANGED <<manifest, old, lock, proc, reader, gc, during>>

\* A process that publishes outputs among outs for keys among keys.
Publishing(p, keys, outs, timeouts) ==
    \/ \E k \in keys, v \in outs, t \in timeouts : Publish(p, k, v, t) \/ Hydrate(p, k, v, t)
    \/ \E h \in Hashes : PutBlob(p, h)
    \/ ReadExisting(p) \/ WriteManifest(p) \/ PutAction(p)
    \/ \E k, new \in keys : Alias(p, k, new)
    \/ Kill(p)

Restoring(r) ==
    \/ \E k \in Keys : ReadManifest(r, k)
    \/ \E h \in Hashes : FetchBlob(r, h)
    \/ Restored(r) \/ NextRestore(r)

Collecting ==
    \/ StartGc \/ (\E k \in Keys : CollectAction(k)) \/ StartSweep
    \/ (\E h \in Hashes : SweepBlob(h)) \/ EndGc

Next ==
    \/ \E p \in Procs : Publishing(p, Keys, Outputs, Timeouts)
    \/ \E r \in Readers : Restoring(r)
    \/ Collecting
    \/ (\E f \in Keys \cup Hashes : Age(f))
    \/ (\E h \in Hashes : Corrupt(h))

Spec == Init /\ [][Next]_vars

-----------------------------------------------------------------------------

\* A restore that says it restored installed every output of one entry, each with
\* the contents its hash names, whatever GC, publishers and the disk did meanwhile
\* (DESIGN.md: races with GC "should degrade to cache misses and source rebuilds").
RestoredIsWhole ==
    \A r \in Readers : reader[r].pc = "restored" =>
        reader[r].got = {<<h, "good">> : h \in BlobsOf[reader[r].entry.outs]}

\* A process killed during its publication leaves no entry without its blobs: an
\* entry lacks only blobs that GC or the disk took.
EntriesAreBacked ==
    \A k \in Keys : manifest[k] # None => Missing(manifest[k].outs) \subseteq lost

\* No publisher weakens the timeout contract of a usable entry with the same
\* outputs, also when a build and a copied remote entry arrive at the same time
\* (put_action: "reconciliation never claims a check that neither publisher
\* recorded").
KeepsContract ==
    \A k \in Keys :
        Usable(manifest[k]) /\ manifest'[k] # None /\ manifest'[k].outs = manifest[k].outs
            => manifest'[k].timeout <= manifest[k].timeout
ContractNeverWeakens == [][KeepsContract]_vars

\* GC removes no blob of an entry that was in the cache before it began and has
\* outlived its first stage.
KeepsLiveBlobs ==
    \A h \in Hashes : gc.stage = "blobs" /\ blob[h] # "none" /\ blob'[h] = "none" =>
        \A k \in Keys \ during : manifest[k] # None => h \notin BlobsOf[manifest[k].outs]
GcKeepsLiveBlobs == [][KeepsLiveBlobs]_vars
=============================================================================
