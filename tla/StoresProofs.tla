---------------------------- MODULE StoresProofs ----------------------------
(***************************************************************************)
(* Proofs about what holbuild keeps on disk between builds: the local      *)
(* cache, for any keys, outputs, publishers, restores and GC passes, and   *)
(* the checkpoint budget, for any families, sizes, limit and number of     *)
(* nodes, killed at any point any number of times.                         *)
(*                                                                         *)
(* In the cache, publishers are kept apart by the lock of an action; GC    *)
(* and restores take no lock, so each part of the invariant is one that    *)
(* their steps can't disturb at any moment.  Of the budget, what an        *)
(* eviction has freed and what it has left add up to what it started with. *)
(***************************************************************************)
EXTENDS MCStores, Sums

\* A blob that is not there as it should be, though neither GC nor the disk took it.
Unbacked == {h \in Cache!Hashes : blob[h] # "good" /\ h \notin lost}

\* The publishers, restores and GC in full, beyond TypeOK.
ProcRecords == [pc : {"idle", "blobs", "write", "copy"}, key : Keys \cup {None},
                outs : Cache!Outputs \cup {None}, timeout : Timeouts \cup {0},
                todo : SUBSET Cache!Hashes, seen : Cache!Manifests \cup {None}]
ProcType ==
    /\ proc \in [Procs -> ProcRecords]
    /\ \A p \in Procs : proc[p].pc # "idle" =>
         proc[p].key \in Keys /\ proc[p].outs \in Cache!Outputs /\ proc[p].timeout \in Timeouts
ReaderRecords == [pc : {"idle", "copy", "restored", "missed"}, key : Keys \cup {None},
                  entry : Cache!Manifests \cup {None}, todo : SUBSET Cache!Hashes,
                  got : SUBSET (Cache!Hashes \X {"good"})]
ReaderType ==
    /\ reader \in [Readers -> ReaderRecords]
    /\ \A r \in Readers : reader[r].pc \in {"copy", "restored"} =>
         reader[r].key \in Keys /\ reader[r].entry \in Cache!Manifests
GcType ==
    gc \in [stage : {"idle", "actions", "blobs"}, todo : SUBSET (Keys \cup Cache!Hashes),
            live : SUBSET Cache!Hashes]

\* A publisher has put what it no longer has to put, and the entry it read was backed.
PublishedIsBacked ==
    \A p \in Procs :
        /\ proc[p].pc # "idle" => BlobsOf[proc[p].outs] \cap Unbacked \subseteq proc[p].todo
        /\ proc[p].pc = "write" => proc[p].todo = {}
        /\ proc[p].pc = "write" /\ proc[p].seen # None =>
             BlobsOf[proc[p].seen.outs] \cap Unbacked = {}

\* The entry a publisher read is still there, but for GC: nobody else writes it while
\* the publisher has the lock.
SeenIsCurrent ==
    \A p \in Procs : proc[p].pc = "write" =>
        manifest[proc[p].key] \in {proc[p].seen, None}

\* A restore has each blob of its entry that it no longer has to fetch.
FetchedIsWhole ==
    \A r \in Readers :
        /\ reader[r].pc \in {"copy", "restored"} =>
             /\ reader[r].todo \subseteq BlobsOf[reader[r].entry.outs]
             /\ reader[r].got = {<<h, "good">> : h \in BlobsOf[reader[r].entry.outs] \ reader[r].todo}
        /\ reader[r].pc = "restored" => reader[r].todo = {}

\* GC has marked the blobs of each entry it has looked at and left, unless the entry
\* was written since it began.
LookedAtIsLive ==
    gc.stage # "idle" =>
        \A k \in Keys \ during :
            manifest[k] # None /\ (gc.stage = "blobs" \/ k \notin gc.todo) =>
                BlobsOf[manifest[k].outs] \subseteq gc.live

\* The inductive invariant.
CacheInv ==
    /\ Cache!TypeOK /\ ProcType /\ ReaderType /\ GcType
    /\ Cache!EntriesAreBacked
    /\ PublishedIsBacked
    /\ SeenIsCurrent
    /\ FetchedIsWhole
    /\ LookedAtIsLive

-----------------------------------------------------------------------------

\* The blobs of outputs are hashes.
LEMMA BlobsAreHashes == \A v \in Cache!Outputs : BlobsOf[v] \subseteq Cache!Hashes
  BY DEF Cache!Outputs, Cache!Hashes

\* An entry is backed if none of its blobs is unbacked.
EntriesHaveNoneUnbacked ==
    \A k \in Keys : manifest[k] # None => BlobsOf[manifest[k].outs] \cap Unbacked = {}

\* An entry is backed when none of its blobs is unbacked.
LEMMA BackedMeansNoneUnbacked ==
    ASSUME Cache!TypeOK
    PROVE  Cache!EntriesAreBacked <=> EntriesHaveNoneUnbacked
<1>1. \A k \in Keys : manifest[k] # None => BlobsOf[manifest[k].outs] \subseteq Cache!Hashes
  BY BlobsAreHashes DEF Cache!TypeOK, Cache!Manifests
<1>2. QED
  BY <1>1 DEF Cache!EntriesAreBacked, EntriesHaveNoneUnbacked, Cache!Missing, Unbacked

\* Whoever takes a blob away writes it down as lost: no step leaves a blob unbacked
\* that was not, so what was backed stays backed.
LEMMA UnbackedShrinks ==
    ASSUME Cache!TypeOK, Cache!Next
    PROVE  Unbacked' \subseteq Unbacked
<1> USE DEF Cache!TypeOK, Unbacked
<1>1. CASE UNCHANGED <<blob, lost>>
  BY <1>1
<1>2. ASSUME NEW p \in Procs, NEW h \in Cache!Hashes, Cache!PutBlob(p, h)
      PROVE  Unbacked' \subseteq Unbacked
  BY <1>2 DEF Cache!PutBlob
<1>3. ASSUME NEW h \in Cache!Hashes, Cache!SweepBlob(h) \/ Cache!Corrupt(h)
      PROVE  Unbacked' \subseteq Unbacked
  BY <1>3 DEF Cache!SweepBlob, Cache!Corrupt
<1>4. CASE \E p \in Procs : Cache!Publishing(p, Keys, Cache!Outputs, Timeouts)
  BY <1>1, <1>2, <1>4
     DEF Cache!Publishing, Cache!Publish, Cache!Hydrate, Cache!ReadExisting, Cache!WriteManifest,
         Cache!PutAction,
                          Cache!Alias, Cache!Kill
<1>5. CASE \E r \in Readers : Cache!Restoring(r)
  BY <1>1, <1>5
     DEF Cache!Restoring, Cache!ReadManifest, Cache!FetchBlob, Cache!Restored, Cache!NextRestore
<1>6. CASE Cache!Collecting
  BY <1>1, <1>3, <1>6
     DEF Cache!Collecting, Cache!StartGc, Cache!CollectAction, Cache!StartSweep, Cache!EndGc
<1>7. CASE \E f \in Keys \cup Cache!Hashes : Cache!Age(f)
  BY <1>1, <1>7 DEF Cache!Age
<1>8. QED
  BY <1>3, <1>4, <1>5, <1>6, <1>7 DEF Cache!Next

-----------------------------------------------------------------------------

\* What a publisher decides to leave is a manifest.
LEMMA DecideType ==
    ASSUME Cache!Parameters, NEW seen \in Cache!Manifests \cup {None}, NEW m \in Cache!Manifests
    PROVE  Cache!Decide(seen, m) \in Cache!Manifests
<1>1. Cache!Stronger(seen.timeout, m.timeout) \in Timeouts \/ ~Cache!Usable(seen)
  BY DEF Cache!Stronger, Cache!Usable, Cache!Manifests
<1>2. QED
  BY <1>1 DEF Cache!Decide, Cache!Usable, Cache!Manifests

\* Nor do a publisher that has read an entry and a restore that has fetched a blob
\* change their shape.
LEMMA ReadRecord ==
    ASSUME NEW rec \in ProcRecords, NEW m \in Cache!Manifests \cup {None}
    PROVE  [rec EXCEPT !.pc = "write", !.seen = m] \in ProcRecords
  BY DEF ProcRecords

\* A blob fetched keeps the record of a restore well-formed.
LEMMA FetchedRecord ==
    ASSUME NEW rec \in ReaderRecords, NEW h \in Cache!Hashes
    PROVE  [rec EXCEPT !.todo = rec.todo \ {h}, !.got = rec.got \cup {<<h, "good">>}] \in ReaderRecords
<1>1. rec.got \cup {<<h, "good">>} \in SUBSET (Cache!Hashes \X {"good"})
  BY DEF ReaderRecords
<1>2. rec.todo \ {h} \in SUBSET Cache!Hashes
  BY DEF ReaderRecords
<1>3. QED
  BY <1>1, <1>2 DEF ReaderRecords

\* Every step of a publisher keeps the types, and its locks with them: a publisher
\* that is past Publish has the lock of its key.
LEMMA PublishingTypes ==
    ASSUME Cache!Parameters, Cache!TypeOK, ProcType, NEW p \in Procs,
           Cache!Publishing(p, Keys, Cache!Outputs, Timeouts)
    PROVE  Cache!TypeOK' /\ ProcType'
<1> USE DEF Cache!TypeOK, ProcType, ProcRecords
<1>1. ASSUME NEW k \in Keys, NEW v \in Cache!Outputs, NEW t \in Timeouts, Cache!Publish(p, k, v, t)
      PROVE  Cache!TypeOK' /\ ProcType'
  BY <1>1, BlobsAreHashes DEF Cache!Publish, Cache!Parameters
<1>2. ASSUME NEW k \in Keys, NEW v \in Cache!Outputs, NEW t \in Timeouts, Cache!Hydrate(p, k, v, t)
      PROVE  Cache!TypeOK' /\ ProcType'
  BY <1>2, BlobsAreHashes DEF Cache!Hydrate
<1>3. ASSUME NEW h \in Cache!Hashes, Cache!PutBlob(p, h)
      PROVE  Cache!TypeOK' /\ ProcType'
  BY <1>3 DEF Cache!PutBlob
<1>4. CASE Cache!ReadExisting(p)
  <2>1. proc[p].key \in Keys /\ manifest[proc[p].key] \in Cache!Manifests \cup {None}
    BY <1>4 DEF Cache!ReadExisting
  <2>2. proc' \in [Procs -> ProcRecords]
    <3> HIDE DEF ProcRecords, Cache!TypeOK
    <3>1. proc' = [proc EXCEPT ![p] = [proc[p] EXCEPT !.pc = "write",
                                       !.seen = manifest[proc[p].key]]]
      BY <1>4 DEF Cache!ReadExisting
    <3>2. QED
      BY <2>1, <3>1, ReadRecord
  <2>3. /\ proc[p].pc = "blobs" /\ proc'[p].pc = "write" /\ proc'[p].key = proc[p].key
        /\ proc'[p].outs = proc[p].outs /\ proc'[p].timeout = proc[p].timeout
        /\ \A q \in Procs \ {p} : proc'[q] = proc[q]
    BY <1>4 DEF Cache!ReadExisting
  <2>4. ProcType'
    BY <2>2, <2>3
  <2>5. UNCHANGED <<manifest, blob, old, lock, reader, gc, lost, during>>
    BY <1>4 DEF Cache!ReadExisting
  <2>6. Cache!TypeOK'
    BY <2>3, <2>5
  <2>7. QED
    BY <2>4, <2>6
<1>5. CASE Cache!WriteManifest(p)
  <2> DEFINE m == [outs |-> proc[p].outs, timeout |-> proc[p].timeout]
  <2>1. Cache!Decide(proc[p].seen, m) \in Cache!Manifests
    BY <1>5, DecideType DEF Cache!WriteManifest, Cache!Manifests
  <2>2. manifest' \in [Keys -> Cache!Manifests \cup {None}] /\ old' \subseteq Keys \cup Cache!Hashes
        /\ during' \subseteq Keys
    BY <1>5, <2>1 DEF Cache!WriteManifest, Cache!SetManifest
  <2>3. lock' = Cache!Free(p) /\ proc' = [proc EXCEPT ![p] = Cache!IdleProc]
        /\ UNCHANGED <<blob, reader, gc, lost>>
    BY <1>5 DEF Cache!WriteManifest
  <2>4. QED
    BY <2>2, <2>3 DEF Cache!Free, Cache!IdleProc, Cache!Parameters
<1>6. CASE Cache!PutAction(p)
  BY <1>6 DEF Cache!PutAction, Cache!SetManifest, Cache!IdleProc, Cache!Manifests
<1>7. ASSUME NEW k \in Keys, NEW new \in Keys, Cache!Alias(p, k, new)
      PROVE  Cache!TypeOK' /\ ProcType'
  BY <1>7 DEF Cache!Alias, Cache!SetManifest, Cache!Usable
<1>8. CASE Cache!Kill(p)
  BY <1>8 DEF Cache!Kill, Cache!Free, Cache!IdleProc, Cache!Parameters
<1>9. QED
  BY <1>1, <1>2, <1>3, <1>4, <1>5, <1>6, <1>7, <1>8 DEF Cache!Publishing

\* So do restores, of their own types.
LEMMA RestoringTypes ==
    ASSUME Cache!TypeOK, ReaderType, NEW r \in Readers, Cache!Restoring(r)
    PROVE  Cache!TypeOK' /\ ReaderType'
<1> USE DEF Cache!TypeOK, ReaderType, ReaderRecords
<1>1. ASSUME NEW k \in Keys, Cache!ReadManifest(r, k)
      PROVE  Cache!TypeOK' /\ ReaderType'
  BY <1>1, BlobsAreHashes DEF Cache!ReadManifest, Cache!IdleReader, Cache!Manifests
<1>2. ASSUME NEW h \in Cache!Hashes, Cache!FetchBlob(r, h)
      PROVE  Cache!TypeOK' /\ ReaderType'
  <2>1. CASE blob[h] # "good"
    BY <1>2, <2>1 DEF Cache!FetchBlob, Cache!IdleReader
  <2>2. CASE blob[h] = "good"
    <3>1. reader' = [reader EXCEPT ![r] = [reader[r] EXCEPT !.todo = @ \ {h},
                                           !.got = @ \cup {<<h, "good">>}]]
      BY <1>2, <2>2 DEF Cache!FetchBlob
    <3>2. reader' \in [Readers -> ReaderRecords]
      <4> HIDE DEF ReaderRecords, Cache!TypeOK
      <4>1. QED
        BY <3>1, FetchedRecord
    <3>3. reader'[r].key = reader[r].key /\ reader'[r].entry = reader[r].entry
          /\ \A q \in Readers \ {r} : reader'[q] = reader[q]
      BY <3>1
    <3>4. reader[r].pc = "copy" /\ UNCHANGED <<manifest, blob, old, lock, proc, gc, lost, during>>
      BY <1>2 DEF Cache!FetchBlob
    <3>5. reader'[r].pc = "copy"
      BY <3>1, <3>4
    <3>6. ReaderType'
      BY <3>2, <3>3, <3>4
    <3>7. Cache!TypeOK'
      BY <3>3, <3>4, <3>5
    <3>8. QED
      BY <3>6, <3>7
  <2>3. QED
    BY <2>1, <2>2
<1>3. CASE Cache!Restored(r)
  BY <1>3 DEF Cache!Restored
<1>4. CASE Cache!NextRestore(r)
  BY <1>4 DEF Cache!NextRestore, Cache!IdleReader
<1>5. QED
  BY <1>1, <1>2, <1>3, <1>4 DEF Cache!Restoring

\* And GC.
LEMMA CollectingTypes ==
    ASSUME Cache!TypeOK, GcType, Cache!Collecting
    PROVE  Cache!TypeOK' /\ GcType'
<1> USE BlobsAreHashes DEF Cache!TypeOK, GcType, Cache!Manifests
<1>1. CASE Cache!StartGc
  BY <1>1 DEF Cache!StartGc
<1>2. ASSUME NEW k \in Keys, Cache!CollectAction(k)
      PROVE  Cache!TypeOK' /\ GcType'
  <2>1. CASE manifest[k] # None /\ k \in old
    BY <1>2, <2>1 DEF Cache!CollectAction
  <2>2. CASE ~(manifest[k] # None /\ k \in old)
    <3> DEFINE live == IF manifest[k] = None THEN gc.live
                       ELSE gc.live \cup BlobsOf[manifest[k].outs]
    <3>1. gc' = [stage |-> gc.stage, todo |-> gc.todo \ {k}, live |-> live]
      BY <1>2, <2>2 DEF Cache!CollectAction
    <3>2. live \subseteq Cache!Hashes
      OBVIOUS
    <3>3. QED
      BY <1>2, <2>2, <3>1, <3>2 DEF Cache!CollectAction
  <2>3. QED
    BY <2>1, <2>2
<1>3. CASE Cache!StartSweep
  BY <1>3 DEF Cache!StartSweep
<1>4. ASSUME NEW h \in Cache!Hashes, Cache!SweepBlob(h)
      PROVE  Cache!TypeOK' /\ GcType'
  BY <1>4 DEF Cache!SweepBlob
<1>5. CASE Cache!EndGc
  BY <1>5 DEF Cache!EndGc, Cache!IdleGc
<1>6. QED
  BY <1>1, <1>2, <1>3, <1>4, <1>5 DEF Cache!Collecting

\* Init and every step: the types.
LEMMA TypesHold ==
    /\ Cache!Parameters /\ Cache!Init => Cache!TypeOK /\ ProcType /\ ReaderType /\ GcType
    /\ Cache!Parameters /\ Cache!TypeOK /\ ProcType /\ ReaderType /\ GcType /\
         [Cache!Next]_(Cache!vars) =>
         Cache!TypeOK' /\ ProcType' /\ ReaderType' /\ GcType'
<1>1. ASSUME Cache!Parameters, Cache!Init
      PROVE  Cache!TypeOK /\ ProcType /\ ReaderType /\ GcType
  BY <1>1
     DEF Cache!Init, Cache!TypeOK, ProcType, ProcRecords, ReaderType, ReaderRecords, GcType,
         Cache!IdleProc,
              Cache!IdleReader, Cache!IdleGc
<1>2. ASSUME Cache!Parameters, Cache!TypeOK, ProcType, ReaderType, GcType, [Cache!Next]_(Cache!vars)
      PROVE  Cache!TypeOK' /\ ProcType' /\ ReaderType' /\ GcType'
  <2>1. ASSUME UNCHANGED proc
        PROVE  ProcType'
    BY <1>2, <2>1 DEF ProcType, ProcRecords
  <2>2. ASSUME UNCHANGED reader
        PROVE  ReaderType'
    BY <1>2, <2>2 DEF ReaderType, ReaderRecords
  <2>3. ASSUME UNCHANGED gc
        PROVE  GcType'
    BY <1>2, <2>3 DEF GcType
  <2>4. ASSUME NEW p \in Procs, Cache!Publishing(p, Keys, Cache!Outputs, Timeouts)
        PROVE  UNCHANGED <<reader, gc>>
    BY <2>4
       DEF Cache!Publishing, Cache!Publish, Cache!Hydrate, Cache!PutBlob, Cache!ReadExisting,
           Cache!WriteManifest, Cache!PutAction,
                Cache!Alias, Cache!Kill
  <2>5. ASSUME NEW r \in Readers, Cache!Restoring(r)
        PROVE  UNCHANGED <<proc, gc>>
    BY <2>5
       DEF Cache!Restoring, Cache!ReadManifest, Cache!FetchBlob, Cache!Restored, Cache!NextRestore
  <2>6. ASSUME Cache!Collecting
        PROVE  UNCHANGED <<proc, reader>>
    BY <2>6
       DEF Cache!Collecting, Cache!StartGc, Cache!CollectAction, Cache!StartSweep,
           Cache!SweepBlob, Cache!EndGc
  <2>7. ASSUME NEW f \in Keys \cup Cache!Hashes, Cache!Age(f)
        PROVE  Cache!TypeOK' /\ UNCHANGED <<proc, reader, gc>>
    BY <1>2, <2>7 DEF Cache!Age, Cache!TypeOK
  <2>8. ASSUME NEW h \in Cache!Hashes, Cache!Corrupt(h)
        PROVE  Cache!TypeOK' /\ UNCHANGED <<proc, reader, gc>>
    BY <1>2, <2>8 DEF Cache!Corrupt, Cache!TypeOK
  <2>9. CASE UNCHANGED Cache!vars
    BY <1>2, <2>1, <2>2, <2>3, <2>9 DEF Cache!vars, Cache!TypeOK
  <2>10. CASE Cache!Next
    BY <1>2, <2>1, <2>2, <2>3, <2>4, <2>5, <2>6, <2>7, <2>8, <2>10, PublishingTypes,
       RestoringTypes, CollectingTypes DEF Cache!Next
  <2>11. QED
    BY <1>2, <2>9, <2>10
<1>3. QED
  BY <1>1, <1>2

-----------------------------------------------------------------------------

\* What a publisher has put stays put or is lost, until its manifest is there: each
\* step of a publisher leaves every entry backed.
LEMMA PublishingIsBacked ==
    ASSUME CacheInv, NEW p \in Procs, Cache!Publishing(p, Keys, Cache!Outputs, Timeouts)
    PROVE  EntriesHaveNoneUnbacked' /\ PublishedIsBacked'
<1>1. EntriesHaveNoneUnbacked
  BY BackedMeansNoneUnbacked DEF CacheInv
<1>2. Unbacked' \subseteq Unbacked
  BY UnbackedShrinks DEF CacheInv, Cache!Next
<1>3. ASSUME UNCHANGED manifest
      PROVE  EntriesHaveNoneUnbacked'
  BY <1>1, <1>2, <1>3 DEF EntriesHaveNoneUnbacked
<1>4. ASSUME NEW q \in Procs, proc'[q] = proc[q]
      PROVE  /\ proc'[q].pc # "idle" => BlobsOf[proc'[q].outs] \cap Unbacked' \subseteq proc'[q].todo
             /\ proc'[q].pc = "write" => proc'[q].todo = {}
             /\ proc'[q].pc = "write" /\ proc'[q].seen # None =>
                  BlobsOf[proc'[q].seen.outs] \cap Unbacked' = {}
  BY <1>2, <1>4 DEF CacheInv, PublishedIsBacked
<1>5. ASSUME NEW k \in Keys, NEW v \in Cache!Outputs, NEW t \in Timeouts,
             Cache!Publish(p, k, v, t) \/ Cache!Hydrate(p, k, v, t)
      PROVE  EntriesHaveNoneUnbacked' /\ PublishedIsBacked'
  BY <1>3, <1>4, <1>5 DEF CacheInv, ProcType, Cache!Publish, Cache!Hydrate, PublishedIsBacked
<1>6. ASSUME NEW h \in Cache!Hashes, Cache!PutBlob(p, h)
      PROVE  EntriesHaveNoneUnbacked' /\ PublishedIsBacked'
  <2>1. h \notin Unbacked'
    BY <1>6 DEF Cache!PutBlob, CacheInv, Cache!TypeOK, Unbacked
  <2>2. proc' = [proc EXCEPT ![p].todo = @ \ {h}] /\ proc[p].pc \in {"blobs", "copy"}
        /\ UNCHANGED manifest
    BY <1>6 DEF Cache!PutBlob
  <2>3. proc'[p].pc = proc[p].pc /\ proc'[p].outs = proc[p].outs
        /\ proc'[p].todo = proc[p].todo \ {h} /\ \A q \in Procs \ {p} : proc'[q] = proc[q]
    BY <2>2 DEF CacheInv, ProcType, ProcRecords
  <2>4. BlobsOf[proc[p].outs] \cap Unbacked \subseteq proc[p].todo
    BY <2>2 DEF CacheInv, PublishedIsBacked
  <2>5. BlobsOf[proc'[p].outs] \cap Unbacked' \subseteq proc'[p].todo
    BY <1>2, <2>1, <2>3, <2>4
  <2>6. QED
    BY <1>3, <1>4, <2>2, <2>3, <2>5 DEF PublishedIsBacked
<1>7. CASE Cache!ReadExisting(p)
  <2>1. /\ proc[p].pc = "blobs" /\ proc[p].todo = {} /\ proc[p].key \in Keys
        /\ UNCHANGED manifest
    BY <1>7 DEF Cache!ReadExisting, CacheInv, ProcType
  <2>2. /\ proc'[p].outs = proc[p].outs /\ proc'[p].todo = proc[p].todo
        /\ proc'[p].seen = manifest[proc[p].key] /\ \A q \in Procs \ {p} : proc'[q] = proc[q]
    BY <1>7 DEF Cache!ReadExisting, CacheInv, ProcType, ProcRecords
  <2>3. BlobsOf[proc[p].outs] \cap Unbacked \subseteq proc[p].todo
    BY <2>1 DEF CacheInv, PublishedIsBacked
  <2>4. manifest[proc[p].key] # None => BlobsOf[manifest[proc[p].key].outs] \cap Unbacked = {}
    BY <1>1, <2>1 DEF EntriesHaveNoneUnbacked
  <2>5. QED
    BY <1>2, <1>3, <1>4, <2>1, <2>2, <2>3, <2>4 DEF PublishedIsBacked
<1>8. CASE Cache!WriteManifest(p) \/ Cache!PutAction(p)
  <2>1. /\ proc[p].pc \in {"write", "copy"} /\ proc[p].todo = {} /\ proc[p].key \in Keys
        /\ proc' = [proc EXCEPT ![p] = Cache!IdleProc]
    BY <1>8 DEF Cache!WriteManifest, Cache!PutAction, CacheInv, ProcType, PublishedIsBacked
  <2>2. PublishedIsBacked'
    BY <1>4, <2>1 DEF PublishedIsBacked, Cache!IdleProc, CacheInv, ProcType
  <2>3. BlobsOf[proc[p].outs] \cap Unbacked = {}
    BY <2>1 DEF CacheInv, PublishedIsBacked
  <2>4. \/ UNCHANGED manifest
        \/ \E m : /\ manifest' = [manifest EXCEPT ![proc[p].key] = m]
                  /\ m.outs = proc[p].outs \/ (m = proc[p].seen /\ m # None /\ proc[p].pc = "write")
    BY <1>8 DEF Cache!WriteManifest, Cache!PutAction, Cache!SetManifest, Cache!Decide, Cache!Usable
  <2>5. proc[p].pc = "write" /\ proc[p].seen # None => BlobsOf[proc[p].seen.outs] \cap Unbacked = {}
    BY DEF CacheInv, PublishedIsBacked
  <2>6. EntriesHaveNoneUnbacked'
    BY <1>1, <1>2, <1>3, <2>1, <2>3, <2>4, <2>5 DEF EntriesHaveNoneUnbacked, CacheInv, Cache!TypeOK
  <2>7. QED
    BY <2>2, <2>6
<1>9. ASSUME NEW k \in Keys, NEW new \in Keys, Cache!Alias(p, k, new)
      PROVE  EntriesHaveNoneUnbacked' /\ PublishedIsBacked'
  BY <1>1, <1>2, <1>4, <1>9
     DEF Cache!Alias, Cache!SetManifest, Cache!Usable, EntriesHaveNoneUnbacked,
                                PublishedIsBacked, CacheInv, Cache!TypeOK
<1>10. CASE Cache!Kill(p)
  BY <1>3, <1>4, <1>10 DEF Cache!Kill, PublishedIsBacked, Cache!IdleProc, CacheInv, ProcType
<1>11. QED
  BY <1>5, <1>6, <1>7, <1>8, <1>9, <1>10 DEF Cache!Publishing

\* Only publishers write entries; GC takes them away.
LEMMA OnlyPublishersWrite ==
    ASSUME Cache!TypeOK, Cache!Next
    PROVE  \/ \E p \in Procs : Cache!Publishing(p, Keys, Cache!Outputs, Timeouts)
           \/ UNCHANGED proc /\ \A k \in Keys : manifest'[k] \in {manifest[k], None}
<1>1. ASSUME NEW r \in Readers, Cache!Restoring(r)
      PROVE  UNCHANGED <<proc, manifest>>
  BY <1>1
     DEF Cache!Restoring, Cache!ReadManifest, Cache!FetchBlob, Cache!Restored, Cache!NextRestore
<1>2. ASSUME Cache!Collecting
      PROVE  UNCHANGED proc /\ \A k \in Keys : manifest'[k] \in {manifest[k], None}
  BY <1>2
     DEF Cache!Collecting, Cache!StartGc, Cache!CollectAction, Cache!StartSweep, Cache!SweepBlob,
         Cache!EndGc, Cache!TypeOK
<1>3. ASSUME NEW f \in Keys \cup Cache!Hashes, Cache!Age(f)
      PROVE  UNCHANGED <<proc, manifest>>
  BY <1>3 DEF Cache!Age
<1>4. ASSUME NEW h \in Cache!Hashes, Cache!Corrupt(h)
      PROVE  UNCHANGED <<proc, manifest>>
  BY <1>4 DEF Cache!Corrupt
<1>5. QED
  BY <1>1, <1>2, <1>3, <1>4 DEF Cache!Next

\* No step leaves an entry, or what a publisher is about to write, unbacked.
LEMMA BackedStep ==
    ASSUME CacheInv, Cache!Next
    PROVE  EntriesHaveNoneUnbacked' /\ PublishedIsBacked'
<1>1. EntriesHaveNoneUnbacked /\ Unbacked' \subseteq Unbacked
  BY BackedMeansNoneUnbacked, UnbackedShrinks DEF CacheInv
<1>2. ASSUME UNCHANGED proc, \A k \in Keys : manifest'[k] \in {manifest[k], None}
      PROVE  EntriesHaveNoneUnbacked' /\ PublishedIsBacked'
  BY <1>1, <1>2 DEF EntriesHaveNoneUnbacked, PublishedIsBacked, CacheInv
<1>3. QED
  BY <1>2, OnlyPublishersWrite, PublishingIsBacked DEF CacheInv

-----------------------------------------------------------------------------

\* Two publishers past Publish never have the same key.
LEMMA WritersAreApart ==
    ASSUME CacheInv, NEW p \in Procs, NEW q \in Procs, p # q,
           proc[p].pc \in {"blobs", "write"}, proc[q].pc \in {"blobs", "write"}
    PROVE  proc[p].key # proc[q].key
  BY DEF CacheInv, Cache!TypeOK

\* The entry of a key that a publisher has locked is not written by anyone else, so
\* what the publisher read of it is what its decision replaces, or GC took it.
LEMMA SeenStep ==
    ASSUME Cache!Parameters, CacheInv, Cache!Next
    PROVE  SeenIsCurrent'
<1> USE DEF SeenIsCurrent
<1>1. ASSUME UNCHANGED proc, \A k \in Keys : manifest'[k] \in {manifest[k], None}
      PROVE  SeenIsCurrent'
  BY <1>1 DEF CacheInv, ProcType
<1>2. ASSUME NEW p \in Procs, Cache!Publishing(p, Keys, Cache!Outputs, Timeouts)
      PROVE  SeenIsCurrent'
  <2>1. ASSUME NEW k \in Keys, NEW v \in Cache!Outputs, NEW t \in Timeouts,
               Cache!Publish(p, k, v, t) \/ Cache!Hydrate(p, k, v, t)
        PROVE  SeenIsCurrent'
    BY <2>1 DEF Cache!Publish, Cache!Hydrate, CacheInv, ProcType
  <2>2. ASSUME NEW h \in Cache!Hashes, Cache!PutBlob(p, h)
        PROVE  SeenIsCurrent'
    <3>1. proc'[p].pc # "write" /\ \A q \in Procs \ {p} : proc'[q] = proc[q]
      BY <2>2 DEF Cache!PutBlob, CacheInv, ProcType, ProcRecords
    <3>2. UNCHANGED manifest
      BY <2>2 DEF Cache!PutBlob
    <3>3. QED
      BY <3>1, <3>2 DEF CacheInv
  <2>3. CASE Cache!ReadExisting(p)
    <3>1. proc'[p].key = proc[p].key /\ proc'[p].seen = manifest[proc[p].key]
          /\ \A q \in Procs \ {p} : proc'[q] = proc[q]
      BY <2>3 DEF Cache!ReadExisting, CacheInv, ProcType, ProcRecords
    <3>2. UNCHANGED manifest
      BY <2>3 DEF Cache!ReadExisting
    <3>3. QED
      BY <3>1, <3>2 DEF CacheInv
  <2>4. CASE Cache!WriteManifest(p)
    <3>1. /\ proc[p].pc = "write" /\ proc[p].key \in Keys
          /\ proc' = [proc EXCEPT ![p] = Cache!IdleProc]
          /\ \A k \in Keys \ {proc[p].key} : manifest'[k] = manifest[k]
      BY <2>4 DEF Cache!WriteManifest, Cache!SetManifest, CacheInv, Cache!TypeOK, ProcType
    <3>2. ASSUME NEW q \in Procs, proc'[q].pc = "write"
          PROVE  q # p /\ proc[q].key \in Keys \ {proc[p].key} /\ proc'[q] = proc[q]
      <4>1. q # p /\ proc'[q] = proc[q]
        BY <3>1, <3>2 DEF Cache!IdleProc, CacheInv, ProcType
      <4>2. QED
        BY <3>1, <3>2, <4>1, WritersAreApart DEF CacheInv, ProcType
    <3>3. QED
      BY <3>1, <3>2 DEF CacheInv
  <2>5. CASE Cache!PutAction(p)
    <3>1. /\ proc[p].pc = "copy" /\ proc[p].key \in Keys /\ lock[proc[p].key] = None
          /\ proc' = [proc EXCEPT ![p] = Cache!IdleProc]
          /\ \A k \in Keys \ {proc[p].key} : manifest'[k] = manifest[k]
      BY <2>5 DEF Cache!PutAction, Cache!SetManifest, CacheInv, Cache!TypeOK, ProcType
    <3>2. ASSUME NEW q \in Procs, proc'[q].pc = "write"
          PROVE  proc[q].key \in Keys \ {proc[p].key} /\ proc'[q] = proc[q]
      <4>1. q # p /\ proc'[q] = proc[q]
        BY <3>1, <3>2 DEF Cache!IdleProc, CacheInv, ProcType
      <4>2. lock[proc[q].key] = q /\ proc[q].key \in Keys
        BY <3>2, <4>1 DEF CacheInv, Cache!TypeOK, ProcType
      <4>3. QED
        BY <3>1, <4>1, <4>2 DEF Cache!Parameters
    <3>3. QED
      BY <3>1, <3>2 DEF CacheInv
  <2>6. ASSUME NEW k \in Keys, NEW new \in Keys, Cache!Alias(p, k, new)
        PROVE  SeenIsCurrent'
    <3>1. lock[new] = None /\ UNCHANGED proc
          /\ \A i \in Keys \ {new} : manifest'[i] = manifest[i]
      BY <2>6 DEF Cache!Alias, Cache!SetManifest, CacheInv, Cache!TypeOK
    <3>2. ASSUME NEW q \in Procs, proc[q].pc = "write"
          PROVE  proc[q].key \in Keys \ {new}
      BY <3>1, <3>2 DEF CacheInv, Cache!TypeOK, ProcType, Cache!Parameters
    <3>3. QED
      BY <3>1, <3>2 DEF CacheInv
  <2>7. CASE Cache!Kill(p)
    BY <2>7 DEF Cache!Kill, Cache!IdleProc, CacheInv, ProcType
  <2>8. QED
    BY <1>2, <2>1, <2>2, <2>3, <2>4, <2>5, <2>6, <2>7 DEF Cache!Publishing
<1>3. QED
  BY <1>1, <1>2, OnlyPublishersWrite DEF CacheInv

-----------------------------------------------------------------------------

\* A restore that has copied a blob copied it as its hash says.
LEMMA FetchedStep ==
    ASSUME CacheInv, Cache!Next
    PROVE  FetchedIsWhole'
<1> USE DEF FetchedIsWhole
<1>1. ASSUME UNCHANGED reader
      PROVE  FetchedIsWhole'
  BY <1>1 DEF CacheInv
<1>2. ASSUME NEW r \in Readers, Cache!Restoring(r)
      PROVE  FetchedIsWhole'
  <2>1. ASSUME NEW k \in Keys, Cache!ReadManifest(r, k)
        PROVE  FetchedIsWhole'
    BY <2>1 DEF Cache!ReadManifest, Cache!IdleReader, CacheInv, ReaderType
  <2>2. ASSUME NEW h \in Cache!Hashes, Cache!FetchBlob(r, h), blob[h] # "good"
        PROVE  FetchedIsWhole'
    BY <2>2 DEF Cache!FetchBlob, Cache!IdleReader, CacheInv, ReaderType
  <2>3. ASSUME NEW h \in Cache!Hashes, Cache!FetchBlob(r, h), blob[h] = "good"
        PROVE  FetchedIsWhole'
    <3>1. reader' = [reader EXCEPT ![r] = [reader[r] EXCEPT !.todo = @ \ {h},
                                           !.got = @ \cup {<<h, "good">>}]]
      BY <2>3 DEF Cache!FetchBlob
    <3>2. /\ reader'[r].pc = reader[r].pc /\ reader'[r].entry = reader[r].entry
          /\ reader'[r].todo = reader[r].todo \ {h}
          /\ reader'[r].got = reader[r].got \cup {<<h, "good">>}
          /\ \A q \in Readers \ {r} : reader'[q] = reader[q]
      BY <3>1 DEF CacheInv, ReaderType, ReaderRecords
    <3>3. reader[r].pc = "copy" /\ h \in reader[r].todo
      BY <2>3 DEF Cache!FetchBlob
    <3>4. h \in BlobsOf[reader[r].entry.outs]
      BY <3>3 DEF CacheInv
    <3>5. QED
      BY <3>2, <3>3, <3>4 DEF CacheInv
  <2>4. CASE Cache!Restored(r)
    <3>1. /\ reader'[r].entry = reader[r].entry /\ reader'[r].todo = reader[r].todo
          /\ reader'[r].got = reader[r].got /\ \A q \in Readers \ {r} : reader'[q] = reader[q]
      BY <2>4 DEF Cache!Restored, CacheInv, ReaderType, ReaderRecords
    <3>2. reader[r].pc = "copy" /\ reader[r].todo = {}
      BY <2>4 DEF Cache!Restored
    <3>3. QED
      BY <3>1, <3>2 DEF CacheInv
  <2>5. CASE Cache!NextRestore(r)
    BY <2>5 DEF Cache!NextRestore, Cache!IdleReader, CacheInv, ReaderType
  <2>6. QED
    BY <1>2, <2>1, <2>2, <2>3, <2>4, <2>5 DEF Cache!Restoring
<1>3. ASSUME ~\E r \in Readers : Cache!Restoring(r)
      PROVE  UNCHANGED reader
  BY <1>3
     DEF Cache!Next, Cache!Publishing, Cache!Publish, Cache!Hydrate, Cache!PutBlob,
         Cache!ReadExisting, Cache!WriteManifest, Cache!PutAction,
              Cache!Alias, Cache!Kill, Cache!Collecting, Cache!StartGc, Cache!CollectAction,
              Cache!StartSweep, Cache!SweepBlob, Cache!EndGc, Cache!Age,
              Cache!Corrupt
<1>4. QED
  BY <1>1, <1>2, <1>3

\* An entry that GC has passed stays as it is or is noted as written since it began.
LEMMA LiveStep ==
    ASSUME CacheInv, Cache!Next
    PROVE  LookedAtIsLive'
<1> USE DEF LookedAtIsLive
<1>1. ASSUME UNCHANGED gc, during \subseteq during',
             \A k \in Keys \ during' : manifest'[k] \in {manifest[k], None}
      PROVE  LookedAtIsLive'
  BY <1>1 DEF CacheInv
<1>2. ASSUME NEW p \in Procs, Cache!Publishing(p, Keys, Cache!Outputs, Timeouts)
      PROVE  /\ UNCHANGED gc /\ during \subseteq during'
             /\ \A k \in Keys \ during' : manifest'[k] \in {manifest[k], None}
  BY <1>2
     DEF Cache!Publishing, Cache!Publish, Cache!Hydrate, Cache!PutBlob, Cache!ReadExisting,
         Cache!WriteManifest, Cache!PutAction, Cache!Alias,
              Cache!Kill, Cache!SetManifest, CacheInv, Cache!TypeOK
<1>3. ASSUME NEW r \in Readers, Cache!Restoring(r)
      PROVE  UNCHANGED <<manifest, gc, during>>
  BY <1>3
     DEF Cache!Restoring, Cache!ReadManifest, Cache!FetchBlob, Cache!Restored, Cache!NextRestore
<1>4. ASSUME (\E f \in Keys \cup Cache!Hashes : Cache!Age(f))
             \/ (\E h \in Cache!Hashes : Cache!Corrupt(h))
      PROVE  UNCHANGED <<manifest, gc, during>>
  BY <1>4 DEF Cache!Age, Cache!Corrupt
<1>5. ASSUME Cache!Collecting
      PROVE  LookedAtIsLive'
  <2>1. CASE Cache!StartGc
    BY <2>1 DEF Cache!StartGc
  <2>2. ASSUME NEW k \in Keys, Cache!CollectAction(k), manifest[k] # None /\ k \in old
        PROVE  LookedAtIsLive'
    <3>1. /\ gc'.stage = gc.stage /\ gc'.live = gc.live /\ gc'.todo = gc.todo \ {k}
          /\ gc.stage = "actions"
      BY <2>2 DEF Cache!CollectAction, CacheInv, GcType
    <3>2. manifest'[k] = None /\ UNCHANGED during
          /\ \A i \in Keys \ {k} : manifest'[i] = manifest[i]
      BY <2>2 DEF Cache!CollectAction, CacheInv, Cache!TypeOK
    <3>3. QED
      BY <3>1, <3>2 DEF CacheInv
  <2>3. ASSUME NEW k \in Keys, Cache!CollectAction(k), ~(manifest[k] # None /\ k \in old)
        PROVE  LookedAtIsLive'
    <3>1. /\ gc'.stage = gc.stage /\ gc'.todo = gc.todo \ {k} /\ gc.stage = "actions"
          /\ gc'.live = IF manifest[k] = None THEN gc.live ELSE gc.live \cup BlobsOf[manifest[k].outs]
      BY <2>3 DEF Cache!CollectAction, CacheInv, GcType
    <3>2. UNCHANGED <<manifest, during>>
      BY <2>3 DEF Cache!CollectAction
    <3>3. QED
      BY <3>1, <3>2 DEF CacheInv
  <2>4. CASE Cache!StartSweep
    BY <2>4 DEF Cache!StartSweep, CacheInv, GcType
  <2>5. ASSUME NEW h \in Cache!Hashes, Cache!SweepBlob(h)
        PROVE  LookedAtIsLive'
    BY <2>5 DEF Cache!SweepBlob, CacheInv, GcType
  <2>6. CASE Cache!EndGc
    BY <2>6 DEF Cache!EndGc, Cache!IdleGc
  <2>7. QED
    BY <1>5, <2>1, <2>2, <2>3, <2>4, <2>5, <2>6 DEF Cache!Collecting
<1>6. QED
  BY <1>1, <1>2, <1>3, <1>4, <1>5 DEF Cache!Next

-----------------------------------------------------------------------------

\* The invariant holds of an empty cache.
LEMMA CacheInit ==
    ASSUME Cache!Parameters, Cache!Init
    PROVE  CacheInv
<1>1. Cache!TypeOK /\ ProcType /\ ReaderType /\ GcType
  BY TypesHold
<1>2. Cache!EntriesAreBacked /\ PublishedIsBacked /\ SeenIsCurrent /\ FetchedIsWhole /\ LookedAtIsLive
  BY DEF Cache!Init, Cache!IdleProc, Cache!IdleReader, Cache!IdleGc, Cache!EntriesAreBacked,
     PublishedIsBacked, SeenIsCurrent,
         FetchedIsWhole, LookedAtIsLive
<1>3. QED
  BY <1>1, <1>2 DEF CacheInv

\* Every step of the cache keeps the invariant.
LEMMA CacheStep ==
    ASSUME Cache!Parameters, CacheInv, [Cache!Next]_(Cache!vars)
    PROVE  CacheInv'
<1>1. CASE Cache!Next
  <2>1. Cache!TypeOK' /\ ProcType' /\ ReaderType' /\ GcType'
    BY TypesHold DEF CacheInv
  <2>2. Cache!EntriesAreBacked'
    <3>1. EntriesHaveNoneUnbacked'
      BY <1>1, BackedStep
    <3>2. \A k \in Keys : manifest'[k] # None => BlobsOf[manifest'[k].outs] \subseteq Cache!Hashes
      BY <2>1, BlobsAreHashes DEF Cache!TypeOK, Cache!Manifests
    <3>3. QED
      BY <3>1, <3>2 DEF Cache!EntriesAreBacked, EntriesHaveNoneUnbacked, Cache!Missing, Unbacked
  <2>3. QED
    BY <1>1, <2>1, <2>2, BackedStep, SeenStep, FetchedStep, LiveStep DEF CacheInv
<1>2. CASE UNCHANGED Cache!vars
  <2>1. Cache!TypeOK' /\ ProcType' /\ ReaderType' /\ GcType'
    BY TypesHold DEF CacheInv
  <2>2. Cache!EntriesAreBacked'
    BY <1>2 DEF Cache!vars, CacheInv, Cache!EntriesAreBacked, Cache!Missing
  <2>3. PublishedIsBacked' /\ SeenIsCurrent' /\ FetchedIsWhole' /\ LookedAtIsLive'
    BY <1>2 DEF Cache!vars, CacheInv, PublishedIsBacked, Unbacked, SeenIsCurrent, FetchedIsWhole,
                LookedAtIsLive
  <2>4. QED
    BY <2>1, <2>2, <2>3 DEF CacheInv
<1>3. QED
  BY <1>1, <1>2

\* The invariant holds of every behaviour of the cache.
LEMMA CacheInvariant ==
    ASSUME Cache!Parameters
    PROVE  Cache!Spec => []CacheInv
<1>1. Cache!Init => CacheInv
  BY CacheInit
<1>2. CacheInv /\ [Cache!Next]_(Cache!vars) => CacheInv'
  BY CacheStep
<1>3. QED
  BY <1>1, <1>2, PTL DEF Cache!Spec

\* publish_theory_cache and put_action: a publisher killed at any step, among any
\* number of others, leaves no entry without its blobs.
THEOREM CacheEntriesAreBacked ==
    ASSUME Cache!Parameters
    PROVE  Cache!Spec => []EntriesAreBacked
<1>1. CacheInv => EntriesAreBacked
  BY DEF CacheInv, EntriesAreBacked
<1>2. QED
  BY <1>1, CacheInvariant, PTL

\* materialize_theory_cache: a restore that succeeds installed one entry whole.
THEOREM CacheRestoresWhole ==
    ASSUME Cache!Parameters
    PROVE  Cache!Spec => []RestoredIsWhole
<1>1. CacheInv => RestoredIsWhole
  BY DEF CacheInv, FetchedIsWhole, RestoredIsWhole, Cache!RestoredIsWhole
<1>2. QED
  BY <1>1, CacheInvariant, PTL

\* publish_cache_manifest and put_action: whoever writes an entry, and in whatever
\* order, the stronger timeout contract stays.
THEOREM CacheContractNeverWeakens ==
    ASSUME Cache!Parameters
    PROVE  Cache!Spec => ContractNeverWeakens
<1>1. ASSUME CacheInv, [Cache!Next]_(Cache!vars)
      PROVE  [Cache!KeepsContract]_(Cache!vars)
  <2>1. ASSUME NEW k \in Keys, Cache!Usable(manifest[k]), manifest'[k] # None,
               manifest'[k].outs = manifest[k].outs, Cache!Next
        PROVE  manifest'[k].timeout <= manifest[k].timeout
    <3>1. manifest[k] \in Cache!Manifests /\ manifest[k].timeout \in Nat
      BY <1>1, <2>1 DEF CacheInv, Cache!TypeOK, Cache!Manifests, Cache!Usable, Cache!Parameters
    <3>2. CASE manifest'[k] = manifest[k]
      BY <3>1, <3>2
    <3>3. CASE manifest'[k] # manifest[k]
      <4>1. PICK p \in Procs : Cache!Publishing(p, Keys, Cache!Outputs, Timeouts)
        BY <1>1, <2>1, <3>3, OnlyPublishersWrite DEF CacheInv
      <4>2. CASE Cache!WriteManifest(p)
        <5> DEFINE m == [outs |-> proc[p].outs, timeout |-> proc[p].timeout]
        <5>1. proc[p].pc = "write" /\ proc[p].timeout \in Nat
          BY <1>1, <4>2 DEF Cache!WriteManifest, CacheInv, ProcType, Cache!Parameters
        <5>2. /\ proc[p].key = k /\ manifest'[k] = Cache!Decide(proc[p].seen, m)
              /\ manifest'[k] # proc[p].seen
          BY <1>1, <3>3, <4>2 DEF Cache!WriteManifest, Cache!SetManifest, CacheInv, Cache!TypeOK
        <5>3. proc[p].seen = manifest[k] /\ Cache!Usable(proc[p].seen)
          BY <1>1, <2>1, <5>1, <5>2 DEF CacheInv, SeenIsCurrent, Cache!Usable
        <5>4. manifest'[k] = [m EXCEPT !.timeout = Cache!Stronger(manifest[k].timeout, proc[p].timeout)]
          BY <5>2, <5>3 DEF Cache!Decide
        <5>5. manifest'[k].timeout = Cache!Stronger(manifest[k].timeout, proc[p].timeout)
          BY <5>4
        <5>6. QED
          BY <3>1, <5>1, <5>5 DEF Cache!Stronger
      <4>3. CASE Cache!PutAction(p)
        <5>1. proc[p].key = k /\ manifest'[k] = [outs |-> proc[p].outs, timeout |-> proc[p].timeout]
              /\ proc[p].timeout < manifest[k].timeout
          BY <1>1, <2>1, <3>3, <4>3
             DEF Cache!PutAction, Cache!SetManifest, CacheInv, Cache!TypeOK, Cache!Usable
        <5>2. proc[p].timeout \in Nat
          BY <1>1, <4>3 DEF Cache!PutAction, CacheInv, ProcType, Cache!Parameters
        <5>3. QED
          BY <3>1, <5>1, <5>2
      <4>4. ASSUME NEW i \in Keys, NEW new \in Keys, Cache!Alias(p, i, new)
            PROVE  FALSE
        BY <1>1, <2>1, <3>3, <4>4
           DEF Cache!Alias, Cache!SetManifest, Cache!Usable, CacheInv, Cache!TypeOK
      <4>5. QED
        BY <3>3, <4>1, <4>2, <4>3, <4>4
           DEF Cache!Publishing, Cache!Publish, Cache!Hydrate, Cache!PutBlob, Cache!ReadExisting,
               Cache!Kill
    <3>4. QED
      BY <3>2, <3>3
  <2>2. QED
    BY <1>1, <2>1 DEF Cache!KeepsContract
<1>2. QED
  BY <1>1, CacheInvariant, PTL DEF Cache!Spec, ContractNeverWeakens, Cache!ContractNeverWeakens

\* gc_root: GC takes no blob of an entry that it found and left.
THEOREM CacheGcKeepsLiveBlobs ==
    ASSUME Cache!Parameters
    PROVE  Cache!Spec => GcKeepsLiveBlobs
<1>1. ASSUME CacheInv, [Cache!Next]_(Cache!vars)
      PROVE  [Cache!KeepsLiveBlobs]_(Cache!vars)
  <2>1. ASSUME NEW h \in Cache!Hashes, gc.stage = "blobs", blob[h] # "none", blob'[h] = "none", Cache!Next
        PROVE  h \notin gc.live
    <3>1. blob'[h] # blob[h]
      BY <2>1
    <3>2. ASSUME NEW p \in Procs, Cache!Publishing(p, Keys, Cache!Outputs, Timeouts)
          PROVE  FALSE
      BY <1>1, <2>1, <3>1, <3>2
         DEF Cache!Publishing, Cache!Publish, Cache!Hydrate, Cache!PutBlob, Cache!ReadExisting,
           Cache!WriteManifest, Cache!PutAction, Cache!Alias, Cache!Kill, CacheInv, Cache!TypeOK
    <3>3. ASSUME NEW r \in Readers, Cache!Restoring(r)
          PROVE  FALSE
      BY <3>1, <3>3
         DEF Cache!Restoring, Cache!ReadManifest, Cache!FetchBlob, Cache!Restored,
             Cache!NextRestore
    <3>4. ASSUME (\E f \in Keys \cup Cache!Hashes : Cache!Age(f))
                 \/ (\E i \in Cache!Hashes : Cache!Corrupt(i))
          PROVE  FALSE
      BY <1>1, <2>1, <3>1, <3>4 DEF Cache!Age, Cache!Corrupt, CacheInv, Cache!TypeOK
    <3>5. ASSUME Cache!Collecting
          PROVE  h \notin gc.live
      BY <1>1, <3>1, <3>5
         DEF Cache!Collecting, Cache!StartGc, Cache!CollectAction, Cache!StartSweep,
             Cache!SweepBlob, Cache!EndGc,
           CacheInv, Cache!TypeOK
    <3>6. QED
      BY <2>1, <3>2, <3>3, <3>4, <3>5 DEF Cache!Next
  <2>2. QED
    BY <1>1, <2>1 DEF Cache!KeepsLiveBlobs, CacheInv, LookedAtIsLive
<1>2. QED
  BY <1>1, CacheInvariant, PTL DEF Cache!Spec, GcKeepsLiveBlobs, Cache!GcKeepsLiveBlobs

-----------------------------------------------------------------------------
(* The checkpoint budget *)

\* The shape of the state, as far as the argument needs it.
BudgetTypes ==
    /\ disk \in [Family -> Budget!Sizes] /\ index \in [Family -> Budget!Sizes]
    /\ persisted \in [Family -> Budget!Sizes] \cup {None}
    /\ dirty \in BOOLEAN /\ refreshed \in BOOLEAN /\ finalized \in BOOLEAN
    /\ stop \in {"no", "failed", "inspected"}
    /\ pc \in {"idle", "mark", "evict", "building", "measured", "write", "clear", "gcwrite", "gcclear"}
    /\ wrote \subseteq active
    /\ measured \subseteq Family \X Budget!Sizes

JobTypes ==
    /\ DOMAIN job = {"index", "todo", "over", "freed", "evicted", "before", "then"}
    /\ job.index \in [Family -> Budget!Sizes] /\ job.todo \subseteq Family
    /\ pc = "evict" => job.then \in {"building", "write", "gcwrite"}

\* A size recorded is at least the real one.
Covers(sizes) == \A f \in Family : disk[f] <= sizes[f]

\* Nodes are about only while a build builds; none is before a build's first eviction is over.
NodesOnlyInBuild ==
    \/ pc \in {"idle", "mark", "write", "clear", "gcwrite", "gcclear"}
    \/ pc = "evict" /\ (job.then # "building" \/ ~refreshed)
    => active = {}

\* From the marker to the index that replaces the old one, the old one is marked or gone.
MarkedWhileBuilding ==
    \/ pc \in {"building", "measured", "write"}
    \/ pc = "evict" /\ job.then # "gcwrite"
    \/ pc = "clear" /\ ~finalized
    => dirty \/ persisted = None

\* An index that is not marked counts no family it lists too low; it may list none.
UnmarkedNeverLow ==
    ~dirty /\ persisted # None => \A f \in Family : persisted[f] = 0 \/ disk[f] <= persisted[f]

\* The flags say that something is to be measured.
FlagsTell ==
    /\ stop = "inspected" => refreshed
    /\ pc = "measured" => refreshed

\* Until a flag says otherwise, only a node that wrote and is not done with can have made
\* a family larger than the index in memory says.
MemoryCovers ==
    ~refreshed /\ stop # "failed" =>
        /\ pc \in {"mark", "building"} \/ (pc = "evict" /\ job.then = "building") =>
             \A f \in Family : f \in wrote \/ disk[f] <= index[f]
        /\ pc = "evict" /\ job.then = "building" => Covers(job.index)

\* The last eviction of a build begins with, keeps and leaves an index that covers the disk.
FinalCovers ==
    /\ pc = "evict" /\ job.then = "write" => Covers(job.index) /\ ~finalized
    /\ pc = "write" => Covers(index) /\ ~finalized
    /\ pc = "clear" /\ finalized => Covers(persisted)
    /\ pc = "gcclear" => Covers(persisted)

\* The inductive invariant.
BudgetInv ==
    /\ BudgetTypes
    /\ JobTypes
    /\ NodesOnlyInBuild
    /\ MarkedWhileBuilding
    /\ UnmarkedNeverLow
    /\ FlagsTell
    /\ MemoryCovers
    /\ FinalCovers

-----------------------------------------------------------------------------

\* An eviction works on the sizes it is given.
LEMMA JobFacts ==
    ASSUME NEW sizes \in [Family -> Budget!Sizes], NEW protected, NEW then
    PROVE  /\ DOMAIN Budget!Job(sizes, protected, then)
                = {"index", "todo", "over", "freed", "evicted", "before", "then"}
           /\ Budget!Job(sizes, protected, then).index = sizes
           /\ Budget!Job(sizes, protected, then).todo \subseteq Family
           /\ Budget!Job(sizes, protected, then).then = then
  BY DEF Budget!Job

\* The record that stands for no eviction under way.
LEMMA NoJobFacts ==
    ASSUME Budget!Parameters
    PROVE  /\ DOMAIN Budget!NoJob = {"index", "todo", "over", "freed", "evicted", "before", "then"}
           /\ Budget!NoJob.index \in [Family -> Budget!Sizes] /\ Budget!NoJob.todo \subseteq Family
           /\ Budget!Empty \in [Family -> Budget!Sizes]
  BY DEF Budget!NoJob, Budget!Empty, Budget!Sizes, Budget!Parameters

\* create_checkpoint_budget_state: an index is taken unmeasured only when it covers the disk.
LEMMA LoadKeeps ==
    ASSUME Budget!Parameters, BudgetInv, Budget!Load
    PROVE  BudgetInv'
<1> USE DEF BudgetInv
<1>1. /\ pc = "idle" /\ pc' = "mark" /\ refreshed' = FALSE /\ finalized' = FALSE /\ stop' = "no"
      /\ index' = IF dirty THEN disk ELSE Budget!LoadOrRebuild
      /\ UNCHANGED <<disk, persisted, dirty, job, active, wrote, measured>>
  BY DEF Budget!Load
<1>2. index' \in [Family -> Budget!Sizes] /\ \A f \in Family : disk[f] <= index'[f]
  <2>1. CASE index' = disk
    BY <2>1 DEF BudgetTypes, Budget!Sizes
  <2>2. CASE ~dirty /\ index' = persisted /\ persisted # None /\ Budget!CoversDisk(persisted)
    <3>1. persisted \in [Family -> Budget!Sizes] /\ disk \in [Family -> Budget!Sizes]
      BY <2>2 DEF BudgetTypes
    <3>2. \A f \in Family : persisted[f] = 0 \/ disk[f] <= persisted[f]
      BY <2>2 DEF UnmarkedNeverLow
    <3>3. QED
      BY <2>2, <3>1, <3>2 DEF Budget!CoversDisk, Budget!Sizes
  <2>3. QED
    BY <1>1, <2>1, <2>2 DEF Budget!LoadOrRebuild
<1>3. BudgetTypes' /\ JobTypes' /\ FlagsTell' /\ NodesOnlyInBuild'
  BY <1>1, <1>2 DEF BudgetTypes, JobTypes, FlagsTell, NodesOnlyInBuild
<1>4. MarkedWhileBuilding' /\ UnmarkedNeverLow' /\ MemoryCovers' /\ FinalCovers'
  BY <1>1, <1>2 DEF MarkedWhileBuilding, UnmarkedNeverLow, MemoryCovers, FinalCovers
<1>5. QED
  BY <1>3, <1>4

\* mark_checkpoint_index_dirty: marked, or gone.
LEMMA MarkKeeps ==
    ASSUME Budget!Parameters, BudgetInv, Budget!MarkDirty
    PROVE  BudgetInv'
<1> USE DEF BudgetInv
<1>1. /\ pc = "mark" /\ pc' = "evict" /\ job' = Budget!Job(index, {}, "building")
      /\ UNCHANGED <<active, wrote, stop, disk, index, refreshed, finalized, measured>>
  BY DEF Budget!MarkDirty, Budget!nodes
<1> DEFINE Marked == dirty' /\ persisted' = persisted
           Discarded == dirty' = dirty /\ persisted' = None
<1>2. Marked \/ Discarded
  BY DEF Budget!MarkDirty
<1>3. dirty' \in BOOLEAN /\ persisted' \in [Family -> Budget!Sizes] \cup {None}
      /\ (dirty' \/ persisted' = None)
  BY <1>2 DEF BudgetTypes
<1> HIDE DEF Marked, Discarded
<1>4. /\ index \in [Family -> Budget!Sizes] /\ active = {} /\ wrote = {}
  BY <1>1 DEF BudgetTypes, NodesOnlyInBuild
<1>5. /\ DOMAIN job' = {"index", "todo", "over", "freed", "evicted", "before", "then"}
      /\ job'.index = index /\ job'.todo \subseteq Family /\ job'.then = "building"
  BY <1>1, <1>4, JobFacts
<1>6. BudgetTypes' /\ JobTypes' /\ FlagsTell' /\ NodesOnlyInBuild'
  BY <1>1, <1>4, <1>5, <1>3 DEF BudgetTypes, JobTypes, FlagsTell, NodesOnlyInBuild
<1>7. MarkedWhileBuilding' /\ UnmarkedNeverLow' /\ FinalCovers'
  BY <1>1, <1>5, <1>3 DEF MarkedWhileBuilding, UnmarkedNeverLow, FinalCovers
<1>8. MemoryCovers'
  BY <1>1, <1>4, <1>5 DEF MemoryCovers, Covers
<1>9. QED
  BY <1>6, <1>7, <1>8

\* evict_from_index_excluding: a family goes with its entry, or keeps it with less on disk.
LEMMA EvictOneKeeps ==
    ASSUME Budget!Parameters, BudgetInv, Budget!EvictOne
    PROVE  BudgetInv'
<1> USE DEF BudgetInv
<1>1. pc = "evict" /\ UNCHANGED <<active, wrote, stop, persisted, dirty, pc, index, refreshed,
                                  finalized, measured>>
  BY DEF Budget!EvictOne, Budget!nodes
<1>2. PICK f \in job.todo, left \in Budget!Sizes :
        /\ left <= disk[f] /\ disk' = [disk EXCEPT ![f] = left]
        /\ \/ left > 0 /\ job' = [job EXCEPT !.todo = @ \ {f}]
           \/ ~(left > 0) /\ job' = [job EXCEPT !.todo = @ \ {f}, !.evicted = @ + 1,
                                               !.freed = @ + job.index[f], !.index[f] = 0]
  BY DEF Budget!EvictOne
<1>3. /\ f \in Family /\ disk \in [Family -> Budget!Sizes] /\ job.index \in [Family -> Budget!Sizes]
      /\ index \in [Family -> Budget!Sizes]
  BY DEF JobTypes, BudgetTypes
<1>4. /\ DOMAIN job' = DOMAIN job /\ job'.then = job.then /\ job'.todo \subseteq job.todo
      /\ \/ left > 0 /\ job'.index = job.index
         \/ left = 0 /\ job'.index = [job.index EXCEPT ![f] = 0]
  <2> DEFINE Fields == {"index", "todo", "over", "freed", "evicted", "before", "then"}
  <2>1. DOMAIN job = Fields
    BY DEF JobTypes
  <2>2. CASE left > 0 /\ job' = [job EXCEPT !.todo = @ \ {f}]
    BY <2>1, <2>2
  <2>3. CASE ~(left > 0) /\ job' = [job EXCEPT !.todo = @ \ {f}, !.evicted = @ + 1,
                                               !.freed = @ + job.index[f], !.index[f] = 0]
    BY <2>1, <2>3 DEF Budget!Sizes
  <2>4. QED
    BY <1>2, <2>2, <2>3
<1>5. /\ disk' \in [Family -> Budget!Sizes] /\ job'.index \in [Family -> Budget!Sizes]
      /\ \A g \in Family : disk'[g] <= disk[g]
      /\ \A g \in Family : disk[g] <= job.index[g] => disk'[g] <= job'.index[g]
  BY <1>2, <1>3, <1>4 DEF Budget!Sizes, Budget!Parameters
<1>6. BudgetTypes' /\ JobTypes' /\ FlagsTell' /\ NodesOnlyInBuild' /\ MarkedWhileBuilding'
  BY <1>1, <1>4, <1>5 DEF BudgetTypes, JobTypes, FlagsTell, NodesOnlyInBuild, MarkedWhileBuilding
<1>7. UnmarkedNeverLow'
  BY <1>1, <1>3, <1>5 DEF UnmarkedNeverLow, BudgetTypes, Budget!Sizes
<1>8. MemoryCovers'
  BY <1>1, <1>3, <1>4, <1>5 DEF MemoryCovers, Covers, Budget!Sizes
<1>9. FinalCovers'
  BY <1>1, <1>4, <1>5 DEF FinalCovers, Covers
<1>10. QED
  BY <1>6, <1>7, <1>8, <1>9

\* The eviction is over, or failed.
LEMMA EvictEndKeeps ==
    ASSUME Budget!Parameters, BudgetInv, Budget!EvictDone \/ Budget!EvictFails
    PROVE  BudgetInv'
<1> USE DEF BudgetInv
<1>1. /\ pc = "evict" /\ job' = Budget!NoJob /\ active' \subseteq active /\ wrote' = wrote \ {owner}
      /\ active' = active \ {owner}
      /\ UNCHANGED <<disk, persisted, dirty, refreshed, finalized, measured, stop>>
      /\ job.then \in {"building", "write", "gcwrite"}
  BY DEF Budget!EvictDone, Budget!EvictFails, Budget!EndTurn, JobTypes
<1>2. /\ disk \in [Family -> Budget!Sizes] /\ job.index \in [Family -> Budget!Sizes]
      /\ index \in [Family -> Budget!Sizes]
  BY DEF JobTypes, BudgetTypes
<1>3. \/ pc' = job.then /\ index' \in {disk, job.index}
      \/ /\ job.then # "gcwrite" /\ index' = index
         /\ pc' = IF job.then = "write" THEN "clear" ELSE job.then
  BY DEF Budget!EvictDone, Budget!EvictFails
<1>4. Covers(disk)
  BY <1>2 DEF Covers, Budget!Sizes
<1>5. BudgetTypes' /\ JobTypes'
  BY <1>1, <1>2, <1>3, NoJobFacts DEF BudgetTypes, JobTypes
<1>6. FlagsTell' /\ NodesOnlyInBuild' /\ MarkedWhileBuilding'
  BY <1>1, <1>3 DEF FlagsTell, NodesOnlyInBuild, MarkedWhileBuilding, FinalCovers
<1>7. UnmarkedNeverLow'
  BY <1>1 DEF UnmarkedNeverLow
<1>8. MemoryCovers'
  <2>1. SUFFICES ASSUME ~refreshed, stop # "failed", pc' = "building", NEW f \in Family
                 PROVE  disk[f] <= index'[f]
    BY <1>1, <1>3 DEF MemoryCovers
  <2>2. active = {} /\ wrote = {} /\ job.then = "building"
    BY <1>1, <1>3, <2>1 DEF NodesOnlyInBuild, BudgetTypes
  <2>3. QED
    BY <1>1, <1>3, <1>4, <2>1, <2>2 DEF MemoryCovers, Covers
<1>9. FinalCovers'
  BY <1>1, <1>3, <1>4 DEF FinalCovers, Covers
<1>10. QED
  BY <1>5, <1>6, <1>7, <1>8, <1>9

\* A node that writes makes its family larger than any index says; the old index is marked.
LEMMA NodeWritesKeeps ==
    ASSUME Budget!Parameters, BudgetInv, NEW f \in Family, Budget!NodeWrites(f)
    PROVE  BudgetInv'
<1> USE DEF BudgetInv
<1>1. /\ f \in active /\ pc \in {"building", "measured", "evict"} /\ wrote' = wrote \cup {f}
      /\ UNCHANGED <<active, stop, persisted, dirty, pc, index, job, refreshed, finalized, measured>>
  BY DEF Budget!NodeWrites, Budget!Runs
<1>2. PICK size \in 1..MaxSize : disk' = [disk EXCEPT ![f] = size]
  BY DEF Budget!NodeWrites
<1>3. dirty \/ persisted = None
  BY <1>1 DEF MarkedWhileBuilding, NodesOnlyInBuild
<1>4. pc = "evict" => refreshed /\ job.then = "building"
  BY <1>1 DEF NodesOnlyInBuild
<1>5. BudgetTypes'
  BY <1>1, <1>2 DEF BudgetTypes, Budget!Sizes, Budget!Parameters
<1>6. JobTypes' /\ FlagsTell' /\ NodesOnlyInBuild' /\ MarkedWhileBuilding' /\ UnmarkedNeverLow'
  BY <1>1, <1>3 DEF JobTypes, FlagsTell, NodesOnlyInBuild, MarkedWhileBuilding, UnmarkedNeverLow
<1>7. MemoryCovers' /\ FinalCovers'
  BY <1>1, <1>2, <1>4 DEF MemoryCovers, FinalCovers, BudgetTypes
<1>8. QED
  BY <1>5, <1>6, <1>7

\* A family that goes away is not counted too low by anything.
LEMMA DiscardKeeps ==
    ASSUME Budget!Parameters, BudgetInv, NEW f \in Family, Budget!DiscardFamily(f)
    PROVE  BudgetInv'
<1> USE DEF BudgetInv
<1>1. /\ pc \in {"building", "measured", "evict"} /\ disk' = [disk EXCEPT ![f] = 0]
      /\ UNCHANGED <<active, wrote, stop, persisted, dirty, pc, index, job, refreshed, finalized,
                     measured>>
  BY DEF Budget!DiscardFamily, Budget!Runs, Budget!nodes
<1>2. /\ disk' \in [Family -> Budget!Sizes] /\ disk \in [Family -> Budget!Sizes]
      /\ \A g \in Family : disk'[g] = disk[g] \/ disk'[g] = 0
  BY <1>1 DEF BudgetTypes, Budget!Sizes, Budget!Parameters
<1>3. BudgetTypes' /\ JobTypes' /\ FlagsTell' /\ NodesOnlyInBuild' /\ MarkedWhileBuilding'
  BY <1>1, <1>2 DEF BudgetTypes, JobTypes, FlagsTell, NodesOnlyInBuild, MarkedWhileBuilding
<1>4. ASSUME NEW sizes \in [Family -> Budget!Sizes], NEW g \in Family, disk[g] <= sizes[g]
      PROVE  disk'[g] <= sizes[g]
  BY <1>2, <1>4 DEF Budget!Sizes
<1>5. UnmarkedNeverLow'
  BY <1>1, <1>4 DEF UnmarkedNeverLow, BudgetTypes
<1>6. MemoryCovers'
  BY <1>1, <1>4 DEF MemoryCovers, Covers, BudgetTypes, JobTypes
<1>7. FinalCovers'
  BY <1>1, <1>4 DEF FinalCovers, Covers, BudgetTypes, JobTypes
<1>8. QED
  BY <1>3, <1>5, <1>6, <1>7

\* The other steps of a node touch no size; one that wrote does not end without a flag.
LEMMA NodeKeeps ==
    ASSUME Budget!Parameters, BudgetInv, NEW f \in Family,
           Budget!Start(f) \/ Budget!NodeEnds(f) \/ Budget!NodeFails(f) \/ Budget!Inspected(f)
    PROVE  BudgetInv'
<1> USE DEF BudgetInv
<1>1. /\ pc \in {"building", "measured", "evict"}
      /\ UNCHANGED <<disk, persisted, dirty, pc, index, job, finalized, measured>>
  BY DEF Budget!Start, Budget!NodeEnds, Budget!NodeFails, Budget!Inspected, Budget!Runs
<1>2. /\ refreshed' \in BOOLEAN /\ (refreshed => refreshed') /\ stop' \in {"no", "failed", "inspected"}
      /\ wrote' \subseteq active' /\ (stop' = "inspected" => refreshed')
  BY DEF Budget!Start, Budget!NodeEnds, Budget!NodeFails, Budget!Inspected, BudgetTypes, FlagsTell
<1>3. active' \subseteq active \/ pc = "building"
  BY DEF Budget!Start, Budget!NodeEnds, Budget!NodeFails, Budget!Inspected
<1>4. ~refreshed' /\ stop' # "failed" => wrote' = wrote /\ ~refreshed /\ stop # "failed"
  BY DEF Budget!Start, Budget!NodeEnds, Budget!NodeFails, Budget!Inspected, FlagsTell, BudgetTypes
<1>5. BudgetTypes' /\ JobTypes' /\ FlagsTell'
  BY <1>1, <1>2 DEF BudgetTypes, JobTypes, FlagsTell
<1>6. NodesOnlyInBuild' /\ MarkedWhileBuilding' /\ UnmarkedNeverLow'
  BY <1>1, <1>2, <1>3 DEF NodesOnlyInBuild, MarkedWhileBuilding, UnmarkedNeverLow
<1>7. MemoryCovers' /\ FinalCovers'
  BY <1>1, <1>4 DEF MemoryCovers, FinalCovers, Covers
<1>8. QED
  BY <1>5, <1>6, <1>7

\* refresh_checkpoint_budget_after_node: the flag comes first.
LEMMA MeasureKeeps ==
    ASSUME Budget!Parameters, BudgetInv, NEW f \in Family, Budget!Measure(f)
    PROVE  BudgetInv'
<1> USE DEF BudgetInv
<1>1. /\ pc = "building" /\ pc' = "measured" /\ refreshed' = TRUE
      /\ UNCHANGED <<active, wrote, stop, disk, persisted, dirty, index, job, finalized>>
  BY DEF Budget!Measure
<1>2. measured' \subseteq Family \X Budget!Sizes
  BY DEF Budget!Measure, Budget!ReadSizes, BudgetTypes
<1>3. QED
  BY <1>1, <1>2 DEF BudgetTypes, JobTypes, FlagsTell, NodesOnlyInBuild, MarkedWhileBuilding,
                    UnmarkedNeverLow, MemoryCovers, FinalCovers, Covers

\* What a refresh merges are sizes.
LEMMA MergeTypes ==
    ASSUME Budget!Parameters, BudgetTypes
    PROVE  Budget!MergeMeasured(index) \in [Family -> Budget!Sizes]
<1>1. ASSUME NEW g \in Family
      PROVE  (IF \E m \in measured : m[1] = g
              THEN (CHOOSE m \in measured : m[1] = g)[2] * (IF disk[g] > 0 THEN 1 ELSE 0)
              ELSE index[g]) \in Budget!Sizes
  <2>1. CASE \E m \in measured : m[1] = g
    <3> DEFINE p == CHOOSE m \in measured : m[1] = g
    <3>1. p \in measured
      BY <2>1
    <3>2. p[2] \in Budget!Sizes
      BY <3>1 DEF BudgetTypes
    <3> HIDE DEF p
    <3>3. p[2] * 1 \in Budget!Sizes /\ p[2] * 0 \in Budget!Sizes
      BY <3>2 DEF Budget!Sizes, Budget!Parameters
    <3>4. p[2] * (IF disk[g] > 0 THEN 1 ELSE 0) \in Budget!Sizes
      BY <3>3
    <3>5. QED
      BY <2>1, <3>4 DEF p
  <2>2. CASE ~\E m \in measured : m[1] = g
    BY <2>2 DEF BudgetTypes
  <2>3. QED
    BY <2>1, <2>2
<1>2. QED
  BY <1>1 DEF Budget!MergeMeasured

\* The rest of the refresh.
LEMMA RefreshKeeps ==
    ASSUME Budget!Parameters, BudgetInv, Budget!Merge \/ Budget!RefreshFails
    PROVE  BudgetInv'
<1> USE DEF BudgetInv
<1>1. /\ pc = "measured" /\ refreshed /\ measured' = {}
      /\ UNCHANGED <<disk, persisted, dirty, index, refreshed, finalized, stop>>
      /\ wrote' \subseteq active'
  BY DEF Budget!Merge, Budget!RefreshFails, Budget!EndTurn, Budget!nodes, FlagsTell, BudgetTypes
<1>2. CASE Budget!Merge
  <2>1. pc' = "evict" /\ job' = Budget!Job(Budget!MergeMeasured(index), Budget!Protected, "building")
    BY <1>2 DEF Budget!Merge
  <2>2. /\ DOMAIN job' = {"index", "todo", "over", "freed", "evicted", "before", "then"}
        /\ job'.index \in [Family -> Budget!Sizes] /\ job'.todo \subseteq Family /\ job'.then = "building"
    BY <2>1, JobFacts, MergeTypes
  <2>3. BudgetTypes' /\ JobTypes' /\ FlagsTell'
    BY <1>1, <2>1, <2>2 DEF BudgetTypes, JobTypes, FlagsTell
  <2>4. NodesOnlyInBuild' /\ MarkedWhileBuilding' /\ UnmarkedNeverLow' /\ MemoryCovers' /\ FinalCovers'
    BY <1>1, <2>1, <2>2 DEF NodesOnlyInBuild, MarkedWhileBuilding, UnmarkedNeverLow, MemoryCovers,
                            FinalCovers
  <2>5. QED
    BY <2>3, <2>4
<1>3. CASE Budget!RefreshFails
  <2>1. pc' = "building" /\ UNCHANGED job
    BY <1>3 DEF Budget!RefreshFails
  <2>2. BudgetTypes' /\ JobTypes' /\ FlagsTell'
    BY <1>1, <2>1 DEF BudgetTypes, JobTypes, FlagsTell
  <2>3. NodesOnlyInBuild' /\ MarkedWhileBuilding' /\ UnmarkedNeverLow' /\ MemoryCovers' /\ FinalCovers'
    BY <1>1, <2>1 DEF NodesOnlyInBuild, MarkedWhileBuilding, UnmarkedNeverLow, MemoryCovers,
                      FinalCovers
  <2>4. QED
    BY <2>2, <2>3
<1>4. QED
  BY <1>2, <1>3

\* finalize_checkpoint_budget_state_excluding: measured anew when a flag says so; else no
\* node wrote since the index in memory was right.
LEMMA FinalizeKeeps ==
    ASSUME Budget!Parameters, BudgetInv, Budget!Finalize
    PROVE  BudgetInv'
<1> USE DEF BudgetInv
<1> DEFINE sizes == IF refreshed \/ stop = "failed" THEN disk ELSE index
<1>1. /\ pc = "building" /\ pc' = "evict" /\ active = {} /\ finalized' = FALSE
      /\ job' = Budget!Job(sizes, {}, "write")
      /\ UNCHANGED <<active, wrote, stop, disk, persisted, dirty, index, refreshed, measured>>
  BY DEF Budget!Finalize, Budget!nodes
<1>2. disk \in [Family -> Budget!Sizes] /\ index \in [Family -> Budget!Sizes] /\ wrote = {}
  BY <1>1 DEF BudgetTypes
<1>3. sizes \in [Family -> Budget!Sizes] /\ \A f \in Family : disk[f] <= sizes[f]
  BY <1>1, <1>2 DEF MemoryCovers, Budget!Sizes
<1> HIDE DEF sizes
<1>4. /\ DOMAIN job' = {"index", "todo", "over", "freed", "evicted", "before", "then"}
      /\ job'.index = sizes /\ job'.todo \subseteq Family /\ job'.then = "write"
  BY <1>1, <1>3, JobFacts
<1>5. BudgetTypes' /\ JobTypes' /\ FlagsTell'
  BY <1>1, <1>3, <1>4 DEF BudgetTypes, JobTypes, FlagsTell
<1>6. NodesOnlyInBuild' /\ MarkedWhileBuilding' /\ UnmarkedNeverLow' /\ MemoryCovers'
  BY <1>1, <1>4 DEF NodesOnlyInBuild, MarkedWhileBuilding, UnmarkedNeverLow, MemoryCovers
<1>7. FinalCovers'
  BY <1>1, <1>3, <1>4 DEF FinalCovers, Covers
<1>8. QED
  BY <1>5, <1>6, <1>7

\* The index is written or not; the marker goes only when it was.
LEMMA PersistKeeps ==
    ASSUME Budget!Parameters, BudgetInv, Budget!WriteIndex \/ Budget!ClearDirty
    PROVE  BudgetInv'
<1> USE DEF BudgetInv
<1>1. UNCHANGED <<active, wrote, stop, disk, index, job, refreshed, measured>>
  BY DEF Budget!WriteIndex, Budget!ClearDirty, Budget!nodes
<1>2. CASE Budget!WriteIndex
  <2>1. /\ pc = "write" /\ pc' = "clear" /\ UNCHANGED dirty
        /\ \/ persisted' = index /\ finalized' = TRUE
           \/ persisted' \in {persisted, None} /\ finalized' = finalized
    BY <1>2 DEF Budget!WriteIndex
  <2>2. Covers(index) /\ ~finalized /\ index \in [Family -> Budget!Sizes] /\ (dirty \/ persisted = None)
    BY <2>1 DEF FinalCovers, BudgetTypes, MarkedWhileBuilding
  <2>3. BudgetTypes'
    BY <1>1, <2>1, <2>2 DEF BudgetTypes
  <2>4. JobTypes' /\ FlagsTell' /\ NodesOnlyInBuild' /\ MemoryCovers'
    BY <1>1, <2>1 DEF JobTypes, FlagsTell, NodesOnlyInBuild, MemoryCovers
  <2>5. MarkedWhileBuilding' /\ UnmarkedNeverLow' /\ FinalCovers'
    BY <1>1, <2>1, <2>2 DEF MarkedWhileBuilding, UnmarkedNeverLow, FinalCovers, Covers
  <2>6. QED
    BY <2>3, <2>4, <2>5
<1>3. CASE Budget!ClearDirty
  <2>1. /\ pc = "clear" /\ pc' = "idle" /\ UNCHANGED <<persisted, finalized>>
        /\ dirty' = (dirty /\ ~finalized)
    BY <1>3 DEF Budget!ClearDirty
  <2>2. BudgetTypes' /\ JobTypes' /\ FlagsTell' /\ NodesOnlyInBuild'
    BY <1>1, <2>1 DEF BudgetTypes, JobTypes, FlagsTell, NodesOnlyInBuild
  <2>3. MarkedWhileBuilding' /\ MemoryCovers' /\ FinalCovers'
    BY <1>1, <2>1 DEF MarkedWhileBuilding, MemoryCovers, FinalCovers
  <2>4. UnmarkedNeverLow'
    BY <1>1, <2>1 DEF UnmarkedNeverLow, FinalCovers, Covers, MarkedWhileBuilding, BudgetTypes
  <2>5. QED
    BY <2>2, <2>3, <2>4
<1>4. QED
  BY <1>2, <1>3

\* A killed command leaves the disk and what is on it.
LEMMA CrashKeeps ==
    ASSUME Budget!Parameters, BudgetInv, Budget!Crash
    PROVE  BudgetInv'
<1> USE DEF BudgetInv
<1>1. /\ pc' = "idle" /\ index' = Budget!Empty /\ job' = Budget!NoJob /\ active' = {}
      /\ wrote' = {} /\ measured' = {}
      /\ UNCHANGED <<disk, persisted, dirty, refreshed, finalized, stop>>
  BY DEF Budget!Crash
<1>2. BudgetTypes' /\ JobTypes'
  BY <1>1, NoJobFacts DEF BudgetTypes, JobTypes
<1>3. FlagsTell' /\ NodesOnlyInBuild' /\ MarkedWhileBuilding' /\ UnmarkedNeverLow'
  BY <1>1 DEF FlagsTell, NodesOnlyInBuild, MarkedWhileBuilding, UnmarkedNeverLow
<1>4. MemoryCovers' /\ FinalCovers'
  BY <1>1 DEF MemoryCovers, FinalCovers
<1>5. QED
  BY <1>2, <1>3, <1>4

\* clean_project: families only get smaller, and what it writes it has measured.
LEMMA GcKeeps ==
    ASSUME Budget!Parameters, BudgetInv, Budget!StartGc \/ Budget!GcWrite \/ Budget!GcClear
    PROVE  BudgetInv'
<1> USE DEF BudgetInv
<1>1. UNCHANGED <<active, wrote, stop, refreshed, finalized, measured>>
  BY DEF Budget!StartGc, Budget!GcWrite, Budget!GcClear, Budget!nodes
<1>2. CASE Budget!StartGc
  <2>1. PICK stale \in SUBSET Family :
          /\ disk' = [f \in Family |-> IF f \in stale THEN 0 ELSE disk[f]]
          /\ job' = Budget!Job([f \in Family |-> IF f \in stale THEN 0 ELSE disk[f]], {}, "gcwrite")
    BY <1>2 DEF Budget!StartGc
  <2>2. /\ pc = "idle" /\ pc' = "evict" /\ UNCHANGED <<persisted, dirty, index>>
    BY <1>2 DEF Budget!StartGc
  <2>3. /\ disk' \in [Family -> Budget!Sizes] /\ disk \in [Family -> Budget!Sizes]
        /\ \A f \in Family : disk'[f] = disk[f] \/ disk'[f] = 0
    BY <2>1 DEF BudgetTypes, Budget!Sizes, Budget!Parameters
  <2>4. /\ DOMAIN job' = {"index", "todo", "over", "freed", "evicted", "before", "then"}
        /\ job'.index \in [Family -> Budget!Sizes] /\ job'.todo \subseteq Family /\ job'.then = "gcwrite"
    BY <2>1, <2>3, JobFacts
  <2>5. BudgetTypes' /\ JobTypes' /\ FlagsTell' /\ NodesOnlyInBuild'
    BY <1>1, <2>2, <2>3, <2>4 DEF BudgetTypes, JobTypes, FlagsTell, NodesOnlyInBuild
  <2>6. MarkedWhileBuilding' /\ MemoryCovers' /\ FinalCovers'
    BY <1>1, <2>2, <2>4 DEF MarkedWhileBuilding, MemoryCovers, FinalCovers
  <2>7. UnmarkedNeverLow'
    BY <2>2, <2>3 DEF UnmarkedNeverLow, BudgetTypes, Budget!Sizes
  <2>8. QED
    BY <2>5, <2>6, <2>7
<1>3. CASE Budget!GcWrite
  <2>1. /\ pc = "gcwrite" /\ UNCHANGED <<disk, dirty, job>>
        /\ \/ persisted' = disk /\ pc' = "gcclear" /\ index' = disk
           \/ persisted' \in {persisted, None} /\ pc' = "idle" /\ index' = Budget!Empty
    BY <1>3 DEF Budget!GcWrite
  <2>2. disk \in [Family -> Budget!Sizes] /\ Covers(disk)
    BY DEF BudgetTypes, Covers, Budget!Sizes
  <2>3. BudgetTypes' /\ JobTypes'
    BY <1>1, <2>1, <2>2, NoJobFacts DEF BudgetTypes, JobTypes
  <2>4. FlagsTell' /\ NodesOnlyInBuild' /\ MarkedWhileBuilding' /\ MemoryCovers'
    BY <1>1, <2>1 DEF FlagsTell, NodesOnlyInBuild, MarkedWhileBuilding, MemoryCovers
  <2>5. UnmarkedNeverLow' /\ FinalCovers'
    BY <1>1, <2>1, <2>2 DEF UnmarkedNeverLow, FinalCovers, Covers
  <2>6. QED
    BY <2>3, <2>4, <2>5
<1>4. CASE Budget!GcClear
  <2>1. pc = "gcclear" /\ pc' = "idle" /\ dirty' = FALSE /\ UNCHANGED <<disk, persisted, index, job>>
    BY <1>4 DEF Budget!GcClear
  <2>2. BudgetTypes' /\ JobTypes' /\ FlagsTell' /\ NodesOnlyInBuild'
    BY <1>1, <2>1 DEF BudgetTypes, JobTypes, FlagsTell, NodesOnlyInBuild
  <2>3. MarkedWhileBuilding' /\ MemoryCovers' /\ FinalCovers'
    BY <1>1, <2>1 DEF MarkedWhileBuilding, MemoryCovers, FinalCovers
  <2>4. UnmarkedNeverLow'
    BY <1>1, <2>1 DEF UnmarkedNeverLow, FinalCovers, Covers
  <2>5. QED
    BY <2>2, <2>3, <2>4
<1>5. QED
  BY <1>2, <1>3, <1>4

\* Every step of the budget keeps the invariant.
LEMMA BudgetStep ==
    ASSUME Budget!Parameters, BudgetInv, [Budget!Next]_(Budget!vars)
    PROVE  BudgetInv'
<1>1. CASE UNCHANGED Budget!vars
  BY <1>1
     DEF Budget!vars, Budget!nodes, BudgetInv, BudgetTypes, JobTypes, FlagsTell, NodesOnlyInBuild,
              MarkedWhileBuilding, UnmarkedNeverLow, MemoryCovers, FinalCovers, Covers
<1>2. ASSUME NEW f \in Family,
             \/ Budget!Start(f) \/ Budget!NodeWrites(f) \/ Budget!DiscardFamily(f)
             \/ Budget!NodeEnds(f) \/ Budget!NodeFails(f)
             \/ Budget!Inspected(f) \/ Budget!Measure(f)
      PROVE  BudgetInv'
  BY <1>2, NodeWritesKeeps, DiscardKeeps, NodeKeeps, MeasureKeeps
<1>3. CASE Budget!Load \/ Budget!MarkDirty \/ Budget!EvictOne \/ Budget!EvictDone \/ Budget!EvictFails
  BY <1>3, LoadKeeps, MarkKeeps, EvictOneKeeps, EvictEndKeeps
<1>4. CASE Budget!Merge \/ Budget!RefreshFails \/ Budget!Finalize \/ Budget!WriteIndex
           \/ Budget!ClearDirty
  BY <1>4, RefreshKeeps, FinalizeKeeps, PersistKeeps
<1>5. CASE Budget!Crash \/ Budget!StartGc \/ Budget!GcWrite \/ Budget!GcClear
  BY <1>5, CrashKeeps, GcKeeps
<1>6. QED
  BY <1>1, <1>2, <1>3, <1>4, <1>5 DEF Budget!Next

\* The invariant holds of every behaviour of the budget.
LEMMA BudgetInvariant ==
    ASSUME Budget!Parameters PROVE Budget!Spec => []BudgetInv
<1>1. Budget!Init => BudgetInv
  <2>1. SUFFICES ASSUME Budget!Init PROVE BudgetInv
    OBVIOUS
  <2>2. BudgetTypes /\ JobTypes
    BY <2>1, NoJobFacts DEF Budget!Init, BudgetTypes, JobTypes
  <2>3. QED
    BY <2>1, <2>2 DEF Budget!Init, BudgetInv, FlagsTell, NodesOnlyInBuild, MarkedWhileBuilding,
                      UnmarkedNeverLow, MemoryCovers, FinalCovers
<1>2. BudgetInv /\ [Budget!Next]_(Budget!vars) => BudgetInv'
  BY BudgetStep
<1>3. QED
  BY <1>1, <1>2, PTL DEF Budget!Spec

\* load_or_rebuild_checkpoint_index: for any project, limit and number of nodes, and
\* wherever commands are killed or their writes fail, an index a build accepts unmeasured
\* counts at least what is on disk.
THEOREM AcceptedIndexCovers ==
    ASSUME Budget!Parameters
    PROVE  Budget!Spec => []AcceptedIndexNeverUndercounts
<1>1. BudgetInv => AcceptedIndexNeverUndercounts
  <2>1. SUFFICES ASSUME BudgetInv, ~dirty, persisted # None, Budget!CoversDisk(persisted),
                        NEW f \in Family
                 PROVE  disk[f] <= persisted[f]
    BY DEF AcceptedIndexNeverUndercounts, Budget!AcceptedIndexNeverUndercounts
  <2>2. disk \in [Family -> Budget!Sizes] /\ persisted \in [Family -> Budget!Sizes]
    BY <2>1 DEF BudgetInv, BudgetTypes
  <2>3. persisted[f] = 0 \/ disk[f] <= persisted[f]
    BY <2>1 DEF BudgetInv, UnmarkedNeverLow
  <2>4. QED
    BY <2>1, <2>2, <2>3 DEF Budget!CoversDisk, Budget!Sizes
<1>2. QED
  BY <1>1, BudgetInvariant, PTL

\* What an eviction has still to free is what the sizes it works on add up to.
JobAddsUp ==
    /\ job.before \in Nat /\ job.freed \in Nat
    /\ job.before = job.freed + SumOf(job.index, Family)
    /\ job.over <=> ~(Limit <= 0 \/ job.before <= Limit)

\* The last eviction of a command has everything before it that it has not evicted.
NothingForgotten ==
    /\ job.then = "gcwrite" => Covers(job.index)
    /\ job.then \in {"write", "gcwrite"} /\ ~failed => \A f \in Family : job.index[f] = 0 \/ f \in job.todo

\* What a command leaves is within the limit from its last eviction on.
LeftWithinLimit ==
    pc \in {"write", "clear", "gcwrite", "gcclear"} \/ (pc = "idle" /\ ended)
        => failed \/ Limit = 0 \/ SumOf(disk, Family) <= Limit

\* What the limit needs beyond BudgetInv; the two together are inductive.
LimitInv ==
    /\ {failed, ended} \subseteq BOOLEAN
    /\ pc # "idle" => ~ended
    /\ pc = "evict" => JobAddsUp /\ NothingForgotten
    /\ LeftWithinLimit

\* The finite sets of the budget are those of the theorems about finite sets.
LEMMA BudgetFinite == \A S : Budget!IsFiniteSet(S) <=> IsFiniteSet(S)
  BY DEF Budget!IsFiniteSet, IsFiniteSet

\* Sizes add up to a natural.
LEMMA TotalIsSum ==
    ASSUME Budget!Parameters, NEW sizes \in [Family -> Budget!Sizes]
    PROVE  /\ Budget!Total(sizes) = SumOf(sizes, Family)
           /\ SumOf(sizes, Family) \in Nat
<1>1. IsFiniteSet(Family) /\ \A f \in Family : sizes[f] \in Nat
  BY BudgetFinite DEF Budget!Parameters, Budget!Sizes
<1>2. Budget!Total(sizes) = (CHOOSE g : AddsUp(g, sizes, Family))[Family]
  BY DEF Budget!Total, Budget!MapThenSumSet, Budget!MapThenFoldSet, AddsUp
<1>3. Budget!Total(sizes) = SumOf(sizes, Family)
  BY <1>1, <1>2, FoldIsSum
<1>4. SumOf(sizes, Family) \in Nat
  BY <1>1, SumIsNatural
<1>5. QED
  BY <1>3, <1>4

\* An eviction begins with all its sizes.
LEMMA JobSums ==
    ASSUME Budget!Parameters, NEW sizes \in [Family -> Budget!Sizes], NEW protected, NEW then,
           job' = Budget!Job(sizes, protected, then)
    PROVE  /\ JobAddsUp' /\ job'.then = then /\ job'.index = sizes
           /\ protected = {} => \A f \in Family : job'.index[f] = 0 \/ f \in job'.todo
<1>1. Budget!Total(sizes) = SumOf(sizes, Family) /\ SumOf(sizes, Family) \in Nat
  BY TotalIsSum
<1>2. /\ job'.index = sizes /\ job'.before = Budget!Total(sizes) /\ job'.freed = 0 /\ job'.then = then
      /\ job'.over = ~(Limit <= 0 \/ Budget!Total(sizes) <= Limit)
      /\ job'.todo = {f \in Family : sizes[f] > 0 /\ f \notin protected}
  BY DEF Budget!Job
<1>3. JobAddsUp'
  <2>1. SumOf(job'.index, Family) = Budget!Total(sizes)
    BY <1>1, <1>2, Zenon
  <2>2. job'.before \in Nat /\ job'.freed \in Nat /\ job'.before = job'.freed + SumOf(job'.index, Family)
    BY <1>1, <1>2, <2>1
  <2>3. job'.over <=> ~(Limit <= 0 \/ job'.before <= Limit)
    BY <1>2, Zenon
  <2>4. QED
    BY <2>2, <2>3, Zenon DEF JobAddsUp
<1>4. protected = {} => \A f \in Family : job'.index[f] = 0 \/ f \in job'.todo
  BY <1>2 DEF Budget!Sizes
<1>5. QED
  BY <1>2, <1>3, <1>4

\* A family evicted takes its size from both.
LEMMA EvictOneLimit ==
    ASSUME Budget!Parameters, BudgetInv, LimitInv, Budget!EvictOne PROVE LimitInv'
<1>1. pc = "evict" /\ pc' = "evict" /\ ended' = ended
  BY DEF Budget!EvictOne
<1>2. PICK f \in job.todo, left \in Budget!Sizes :
        /\ left <= disk[f] /\ disk' = [disk EXCEPT ![f] = left]
        /\ \/ left > 0 /\ job' = [job EXCEPT !.todo = @ \ {f}] /\ failed' = TRUE
           \/ /\ ~(left > 0) /\ failed' = failed
              /\ job' = [job EXCEPT !.todo = @ \ {f}, !.evicted = @ + 1,
                                    !.freed = @ + job.index[f], !.index[f] = 0]
  BY DEF Budget!EvictOne
<1>3. /\ f \in Family /\ disk \in [Family -> Budget!Sizes] /\ job.index \in [Family -> Budget!Sizes]
      /\ DOMAIN job = {"index", "todo", "over", "freed", "evicted", "before", "then"}
  BY DEF BudgetInv, JobTypes, BudgetTypes
<1>4. JobAddsUp /\ NothingForgotten /\ {failed, ended} \subseteq BOOLEAN /\ ~ended
  BY <1>1 DEF LimitInv
<1>5. CASE left > 0 /\ job' = [job EXCEPT !.todo = @ \ {f}] /\ failed' = TRUE
  <2>1. /\ job'.index = job.index /\ job'.before = job.before /\ job'.freed = job.freed
        /\ job'.over = job.over /\ job'.then = job.then
    BY <1>3, <1>5
  <2>2. JobAddsUp'
    BY <1>4, <2>1 DEF JobAddsUp
  <2>3. \A g \in Family : disk[g] <= job.index[g] => disk'[g] <= job.index[g]
    BY <1>2, <1>3 DEF Budget!Sizes, Budget!Parameters
  <2>4. NothingForgotten'
    BY <1>4, <1>5, <2>1, <2>3 DEF NothingForgotten, Covers
  <2>5. QED
    BY <1>1, <1>4, <1>5, <2>2, <2>4 DEF LimitInv, LeftWithinLimit
<1>6. CASE /\ ~(left > 0) /\ failed' = failed
           /\ job' = [job EXCEPT !.todo = @ \ {f}, !.evicted = @ + 1,
                                 !.freed = @ + job.index[f], !.index[f] = 0]
  <2>1. /\ job'.index = [job.index EXCEPT ![f] = 0] /\ job'.before = job.before
        /\ job'.freed = job.freed + job.index[f] /\ job'.todo = job.todo \ {f}
        /\ job'.over = job.over /\ job'.then = job.then
    BY <1>3, <1>6
  <2>2. SumOf(job.index, Family) = SumOf(job'.index, Family) + job.index[f]
    <3>1. IsFiniteSet(Family) /\ \A g \in Family : job.index[g] \in Nat
      BY <1>3, BudgetFinite DEF Budget!Parameters, Budget!Sizes
    <3>2. \A g \in Family : job'.index[g] = IF g = f THEN 0 ELSE job.index[g]
      BY <1>3, <2>1
    <3>3. QED
      BY <1>3, <3>1, <3>2, SumOfCleared
  <2>3. job'.index \in [Family -> Budget!Sizes] /\ job.index[f] \in Nat
    BY <1>3, <2>1 DEF Budget!Sizes, Budget!Parameters
  <2>4. SumOf(job'.index, Family) \in Nat
    BY <2>3, TotalIsSum
  <2>5. JobAddsUp'
    BY <1>4, <2>1, <2>2, <2>3, <2>4 DEF JobAddsUp
  <2>6. \A g \in Family : disk[g] <= job.index[g] => disk'[g] <= job'.index[g]
    BY <1>2, <1>3, <1>6, <2>1 DEF Budget!Sizes, Budget!Parameters
  <2>7. \A g \in Family : (job.index[g] = 0 \/ g \in job.todo) => (job'.index[g] = 0 \/ g \in job'.todo)
    BY <1>3, <2>1
  <2>8. NothingForgotten'
    BY <1>4, <1>6, <2>1, <2>6, <2>7 DEF NothingForgotten, Covers
  <2>9. QED
    BY <1>1, <1>4, <1>6, <2>5, <2>8 DEF LimitInv, LeftWithinLimit
<1>7. QED
  BY <1>2, <1>5, <1>6

\* An eviction that is over and left nothing behind is within the limit.
LEMMA EvictDoneLimit ==
    ASSUME Budget!Parameters, BudgetInv, LimitInv, Budget!EvictDone PROVE LimitInv'
<1>1. /\ pc = "evict" /\ pc' = job.then /\ job.then \in {"building", "write", "gcwrite"}
      /\ UNCHANGED <<disk, failed, ended>>
      /\ ~job.over \/ job.todo = {} \/ job.before - job.freed <= Limit
  BY DEF Budget!EvictDone, BudgetInv, JobTypes
<1>2. JobAddsUp /\ NothingForgotten /\ {failed, ended} \subseteq BOOLEAN /\ ~ended
  BY <1>1 DEF LimitInv
<1>3. ASSUME job.then \in {"write", "gcwrite"}, ~failed, Limit # 0 PROVE SumOf(disk, Family) <= Limit
  <2>1. disk \in [Family -> Budget!Sizes] /\ job.index \in [Family -> Budget!Sizes] /\ Limit \in Nat
        /\ IsFiniteSet(Family)
    BY BudgetFinite DEF BudgetInv, BudgetTypes, JobTypes, Budget!Parameters
  <2>2. SumOf(disk, Family) \in Nat /\ SumOf(job.index, Family) \in Nat
    BY <2>1, TotalIsSum
  <2>3. SumOf(disk, Family) <= SumOf(job.index, Family)
    <3>1. Covers(job.index)
      BY <1>1, <1>2, <1>3 DEF NothingForgotten, BudgetInv, FinalCovers
    <3>2. \A f \in Family : disk[f] \in Nat /\ job.index[f] \in Nat /\ disk[f] <= job.index[f]
      BY <2>1, <3>1 DEF Covers, Budget!Sizes
    <3>3. QED
      BY <2>1, <3>2, SumOfGreater
  <2>4. SumOf(job.index, Family) <= Limit
    <3>1. CASE job.todo = {}
      <4>1. \A f \in Family : job.index[f] = 0
        BY <1>2, <1>3, <3>1 DEF NothingForgotten
      <4>2. SumOf(job.index, Family) = 0
        BY <4>1, SumOfZeros
      <4>3. QED
        BY <2>1, <4>2
    <3>2. CASE ~job.over
      BY <1>2, <1>3, <2>1, <2>2, <3>2 DEF JobAddsUp
    <3>3. CASE job.before - job.freed <= Limit
      BY <1>2, <2>1, <2>2, <3>3 DEF JobAddsUp
    <3>4. QED
      BY <1>1, <3>1, <3>2, <3>3
  <2>5. QED
    BY <2>1, <2>2, <2>3, <2>4
<1>4. LeftWithinLimit'
  BY <1>1, <1>2, <1>3 DEF LeftWithinLimit
<1>5. QED
  BY <1>1, <1>2, <1>4 DEF LimitInv

\* An eviction begins: the first of a build, one after a node, the last, or that of a gc.
LEMMA EvictionStarts ==
    ASSUME Budget!Parameters, BudgetInv, LimitInv,
           Budget!MarkDirty \/ Budget!Merge \/ Budget!Finalize \/ Budget!StartGc
    PROVE  LimitInv'
<1> USE DEF LimitInv
<1>1. pc' = "evict" /\ {failed', ended'} \subseteq BOOLEAN /\ ended' = FALSE
  BY DEF Budget!MarkDirty, Budget!Merge, Budget!Finalize, Budget!StartGc
<1>2. CASE Budget!MarkDirty
  <2>1. job' = Budget!Job(index, {}, "building") /\ index \in [Family -> Budget!Sizes]
    BY <1>2 DEF Budget!MarkDirty, BudgetInv, BudgetTypes
  <2>2. JobAddsUp' /\ job'.then = "building"
    BY <2>1, JobSums
  <2>3. QED
    BY <1>1, <2>2 DEF NothingForgotten, LeftWithinLimit
<1>3. CASE Budget!Merge
  <2>1. job' = Budget!Job(Budget!MergeMeasured(index), Budget!Protected, "building")
    BY <1>3 DEF Budget!Merge
  <2>2. Budget!MergeMeasured(index) \in [Family -> Budget!Sizes]
    BY MergeTypes DEF BudgetInv, BudgetTypes
  <2>3. JobAddsUp' /\ job'.then = "building"
    BY <2>1, <2>2, JobSums
  <2>4. QED
    BY <1>1, <2>3 DEF NothingForgotten, LeftWithinLimit
<1>4. CASE Budget!Finalize
  <2> DEFINE sizes == IF refreshed \/ stop = "failed" THEN disk ELSE index
  <2>1. job' = Budget!Job(sizes, {}, "write") /\ sizes \in [Family -> Budget!Sizes]
    BY <1>4 DEF Budget!Finalize, BudgetInv, BudgetTypes
  <2> HIDE DEF sizes
  <2>2. JobAddsUp' /\ job'.then = "write" /\ \A f \in Family : job'.index[f] = 0 \/ f \in job'.todo
    BY <2>1, JobSums
  <2>3. QED
    BY <1>1, <2>2 DEF NothingForgotten, LeftWithinLimit
<1>5. CASE Budget!StartGc
  <2>1. PICK stale \in SUBSET Family :
          /\ disk' = [f \in Family |-> IF f \in stale THEN 0 ELSE disk[f]]
          /\ job' = Budget!Job([f \in Family |-> IF f \in stale THEN 0 ELSE disk[f]], {}, "gcwrite")
    BY <1>5 DEF Budget!StartGc
  <2>2. disk' \in [Family -> Budget!Sizes] /\ job' = Budget!Job(disk', {}, "gcwrite")
    BY <2>1 DEF BudgetInv, BudgetTypes, Budget!Sizes, Budget!Parameters
  <2>3. JobAddsUp' /\ job'.then = "gcwrite" /\ job'.index = disk'
        /\ \A f \in Family : job'.index[f] = 0 \/ f \in job'.todo
    BY <2>2, JobSums
  <2>4. NothingForgotten'
    BY <2>2, <2>3 DEF NothingForgotten, Covers, Budget!Sizes
  <2>5. QED
    BY <1>1, <2>3, <2>4 DEF LeftWithinLimit
<1>6. QED
  BY <1>2, <1>3, <1>4, <1>5

\* No node runs in the last eviction of a command or after it.
LEMMA NodesLimit ==
    ASSUME Budget!Parameters, BudgetInv, LimitInv, NEW f \in Family,
           \/ Budget!Start(f) \/ Budget!NodeWrites(f) \/ Budget!DiscardFamily(f)
           \/ Budget!NodeEnds(f) \/ Budget!NodeFails(f) \/ Budget!Inspected(f) \/ Budget!Measure(f)
    PROVE  LimitInv'
<1>1. /\ pc \in {"building", "measured", "evict"} /\ UNCHANGED <<job, failed, ended>>
      /\ pc' \in {pc, "measured"} /\ (pc = "evict" => pc' = "evict" /\ active # {})
  BY DEF Budget!Start, Budget!NodeWrites, Budget!DiscardFamily, Budget!NodeEnds, Budget!NodeFails,
         Budget!Inspected, Budget!Measure, Budget!Runs
<1>2. pc = "evict" => job.then = "building"
  BY <1>1 DEF BudgetInv, NodesOnlyInBuild, JobTypes
<1>3. JobAddsUp' <=> JobAddsUp
  BY <1>1 DEF JobAddsUp
<1>4. QED
  BY <1>1, <1>2, <1>3 DEF LimitInv, NothingForgotten, LeftWithinLimit

\* The other steps evict nothing.
LEMMA OthersLimit ==
    ASSUME Budget!Parameters, BudgetInv, LimitInv,
           \/ Budget!Load \/ Budget!EvictFails \/ Budget!RefreshFails \/ Budget!WriteIndex
           \/ Budget!ClearDirty \/ Budget!Crash \/ Budget!GcWrite \/ Budget!GcClear \/ UNCHANGED Budget!vars
    PROVE  LimitInv'
<1> USE DEF LimitInv, LeftWithinLimit
<1>1. CASE Budget!Load
  BY <1>1 DEF Budget!Load
<1>2. CASE Budget!EvictFails
  BY <1>2 DEF Budget!EvictFails, BudgetInv, JobTypes
<1>3. CASE Budget!RefreshFails
  BY <1>3 DEF Budget!RefreshFails
<1>4. CASE Budget!WriteIndex
  BY <1>4 DEF Budget!WriteIndex
<1>5. CASE Budget!ClearDirty
  BY <1>5 DEF Budget!ClearDirty, BudgetInv, BudgetTypes
<1>6. CASE Budget!Crash
  BY <1>6 DEF Budget!Crash
<1>7. CASE Budget!GcWrite
  BY <1>7 DEF Budget!GcWrite
<1>8. CASE Budget!GcClear
  BY <1>8 DEF Budget!GcClear
<1>9. CASE UNCHANGED Budget!vars
  BY <1>9 DEF Budget!vars, JobAddsUp, NothingForgotten, Covers
<1>10. QED
  BY <1>1, <1>2, <1>3, <1>4, <1>5, <1>6, <1>7, <1>8, <1>9

\* finalize_checkpoint_budget_state_excluding, clean_project: for any project and limit, a
\* command that ended with its index persisted and its evictions done leaves the project
\* within the limit.
THEOREM CommandsEndWithinLimit ==
    ASSUME Budget!Parameters PROVE Budget!Spec => []EndedWithinLimit
<1>1. Budget!Init => LimitInv
  BY DEF Budget!Init, LimitInv, LeftWithinLimit
<1>2. BudgetInv /\ LimitInv /\ [Budget!Next]_(Budget!vars) => LimitInv'
  BY EvictOneLimit, EvictDoneLimit, EvictionStarts, NodesLimit, OthersLimit DEF Budget!Next
<1>3. BudgetInv /\ LimitInv => EndedWithinLimit
  <2>1. SUFFICES ASSUME BudgetInv, LimitInv, pc = "idle", ended, ~failed, Limit > 0
                 PROVE  Budget!Total(disk) <= Limit
    BY DEF EndedWithinLimit, Budget!EndedWithinLimit
  <2>2. Budget!Total(disk) = SumOf(disk, Family)
    BY <2>1, TotalIsSum DEF BudgetInv, BudgetTypes
  <2>3. QED
    BY <2>1, <2>2 DEF LimitInv, LeftWithinLimit, Budget!Parameters
<1>4. Budget!Spec => []BudgetInv
  BY BudgetInvariant
<1>5. QED
  BY <1>1, <1>2, <1>3, <1>4, PTL DEF Budget!Spec
=============================================================================
