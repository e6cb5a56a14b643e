-------------------------- MODULE CoordinatorProofs --------------------------
(***************************************************************************)
(* Proofs about Coordinator, for batches of any finite size, any number of *)
(* release passes and any MaxAttempts.                                     *)
(***************************************************************************)
EXTENDS Coordinator, FiniteSetTheorems, TLAPS

\* A running action was counted when it was claimed, so an unavailable worker
\* that takes its attempt back leaves no negative count.
RunningIsCounted == \A k \in Keys : state[k] = "running" => attempts[k] >= 1

\* Only a run batch goes on with a failed action.
FailedOnlyInRuns ==
    batch = "running" /\ class = "build" => \A k \in Keys : state[k] # "failed"

\* The inductive invariant.
Inv ==
    /\ TypeOK
    /\ LeasesMatchRunning
    /\ EndedBatchIsQuiet
    /\ RemainingDepsExact
    /\ ReadyParentsAreDone
    /\ RunningIsCounted
    /\ FailedOnlyInRuns

-----------------------------------------------------------------------------

\* The parents of an action that aren't done are finitely many.
LEMMA NotDoneFinite ==
    ASSUME NEW st, NEW es, NEW k
    PROVE  /\ NotDone(st, es, k) \subseteq Keys
           /\ IsFiniteSet(NotDone(st, es, k))
           /\ Cardinality(NotDone(st, es, k)) \in Nat
           /\ Cardinality(NotDone(st, es, k)) = 0 <=> NotDone(st, es, k) = {}
<1>1. NotDone(st, es, k) \subseteq Keys
  BY DEF NotDone
<1>2. IsFiniteSet(NotDone(st, es, k))
  BY <1>1, KeysAssumption, FS_Subset
<1>3. QED
  BY <1>1, <1>2, FS_CardinalityType, FS_EmptySet

\* REFRESH changes no action from or to done, nor any but ready ones, and the
\* counts it leaves are naturals.
LEMMA RefreshFacts ==
    ASSUME NEW st \in [Keys -> ActionStates], NEW es, NEW ks,
           NEW rem \in [Keys -> Nat]
    PROVE  /\ RefreshStates(st, es, ks) \in [Keys -> ActionStates]
           /\ RefreshDeps(st, rem, es, ks) \in [Keys -> Nat]
           /\ \A k \in Keys :
                /\ st[k] # "ready" => RefreshStates(st, es, ks)[k] = st[k]
                /\ st[k] = "ready" => RefreshStates(st, es, ks)[k] \in {"ready", "waiting"}
                /\ NotDone(RefreshStates(st, es, ks), es, k) = NotDone(st, es, k)
<1>1. RefreshStates(st, es, ks) \in [Keys -> ActionStates]
  BY DEF RefreshStates, ActionStates, Unfinished
<1>2. RefreshDeps(st, rem, es, ks) \in [Keys -> Nat]
  BY NotDoneFinite DEF RefreshDeps
<1>3. \A k \in Keys :
        /\ st[k] # "ready" => RefreshStates(st, es, ks)[k] = st[k]
        /\ st[k] = "ready" => RefreshStates(st, es, ks)[k] \in {"ready", "waiting"}
  BY DEF RefreshStates
<1>4. \A k \in Keys : NotDone(RefreshStates(st, es, ks), es, k) = NotDone(st, es, k)
  BY <1>3 DEF NotDone
<1>5. QED
  BY <1>1, <1>2, <1>3, <1>4

\* What has to be refreshed: writing st and es and refreshing ks keeps
\* remaining_deps exact and ready actions' parents done, as long as the write
\* left both true of every other action.
LEMMA RefreshKeepsDepsExact ==
    ASSUME TypeOK,
           NEW st \in [Keys -> ActionStates], NEW es, NEW ks,
           \A k \in Keys \ ks :
              /\ st[k] \in {"waiting", "ready"} =>
                   remaining[k] = Cardinality(NotDone(st, es, k))
              /\ st[k] = "ready" => NotDone(st, es, k) = {},
           WriteAndRefresh(st, es, ks), edges' = es
    PROVE  RemainingDepsExact' /\ ReadyParentsAreDone'
<1>1. remaining \in [Keys -> Nat]
  BY DEF TypeOK
<1>2. state' = RefreshStates(st, es, ks) /\ remaining' = RefreshDeps(st, remaining, es, ks)
  BY DEF WriteAndRefresh
<1>3. \A k \in Keys : NotDone(state', edges', k) = NotDone(st, es, k)
  BY <1>1, <1>2, RefreshFacts
<1>4. ASSUME NEW k \in Keys, state'[k] \in {"waiting", "ready"}
      PROVE  remaining'[k] = Cardinality(NotDone(st, es, k))
  <2>1. st[k] \in {"waiting", "ready"}
    BY <1>2, <1>4 DEF RefreshStates
  <2>2. CASE k \in ks
    BY <1>2, <2>1, <2>2 DEF RefreshDeps
  <2>3. CASE k \notin ks
    BY <1>2, <2>1, <2>3 DEF RefreshDeps
  <2>4. QED
    BY <2>2, <2>3
<1>5. ASSUME NEW k \in Keys, state'[k] = "ready"
      PROVE  NotDone(st, es, k) = {}
  BY <1>2, <1>5 DEF RefreshStates
<1>6. QED
  BY <1>3, <1>4, <1>5 DEF RemainingDepsExact, ReadyParentsAreDone

-----------------------------------------------------------------------------

\* A transaction that only rewrites the times of one lease.
LEMMA SameLease ==
    ASSUME Inv, NEW l \in leases, NEW m \in Leases, m.key = l.key,
           leases' = (leases \ {l}) \cup {m},
           UNCHANGED <<batch, class, actionVars, claims, releaseVars, cached>>
    PROVE  Inv'
<1> USE DEF actionVars, releaseVars
<1>1. TypeOK'
  BY DEF Inv, TypeOK
<1>2. LeasesMatchRunning'
  BY DEF Inv, LeasesMatchRunning
<1>3. EndedBatchIsQuiet'
  BY DEF Inv, EndedBatchIsQuiet
<1>4. RemainingDepsExact' /\ ReadyParentsAreDone'
  BY DEF Inv, RemainingDepsExact, ReadyParentsAreDone, NotDone
<1>5. RunningIsCounted' /\ FailedOnlyInRuns'
  BY DEF Inv, RunningIsCounted, FailedOnlyInRuns
<1>6. QED
  BY <1>1, <1>2, <1>3, <1>4, <1>5 DEF Inv

\* A lease that runs out keeps the invariant.
LEMMA LeaseRunsOutInv ==
    ASSUME Inv, NEW l \in leases, LeaseRunsOut(l) PROVE Inv'
<1> DEFINE m == [l EXCEPT !.expired = TRUE]
<1>1. m \in Leases /\ m.key = l.key
  BY DEF Inv, TypeOK, Leases
<1>2. QED
  BY <1>1, SameLease DEF LeaseRunsOut

\* A heartbeat or complete request on its way keeps the invariant.
LEMMA BeginRequestInv ==
    ASSUME Inv, NEW l \in leases, BeginRequest(l) PROVE Inv'
<1> DEFINE m == [l EXCEPT !.pending = TRUE]
<1>1. m \in Leases /\ m.key = l.key
  BY DEF Inv, TypeOK, Leases
<1>2. QED
  BY <1>1, SameLease DEF BeginRequest

\* heartbeat keeps the invariant: it only moves the expiry of one lease.
LEMMA HeartbeatInv ==
    ASSUME Inv, NEW l \in leases, Heartbeat(l) PROVE Inv'
<1> DEFINE m == [l EXCEPT !.pending = FALSE, !.expired = FALSE]
<1>1. m \in Leases /\ m.key = l.key
  BY DEF Inv, TypeOK, Leases
<1>2. QED
  BY <1>1, SameLease DEF Heartbeat

\* The first transaction of expire_leases only reads.
LEMMA SelectExpiredInv ==
    ASSUME Inv, NEW l \in leases, SelectExpired(l) PROVE Inv'
<1> DEFINE m == [l EXCEPT !.selected = TRUE]
<1>1. m \in Leases /\ m.key = l.key
  BY DEF Inv, TypeOK, Leases
<1>2. QED
  BY <1>1, SameLease DEF SelectExpired

\* Steps that write no row of the batch.
LEMMA RowsUnchanged ==
    ASSUME Inv, UNCHANGED <<batch, class, actionVars, leaseVars>>,
           pass' \in [Passes -> PassStates],
           trusted' \subseteq Keys, cached' \subseteq Keys
    PROVE  Inv'
<1> USE DEF actionVars, leaseVars
<1>1. TypeOK'
  BY DEF Inv, TypeOK
<1>2. LeasesMatchRunning' /\ EndedBatchIsQuiet'
  BY DEF Inv, LeasesMatchRunning, EndedBatchIsQuiet
<1>3. RemainingDepsExact' /\ ReadyParentsAreDone'
  BY DEF Inv, RemainingDepsExact, ReadyParentsAreDone, NotDone
<1>4. RunningIsCounted' /\ FailedOnlyInRuns'
  BY DEF Inv, RunningIsCounted, FailedOnlyInRuns
<1>5. QED
  BY <1>1, <1>2, <1>3, <1>4 DEF Inv

\* What a release pass becomes by an answer of the cache is the state of a pass.
LEMMA AnsweredType ==
    ASSUME NEW q \in PassStates, NEW k \in Keys, NEW present \in SUBSET Keys,
           NEW evicted \in SUBSET (Keys \X Keys)
    PROVE  Answered(q, k, present, evicted) \in PassStates
<1>1. /\ q.answered \cup {k} \in SUBSET Keys
      /\ q.present \cup present \in SUBSET Keys
  BY DEF PassStates
<1>2. q.evicted \cup evicted \in SUBSET (Keys \X Keys)
  <2>1. q.evicted \in SUBSET (Keys \X Keys)
    BY DEF PassStates
  <2>2. QED
    BY <2>1
<1> DEFINE a == q.answered \cup {k}
           b == q.present \cup present
           c == q.evicted \cup evicted
<1>3. Answered(q, k, present, evicted)
        = [q EXCEPT !.answered = a, !.present = b, !.evicted = c]
  BY DEF Answered
<1>4. a \in SUBSET Keys /\ b \in SUBSET Keys /\ c \in SUBSET (Keys \X Keys)
  BY <1>1, <1>2
<1> HIDE DEF a, b, c
<1>5. [q EXCEPT !.answered = a, !.present = b, !.evicted = c] \in PassStates
  BY <1>4 DEF PassStates
<1>6. QED
  BY <1>3, <1>5

\* Steps of a release pass that read, and the cache's own steps.
LEMMA ReadingPassInv ==
    ASSUME Inv, NEW p \in Passes, NEW k \in Keys,
           \/ StartPass(p) \/ AbandonPass(p) \/ TrustEnds(k) \/ Publish(k) \/ Evict(k)
           \/ AnswerPresent(p, k) \/ AnswerEvicted(p, k) \/ AnswerUnknown(p, k)
    PROVE  Inv'
<1>1. /\ pass \in [Passes -> PassStates] /\ trusted \subseteq Keys /\ cached \subseteq Keys
      /\ edges \subseteq Keys \X Keys
  BY DEF Inv, TypeOK
<1>2. IdlePass \in PassStates
  BY DEF IdlePass, PassStates
<1>3. CASE StartPass(p)
  <2>1. Releasable \subseteq Keys
    BY DEF Releasable
  <2>2. [IdlePass EXCEPT !.pc = "checking", !.candidates = Releasable,
                         !.parents = {e \in edges : e[1] \in Releasable}] \in PassStates
    BY <1>1, <2>1 DEF IdlePass, PassStates
  <2>3. pass' \in [Passes -> PassStates]
    BY <1>1, <1>3, <2>2 DEF StartPass
  <2>4. QED
    BY <1>1, <1>3, <2>3, RowsUnchanged DEF StartPass
<1>4. CASE AbandonPass(p)
  BY <1>1, <1>2, <1>4, RowsUnchanged DEF AbandonPass
<1>5. CASE TrustEnds(k)
  BY <1>1, <1>5, RowsUnchanged DEF TrustEnds
<1>6. CASE Publish(k)
  BY <1>1, <1>6, RowsUnchanged DEF Publish, releaseVars
<1>7. CASE Evict(k)
  BY <1>1, <1>7, RowsUnchanged DEF Evict, releaseVars
<1>8. CASE AnswerPresent(p, k)
  <2>1. pass' \in [Passes -> PassStates]
    <3>1. Answered(pass[p], k, {k}, {}) \in PassStates
      BY <1>1, AnsweredType
    <3>2. QED
      BY <1>1, <1>8, <3>1 DEF AnswerPresent
  <2>2. QED
    BY <1>1, <1>8, <2>1, RowsUnchanged DEF AnswerPresent
<1>9. CASE AnswerEvicted(p, k)
  <2>1. pass' \in [Passes -> PassStates]
    <3>1. pass[p] \in PassStates /\ pass[p].parents \in SUBSET (Keys \X Keys)
      BY <1>1 DEF PassStates
    <3>2. {e \in pass[p].parents : e[2] = k} \in SUBSET (Keys \X Keys)
      BY <3>1
    <3>3. Answered(pass[p], k, {}, {e \in pass[p].parents : e[2] = k}) \in PassStates
      BY <3>1, <3>2, AnsweredType
    <3>4. QED
      BY <1>1, <1>9, <3>3 DEF AnswerEvicted
  <2>2. QED
    BY <1>1, <1>9, <2>1, RowsUnchanged DEF AnswerEvicted
<1>10. CASE AnswerUnknown(p, k)
  <2>1. pass' \in [Passes -> PassStates]
    <3>1. Answered(pass[p], k, {}, {}) \in PassStates
      BY <1>1, AnsweredType
    <3>2. QED
      BY <1>1, <1>10, <3>1 DEF AnswerUnknown
  <2>2. QED
    BY <1>1, <1>10, <2>1, RowsUnchanged DEF AnswerUnknown
<1>11. QED
  BY <1>3, <1>4, <1>5, <1>6, <1>7, <1>8, <1>9, <1>10

-----------------------------------------------------------------------------

\* Before the submit, the invariant holds.
LEMMA InitInv == Init => Inv
<1> SUFFICES ASSUME Init PROVE Inv
  OBVIOUS
<1> USE DEF Init, NoRows
<1>1. TypeOK
  BY DEF TypeOK, BatchStates, ActionStates, Tiers, IdlePass, PassStates
<1>2. LeasesMatchRunning /\ EndedBatchIsQuiet
  BY DEF LeasesMatchRunning, EndedBatchIsQuiet, Unfinished
<1>3. RemainingDepsExact /\ ReadyParentsAreDone
  BY DEF RemainingDepsExact, ReadyParentsAreDone
<1>4. RunningIsCounted /\ FailedOnlyInRuns
  BY DEF RunningIsCounted, FailedOnlyInRuns
<1>5. QED
  BY <1>1, <1>2, <1>3, <1>4 DEF Inv

\* submit keeps the invariant: a new batch has exact counts and no lease.
LEMMA SubmitInv ==
    ASSUME Inv, batch = "absent", NEW c \in {"build", "run"},
           NEW es \in SUBSET (Keys \X Keys), NEW high \in SUBSET Keys, Submit(c, es, high)
    PROVE  Inv'
<1> USE DEF leaseVars, releaseVars
<1>1. leases = {} /\ leases' = {}
  BY DEF Inv, EndedBatchIsQuiet, Submit
<1>2. \A k \in Keys : state'[k] = "waiting"
  BY DEF Submit
<1>3. \A k \in Keys : NotDone(state', edges', k) = {p \in Keys : <<k, p>> \in es}
  BY <1>2 DEF NotDone, Submit
<1>4. \A k \in Keys : remaining'[k] = Cardinality(NotDone(state', edges', k))
  BY <1>3 DEF Submit
<1>5. TypeOK'
  <2>1. remaining' \in [Keys -> Nat]
    BY <1>4, NotDoneFinite DEF Submit
  <2>2. QED
    BY <1>1, <2>1 DEF Inv, TypeOK, Submit, BatchStates, ActionStates, Unfinished, Tiers
<1>6. LeasesMatchRunning' /\ EndedBatchIsQuiet'
  BY <1>1, <1>2 DEF LeasesMatchRunning, EndedBatchIsQuiet, Submit
<1>7. RemainingDepsExact' /\ ReadyParentsAreDone'
  BY <1>2, <1>4 DEF RemainingDepsExact, ReadyParentsAreDone
<1>8. RunningIsCounted' /\ FailedOnlyInRuns'
  BY <1>2 DEF RunningIsCounted, FailedOnlyInRuns
<1>9. QED
  BY <1>5, <1>6, <1>7, <1>8 DEF Inv

\* _end_batch leaves every part of the invariant true, whatever the states st
\* it starts from, as long as it ends a running batch and not as done.
LEMMA EndBatchInv ==
    ASSUME Inv, NEW final \in {"failed", "cancelled"}, NEW st \in [Keys -> ActionStates],
           EndBatch(final, st),
           tier' \in [Keys -> Tiers], attempts' \in [Keys -> Nat],
           lastDisk' \in [Keys -> BOOLEAN], pass' \in [Passes -> PassStates],
           trusted' \subseteq Keys, UNCHANGED <<class, claims, cached>>
    PROVE  Inv'
<1>1. \A k \in Keys : state'[k] \notin Unfinished
  BY DEF EndBatch, Unfinished
<1>2. TypeOK'
  BY DEF Inv, TypeOK, EndBatch, BatchStates, Ended, ActionStates
<1>3. LeasesMatchRunning' /\ EndedBatchIsQuiet'
  BY <1>1 DEF LeasesMatchRunning, EndedBatchIsQuiet, EndBatch, Unfinished
<1>4. RemainingDepsExact' /\ ReadyParentsAreDone'
  BY <1>1 DEF RemainingDepsExact, ReadyParentsAreDone, EndBatch, Unfinished
<1>5. RunningIsCounted' /\ FailedOnlyInRuns'
  BY <1>1 DEF RunningIsCounted, FailedOnlyInRuns, EndBatch, Unfinished
<1>6. QED
  BY <1>2, <1>3, <1>4, <1>5 DEF Inv

\* cancel and fail_overdue end a batch through _end_batch.
LEMMA ClientEndsBatchInv ==
    ASSUME Inv, Cancel \/ FailOverdue PROVE Inv'
<1>1. state \in [Keys -> ActionStates] /\ tier \in [Keys -> Tiers]
      /\ attempts \in [Keys -> Nat] /\ lastDisk \in [Keys -> BOOLEAN]
      /\ pass \in [Passes -> PassStates] /\ trusted \subseteq Keys
  BY DEF Inv, TypeOK
<1>2. CASE Cancel
  BY <1>1, <1>2, EndBatchInv DEF Cancel, releaseVars
<1>3. CASE FailOverdue
  BY <1>1, <1>3, EndBatchInv DEF FailOverdue, releaseVars
<1>4. QED
  BY <1>2, <1>3

\* delete_expired removes the rows of a batch that ended.
LEMMA DeleteExpiredInv ==
    ASSUME Inv, DeleteExpired PROVE Inv'
<1> USE DEF DeleteExpired, NoRows, releaseVars
<1>1. TypeOK'
  BY DEF Inv, TypeOK, BatchStates, ActionStates, Tiers
<1>2. LeasesMatchRunning' /\ EndedBatchIsQuiet'
  BY DEF LeasesMatchRunning, EndedBatchIsQuiet, Unfinished
<1>3. RemainingDepsExact' /\ ReadyParentsAreDone' /\ RunningIsCounted' /\ FailedOnlyInRuns'
  BY DEF RemainingDepsExact, ReadyParentsAreDone, RunningIsCounted, FailedOnlyInRuns
<1>4. QED
  BY <1>1, <1>2, <1>3 DEF Inv

\* _claim starts a ready action under a new lease.
LEMMA ClaimInv ==
    ASSUME Inv, NEW k \in Keys, Claim(k) PROVE Inv'
<1> DEFINE lease == [key |-> k, token |-> claims'[k], expired |-> FALSE,
                     pending |-> FALSE, selected |-> FALSE]
<1> USE DEF releaseVars
<1>1. TypeOK
  BY DEF Inv
<1>2. batch = "running" /\ state[k] = "ready" /\ batch' = "running"
  BY DEF Claim
<1>3. state' = [state EXCEPT ![k] = "running"] /\ leases' = leases \cup {lease}
  BY DEF Claim
<1>4. claims' \in [Keys -> Nat] /\ attempts' \in [Keys -> Nat]
  BY <1>1 DEF TypeOK, Claim
<1>5. TypeOK'
  <2>1. lease \in Leases
    BY <1>4 DEF Leases
  <2>2. state' \in [Keys -> ActionStates]
    BY <1>1, <1>3 DEF TypeOK, ActionStates, Unfinished
  <2>3. QED
    BY <1>1, <1>3, <1>4, <2>1, <2>2 DEF TypeOK, Claim
<1>6. LeasesMatchRunning'
  <2>1. \A l \in leases : l.key # k /\ l.key \in Keys
    BY <1>1, <1>2 DEF Inv, LeasesMatchRunning, TypeOK, Leases
  <2>2. \A j \in Keys : state'[j] = "running" <=> (state[j] = "running" \/ j = k)
    BY <1>1, <1>3 DEF TypeOK
  <2>3. lease.key = k
    OBVIOUS
  <2>4. LeasesMatchRunning
    BY DEF Inv
  <2> HIDE DEF lease
  <2>5. QED
    BY <1>3, <2>1, <2>2, <2>3, <2>4 DEF LeasesMatchRunning
<1>7. EndedBatchIsQuiet'
  BY <1>2 DEF EndedBatchIsQuiet
<1>8. RemainingDepsExact' /\ ReadyParentsAreDone'
  <2>1. \A j \in Keys : NotDone(state', edges', j) = NotDone(state, edges, j)
    BY <1>1, <1>2, <1>3 DEF NotDone, TypeOK, Claim
  <2>2. QED
    BY <1>1, <1>2, <1>3, <2>1 DEF Inv, RemainingDepsExact, ReadyParentsAreDone, TypeOK, Claim
<1>9. RunningIsCounted' /\ FailedOnlyInRuns'
  BY <1>1, <1>2, <1>3 DEF Inv, RunningIsCounted, FailedOnlyInRuns, TypeOK, Claim
<1>10. QED
  BY <1>5, <1>6, <1>7, <1>8, <1>9 DEF Inv

\* What a lease says of its batch and its action, and what is left without it.
LEMMA LeaseFacts ==
    ASSUME Inv, NEW l \in leases
    PROVE  /\ l.key \in Keys /\ batch = "running" /\ state[l.key] = "running"
           /\ attempts[l.key] >= 1
           /\ \A m \in leases \ {l} : m.key # l.key
           /\ leases \ {l} \in SUBSET Leases
<1>1. l.key \in Keys /\ leases \ {l} \in SUBSET Leases
  BY DEF Inv, TypeOK, Leases
<1>2. batch = "running" /\ state[l.key] = "running"
  BY DEF Inv, EndedBatchIsQuiet, LeasesMatchRunning
<1>3. \A m \in leases \ {l} : m.key # l.key
  BY DEF Inv, LeasesMatchRunning
<1>4. QED
  BY <1>1, <1>2, <1>3 DEF Inv, RunningIsCounted

\* The action of a lease that goes, and only it, stops running.
LEMMA LeaseGoes ==
    ASSUME Inv, NEW l \in leases, leases' = leases \ {l},
           \A k \in Keys : state'[k] = "running" <=> (state[k] = "running" /\ k # l.key)
    PROVE  LeasesMatchRunning'
BY LeaseFacts DEF Inv, LeasesMatchRunning, TypeOK, Leases

\* _retry gives the action back and drops its lease.
LEMMA RetryInv ==
    ASSUME Inv, NEW l \in leases, Retry(l.key, leases \ {l}),
           tier' \in [Keys -> Tiers], attempts' \in [Keys -> Nat],
           \A j \in Keys \ {l.key} : attempts'[j] = attempts[j],
           lastDisk' \in [Keys -> BOOLEAN], pass' \in [Passes -> PassStates],
           trusted' \subseteq Keys, UNCHANGED <<class, claims, cached>>
    PROVE  Inv'
<1> DEFINE st == [state EXCEPT ![l.key] = "waiting"]
<1>1. TypeOK /\ remaining \in [Keys -> Nat] /\ state \in [Keys -> ActionStates]
  BY DEF Inv, TypeOK
<1>2. st \in [Keys -> ActionStates]
  BY <1>1 DEF ActionStates, Unfinished
<1>3. /\ WriteAndRefresh(st, edges, {l.key}) /\ leases' = leases \ {l}
      /\ batch' = batch /\ edges' = edges
  BY DEF Retry
<1>4. state' = RefreshStates(st, edges, {l.key})
      /\ remaining' = RefreshDeps(st, remaining, edges, {l.key})
  BY <1>3 DEF WriteAndRefresh
<1>5. \A k \in Keys : NotDone(st, edges, k) = NotDone(state, edges, k)
  BY <1>1, LeaseFacts DEF NotDone
<1>6. RemainingDepsExact' /\ ReadyParentsAreDone'
  <2>1. \A k \in Keys \ {l.key} :
          /\ st[k] \in {"waiting", "ready"} =>
               remaining[k] = Cardinality(NotDone(st, edges, k))
          /\ st[k] = "ready" => NotDone(st, edges, k) = {}
    BY <1>1, <1>5, LeaseFacts DEF Inv, RemainingDepsExact, ReadyParentsAreDone
  <2>2. QED
    BY <1>1, <1>2, <1>3, <2>1, RefreshKeepsDepsExact
<1>7. TypeOK'
  <2>1. state' \in [Keys -> ActionStates] /\ remaining' \in [Keys -> Nat]
    BY <1>1, <1>2, <1>4, RefreshFacts
  <2>2. QED
    BY <1>1, <1>3, <2>1, LeaseFacts DEF TypeOK
<1>8. \A k \in Keys : /\ state'[k] = "running" <=> (state[k] = "running" /\ k # l.key)
                      /\ state'[k] = "failed" <=> state[k] = "failed"
  <2>1. \A k \in Keys : /\ st[k] = "running" <=> (state[k] = "running" /\ k # l.key)
                        /\ st[k] = "failed" <=> state[k] = "failed"
    BY <1>1, LeaseFacts
  <2>2. \A k \in Keys : /\ st[k] # "ready" => state'[k] = st[k]
                        /\ st[k] = "ready" => state'[k] \in {"ready", "waiting"}
    BY <1>4 DEF RefreshStates
  <2>3. QED
    BY <2>1, <2>2
<1>9. LeasesMatchRunning'
  BY <1>3, <1>8, LeaseGoes
<1>10. EndedBatchIsQuiet'
  BY <1>3, LeaseFacts DEF EndedBatchIsQuiet
<1>11. RunningIsCounted' /\ FailedOnlyInRuns'
  BY <1>3, <1>8 DEF Inv, RunningIsCounted, FailedOnlyInRuns
<1>12. QED
  BY <1>6, <1>7, <1>9, <1>10, <1>11 DEF Inv

\* A final failure of the action of a lease.
LEMMA FailInv ==
    ASSUME Inv, NEW l \in leases, Fail(l.key, leases \ {l}),
           UNCHANGED <<tier, attempts>>,
           lastDisk' \in [Keys -> BOOLEAN], pass' \in [Passes -> PassStates],
           trusted' \subseteq Keys, UNCHANGED <<class, claims, cached>>
    PROVE  Inv'
<1> DEFINE st == [state EXCEPT ![l.key] = "failed"]
<1>1. TypeOK /\ state \in [Keys -> ActionStates]
  BY DEF Inv, TypeOK
<1>2. st \in [Keys -> ActionStates]
  BY <1>1 DEF ActionStates, Ended
<1>3. CASE class = "build"
  <2>1. EndBatch("failed", st)
    BY <1>3 DEF Fail, FailBatch
  <2>2. QED
    BY <1>1, <1>2, <2>1, EndBatchInv DEF TypeOK
<1>4. CASE class # "build"
  <2>1. /\ state' = st /\ leases' = leases \ {l} /\ UNCHANGED <<remaining, edges>>
        /\ batch' = IF \A k \in Keys : st[k] \in {"done", "failed"} THEN "done" ELSE batch
    BY <1>4 DEF Fail, FinishIfDone
  <2>2. class = "run" /\ class' = "run" /\ batch = "running"
    BY <1>1, <1>4, LeaseFacts DEF TypeOK
  <2>3. TypeOK'
    BY <1>1, <1>2, <2>1, LeaseFacts DEF TypeOK, BatchStates, Ended
  <2>4. LeasesMatchRunning'
    BY <1>1, <2>1, LeaseGoes
  <2>5. EndedBatchIsQuiet'
    <3>1. CASE \A k \in Keys : st[k] \in {"done", "failed"}
      <4>1. leases' = {}
        BY <2>1, <2>3, <2>4, <3>1 DEF LeasesMatchRunning, TypeOK, Leases
      <4>2. QED
        BY <2>1, <2>2, <3>1, <4>1 DEF EndedBatchIsQuiet, Unfinished
    <3>2. CASE ~ \A k \in Keys : st[k] \in {"done", "failed"}
      BY <2>1, <2>2, <3>2 DEF EndedBatchIsQuiet
    <3>3. QED
      BY <3>1, <3>2
  <2>6. \A k \in Keys : NotDone(state', edges', k) = NotDone(state, edges, k)
    BY <1>1, <2>1, LeaseFacts DEF NotDone
  <2>7. RemainingDepsExact' /\ ReadyParentsAreDone'
    BY <1>1, <2>1, <2>2, <2>6 DEF Inv, RemainingDepsExact, ReadyParentsAreDone
  <2>8. RunningIsCounted' /\ FailedOnlyInRuns'
    BY <1>1, <2>1, <2>2 DEF Inv, RunningIsCounted, FailedOnlyInRuns
  <2>9. QED
    BY <2>3, <2>4, <2>5, <2>7, <2>8 DEF Inv
<1>5. QED
  BY <1>3, <1>4
-----------------------------------------------------------------------------

\* complete with a result: the children are refreshed, the batch may finish.
LEMMA CompleteDoneInv ==
    ASSUME Inv, NEW l \in leases, CompleteDone(l) PROVE Inv'
<1> DEFINE st == [state EXCEPT ![l.key] = "done"]
           ks == Children(edges, l.key)
<1>1. TypeOK /\ remaining \in [Keys -> Nat] /\ state \in [Keys -> ActionStates]
  BY DEF Inv, TypeOK
<1>2. st \in [Keys -> ActionStates]
  BY <1>1 DEF ActionStates, Ended
<1>3. /\ WriteAndRefresh(st, edges, ks) /\ leases' = leases \ {l} /\ edges' = edges
      /\ batch' = IF \A k \in Keys : st[k] \in {"done", "failed"} THEN "done" ELSE batch
      /\ lastDisk' = [lastDisk EXCEPT ![l.key] = FALSE]
      /\ UNCHANGED <<class, claims, pass, cached, tier, attempts, trusted>>
  BY DEF CompleteDone, TakeResult, FinishIfDone
<1>4. state' = RefreshStates(st, edges, ks) /\ remaining' = RefreshDeps(st, remaining, edges, ks)
  BY <1>3 DEF WriteAndRefresh
<1>5. RemainingDepsExact' /\ ReadyParentsAreDone'
  <2>1. \A k \in Keys \ ks : NotDone(st, edges, k) = NotDone(state, edges, k)
    BY <1>1, LeaseFacts DEF NotDone, Children
  <2>2. \A k \in Keys : st[k] \in {"waiting", "ready"} => st[k] = state[k]
    BY <1>1
  <2>3. \A k \in Keys \ ks :
          /\ st[k] \in {"waiting", "ready"} =>
               remaining[k] = Cardinality(NotDone(st, edges, k))
          /\ st[k] = "ready" => NotDone(st, edges, k) = {}
    BY <2>1, <2>2, LeaseFacts DEF Inv, RemainingDepsExact, ReadyParentsAreDone
  <2>4. QED
    BY <1>1, <1>2, <1>3, <2>3, RefreshKeepsDepsExact
<1>6. TypeOK'
  <2>1. state' \in [Keys -> ActionStates] /\ remaining' \in [Keys -> Nat]
    BY <1>1, <1>2, <1>4, RefreshFacts
  <2>2. batch' \in BatchStates
    BY <1>1, <1>3 DEF TypeOK, BatchStates, Ended
  <2>3. QED
    BY <1>1, <1>3, <2>1, <2>2, LeaseFacts DEF TypeOK
<1>7. \A k \in Keys : /\ state'[k] = "running" <=> (state[k] = "running" /\ k # l.key)
                      /\ state'[k] = "failed" <=> state[k] = "failed"
                      /\ st[k] \in {"done", "failed"} => state'[k] = st[k]
  <2>1. \A k \in Keys : /\ st[k] = "running" <=> (state[k] = "running" /\ k # l.key)
                        /\ st[k] = "failed" <=> state[k] = "failed"
    BY <1>1, LeaseFacts
  <2>2. \A k \in Keys : /\ st[k] # "ready" => state'[k] = st[k]
                        /\ st[k] = "ready" => state'[k] \in {"ready", "waiting"}
    BY <1>4 DEF RefreshStates
  <2>3. QED
    BY <2>1, <2>2
<1>8. LeasesMatchRunning'
  BY <1>3, <1>7, LeaseGoes
<1>9. EndedBatchIsQuiet'
  <2>1. CASE \A k \in Keys : st[k] \in {"done", "failed"}
    <3>1. \A k \in Keys : state'[k] \in {"done", "failed"}
      BY <1>7, <2>1
    <3>2. leases' = {}
      BY <1>6, <1>8, <3>1 DEF LeasesMatchRunning, TypeOK, Leases
    <3>3. class = "build" => \A k \in Keys : state'[k] # "failed"
      BY <1>7, LeaseFacts DEF Inv, FailedOnlyInRuns
    <3>4. class \in {"build", "run"} /\ class' = class
      BY <1>1, <1>3 DEF TypeOK
    <3>5. QED
      BY <3>1, <3>2, <3>3, <3>4 DEF EndedBatchIsQuiet, Unfinished
  <2>2. CASE ~ \A k \in Keys : st[k] \in {"done", "failed"}
    BY <1>3, <2>2, LeaseFacts DEF EndedBatchIsQuiet
  <2>3. QED
    BY <2>1, <2>2
<1>10. RunningIsCounted' /\ FailedOnlyInRuns'
  BY <1>3, <1>7, LeaseFacts DEF Inv, RunningIsCounted, FailedOnlyInRuns
<1>11. QED
  BY <1>5, <1>6, <1>8, <1>9, <1>10 DEF Inv

\* The completions that end in _retry, _fail or _fail_batch.
LEMMA CompleteFailedInv ==
    ASSUME Inv, NEW l \in leases, NEW isDisk \in BOOLEAN,
           \/ CompleteMemory(l) \/ CompleteUnavailable(l) \/ CompleteMissingOther(l)
           \/ CompleteRetryable(l, isDisk) \/ CompleteFinal(l, isDisk)
           \/ CompleteMissingFinal(l)
    PROVE  Inv'
<1> USE DEF TakeResult
<1>1. /\ state \in [Keys -> ActionStates] /\ tier \in [Keys -> Tiers]
      /\ attempts \in [Keys -> Nat] /\ lastDisk \in [Keys -> BOOLEAN]
      /\ pass \in [Passes -> PassStates] /\ trusted \subseteq Keys
  BY DEF Inv, TypeOK
<1>2. l.key \in Keys /\ attempts[l.key] >= 1
  BY LeaseFacts
<1>3. lastDisk' \in [Keys -> BOOLEAN] /\ pass' \in [Passes -> PassStates]
      /\ trusted' \subseteq Keys /\ UNCHANGED <<class, claims, cached>>
  <2>1. \E d \in BOOLEAN : TakeResult(l, d)
    BY DEF CompleteMemory, CompleteUnavailable, CompleteMissingOther, CompleteRetryable,
           CompleteFinal, CompleteMissingFinal
  <2>2. trusted' \subseteq trusted
    BY DEF CompleteMemory, CompleteUnavailable, CompleteMissingOther, CompleteRetryable,
           CompleteFinal, CompleteMissingFinal, ForgetFindings
  <2>3. QED
    BY <1>1, <2>1, <2>2
<1>4. CASE CompleteMemory(l)
  <2>1. tier' \in [Keys -> Tiers]
    BY <1>1, <1>4 DEF CompleteMemory, Tiers
  <2>2. QED
    BY <1>1, <1>3, <1>4, <2>1, RetryInv DEF CompleteMemory
<1>5. CASE CompleteUnavailable(l)
  <2>1. attempts' \in [Keys -> Nat] /\ \A j \in Keys \ {l.key} : attempts'[j] = attempts[j]
    BY <1>1, <1>2, <1>5 DEF CompleteUnavailable
  <2>2. QED
    BY <1>1, <1>3, <1>5, <2>1, RetryInv DEF CompleteUnavailable
<1>6. CASE CompleteMissingOther(l)
  BY <1>1, <1>3, <1>6, RetryInv DEF CompleteMissingOther
<1>7. CASE CompleteRetryable(l, isDisk)
  BY <1>1, <1>3, <1>7, RetryInv DEF CompleteRetryable
<1>8. CASE CompleteFinal(l, isDisk)
  BY <1>3, <1>8, FailInv DEF CompleteFinal
<1>9. CASE CompleteMissingFinal(l)
  <2>1. [state EXCEPT ![l.key] = "failed"] \in [Keys -> ActionStates]
    BY <1>1 DEF ActionStates, Ended
  <2>2. QED
    BY <1>1, <1>3, <1>9, <2>1, EndBatchInv DEF CompleteMissingFinal, FailBatch
<1>10. QED
  BY <1>4, <1>5, <1>6, <1>7, <1>8, <1>9

\* _add_edge never makes an action wait for itself.
LEMMA NoSelfEdge ==
    ASSUME NEW es, Acyclic(es), NEW m \in Keys PROVE <<m, m>> \notin es
<1>1. {m} \in (SUBSET Keys) \ {{}}
  <2>1. {m} \subseteq Keys /\ m \in {m}
    OBVIOUS
  <2>2. {m} # {}
    BY <2>1
  <2>3. QED
    BY <2>1, <2>2
<1>2. \E k \in {m} : \A p \in {m} : <<k, p>> \notin es
  BY <1>1 DEF Acyclic
<1>3. QED
  BY <1>2

\* complete for a missing input of a known theory: _input_missing adds the edge
\* or re-queues the parent, and refreshes what that disturbs.
LEMMA CompleteMissingTheoryInv ==
    ASSUME Inv, NEW l \in leases, NEW m \in Keys, class = "build", CompleteMissingTheory(l, m)
    PROVE  Inv'
<1> DEFINE es == edges \cup {<<l.key, m>>}
           st == [state EXCEPT ![l.key] = "waiting",
                               ![m] = IF @ = "done" THEN "waiting" ELSE @]
           ks == {m} \cup Children(es, m)
<1>1. TypeOK /\ remaining \in [Keys -> Nat] /\ state \in [Keys -> ActionStates]
      /\ edges \subseteq Keys \X Keys
  BY DEF Inv, TypeOK
<1>2. l.key \in Keys /\ batch = "running" /\ state[l.key] = "running"
  BY LeaseFacts
<1>3. /\ WriteAndRefresh(st, es, ks) /\ leases' = leases \ {l} /\ edges' = es /\ Acyclic(es)
      /\ lastDisk' = [lastDisk EXCEPT ![l.key] = FALSE] /\ trusted' \subseteq trusted
      /\ UNCHANGED <<batch, class, claims, pass, cached, tier, attempts>>
  BY DEF CompleteMissingTheory, TakeResult, ForgetFindings
<1>4. m # l.key
  <2>1. <<m, m>> \notin es
    BY <1>3, NoSelfEdge
  <2>2. QED
    BY <2>1
<1>5. /\ st \in [Keys -> ActionStates]
      /\ st[l.key] = "waiting"
      /\ st[m] = IF state[m] = "done" THEN "waiting" ELSE state[m]
      /\ \A k \in Keys \ {l.key, m} : st[k] = state[k]
  BY <1>1, <1>2, <1>4 DEF ActionStates, Unfinished
<1>6. state' = RefreshStates(st, es, ks) /\ remaining' = RefreshDeps(st, remaining, es, ks)
  BY <1>3 DEF WriteAndRefresh
<1>7. RemainingDepsExact' /\ ReadyParentsAreDone'
  <2>1. l.key \in ks
    BY <1>2 DEF Children
  <2>2. \A k \in Keys \ ks : NotDone(st, es, k) = NotDone(state, edges, k)
    <3>1. \A k \in Keys \ ks : <<k, m>> \notin es
      BY DEF Children
    <3>2. \A k \in Keys \ ks : \A p \in Keys : <<k, p>> \in es <=> <<k, p>> \in edges
      BY <2>1
    <3>3. \A p \in Keys \ {m} : st[p] # "done" <=> state[p] # "done"
      BY <1>2, <1>5
    <3>4. QED
      BY <3>1, <3>2, <3>3 DEF NotDone
  <2>3. \A k \in Keys \ ks : st[k] = state[k]
    BY <1>5, <2>1
  <2>4. \A k \in Keys \ ks :
          /\ st[k] \in {"waiting", "ready"} =>
               remaining[k] = Cardinality(NotDone(st, es, k))
          /\ st[k] = "ready" => NotDone(st, es, k) = {}
    BY <1>2, <2>2, <2>3 DEF Inv, RemainingDepsExact, ReadyParentsAreDone
  <2>5. QED
    <3> HIDE DEF es, st, ks
    <3>1. QED
      BY <1>1, <1>3, <1>5, <2>4, RefreshKeepsDepsExact
<1>8. TypeOK'
  <2>1. state' \in [Keys -> ActionStates] /\ remaining' \in [Keys -> Nat]
    BY <1>1, <1>5, <1>6, RefreshFacts
  <2>2. es \in SUBSET (Keys \X Keys)
    BY <1>1, <1>2
  <2>3. QED
    BY <1>1, <1>3, <2>1, <2>2, LeaseFacts DEF TypeOK
<1>9. \A k \in Keys : /\ state'[k] = "running" <=> (state[k] = "running" /\ k # l.key)
                      /\ state'[k] = "failed" <=> state[k] = "failed"
  <2>1. \A k \in Keys : /\ st[k] = "running" <=> (state[k] = "running" /\ k # l.key)
                        /\ st[k] = "failed" <=> state[k] = "failed"
    BY <1>2, <1>5
  <2>2. \A k \in Keys : /\ st[k] # "ready" => state'[k] = st[k]
                        /\ st[k] = "ready" => state'[k] \in {"ready", "waiting"}
    BY <1>6 DEF RefreshStates
  <2>3. QED
    BY <2>1, <2>2
<1>10. LeasesMatchRunning'
  BY <1>3, <1>9, LeaseGoes
<1>11. EndedBatchIsQuiet' /\ RunningIsCounted' /\ FailedOnlyInRuns'
  BY <1>2, <1>3, <1>9 DEF Inv, EndedBatchIsQuiet, RunningIsCounted, FailedOnlyInRuns
<1>12. QED
  BY <1>7, <1>8, <1>10, <1>11 DEF Inv

\* complete, whatever the result.
LEMMA CompleteInv ==
    ASSUME Inv, NEW l \in leases, Complete(l) PROVE Inv'
BY CompleteDoneInv, CompleteFailedInv, CompleteMissingTheoryInv DEF Complete

\* The second transaction of expire_leases, for one lease.
LEMMA ExpireLeaseInv ==
    ASSUME Inv, NEW l \in leases, ExpireLease(l) PROVE Inv'
<1>1. /\ TypeOK /\ tier \in [Keys -> Tiers] /\ lastDisk \in [Keys -> BOOLEAN]
      /\ attempts \in [Keys -> Nat] /\ pass \in [Passes -> PassStates] /\ trusted \subseteq Keys
  BY DEF Inv, TypeOK
<1>2. UNCHANGED <<class, tier, attempts, claims, pass, trusted, cached>>
  BY DEF ExpireLease, releaseVars
<1>3. CASE ~l.expired
  <2> DEFINE m == [l EXCEPT !.selected = FALSE]
  <2>1. m \in Leases /\ m.key = l.key
    BY <1>1 DEF TypeOK, Leases
  <2>2. QED
    BY <1>2, <1>3, <2>1, SameLease DEF ExpireLease, actionVars, releaseVars
<1>4. CASE l.expired /\ attempts[l.key] >= MaxAttempts
  <2>1. lastDisk' \in [Keys -> BOOLEAN]
    BY <1>1, <1>4 DEF ExpireLease
  <2>2. Fail(l.key, leases \ {l})
    BY <1>4, LeaseFacts DEF ExpireLease
  <2>3. QED
    BY <1>1, <1>2, <2>1, <2>2, FailInv
<1>5. CASE l.expired /\ ~(attempts[l.key] >= MaxAttempts)
  <2>1. Retry(l.key, leases \ {l}) /\ lastDisk' = lastDisk
    BY <1>5, LeaseFacts DEF ExpireLease
  <2>2. QED
    BY <1>1, <1>2, <2>1, RetryInv
<1>6. QED
  BY <1>3, <1>4, <1>5
-----------------------------------------------------------------------------

\* What a pass re-queues are actions of the batch.
LEMMA RequeueingType ==
    ASSUME NEW E \in SUBSET (Keys \X Keys) PROVE Requeueing(E) \in PassStates
BY DEF Requeueing, IdlePass, PassStates

\* A late pass makes ready only actions that, now, wait for no parent: it checks
\* remaining_deps under the batch's lock, and remaining_deps is exact.
LEMMA MakeReadyInv ==
    ASSUME Inv, NEW p \in Passes, MakeReady(p) PROVE Inv'
<1>1. TypeOK /\ remaining \in [Keys -> Nat] /\ state \in [Keys -> ActionStates]
      /\ pass \in [Passes -> PassStates]
  BY DEF Inv, TypeOK
<1>2. /\ pass' \in [Passes -> PassStates]
      /\ UNCHANGED <<batch, class, remaining, tier, attempts, lastDisk, edges, leases, claims,
                     trusted, cached>>
  <2>1. IdlePass \in PassStates /\ pass[p].evicted \in SUBSET (Keys \X Keys)
    BY <1>1 DEF IdlePass, PassStates
  <2>2. Requeueing(pass[p].evicted) \in PassStates
    BY <2>1, RequeueingType
  <2>3. QED
    BY <1>1, <2>1, <2>2 DEF MakeReady, leaseVars
<1>3. /\ state' \in [Keys -> ActionStates]
      /\ \A k \in Keys : \/ state'[k] = state[k]
                         \/ /\ batch = "running" /\ state[k] = "waiting"
                            /\ remaining[k] = 0 /\ state'[k] = "ready"
  <2> DEFINE ready == {k \in pass[p].candidates :
                         \A e \in pass[p].parents : e[1] = k => e[2] \in pass[p].present}
  <2>1. CASE ready # {} /\ batch # "running"
    BY <1>1, <2>1 DEF MakeReady
  <2>2. CASE ~(ready # {} /\ batch # "running")
    <3>1. state' = [k \in Keys |-> IF k \in ready /\ state[k] = "waiting" /\ remaining[k] = 0
                                   THEN "ready" ELSE state[k]]
      BY <2>2 DEF MakeReady
    <3> HIDE DEF ready
    <3>2. QED
      BY <1>1, <2>2, <3>1 DEF ActionStates, Unfinished
  <2>3. QED
    BY <2>1, <2>2
<1>4. TypeOK'
  BY <1>1, <1>2, <1>3 DEF TypeOK
<1>5. LeasesMatchRunning'
  <2>1. \A k \in Keys : state'[k] = "running" <=> state[k] = "running"
    BY <1>3
  <2>2. \A l \in leases : l.key \in Keys
    BY <1>1 DEF TypeOK, Leases
  <2>3. QED
    BY <1>2, <2>1, <2>2 DEF Inv, LeasesMatchRunning
<1>6. EndedBatchIsQuiet'
  BY <1>2, <1>3 DEF Inv, EndedBatchIsQuiet, Unfinished
<1>7. \A k \in Keys : NotDone(state', edges', k) = NotDone(state, edges, k)
  BY <1>2, <1>3 DEF NotDone
<1>8. RemainingDepsExact' /\ ReadyParentsAreDone'
  <2>1. RemainingDepsExact'
    BY <1>2, <1>3, <1>7 DEF Inv, RemainingDepsExact
  <2>2. ASSUME NEW k \in Keys, state'[k] = "ready" PROVE NotDone(state, edges, k) = {}
    <3>1. CASE state[k] = "ready"
      BY <3>1 DEF Inv, ReadyParentsAreDone
    <3>2. CASE state[k] # "ready"
      <4>1. batch = "running" /\ state[k] = "waiting" /\ remaining[k] = 0
        BY <1>3, <2>2, <3>2
      <4>2. Cardinality(NotDone(state, edges, k)) = 0
        BY <4>1 DEF Inv, RemainingDepsExact
      <4>3. QED
        BY <4>2, NotDoneFinite
    <3>3. QED
      BY <3>1, <3>2
  <2>3. QED
    BY <1>7, <2>1, <2>2 DEF ReadyParentsAreDone
<1>9. RunningIsCounted' /\ FailedOnlyInRuns'
  BY <1>2, <1>3 DEF Inv, RunningIsCounted, FailedOnlyInRuns
<1>10. QED
  BY <1>4, <1>5, <1>6, <1>8, <1>9 DEF Inv

\* _requeue_evicted keeps the invariant: the children of a re-queued parent,
\* running or ready, are refreshed or given back with it.
LEMMA RequeueEvictedInv ==
    ASSUME Inv, NEW p \in Passes, NEW e \in Keys \X Keys, RequeueEvicted(p, e)
    PROVE  Inv'
<1> DEFINE k == e[2]
           st == [state EXCEPT ![k] = "waiting"]
           ks == {k} \cup Children(edges, k)
<1>1. /\ TypeOK /\ remaining \in [Keys -> Nat] /\ state \in [Keys -> ActionStates]
      /\ tier \in [Keys -> Tiers] /\ lastDisk \in [Keys -> BOOLEAN]
      /\ attempts \in [Keys -> Nat] /\ pass \in [Passes -> PassStates] /\ trusted \subseteq Keys
      /\ cached \subseteq Keys /\ k \in Keys
  BY DEF Inv, TypeOK
<1>2. /\ pass' \in [Passes -> PassStates]
      /\ UNCHANGED <<class, tier, attempts, lastDisk, claims, trusted, cached>>
  <2>1. pass[p].evicted \ {e} \in SUBSET (Keys \X Keys)
    BY <1>1 DEF PassStates
  <2>2. Requeueing(pass[p].evicted \ {e}) \in PassStates
    BY <2>1, RequeueingType
  <2>3. QED
    BY <1>1, <2>2 DEF RequeueEvicted
<1>3. CASE batch # "running" \/ state[k] # "done"
  <2>1. UNCHANGED <<batch, state, remaining, edges, leases>>
    BY <1>3 DEF RequeueEvicted
  <2>2. QED
    BY <1>1, <1>2, <2>1, RowsUnchanged DEF actionVars, leaseVars
<1>4. CASE batch = "running" /\ state[k] = "done" /\ attempts[k] >= MaxAttempts
  <2>1. EndBatch("failed", [state EXCEPT ![k] = "failed"])
    BY <1>4 DEF RequeueEvicted, FailBatch
  <2>2. [state EXCEPT ![k] = "failed"] \in [Keys -> ActionStates]
    BY <1>1 DEF ActionStates, Ended
  <2>3. QED
    BY <1>1, <1>2, <2>1, <2>2, EndBatchInv
<1>5. CASE batch = "running" /\ state[k] = "done" /\ ~(attempts[k] >= MaxAttempts)
  <2>1. WriteAndRefresh(st, edges, ks) /\ UNCHANGED <<batch, edges, leases>>
    BY <1>5 DEF RequeueEvicted
  <2>2. state' = RefreshStates(st, edges, ks) /\ remaining' = RefreshDeps(st, remaining, edges, ks)
    BY <2>1 DEF WriteAndRefresh
  <2>3. st \in [Keys -> ActionStates] /\ \A j \in Keys \ {k} : st[j] = state[j]
    BY <1>1 DEF ActionStates, Unfinished
  <2>4. RemainingDepsExact' /\ ReadyParentsAreDone'
    <3>1. \A j \in Keys \ ks : NotDone(st, edges, j) = NotDone(state, edges, j)
      <4>1. \A j \in Keys \ ks : <<j, k>> \notin edges
        BY DEF Children
      <4>2. \A i \in Keys \ {k} : st[i] # "done" <=> state[i] # "done"
        BY <2>3
      <4>3. QED
        BY <4>1, <4>2 DEF NotDone
    <3>2. \A j \in Keys \ ks :
            /\ st[j] \in {"waiting", "ready"} =>
                 remaining[j] = Cardinality(NotDone(st, edges, j))
            /\ st[j] = "ready" => NotDone(st, edges, j) = {}
      BY <1>5, <2>3, <3>1 DEF Inv, RemainingDepsExact, ReadyParentsAreDone
    <3>3. edges' = edges /\ WriteAndRefresh(st, edges, ks)
      BY <2>1
    <3> HIDE DEF st, ks
    <3>4. QED
      BY <1>1, <2>3, <3>2, <3>3, RefreshKeepsDepsExact
  <2>5. TypeOK'
    <3>1. UNCHANGED <<batch, edges, leases>>
      BY <2>1
    <3> HIDE DEF k, st, ks
    <3>2. state' \in [Keys -> ActionStates] /\ remaining' \in [Keys -> Nat]
      <4>1. /\ RefreshStates(st, edges, ks) \in [Keys -> ActionStates]
            /\ RefreshDeps(st, remaining, edges, ks) \in [Keys -> Nat]
        BY <1>1, <2>3, RefreshFacts
      <4>2. QED
        BY <2>2, <4>1, Zenon
    <3>3. /\ batch' \in BatchStates /\ class' \in {"build", "run"}
          /\ edges' \in SUBSET (Keys \X Keys)
          /\ leases' \in SUBSET Leases /\ claims' \in [Keys -> Nat]
      BY <1>1, <1>2, <3>1 DEF TypeOK
    <3>4. /\ tier' \in [Keys -> Tiers] /\ attempts' \in [Keys -> Nat]
          /\ lastDisk' \in [Keys -> BOOLEAN]
          /\ trusted' \in SUBSET Keys /\ cached' \in SUBSET Keys
      BY <1>1, <1>2
    <3>5. QED
      BY <1>2, <3>2, <3>3, <3>4, Zenon DEF TypeOK
  <2>6. \A j \in Keys : /\ state'[j] = "running" <=> state[j] = "running"
                        /\ state'[j] = "failed" <=> state[j] = "failed"
    <3>1. \A j \in Keys : /\ st[j] = "running" <=> state[j] = "running"
                          /\ st[j] = "failed" <=> state[j] = "failed"
      BY <1>1, <1>5
    <3>2. \A j \in Keys : /\ st[j] # "ready" => state'[j] = st[j]
                          /\ st[j] = "ready" => state'[j] \in {"ready", "waiting"}
      BY <2>2 DEF RefreshStates
    <3>3. QED
      BY <3>1, <3>2
  <2>7. LeasesMatchRunning'
    <3>1. \A l \in leases : l.key \in Keys
      BY <1>1 DEF TypeOK, Leases
    <3>2. QED
      BY <2>1, <2>6, <3>1 DEF Inv, LeasesMatchRunning
  <2>8. EndedBatchIsQuiet' /\ RunningIsCounted' /\ FailedOnlyInRuns'
    BY <1>2, <1>5, <2>1, <2>6 DEF Inv, EndedBatchIsQuiet, RunningIsCounted, FailedOnlyInRuns
  <2>9. QED
    BY <2>4, <2>5, <2>7, <2>8 DEF Inv
<1>6. QED
  BY <1>3, <1>4, <1>5

-----------------------------------------------------------------------------

\* Every step of the coordinator keeps the invariant.
LEMMA NextInv ==
    ASSUME Inv, Next PROVE Inv'
<1>1. ASSUME batch = "absent", NEW c \in {"build", "run"}, NEW es \in SUBSET (Keys \X Keys),
             NEW high \in SUBSET Keys, Submit(c, es, high)
      PROVE  Inv'
  BY <1>1, SubmitInv
<1>2. ASSUME NEW l \in leases,
             \/ LeaseRunsOut(l) \/ BeginRequest(l) \/ Heartbeat(l) \/ Complete(l)
             \/ SelectExpired(l) \/ ExpireLease(l)
      PROVE  Inv'
  BY <1>2, LeaseRunsOutInv, BeginRequestInv, HeartbeatInv, CompleteInv, SelectExpiredInv,
     ExpireLeaseInv
<1>3. ASSUME NEW p \in Passes,
             ReleaseStep(p) \/ (\E k \in Keys : AnswerUnknown(p, k)) \/ AbandonPass(p)
      PROVE  Inv'
  <2>1. PICK k \in Keys : TRUE
    BY KeysAssumption
  <2>2. QED
    BY <1>3, <2>1, ReadingPassInv, MakeReadyInv, RequeueEvictedInv DEF ReleaseStep
<1>4. ASSUME NEW k \in Keys, TrustEnds(k) \/ Publish(k) \/ Evict(k)
      PROVE  Inv'
  <2>1. /\ pass \in [Passes -> PassStates] /\ trusted \subseteq Keys /\ cached \subseteq Keys
    BY DEF Inv, TypeOK
  <2>2. QED
    BY <1>4, <2>1, RowsUnchanged DEF TrustEnds, Publish, Evict, releaseVars
<1>5. QED
  BY <1>1, <1>2, <1>3, <1>4, ClientEndsBatchInv, DeleteExpiredInv, ClaimInv DEF Next

\* A stuttering step keeps the invariant.
LEMMA StutterInv ==
    ASSUME Inv, UNCHANGED vars PROVE Inv'
<1>1. /\ pass \in [Passes -> PassStates] /\ trusted \subseteq Keys /\ cached \subseteq Keys
  BY DEF Inv, TypeOK
<1>2. QED
  BY <1>1, RowsUnchanged DEF vars, releaseVars

\* The inductive invariant holds in every behaviour.
LEMMA InvIsInvariant == Spec => []Inv
<1>1. Init => Inv
  BY InitInv
<1>2. Inv /\ [Next]_vars => Inv'
  BY NextInv, StutterInv
<1>3. QED
  BY <1>1, <1>2, PTL DEF Spec

\* The columns keep their types, and attempts stays a natural number although
\* an unavailable worker's completion subtracts from it.
THEOREM TypeCorrect == Spec => []TypeOK
<1>1. Inv => TypeOK
  BY DEF Inv
<1>2. QED
  BY <1>1, InvIsInvariant, PTL

\* Leases and running actions correspond one to one, so complete, which sets the
\* action's state without looking at it, only ever touches an action that runs,
\* and expire_leases finds none that does not.
THEOREM LeasesCorrect == Spec => []LeasesMatchRunning
<1>1. Inv => LeasesMatchRunning
  BY DEF Inv
<1>2. QED
  BY <1>1, InvIsInvariant, PTL

\* A batch that ended leaves no lease and nothing unfinished behind.
THEOREM EndedBatchesAreQuiet == Spec => []EndedBatchIsQuiet
<1>1. Inv => EndedBatchIsQuiet
  BY DEF Inv
<1>2. QED
  BY <1>1, InvIsInvariant, PTL

\* remaining_deps is exact, for every DAG, every order of completions,
\* re-queues and added edges, and any number of passes.
THEOREM RemainingDepsCorrect == Spec => []RemainingDepsExact
<1>1. Inv => RemainingDepsExact
  BY DEF Inv
<1>2. QED
  BY <1>1, InvIsInvariant, PTL

\* No action is ever claimable while a parent of it is to be built again.
THEOREM ReadyCorrect == Spec => []ReadyParentsAreDone
<1>1. Inv => ReadyParentsAreDone
  BY DEF Inv
<1>2. QED
  BY <1>1, InvIsInvariant, PTL

-----------------------------------------------------------------------------

\* The leases table new still holds the lease l, under its token.
Follows(l, new) == \E m \in new : m.key = l.key /\ m.token = l.token

\* Rewriting the times of a lease keeps every lease, under its token.
LEMMA RewrittenLeaseFollows ==
    ASSUME NEW l \in leases, NEW m, m.key = l.key, m.token = l.token,
           leases' = (leases \ {l}) \cup {m}
    PROVE  \A n \in leases : Follows(n, leases')
BY DEF Follows

\* A transaction that removes a lease in a batch that goes on removes no other.
LEMMA OtherLeasesFollow ==
    ASSUME NEW l \in leases, leases' = leases \ {l} \/ leases' = leases
    PROVE  \A n \in leases \ {l} : Follows(n, leases')
BY DEF Follows

\* complete ends a lease only for the worker whose request began while it was
\* live, and leaves the other leases of a batch that goes on.
LEMMA CompleteKeepsLiveLeases ==
    ASSUME NEW l \in leases, Complete(l), batch' = "running"
    PROVE  \A n \in leases : ~n.expired /\ ~n.pending => Follows(n, leases')
<1>1. l.pending
  BY DEF Complete, TakeResult, CompleteDone, CompleteMemory, CompleteUnavailable,
         CompleteRetryable, CompleteFinal, CompleteMissingFinal, CompleteMissingTheory,
         CompleteMissingOther
<1>2. leases' = leases \ {l}
  BY DEF Complete, CompleteDone, CompleteMemory, CompleteUnavailable,
         CompleteRetryable, CompleteFinal, CompleteMissingFinal, CompleteMissingTheory,
         CompleteMissingOther, Retry, Fail, FailBatch, EndBatch
<1>3. QED
  BY <1>1, <1>2, OtherLeasesFollow

\* The sweep's transaction ends a lease only when it finds it expired.
LEMMA ExpireKeepsLiveLeases ==
    ASSUME Inv, NEW l \in leases, ExpireLease(l), batch' = "running"
    PROVE  \A n \in leases : ~n.expired /\ ~n.pending => Follows(n, leases')
<1>1. l \in Leases
  BY DEF Inv, TypeOK
<1>2. CASE ~l.expired
  <2> DEFINE m == [l EXCEPT !.selected = FALSE]
  <2>1. m.key = l.key /\ m.token = l.token
    BY <1>1 DEF Leases
  <2>2. leases' = (leases \ {l}) \cup {m}
    BY <1>2 DEF ExpireLease
  <2>3. QED
    BY <2>1, <2>2, RewrittenLeaseFollows
<1>3. CASE l.expired
  <2>1. leases' = leases \ {l}
    BY <1>3 DEF ExpireLease, Retry, Fail, FailBatch, EndBatch
  <2>2. QED
    BY <1>3, <2>1, OtherLeasesFollow
<1>4. QED
  BY <1>2, <1>3

\* The transactions that only write a lease's times keep all of them.
LEMMA TimesKeepLeases ==
    ASSUME Inv, NEW l \in leases,
           LeaseRunsOut(l) \/ BeginRequest(l) \/ Heartbeat(l) \/ SelectExpired(l)
    PROVE  \A n \in leases : Follows(n, leases')
<1>1. l \in Leases
  BY DEF Inv, TypeOK
<1>2. PICK m : m.key = l.key /\ m.token = l.token /\ leases' = (leases \ {l}) \cup {m}
  <2>1. CASE LeaseRunsOut(l)
    BY <1>1, <2>1 DEF LeaseRunsOut, Leases
  <2>2. CASE BeginRequest(l)
    BY <1>1, <2>2 DEF BeginRequest, Leases
  <2>3. CASE Heartbeat(l)
    BY <1>1, <2>3 DEF Heartbeat, Leases
  <2>4. CASE SelectExpired(l)
    BY <1>1, <2>4 DEF SelectExpired, Leases
  <2>5. QED
    BY <2>1, <2>2, <2>3, <2>4
<1>3. QED
  BY <1>2, RewrittenLeaseFollows

\* A release pass keeps the leases of a batch that goes on.
LEMMA PassKeepsLeases ==
    ASSUME NEW p \in Passes, batch' = "running",
           ReleaseStep(p) \/ (\E k \in Keys : AnswerUnknown(p, k)) \/ AbandonPass(p)
    PROVE  leases' = leases
BY DEF ReleaseStep, StartPass, AnswerPresent, AnswerEvicted, AnswerUnknown, MakeReady,
       RequeueEvicted, AbandonPass, FailBatch, EndBatch, leaseVars

\* No sweep, retry, release or completion of another action takes a live lease
\* from its worker: it goes by its own completion or with its batch.
THEOREM LiveLeasesAreKept == Spec => LiveLeaseIsKept
<1> DEFINE Kept == \A l \in leases :
                     (~l.expired /\ ~l.pending /\ batch' = "running") =>
                         \E m \in leases' : m.key = l.key /\ m.token = l.token
<1>1. ASSUME Inv, Next PROVE Kept
  <2> SUFFICES ASSUME batch' = "running"
               PROVE  \A n \in leases : ~n.expired /\ ~n.pending => Follows(n, leases')
    BY DEF Follows
  <2>1. ASSUME batch = "absent", NEW c \in {"build", "run"},
               NEW es \in SUBSET (Keys \X Keys), NEW high \in SUBSET Keys, Submit(c, es, high)
        PROVE  leases' = leases
    BY <2>1 DEF Submit, leaseVars
  <2>2. ASSUME Cancel \/ FailOverdue \/ DeleteExpired PROVE FALSE
    BY <2>2 DEF Cancel, FailOverdue, DeleteExpired, EndBatch
  <2>3. ASSUME NEW k \in Keys, Claim(k) PROVE leases \subseteq leases'
    BY <2>3 DEF Claim
  <2>4. ASSUME NEW k \in Keys, TrustEnds(k) \/ Publish(k) \/ Evict(k) PROVE leases' = leases
    BY <2>4 DEF TrustEnds, Publish, Evict, leaseVars
  <2>5. leases \subseteq leases' => \A n \in leases : Follows(n, leases')
    BY DEF Follows
  <2>6. QED
    BY <1>1, <2>1, <2>2, <2>3, <2>4, <2>5, CompleteKeepsLiveLeases, ExpireKeepsLiveLeases,
       TimesKeepLeases, PassKeepsLeases DEF Next
<1>2. ASSUME Inv, UNCHANGED vars PROVE Kept
  BY <1>2 DEF vars, leaseVars
<1>3. Inv /\ [Next]_vars => [Kept]_vars
  BY <1>1, <1>2
<1>4. QED
  BY <1>3, InvIsInvariant, PTL DEF Spec, LiveLeaseIsKept

-----------------------------------------------------------------------------

\* REFRESH is invisible to a client: waiting and ready are one phase.
LEMMA RefreshKeepsPhases ==
    ASSUME NEW st, NEW es, NEW ks
    PROVE  Phases(RefreshStates(st, es, ks)) = Phases(st)
BY DEF Phases, RefreshStates

\* So a transaction that ends in REFRESH shows the client what it wrote.
LEMMA WriteSeen ==
    ASSUME NEW st, NEW es, NEW ks, WriteAndRefresh(st, es, ks)
    PROVE  Phases(state') = Phases(st)
<1>1. state' = RefreshStates(st, es, ks)
  BY DEF WriteAndRefresh
<1>2. QED
  BY <1>1, RefreshKeepsPhases, Zenon

\* What writing one state does to the phases.
LEMMA PhaseOfWrite ==
    ASSUME NEW st \in [Keys -> ActionStates], NEW k \in Keys
    PROVE  /\ Phases([st EXCEPT ![k] = "waiting"]) = [Phases(st) EXCEPT ![k] = "pending"]
           /\ \A s \in {"running", "done", "failed"} :
                Phases([st EXCEPT ![k] = s]) = [Phases(st) EXCEPT ![k] = s]
BY DEF Phases

\* The step has no effect a client can see.
Unseen == UNCHANGED <<batch, class>> /\ Phases(state') = Phases(state)

\* Such a step is a stuttering step of the lifecycle.
LEMMA UnseenStutters ==
    ASSUME Unseen PROVE UNCHANGED Lifecycle!vars
BY DEF Unseen, Lifecycle!vars

\* submit is the lifecycle's Submit.
LEMMA SubmitSeen ==
    ASSUME batch = "absent", NEW c \in {"build", "run"}, NEW es \in SUBSET (Keys \X Keys),
           NEW high \in SUBSET Keys, Submit(c, es, high)
    PROVE  Lifecycle!Submit
BY DEF Submit, Lifecycle!Submit, Phases

\* _end_batch is EndEarly: the open actions are cancelled, and no other changes
\* but the one blamed.
LEMMA EndBatchSeen ==
    ASSUME TypeOK, batch = "running", UNCHANGED class
    PROVE  /\ \A final : EndBatch(final, state) => Lifecycle!EndEarly(final, {})
           /\ \A k \in Keys : FailBatch(k) => Lifecycle!EndEarly("failed", {k})
<1>1. state \in [Keys -> ActionStates]
  BY DEF TypeOK
<1> DEFINE Open == {"pending", "running"}
           Early(blamed) ==
             [j \in Keys |-> IF j \in blamed THEN "failed"
                             ELSE IF Phases(state)[j] \in Open THEN "cancelled"
                             ELSE Phases(state)[j]]
           Cut(st) == [j \in Keys |-> IF st[j] \in Unfinished THEN "cancelled" ELSE st[j]]
<1>2. Phases(Cut(state)) = Early({})
  <2>1. \A j \in Keys : state[j] \in Unfinished <=> Phases(state)[j] \in Open
    BY <1>1 DEF Phases, Unfinished, ActionStates, Ended
  <2>2. QED
    BY <2>1 DEF Phases, Unfinished
<1>3. ASSUME NEW k \in Keys PROVE Phases(Cut([state EXCEPT ![k] = "failed"])) = Early({k})
  <2> DEFINE st == [state EXCEPT ![k] = "failed"]
  <2>1. st[k] = "failed" /\ \A j \in Keys \ {k} : st[j] = state[j]
    BY <1>1
  <2> HIDE DEF st
  <2>2. \A j \in Keys : Phases(Cut(st))[j] = Early({k})[j]
    BY <1>1, <2>1 DEF Phases, Unfinished, ActionStates, Ended
  <2>3. QED
    BY <2>2 DEF Phases, st
<1>4. ASSUME NEW final, EndBatch(final, state) PROVE Lifecycle!EndEarly(final, {})
  <2>1. batch' = final /\ state' = Cut(state)
    BY <1>4 DEF EndBatch
  <2>2. Phases(state') = Early({})
    BY <1>2, <2>1, Zenon
  <2>3. QED
    BY <2>1, <2>2 DEF Lifecycle!EndEarly, Lifecycle!Open
<1>5. ASSUME NEW k \in Keys, FailBatch(k) PROVE Lifecycle!EndEarly("failed", {k})
  <2>1. batch' = "failed" /\ state' = Cut([state EXCEPT ![k] = "failed"])
    BY <1>5 DEF FailBatch, EndBatch
  <2>2. Phases(state') = Early({k})
    BY <1>3, <2>1, Zenon
  <2>3. QED
    BY <2>1, <2>2 DEF Lifecycle!EndEarly, Lifecycle!Open
<1>6. QED
  BY <1>4, <1>5

\* delete_expired is Delete.
LEMMA DeleteExpiredSeen ==
    ASSUME DeleteExpired PROVE Lifecycle!Delete
BY DEF DeleteExpired, Lifecycle!Delete, Ended, NoRows, Phases

\* A claim is Start.
LEMMA ClaimSeen ==
    ASSUME Inv, NEW k \in Keys, Claim(k) PROVE Lifecycle!Start(k)
<1>1. state \in [Keys -> ActionStates]
  BY DEF Inv, TypeOK
<1>2. Phases(state)[k] = "pending"
  BY DEF Claim, Phases
<1>3. Phases(state') = [Phases(state) EXCEPT ![k] = "running"]
  BY <1>1, PhaseOfWrite DEF Claim
<1>4. QED
  BY <1>2, <1>3 DEF Claim, Lifecycle!Start

\* _retry gives the action back, and nothing else.
LEMMA RetrySeen ==
    ASSUME Inv, NEW l \in leases, Retry(l.key, leases \ {l}), UNCHANGED class
    PROVE  Lifecycle!GiveBack(l.key, {})
<1>1. /\ l.key \in Keys /\ batch = "running" /\ state[l.key] = "running"
      /\ state \in [Keys -> ActionStates]
  BY LeaseFacts DEF Inv, TypeOK
<1>2. Phases(state') = [Phases(state) EXCEPT ![l.key] = "pending"]
  <2> DEFINE st == [state EXCEPT ![l.key] = "waiting"]
  <2>1. WriteAndRefresh(st, edges, {l.key})
    BY DEF Retry
  <2>2. Phases(state') = Phases(st)
    BY <2>1, WriteSeen
  <2>3. Phases(st) = [Phases(state) EXCEPT ![l.key] = "pending"]
    BY <1>1, PhaseOfWrite
  <2>4. QED
    BY <2>2, <2>3
<1>3. Phases(state)[l.key] = "running"
  BY <1>1 DEF Phases
<1>4. [Phases(state) EXCEPT ![l.key] = "pending"]
        = [j \in Keys |-> IF j \in {} \cup {l.key} THEN "pending" ELSE Phases(state)[j]]
  BY <1>1 DEF Phases
<1>5. UNCHANGED <<batch, class>>
  BY DEF Retry
<1>6. QED
  BY <1>1, <1>2, <1>3, <1>4, <1>5 DEF Lifecycle!GiveBack

\* The batch is over for the client exactly when _finish_if_done says so.
LEMMA FinishSeen ==
    ASSUME Inv, NEW l \in leases, NEW st, NEW end \in {"done", "failed"},
           end = "failed" => class = "run",
           st = [state EXCEPT ![l.key] = end],
           FinishIfDone(st), Phases(state') = Phases(st), UNCHANGED class
    PROVE  Lifecycle!Finish(l.key, end)
<1>1. /\ l.key \in Keys /\ batch = "running" /\ state[l.key] = "running"
      /\ state \in [Keys -> ActionStates]
  BY LeaseFacts DEF Inv, TypeOK
<1>2. Phases(state') = [Phases(state) EXCEPT ![l.key] = end]
  <2>1. Phases([state EXCEPT ![l.key] = end]) = [Phases(state) EXCEPT ![l.key] = end]
    <3>1. CASE end = "done"
      BY <1>1, <3>1, PhaseOfWrite
    <3>2. CASE end = "failed"
      BY <1>1, <3>2, PhaseOfWrite
    <3>3. QED
      BY <3>1, <3>2
  <2>2. Phases(st) = Phases([state EXCEPT ![l.key] = end])
    OBVIOUS
  <2>3. QED
    BY <2>1, <2>2
<1>3. Phases(state)[l.key] = "running"
  BY <1>1 DEF Phases
<1>4. (\A j \in Keys : st[j] \in {"done", "failed"})
        <=> (\A j \in Keys : Phases(state')[j] \in {"done", "failed"})
  BY DEF Phases
<1>5. batch' = IF \A j \in Keys : Phases(state')[j] \in {"done", "failed"}
               THEN "done" ELSE "running"
  BY <1>1, <1>4 DEF FinishIfDone
<1>6. QED
  BY <1>1, <1>2, <1>3, <1>5 DEF Lifecycle!Finish

\* _fail ends the batch of a build for the action blamed, and of a run only
\* the action.
LEMMA FailSeen ==
    ASSUME Inv, NEW l \in leases, Fail(l.key, leases \ {l}), UNCHANGED class
    PROVE  Lifecycle!EndEarly("failed", {l.key}) \/ Lifecycle!Finish(l.key, "failed")
<1>1. l.key \in Keys /\ batch = "running" /\ TypeOK /\ class \in {"build", "run"}
  BY LeaseFacts DEF Inv, TypeOK
<1>2. CASE class = "build"
  BY <1>1, <1>2, EndBatchSeen DEF Fail
<1>3. CASE class = "run"
  <2>1. state' = [state EXCEPT ![l.key] = "failed"] /\ FinishIfDone(state')
    BY <1>3 DEF Fail
  <2>2. QED
    BY <1>3, <2>1, FinishSeen
<1>4. QED
  BY <1>1, <1>2, <1>3

\* The completion of a built or cached action is Finish.
LEMMA CompleteDoneSeen ==
    ASSUME Inv, NEW l \in leases, CompleteDone(l) PROVE Lifecycle!Finish(l.key, "done")
<1> DEFINE st == [state EXCEPT ![l.key] = "done"]
<1>1. FinishIfDone(st) /\ Phases(state') = Phases(st) /\ UNCHANGED class
  BY WriteSeen DEF CompleteDone, TakeResult
<1>2. QED
  BY <1>1, FinishSeen

\* A missing theory of the batch goes back to the queue with the action, if it
\* was done.
LEMMA CompleteMissingTheorySeen ==
    ASSUME Inv, NEW l \in leases, NEW m \in Keys, CompleteMissingTheory(l, m)
    PROVE  \E again \in {{}} \cup {{j} : j \in Keys} : Lifecycle!GiveBack(l.key, again)
<1> DEFINE k == l.key
           again == IF state[m] = "done" THEN {m} ELSE {}
           es == edges \cup {<<k, m>>}
           st == [state EXCEPT ![k] = "waiting",
                               ![m] = IF @ = "done" THEN "waiting" ELSE @]
<1>1. /\ k \in Keys /\ batch = "running" /\ state[k] = "running"
      /\ state \in [Keys -> ActionStates]
  BY LeaseFacts DEF Inv, TypeOK
<1>2. Phases(state') = Phases(st) /\ UNCHANGED <<batch, class>>
  BY WriteSeen DEF CompleteMissingTheory, TakeResult
<1>3. Phases(st) = [j \in Keys |-> IF j \in again \cup {k} THEN "pending" ELSE Phases(state)[j]]
  <2>1. st[k] = "waiting" /\ \A j \in Keys \ {k} :
          st[j] = IF j \in again THEN "waiting" ELSE state[j]
    <3>1. Acyclic(es)
      BY DEF CompleteMissingTheory
    <3>2. m # k
      BY <3>1, NoSelfEdge
    <3>3. QED
      BY <1>1, <3>2
  <2> HIDE DEF st, again
  <2>2. QED
    BY <2>1 DEF Phases
<1>4. Phases(state)[k] = "running" /\ again \subseteq {j \in Keys : Phases(state)[j] = "done"}
  BY <1>1 DEF Phases
<1>5. again \in {{}} \cup {{j} : j \in Keys} /\ \A i, j \in again : i = j
  OBVIOUS
<1> HIDE DEF again, st
<1>6. Lifecycle!GiveBack(k, again)
  BY <1>1, <1>2, <1>3, <1>4, <1>5 DEF Lifecycle!GiveBack
<1>7. QED
  BY <1>5, <1>6

\* complete, whatever the result, is a step of the lifecycle.
LEMMA CompleteSeen ==
    ASSUME Inv, NEW l \in leases, Complete(l) PROVE Lifecycle!Next
<1>1. l.key \in Keys /\ batch = "running" /\ TypeOK
  BY LeaseFacts DEF Inv
<1>2. ASSUME Retry(l.key, leases \ {l}), UNCHANGED class PROVE Lifecycle!Next
  BY <1>1, <1>2, RetrySeen DEF Lifecycle!Next
<1>3. ASSUME Fail(l.key, leases \ {l}), UNCHANGED class PROVE Lifecycle!Next
  BY <1>1, <1>3, FailSeen DEF Lifecycle!Next
<1>4. CASE CompleteDone(l)
  BY <1>1, <1>4, CompleteDoneSeen DEF Lifecycle!Next
<1>5. ASSUME CompleteMissingFinal(l) PROVE Lifecycle!Next
  BY <1>1, <1>5, EndBatchSeen DEF CompleteMissingFinal, TakeResult, Lifecycle!Next
<1>6. ASSUME NEW m \in Keys, CompleteMissingTheory(l, m) PROVE Lifecycle!Next
  BY <1>1, <1>6, CompleteMissingTheorySeen DEF Lifecycle!Next
<1>7. CASE CompleteMemory(l) \/ CompleteUnavailable(l) \/ CompleteMissingOther(l)
  BY <1>2, <1>7 DEF CompleteMemory, CompleteUnavailable, CompleteMissingOther, TakeResult
<1>8. ASSUME NEW isDisk \in BOOLEAN, CompleteRetryable(l, isDisk) \/ CompleteFinal(l, isDisk)
      PROVE  Lifecycle!Next
  BY <1>2, <1>3, <1>8 DEF CompleteRetryable, CompleteFinal, TakeResult
<1>9. QED
  BY <1>4, <1>5, <1>6, <1>7, <1>8 DEF Complete

\* The sweep's transaction for a lease: nothing, a retry or a failure.
LEMMA ExpireLeaseSeen ==
    ASSUME Inv, NEW l \in leases, ExpireLease(l) PROVE Lifecycle!Next \/ Unseen
<1>1. l.key \in Keys /\ state[l.key] = "running" /\ UNCHANGED class
  BY LeaseFacts DEF ExpireLease
<1>2. CASE ~l.expired
  BY <1>1, <1>2 DEF ExpireLease, Unseen
<1>3. CASE l.expired /\ attempts[l.key] >= MaxAttempts
  BY <1>1, <1>3, FailSeen DEF ExpireLease, Lifecycle!Next
<1>4. CASE l.expired /\ ~(attempts[l.key] >= MaxAttempts)
  BY <1>1, <1>4, RetrySeen DEF ExpireLease, Lifecycle!Next
<1>5. QED
  BY <1>2, <1>3, <1>4

\* _requeue_evicted builds a done parent again, or fails the batch for it.
LEMMA RequeueEvictedSeen ==
    ASSUME Inv, NEW p \in Passes, NEW e \in Keys \X Keys, RequeueEvicted(p, e)
    PROVE  Lifecycle!Next \/ Unseen
<1> DEFINE k == e[2]
<1>1. k \in Keys /\ TypeOK /\ state \in [Keys -> ActionStates] /\ UNCHANGED class
  BY DEF Inv, TypeOK, RequeueEvicted
<1>2. CASE batch # "running" \/ state[k] # "done"
  BY <1>1, <1>2 DEF RequeueEvicted, Unseen
<1>3. CASE batch = "running" /\ state[k] = "done" /\ attempts[k] >= MaxAttempts
  <2>1. FailBatch(k)
    BY <1>3 DEF RequeueEvicted
  <2>2. QED
    BY <1>1, <1>3, <2>1, EndBatchSeen DEF Lifecycle!Next
<1>4. CASE batch = "running" /\ state[k] = "done" /\ ~(attempts[k] >= MaxAttempts)
  <2>1. /\ UNCHANGED batch
        /\ WriteAndRefresh([state EXCEPT ![k] = "waiting"], edges, {k} \cup Children(edges, k))
    BY <1>4 DEF RequeueEvicted
  <2>2. Phases(state') = [Phases(state) EXCEPT ![k] = "pending"]
    <3> DEFINE st == [state EXCEPT ![k] = "waiting"]
    <3>1. Phases(state') = Phases(st)
      BY <2>1, WriteSeen
    <3>2. Phases(st) = [Phases(state) EXCEPT ![k] = "pending"]
      BY <1>1, PhaseOfWrite
    <3>3. QED
      BY <3>1, <3>2
  <2>3. Phases(state)[k] = "done"
    BY <1>1, <1>4 DEF Phases
  <2>4. Lifecycle!BuildAgain(k)
    BY <1>1, <1>4, <2>1, <2>2, <2>3 DEF Lifecycle!BuildAgain
  <2>5. QED
    BY <1>1, <2>4 DEF Lifecycle!Next
<1>5. QED
  BY <1>2, <1>3, <1>4

\* Every other step of a release pass is unseen: it only makes waiting actions
\* ready.
LEMMA PassSeen ==
    ASSUME Inv, NEW p \in Passes,
           ReleaseStep(p) \/ (\E k \in Keys : AnswerUnknown(p, k)) \/ AbandonPass(p)
    PROVE  Lifecycle!Next \/ Unseen
<1>1. ASSUME MakeReady(p) PROVE Unseen
  <2>1. Phases(state') = Phases(state)
    BY <1>1 DEF MakeReady, Phases
  <2>2. QED
    BY <1>1, <2>1 DEF MakeReady, Unseen
<1>2. ASSUME \/ StartPass(p) \/ AbandonPass(p)
             \/ \E k \in Keys : AnswerPresent(p, k) \/ AnswerEvicted(p, k) \/ AnswerUnknown(p, k)
      PROVE  Unseen
  BY <1>2 DEF StartPass, AbandonPass, AnswerPresent, AnswerEvicted, AnswerUnknown, Unseen,
              actionVars
<1>3. QED
  BY <1>1, <1>2, RequeueEvictedSeen DEF ReleaseStep

\* Every step of the coordinator is one the lifecycle allows, or unseen.
LEMMA NextSeen ==
    ASSUME Inv, Next PROVE Lifecycle!Next \/ Unseen
<1>1. TypeOK
  BY DEF Inv
<1>2. ASSUME batch = "absent", NEW c \in {"build", "run"}, NEW es \in SUBSET (Keys \X Keys),
             NEW high \in SUBSET Keys, Submit(c, es, high)
      PROVE  Lifecycle!Next
  BY <1>2, SubmitSeen DEF Lifecycle!Next
<1>3. CASE Cancel \/ FailOverdue
  <2>1. batch = "running" /\ UNCHANGED class
    BY <1>3 DEF Cancel, FailOverdue
  <2>2. EndBatch("cancelled", state) \/ EndBatch("failed", state)
    BY <1>3 DEF Cancel, FailOverdue
  <2>3. Lifecycle!EndEarly("cancelled", {}) \/ Lifecycle!EndEarly("failed", {})
    BY <1>1, <2>1, <2>2, EndBatchSeen
  <2>4. QED
    BY <2>3 DEF Lifecycle!Next
<1>4. CASE DeleteExpired
  BY <1>4, DeleteExpiredSeen DEF Lifecycle!Next
<1>5. ASSUME NEW k \in Keys, Claim(k) PROVE Lifecycle!Next
  BY <1>5, ClaimSeen DEF Lifecycle!Next
<1>6. ASSUME NEW l \in leases,
             LeaseRunsOut(l) \/ BeginRequest(l) \/ Heartbeat(l) \/ SelectExpired(l)
      PROVE  Unseen
  BY <1>6 DEF LeaseRunsOut, BeginRequest, Heartbeat, SelectExpired, Unseen, actionVars
<1>7. ASSUME NEW k \in Keys, TrustEnds(k) \/ Publish(k) \/ Evict(k) PROVE Unseen
  BY <1>7 DEF TrustEnds, Publish, Evict, Unseen, actionVars
<1>8. QED
  BY <1>2, <1>3, <1>4, <1>5, <1>6, <1>7, CompleteSeen, ExpireLeaseSeen, PassSeen DEF Next

\* The coordinator implements what it promises its clients: whatever leases,
\* retries, evictions and sweeps do, a client that follows a batch sees a
\* behaviour of BatchLifecycle.
THEOREM CoordinatorImplementsLifecycle == Spec => ImplementsLifecycle
<1>1. Init => Lifecycle!Init
  BY DEF Init, Lifecycle!Init, NoRows, Phases
<1>2. Inv /\ [Next]_vars => [Lifecycle!Next]_(Lifecycle!vars)
  <2>1. ASSUME UNCHANGED vars PROVE Unseen
    BY <2>1 DEF vars, actionVars, Unseen
  <2>2. QED
    BY <2>1, NextSeen, UnseenStutters
<1>3. QED
  BY <1>1, <1>2, InvIsInvariant, PTL DEF Spec, ImplementsLifecycle, Lifecycle!Spec

-----------------------------------------------------------------------------

\* Every action of a running batch is open or has finished, and one at least is
\* open: a batch whose last action finished ends in the same transaction
\* (_finish_if_done).
SomethingIsOpen ==
    batch = "running" =>
        /\ \A k \in Keys : Phases(state)[k] \in {"pending", "running", "done", "failed"}
        /\ \E k \in Keys : Phases(state)[k] \in {"pending", "running"}

\* The edges of a batch make no cycle (submit's order, _add_edge), and a run
\* batch has none.
EdgesLeadOn == Acyclic(edges) /\ (class = "run" => edges = {})

\* While a batch runs there is always something that takes it further: an
\* action to claim, one a release pass would look at, or one that a lease runs
\* for, which its worker's report or the sweep ends.  No order of retries,
\* evictions, re-queued parents and added edges leaves every open action waiting
\* for another, or for a failed one (what BatchEnds adds is the fairness that
\* takes these steps).
CanGoOn ==
    batch = "running" =>
        \E k \in Keys : \/ state[k] = "ready" \/ k \in Releasable
                        \/ state[k] = "running" /\ \E l \in leases : l.key = k

\* A step of the lifecycle, and so every transaction a client can see, leaves
\* something open in a batch that goes on.
LEMMA LifecycleLeavesSomethingOpen ==
    ASSUME TypeOK, SomethingIsOpen, Lifecycle!Next \/ Unseen PROVE SomethingIsOpen'
<1> DEFINE ph == Phases(state)
           new == Phases(state')
<1>1. DOMAIN ph = Keys /\ ph = [k \in Keys |-> ph[k]] /\ DOMAIN new = Keys
  BY DEF Phases
<1>2. (batch' = "running" /\ batch = "running") =>
         /\ \A k \in Keys : ph[k] \in {"pending", "running", "done", "failed"}
         /\ \E k \in Keys : ph[k] \in {"pending", "running"}
  BY DEF SomethingIsOpen
<1> SUFFICES ASSUME batch' = "running"
             PROVE  /\ \A k \in Keys : new[k] \in {"pending", "running", "done", "failed"}
                    /\ \E k \in Keys : new[k] \in {"pending", "running"}
  BY DEF SomethingIsOpen
<1>3. CASE Lifecycle!Submit
  <2>1. new = [k \in Keys |-> "pending"]
    BY <1>3 DEF Lifecycle!Submit
  <2>2. QED
    BY <2>1, KeysAssumption
<1>4. ASSUME NEW k \in Keys, Lifecycle!Start(k)
      PROVE  batch = "running" /\ new = [ph EXCEPT ![k] = "running"]
  BY <1>4 DEF Lifecycle!Start
<1>5. ASSUME NEW k \in Keys, NEW end \in {"done", "failed"}, Lifecycle!Finish(k, end)
      PROVE  /\ batch = "running" /\ new = [ph EXCEPT ![k] = end]
             /\ ~\A j \in Keys : new[j] \in {"done", "failed"}
  BY <1>5 DEF Lifecycle!Finish
<1>6. ASSUME NEW k \in Keys, NEW again \in {{}} \cup {{j} : j \in Keys},
             Lifecycle!GiveBack(k, again)
      PROVE  /\ batch = "running"
             /\ new = [j \in Keys |-> IF j \in again \cup {k} THEN "pending" ELSE ph[j]]
  BY <1>6 DEF Lifecycle!GiveBack
<1>7. ASSUME NEW k \in Keys, Lifecycle!BuildAgain(k)
      PROVE  batch = "running" /\ new = [ph EXCEPT ![k] = "pending"]
  BY <1>7 DEF Lifecycle!BuildAgain
<1>8. ASSUME \/ Lifecycle!Delete
             \/ Lifecycle!EndEarly("failed", {}) \/ Lifecycle!EndEarly("cancelled", {})
             \/ \E k \in Keys : Lifecycle!EndEarly("failed", {k})
      PROVE  FALSE
  BY <1>8 DEF Lifecycle!Delete, Lifecycle!EndEarly
<1>9. ASSUME Unseen PROVE batch = "running" /\ new = ph
  BY <1>9 DEF Unseen
<1> HIDE DEF ph, new
<1>10. ASSUME NEW k \in Keys, Lifecycle!Start(k) \/ Lifecycle!BuildAgain(k)
       PROVE  /\ \A j \in Keys : new[j] \in {"pending", "running", "done", "failed"}
              /\ \E j \in Keys : new[j] \in {"pending", "running"}
  BY <1>1, <1>2, <1>4, <1>7, <1>10
<1>11. ASSUME NEW k \in Keys, NEW end \in {"done", "failed"}, Lifecycle!Finish(k, end)
       PROVE  /\ \A j \in Keys : new[j] \in {"pending", "running", "done", "failed"}
              /\ \E j \in Keys : new[j] \in {"pending", "running"}
  BY <1>1, <1>2, <1>5, <1>11
<1>12. ASSUME NEW k \in Keys, NEW again \in {{}} \cup {{j} : j \in Keys},
              Lifecycle!GiveBack(k, again)
       PROVE  /\ \A j \in Keys : new[j] \in {"pending", "running", "done", "failed"}
              /\ \E j \in Keys : new[j] \in {"pending", "running"}
  <2>1. /\ batch = "running"
        /\ new = [j \in Keys |-> IF j \in again \cup {k} THEN "pending" ELSE ph[j]]
    BY <1>6, <1>12
  <2>2. new[k] = "pending"
    BY <2>1
  <2>3. QED
    BY <1>2, <2>1, <2>2
<1>13. QED
  BY <1>2, <1>3, <1>8, <1>9, <1>10, <1>11, <1>12 DEF Lifecycle!Next

\* Only submit and a missing theory's completion write edges, each after it has
\* looked for a cycle, the latter only in a build batch.
LEMMA EdgesLeadOnStep ==
    ASSUME Inv, EdgesLeadOn, Next PROVE EdgesLeadOn'
<1>1. ASSUME NEW c \in {"build", "run"}, NEW es \in SUBSET (Keys \X Keys),
             NEW high \in SUBSET Keys, Submit(c, es, high)
      PROVE  EdgesLeadOn'
  BY <1>1 DEF Submit, EdgesLeadOn, Acyclic
<1>2. ASSUME NEW l \in leases, NEW m \in Keys, class = "build", CompleteMissingTheory(l, m)
      PROVE  EdgesLeadOn'
  BY <1>2 DEF CompleteMissingTheory, TakeResult, EdgesLeadOn, Acyclic
<1>3. CASE DeleteExpired
  BY <1>3 DEF DeleteExpired, NoRows, EdgesLeadOn, Acyclic
<1>4. ASSUME UNCHANGED <<class, edges>> PROVE EdgesLeadOn'
  BY <1>4 DEF EdgesLeadOn, Acyclic
<1>5. CASE Cancel \/ FailOverdue
  BY <1>4, <1>5 DEF Cancel, FailOverdue, EndBatch
<1>6. ASSUME NEW k \in Keys, Claim(k) \/ TrustEnds(k) \/ Publish(k) \/ Evict(k)
      PROVE  EdgesLeadOn'
  BY <1>4, <1>6 DEF Claim, TrustEnds, Publish, Evict, actionVars
<1>7. ASSUME NEW l \in leases,
             LeaseRunsOut(l) \/ BeginRequest(l) \/ Heartbeat(l) \/ SelectExpired(l)
      PROVE  EdgesLeadOn'
  BY <1>4, <1>7 DEF LeaseRunsOut, BeginRequest, Heartbeat, SelectExpired, actionVars
<1>8. ASSUME NEW l \in leases, Complete(l) PROVE EdgesLeadOn'
  <2>1. ASSUME \/ CompleteDone(l) \/ CompleteMemory(l) \/ CompleteUnavailable(l)
               \/ \E d \in BOOLEAN : CompleteRetryable(l, d) \/ CompleteFinal(l, d)
               \/ CompleteMissingFinal(l) \/ CompleteMissingOther(l)
        PROVE  UNCHANGED <<class, edges>>
    BY <2>1 DEF CompleteDone, CompleteMemory, CompleteUnavailable, CompleteRetryable,
                CompleteFinal, CompleteMissingFinal, CompleteMissingOther, TakeResult, Retry,
                Fail, FailBatch, EndBatch
  <2>2. QED
    BY <1>2, <1>4, <1>8, <2>1 DEF Complete
<1>9. ASSUME NEW l \in leases, ExpireLease(l) PROVE EdgesLeadOn'
  BY <1>4, <1>9 DEF ExpireLease, Retry, Fail, FailBatch, EndBatch
<1>10. ASSUME NEW p \in Passes,
              ReleaseStep(p) \/ (\E k \in Keys : AnswerUnknown(p, k)) \/ AbandonPass(p)
       PROVE  EdgesLeadOn'
  <2>1. UNCHANGED <<class, edges>>
    BY <1>10 DEF ReleaseStep, StartPass, AnswerPresent, AnswerEvicted, AnswerUnknown, MakeReady,
                 RequeueEvicted, AbandonPass, FailBatch, EndBatch, actionVars
  <2>2. QED
    BY <1>4, <2>1
<1>11. QED
  BY <1>1, <1>3, <1>5, <1>6, <1>7, <1>8, <1>9, <1>10 DEF Next

\* Among the open actions of a running batch one waits for none of them, and
\* what it waits for is done: it is ready, a release pass would look at it, or it
\* runs under a lease.
LEMMA OpenBatchCanGoOn ==
    ASSUME Inv, SomethingIsOpen, EdgesLeadOn PROVE CanGoOn
<1> SUFFICES ASSUME batch = "running"
             PROVE  \E k \in Keys : \/ state[k] = "ready" \/ k \in Releasable
                                    \/ state[k] = "running" /\ \E l \in leases : l.key = k
  BY DEF CanGoOn
<1>0. \A k \in Keys : state[k] # "pending"
  BY DEF Inv, TypeOK, ActionStates, Unfinished, Ended
<1>1. \A k \in Keys : state[k] \in {"waiting", "ready", "running", "done", "failed"}
  BY <1>0 DEF SomethingIsOpen, Phases
<1> DEFINE S == {k \in Keys : state[k] \in {"waiting", "ready", "running"}}
<1>2. S \in (SUBSET Keys) \ {{}}
  <2>1. \E k \in Keys : k \in S
    BY <1>0 DEF SomethingIsOpen, Phases
  <2>2. S \subseteq Keys /\ S # {}
    BY <2>1
  <2> HIDE DEF S
  <2>3. QED
    BY <2>2
<1>3. PICK k \in S : \A p \in S : <<k, p>> \notin edges
  <2>1. Acyclic(edges)
    BY DEF EdgesLeadOn
  <2> HIDE DEF S
  <2>2. QED
    BY <1>2, <2>1 DEF Acyclic
<1>4. k \in Keys /\ state[k] \in {"waiting", "ready", "running"}
  OBVIOUS
<1>5. CASE state[k] = "waiting"
  <2>1. NotDone(state, edges, k) = {}
    <3>1. SUFFICES ASSUME NEW p \in Keys, <<k, p>> \in edges, state[p] # "done" PROVE FALSE
      BY DEF NotDone
    <3>2. p \notin S
      BY <1>3, <3>1
    <3>3. state[p] = "failed"
      BY <1>1, <3>1, <3>2
    <3>4. class = "run"
      BY <3>3 DEF Inv, FailedOnlyInRuns, TypeOK
    <3>5. QED
      BY <3>1, <3>4 DEF EdgesLeadOn
  <2>2. remaining[k] = Cardinality(NotDone(state, edges, k))
    BY <1>4, <1>5 DEF Inv, RemainingDepsExact
  <2>3. remaining[k] = 0
    BY <2>1, <2>2, NotDoneFinite
  <2>4. k \in Releasable
    BY <1>4, <1>5, <2>3 DEF Releasable
  <2>5. QED
    BY <1>4, <2>4
<1>6. CASE state[k] = "running"
  BY <1>4, <1>6 DEF Inv, LeasesMatchRunning
<1>7. QED
  BY <1>4, <1>5, <1>6

\* A running batch is never stuck, for every DAG and every order of completions,
\* expiries, evictions and added edges: the safety that BatchEnds rests on.
THEOREM RunningBatchCanGoOn == Spec => []CanGoOn
<1> DEFINE J == Inv /\ SomethingIsOpen /\ EdgesLeadOn
<1>1. Init => J
  <2>1. ASSUME Init PROVE SomethingIsOpen /\ EdgesLeadOn
    <3>1. batch = "absent" /\ class = "build" /\ edges = {}
      BY <2>1 DEF Init, NoRows
    <3>2. QED
      BY <3>1 DEF SomethingIsOpen, EdgesLeadOn, Acyclic
  <2>2. QED
    BY <2>1, InitInv
<1>2. J /\ [Next]_vars => J'
  <2>1. ASSUME J, Next PROVE J'
    <3>1. TypeOK
      BY <2>1 DEF Inv
    <3>2. QED
      BY <2>1, <3>1, NextInv, NextSeen, LifecycleLeavesSomethingOpen, EdgesLeadOnStep
  <2>2. ASSUME J, UNCHANGED vars PROVE J'
    <3>1. SomethingIsOpen'
      BY <2>2 DEF vars, actionVars, SomethingIsOpen, Phases
    <3>2. EdgesLeadOn'
      BY <2>2 DEF vars, actionVars, EdgesLeadOn, Acyclic
    <3>3. QED
      BY <2>2, <3>1, <3>2, StutterInv
  <2>3. QED
    BY <2>1, <2>2
<1>3. J => CanGoOn
  BY OpenBatchCanGoOn
<1>4. QED
  BY <1>1, <1>2, <1>3, PTL DEF Spec
=============================================================================
