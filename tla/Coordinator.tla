---------------------------- MODULE Coordinator ----------------------------
(***************************************************************************)
(* One batch of the remote-execution coordinator                           *)
(* (remote-exec/remote_exec/coordinator.py): its row, its actions, their   *)
(* dependency edges and their leases in Postgres, the release passes that  *)
(* ask the cache about parents before they make an action claimable, and   *)
(* the workers and the cache as the coordinator sees them.                 *)
(*                                                                         *)
(* Every writer but a claim and a heartbeat locks the batch's row first    *)
(* (_lock_batch), a claim locks the action's row and re-reads its state,   *)
(* and a heartbeat is one UPDATE of one lease row, so one database         *)
(* transaction is one atomic action here.  What spans several transactions *)
(* spans several actions: a release pass (read, cache answers, UPDATE, one *)
(* transaction per evicted parent) and the expiry of leases (SELECT, then  *)
(* one transaction per lease).  Batches share no row these transactions    *)
(* write, so one batch is modelled.                                        *)
(***************************************************************************)
EXTENDS Integers, FiniteSets

CONSTANTS
    Keys,           \* the input keys of the batch's actions
    Passes,         \* release passes that can be under way at once, of any replica
    MaxAttempts,    \* REMOTE_EXEC_MAX_ATTEMPTS
    LateWorkers     \* whether a worker goes on building after its lease has ended

ASSUME KeysAssumption == IsFiniteSet(Keys) /\ Keys # {}
ASSUME MaxAttemptsAssumption == MaxAttempts \in Nat \ {0}
ASSUME LateWorkersAssumption == LateWorkers \in BOOLEAN

VARIABLES
    batch,          \* batches.state; "absent" before submit, "deleted" after retention
    class,          \* the class of the batch's actions, "build" or "run"
    state,          \* actions.state, by input key
    remaining,      \* actions.remaining_deps
    tier,           \* actions.tier
    attempts,       \* actions.attempts
    lastDisk,       \* whether actions.last_failure is 'disk'
    edges,          \* the edges table: pairs <<child, parent>>
    leases,         \* the leases table
    claims,         \* how many attempt tokens were issued for an action
    pass,           \* the release passes under way
    trusted,        \* found_in_cache: the entries some process takes to be in the cache
    cached          \* the entries the cache holds

actionVars == <<state, remaining, tier, attempts, lastDisk, edges>>
leaseVars == <<leases, claims>>
releaseVars == <<pass, trusted>>
vars == <<batch, class, actionVars, leaseVars, releaseVars, cached>>

Ended == {"done", "failed", "cancelled"}
BatchStates == {"absent", "running", "deleted"} \cup Ended
Unfinished == {"waiting", "ready", "running"}
ActionStates == {"absent"} \cup Unfinished \cup Ended
Tiers == {"standard", "high"}

\* A lease: whose it is, whether its expires_at has passed, whether a worker's
\* transaction that began while it was live has yet to reach its row (now() is
\* the start of a transaction, so it still takes the lease as live), and whether
\* a sweep has read it as expired and not yet come to it.
Leases == [key : Keys, token : Nat, expired : BOOLEAN, pending : BOOLEAN,
           selected : BOOLEAN]

\* A release pass between its transactions: the actions it read as releasable
\* with the parents it read for them, what the cache answered, and the parents
\* it still has to re-queue, once per child it read them for.
PassStates == [pc : {"idle", "checking", "requeueing"},
               candidates : SUBSET Keys, parents : SUBSET (Keys \X Keys),
               answered : SUBSET Keys, present : SUBSET Keys,
               evicted : SUBSET (Keys \X Keys)]
IdlePass == [pc |-> "idle", candidates |-> {}, parents |-> {}, answered |-> {},
             present |-> {}, evicted |-> {}]

(***************************************************************************)
(* The statements the transactions are made of.                            *)
(***************************************************************************)

\* The parents of k, under the edges es, that aren't done.
NotDone(st, es, k) == {p \in Keys : <<k, p>> \in es /\ st[p] # "done"}

\* Mutant: the children are looked up on the wrong side of the edges.
ChildrenSwapped(es, p) == {k \in Keys : <<p, k>> \in es}
Children(es, p) == {k \in Keys : <<k, p>> \in es}

\* Mutants: REFRESH leaves waiting actions' counts alone; it never takes a ready
\* action back to waiting.
RefreshDepsOfReady(st, rem, es, ks) ==
    [k \in Keys |-> IF k \in ks /\ st[k] = "ready"
                    THEN Cardinality(NotDone(st, es, k)) ELSE rem[k]]
RefreshKeepsReady(st, es, ks) == st

\* REFRESH of the actions ks: the new remaining_deps and the new states.
RefreshDeps(st, rem, es, ks) ==
    [k \in Keys |-> IF k \in ks /\ st[k] \in {"waiting", "ready"}
                    THEN Cardinality(NotDone(st, es, k)) ELSE rem[k]]
RefreshStates(st, es, ks) ==
    [k \in Keys |-> IF k \in ks /\ st[k] = "ready" /\ NotDone(st, es, k) # {}
                    THEN "waiting" ELSE st[k]]

\* Write the actions' states st, then REFRESH the actions ks.
WriteAndRefresh(st, es, ks) ==
    /\ state' = RefreshStates(st, es, ks)
    /\ remaining' = RefreshDeps(st, remaining, es, ks)

\* No action reaches itself: every set of actions has one none of whose
\* parents is in the set.
Acyclic(es) ==
    \A S \in (SUBSET Keys) \ {{}} : \E k \in S : \A p \in S : <<k, p>> \notin es

\* Mutant: running actions are not cancelled.
EndBatchLeavesRunning(final, st) ==
    /\ batch' = final
    /\ state' = [k \in Keys |-> IF st[k] \in {"waiting", "ready"} THEN "cancelled" ELSE st[k]]
    /\ leases' = {}
    /\ UNCHANGED <<remaining, edges>>

\* _end_batch, with the states st of the actions: the batch gets its final
\* state, its unfinished actions are cancelled and its leases revoked.
EndBatch(final, st) ==
    /\ batch' = final
    /\ state' = [k \in Keys |-> IF st[k] \in Unfinished THEN "cancelled" ELSE st[k]]
    /\ leases' = {}
    /\ UNCHANGED <<remaining, edges>>

\* _fail_batch
FailBatch(k) == EndBatch("failed", [state EXCEPT ![k] = "failed"])

\* Mutant: an action sent back to waiting isn't waited for.
FinishIfNoneRuns(st) ==
    batch' = IF \A k \in Keys : st[k] \notin {"ready", "running"} THEN "done" ELSE batch

\* _finish_if_done
FinishIfDone(st) ==
    batch' = IF \A k \in Keys : st[k] \in {"done", "failed"} THEN "done" ELSE batch

\* _fail: a build's final failure ends its batch, a run's only the action.
Fail(k, rest) ==
    IF class = "build"
    THEN FailBatch(k)
    ELSE /\ state' = [state EXCEPT ![k] = "failed"]
         /\ FinishIfDone(state')
         /\ leases' = rest
         /\ UNCHANGED <<remaining, edges>>

\* Mutant: a retried action keeps its lease.
RetryKeepsLease(k, rest) ==
    /\ WriteAndRefresh([state EXCEPT ![k] = "waiting"], edges, {k})
    /\ UNCHANGED <<batch, edges, leases>>

\* _retry, the other leases being rest
Retry(k, rest) ==
    /\ WriteAndRefresh([state EXCEPT ![k] = "waiting"], edges, {k})
    /\ leases' = rest
    /\ UNCHANGED <<batch, edges>>

(***************************************************************************)
(* Clients: submit, cancel.  Retention and the deadline.                   *)
(***************************************************************************)

\* There is no row of the batch.
NoRows ==
    [state |-> [k \in Keys |-> "absent"], remaining |-> [k \in Keys |-> 0],
     tier |-> [k \in Keys |-> "standard"], attempts |-> [k \in Keys |-> 0],
     lastDisk |-> [k \in Keys |-> FALSE], edges |-> {}]

Init ==
    /\ batch = "absent" /\ class = "build"
    /\ state = NoRows.state /\ remaining = NoRows.remaining /\ tier = NoRows.tier
    /\ attempts = NoRows.attempts /\ lastDisk = NoRows.lastDisk /\ edges = NoRows.edges
    /\ leases = {} /\ claims = [k \in Keys |-> 0]
    /\ pass = [p \in Passes |-> IdlePass]
    /\ trusted = {}
    /\ cached = {}

\* submit: every action waits until a release pass has looked at its parents.
\* A run batch has no edges, and the tiers come from the peak hints.  A batch
\* without actions, which is stored as done, is not modelled (Keys # {}).
Submit(c, es, high) ==
    /\ c = "run" => es = {}
    /\ Acyclic(es)
    /\ batch' = "running" /\ class' = c /\ edges' = es
    /\ state' = [k \in Keys |-> "waiting"]
    /\ remaining' = [k \in Keys |-> Cardinality({p \in Keys : <<k, p>> \in es})]
    /\ tier' = [k \in Keys |-> IF k \in high THEN "high" ELSE "standard"]
    /\ UNCHANGED <<attempts, lastDisk, leaseVars, releaseVars, cached>>

Cancel ==
    /\ batch = "running"
    /\ EndBatch("cancelled", state)
    /\ UNCHANGED <<class, tier, attempts, lastDisk, claims, releaseVars, cached>>

\* fail_overdue: the batch is still running past its deadline.
FailOverdue ==
    /\ batch = "running"
    /\ EndBatch("failed", state)
    /\ UNCHANGED <<class, tier, attempts, lastDisk, claims, releaseVars, cached>>

\* delete_expired: the row goes, and by ON DELETE CASCADE all that hangs on it.
DeleteExpired ==
    /\ batch \in Ended
    /\ batch' = "deleted"
    /\ state' = NoRows.state /\ remaining' = NoRows.remaining /\ tier' = NoRows.tier
    /\ attempts' = NoRows.attempts /\ lastDisk' = NoRows.lastDisk /\ edges' = NoRows.edges
    /\ leases' = {}
    /\ UNCHANGED <<class, claims, releaseVars, cached>>

(***************************************************************************)
(* Workers: claim, heartbeat and complete.                                 *)
(***************************************************************************)

\* _claim of the action k.  Which ready action a claim prefers, and the cap on
\* running runs, are the business of ClaimOrder and RunSlots.
Claim(k) ==
    /\ batch = "running" /\ state[k] = "ready"
    /\ state' = [state EXCEPT ![k] = "running"]
    /\ attempts' = [attempts EXCEPT ![k] = @ + 1]
    /\ claims' = [claims EXCEPT ![k] = @ + 1]
    /\ leases' = leases \cup {[key |-> k, token |-> claims'[k], expired |-> FALSE,
                               pending |-> FALSE, selected |-> FALSE]}
    /\ UNCHANGED <<batch, class, remaining, tier, lastDisk, edges,
                   releaseVars, cached>>

\* The clock reaches a lease's expires_at.
LeaseRunsOut(l) ==
    /\ ~l.expired
    /\ leases' = (leases \ {l}) \cup {[l EXCEPT !.expired = TRUE]}
    /\ UNCHANGED <<batch, class, actionVars, claims, releaseVars, cached>>

\* The transaction of a heartbeat or a completion begins: its now() is fixed.
BeginRequest(l) ==
    /\ ~l.expired /\ ~l.pending
    /\ leases' = (leases \ {l}) \cup {[l EXCEPT !.pending = TRUE]}
    /\ UNCHANGED <<batch, class, actionVars, claims, releaseVars, cached>>

\* heartbeat: the UPDATE reaches the row and extends the lease from its now().
Heartbeat(l) ==
    /\ l.pending
    /\ leases' = (leases \ {l}) \cup {[l EXCEPT !.pending = FALSE, !.expired = FALSE]}
    /\ UNCHANGED <<batch, class, actionVars, claims, releaseVars, cached>>

\* complete up to its branches: the lease was live when the transaction began
\* and its row is still there, so the record counts; the failure is recorded.
TakeResult(l, isDisk) ==
    /\ l.pending
    /\ lastDisk' = [lastDisk EXCEPT ![l.key] = isDisk]
    /\ UNCHANGED <<class, claims, pass, cached>>

\* A result 'built' or 'cached', whose entry the worker published or found.
CompleteDone(l) ==
    /\ TakeResult(l, FALSE)
    /\ l.key \in cached
    /\ LET st == [state EXCEPT ![l.key] = "done"]
       IN  /\ WriteAndRefresh(st, edges, Children(edges, l.key))
           /\ FinishIfDone(st)
    /\ leases' = leases \ {l}
    /\ UNCHANGED <<tier, attempts, edges, trusted>>

\* 'memory' on the standard tier: to the high tier, however many the attempts.
CompleteMemory(l) ==
    /\ TakeResult(l, FALSE)
    /\ tier[l.key] = "standard"
    /\ tier' = [tier EXCEPT ![l.key] = "high"]
    /\ Retry(l.key, leases \ {l})
    /\ UNCHANGED <<attempts, trusted>>

\* Mutant: an unavailable worker takes two attempts back.
CompleteUnavailableTwice(l) ==
    /\ TakeResult(l, FALSE)
    /\ attempts' = [attempts EXCEPT ![l.key] = @ - 2]
    /\ Retry(l.key, leases \ {l})
    /\ UNCHANGED <<tier, trusted>>

\* 'unavailable': the worker couldn't start the action, so this is no attempt, and
\* there is no bound on how often it is retried.
CompleteUnavailable(l) ==
    /\ TakeResult(l, FALSE)
    /\ attempts' = [attempts EXCEPT ![l.key] = @ - 1]
    /\ Retry(l.key, leases \ {l})
    /\ UNCHANGED <<tier, trusted>>

\* Whether a failure of k is worth another attempt: 'publish', 'toolchain',
\* 'internal' and 'memory' are, a 'disk' isn't when the last failure was one.
Retryable(k, isDisk) ==
    attempts[k] < MaxAttempts /\ (isDisk => ~lastDisk[k])

CompleteRetryable(l, isDisk) ==
    /\ TakeResult(l, isDisk)
    /\ Retryable(l.key, isDisk)
    /\ Retry(l.key, leases \ {l})
    /\ UNCHANGED <<tier, attempts, trusted>>

\* A final failure: any class for 'proof' and the like, a retryable one past
\* its attempts (a 'memory' only on the high tier), a second 'disk' in a row.
CompleteFinal(l, isDisk) ==
    /\ TakeResult(l, isDisk)
    /\ isDisk => ~Retryable(l.key, TRUE)
    /\ Fail(l.key, leases \ {l})
    /\ UNCHANGED <<tier, attempts, trusted>>

\* _forget_cache_findings: this process forgets its findings; others keep theirs.
ForgetFindings == trusted' \in SUBSET trusted

\* 'input-missing' past the attempts: the batch fails, for resubmission.
CompleteMissingFinal(l) ==
    /\ TakeResult(l, FALSE)
    /\ attempts[l.key] >= MaxAttempts
    /\ ForgetFindings
    /\ FailBatch(l.key)
    /\ UNCHANGED <<tier, attempts>>

\* 'input-missing' naming the batch's theory m, by an edge that closes no
\* cycle (_add_edge): m is built again and the action waits for it.  Only a
\* build can name one: the actions of a run batch are scripts, not theories.
CompleteMissingTheory(l, m) ==
    /\ TakeResult(l, FALSE)
    /\ attempts[l.key] < MaxAttempts
    /\ ForgetFindings
    /\ LET es == edges \cup {<<l.key, m>>}
           st == [state EXCEPT ![l.key] = "waiting",
                               ![m] = IF @ = "done" THEN "waiting" ELSE @]
       IN  /\ Acyclic(es)
           /\ edges' = es
           /\ WriteAndRefresh(st, es, {m} \cup Children(es, m))
    /\ leases' = leases \ {l}
    /\ UNCHANGED <<batch, tier, attempts>>

\* Any other 'input-missing': a blob, a theory cached at export, or one that
\* can't be the action's input.
CompleteMissingOther(l) ==
    /\ TakeResult(l, FALSE)
    /\ attempts[l.key] < MaxAttempts
    /\ ForgetFindings
    /\ Retry(l.key, leases \ {l})
    /\ UNCHANGED <<tier, attempts>>

(***************************************************************************)
(* The sweep's expiry of leases: a SELECT, then one transaction per lease. *)
(***************************************************************************)

\* The SELECT of the expired leases reads l.
SelectExpired(l) ==
    /\ l.expired /\ ~l.selected
    /\ leases' = (leases \ {l}) \cup {[l EXCEPT !.selected = TRUE]}
    /\ UNCHANGED <<batch, class, actionVars, claims, releaseVars, cached>>

\* Mutant: the transaction doesn't look at expires_at again.
ExpireSelected(l) ==
    /\ l.selected
    /\ Retry(l.key, leases \ {l})
    /\ UNCHANGED <<class, tier, attempts, lastDisk, claims, releaseVars, cached>>

\* The transaction for a selected lease; one heard from since is left alone, and one
\* of an action that does not run only goes.
ExpireLease(l) ==
    /\ l.selected
    /\ IF ~l.expired
       THEN /\ leases' = (leases \ {l}) \cup {[l EXCEPT !.selected = FALSE]}
            /\ UNCHANGED <<batch, state, remaining, edges, lastDisk>>
       ELSE IF state[l.key] # "running"
       THEN /\ leases' = leases \ {l}
            /\ UNCHANGED <<batch, state, remaining, edges, lastDisk>>
       ELSE IF attempts[l.key] >= MaxAttempts
       THEN /\ lastDisk' = [lastDisk EXCEPT ![l.key] = @ /\ class # "run"]
            /\ Fail(l.key, leases \ {l})
       ELSE /\ Retry(l.key, leases \ {l})
            /\ UNCHANGED lastDisk
    /\ UNCHANGED <<class, tier, attempts, claims, releaseVars, cached>>

(***************************************************************************)
(* release and _release_batch: read, ask the cache, make ready, re-queue.  *)
(***************************************************************************)

\* RELEASABLE: the waiting actions whose parents are all done.
Releasable ==
    IF batch = "running" THEN {k \in Keys : state[k] = "waiting" /\ remaining[k] = 0}
    ELSE {}

\* A pass begins.  One that re-queued a parent reads again (release's loop)
\* and every sweep starts one, so a pass may begin whenever none is under way.
StartPass(p) ==
    /\ pass[p].pc = "idle"
    /\ Releasable # {}
    /\ pass' = [pass EXCEPT ![p] =
                  [IdlePass EXCEPT !.pc = "checking", !.candidates = Releasable,
                                   !.parents = {e \in edges : e[1] \in Releasable}]]
    /\ UNCHANGED <<batch, class, actionVars, leaseVars, trusted, cached>>

Asked(p) == {e[2] : e \in pass[p].parents} \ pass[p].answered

\* The pass q with an answer about k.
Answered(q, k, present, evicted) ==
    [q EXCEPT !.answered = @ \cup {k}, !.present = @ \cup present, !.evicted = @ \cup evicted]

\* The entry of k was found within IN_CACHE_TRUST_SECONDS, by the pass's process, or
\* the cache answers 200 now.
AnswerPresent(p, k) ==
    /\ pass[p].pc = "checking" /\ k \in Asked(p)
    /\ k \in trusted \cup cached
    /\ pass' = [pass EXCEPT ![p] = Answered(pass[p], k, {k}, {})]
    /\ trusted' = trusted \cup {k}
    /\ UNCHANGED <<batch, class, actionVars, leaseVars, cached>>

\* The cache answers 404 to a pass whose process has no finding: every child read with k will have k re-queued.
AnswerEvicted(p, k) ==
    /\ pass[p].pc = "checking" /\ k \in Asked(p)
    /\ k \notin cached
    /\ pass' = [pass EXCEPT ![p] =
                  Answered(pass[p], k, {}, {e \in pass[p].parents : e[2] = k})]
    /\ UNCHANGED <<batch, class, actionVars, leaseVars, trusted, cached>>

\* The cache can't tell: no answer, or another status.
AnswerUnknown(p, k) ==
    /\ pass[p].pc = "checking" /\ k \in Asked(p)
    /\ pass' = [pass EXCEPT ![p] = Answered(pass[p], k, {}, {})]
    /\ UNCHANGED <<batch, class, actionVars, leaseVars, trusted, cached>>

\* What is left of a pass once it has made its candidates ready.
Requeueing(evicted) ==
    IF evicted = {} THEN IdlePass
    ELSE [IdlePass EXCEPT !.pc = "requeueing", !.evicted = evicted]

\* The transaction that makes ready the candidates all of whose parents, as
\* they were read, the cache holds.  A batch that ended meanwhile ends the pass.
MakeReady(p) ==
    /\ pass[p].pc = "checking" /\ Asked(p) = {}
    /\ LET ready == {k \in pass[p].candidates :
                       \A e \in pass[p].parents : e[1] = k => e[2] \in pass[p].present}
       IN  IF ready # {} /\ batch # "running"
           THEN /\ pass' = [pass EXCEPT ![p] = IdlePass]
                /\ UNCHANGED state
           ELSE /\ state' = [k \in Keys |->
                               IF k \in ready /\ state[k] = "waiting" /\ remaining[k] = 0
                               THEN "ready" ELSE state[k]]
                /\ pass' = [pass EXCEPT ![p] = Requeueing(pass[p].evicted)]
    /\ UNCHANGED <<batch, class, remaining, tier, attempts, lastDisk, edges,
                   leaseVars, trusted, cached>>

\* _requeue_evicted of the parent e[2] of the candidate e[1].
RequeueEvicted(p, e) ==
    /\ pass[p].pc = "requeueing" /\ e \in pass[p].evicted
    /\ pass' = [pass EXCEPT ![p] = Requeueing(pass[p].evicted \ {e})]
    /\ IF batch # "running" \/ state[e[2]] # "done"
       THEN UNCHANGED <<batch, state, remaining, edges, leases>>
       ELSE IF attempts[e[2]] >= MaxAttempts
       THEN FailBatch(e[2])
       ELSE /\ WriteAndRefresh([state EXCEPT ![e[2]] = "waiting"], edges,
                               {e[2]} \cup Children(edges, e[2]))
            /\ UNCHANGED <<batch, edges, leases>>
    /\ UNCHANGED <<class, tier, attempts, lastDisk, claims, trusted, cached>>

\* A pass is lost: an error in it, or its process restarts.
AbandonPass(p) ==
    /\ pass[p].pc # "idle"
    /\ pass' = [pass EXCEPT ![p] = IdlePass]
    /\ UNCHANGED <<batch, class, actionVars, leaseVars, trusted, cached>>

\* A finding grows older than IN_CACHE_TRUST_SECONDS, or goes with the process.
TrustEnds(k) ==
    /\ k \in trusted
    /\ trusted' = trusted \ {k}
    /\ UNCHANGED <<batch, class, actionVars, leaseVars, pass, cached>>

(***************************************************************************)
(* The remote cache, and the workers that publish to it, while the batch   *)
(* runs: no decision about a batch that ended depends on the cache.        *)
(***************************************************************************)

\* A worker that claimed k publishes its entry.
Publish(k) ==
    /\ batch = "running" /\ k \notin cached
    /\ state[k] = "running" \/ (LateWorkers /\ claims[k] > 0)
    /\ cached' = cached \cup {k}
    /\ UNCHANGED <<batch, class, actionVars, leaseVars, releaseVars>>

Evict(k) ==
    /\ batch = "running" /\ k \in cached
    /\ cached' = cached \ {k}
    /\ UNCHANGED <<batch, class, actionVars, leaseVars, releaseVars>>

(***************************************************************************)
(* The specification.                                                      *)
(***************************************************************************)

Complete(l) ==
    \/ CompleteDone(l)
    \/ CompleteMemory(l)
    \/ CompleteUnavailable(l)
    \/ \E isDisk \in BOOLEAN : CompleteRetryable(l, isDisk) \/ CompleteFinal(l, isDisk)
    \/ CompleteMissingFinal(l)
    \/ class = "build" /\ \E m \in Keys : CompleteMissingTheory(l, m)
    \/ CompleteMissingOther(l)

ReleaseStep(p) ==
    \/ StartPass(p)
    \/ \E k \in Keys : AnswerPresent(p, k) \/ AnswerEvicted(p, k)
    \/ MakeReady(p)
    \/ \E e \in Keys \X Keys : RequeueEvicted(p, e)

Next ==
    \/ /\ batch = "absent"
       /\ \E c \in {"build", "run"}, es \in SUBSET (Keys \X Keys), high \in SUBSET Keys :
            Submit(c, es, high)
    \/ Cancel
    \/ FailOverdue
    \/ DeleteExpired
    \/ \E k \in Keys : Claim(k)
    \/ \E l \in leases : \/ LeaseRunsOut(l)
                         \/ BeginRequest(l)
                         \/ Heartbeat(l)
                         \/ Complete(l)
                         \/ SelectExpired(l)
                         \/ ExpireLease(l)
    \/ \E p \in Passes : \/ ReleaseStep(p)
                         \/ \E k \in Keys : AnswerUnknown(p, k)
                         \/ AbandonPass(p)
    \/ \E k \in Keys : TrustEnds(k) \/ Publish(k) \/ Evict(k)

Spec == Init /\ [][Next]_vars

\* A running action's lease ends: its worker reports, or it has run out.
LeaseEnds(k) ==
    \E l \in leases : l.key = k /\ (Complete(l) \/ (l.expired /\ ExpireLease(l)))

\* What the coordinator and its surroundings keep doing.  Workers of both tiers
\* claim (a worker's loop); one that stays heard from reports in the end, and
\* the lease of one that doesn't runs out; the sweep, every few seconds, looks
\* at expired leases and starts a pass.  From some time on the cache answers
\* the passes, no process restarts in the middle of one, and no worker reports
\* that it could not start an action: outages end.  The deadline and the client
\* are not counted on.
Fairness ==
    /\ \A k \in Keys : WF_vars(Claim(k)) /\ SF_vars(LeaseEnds(k))
    /\ WF_vars(\E l \in leases : LeaseRunsOut(l))
    /\ WF_vars(\E l \in leases : SelectExpired(l))
    /\ \A p \in Passes : WF_vars(ReleaseStep(p))
    /\ <>[][\A p \in Passes : ~AbandonPass(p) /\ \A k \in Keys : ~AnswerUnknown(p, k)]_vars
    /\ <>[][\A l \in leases : ~CompleteUnavailable(l)]_vars

FairSpec == Spec /\ Fairness

(***************************************************************************)
(* What the rows promise.                                                  *)
(***************************************************************************)

\* The columns and the passes have their types; attempts, which an unavailable
\* worker takes back, never goes below zero.
TypeOK ==
    /\ batch \in BatchStates /\ class \in {"build", "run"}
    /\ state \in [Keys -> ActionStates]
    /\ remaining \in [Keys -> Nat]
    /\ tier \in [Keys -> Tiers]
    /\ attempts \in [Keys -> Nat] /\ lastDisk \in [Keys -> BOOLEAN]
    /\ edges \in SUBSET (Keys \X Keys)
    /\ leases \in SUBSET Leases /\ claims \in [Keys -> Nat]
    /\ pass \in [Passes -> PassStates]
    /\ trusted \in SUBSET Keys /\ cached \in SUBSET Keys

\* Every running action has exactly one lease and no other action has any, so
\* that a completion or an expiry, which finds the action through the lease,
\* acts on an action that runs, and no action runs that nothing can end
\* (complete sets the state without looking at it; expire_leases looks, and
\* would drop the lease of an action that does not run).
LeasesMatchRunning ==
    /\ \A l \in leases : state[l.key] = "running"
    /\ \A k \in Keys : state[k] = "running" => \E l \in leases : l.key = k
    /\ \A l, m \in leases : l.key = m.key => l = m

\* A batch that isn't running has no lease and no unfinished action, and every
\* action of a batch that ended done is done, or failed in a run batch
\* (_end_batch and _finish_if_done, whatever they raced with).
EndedBatchIsQuiet ==
    /\ batch # "running" => leases = {} /\ \A k \in Keys : state[k] \notin Unfinished
    /\ batch = "done" => \A k \in Keys : state[k] = "done" \/ (class = "run" /\ state[k] = "failed")

\* remaining_deps, kept incrementally by REFRESH, is exact for every action a
\* release could look at: it counts the parents that aren't done.
RemainingDepsExact ==
    batch = "running" =>
        \A k \in Keys : state[k] \in {"waiting", "ready"} =>
            remaining[k] = Cardinality(NotDone(state, edges, k))

\* No action is claimable while one of its parents is to be built again: a
\* parent re-queued by a late release, or an input-missing result, takes its
\* ready children back to waiting in the same transaction.
ReadyParentsAreDone ==
    \A k \in Keys : state[k] = "ready" => NotDone(state, edges, k) = {}

\* A lease that was live goes only by its own completion, or with its batch:
\* the sweep that read it as expired before a heartbeat extended it lets it be.
LiveLeaseIsKept ==
    [][\A l \in leases :
         (~l.expired /\ ~l.pending /\ batch' = "running") =>
             \E m \in leases' : m.key = l.key /\ m.token = l.token]_vars

\* The phase of an action, as a client sees it, and the promise to the client.
Phases(st) == [k \in Keys |-> IF st[k] \in {"waiting", "ready"} THEN "pending" ELSE st[k]]
Lifecycle == INSTANCE BatchLifecycle WITH isRun <- class = "run", phase <- Phases(state)

\* Every step of the coordinator is a step of the lifecycle a client relies on,
\* or invisible to it: in particular nothing changes in a batch that ended.
ImplementsLifecycle == Lifecycle!Spec

\* Once outages end, a batch comes to an end without its deadline: no chain of
\* retries, evictions, re-queued parents and edges added for missing theories goes
\* round for ever, and none leaves an action that nothing will ever release.  While
\* an outage lasts (actions reported 'unavailable', which counts as no attempt, or a
\* cache that cannot tell) only the deadline ends it.
BatchEnds == batch = "running" ~> batch # "running"

\* A parent is re-queued, or blamed for not being in the cache after it built,
\* only when the cache doesn't hold its entry (_requeue_evicted: "Re-queue a
\* done parent whose key the cache no longer holds").
OnlyMissingParentsAreRequeued ==
    [][\A p \in Passes : \A e \in pass[p].evicted :
         (state[e[2]] = "done" /\ batch = "running" /\ RequeueEvicted(p, e)) =>
             e[2] \notin cached]_vars

=============================================================================
