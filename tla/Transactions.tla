---------------------------- MODULE Transactions ----------------------------
(***************************************************************************)
(* The coordinator's transactions as the database runs them                *)
(* (remote-exec/remote_exec/coordinator.py): statement by statement, row   *)
(* by row, at PostgreSQL's READ COMMITTED.  A statement finds its rows in  *)
(* the snapshot of its start, visits them in an order of the database's    *)
(* choosing, waits for the lock of each, and leaves alone a row that no    *)
(* longer matches once it has the lock.  Locks are kept until the end of   *)
(* the transaction; a claim skips locked rows instead of waiting.          *)
(*                                                                         *)
(* Module Coordinator takes each of these transactions as one step; here   *)
(* that is checked, and so is that they do not wait for each other in a    *)
(* circle.  The rows are those of one batch; of other batches, which have  *)
(* ended, the batch rows that retention deletes together with this one's;  *)
(* the peak hints of its theories, which submits of other batches and      *)
(* retention use too; and the lock of run admission.  Left out are columns *)
(* that no statement's choice of rows depends on in a way the properties   *)
(* tell (tier, expires_at, attempts, log, priorities, the size of a peak): *)
(* a claim of a tier and an expiry are asked for any action and any held   *)
(* lease; a hint is fresh, stale or not there.  A missing input is one the *)
(* batch has an edge for, so that _add_edge adds none and changes no       *)
(* priority.  A transaction may fail at any point.                         *)
(***************************************************************************)
EXTENDS Integers, Sequences, FiniteSets, SequencesExt

CONSTANTS
    Keys,           \* the actions of the batch
    BuildEdges,     \* its dependencies <<child, parent>>, when its class is "build"
    OtherBatches,   \* batches that ended before
    Sessions,       \* database connections of the coordinators
    NoKey, NoRow

VARIABLES
    class,          \* the class of the batch's actions
    row,            \* the committed rows
    session         \* what each connection is doing

vars == <<class, row, session>>

Batch == <<"batch">>
Other(b) == <<"other", b>>
Admission == <<"admission">>
Action(k) == <<"action", k>>
Lease(k) == <<"lease", k>>
Hint(k) == <<"hint", k>>
Actions == {Action(k) : k \in Keys}
Hints == {Hint(k) : k \in Keys}
LeaseRows == {Lease(k) : k \in Keys}
Others == {Other(b) : b \in OtherBatches}
BatchRows == {Batch} \cup Others
Rows == {Admission} \cup BatchRows \cup Actions \cup LeaseRows \cup Hints

\* What the constants have to be.
Parameters ==
    /\ IsFiniteSet(Keys) /\ NoKey \notin Keys /\ NoRow \notin Rows
    /\ BuildEdges \subseteq Keys \X Keys /\ \A e \in BuildEdges : e[1] # e[2]

Edges == IF class = "build" THEN BuildEdges ELSE {}
NotDone(v, k) == {p \in Keys : <<k, p>> \in Edges /\ v[Action(p)].state # "done"}
Unfinished == {"waiting", "ready", "running"}

(***************************************************************************)
(* The transactions: each is its statements in order.  A statement that    *)
(* finds nothing to act on may end it.                                     *)
(***************************************************************************)

\* Mutant: the leases are revoked before the actions are cancelled.
EndBatchLeasesFirst == <<"endBatch", "deleteLeases", "cancelActions">>
EndBatch == <<"endBatch", "cancelActions", "deleteLeases">>

\* Mutant: a release goes to the actions without the batch's lock.
ReleaseBatchUnlocked == <<"makeReady">>
ReleaseBatch == <<"lockRunning", "makeReady">>

TakeResult == <<"lockBatch", "takeLease", "noteResult">>
TakeExpired == <<"lockBatch", "takeLease", "lockIfRuns">>
Retry == <<"setWaiting", "refreshKey">>
Requeue == <<"requeueParent", "refreshParent", "refreshChildren">>
Fail == <<"setFailed">> \o (IF class = "build" THEN EndBatch ELSE <<"finishIfDone">>)

Program(kind) ==
    CASE kind = "cancel" -> <<"lockRunning">> \o EndBatch
      [] kind = "done" ->
            TakeResult \o <<"setDone", "recordPeak", "refreshChildren", "finishIfDone">>
      [] kind = "memory" -> TakeResult \o <<"raisePeak", "setHigh">> \o Retry
      [] kind = "retry" -> TakeResult \o Retry
      [] kind = "missing" -> TakeResult \o <<"setWaiting">> \o Requeue
      [] kind = "missingFinal" -> TakeResult \o <<"setFailed">> \o EndBatch
      [] kind = "failed" -> TakeResult \o Fail
      [] kind = "expire" -> TakeExpired \o Retry
      [] kind = "expireFinal" -> TakeExpired \o Fail
      [] kind = "release" -> ReleaseBatch
      [] kind = "evicted" -> <<"lockRunning", "lockIfDone">> \o Requeue
      [] kind = "evictedFinal" -> <<"lockRunning", "lockIfDone", "setFailed">> \o EndBatch
      [] kind = "claim" ->
            (IF class = "build" THEN <<>> ELSE <<"admit">>) \o <<"pick", "insertLease">>
      [] kind = "heartbeat" -> <<"renewLease">>
      [] kind = "submit" -> <<"useHints">>
      [] kind = "retain" -> <<"deleteBatches", "cascade">>
      [] kind = "forgetHints" -> <<"deleteHints">>

\* An input that stays missing ends a run batch too; in a build batch that is "failed".
OfLease ==
    {"done", "memory", "retry", "failed", "expire", "expireFinal", "heartbeat"}
    \cup (IF class = "run" THEN {"missingFinal"} ELSE {})
OfNothing == {"claim", "cancel", "submit", "forgetHints"}

\* A transaction: its kind, the action it is about, the parent whose children it
\* refreshes, the actions it releases or the batches it deletes, and whether the attempt
\* token it comes with, if any, is of a lease that is gone for good.
Txn(kind, k, p, ks) == [kind |-> kind, key |-> k, parent |-> p, keys |-> ks, stale |-> FALSE]

\* What may be asked of the database in the committed state, by what the caller has
\* read or been told before.  The batches a retention deletes, ended and past their
\* period, at most a hundred, are any that have ended when it begins.
Requests ==
    {Txn(kind, k, k, {}) : kind \in OfLease, k \in {j \in Keys : row[Lease(j)] = "held"}}
    \cup {Txn("missing", e[1], e[2], {}) : e \in {f \in Edges : row[Lease(f[1])] = "held"}}
    \cup {Txn(kind, k, k, {}) : kind \in {"evicted", "evictedFinal"},
                                k \in {j \in Keys : /\ row[Action(j)].state = "done"
                                                    /\ \E e \in Edges : e[2] = j}}
    \cup {Txn("release", NoKey, NoKey, ks) : ks \in
            (SUBSET {k \in Keys : /\ row[Action(k)].state = "waiting"
                                  /\ row[Action(k)].deps = 0}) \ {{}}}
    \cup {Txn("retain", NoKey, NoKey, old) : old \in
            (SUBSET {r \in BatchRows : row[r] \notin {"running", "gone"}}) \ {{}}}
    \cup {Txn(kind, NoKey, NoKey, {}) : kind \in OfNothing}

\* The rows that match the WHERE of a statement of transaction t in the view v.
Touches(st, t, v) ==
    LET act(k) == {r \in {Action(k)} : v[r].state # "gone"}
        refreshed(ks) == {Action(k) : k \in {j \in ks : v[Action(j)].state \in {"waiting", "ready"}}}
    IN  CASE st \in {"lockBatch", "lockRunning"} -> {r \in {Batch} : v[r] # "gone"}
          [] st = "endBatch" -> {Batch}
          [] st = "finishIfDone" ->
                IF \A k \in Keys : v[Action(k)].state \in {"done", "failed"} THEN {Batch} ELSE {}
          [] st = "cancelActions" -> {r \in Actions : v[r].state \in Unfinished}
          [] st = "deleteLeases" -> {r \in LeaseRows : v[r] = "held"}
          [] st \in {"takeLease", "renewLease"} -> {r \in {Lease(t.key)} : v[r] = "held" /\ ~t.stale}
          [] st = "insertLease" -> {Lease(t.key)}
          [] st \in {"noteResult", "setDone", "setHigh", "setWaiting", "setFailed", "lockIfRuns",
                     "lockIfDone"} -> act(t.key)
          [] st = "requeueParent" -> {r \in act(t.parent) : v[r].state = "done"}
          [] st = "refreshKey" -> refreshed({t.key})
          [] st = "refreshParent" -> refreshed({t.parent})
          [] st = "refreshChildren" -> refreshed({k \in Keys : <<k, t.parent>> \in Edges})
          [] st = "makeReady" -> {Action(k) : k \in {j \in t.keys : /\ v[Action(j)].state = "waiting"
                                                                    /\ v[Action(j)].deps = 0}}
          [] st = "pick" -> {Action(k) : k \in {j \in Keys : /\ v[Action(j)].state = "ready"
                                                             /\ v[Batch] = "running"
                                                             /\ t.key \in {j, NoKey}}}
          [] st \in {"recordPeak", "raisePeak"} -> {Hint(t.key)}
          [] st = "useHints" -> {r \in Hints : v[r] # "none"}
          [] st = "deleteHints" -> {r \in Hints : v[r] = "stale"}
          [] st = "admit" -> {Admission}
          [] st = "deleteBatches" -> {r \in BatchRows : /\ r \in t.keys
                                                        /\ v[r] \notin {"running", "gone"}}
          [] st = "cascade" -> Actions \cup {r \in LeaseRows : v[r] = "held"}

\* The actions' new row after REFRESH.
Refreshed(v, k) ==
    LET n == Cardinality(NotDone(v, k))
    IN  [v[Action(k)] EXCEPT !.deps = n, !.state = IF n > 0 THEN "waiting" ELSE @]

\* What the statement writes to the row r it matched.
Written(st, t, v, r) ==
    CASE st = "endBatch" -> (IF t.kind = "cancel" THEN "cancelled" ELSE "failed")
      [] st = "finishIfDone" -> "done"
      [] st = "cancelActions" -> [v[r] EXCEPT !.state = "cancelled"]
      [] st \in {"deleteLeases", "takeLease", "deleteBatches"} -> "gone"
      [] st = "insertLease" -> "held"
      [] st = "setDone" -> [v[r] EXCEPT !.state = "done"]
      [] st \in {"setWaiting", "requeueParent"} -> [v[r] EXCEPT !.state = "waiting"]
      [] st = "setFailed" -> [v[r] EXCEPT !.state = "failed"]
      [] st \in {"refreshKey", "refreshParent", "refreshChildren"} -> Refreshed(v, r[2])
      [] st = "makeReady" -> [v[r] EXCEPT !.state = "ready"]
      [] st = "pick" -> [v[r] EXCEPT !.state = "running"]
      [] st \in {"recordPeak", "raisePeak", "useHints"} -> "fresh"
      [] st = "deleteHints" -> "none"
      [] st = "cascade" -> (IF r \in Actions THEN [v[r] EXCEPT !.state = "gone"] ELSE "gone")
      [] OTHER -> v[r]

\* The rows besides the one it visits that a statement reads as its snapshot has them.
Reads(st) ==
    CASE st \in {"refreshKey", "refreshParent", "refreshChildren"} -> Actions
      [] st = "pick" -> {Batch}
      [] OTHER -> {}

\* Whether the transaction goes on after a statement that found the rows `found` and
\* left the view v.
GoesOn(st, t, v, found) ==
    CASE st = "lockRunning" -> v[Batch] = "running"
      [] st \in {"takeLease", "pick"} -> found # {}
      [] st = "deleteBatches" -> Batch \in found
      [] st = "lockIfRuns" -> v[Action(t.key)].state = "running"
      [] st = "lockIfDone" -> v[Action(t.key)].state = "done"
      [] OTHER -> TRUE

-----------------------------------------------------------------------------
(* The database.                                                             *)

Idle == [txn |-> Txn("none", NoKey, NoKey, {}), left |-> <<>>, snap |-> <<>>, next |-> NoRow,
         todo |-> {}, found |-> {}, own |-> <<>>]

Init ==
    /\ class \in {"build", "run"}
    /\ row = [r \in Rows |->
                CASE r = Batch -> "running"
                  [] r \in Others -> "done"
                  [] r \in Actions -> [state |-> "waiting",
                                       deps |-> Cardinality({e \in Edges : e[1] = r[2]})]
                  [] r \in Hints -> "stale"
                  [] OTHER -> "gone"]
    /\ session = [s \in Sessions |-> Idle]

Running(s) == session[s].txn.kind # "none"
Locked(s) == DOMAIN session[s].own
LockedByOther(s, r) == \E u \in Sessions \ {s} : r \in Locked(u)
View(s) == [r \in Rows |-> IF r \in Locked(s) THEN session[s].own[r] ELSE row[r]]

\* engine.begin.
Begin(s, t) ==
    /\ ~Running(s)
    /\ session' = [session EXCEPT ![s] = [Idle EXCEPT !.txn = t, !.left = Program(t.kind)]]
    /\ UNCHANGED <<class, row>>

\* The session q of s after a statement, which left it the rows own.
AfterStatement(s, q) ==
    LET v == [r \in Rows |-> IF r \in DOMAIN q.own THEN q.own[r] ELSE row[r]]
    IN  [q EXCEPT !.snap = <<>>, !.next = NoRow, !.todo = {}, !.found = {},
                  !.left = IF GoesOn(Head(q.left), q.txn, v, q.found) THEN Tail(@) ELSE <<>>]

\* A statement starts: what it matches among the rows the transaction has locked it
\* writes at once, another row it will visit next.
Execute(s) ==
    LET q == session[s]
        st == Head(q.left)
        v == View(s)
        all == Touches(st, q.txn, v)
        mine == all \cap Locked(s)
        own == [r \in Locked(s) |-> IF r \in mine THEN Written(st, q.txn, v, r) ELSE v[r]]
        p == [q EXCEPT !.own = own, !.found = mine]
    IN  /\ Running(s) /\ q.left # <<>> /\ q.next = NoRow
        /\ \/ all \subseteq Locked(s) /\ session' = [session EXCEPT ![s] = AfterStatement(s, p)]
           \/ \E r \in all \ Locked(s) :
                session' = [session EXCEPT ![s] =
                    [p EXCEPT !.snap = [x \in Reads(st) |-> v[x]], !.next = r, !.todo = all \ (Locked(s) \cup {r})]]
        /\ UNCHANGED <<class, row>>

\* The row after the one just visited, or the end of the statement.
Onward(s, q, todo) ==
    IF todo = {} THEN {AfterStatement(s, q)}
    ELSE {[q EXCEPT !.next = r, !.todo = todo \ {r}] : r \in todo}

\* The lock of the next row is had: the row is looked at again as it is now.
Visit(s) ==
    LET q == session[s]
        r == q.next
        st == Head(q.left)
        v == [x \in Rows |-> IF x # r /\ x \in Reads(st) THEN q.snap[x] ELSE row[x]]
        matches == r \in Touches(st, q.txn, v)
        new == IF matches THEN Written(st, q.txn, v, r) ELSE row[r]
        picked == st = "pick" /\ matches
        p == [q EXCEPT !.own = [x \in Locked(s) \cup {r} |-> IF x = r THEN new ELSE q.own[x]],
                       !.found = IF matches THEN @ \cup {r} ELSE @,
                       !.txn.key = IF picked THEN r[2] ELSE @]
    IN  /\ Running(s) /\ r # NoRow /\ ~LockedByOther(s, r)
        /\ \E after \in Onward(s, p, IF picked THEN {} ELSE q.todo) :
              session' = [session EXCEPT ![s] = after]
        /\ UNCHANGED <<class, row>>

\* SKIP LOCKED.
Skip(s) ==
    LET q == session[s]
    IN  /\ Running(s) /\ q.next # NoRow /\ Head(q.left) = "pick" /\ LockedByOther(s, q.next)
        /\ \E after \in Onward(s, q, q.todo) : session' = [session EXCEPT ![s] = after]
        /\ UNCHANGED <<class, row>>

Commit(s) ==
    /\ Running(s) /\ session[s].left = <<>>
    /\ row' = View(s)
    /\ session' = [u \in Sessions |->
          IF u = s THEN Idle
          ELSE IF session[u].txn.key \in Keys /\ row[Lease(session[u].txn.key)] = "held"
                  /\ row'[Lease(session[u].txn.key)] = "gone"
          THEN [session[u] EXCEPT !.txn.stale = TRUE]
          ELSE session[u]]
    /\ UNCHANGED class

\* The transaction fails: an error, a timeout, a lost connection, a deadlock broken.
Abort(s) ==
    /\ Running(s) /\ session[s].left # <<>>
    /\ session' = [session EXCEPT ![s] = Idle]
    /\ UNCHANGED <<class, row>>

Next ==
    \E s \in Sessions :
        \/ \E t \in Requests : Begin(s, t)
        \/ Execute(s) \/ Visit(s) \/ Skip(s) \/ Commit(s) \/ Abort(s)

Spec == Init /\ [][Next]_vars

-----------------------------------------------------------------------------

\* What transaction t makes of the rows v when nothing else runs.
Alone(t, v) ==
    LET step(acc, st) ==
            LET found == Touches(st, t, acc.rows)
                after == [r \in Rows |-> IF r \in found THEN Written(st, t, acc.rows, r)
                                                        ELSE acc.rows[r]]
            IN  IF ~acc.on THEN acc
                ELSE [rows |-> after, on |-> GoesOn(st, t, after, found)]
    IN  FoldLeft(step, [rows |-> v, on |-> TRUE], Program(t.kind)).rows

\* Every transaction that commits leaves the rows as if it had run alone at that
\* moment, whatever claims, completions, expiries, releases, cancels and retention
\* committed between its statements; so module Coordinator may take it as one step.
\* (One that matched no row, or a claim that found every ready row taken, changes
\* nothing.)
CommitsAreSerial ==
    [][\A s \in Sessions :
          LET t == session[s].txn
              foundNothing == Locked(s) = {} \/ (t.kind = "claim" /\ t.key = NoKey)
          IN  Commit(s) => row' = IF foundNothing THEN row ELSE Alone(t, row)]_vars

\* Whom s waits for.
Blockers(s) ==
    IF session[s].next = NoRow \/ Head(session[s].left) = "pick" THEN {}
    ELSE {u \in Sessions \ {s} : session[s].next \in Locked(u)}

OnCycle(s) ==
    /\ Blockers(s) # {}
    /\ \A S \in SUBSET Sessions :
          Blockers(s) \subseteq S /\ (\A u \in S : Blockers(u) \subseteq S) => s \in S

\* No claim, heartbeat, completion, expiry, release, re-queue or cancel is ever part of a
\* circle of transactions that wait for each other's rows ("Lock order is a batch row
\* first, then its actions and leases, so a completion, an expiry and a cancel never
\* deadlock").  Only submits and the deletion of old hints, which lock several hints in
\* no order, and retention, which locks several batches in no order, can be.
NoDeadlock ==
    \A s \in Sessions : OnCycle(s) => session[s].txn.kind \in {"submit", "forgetHints", "retain"}
=============================================================================
