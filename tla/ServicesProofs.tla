--------------------------- MODULE ServicesProofs ---------------------------
(***************************************************************************)
(* Proofs about the coordinator's services: the change stream              *)
(* (EventStream) and the release tasks (ReleaseTasks), for any number of   *)
(* actions, transactions and requests.                                     *)
(***************************************************************************)
EXTENDS MCServices, NaturalsInduction, WellFoundedInduction, TLAPS

-----------------------------------------------------------------------------
(* EventStream *)

\* No position is ahead of a transaction that may still commit.
PositionIsBehind ==
    /\ Stream!TypeOK
    /\ \A x \in open : since <= x

\* A row that differs from what was sent will be read again.
UnsentIsAhead == \A k \in Keys : seen[k] = rows[k].state \/ rows[k].xid >= since

\* Only open transactions have written, only the one that ends the batch once there is
\* one, and none once the batch is over.
WritersAreOpen ==
    \A x \in Stream!Xids :
        writes[x] # {} => x \in open /\ batch = "running" /\ (ender = {} \/ ender = {x})

\* The batch's line is sent only when the batch is over.
ToldWhenOver == stream = "told" => batch # "running"

\* The safety half of ToldEverything: what was sent before the batch's line is complete.
ToldIsComplete == stream = "told" => \A k \in Keys : seen[k] = rows[k].state

\* The inductive invariant.
StreamInv ==
    /\ PositionIsBehind /\ UnsentIsAhead /\ WritersAreOpen /\ ToldWhenOver
    /\ ToldIsComplete

\* The oldest transaction still running is one, or the next.
LEMMA XminFacts ==
    ASSUME Stream!Parameters, Stream!TypeOK
    PROVE  /\ Stream!XminOfSnapshot \in 0..next
           /\ \A x \in open : Stream!XminOfSnapshot <= x
<1>1. next \in Nat /\ open \subseteq 1..(next - 1)
  BY DEF Stream!TypeOK, Stream!Parameters
<1>2. CASE open = {}
  BY <1>1, <1>2 DEF Stream!XminOfSnapshot
<1>3. CASE open # {}
  <2>1. \E x \in open : \A y \in open : x <= y
    <3>1. open \subseteq Nat
      BY <1>1
    <3>2. \E x \in open : \A y \in open : ~(<<y, x>> \in OpToRel(<, Nat))
      BY <1>3, <3>1, NatLessThanWellFounded, WFMin, Zenon
    <3>3. ASSUME NEW x \in Nat, NEW y \in Nat, y < x PROVE <<y, x>> \in OpToRel(<, Nat)
      BY <3>3 DEF OpToRel
    <3>4. PICK x \in open : \A y \in open : ~(<<y, x>> \in OpToRel(<, Nat))
      BY <3>2, Zenon
    <3>5. \A y \in open : ~(y < x)
      BY <3>1, <3>3, <3>4, Zenon
    <3>6. QED
      BY <3>1, <3>5
  <2>2. /\ Stream!XminOfSnapshot \in open
        /\ \A y \in open : Stream!XminOfSnapshot <= y
    BY <1>3, <2>1 DEF Stream!XminOfSnapshot
  <2>3. QED
    BY <1>1, <2>2
<1>4. QED
  BY <1>2, <1>3

\* The start: nothing was written or sent.
LEMMA StreamInit ==
    ASSUME Stream!Parameters, Stream!Init PROVE StreamInv
BY DEF Stream!Parameters, Stream!Init, Stream!TypeOK, Stream!Xids, StreamInv, PositionIsBehind,
       UnsentIsAhead, WritersAreOpen, ToldWhenOver, ToldIsComplete

\* A transaction takes its number: none smaller than the position is given out.
LEMMA BeginInv ==
    ASSUME Stream!Parameters, StreamInv, Stream!Begin PROVE StreamInv'
<1>1. next \in Nat /\ since \in Nat /\ since <= next /\ MaxXid \in Nat /\ next <= MaxXid
  BY DEF StreamInv, PositionIsBehind, Stream!TypeOK, Stream!Begin, Stream!Parameters
<1>2. /\ open' = open \cup {next} /\ next' = next + 1
      /\ UNCHANGED <<rows, batch, writes, ender, since, seen, stream>>
  BY DEF Stream!Begin
<1>3. PositionIsBehind'
  BY <1>1, <1>2 DEF StreamInv, PositionIsBehind, Stream!TypeOK, Stream!Xids
<1>4. UnsentIsAhead' /\ WritersAreOpen' /\ ToldWhenOver' /\ ToldIsComplete'
  BY <1>2 DEF StreamInv, UnsentIsAhead, WritersAreOpen, ToldWhenOver, ToldIsComplete
<1>5. QED
  BY <1>3, <1>4 DEF StreamInv

\* What the rows, the numbers and the stream keep when only writes of an open transaction
\* change.
LEMMA WritesInv ==
    ASSUME Stream!Parameters, StreamInv, NEW x \in open, NEW W \in SUBSET (Keys \X States),
           writes' = [writes EXCEPT ![x] = W],
           batch = "running", ender = {}, ender' \subseteq {x},
           ender' # {} => \A y \in open \ {x} : writes[y] = {},
           UNCHANGED <<rows, batch, next, open, since, seen, stream>>
    PROVE  StreamInv'
<1>1. x \in Stream!Xids
  BY DEF StreamInv, PositionIsBehind, Stream!TypeOK, Stream!Xids, Stream!Parameters
<1>2. PositionIsBehind'
  BY <1>1 DEF StreamInv, PositionIsBehind, Stream!TypeOK
<1>3. WritersAreOpen'
  BY <1>1 DEF StreamInv, PositionIsBehind, Stream!TypeOK, WritersAreOpen
<1>4. UnsentIsAhead' /\ ToldWhenOver' /\ ToldIsComplete'
  BY DEF StreamInv, UnsentIsAhead, ToldWhenOver, ToldIsComplete
<1>5. QED
  BY <1>2, <1>3, <1>4 DEF StreamInv

\* A transaction writes a row.
LEMMA WriteInv ==
    ASSUME Stream!Parameters, StreamInv, NEW x \in Stream!Xids, NEW k \in Keys,
           NEW s \in States, Stream!Write(x, k, s)
    PROVE  StreamInv'
<1> DEFINE W == writes[x] \cup {<<k, s>>}
<1>1. W \in SUBSET (Keys \X States) /\ writes' = [writes EXCEPT ![x] = W]
  BY DEF StreamInv, PositionIsBehind, Stream!TypeOK, Stream!Write
<1> HIDE DEF W
<1>2. QED
  BY <1>1, WritesInv DEF Stream!Write

\* A transaction ends the batch, once no other has written to it.
LEMMA EndInv ==
    ASSUME Stream!Parameters, StreamInv, NEW x \in Stream!Xids, NEW K \in SUBSET Keys,
           NEW s \in States, Stream!End(x, K, s)
    PROVE  StreamInv'
<1> DEFINE W == writes[x] \cup {<<k, s>> : k \in K}
<1>1. W \in SUBSET (Keys \X States) /\ writes' = [writes EXCEPT ![x] = W]
  BY DEF StreamInv, PositionIsBehind, Stream!TypeOK, Stream!End
<1> HIDE DEF W
<1>2. QED
  BY <1>1, WritesInv DEF Stream!End

\* A transaction is over, with its writes in the rows or not: rows it wrote are stamped
\* with its number, which the position has not passed.
LEMMA TransactionEndsInv ==
    ASSUME Stream!Parameters, StreamInv, NEW x \in Stream!Xids,
           Stream!Commit(x) \/ Stream!RollBack(x)
    PROVE  StreamInv'
<1>1. /\ x \in open /\ since <= x /\ x \in 0..MaxXid
      /\ open' = open \ {x} /\ ender' = ender \ {x} /\ writes' = [writes EXCEPT ![x] = {}]
      /\ UNCHANGED <<next, since, seen, stream>>
  BY DEF Stream!Commit, Stream!RollBack, StreamInv, PositionIsBehind, Stream!Xids,
         Stream!Parameters
<1>2. /\ batch' \in {batch, "ended"} /\ (batch' # batch => ender = {x} \/ x \in ender)
      /\ batch' = "running" => batch = "running"
  BY DEF Stream!Commit, Stream!RollBack
<1>3. \A k \in Keys : \/ rows'[k] = rows[k]
                      \/ /\ rows'[k] \in [state : States, xid : 0..MaxXid]
                         /\ rows'[k].xid = x /\ writes[x] # {}
  <2>1. CASE Stream!RollBack(x)
    BY <2>1 DEF Stream!RollBack
  <2>2. CASE Stream!Commit(x)
    <3> SUFFICES ASSUME NEW k \in Keys, \E s \in States : <<k, s>> \in writes[x]
                 PROVE  /\ rows'[k] \in [state : States, xid : 0..MaxXid]
                        /\ rows'[k].xid = x /\ writes[x] # {}
      BY <2>2 DEF Stream!Commit
    <3>1. (CHOOSE s \in States : <<k, s>> \in writes[x]) \in States
      OBVIOUS
    <3>2. rows'[k] = [state |-> CHOOSE s \in States : <<k, s>> \in writes[x], xid |-> x]
      BY <2>2 DEF Stream!Commit
    <3>3. QED
      BY <1>1, <3>1, <3>2
  <2>3. QED
    BY <2>1, <2>2
<1>4. rows' \in [Keys -> [state : States, xid : 0..MaxXid]]
  <2>1. rows' = [k \in Keys |-> rows'[k]]
    BY DEF Stream!Commit, Stream!RollBack, StreamInv, PositionIsBehind, Stream!TypeOK
  <2>2. \A k \in Keys : rows'[k] \in [state : States, xid : 0..MaxXid]
    BY <1>3 DEF StreamInv, PositionIsBehind, Stream!TypeOK
  <2>3. QED
    BY <2>1, <2>2
<1>5. PositionIsBehind'
  BY <1>1, <1>2, <1>4 DEF StreamInv, PositionIsBehind, Stream!TypeOK
<1>6. UnsentIsAhead'
  BY <1>1, <1>3 DEF StreamInv, PositionIsBehind, Stream!TypeOK, UnsentIsAhead, Stream!Xids
<1>7. WritersAreOpen'
  <2> SUFFICES ASSUME NEW y \in Stream!Xids, writes'[y] # {}
               PROVE  y \in open' /\ batch' = "running" /\ (ender' = {} \/ ender' = {y})
    BY DEF WritersAreOpen
  <2>1. y # x /\ writes[y] # {}
    BY <1>1 DEF StreamInv, PositionIsBehind, Stream!TypeOK
  <2>2. y \in open /\ batch = "running" /\ (ender = {} \/ ender = {y})
    BY <2>1 DEF StreamInv, WritersAreOpen
  <2>3. QED
    BY <1>1, <1>2, <2>1, <2>2
<1>8. ToldWhenOver'
  BY <1>1, <1>2 DEF StreamInv, ToldWhenOver
<1>9. ToldIsComplete'
  <2>1. CASE stream # "told"
    BY <1>1, <2>1 DEF ToldIsComplete
  <2>2. CASE stream = "told"
    <3>1. writes[x] = {}
      BY <2>2 DEF StreamInv, ToldWhenOver, WritersAreOpen
    <3>2. \A k \in Keys : rows'[k] = rows[k]
      BY <1>3, <3>1
    <3>3. QED
      BY <1>1, <2>2, <3>2 DEF StreamInv, ToldIsComplete
  <2>3. QED
    BY <2>1, <2>2
<1>10. QED
  BY <1>5, <1>6, <1>7, <1>8, <1>9 DEF StreamInv

\* A poll sends every row it may have to, and its new position is behind every
\* transaction that may still commit.
LEMMA PollInv ==
    ASSUME Stream!Parameters, StreamInv, Stream!Poll PROVE StreamInv'
<1>1. UNCHANGED <<rows, batch, next, open, writes, ender>> /\ stream = "polling"
  BY DEF Stream!Poll
<1>2. WritersAreOpen'
  BY <1>1 DEF StreamInv, WritersAreOpen
<1>3. CASE batch = "deleted"
  <2>1. stream' = "closed" /\ UNCHANGED <<seen, since>>
    BY <1>3 DEF Stream!Poll
  <2>2. QED
    BY <1>1, <1>2, <2>1 DEF StreamInv, PositionIsBehind, Stream!TypeOK, UnsentIsAhead,
       ToldWhenOver, ToldIsComplete
<1>4. CASE batch # "deleted"
  <2>1. /\ seen' = [k \in Keys |-> IF k \in Stream!ChangedActions THEN rows[k].state ELSE seen[k]]
        /\ since' = Stream!XminOfSnapshot
        /\ stream' = IF batch = "running" THEN "polling" ELSE "told"
    BY <1>4 DEF Stream!Poll
  <2>2. since' \in 0..next /\ \A x \in open : since' <= x
    BY <2>1, XminFacts DEF StreamInv, PositionIsBehind
  <2>3. \A k \in Keys : seen'[k] = rows[k].state
    BY <2>1 DEF StreamInv, UnsentIsAhead, Stream!ChangedActions
  <2>4. PositionIsBehind'
    BY <1>1, <2>1, <2>2 DEF StreamInv, PositionIsBehind, Stream!TypeOK
  <2>5. UnsentIsAhead' /\ ToldWhenOver' /\ ToldIsComplete'
    BY <1>1, <2>1, <2>3 DEF UnsentIsAhead, ToldWhenOver, ToldIsComplete
  <2>6. QED
    BY <1>2, <2>4, <2>5 DEF StreamInv
<1>5. QED
  BY <1>3, <1>4

\* Retention deletes the batch; or nothing happens.
LEMMA StreamQuietInv ==
    ASSUME Stream!Parameters, StreamInv, Stream!Delete \/ UNCHANGED Stream!vars
    PROVE  StreamInv'
<1>1. /\ batch' = batch \/ (batch = "ended" /\ batch' = "deleted")
      /\ UNCHANGED <<rows, next, open, writes, ender, since, seen, stream>>
  BY DEF Stream!Delete, Stream!vars
<1>2. PositionIsBehind'
  BY <1>1 DEF StreamInv, PositionIsBehind, Stream!TypeOK
<1>3. UnsentIsAhead' /\ WritersAreOpen' /\ ToldWhenOver' /\ ToldIsComplete'
  BY <1>1 DEF StreamInv, UnsentIsAhead, WritersAreOpen, ToldWhenOver, ToldIsComplete
<1>4. QED
  BY <1>2, <1>3 DEF StreamInv

\* A stream that tells its client the batch is over has told every action's last state,
\* for any number of actions and transactions, committing in any order.
THEOREM StreamTellsEverything ==
    ASSUME Stream!Parameters PROVE Stream!Spec => []ToldIsComplete
<1>1. Stream!Init => StreamInv
  BY StreamInit
<1>2. StreamInv /\ [Stream!Next]_(Stream!vars) => StreamInv'
  BY BeginInv, WriteInv, EndInv, TransactionEndsInv, PollInv, StreamQuietInv DEF Stream!Next
<1>3. StreamInv => ToldIsComplete
  BY DEF StreamInv
<1>4. QED
  BY <1>1, <1>2, <1>3, PTL DEF Stream!Spec

-----------------------------------------------------------------------------
(* ReleaseTasks *)

TaskTypes ==
    /\ pending \subseteq Tasks!Targets
    /\ task \in [Tasks!Kinds -> {"none", "running", "done"}]
    /\ todo \in [Tasks!Kinds -> SUBSET Tasks!Targets]

\* What is noted of a kind has that kind's task running, and what a task took is of
\* its kind: a task ends only with nothing of its kind pending.
NotedIsRun ==
    /\ \A t \in pending : task[Tasks!Kind(t)] = "running"
    /\ \A k \in Tasks!Kinds : \A t \in todo[k] : Tasks!Kind(t) = k /\ task[k] = "running"

\* The inductive invariant.
TasksInv ==
    /\ TaskTypes /\ NotedIsRun
    /\ \A t \in owed : t \in pending \cup todo[Tasks!Kind(t)]

\* Each target is of one of the two kinds.
LEMMA KindIsKind == \A t : Tasks!Kind(t) \in Tasks!Kinds
BY DEF Tasks!Kind, Tasks!Kinds

\* The invariant holds before the first task.
LEMMA TasksInit ==
    ASSUME Tasks!Init PROVE TasksInv
BY KindIsKind DEF Tasks!Init, TasksInv, TaskTypes, NotedIsRun

\* A request is noted, and its kind's task runs.
LEMMA RequestInv ==
    ASSUME TasksInv, NEW t \in Tasks!Targets, Tasks!Request(t) PROVE TasksInv'
<1> USE KindIsKind
<1>1. TaskTypes'
  BY DEF TasksInv, TaskTypes, Tasks!Request
<1>2. \A k \in Tasks!Kinds : task[k] = "running" => task'[k] = "running"
  BY DEF TasksInv, TaskTypes, Tasks!Request
<1>3. task'[Tasks!Kind(t)] = "running"
  BY DEF TasksInv, TaskTypes, Tasks!Request
<1>4. NotedIsRun'
  BY <1>2, <1>3 DEF TasksInv, TaskTypes, NotedIsRun, Tasks!Request
<1>5. QED
  BY <1>1, <1>4 DEF TasksInv, Tasks!Request

\* What was pending is in the task's hands: nothing is lost in between.
LEMMA TakePendingInv ==
    ASSUME TasksInv, NEW k \in Tasks!Kinds, Tasks!TakePending(k) PROVE TasksInv'
<1> USE KindIsKind DEF Tasks!TakePending, Tasks!Idle
<1>1. TaskTypes'
  BY DEF TasksInv, TaskTypes
<1>2. NotedIsRun'
  BY DEF TasksInv, TaskTypes, NotedIsRun
<1>3. \A t \in owed' : t \in pending' \cup todo'[Tasks!Kind(t)]
  BY DEF TasksInv, TaskTypes
<1>4. QED
  BY <1>1, <1>2, <1>3 DEF TasksInv

\* A task ends with nothing of its kind pending or taken.
LEMMA FinishInv ==
    ASSUME TasksInv, NEW k \in Tasks!Kinds, Tasks!Finish(k) PROVE TasksInv'
<1> USE KindIsKind DEF Tasks!Finish, Tasks!Idle
<1>1. TaskTypes'
  BY DEF TasksInv, TaskTypes
<1>2. NotedIsRun'
  BY DEF TasksInv, TaskTypes, NotedIsRun
<1>3. QED
  BY <1>1, <1>2 DEF TasksInv

\* A pass begins: only its own target is owed no more.
LEMMA StartPassInv ==
    ASSUME TasksInv, NEW k \in Tasks!Kinds, NEW t \in Tasks!Targets, Tasks!StartPass(k, t)
    PROVE  TasksInv'
<1> USE KindIsKind DEF Tasks!StartPass
<1>1. TaskTypes'
  BY DEF TasksInv, TaskTypes
<1>2. NotedIsRun'
  BY DEF TasksInv, TaskTypes, NotedIsRun
<1>3. \A u \in owed' : u \in pending' \cup todo'[Tasks!Kind(u)]
  BY DEF TasksInv, TaskTypes
<1>4. QED
  BY <1>1, <1>2, <1>3 DEF TasksInv

\* No request for a release is ever dropped (the safety half of EveryRequestIsServed):
\* until a pass that began after it, request_release's note is in release_pending or in
\* the hands of a task of _run_releases that runs.
THEOREM ReleaseRequestsAreKept ==
    Tasks!Spec => []Tasks!RequestsAreKept
<1>1. Tasks!Init => TasksInv
  BY TasksInit
<1>2. TasksInv /\ [Tasks!Next]_(Tasks!vars) => TasksInv'
  <2> SUFFICES ASSUME TasksInv, [Tasks!Next]_(Tasks!vars) PROVE TasksInv'
    OBVIOUS
  <2>1. ASSUME NEW t \in Tasks!Targets, Tasks!Request(t) PROVE TasksInv'
    BY <2>1, RequestInv
  <2>2. ASSUME NEW k \in Tasks!Kinds, Tasks!Work(k) PROVE TasksInv'
    <3>1. CASE Tasks!TakePending(k)
      BY <3>1, TakePendingInv
    <3>2. CASE Tasks!Finish(k)
      BY <3>2, FinishInv
    <3>3. ASSUME NEW t \in Tasks!Targets, Tasks!StartPass(k, t) PROVE TasksInv'
      BY <3>3, StartPassInv
    <3>4. CASE Tasks!EndPass(k)
      BY <3>4 DEF Tasks!EndPass, TasksInv, TaskTypes, NotedIsRun
    <3>5. QED
      BY <2>2, <3>1, <3>2, <3>3, <3>4 DEF Tasks!Work
  <2>3. CASE UNCHANGED Tasks!vars
    BY <2>3 DEF Tasks!vars, TasksInv, TaskTypes, NotedIsRun
  <2>4. QED
    BY <2>1, <2>2, <2>3 DEF Tasks!Next
<1>3. TasksInv => Tasks!RequestsAreKept
  BY KindIsKind DEF TasksInv, NotedIsRun, Tasks!RequestsAreKept
<1>4. QED
  BY <1>1, <1>2, <1>3, PTL DEF Tasks!Spec
=============================================================================
