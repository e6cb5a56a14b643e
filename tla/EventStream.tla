---------------------------- MODULE EventStream ----------------------------
(***************************************************************************)
(* The event stream of a batch (changes in                                 *)
(* remote-exec/remote_exec/coordinator.py, events in app.py): each poll    *)
(* reads, in one snapshot, the batch and the actions stamped by            *)
(* transactions numbered `since` or later, and takes the oldest            *)
(* transaction still running as the next `since`.  Transactions of every   *)
(* coordinator replica write the rows: they take their number with their   *)
(* first write and commit in any order.                                    *)
(***************************************************************************)
EXTENDS Integers, FiniteSets

CONSTANTS
    Keys,           \* the actions of the batch
    States,         \* states of an action row; the last write wins
    MaxXid          \* bound: transactions that write

\* What the constants have to be.
Parameters ==
    /\ MaxXid \in Nat
    /\ States # {}

Xids == 1..MaxXid

VARIABLES
    rows,           \* the committed rows: state and changed_xid
    batch,          \* the committed batch row: "running", "ended" or "deleted"
    next,           \* the number the next transaction to write takes
    open,           \* the transactions that have a number and run
    writes,         \* what each of them has written: a set of <<key, state>>
    ender,          \* the open transaction that ends the batch, as a set
    since,          \* the stream's position
    seen,           \* the stream's `seen`: the last state sent of an action
    stream          \* "polling", "told" (the batch's line is sent) or "closed"

vars == <<rows, batch, next, open, writes, ender, since, seen, stream>>

\* The shape of the state; the stream's position is never ahead of the numbers
\* given out.
TypeOK ==
    /\ rows \in [Keys -> [state : States, xid : 0..MaxXid]]
    /\ batch \in {"running", "ended", "deleted"}
    /\ next \in 1..(MaxXid + 1) /\ open \subseteq 1..(next - 1)
    /\ writes \in [Xids -> SUBSET (Keys \X States)]
    /\ ender \subseteq open /\ since \in 0..next
    /\ seen \in [Keys -> States \cup {"unsent"}]
    /\ stream \in {"polling", "told", "closed"}

\* The client submits the batch, then asks for its events.
Init ==
    /\ \E s \in States : rows = [k \in Keys |-> [state |-> s, xid |-> 0]]
    /\ batch = "running" /\ next = 1 /\ open = {} /\ ender = {}
    /\ writes = [x \in Xids |-> {}]
    /\ since = 0 /\ seen = [k \in Keys |-> "unsent"] /\ stream = "polling"

\* Keys whose rows an open transaction has locked by writing them.
Locked == {w[1] : w \in UNION {writes[x] : x \in open}}

\* A transaction writes first elsewhere (another batch, a lease) or here.
Begin ==
    /\ next <= MaxXid
    /\ open' = open \cup {next} /\ next' = next + 1
    /\ UNCHANGED <<rows, batch, writes, ender, since, seen, stream>>

\* The trigger stamps the row with the transaction's own number.  The batch's end
\* waits for the row's lock and the writers for the batch's.
Write(x, k, s) ==
    /\ x \in open /\ batch = "running" /\ ender = {}
    /\ k \notin Locked
    /\ writes' = [writes EXCEPT ![x] = @ \cup {<<k, s>>}]
    /\ UNCHANGED <<rows, batch, next, open, ender, since, seen, stream>>

\* A transaction that ends the batch writes the rows it finds unfinished.
End(x, K, s) ==
    /\ x \in open /\ batch = "running" /\ ender = {} /\ K \cap Locked = {}
    /\ \A y \in open \ {x} : writes[y] = {}
    /\ writes' = [writes EXCEPT ![x] = @ \cup {<<k, s>> : k \in K}]
    /\ ender' = {x}
    /\ UNCHANGED <<rows, batch, next, open, since, seen, stream>>

Commit(x) ==
    /\ x \in open
    /\ rows' = [k \in Keys |-> IF \E s \in States : <<k, s>> \in writes[x]
                               THEN [state |-> CHOOSE s \in States : <<k, s>> \in writes[x],
                                     xid |-> x]
                               ELSE rows[k]]
    /\ batch' = IF x \in ender THEN "ended" ELSE batch
    /\ open' = open \ {x} /\ ender' = ender \ {x}
    /\ writes' = [writes EXCEPT ![x] = {}]
    /\ UNCHANGED <<next, since, seen, stream>>

RollBack(x) ==
    /\ x \in open
    /\ open' = open \ {x} /\ ender' = ender \ {x}
    /\ writes' = [writes EXCEPT ![x] = {}]
    /\ UNCHANGED <<rows, batch, next, since, seen, stream>>

\* delete_expired, once the batch is over.
Delete ==
    /\ batch = "ended"
    /\ batch' = "deleted"
    /\ UNCHANGED <<rows, next, open, writes, ender, since, seen, stream>>

\* Mutant: the position is the end of the snapshot, not its oldest transaction.
XmaxOfSnapshot == next

\* pg_snapshot_xmin: the oldest transaction still running, or the next number.
XminOfSnapshot ==
    IF open = {} THEN next ELSE CHOOSE x \in open : \A y \in open : x <= y

\* CHANGED_ACTIONS: the rows stamped by `since` or later.
ChangedActions == {k \in Keys : rows[k].xid >= since}

\* One poll: the changed rows not sent as they are, then the batch's line when it
\* is over; a batch that is gone ends the stream without one.
Poll ==
    /\ stream = "polling"
    /\ IF batch = "deleted"
       THEN stream' = "closed" /\ UNCHANGED <<seen, since>>
       ELSE /\ seen' = [k \in Keys |-> IF k \in ChangedActions THEN rows[k].state ELSE seen[k]]
            /\ since' = XminOfSnapshot
            /\ stream' = IF batch = "running" THEN "polling" ELSE "told"
    /\ UNCHANGED <<rows, batch, next, open, writes, ender>>

Next ==
    \/ Begin
    \/ \E x \in Xids : \/ \E k \in Keys, s \in States : Write(x, k, s)
                       \/ \E K \in SUBSET Keys, s \in States : End(x, K, s)
                       \/ Commit(x) \/ RollBack(x)
    \/ Delete
    \/ Poll

\* The stream's loop goes on polling.
Fairness == WF_vars(Poll)

Spec == Init /\ [][Next]_vars /\ Fairness

-----------------------------------------------------------------------------

\* A stream that sent the batch's line has sent every action's last state before it:
\* no change is skipped by a position that moved past a transaction still to commit
\* (changes: "an action written by a transaction that commits later is read next time").
\* And a client that follows a batch that ended hears so, or loses the batch to retention.
ToldEverything ==
    /\ [](stream = "told" => \A k \in Keys : seen[k] = rows[k].state)
    /\ batch = "ended" ~> stream # "polling"
=============================================================================
