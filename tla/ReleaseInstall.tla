--------------------------- MODULE ReleaseInstall ---------------------------
(***************************************************************************)
(* holbuild releases built on demand (Releases.holbuild and _build in      *)
(* remote-exec/remote_exec/worker.py): the workers of a host share a       *)
(* directory; the one with the version's lock builds the release in the    *)
(* directory it runs from and stamps it complete.  A worker may be killed  *)
(* at any step; the kernel frees its lock.                                 *)
(***************************************************************************)
EXTENDS Integers, FiniteSets

CONSTANTS
    Workers,
    Nobody

\* What the constants have to be.
Parameters ==
    /\ Nobody \notin Workers

VARIABLES
    dir,            \* the version's directory: "none", "sources" or "built"
    complete,       \* whether the stamp is in it
    lock,           \* who holds the flock of the version's lock file
    source,         \* whether the version's source can be had: "yes", "no", "error"
    pc              \* where a worker is in holbuild(version)

vars == <<dir, complete, lock, source, pc>>

Pcs == {"idle", "locking", "recheck", "clear", "fetch", "place", "make", "stamp", "unlock",
        "runs", "refused", "failed"}
Building == {"clear", "fetch", "place", "make", "stamp"}

\* The shape of the state; whoever is past the lock has it.
TypeOK ==
    /\ dir \in {"none", "sources", "built"} /\ complete \in BOOLEAN
    /\ lock \in Workers \cup {Nobody} /\ source \in {"yes", "no", "error"}
    /\ pc \in [Workers -> Pcs]
    /\ \A w \in Workers : pc[w] \in Building \cup {"recheck", "unlock"} => lock = w

Init ==
    /\ dir \in {"none", "sources", "built"} /\ complete = FALSE
    /\ lock = Nobody /\ source \in {"yes", "no", "error"}
    /\ pc = [w \in Workers |-> "idle"]

Step(w, from, to) == pc[w] = from /\ pc' = [pc EXCEPT ![w] = to]

\* The stamp is there: the executable is used without the lock.
UseInstalled(w) ==
    /\ complete /\ Step(w, "idle", "runs")
    /\ UNCHANGED <<dir, complete, lock, source>>

OpenLock(w) ==
    /\ ~complete /\ Step(w, "idle", "locking")
    /\ UNCHANGED <<dir, complete, lock, source>>

Lock(w) ==
    /\ lock = Nobody /\ Step(w, "locking", "recheck")
    /\ lock' = w
    /\ UNCHANGED <<dir, complete, source>>

\* Mutant: what was true before the lock is taken for granted.
RecheckNot(w) ==
    /\ Step(w, "recheck", "clear")
    /\ UNCHANGED <<dir, complete, lock, source>>

\* Another worker may have built it meanwhile.
Recheck(w) ==
    /\ Step(w, "recheck", IF complete THEN "unlock" ELSE "clear")
    /\ UNCHANGED <<dir, complete, lock, source>>

\* rmtree: what a worker killed during its build left goes, the stamp with it.
Clear(w) ==
    /\ Step(w, "clear", "fetch")
    /\ dir' = "none" /\ complete' = FALSE
    /\ UNCHANGED <<lock, source>>

\* The with block frees the lock on the way out of an error.
Fetch(w) ==
    /\ pc[w] = "fetch"
    /\ pc' = [pc EXCEPT ![w] = CASE source = "yes" -> "place"
                                 [] source = "no" -> "refused"
                                 [] source = "error" -> "failed"]
    /\ lock' = IF source = "yes" THEN lock ELSE Nobody
    /\ UNCHANGED <<dir, complete, source>>

\* Unpacked in scratch, then renamed into place.
Place(w) ==
    /\ Step(w, "place", "make")
    /\ dir' = "sources"
    /\ UNCHANGED <<complete, lock, source>>

Make(w, ok) ==
    /\ Step(w, "make", IF ok THEN "stamp" ELSE "failed")
    /\ dir' = IF ok THEN "built" ELSE dir
    /\ lock' = IF ok THEN lock ELSE Nobody
    /\ UNCHANGED <<complete, source>>

Stamp(w) ==
    /\ Step(w, "stamp", "unlock")
    /\ complete' = TRUE
    /\ UNCHANGED <<dir, lock, source>>

Unlock(w) ==
    /\ Step(w, "unlock", "runs")
    /\ lock' = Nobody
    /\ UNCHANGED <<dir, complete, source>>

\* The action is over, or was reported as refused or failed; another comes.
Again(w) ==
    /\ pc[w] \in {"runs", "refused", "failed"}
    /\ pc' = [pc EXCEPT ![w] = "idle"]
    /\ UNCHANGED <<dir, complete, lock, source>>

Kill(w) ==
    /\ pc[w] # "idle"
    /\ pc' = [pc EXCEPT ![w] = "idle"]
    /\ lock' = IF lock = w THEN Nobody ELSE lock
    /\ UNCHANGED <<dir, complete, source>>

\* The release is published, or its server comes and goes.
SourceChanges(s) ==
    /\ source # s
    /\ source' = s
    /\ UNCHANGED <<dir, complete, lock, pc>>

Build(w) ==
    \/ Recheck(w) \/ Clear(w) \/ Fetch(w) \/ Place(w)
    \/ (\E ok \in BOOLEAN : Make(w, ok)) \/ Stamp(w) \/ Unlock(w)

Next ==
    \/ \E w \in Workers : UseInstalled(w) \/ OpenLock(w) \/ Lock(w) \/ Build(w) \/ Again(w) \/ Kill(w)
    \/ \E s \in {"yes", "no", "error"} : SourceChanges(s)

Spec == Init /\ [][Next]_vars

-----------------------------------------------------------------------------

\* An action never runs on a release that is not wholly built, and the release one
\* runs on is not taken away under it: not by a worker that began before it was
\* complete, nor by one that starts over after a crash.
RunsOnCompleteRelease ==
    \A w \in Workers : pc[w] = "runs" => complete /\ dir = "built"
=============================================================================
