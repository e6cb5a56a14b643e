---------------------------- MODULE MCWorkerHost ----------------------------
(***************************************************************************)
(* A worker, the account it gives of its time, and the workers of a host   *)
(* that install a release, side by side.  They share no variable: in a     *)
(* behaviour one part moves and the others stay where they start.          *)
(***************************************************************************)
EXTENDS Integers

CONSTANTS
    Parts,              \* the parts that are checked
    Lapse,              \* Worker
    Workers, Nobody,    \* ReleaseInstall
    MaxTime, Unauthorised       \* WorkerTime

VARIABLES
    part,
    main, record, raised, exiting, beat, lost, done, child, hol, orphan, protection,
    offFailed, onFailed, age, missed, lease, unguarded,
    dir, complete, lock, source, pc,
    cooperates, at, watch, seconds, report, spans, failing, polls, due

Work == INSTANCE Worker
Install == INSTANCE ReleaseInstall
Time == INSTANCE WorkerTime WITH raised <- failing

ASSUME ParametersAssumption == Work!Parameters /\ Install!Parameters /\ Time!Parameters

worker == <<main, record, raised, exiting, beat, lost, done, child, hol, orphan, protection,
            offFailed, onFailed, age, missed, lease, unguarded>>
install == <<dir, complete, lock, source, pc>>
time == <<cooperates, at, watch, seconds, report, spans, failing, polls, due>>
vars == <<part, worker, install, time>>

\* A part that does not move starts in one state.
Init ==
    /\ part \in Parts
    /\ Work!Init /\ Install!Init /\ Time!Init
    /\ part # "install" => dir = "none" /\ source = "yes"
    /\ part # "time" => cooperates

Next ==
    /\ UNCHANGED part
    /\ \/ part = "worker" /\ Work!Next /\ UNCHANGED <<install, time>>
       \/ part = "install" /\ Install!Next /\ UNCHANGED <<worker, time>>
       \/ part = "time" /\ Time!Next /\ UNCHANGED <<worker, install>>

\* The worker's own fairness, when it moves.
Spec ==
    /\ Init /\ [][Next]_vars
    /\ WF_worker(part = "worker" /\ Work!Main)
    /\ WF_worker(part = "worker" /\ Work!Beat)
    /\ SF_worker(part = "worker" /\ Work!BeatAnswered)
    /\ SF_worker(part = "worker" /\ (Work!Stale \/ Work!GiveUp))
    /\ WF_worker(part = "worker" /\ Work!ChildStops)
    /\ WF_worker(part = "worker" /\ Work!WatchEnds)

-----------------------------------------------------------------------------

\* execute: an action does not run on once the worker is past it, with a SIGTERM that
\* falls where the code guards against it.
NothingLeftRunning == Work!NothingLeftRunning

\* execute: nor with one that falls anywhere else.
SigtermStopsAction == Work!SigtermStopsAction

\* Protection.set: scale-in protection covers a running action, as long as heartbeats
\* renew it, and nothing else.
ProtectionMatchesWork == Work!ProtectionMatchesWork

\* Lease._beat and execute, the parent watch: an action whose lease was revoked is let go
\* of, and a HOL child left behind ends.
RevokedActionEnds == Work!RevokedActionEnds

\* Releases.holbuild: actions run only on releases that are wholly built.
RunsOnCompleteRelease == Install!RunsOnCompleteRelease

\* Phases, ExecSpans and claim_reporting: what is reported adds up to what was done.
TimeIsCovered == Time!TimeIsCovered
=============================================================================
