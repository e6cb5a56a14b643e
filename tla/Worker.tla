------------------------------- MODULE Worker -------------------------------
(***************************************************************************)
(* A remote-exec worker (remote-exec/remote_exec/worker.py): the main      *)
(* thread claims an action, runs it in a process group of its own and      *)
(* reports the result; the heartbeat thread renews the lease and the       *)
(* scale-in protection; SIGTERM ends the worker.  The coordinator is       *)
(* reached over a network that loses requests and answers, and may revoke  *)
(* the lease at any time.                                                  *)
(*                                                                         *)
(* The worker's signal reaches holbuild and what runs in its group.  A HOL *)
(* child is the leader of a session of its own (sml/process_group.sml): it *)
(* is stopped by holbuild, or, once that has ended, by the parent watch    *)
(* beside it, which polls.                                                 *)
(***************************************************************************)
EXTENDS Integers

CONSTANT
    Lapse           \* how many rounds of a heartbeat (its interval and its requests)
                    \* protection lasts that is not renewed: PROTECTION_MINUTES

\* What the constant has to be.
Parameters == Lapse \in Nat \ {0}

VARIABLES
    main,           \* where the main thread is
    record,         \* the result record it has to report, or "none"
    raised,         \* whether an error in the worker is under way
    exiting,        \* whether SystemExit is under way
    beat,           \* where the heartbeat thread is
    lost, done,     \* the Lease's events
    child,          \* holbuild exec-action: "none", "runs", "stopping" (it has SIGTERM)
    hol,            \* whether a HOL child of it runs
    orphan,         \* whether a HOL child runs on whose holbuild has ended
    protection,     \* scale-in protection, as the agent has it
    offFailed,      \* whether the last request to clear it failed
    onFailed,       \* whether it could not be set for this action so far
    age,            \* rounds of the heartbeat since it was last set, up to Lapse
    missed,         \* history: how many of them, in a row, renewed nothing
    lease,          \* the attempt's lease at the coordinator: "none", "live", "gone"
    unguarded       \* history: SIGTERM fell between two statements of execute that its
                    \* finally does not cover

Beater == <<beat, lost, done>>
Processes == <<child, hol, orphan>>
Agent == <<protection, offFailed, onFailed, age, missed>>
vars == <<main, record, raised, exiting, Beater, Processes, Agent, lease, unguarded>>

MainPcs == {"claim", "take", "find", "launch", "wait", "stop", "reap", "report", "release",
            "join", "unprotect", "pause", "exited"}
BeatPcs == {"off", "sleep", "asking", "renew", "over"}
Records == {"none", "result", "rejected", "unavailable", "internal"}

\* The shape of the state; a thread beats only for the action being worked on.
TypeOK ==
    /\ main \in MainPcs /\ beat \in BeatPcs /\ record \in Records
    /\ {raised, exiting, lost, done, offFailed, onFailed, unguarded} \subseteq BOOLEAN
    /\ child \in {"none", "runs", "stopping"} /\ {hol, orphan} \subseteq BOOLEAN
    /\ age \in 0..Lapse /\ missed \in 0..Lapse
    /\ protection \in {"on", "off"} /\ lease \in {"none", "live", "gone"}
    /\ main \in {"claim", "pause", "unprotect"} => beat \in {"off", "over"}

Init ==
    /\ main = "claim" /\ record = "none" /\ raised = FALSE /\ exiting = FALSE
    /\ beat = "off" /\ lost = FALSE /\ done = FALSE
    /\ child = "none" /\ hol = FALSE /\ orphan = FALSE
    /\ protection = "off" /\ offFailed = FALSE /\ onFailed = FALSE /\ age = 0 /\ missed = 0
    /\ lease = "none" /\ unguarded = FALSE

Goto(pc) == main' = pc
OneMore(n) == IF n < Lapse THEN n + 1 ELSE n

\* main: a claim that got an action.  One that got nothing leaves all as it was.
Claim ==
    /\ main = "claim"
    /\ Goto("take")
    /\ lease' = "live" /\ record' = "none" /\ raised' = FALSE
    /\ UNCHANGED <<exiting, Beater, Processes, Agent, unguarded>>

\* Lease.held: protection on, which may fail, then the heartbeat thread.
Take(ok) ==
    /\ main = "take"
    /\ protection' = IF ok THEN "on" ELSE protection
    /\ onFailed' = ~ok /\ offFailed' = FALSE
    /\ age' = (IF ok THEN 0 ELSE Lapse) /\ missed' = 0
    /\ beat' = "sleep" /\ lost' = FALSE /\ done' = FALSE
    /\ Goto("find")
    /\ UNCHANGED <<record, raised, exiting, Processes, lease, unguarded>>

\* execute: the spec's version and its release, built if need be; a version with
\* no release is refused, a cache without an answer and any other error reported.
Find(outcome) ==
    /\ main = "find"
    /\ \/ outcome = "found" /\ Goto("launch") /\ UNCHANGED <<record, raised>>
       \/ /\ outcome \in {"rejected", "unavailable", "internal"}
          /\ Goto("report")
          /\ record' = outcome /\ raised' = (outcome # "rejected")
    /\ UNCHANGED <<exiting, Beater, Processes, Agent, lease, unguarded>>

\* A lease lost meanwhile: nothing is started or reported.
LaunchLost ==
    /\ main = "launch" /\ lost
    /\ Goto("release")
    /\ UNCHANGED <<record, raised, exiting, Beater, Processes, Agent, lease, unguarded>>

Launch ==
    /\ main = "launch" /\ ~lost
    /\ child' = "runs" /\ Goto("wait")
    /\ UNCHANGED <<record, raised, exiting, Beater, hol, orphan, Agent, lease, unguarded>>

\* launch_shell: holbuild starts a HOL child, in a session of its own.  Its threads
\* may still do so while the handler of SIGTERM stops the ones it found.
HolStarts ==
    /\ child # "none" /\ ~hol
    /\ hol' = TRUE
    /\ UNCHANGED <<main, record, raised, exiting, Beater, child, orphan, Agent, lease, unguarded>>

\* A HOL child ends, or holbuild's handler kills it.
HolEnds ==
    /\ hol
    /\ hol' = FALSE
    /\ UNCHANGED <<main, record, raised, exiting, Beater, child, orphan, Agent, lease, unguarded>>

\* holbuild ends, by itself, killed or by the handler of SIGTERM, with a record or
\* without; a HOL child it leaves is in no group the worker signals.
ChildEnds ==
    /\ child # "none"
    /\ child' = "none" /\ hol' = FALSE /\ orphan' = (orphan \/ hol)
    /\ UNCHANGED <<main, record, raised, exiting, Beater, Agent, lease, unguarded>>

\* The parent watch finds holbuild gone and kills the HOL child's group.
WatchEnds ==
    /\ orphan
    /\ orphan' = FALSE
    /\ UNCHANGED <<main, record, raised, exiting, Beater, child, hol, Agent, lease, unguarded>>

\* The poll loop: ends once holbuild has or the lease is lost.
Polled(res) ==
    /\ main = "wait"
    /\ \/ /\ child = "none"
          /\ record' = res /\ raised' = (res = "internal")
       \/ /\ child = "runs" /\ lost
          /\ record' = "none" /\ UNCHANGED raised
    /\ Goto("stop")
    /\ UNCHANGED <<exiting, Beater, Processes, Agent, lease, unguarded>>

AfterStop == IF exiting \/ record = "none" THEN "release" ELSE "report"

\* Mutant: an action is stopped for a lost lease only, not for a SIGTERM.
StopLost ==
    /\ main = "stop"
    /\ child' = IF child = "runs" /\ lost THEN "stopping" ELSE child
    /\ Goto("reap")
    /\ UNCHANGED <<record, raised, exiting, Beater, hol, orphan, Agent, lease, unguarded>>

\* The finally of execute: SIGTERM to holbuild's group, if there is one ...
Stop ==
    /\ main = "stop"
    /\ child' = IF child = "runs" THEN "stopping" ELSE child
    /\ Goto("reap")
    /\ UNCHANGED <<record, raised, exiting, Beater, hol, orphan, Agent, lease, unguarded>>

\* ... then holbuild is waited for.
Reap ==
    /\ main = "reap" /\ child = "none"
    /\ Goto(AfterStop)
    /\ UNCHANGED <<record, raised, exiting, Beater, Processes, Agent, lease, unguarded>>

\* Coordinator.complete: the coordinator takes the result of a lease it holds.
Accepted(answered) ==
    /\ main = "report" /\ lease = "live"
    /\ lease' = "gone"
    /\ main' = IF answered THEN "release" ELSE "report"
    /\ UNCHANGED <<record, raised, exiting, Beater, Processes, Agent, unguarded>>

\* 409: the result is stale, or was taken by a try whose answer was lost.
Stale ==
    /\ main = "report" /\ lease = "gone"
    /\ Goto("release")
    /\ UNCHANGED <<record, raised, exiting, Beater, Processes, Agent, lease, unguarded>>

\* No answer until the lease would have run out, or another error status.
GiveUp ==
    /\ main = "report"
    /\ Goto("release") /\ raised' = TRUE
    /\ UNCHANGED <<record, exiting, Beater, Processes, Agent, lease, unguarded>>

\* The finally of held, in three steps: done, join, protection off.
Release ==
    /\ main = "release"
    /\ done' = TRUE
    /\ Goto("join")
    /\ UNCHANGED <<record, raised, exiting, beat, lost, Processes, Agent, lease, unguarded>>

\* Mutant: the heartbeat thread is not waited for.
JoinNot ==
    /\ main = "join"
    /\ Goto("unprotect")
    /\ UNCHANGED <<record, raised, exiting, Beater, Processes, Agent, lease, unguarded>>

Join ==
    /\ main = "join" /\ beat = "over"
    /\ Goto("unprotect")
    /\ UNCHANGED <<record, raised, exiting, Beater, Processes, Agent, lease, unguarded>>

\* Protection off, which may fail; then main claims again, after a pause if an
\* error was under way, or the worker is gone.
Unprotect(ok) ==
    /\ main = "unprotect"
    /\ protection' = IF ok THEN "off" ELSE protection
    /\ offFailed' = ~ok
    /\ lease' = "none"
    /\ Goto(IF exiting THEN "exited" ELSE IF raised THEN "pause" ELSE "claim")
    /\ UNCHANGED <<record, raised, exiting, Beater, Processes, onFailed, age, missed, unguarded>>

Pause ==
    /\ main = "pause"
    /\ Goto("claim")
    /\ UNCHANGED <<record, raised, exiting, Beater, Processes, Agent, lease, unguarded>>

\* SIGTERM raises SystemExit in the main thread: the finally clauses it is within
\* run, one it interrupts does not go on (so holbuild, signalled, may not be waited
\* for).  The threads end with the process.
Terminate ==
    /\ main \notin {"exited", "stop"}
    /\ exiting' = TRUE
    /\ Goto(CASE main = "wait" -> "stop"
              [] main \in {"find", "launch", "reap", "report"} -> "release"
              [] OTHER -> "exited")
    /\ beat' = IF main' = "exited" THEN "over" ELSE beat
    /\ UNCHANGED <<record, raised, lost, done, Processes, Agent, lease, unguarded>>

\* SIGTERM once Popen has returned and before the try, or in its finally before
\* killpg: SystemExit leaves execute and the group is not signalled.
TerminateUnguarded ==
    /\ exiting' = TRUE /\ unguarded' = TRUE
    /\ \/ main = "launch" /\ ~lost /\ child' = "runs"
       \/ main = "stop" /\ UNCHANGED child
    /\ Goto("release")
    /\ UNCHANGED <<record, raised, Beater, hol, orphan, Agent, lease>>

\* _beat: done ends the thread, or its interval passed.
BeatWakes ==
    /\ beat = "sleep"
    /\ IF done THEN beat' = "over" /\ UNCHANGED age
               ELSE beat' = "asking" /\ age' = OneMore(age)
    /\ UNCHANGED <<main, record, raised, exiting, lost, done, Processes, protection, offFailed,
                   onFailed, missed, lease, unguarded>>

\* Mutant: 409 is taken for an answer that may come right.
BeatAnsweredLater ==
    /\ beat = "asking"
    /\ IF lease = "live" THEN beat' = "renew" /\ UNCHANGED missed
                         ELSE beat' = "sleep" /\ missed' = OneMore(missed)
    /\ UNCHANGED <<main, record, raised, exiting, lost, done, Processes, protection, offFailed,
                   onFailed, age, lease, unguarded>>

\* The heartbeat's answer: 200, 409, or none.
BeatAnswered ==
    /\ beat = "asking"
    /\ IF lease = "live" THEN beat' = "renew" /\ UNCHANGED lost
                         ELSE beat' = "over" /\ lost' = TRUE
    /\ UNCHANGED <<main, record, raised, exiting, done, Processes, Agent, lease, unguarded>>

\* No answer: the thread carries on, and protection is not renewed this time.
BeatFails ==
    /\ beat = "asking"
    /\ beat' = "sleep"
    /\ missed' = OneMore(missed)
    /\ UNCHANGED <<main, record, raised, exiting, lost, done, Processes, protection, offFailed,
                   onFailed, age, lease, unguarded>>

\* Protection is set again, which the agent may refuse.
BeatRenews(ok) ==
    /\ beat = "renew"
    /\ beat' = "sleep"
    /\ IF ok THEN protection' = "on" /\ onFailed' = FALSE /\ age' = 0 /\ missed' = 0
             ELSE missed' = OneMore(missed) /\ UNCHANGED <<protection, onFailed, age>>
    /\ UNCHANGED <<main, record, raised, exiting, lost, done, Processes, offFailed, lease, unguarded>>

\* The agent's protection runs out, if it is the ECS agent's (a --protection-cmd
\* decides for itself): nothing renewed it for that long, or no action is held.
ProtectionLapses ==
    /\ protection = "on"
    /\ age = Lapse \/ main \in {"claim", "pause", "exited"}
    /\ protection' = "off"
    /\ UNCHANGED <<main, record, raised, exiting, Beater, Processes, offFailed, onFailed, age,
                   missed, lease, unguarded>>

\* The coordinator ends the lease: it ran out, or the batch was cancelled.
Revoke ==
    /\ lease = "live"
    /\ lease' = "gone"
    /\ UNCHANGED <<main, record, raised, exiting, Beater, Processes, Agent, unguarded>>

Completing == (\E answered \in BOOLEAN : Accepted(answered)) \/ Stale \/ GiveUp

Main ==
    \/ Claim \/ (\E ok \in BOOLEAN : Take(ok))
    \/ \E outcome \in {"found", "rejected", "unavailable", "internal"} : Find(outcome)
    \/ LaunchLost \/ Launch \/ (\E res \in {"result", "internal"} : Polled(res)) \/ Stop \/ Reap
    \/ Completing \/ Release \/ Join \/ (\E ok \in BOOLEAN : Unprotect(ok)) \/ Pause

Beat == BeatWakes \/ BeatAnswered \/ BeatFails \/ \E ok \in BOOLEAN : BeatRenews(ok)

Next ==
    \/ Main \/ Beat \/ Terminate \/ TerminateUnguarded \/ Revoke \/ ProtectionLapses
    \/ HolStarts \/ HolEnds \/ ChildEnds \/ WatchEnds

\* holbuild has SIGTERM, and its handler exits.
ChildStops == child = "stopping" /\ ChildEnds

\* Both threads run; a heartbeat asked again and again is answered in the end, and
\* a report is not repeated past its deadline.  A holbuild told to stop does so, and
\* the parent watch polls; a HOL child need not end by itself.
Fairness ==
    /\ WF_vars(Main) /\ WF_vars(Beat) /\ SF_vars(BeatAnswered)
    /\ SF_vars(Stale \/ GiveUp)
    /\ WF_vars(ChildStops) /\ WF_vars(WatchEnds)

Spec == Init /\ [][Next]_vars /\ Fairness

-----------------------------------------------------------------------------

\* The worker reported the action, claims another or is gone.
Past == main \in {"claim", "report", "release", "join", "unprotect", "pause", "exited"}

\* An action does not run on once the worker is past it, not after a lost lease, an
\* error or a SIGTERM that the try of execute covers: holbuild has ended before a result
\* is reported or another action claimed, or, where SIGTERM cut the wait for it short,
\* has the signal itself; and no HOL child is left but one without a holbuild, which its
\* parent watch ends.
NothingLeftRunning ==
    Past /\ ~unguarded => /\ child # "runs"
                          /\ ~exiting => child = "none" /\ ~hol

\* No holbuild is left running, wherever SIGTERM falls (execute: "stops the action rather
\* than leaving it running unreported").
SigtermStopsAction == Past => child # "runs"

\* Scale-in protection covers a running action and nothing else.  It is on while one
\* runs, unless the agent never took it or the heartbeats, failing in a row, left it
\* without renewal until it lapsed; it is off while the worker claims, unless the agent
\* refused.  A heartbeat on its way when the action ends does not turn it on for good.
ProtectionMatchesWork ==
    /\ child = "runs" /\ ~unguarded => protection = "on" \/ onFailed \/ missed + 1 >= Lapse
    /\ main = "claim" => protection = "off" \/ offFailed

\* An action whose lease the coordinator revoked is stopped and let go of, though the
\* worker learns of it only from a heartbeat's answer; and a HOL child that its holbuild
\* left behind, which no signal of the worker reaches, ends.
RevokedActionEnds ==
    /\ (lease = "gone") ~> (main \in {"claim", "pause", "exited"})
    /\ orphan ~> ~orphan
=============================================================================
