----------------------------- MODULE WorkerTime -----------------------------
(***************************************************************************)
(* Where a worker's time goes (Phases, ExecSpans and claim_reporting in    *)
(* remote-exec/remote_exec/worker.py): the main loop times what it does,   *)
(* each claim carries what it has counted since the last one, and the      *)
(* coordinator adds the reports up (report_phases in coordinator.py, the   *)
(* claim route in app.py).  Claims may fail before or after the            *)
(* coordinator has read them.  Time counts in whole milliseconds, which    *)
(* take's rounding keeps; here a handful of them.                          *)
(***************************************************************************)
EXTENDS Integers, Sequences, SequencesExt, FiniteSetsExt

CONSTANTS
    MaxTime,        \* bound: time the coordinator has not been told of
    Unauthorised    \* whether the coordinator may come to refuse the worker's token

\* What the constants have to be.
Parameters == MaxTime \in Nat /\ Unauthorised \in BOOLEAN

\* Phases.NAMES
Names == {"memory_wait", "claim", "idle", "lease", "release", "before_hol", "hol", "after_hol",
          "exec", "complete"}

VARIABLES
    cooperates,     \* whether the worker has a --cooperate-dir, so that HOL children can be seen
    at,             \* what the main thread blocks in
    watch,          \* the stopwatch it runs: the time since started, or stepped
    seconds,        \* Phases.seconds
    report,         \* what take returned to the claim under way
    spans,          \* ExecSpans of the action
    raised,         \* whether an error in the worker is under way
    polls,          \* history: the steps of exec-action's time, [time, hol]
    due             \* history: the time each phase took, and what was put back though the
                    \* coordinator had it, less what the coordinator has

vars == <<cooperates, at, watch, seconds, report, spans, raised, polls, due>>

Zero == [n \in Names |-> 0]
Plus(f, g) == [n \in Names |-> f[n] + g[n]]
Only(name, time) == [Zero EXCEPT ![name] = time]
Total(f) == MapThenSumSet(LAMBDA n : f[n], Names)
NoSpans == [before_hol |-> 0, hol |-> 0, after_hol |-> 0]

\* main: the first thing is to wait for memory, or to claim.
Init ==
    /\ cooperates \in BOOLEAN /\ at = IF cooperates THEN "memory_wait" ELSE "claim"
    /\ watch = 0 /\ seconds = Zero /\ report = Zero /\ spans = NoSpans /\ raised = FALSE
    /\ polls = <<>> /\ due = Zero

\* The time of the steps of ps from the from-th to the to-th.
Span(ps, from, to) == MapThenSumSet(LAMBDA i : ps[i].time, from..to)

\* The phase that time spent at a place belongs to, as the README has it.
PhaseOf(place) == IF place \in {"take", "give_up"} THEN "lease" ELSE place

\* Time passes.  That of exec-action is divided once it has ended.
Tick ==
    /\ Total(due) + Span(polls, 1, Len(polls)) + watch < MaxTime
    /\ watch' = watch + 1
    /\ due' = IF at = "exec" THEN due ELSE Plus(due, Only(PhaseOf(at), 1))
    /\ UNCHANGED <<at, seconds, report, spans, raised, polls>>

\* Phases.timed(name) ends, with or without an exception, and the main thread goes on.
Timed(name, next) ==
    /\ seconds' = Plus(seconds, Only(name, watch))
    /\ watch' = 0 /\ at' = next

-----------------------------------------------------------------------------
(* claim_reporting *)

\* A wait is over and a claim is sent with what take returned.
Send(name) ==
    /\ report' = Plus(seconds, Only(name, watch)) /\ seconds' = Zero
    /\ watch' = 0 /\ at' = "claim"
    /\ UNCHANGED <<spans, raised, polls, due>>

\* wait_for_memory is over.
MemoryWaited == at = "memory_wait" /\ Send("memory_wait")

\* Back at the top of main's loop, after phase name.
Loop(name) ==
    IF cooperates
    THEN Timed(name, "memory_wait") /\ UNCHANGED <<report, spans, raised, polls, due>>
    ELSE Send(name)

\* The sleep after a claim got nothing, or after an action failed in the worker.
Slept == at = "idle" /\ Loop("idle")

\* report_phases: the coordinator counts the report before it looks for an action.
Received == due' = [n \in Names |-> due[n] - report[n]]

\* An action, or 204.
Claimed(next) ==
    /\ at = "claim"
    /\ Timed("claim", next) /\ Received /\ report' = Zero
    /\ UNCHANGED <<spans, raised, polls>>

\* Mutant: what any failed claim reported is put back.
RefusedPutBack(routed) ==
    /\ at = "claim" /\ (routed \/ Unauthorised)
    /\ seconds' = Plus(Plus(seconds, report), Only("claim", watch))
    /\ watch' = 0 /\ at' = "idle" /\ report' = Zero
    /\ IF routed THEN Received ELSE UNCHANGED due
    /\ UNCHANGED <<spans, raised, polls>>

\* An error status, ClaimRefused: after 500, as when the database is away, the
\* coordinator has the report; after 401 the request has not been routed to it.
Refused(routed) ==
    /\ at = "claim" /\ (routed \/ Unauthorised)
    /\ Timed("claim", "idle") /\ report' = Zero
    /\ IF routed THEN Received ELSE UNCHANGED due
    /\ UNCHANGED <<spans, raised, polls>>

\* No answer: the report is put back, whether the coordinator read it or not.  If it
\* did, it will have it twice.
Unanswered ==
    /\ at = "claim"
    /\ seconds' = Plus(Plus(seconds, report), Only("claim", watch))
    /\ watch' = 0 /\ at' = "idle" /\ report' = Zero
    /\ UNCHANGED <<spans, raised, polls, due>>

-----------------------------------------------------------------------------
(* run_one and execute *)

\* held: protection and the heartbeat thread.
Taken ==
    /\ at = "take"
    /\ Timed("lease", "release")
    /\ UNCHANGED <<report, spans, raised, polls, due>>

\* The action's release is found, the action refused, an error raised, or the lease
\* found lost.
Found(outcome) ==
    /\ at = "release"
    /\ Timed("release", CASE outcome = "found" -> "exec" [] outcome = "lost" -> "give_up"
                          [] OTHER -> "complete")
    /\ raised' = (outcome = "error")
    /\ UNCHANGED <<report, spans, polls, due>>

\* ExecSpans.step
Step(s, time, hol) ==
    CASE hol -> [s EXCEPT !.hol = @ + s.after_hol + time, !.after_hol = 0]
      [] ~hol /\ s.hol # 0 -> [s EXCEPT !.after_hol = @ + time]
      [] OTHER -> [s EXCEPT !.before_hol = @ + time]

\* The poll loop, after a wait of a second: runs_hol looks for a HOL child.
Poll(hol) ==
    /\ at = "exec" /\ cooperates /\ watch > 0
    /\ spans' = Step(spans, watch, hol)
    /\ polls' = Append(polls, [time |-> watch, hol |-> hol])
    /\ watch' = 0
    /\ UNCHANGED <<at, seconds, report, raised, due>>

\* The README's split of exec-action's time: from the first step that saw a HOL child
\* to the last one, and before and after them.
SplitOf(ps) ==
    LET seen == {i \in 1..Len(ps) : ps[i].hol}
    IN  IF seen = {} THEN Only("before_hol", Span(ps, 1, Len(ps)))
        ELSE [Zero EXCEPT !.before_hol = Span(ps, 1, Min(seen) - 1),
                          !.hol = Span(ps, Min(seen), Max(seen)),
                          !.after_hol = Span(ps, Max(seen) + 1, Len(ps))]

\* exec-action has ended, or is stopped as the lease is lost: the finally of execute.
\* It left a record, none (an error), or is not reported.
ExecEnds(outcome) ==
    /\ at = "exec"
    /\ LET last == Step(spans, watch, FALSE)
       IN  seconds' = IF cooperates
                      THEN [seconds EXCEPT !.before_hol = @ + last.before_hol, !.hol = @ + last.hol,
                                           !.after_hol = @ + last.after_hol]
                      ELSE Plus(seconds, Only("exec", watch))
    /\ due' = Plus(due, IF cooperates THEN SplitOf(Append(polls, [time |-> watch, hol |-> FALSE]))
                                        ELSE Only("exec", watch))
    /\ spans' = NoSpans /\ polls' = <<>> /\ watch' = 0
    /\ raised' = (outcome = "error")
    /\ at' = IF outcome = "lost" THEN "give_up" ELSE "complete"
    /\ UNCHANGED report

\* complete returns, or raises once the lease would have run out.
Completed(ok) ==
    /\ at = "complete"
    /\ Timed("complete", "give_up") /\ raised' = (raised \/ ~ok)
    /\ UNCHANGED <<report, spans, polls, due>>

\* The finally of held; after an error, main sleeps.
GivenUp ==
    /\ at = "give_up" /\ ~raised
    /\ Loop("lease")

GivenUpRaising ==
    /\ at = "give_up" /\ raised
    /\ Timed("lease", "idle") /\ raised' = FALSE
    /\ UNCHANGED <<report, spans, polls, due>>

Next ==
    /\ UNCHANGED cooperates
    /\ \/ Tick \/ MemoryWaited \/ Slept \/ Unanswered \/ Taken \/ GivenUp \/ GivenUpRaising
       \/ \E next \in {"take", "idle"} : Claimed(next)
       \/ \E routed \in BOOLEAN : Refused(routed)
       \/ \E outcome \in {"found", "rejected", "error", "lost"} : Found(outcome)
       \/ \E hol \in BOOLEAN : Poll(hol)
       \/ \E outcome \in {"record", "error", "lost"} : ExecEnds(outcome)
       \/ \E ok \in BOOLEAN : Completed(ok)

Spec == Init /\ [][Next]_vars

-----------------------------------------------------------------------------

\* The phases cover the worker's time ("Between them they cover its time"), each moment
\* in the phase it was spent in: whatever fails or is retried, what the worker has
\* counted, has sent and is counting is exactly what it did and the coordinator has not
\* been told, or may have missed.
TimeIsCovered ==
    Plus(Plus(seconds, report), IF at = "exec" THEN Zero ELSE Only(PhaseOf(at), watch)) = due
=============================================================================
