-------------------------- MODULE WorkerHostProofs --------------------------
(***************************************************************************)
(* Proofs about what runs on a worker's host: the worker's two threads     *)
(* (Worker), the installation of releases by any number of workers         *)
(* (ReleaseInstall), and the account a worker gives of its time, for       *)
(* exec-actions of any length (WorkerTime).                                *)
(***************************************************************************)
EXTENDS MCWorkerHost, Sequences, Sums

-----------------------------------------------------------------------------
(* Worker *)

\* holbuild runs only while execute is within its try, or after a SIGTERM that fell
\* outside it; with the signal it is waited for, unless the worker is leaving; and who
\* has a HOL child has not ended.
GroupIsGuarded ==
    /\ child = "runs" => main \in {"wait", "stop"} \/ unguarded
    /\ child = "stopping" => main = "reap" \/ exiting
    /\ hol => child # "none"

\* From held's first statement to its last.
Held ==
    main \in {"find", "launch", "wait", "stop", "reap", "report", "release", "join", "unprotect"}

\* While an action is held protection is on, was refused, or went unrenewed for as long
\* as it lasts.
HeldIsProtected == Held => protection = "on" \/ onFailed \/ missed + 1 >= Lapse

\* Protection is no older than the rounds that did not renew it, and the one under way.
RenewalsKeepUp ==
    Held /\ protection = "on" /\ ~onFailed =>
        age <= missed + (IF beat = "sleep" THEN 0 ELSE 1)

\* Between two actions it is off or could not be cleared.
IdleIsUnprotected == main \in {"claim", "pause"} => protection = "off" \/ offFailed

\* The inductive invariant.
WorkInv ==
    /\ Work!TypeOK
    /\ GroupIsGuarded
    /\ HeldIsProtected
    /\ RenewalsKeepUp
    /\ IdleIsUnprotected

\* One more round of a heartbeat is at most Lapse.
LEMMA OneMoreRound ==
    ASSUME NEW n \in 0..Lapse
    PROVE  /\ Work!OneMore(n) \in 0..Lapse
           /\ n <= Work!OneMore(n)
           /\ Work!OneMore(n) <= n + 1
           /\ Work!OneMore(n) = Lapse \/ Work!OneMore(n) = n + 1
BY ParametersAssumption DEF Work!Parameters, Work!OneMore

\* A step of held that leaves the agent and the heartbeat thread alone, or in which the
\* thread ends, leaves protection as current as it was.
LEMMA AgentUntouched ==
    ASSUME WorkInv, Held, UNCHANGED <<protection, onFailed, age, missed>>,
           beat' = beat \/ beat' # "sleep"
    PROVE  HeldIsProtected' /\ RenewalsKeepUp'
BY ParametersAssumption
   DEF Work!Parameters, WorkInv, Work!TypeOK, Held, HeldIsProtected, RenewalsKeepUp

\* What the main thread does keeps the invariant: the heartbeat thread has ended
\* whenever the main thread turns protection off.
LEMMA MainKeepsInv ==
    ASSUME WorkInv, Work!Main
    PROVE  WorkInv'
<1> USE DEF Work!MainPcs, Work!BeatPcs, Work!Records, Work!Beater, Work!Processes, Work!Agent,
            Work!Goto
<1>1. CASE Work!Claim
  BY <1>1 DEF WorkInv, Work!TypeOK, GroupIsGuarded, HeldIsProtected, RenewalsKeepUp, Held,
              IdleIsUnprotected, Work!Claim
<1>2. ASSUME NEW ok \in BOOLEAN, Work!Take(ok)
      PROVE  WorkInv'
  <2>1. age' \in 0..Lapse /\ missed' \in 0..Lapse /\ (ok => age' = 0)
    BY <1>2, ParametersAssumption DEF Work!Parameters, Work!Take
  <2>2. Work!TypeOK' /\ GroupIsGuarded' /\ IdleIsUnprotected'
    BY <1>2, <2>1 DEF WorkInv, Work!TypeOK, GroupIsGuarded, IdleIsUnprotected, Work!Take
  <2>3. ok => protection' = "on" /\ age' = 0 /\ missed' = 0
    BY <1>2, <2>1 DEF Work!Take
  <2>4. beat' = "sleep" /\ (~ok => onFailed')
    BY <1>2 DEF Work!Take
  <2>5. HeldIsProtected' /\ RenewalsKeepUp'
    <3>1. CASE ok
      <4>1. protection' = "on" /\ age' = 0 /\ missed' = 0
        BY <2>3, <3>1, Zenon
      <4>2. age' <= missed' + 0
        BY <4>1
      <4>3. QED
        BY <2>4, <4>1, <4>2, Zenon DEF HeldIsProtected, RenewalsKeepUp
    <3>2. CASE ~ok
      BY <2>4, <3>2, Zenon DEF HeldIsProtected, RenewalsKeepUp
    <3>3. QED
      BY <3>1, <3>2
  <2>6. QED
    BY <2>2, <2>5 DEF WorkInv
<1>3. ASSUME Held, Work!Main, ~(\E ok \in BOOLEAN : Work!Unprotect(ok))
      PROVE  WorkInv'
  <2>1. UNCHANGED <<protection, offFailed, onFailed, age, missed, beat>>
    BY <1>3 DEF Held, Work!Main, Work!Claim, Work!Take, Work!Find, Work!LaunchLost, Work!Launch,
       Work!Polled, Work!Stop, Work!Reap, Work!Completing, Work!Accepted, Work!Stale,
       Work!GiveUp, Work!Release, Work!Join, Work!Pause
  <2>2. HeldIsProtected' /\ RenewalsKeepUp'
    BY <1>3, <2>1, AgentUntouched
  <2>3. ASSUME NEW outcome \in {"found", "rejected", "unavailable", "internal"},
               Work!Find(outcome)
        PROVE  Work!TypeOK' /\ GroupIsGuarded' /\ IdleIsUnprotected'
    BY <2>1, <2>3 DEF WorkInv, Work!TypeOK, GroupIsGuarded, IdleIsUnprotected, Work!Find
  <2>4. CASE Work!LaunchLost \/ Work!Launch
    BY <2>1, <2>2, <2>4 DEF WorkInv, Work!TypeOK, GroupIsGuarded, IdleIsUnprotected,
       Work!LaunchLost, Work!Launch
  <2>5. ASSUME NEW res \in {"result", "internal"}, Work!Polled(res)
        PROVE  Work!TypeOK' /\ GroupIsGuarded' /\ IdleIsUnprotected'
    BY <2>1, <2>5 DEF WorkInv, Work!TypeOK, GroupIsGuarded, IdleIsUnprotected, Work!Polled
  <2>6. CASE Work!Stop \/ Work!Reap
    BY <2>1, <2>2, <2>6 DEF WorkInv, Work!TypeOK, GroupIsGuarded, IdleIsUnprotected,
       Work!Stop, Work!Reap, Work!AfterStop
  <2>7. CASE Work!Completing
    <3>1. ASSUME NEW answered \in BOOLEAN, Work!Accepted(answered)
          PROVE  Work!TypeOK' /\ GroupIsGuarded' /\ IdleIsUnprotected'
      BY <2>1, <3>1 DEF WorkInv, Work!TypeOK, GroupIsGuarded, IdleIsUnprotected, Work!Accepted
    <3>2. CASE Work!Stale
      BY <2>1, <2>2, <3>2 DEF WorkInv, Work!TypeOK, GroupIsGuarded, IdleIsUnprotected, Work!Stale
    <3>3. CASE Work!GiveUp
      BY <2>1, <2>2, <3>3 DEF WorkInv, Work!TypeOK, GroupIsGuarded, IdleIsUnprotected,
         Work!GiveUp
    <3>4. QED
      BY <2>2, <2>7, <3>1, <3>2, <3>3 DEF WorkInv, Work!Completing
  <2>8. CASE Work!Release \/ Work!Join
    <3>1. CASE Work!Release
      BY <2>1, <2>2, <3>1 DEF WorkInv, Work!TypeOK, GroupIsGuarded, IdleIsUnprotected,
         Work!Release
    <3>2. CASE Work!Join
      BY <2>1, <2>2, <3>2 DEF WorkInv, Work!TypeOK, GroupIsGuarded, IdleIsUnprotected, Work!Join
    <3>3. QED
      BY <2>8, <3>1, <3>2
  <2>9. QED
    BY <1>3, <2>2, <2>3, <2>4, <2>5, <2>6, <2>7, <2>8
       DEF WorkInv, Work!Main, Held, Work!Claim, Work!Take, Work!Pause
<1>4. ASSUME NEW ok \in BOOLEAN, Work!Unprotect(ok)
      PROVE  WorkInv'
  BY <1>4 DEF WorkInv, Work!TypeOK, GroupIsGuarded, HeldIsProtected, RenewalsKeepUp, Held,
              IdleIsUnprotected, Work!Unprotect
<1>5. CASE Work!Pause
  BY <1>5 DEF WorkInv, Work!TypeOK, GroupIsGuarded, HeldIsProtected, RenewalsKeepUp, Held,
              IdleIsUnprotected, Work!Pause
<1>6. CASE ~Held /\ ~(\E ok \in BOOLEAN : Work!Unprotect(ok))
  BY <1>1, <1>2, <1>5, <1>6 DEF Held, Work!Main, Work!Find, Work!LaunchLost, Work!Launch,
     Work!Polled, Work!Stop, Work!Reap, Work!Completing, Work!Accepted, Work!Stale,
     Work!GiveUp, Work!Release, Work!Join
<1>7. QED
  BY <1>3, <1>4, <1>6

\* So does what the heartbeat thread does, between any two steps of the main thread.
LEMMA BeatKeepsInv ==
    ASSUME WorkInv, Work!Beat
    PROVE  WorkInv'
<1> USE DEF Work!BeatPcs, Work!Processes, Work!Agent
<1>1. age \in 0..Lapse /\ missed \in 0..Lapse /\ Lapse \in Nat
  BY ParametersAssumption DEF Work!Parameters, WorkInv, Work!TypeOK
<1>2. Work!OneMore(age) \in 0..Lapse /\ Work!OneMore(missed) \in 0..Lapse
  BY <1>1, OneMoreRound
<1>3. UNCHANGED <<main, child, hol, orphan, exiting, unguarded, offFailed>>
  BY DEF Work!Beat, Work!BeatWakes, Work!BeatAnswered, Work!BeatFails, Work!BeatRenews
<1>4. GroupIsGuarded'
  BY <1>3 DEF WorkInv, GroupIsGuarded
<1>5. CASE Work!BeatWakes
  <2>1. Work!TypeOK' /\ IdleIsUnprotected'
    BY <1>1, <1>2, <1>5 DEF WorkInv, Work!TypeOK, IdleIsUnprotected, Work!BeatWakes
  <2>2. UNCHANGED <<missed, protection, onFailed>> /\ beat = "sleep" /\ beat' # "sleep"
    BY <1>5 DEF Work!BeatWakes
  <2>3. age' = age \/ age' <= age + 1
    BY <1>1, <1>5, OneMoreRound DEF Work!BeatWakes
  <2>4. age' \in 0..Lapse
    BY <2>1 DEF Work!TypeOK
  <2>5. HeldIsProtected' /\ RenewalsKeepUp'
    BY <1>1, <1>3, <2>2, <2>3, <2>4 DEF WorkInv, HeldIsProtected, RenewalsKeepUp, Held
  <2>6. QED
    BY <1>4, <2>1, <2>5 DEF WorkInv
<1>6. CASE Work!BeatAnswered
  <2>1. Work!TypeOK' /\ IdleIsUnprotected'
    BY <1>6 DEF WorkInv, Work!TypeOK, IdleIsUnprotected, Work!BeatAnswered
  <2>2. UNCHANGED <<age, missed, protection, onFailed>> /\ beat' # "sleep"
    BY <1>6 DEF Work!BeatAnswered
  <2>3. HeldIsProtected' /\ RenewalsKeepUp'
    BY <1>3, <2>2, AgentUntouched DEF Held, HeldIsProtected, RenewalsKeepUp
  <2>4. QED
    BY <1>4, <2>1, <2>3 DEF WorkInv
<1>7. ASSUME missed' = Work!OneMore(missed), UNCHANGED <<age, protection, onFailed>>,
             beat' = "sleep"
      PROVE  HeldIsProtected' /\ RenewalsKeepUp'
  <2>1. missed' \in 0..Lapse /\ missed' >= missed /\ (missed' = Lapse \/ missed' = missed + 1)
    BY <1>1, <1>7, OneMoreRound
  <2>2. QED
    BY <1>1, <1>3, <1>7, <2>1 DEF WorkInv, HeldIsProtected, RenewalsKeepUp, Held
<1>8. CASE Work!BeatFails
  <2>1. Work!TypeOK' /\ IdleIsUnprotected'
    BY <1>2, <1>8 DEF WorkInv, Work!TypeOK, IdleIsUnprotected, Work!BeatFails
  <2>2. QED
    BY <1>4, <1>7, <1>8, <2>1 DEF WorkInv, Work!BeatFails
<1>9. ASSUME NEW ok \in BOOLEAN, Work!BeatRenews(ok)
      PROVE  WorkInv'
  <2>1. Work!TypeOK' /\ IdleIsUnprotected'
    <3>1. age' \in 0..Lapse /\ missed' \in 0..Lapse
      BY <1>1, <1>2, <1>9 DEF Work!BeatRenews
    <3>2. QED
      BY <1>9, <3>1 DEF WorkInv, Work!TypeOK, IdleIsUnprotected, Work!BeatRenews
  <2>2. CASE ok
    <3>1. protection' = "on" /\ age' = 0 /\ missed' = 0
      BY <1>9, <2>2 DEF Work!BeatRenews
    <3>2. HeldIsProtected' /\ RenewalsKeepUp'
      BY <3>1 DEF HeldIsProtected, RenewalsKeepUp
    <3>3. QED
      BY <1>4, <2>1, <3>2 DEF WorkInv
  <2>3. CASE ~ok
    BY <1>4, <1>7, <1>9, <2>1, <2>3 DEF WorkInv, Work!BeatRenews
  <2>4. QED
    BY <2>2, <2>3
<1>10. QED
  BY <1>5, <1>6, <1>8, <1>9 DEF Work!Beat

\* Every step of the worker keeps the invariant.
LEMMA WorkStep ==
    ASSUME WorkInv, [Work!Next]_Work!vars
    PROVE  WorkInv'
<1> USE DEF Work!MainPcs, Work!BeatPcs, Work!Records, Work!Beater, Work!Processes, Work!Agent,
            Work!Goto
<1>1. CASE Work!Terminate
  <2>1. Work!TypeOK' /\ GroupIsGuarded' /\ IdleIsUnprotected'
    BY <1>1 DEF WorkInv, Work!TypeOK, GroupIsGuarded, IdleIsUnprotected, Work!Terminate
  <2>2. CASE ~Held'
    BY <2>1, <2>2 DEF WorkInv, HeldIsProtected, RenewalsKeepUp
  <2>3. CASE Held'
    BY <1>1, <2>1, <2>3, AgentUntouched DEF WorkInv, Held, Work!Terminate
  <2>4. QED
    BY <2>2, <2>3
<1>2. CASE Work!TerminateUnguarded
  <2>1. Work!TypeOK' /\ GroupIsGuarded' /\ IdleIsUnprotected'
    BY <1>2 DEF WorkInv, Work!TypeOK, GroupIsGuarded, IdleIsUnprotected, Work!TerminateUnguarded
  <2>2. QED
    BY <1>2, <2>1, AgentUntouched DEF WorkInv, Held, Work!TerminateUnguarded
<1>3. CASE Work!Revoke \/ Work!HolStarts \/ Work!HolEnds \/ Work!ChildEnds \/ Work!WatchEnds
           \/ UNCHANGED Work!vars
  <2>1. Work!TypeOK' /\ GroupIsGuarded' /\ IdleIsUnprotected'
    <3>1. CASE Work!Revoke
      BY <3>1 DEF WorkInv, Work!TypeOK, GroupIsGuarded, IdleIsUnprotected, Work!Revoke
    <3>2. CASE Work!HolStarts
      BY <3>2 DEF WorkInv, Work!TypeOK, GroupIsGuarded, IdleIsUnprotected, Work!HolStarts
    <3>3. CASE Work!HolEnds
      <4>1. Work!TypeOK'
        BY <3>3 DEF WorkInv, Work!TypeOK, Work!HolEnds
      <4>2. QED
        BY <3>3, <4>1, Zenon DEF WorkInv, GroupIsGuarded, IdleIsUnprotected, Work!HolEnds
    <3>4. CASE Work!ChildEnds
      BY <3>4 DEF WorkInv, Work!TypeOK, GroupIsGuarded, IdleIsUnprotected, Work!ChildEnds
    <3>5. CASE Work!WatchEnds
      <4>1. Work!TypeOK'
        BY <3>5 DEF WorkInv, Work!TypeOK, Work!WatchEnds
      <4>2. QED
        BY <3>5, <4>1, Zenon DEF WorkInv, GroupIsGuarded, IdleIsUnprotected, Work!WatchEnds
    <3>6. CASE UNCHANGED Work!vars
      BY <3>6 DEF WorkInv, Work!TypeOK, GroupIsGuarded, IdleIsUnprotected, Work!vars
    <3>7. QED
      BY <1>3, <3>1, <3>2, <3>3, <3>4, <3>5, <3>6
  <2>2. UNCHANGED <<main, beat, protection, onFailed, age, missed>>
    BY <1>3 DEF Work!Revoke, Work!HolStarts, Work!HolEnds, Work!ChildEnds, Work!WatchEnds,
       Work!vars
  <2>3. HeldIsProtected' /\ RenewalsKeepUp'
    BY <2>2, AgentUntouched DEF Held, HeldIsProtected, RenewalsKeepUp
  <2>4. QED
    BY <2>1, <2>3 DEF WorkInv
<1>4. CASE Work!ProtectionLapses
  <2>1. Work!TypeOK' /\ GroupIsGuarded' /\ IdleIsUnprotected'
    BY <1>4 DEF WorkInv, Work!TypeOK, GroupIsGuarded, IdleIsUnprotected, Work!ProtectionLapses
  <2>2. protection' = "off" /\ UNCHANGED <<onFailed, missed, main>>
    BY <1>4 DEF Work!ProtectionLapses
  <2>3. Held /\ ~onFailed => missed + 1 >= Lapse
    BY <1>4, ParametersAssumption
       DEF WorkInv, Work!TypeOK, RenewalsKeepUp, Held, Work!Parameters, Work!ProtectionLapses
  <2>4. HeldIsProtected' /\ RenewalsKeepUp'
    BY <2>2, <2>3 DEF Held, HeldIsProtected, RenewalsKeepUp
  <2>5. QED
    BY <2>1, <2>4 DEF WorkInv
<1>5. QED
  BY <1>1, <1>2, <1>3, <1>4, MainKeepsInv, BeatKeepsInv DEF Work!Next

\* The invariant holds of every behaviour of the worker.
LEMMA WorkInvariant == Work!Spec => []WorkInv
<1>1. ASSUME Work!Init
      PROVE  WorkInv
  <2>1. age \in 0..Lapse /\ missed \in 0..Lapse
    BY <1>1, ParametersAssumption DEF Work!Parameters, Work!Init
  <2>2. Work!TypeOK
    BY <1>1, <2>1 DEF Work!Init, Work!TypeOK, Work!MainPcs, Work!BeatPcs, Work!Records
  <2>3. QED
    BY <1>1, <2>2 DEF Work!Init, WorkInv, GroupIsGuarded, HeldIsProtected, RenewalsKeepUp, Held,
       IdleIsUnprotected
<1>2. WorkInv /\ [Work!Next]_Work!vars => WorkInv'
  BY WorkStep
<1>3. QED
  BY <1>1, <1>2, PTL DEF Work!Spec

\* execute: wherever its try covers it, a SIGTERM, a lost lease or an error leaves no
\* holbuild running unsignalled once the worker is past the action, and none at all
\* when it reports or claims again.
THEOREM WorkerLeavesNothingRunning == Work!Spec => []NothingLeftRunning
<1>1. WorkInv => NothingLeftRunning
  BY DEF WorkInv, Work!TypeOK, GroupIsGuarded, NothingLeftRunning, Work!NothingLeftRunning,
     Work!Past
<1>2. QED
  BY <1>1, WorkInvariant, PTL

\* held, Protection.set: protection is on while an action runs, unless it was refused or
\* went without renewal for as long as it lasts, and off while the worker claims, however
\* the heartbeat thread falls between the main thread's steps.
THEOREM WorkerProtectsItsWork == Work!Spec => []ProtectionMatchesWork
<1>1. WorkInv => ProtectionMatchesWork
  BY DEF WorkInv, GroupIsGuarded, HeldIsProtected, Held, IdleIsUnprotected,
     ProtectionMatchesWork, Work!ProtectionMatchesWork
<1>2. QED
  BY <1>1, WorkInvariant, PTL

-----------------------------------------------------------------------------
(* ReleaseInstall *)

\* A stamp is only in a directory that is wholly built.
StampedIsBuilt == complete => dir = "built"

\* Whoever builds, builds what is not stamped: the stamp was looked for under the lock.
BuilderFoundNoStamp == \A w \in Workers : pc[w] \in Install!Building => ~complete

\* The stamp comes after the build.
StampFollowsBuild == \A w \in Workers : pc[w] = "stamp" => dir = "built"

\* A release that is used has its stamp.
UsedIsStamped == \A w \in Workers : pc[w] \in {"unlock", "runs"} => complete

\* The inductive invariant.
InstallInv ==
    /\ Install!TypeOK
    /\ StampedIsBuilt
    /\ BuilderFoundNoStamp
    /\ StampFollowsBuild
    /\ UsedIsStamped

\* Every step of an installation keeps the invariant.
LEMMA InstallStep ==
    ASSUME Install!Parameters, InstallInv, [Install!Next]_Install!vars
    PROVE  InstallInv'
<1> USE DEF Install!Parameters, InstallInv, Install!TypeOK, Install!Pcs, Install!Building,
            StampedIsBuilt, BuilderFoundNoStamp, StampFollowsBuild, UsedIsStamped
<1>1. ASSUME NEW w \in Workers, Install!UseInstalled(w) \/ Install!OpenLock(w)
      PROVE  InstallInv'
  BY <1>1 DEF Install!UseInstalled, Install!OpenLock, Install!Step
<1>2. ASSUME NEW w \in Workers, Install!Lock(w)
      PROVE  InstallInv'
  BY <1>2 DEF Install!Lock, Install!Step
<1>3. ASSUME NEW w \in Workers, Install!Build(w)
      PROVE  InstallInv'
  <2>1. CASE Install!Recheck(w)
    BY <2>1 DEF Install!Recheck, Install!Step
  <2>2. CASE Install!Clear(w)
    BY <2>2 DEF Install!Clear, Install!Step
  <2>3. CASE Install!Fetch(w)
    BY <2>3 DEF Install!Fetch
  <2>4. CASE Install!Place(w)
    BY <2>4 DEF Install!Place, Install!Step
  <2>5. ASSUME NEW ok \in BOOLEAN, Install!Make(w, ok)
        PROVE  InstallInv'
    BY <2>5 DEF Install!Make, Install!Step
  <2>6. CASE Install!Stamp(w)
    BY <2>6 DEF Install!Stamp, Install!Step
  <2>7. CASE Install!Unlock(w)
    BY <2>7 DEF Install!Unlock, Install!Step
  <2>8. QED
    BY <1>3, <2>1, <2>2, <2>3, <2>4, <2>5, <2>6, <2>7 DEF Install!Build
<1>4. ASSUME NEW w \in Workers, Install!Again(w) \/ Install!Kill(w)
      PROVE  InstallInv'
  BY <1>4 DEF Install!Again, Install!Kill
<1>5. ASSUME NEW s \in {"yes", "no", "error"}, Install!SourceChanges(s)
      PROVE  InstallInv'
  BY <1>5 DEF Install!SourceChanges
<1>6. CASE UNCHANGED Install!vars
  BY <1>6 DEF Install!vars
<1>7. QED
  BY <1>1, <1>2, <1>3, <1>4, <1>5, <1>6 DEF Install!Next

\* Releases.holbuild: with any number of workers, killed at any step, an action runs
\* only on a release that is wholly built and stays so.
THEOREM ReleasesAreCompleteWhenRun ==
    ASSUME Install!Parameters
    PROVE  Install!Spec => []RunsOnCompleteRelease
<1>1. Install!Init => InstallInv
  BY DEF Install!Parameters, Install!Init, InstallInv, Install!TypeOK, Install!Pcs,
     Install!Building,
         StampedIsBuilt, BuilderFoundNoStamp, StampFollowsBuild, UsedIsStamped
<1>2. InstallInv /\ [Install!Next]_Install!vars => InstallInv'
  BY InstallStep
<1>3. InstallInv => RunsOnCompleteRelease
  BY DEF InstallInv, StampedIsBuilt, UsedIsStamped, RunsOnCompleteRelease,
     Install!RunsOnCompleteRelease
<1>4. QED
  BY <1>1, <1>2, <1>3, PTL DEF Install!Spec

-----------------------------------------------------------------------------
(* WorkerTime *)

\* A step of exec-action's time, and the steps that saw a HOL child.
PollSteps == [time : Nat, hol : BOOLEAN]
Spans == [before_hol : Nat, hol : Nat, after_hol : Nat]
SawHol(ps) == {i \in 1..Len(ps) : ps[i].hol}
Times(ps) == [i \in 1..Len(ps) |-> ps[i].time]
Took(ps, from, to) == SumOf(Times(ps), from..to)

\* s is the README's split of the steps ps, with the first and the last step that saw a
\* HOL child, if one did.
Splits(s, ps) ==
    /\ s \in Spans
    /\ \/ /\ SawHol(ps) = {}
          /\ s.before_hol = SumOf(Times(ps), 1..Len(ps)) /\ s.hol = 0 /\ s.after_hol = 0
       \/ \E first, last \in SawHol(ps) :
             /\ \A i \in SawHol(ps) : first <= i /\ i <= last
             /\ s.before_hol = SumOf(Times(ps), 1..(first - 1))
             /\ s.hol = SumOf(Times(ps), first..last)
             /\ s.after_hol = SumOf(Times(ps), (last + 1)..Len(ps))

\* What Span adds up.
LEMMA SpanIsSum ==
    ASSUME NEW ps \in Seq(PollSteps), NEW from \in Nat \ {0}, NEW to \in Int, to <= Len(ps)
    PROVE  Time!Span(ps, from, to) = SumOf(Times(ps), from..to) /\ SumOf(Times(ps), from..to) \in Nat
<1> DEFINE S == from..to
           f == Times(ps)
           Adds(g) == g = [s \in SUBSET S |->
                             IF s = {} THEN 0
                             ELSE ps[CHOOSE e \in s : TRUE].time + g[s \ {CHOOSE e \in s : TRUE}]]
<1>1. IsFiniteSet(S) /\ S \subseteq 1..Len(ps)
  BY FS_Interval
<1>2. \A e \in S : f[e] = ps[e].time /\ f[e] \in Nat
  <2> SUFFICES ASSUME NEW e \in S PROVE f[e] = ps[e].time /\ f[e] \in Nat
    OBVIOUS
  <2>1. e \in 1..Len(ps)
    BY <1>1
  <2>2. ps[e] \in PollSteps
    BY <2>1
  <2>3. QED
    BY <2>1, <2>2 DEF Times, PollSteps
<1>3. ASSUME NEW g PROVE Adds(g) <=> AddsUp(g, f, S)
  <2>1. ASSUME NEW s \in SUBSET S, s # {} PROVE f[CHOOSE e \in s : TRUE] = ps[CHOOSE e \in s : TRUE].time
    BY <1>2, <2>1
  <2> HIDE DEF f, S
  <2>2. QED
    BY <2>1 DEF AddsUp
<1>4. AddsUp([s \in SUBSET S |-> SumOf(f, s)], f, S)
  BY <1>1, <1>2, SumAddsUp
<1> DEFINE h == CHOOSE g : Adds(g)
<1>5. Adds(h)
  <2> HIDE DEF Adds
  <2>1. QED
    BY <1>3, <1>4
<1>6. Time!Span(ps, from, to) = h[S]
  BY DEF Time!Span, Time!MapThenSumSet, Time!MapThenFoldSet
<1> HIDE DEF h, Adds, f, S
<1>7. h[S] = SumOf(f, S)
  <2>1. AddsUp(h, f, S)
    BY <1>3, <1>5
  <2>2. S \in SUBSET S /\ (\A e \in S : f[e] \in Nat) /\ IsFiniteSet(S)
    BY <1>1, <1>2
  <2>3. QED
    BY <2>1, <2>2, AddedUpIsSum
<1>8. SumOf(f, S) \in Nat
  BY <1>1, <1>2, SumIsNatural
<1>9. QED
  BY <1>6, <1>7, <1>8 DEF f, S

\* Times of adjoining steps add up.
LEMMA TimesAddUp ==
    ASSUME NEW ps \in Seq(PollSteps), NEW from \in Nat \ {0}, NEW mid \in Int, NEW to \in Int,
           from <= mid + 1, mid <= to, to <= Len(ps)
    PROVE  SumOf(Times(ps), from..to) = SumOf(Times(ps), from..mid) + SumOf(Times(ps), (mid + 1)..to)
<1>1. IsFiniteSet(1..Len(ps)) /\ \A e \in 1..Len(ps) : Times(ps)[e] \in Nat
  <2>1. ASSUME NEW e \in 1..Len(ps) PROVE Times(ps)[e] \in Nat
    <3>1. ps[e] \in PollSteps
      OBVIOUS
    <3>2. QED
      BY <3>1 DEF Times, PollSteps
  <2>2. QED
    BY <2>1, FS_Interval
<1>2. /\ from..to = (from..mid) \cup ((mid + 1)..to) /\ (from..mid) \cap ((mid + 1)..to) = {}
      /\ from..mid \in SUBSET (1..Len(ps)) /\ (mid + 1)..to \in SUBSET (1..Len(ps))
  OBVIOUS
<1> DEFINE A == from..mid
           B == (mid + 1)..to
           All == 1..Len(ps)
           f == Times(ps)
<1>3. IsFiniteSet(All) /\ (\A e \in All : f[e] \in Nat) /\ A \in SUBSET All /\ B \in SUBSET All
      /\ A \cap B = {}
  BY <1>1, <1>2
<1>4. from..to = A \cup B
  BY <1>2
<1> HIDE DEF A, B, All, f
<1>5. SumOf(f, A \cup B) = SumOf(f, A) + SumOf(f, B)
  BY <1>3, SumOfTwoParts
<1>6. QED
  BY <1>4, <1>5, Zenon DEF A, B, f

\* One step more, after the others.
LEMMA OneStepMore ==
    ASSUME NEW ps \in Seq(PollSteps), NEW p \in PollSteps
    PROVE  /\ Append(ps, p) \in Seq(PollSteps) /\ Len(Append(ps, p)) = Len(ps) + 1
           /\ \A from \in Nat \ {0} : \A to \in Int : to <= Len(ps) =>
                SumOf(Times(Append(ps, p)), from..to) = SumOf(Times(ps), from..to)
           /\ SumOf(Times(Append(ps, p)), (Len(ps) + 1)..(Len(ps) + 1)) = p.time
           /\ SumOf(Times(Append(ps, p)), (Len(ps) + 2)..(Len(ps) + 1)) = 0
           /\ SawHol(Append(ps, p)) = IF p.hol THEN SawHol(ps) \cup {Len(ps) + 1} ELSE SawHol(ps)
<1> DEFINE qs == Append(ps, p)
           n == Len(ps)
<1>1. qs \in Seq(PollSteps) /\ Len(qs) = n + 1 /\ n \in Nat /\ qs[n + 1] = p
      /\ \A i \in 1..n : qs[i] = ps[i]
  OBVIOUS
<1>2. ASSUME NEW from \in Nat \ {0}, NEW to \in Int, to <= n
      PROVE  SumOf(Times(qs), from..to) = SumOf(Times(ps), from..to)
  <2>1. \A e \in from..to : Times(qs)[e] = Times(ps)[e]
    BY <1>1, <1>2 DEF Times
  <2>2. QED
    BY <2>1, SumOfSame
<1>3. SumOf(Times(qs), (n + 1)..(n + 1)) = p.time
  <2>1. (n + 1)..(n + 1) = {n + 1}
    BY <1>1
  <2>2. Times(qs)[n + 1] = p.time /\ p.time \in Nat
    BY <1>1 DEF Times, PollSteps
  <2>3. SumOf(Times(qs), {n + 1}) = p.time
    BY <2>2, SumOfOne
  <2>4. QED
    BY <2>1, <2>3, Zenon
<1>4. SumOf(Times(qs), (n + 2)..(n + 1)) = 0
  <2>1. (n + 2)..(n + 1) = {}
    BY <1>1
  <2>2. QED
    BY <2>1, SumOfNothing
<1>5. SawHol(qs) = IF p.hol THEN SawHol(ps) \cup {n + 1} ELSE SawHol(ps)
  BY <1>1 DEF SawHol
<1>6. QED
  BY <1>1, <1>2, <1>3, <1>4, <1>5

\* Before any step there is nothing to split.
LEMMA NothingSplits == <<>> \in Seq(PollSteps) /\ Splits(Time!NoSpans, <<>>)
<1>1. SawHol(<<>>) = {} /\ 1..Len(<<>>) = {}
  BY DEF SawHol
<1>2. SumOf(Times(<<>>), 1..Len(<<>>)) = 0
  BY <1>1, SumOfNothing
<1>3. QED
  BY <1>1, <1>2 DEF Splits, Spans, Time!NoSpans

\* A sum of times is a time.
LEMMA TimesType ==
    ASSUME NEW ps \in Seq(PollSteps), NEW from \in Nat \ {0}, NEW to \in Int, to <= Len(ps)
    PROVE  SumOf(Times(ps), from..to) \in Nat
  BY SpanIsSum

\* What ExecSpans.step makes of a step that saw a HOL child (what looked like time after
\* HOL was HOL's), of one that saw none after one that did, and of one before.
LEMMA StepFields ==
    ASSUME NEW s \in Spans, NEW w \in Nat
    PROVE  /\ Time!Step(s, w, TRUE) =
                [before_hol |-> s.before_hol, hol |-> s.hol + s.after_hol + w, after_hol |-> 0]
           /\ s.hol # 0 => Time!Step(s, w, FALSE) =
                [before_hol |-> s.before_hol, hol |-> s.hol, after_hol |-> s.after_hol + w]
           /\ s.hol = 0 => Time!Step(s, w, FALSE) =
                [before_hol |-> s.before_hol + w, hol |-> s.hol, after_hol |-> s.after_hol]
<1>1. Time!Step(s, w, TRUE) = [s EXCEPT !.hol = s.hol + s.after_hol + w, !.after_hol = 0]
  BY DEF Time!Step, Spans
<1>2. s.hol # 0 => Time!Step(s, w, FALSE) = [s EXCEPT !.after_hol = s.after_hol + w]
  BY DEF Time!Step, Spans
<1>3. s.hol = 0 => Time!Step(s, w, FALSE) = [s EXCEPT !.before_hol = s.before_hol + w]
  BY DEF Time!Step, Spans
<1>4. QED
  BY <1>1, <1>2, <1>3 DEF Spans

\* The last step's time is added to that of those before it.
LEMMA LastStepAdds ==
    ASSUME NEW n \in Nat, NEW qs \in Seq(PollSteps), Len(qs) = n + 1,
           NEW from \in Nat \ {0}, from <= n + 1
    PROVE  /\ Took(qs, from, n + 1) = Took(qs, from, n) + Took(qs, n + 1, n + 1)
           /\ Took(qs, from, n) \in Nat
<1>1. n <= n + 1 /\ n + 1 <= Len(qs) /\ n \in Int /\ n + 1 \in Int /\ n <= Len(qs)
  OBVIOUS
<1>2. QED
  BY <1>1, TimesAddUp, TimesType DEF Took

\* ExecSpans.step keeps the split, as long as every step takes time: hol is 0 until a step
\* has seen a HOL child.
LEMMA StepSplits ==
    ASSUME NEW ps \in Seq(PollSteps), \A i \in 1..Len(ps) : ps[i].time > 0, NEW s, Splits(s, ps),
           NEW w \in Nat, NEW h \in BOOLEAN, NEW p, p = [time |-> w, hol |-> h],
           NEW qs, qs = Append(ps, p), NEW n, n = Len(ps), NEW t,
           h => t = [before_hol |-> s.before_hol, hol |-> s.hol + s.after_hol + w, after_hol |-> 0],
           ~h /\ s.hol # 0 =>
             t = [before_hol |-> s.before_hol, hol |-> s.hol, after_hol |-> s.after_hol + w],
           ~h /\ s.hol = 0 =>
             t = [before_hol |-> s.before_hol + w, hol |-> s.hol, after_hol |-> s.after_hol]
    PROVE  Splits(t, qs)
<1>1. p \in PollSteps /\ p.time = w /\ p.hol = h /\ n \in Nat
  BY DEF PollSteps
<1>2. /\ qs \in Seq(PollSteps) /\ Len(qs) = n + 1
      /\ Took(qs, n + 1, n + 1) = w /\ Took(qs, n + 2, n + 1) = 0
      /\ h => SawHol(qs) = SawHol(ps) \cup {n + 1}
      /\ ~h => SawHol(qs) = SawHol(ps)
  BY <1>1, OneStepMore DEF Took
<1>3. \A from \in Nat \ {0} : \A to \in Int : to <= n => SumOf(Times(ps), from..to) = Took(qs, from, to)
  BY <1>1, OneStepMore DEF Took
<1>4. SawHol(ps) \subseteq 1..n
  BY DEF SawHol
<1>5. ASSUME NEW from \in Nat \ {0}, NEW mid \in Int, NEW to \in Int,
             from <= mid + 1, mid <= to, to <= n + 1
      PROVE  /\ Took(qs, from, to) = Took(qs, from, mid) + Took(qs, mid + 1, to)
             /\ Took(qs, from, mid) \in Nat /\ Took(qs, mid + 1, to) \in Nat
  <2>1. to <= Len(qs) /\ mid <= Len(qs) /\ mid + 1 \in Nat \ {0}
    BY <1>1, <1>2, <1>5
  <2>2. QED
    BY <1>2, <1>5, <2>1, TimesAddUp, TimesType DEF Took
<1>6. ASSUME NEW i \in 1..n PROVE Took(qs, i, i) \in Nat /\ Took(qs, i, i) > 0
  <2>1. ps[i] \in PollSteps /\ ps[i].time > 0 /\ qs[i] = ps[i] /\ i \in 1..Len(qs)
    BY <1>1
  <2>2. Times(qs)[i] = ps[i].time /\ ps[i].time \in Nat
    BY <2>1 DEF Times, PollSteps
  <2>3. SumOf(Times(qs), {i}) = ps[i].time
    BY <2>2, SumOfOne
  <2>4. i..i = {i}
    OBVIOUS
  <2>5. Took(qs, i, i) = ps[i].time
    BY <2>3, <2>4, Zenon DEF Took
  <2>6. QED
    BY <2>1, <2>2, <2>5
<1>7. s \in Spans
  BY DEF Splits
<1>8. /\ s \in Spans
      /\ \/ SawHol(ps) = {} /\ s.before_hol = Took(qs, 1, n) /\ s.hol = 0 /\ s.after_hol = 0
         \/ \E first, last \in SawHol(ps) :
               /\ \A i \in SawHol(ps) : first <= i /\ i <= last
               /\ s.before_hol = Took(qs, 1, first - 1) /\ s.hol = Took(qs, first, last)
               /\ s.after_hol = Took(qs, last + 1, n)
  <2>1. s \in Spans
    BY DEF Splits
  <2>2. CASE SawHol(ps) = {}
    <3>1. s.before_hol = SumOf(Times(ps), 1..n) /\ s.hol = 0 /\ s.after_hol = 0
      BY <2>2 DEF Splits
    <3>2. SumOf(Times(ps), 1..n) = Took(qs, 1, n)
      BY <1>1, <1>3
    <3>3. QED
      BY <2>1, <2>2, <3>1, <3>2
  <2>3. CASE SawHol(ps) # {}
    <3>1. PICK first \in SawHol(ps), last \in SawHol(ps) :
             /\ \A i \in SawHol(ps) : first <= i /\ i <= last
             /\ s.before_hol = SumOf(Times(ps), 1..(first - 1))
             /\ s.hol = SumOf(Times(ps), first..last)
             /\ s.after_hol = SumOf(Times(ps), (last + 1)..n)
      BY <2>3 DEF Splits
    <3>2. first \in 1..n /\ last \in 1..n /\ first - 1 \in Int /\ last + 1 \in Nat \ {0} /\ first - 1 <= n
      BY <1>1, <1>4
    <3>3. /\ SumOf(Times(ps), 1..(first - 1)) = Took(qs, 1, first - 1)
          /\ SumOf(Times(ps), first..last) = Took(qs, first, last)
          /\ SumOf(Times(ps), (last + 1)..n) = Took(qs, last + 1, n)
      BY <1>1, <1>3, <3>2
    <3>4. QED
      BY <2>1, <3>1, <3>3
  <2>4. QED
    BY <2>2, <2>3
<1>9. SUFFICES /\ t \in Spans
               /\ \/ SawHol(qs) = {} /\ t.before_hol = Took(qs, 1, n + 1) /\ t.hol = 0 /\ t.after_hol = 0
                  \/ \E first, last \in SawHol(qs) :
                        /\ \A i \in SawHol(qs) : first <= i /\ i <= last
                        /\ t.before_hol = Took(qs, 1, first - 1) /\ t.hol = Took(qs, first, last)
                        /\ t.after_hol = Took(qs, last + 1, n + 1)
  <2>1. Len(qs) = n + 1
    BY <1>2
  <2>2. QED
    BY <2>1 DEF Splits, Took
<1>10. CASE SawHol(ps) = {}
  <2>1. s.before_hol = Took(qs, 1, n) /\ s.hol = 0 /\ s.after_hol = 0
    BY <1>8, <1>10
  <2>2. CASE h
    <3>1. t.before_hol = s.before_hol /\ t.hol = w /\ t.after_hol = 0
          /\ t \in Spans
      <4>1. t = [before_hol |-> s.before_hol, hol |-> s.hol + s.after_hol + w, after_hol |-> 0]
        BY <2>2, Zenon
      <4>2. QED
        BY <1>7, <2>1, <4>1 DEF Spans
    <3>2. SawHol(qs) = SawHol(ps) \cup {n + 1}
      BY <1>2, <2>2, Zenon
    <3>3. SawHol(qs) = {n + 1} /\ (n + 1) - 1 = n /\ (n + 1) + 1 = n + 2
      BY <1>1, <1>10, <3>2
    <3>4. n + 1 \in SawHol(qs) /\ \A i \in SawHol(qs) : n + 1 <= i /\ i <= n + 1
      BY <1>1, <3>3
    <3>5. t.before_hol = Took(qs, 1, (n + 1) - 1) /\ t.hol = Took(qs, n + 1, n + 1)
          /\ t.after_hol = Took(qs, (n + 1) + 1, n + 1)
      BY <1>2, <2>1, <3>1, <3>3
    <3>6. QED
      BY <3>1, <3>4, <3>5
  <2>3. CASE ~h
    <3>1. t.before_hol = s.before_hol + w /\ t.hol = 0 /\ t.after_hol = 0
          /\ t \in Spans
      <4>1. t = [before_hol |-> s.before_hol + w, hol |-> s.hol, after_hol |-> s.after_hol]
        BY <2>1, <2>3, Zenon
      <4>2. QED
        BY <1>7, <2>1, <4>1 DEF Spans
    <3>2. Took(qs, 1, n + 1) = Took(qs, 1, n) + Took(qs, n + 1, n + 1)
      <4>1. 1 \in Nat \ {0} /\ 1 <= n + 1
        BY <1>1
      <4>2. QED
        BY <1>1, <1>2, <4>1, LastStepAdds
    <3>3. QED
      BY <1>2, <1>10, <2>1, <2>3, <3>1, <3>2
  <2>4. QED
    BY <2>2, <2>3
<1>11. CASE SawHol(ps) # {}
  <2>1. PICK first \in SawHol(ps), last \in SawHol(ps) :
             /\ \A i \in SawHol(ps) : first <= i /\ i <= last
             /\ s.before_hol = Took(qs, 1, first - 1) /\ s.hol = Took(qs, first, last)
             /\ s.after_hol = Took(qs, last + 1, n)
    BY <1>8, <1>11
  <2>2. first \in 1..n /\ last \in 1..n /\ first <= last /\ n \in Nat
    BY <1>1, <1>4, <2>1
  <2>3. s.hol # 0
    <3>1. Took(qs, first, last) = Took(qs, first, first) + Took(qs, first + 1, last)
          /\ Took(qs, first + 1, last) \in Nat
      <4>1. first \in Nat \ {0} /\ first \in Int /\ last \in Int /\ first <= first + 1 /\ last <= n + 1
        BY <2>2
      <4>2. QED
        BY <1>5, <2>2, <4>1
    <3>2. Took(qs, first, first) \in Nat /\ Took(qs, first, first) > 0
      BY <1>6, <2>2
    <3>3. QED
      BY <2>1, <3>1, <3>2
  <2>4. Took(qs, last + 1, n + 1) = Took(qs, last + 1, n) + w /\ Took(qs, last + 1, n) \in Nat
    <3>1. last + 1 \in Nat \ {0} /\ last + 1 <= n + 1 /\ n \in Int /\ n + 1 \in Int /\ n <= n + 1
      BY <2>2
    <3>2. /\ Took(qs, last + 1, n + 1) = Took(qs, last + 1, n) + Took(qs, n + 1, n + 1)
          /\ Took(qs, last + 1, n) \in Nat
      BY <1>1, <1>2, <3>1, LastStepAdds
    <3>3. QED
      BY <1>2, <3>2
  <2>5. CASE h
    <3>1. t.before_hol = s.before_hol /\ t.hol = s.hol + s.after_hol + w /\ t.after_hol = 0
          /\ t \in Spans
      <4>1. t = [before_hol |-> s.before_hol, hol |-> s.hol + s.after_hol + w, after_hol |-> 0]
        BY <2>5, Zenon
      <4>2. QED
        BY <1>7, <4>1 DEF Spans
    <3>2. SawHol(qs) = SawHol(ps) \cup {n + 1}
      BY <1>2, <2>5, Zenon
    <3>3. first \in SawHol(qs) /\ n + 1 \in SawHol(qs)
          /\ \A i \in SawHol(qs) : first <= i /\ i <= n + 1
      BY <2>1, <2>2, <3>2
    <3>4. Took(qs, first, n + 1) = Took(qs, first, last) + Took(qs, last + 1, n + 1)
          /\ Took(qs, first, last) \in Nat
      <4>1. first \in Nat \ {0} /\ last \in Int /\ n + 1 \in Int /\ first <= last + 1 /\ last <= n + 1
        BY <2>2
      <4>2. QED
        BY <1>5, <4>1, <2>2
    <3>5. t.hol = Took(qs, first, n + 1)
      BY <2>1, <2>4, <3>1, <3>4
    <3>6. t.after_hol = Took(qs, (n + 1) + 1, n + 1)
      <4>1. (n + 1) + 1 = n + 2
        BY <2>2
      <4>2. QED
        BY <1>2, <3>1, <4>1
    <3>7. QED
      BY <2>1, <3>1, <3>3, <3>5, <3>6
  <2>6. CASE ~h
    <3>1. t.before_hol = s.before_hol /\ t.hol = s.hol /\ t.after_hol = s.after_hol + w
          /\ t \in Spans
      <4>1. t = [before_hol |-> s.before_hol, hol |-> s.hol, after_hol |-> s.after_hol + w]
        BY <2>3, <2>6, Zenon
      <4>2. QED
        BY <1>7, <4>1 DEF Spans
    <3>2. SawHol(qs) = SawHol(ps) /\ t.after_hol = Took(qs, last + 1, n + 1)
      BY <1>2, <2>1, <2>4, <2>6, <3>1
    <3>3. QED
      BY <2>1, <3>1, <3>2
  <2>7. QED
    BY <2>5, <2>6
<1>12. QED
  BY <1>10, <1>11

\* ExecSpans.step keeps the split.
LEMMA NextSplit ==
    ASSUME NEW ps \in Seq(PollSteps), \A i \in 1..Len(ps) : ps[i].time > 0, NEW s, Splits(s, ps),
           NEW w \in Nat, NEW h \in BOOLEAN
    PROVE  Splits(Time!Step(s, w, h), Append(ps, [time |-> w, hol |-> h]))
<1>1. s \in Spans
  BY DEF Splits
<1>2. /\ h => Time!Step(s, w, h) =
                [before_hol |-> s.before_hol, hol |-> s.hol + s.after_hol + w, after_hol |-> 0]
      /\ ~h /\ s.hol # 0 => Time!Step(s, w, h) =
                [before_hol |-> s.before_hol, hol |-> s.hol, after_hol |-> s.after_hol + w]
      /\ ~h /\ s.hol = 0 => Time!Step(s, w, h) =
                [before_hol |-> s.before_hol + w, hol |-> s.hol, after_hol |-> s.after_hol]
  <2>1. CASE h = TRUE
    BY <1>1, <2>1, StepFields
  <2>2. CASE h = FALSE
    BY <1>1, <2>2, StepFields
  <2>3. QED
    BY <2>1, <2>2
<1>3. QED
  BY <1>2, StepSplits, Zenon

\* s as times of phases.
AsPhases(s) ==
    [n \in Time!Names |-> CASE n = "before_hol" -> s.before_hol [] n = "hol" -> s.hol
                            [] n = "after_hol" -> s.after_hol [] OTHER -> 0]

\* What Splits says of s is what the README's split is.
LEMMA SplitOfSteps ==
    ASSUME NEW ps \in Seq(PollSteps), NEW s, Splits(s, ps)
    PROVE  s \in Spans /\ Time!SplitOf(ps) = AsPhases(s)
<1> DEFINE seen == SawHol(ps)
<1>1. s \in Spans /\ seen \subseteq 1..Len(ps) /\ Len(ps) \in Nat
  BY DEF Splits, SawHol
<1>2. seen = {i \in 1..Len(ps) : ps[i].hol}
  BY DEF SawHol
<1>3. CASE seen = {}
  <2>1. s.before_hol = SumOf(Times(ps), 1..Len(ps)) /\ s.hol = 0 /\ s.after_hol = 0
    BY <1>3 DEF Splits
  <2>2. Time!Span(ps, 1, Len(ps)) = SumOf(Times(ps), 1..Len(ps))
    BY <1>1, SpanIsSum
  <2>3. Time!SplitOf(ps) = Time!Only("before_hol", Time!Span(ps, 1, Len(ps)))
    BY <1>2, <1>3, Zenon DEF Time!SplitOf
  <2>4. Time!SplitOf(ps) = Time!Only("before_hol", s.before_hol)
    BY <2>1, <2>2, <2>3
  <2>5. QED
    BY <1>1, <2>1, <2>4 DEF AsPhases, Time!Only, Time!Zero, Time!Names
<1>4. CASE seen # {}
  <2>1. PICK first \in seen, last \in seen :
             /\ \A i \in seen : first <= i /\ i <= last
             /\ s.before_hol = SumOf(Times(ps), 1..(first - 1))
             /\ s.hol = SumOf(Times(ps), first..last)
             /\ s.after_hol = SumOf(Times(ps), (last + 1)..Len(ps))
    BY <1>4 DEF Splits
  <2>2. first \in 1..Len(ps) /\ last \in 1..Len(ps)
    BY <1>1
  <2>3. Time!Min(seen) = first /\ Time!Max(seen) = last
    <3> HIDE DEF seen
    <3>1. \A x \in seen : (\A y \in seen : x <= y) <=> x = first
      BY <1>1, <2>1
    <3>2. \A x \in seen : (\A y \in seen : x >= y) <=> x = last
      BY <1>1, <2>1
    <3>3. QED
      BY <2>1, <3>1, <3>2 DEF Time!Min, Time!Max
  <2>4. /\ Time!Span(ps, 1, first - 1) = s.before_hol /\ Time!Span(ps, first, last) = s.hol
        /\ Time!Span(ps, last + 1, Len(ps)) = s.after_hol
    <3>1. 1 \in Nat \ {0} /\ first \in Nat \ {0} /\ last + 1 \in Nat \ {0}
          /\ first - 1 \in Int /\ last \in Int
          /\ first - 1 <= Len(ps) /\ last <= Len(ps) /\ Len(ps) \in Int
      BY <1>1, <2>2
    <3>2. QED
      BY <2>1, <3>1, SpanIsSum
  <2>5. Time!SplitOf(ps) =
          [Time!Zero EXCEPT !.before_hol = Time!Span(ps, 1, first - 1), !.hol = Time!Span(ps, first, last),
                            !.after_hol = Time!Span(ps, last + 1, Len(ps))]
    <3> HIDE DEF seen
    <3>1. QED
      BY <1>2, <1>4, <2>3, Zenon DEF Time!SplitOf
  <2>6. Time!SplitOf(ps) =
          [Time!Zero EXCEPT !.before_hol = s.before_hol, !.hol = s.hol, !.after_hol = s.after_hol]
    BY <2>4, <2>5
  <2>7. QED
    BY <1>1, <2>6 DEF AsPhases, Time!Zero, Time!Names
<1>5. QED
  BY <1>1, <1>3, <1>4

-----------------------------------------------------------------------------

\* What the main thread is counting for phase n.
Counting(n) == IF at # "exec" /\ n = Time!PhaseOf(at) THEN watch ELSE 0

\* The account of every phase is right.
Covered == \A n \in Time!Names : due[n] = seconds[n] + report[n] + Counting(n)

\* The shape of the state.
TimeTypes ==
    /\ cooperates \in BOOLEAN /\ watch \in Nat
    /\ at \in {"memory_wait", "claim", "idle", "take", "release", "exec", "complete", "give_up"}
    /\ seconds \in [Time!Names -> Nat] /\ report \in [Time!Names -> Nat]
    /\ due \in [Time!Names -> Int]

\* The steps of exec-action each took time, and the spans split them.
PollsSplit ==
    /\ polls \in Seq(PollSteps) /\ \A i \in 1..Len(polls) : polls[i].time > 0
    /\ Splits(spans, polls)

\* A report is under way only during a claim.
ReportInClaim == at # "claim" => report = Time!Zero

\* The inductive invariant.
TimeInv == TimeTypes /\ PollsSplit /\ ReportInClaim /\ Covered

\* TimeIsCovered, phase by phase.
LEMMA CoveredByPhase == TimeTypes => (Covered <=> Time!TimeIsCovered)
<1> SUFFICES ASSUME TimeTypes PROVE Covered <=> Time!TimeIsCovered
  OBVIOUS
<1>1. \A n \in Time!Names :
        (IF at = "exec" THEN Time!Zero ELSE Time!Only(Time!PhaseOf(at), watch))[n] = Counting(n)
  BY DEF Counting, Time!Zero, Time!Only, TimeTypes
<1>2. \A n \in Time!Names : Counting(n) \in Nat
  BY DEF Counting, TimeTypes
<1> DEFINE sum == Time!Plus(Time!Plus(seconds, report),
                            IF at = "exec" THEN Time!Zero ELSE Time!Only(Time!PhaseOf(at), watch))
<1>3. sum = [n \in Time!Names |-> seconds[n] + report[n] + Counting(n)]
  BY <1>1 DEF Time!Plus
<1> HIDE DEF sum
<1>4. (sum = due) <=> \A n \in Time!Names : due[n] = seconds[n] + report[n] + Counting(n)
  BY <1>3 DEF TimeTypes
<1>5. QED
  BY <1>4 DEF Covered, Time!TimeIsCovered, sum

\* What counting w for a phase adds to an account.
LEMMA CountedFor ==
    ASSUME NEW name \in Time!Names, NEW w \in Nat
    PROVE  /\ \A f \in [Time!Names -> Nat] : Time!Plus(f, Time!Only(name, w)) \in [Time!Names -> Nat]
           /\ \A f \in [Time!Names -> Int] : Time!Plus(f, Time!Only(name, w)) \in [Time!Names -> Int]
           /\ \A f, n : n \in Time!Names =>
                Time!Plus(f, Time!Only(name, w))[n] = f[n] + (IF n = name THEN w ELSE 0)
<1>1. \A n \in Time!Names : Time!Only(name, w)[n] = IF n = name THEN w ELSE 0
  BY DEF Time!Only, Time!Zero
<1>2. QED
  BY <1>1 DEF Time!Plus

\* Nothing has been counted.
LEMMA NothingCounted ==
    /\ Time!Zero \in [Time!Names -> Nat] /\ Time!Zero \in [Time!Names -> Int]
    /\ \A n \in Time!Names : Time!Zero[n] = 0
  BY DEF Time!Zero

\* A phase that ends is counted for, and the stopwatch starts again.
LEMMA TimedKeepsAccount ==
    ASSUME TimeInv, NEW name \in Time!Names, name = Time!PhaseOf(at), at # "exec",
           seconds' = Time!Plus(seconds, Time!Only(name, watch)), watch' = 0
    PROVE  /\ seconds' \in [Time!Names -> Nat] /\ watch' \in Nat
           /\ \A n \in Time!Names : Counting(n)' = 0
           /\ \A n \in Time!Names : due[n] = seconds'[n] + report[n]
<1>1. watch \in Nat /\ seconds \in [Time!Names -> Nat] /\ report \in [Time!Names -> Nat]
  BY DEF TimeInv, TimeTypes
<1>2. seconds' \in [Time!Names -> Nat]
      /\ \A n \in Time!Names : seconds'[n] = seconds[n] + (IF n = name THEN watch ELSE 0)
  BY <1>1, CountedFor
<1>3. \A n \in Time!Names : Counting(n)' = 0
  BY DEF Counting
<1>4. \A n \in Time!Names : due[n] = seconds[n] + report[n] + (IF n = name THEN watch ELSE 0)
  BY DEF TimeInv, Covered, Counting
<1>5. QED
  BY <1>1, <1>2, <1>3, <1>4

\* Time passes: it is counted, and it is due.
LEMMA TickKeepsInv ==
    ASSUME TimeInv, UNCHANGED cooperates, Time!Tick
    PROVE  TimeInv'
<1> USE DEF TimeInv, TimeTypes, PollsSplit, ReportInClaim
<1>1. /\ watch' = watch + 1 /\ UNCHANGED <<at, seconds, report, spans, polls>>
      /\ due' = IF at = "exec" THEN due ELSE Time!Plus(due, Time!Only(Time!PhaseOf(at), 1))
  BY DEF Time!Tick
<1>2. at # "exec" => Time!PhaseOf(at) \in Time!Names
  BY DEF Time!PhaseOf, Time!Names
<1>3. due' \in [Time!Names -> Int]
      /\ \A n \in Time!Names :
            due'[n] = due[n] + (IF at # "exec" /\ n = Time!PhaseOf(at) THEN 1 ELSE 0)
  BY <1>1, <1>2, CountedFor
<1>4. Covered'
  BY <1>1, <1>3 DEF Covered, Counting
<1>5. QED
  BY <1>1, <1>3, <1>4

\* A wait ends and a claim is sent with the account so far.
LEMMA SendKeepsInv ==
    ASSUME TimeInv, UNCHANGED cooperates, NEW name \in Time!Names, name = Time!PhaseOf(at),
           at \notin {"exec", "claim"}, Time!Send(name)
    PROVE  TimeInv'
<1> USE DEF TimeInv, TimeTypes, PollsSplit, ReportInClaim
<1>1. /\ report' = Time!Plus(seconds, Time!Only(name, watch)) /\ seconds' = Time!Zero
      /\ watch' = 0 /\ at' = "claim" /\ UNCHANGED <<spans, polls, due>>
  BY DEF Time!Send
<1>2. report' \in [Time!Names -> Nat]
      /\ \A n \in Time!Names : report'[n] = seconds[n] + (IF n = name THEN watch ELSE 0)
  BY <1>1, CountedFor
<1>3. \A n \in Time!Names : due[n] = seconds[n] + (IF n = name THEN watch ELSE 0)
  BY NothingCounted DEF Covered, Counting
<1>4. Covered'
  <2>1. \A n \in Time!Names : Counting(n)' = 0 /\ seconds'[n] = 0
    BY <1>1, NothingCounted DEF Counting
  <2>2. \A n \in Time!Names : due'[n] = report'[n] /\ report'[n] \in Nat
    BY <1>1, <1>2, <1>3
  <2>3. QED
    BY <2>1, <2>2 DEF Covered
<1>5. QED
  BY <1>1, <1>2, <1>4, NothingCounted

\* A phase outside a claim ends and the main thread goes on to another place.
LEMMA PhaseEndsKeepsInv ==
    ASSUME TimeInv, UNCHANGED <<cooperates, report, spans, polls, due>>, NEW name \in Time!Names,
           name = Time!PhaseOf(at), at \notin {"exec", "claim"},
           NEW next \in {"memory_wait", "idle", "take", "release", "exec", "complete", "give_up"},
           Time!Timed(name, next)
    PROVE  TimeInv'
<1>1. seconds' = Time!Plus(seconds, Time!Only(name, watch)) /\ watch' = 0 /\ at' = next
  BY DEF Time!Timed
<1>2. /\ seconds' \in [Time!Names -> Nat] /\ watch' \in Nat
      /\ \A n \in Time!Names : Counting(n)' = 0
      /\ \A n \in Time!Names : due[n] = seconds'[n] + report[n]
  BY <1>1, TimedKeepsAccount
<1>3. Covered'
  BY <1>2 DEF Covered, TimeInv, TimeTypes
<1>4. QED
  BY <1>1, <1>2, <1>3 DEF TimeInv, TimeTypes, PollsSplit, ReportInClaim

\* A claim ends: what was reported is told, or is put back.
LEMMA ClaimKeepsInv ==
    ASSUME TimeInv, ~Unauthorised, UNCHANGED cooperates,
           \/ \E next \in {"take", "idle"} : Time!Claimed(next)
           \/ \E routed \in BOOLEAN : Time!Refused(routed)
           \/ Time!Unanswered
    PROVE  TimeInv'
<1> USE DEF TimeInv, TimeTypes, PollsSplit, ReportInClaim
<1>1. at = "claim" /\ Time!PhaseOf(at) = "claim" /\ "claim" \in Time!Names
  BY DEF Time!Claimed, Time!Refused, Time!Unanswered, Time!PhaseOf, Time!Names
<1>2. CASE Time!Unanswered
  <2>1. /\ seconds' = Time!Plus(Time!Plus(seconds, report), Time!Only("claim", watch))
        /\ watch' = 0 /\ at' = "idle" /\ report' = Time!Zero /\ UNCHANGED <<spans, polls, due>>
    BY <1>2 DEF Time!Unanswered
  <2>2. /\ Time!Plus(seconds, report) \in [Time!Names -> Nat]
        /\ \A n \in Time!Names : Time!Plus(seconds, report)[n] = seconds[n] + report[n]
    BY DEF Time!Plus
  <2>3. /\ seconds' \in [Time!Names -> Nat]
        /\ \A n \in Time!Names :
             seconds'[n] = seconds[n] + report[n] + (IF n = "claim" THEN watch ELSE 0)
    BY <1>1, <2>1, <2>2, CountedFor
  <2>4. Covered'
    <3>1. \A n \in Time!Names : Counting(n)' = 0 /\ report'[n] = 0
      BY <2>1, NothingCounted DEF Counting
    <3>2. \A n \in Time!Names : due'[n] = seconds'[n] /\ seconds'[n] \in Nat
      BY <1>1, <2>1, <2>3 DEF Covered, Counting
    <3>3. QED
      BY <3>1, <3>2 DEF Covered
  <2>5. QED
    BY <2>1, <2>3, <2>4, NothingCounted
<1>3. ASSUME NEW next \in {"take", "idle"}, Time!Timed("claim", next), Time!Received, report' = Time!Zero,
             UNCHANGED <<spans, polls>>
      PROVE  TimeInv'
  <2>1. seconds' = Time!Plus(seconds, Time!Only("claim", watch)) /\ watch' = 0 /\ at' = next
    BY <1>3 DEF Time!Timed
  <2>2. /\ seconds' \in [Time!Names -> Nat] /\ watch' \in Nat
        /\ \A n \in Time!Names : Counting(n)' = 0
        /\ \A n \in Time!Names : due[n] = seconds'[n] + report[n]
    BY <1>1, <2>1, TimedKeepsAccount
  <2>3. due' \in [Time!Names -> Int] /\ \A n \in Time!Names : due'[n] = due[n] - report[n]
    BY <1>3 DEF Time!Received
  <2>4. Covered'
    BY <1>3, <2>2, <2>3, NothingCounted DEF Covered
  <2>5. QED
    BY <1>3, <2>1, <2>2, <2>3, <2>4, NothingCounted
<1>4. ASSUME NEW next \in {"take", "idle"}, Time!Claimed(next) PROVE TimeInv'
  BY <1>3, <1>4 DEF Time!Claimed
<1>5. ASSUME NEW routed \in BOOLEAN, Time!Refused(routed) PROVE TimeInv'
  <2>1. /\ Time!Timed("claim", "idle") /\ report' = Time!Zero /\ Time!Received
        /\ UNCHANGED <<spans, failing, polls>>
    BY <1>5, Zenon DEF Time!Refused
  <2>2. QED
    BY <1>3, <2>1
<1>6. QED
  BY <1>2, <1>4, <1>5

\* The poll loop splits the time between two looks.
LEMMA PollKeepsInv ==
    ASSUME TimeInv, UNCHANGED cooperates, NEW saw \in BOOLEAN, Time!Poll(saw)
    PROVE  TimeInv'
<1>1. /\ at = "exec" /\ watch > 0 /\ spans' = Time!Step(spans, watch, saw)
      /\ polls' = Append(polls, [time |-> watch, hol |-> saw]) /\ watch' = 0
      /\ UNCHANGED <<at, seconds, report, due>>
  BY DEF Time!Poll
<1>2. PollsSplit'
  <2>1. watch \in Nat /\ polls \in Seq(PollSteps) /\ \A i \in 1..Len(polls) : polls[i].time > 0
    BY DEF TimeInv, TimeTypes, PollsSplit
  <2>2. [time |-> watch, hol |-> saw] \in PollSteps
    BY <2>1 DEF PollSteps
  <2>3. polls' \in Seq(PollSteps)
    BY <1>1, <2>1, <2>2
  <2>4. \A i \in 1..Len(polls') : polls'[i].time > 0
    <3> DEFINE p == [time |-> watch, hol |-> saw]
    <3>1. p.time > 0 /\ p \in PollSteps
      BY <1>1, <2>2
    <3>2. polls' = Append(polls, p)
      BY <1>1
    <3> HIDE DEF p
    <3>3. QED
      BY <2>1, <3>1, <3>2
  <2>5. Splits(spans', polls')
    BY <1>1, <2>1, NextSplit DEF TimeInv, PollsSplit
  <2>6. QED
    BY <2>3, <2>4, <2>5 DEF PollsSplit
<1>3. Covered'
  BY <1>1 DEF TimeInv, Covered, Counting
<1>4. QED
  BY <1>1, <1>2, <1>3 DEF TimeInv, TimeTypes, ReportInClaim

\* exec-action ends: the last step is split off like the others, and the spans are what
\* the README says of the steps.
LEMMA ExecKeepsInv ==
    ASSUME TimeInv, UNCHANGED cooperates, NEW outcome \in {"record", "error", "lost"},
           Time!ExecEnds(outcome)
    PROVE  TimeInv'
<1> DEFINE last == Time!Step(spans, watch, FALSE)
           all == Append(polls, [time |-> watch, hol |-> FALSE])
<1>1. /\ at = "exec" /\ polls' = <<>> /\ spans' = Time!NoSpans /\ watch' = 0 /\ UNCHANGED report
      /\ at' = IF outcome = "lost" THEN "give_up" ELSE "complete"
  BY DEF Time!ExecEnds
<1>2. /\ watch \in Nat /\ seconds \in [Time!Names -> Nat] /\ due \in [Time!Names -> Int]
      /\ report \in [Time!Names -> Nat]
      /\ \A n \in Time!Names : due[n] = seconds[n] + report[n]
  BY <1>1 DEF TimeInv, TimeTypes, Covered, Counting
<1>3. last \in Spans /\ Time!SplitOf(all) = AsPhases(last)
  <2>1. /\ polls \in Seq(PollSteps) /\ \A i \in 1..Len(polls) : polls[i].time > 0
        /\ Splits(spans, polls)
    BY DEF TimeInv, PollsSplit
  <2>2. Splits(last, all)
    BY <1>2, <2>1, NextSplit
  <2>3. [time |-> watch, hol |-> FALSE] \in PollSteps
    BY <1>2 DEF PollSteps
  <2>4. all \in Seq(PollSteps)
    BY <2>1, <2>3
  <2> HIDE DEF last, all
  <2>5. QED
    BY <2>2, <2>4, SplitOfSteps
<1>4. /\ seconds' \in [Time!Names -> Nat] /\ due' \in [Time!Names -> Int]
      /\ \A n \in Time!Names : due'[n] = seconds'[n] + report[n]
  <2>1. CASE cooperates
    <3>1. seconds' = [seconds EXCEPT !.before_hol = @ + last.before_hol, !.hol = @ + last.hol,
                                     !.after_hol = @ + last.after_hol]
      BY <2>1, Zenon DEF Time!ExecEnds
    <3>2. due' = Time!Plus(due, AsPhases(last))
      <4>1. due' = Time!Plus(due, Time!SplitOf(all))
        BY <2>1, Zenon DEF Time!ExecEnds
      <4>2. QED
        BY <1>3, <4>1, Zenon
    <3> HIDE DEF last, all
    <3>3. \A n \in Time!Names : AsPhases(last)[n] \in Nat
      BY <1>3 DEF AsPhases, Spans
    <3>4. /\ seconds' \in [Time!Names -> Nat]
          /\ \A n \in Time!Names : seconds'[n] = seconds[n] + AsPhases(last)[n]
      <4> DEFINE b == seconds["before_hol"] + last.before_hol
                 d == seconds["hol"] + last.hol
                 a == seconds["after_hol"] + last.after_hol
      <4>1. b \in Nat /\ d \in Nat /\ a \in Nat
        <5>1. {"before_hol", "hol", "after_hol"} \subseteq Time!Names
          BY DEF Time!Names
        <5>2. QED
          BY <1>2, <1>3, <5>1 DEF Spans
      <4>2. seconds' = [seconds EXCEPT !["before_hol"] = b, !["hol"] = d, !["after_hol"] = a]
        BY <3>1
      <4> HIDE DEF b, d, a
      <4>3. /\ seconds' \in [Time!Names -> Nat]
            /\ \A n \in Time!Names : seconds'[n] =
                 IF n = "before_hol" THEN b ELSE IF n = "hol" THEN d
                 ELSE IF n = "after_hol" THEN a ELSE seconds[n]
        BY <1>2, <4>1, <4>2
      <4>4. \A n \in Time!Names : seconds'[n] = seconds[n] + AsPhases(last)[n]
        BY <1>2, <1>3, <4>3 DEF AsPhases, b, d, a
      <4>5. QED
        BY <4>3, <4>4
    <3>5. /\ due' \in [Time!Names -> Int]
          /\ \A n \in Time!Names : due'[n] = due[n] + AsPhases(last)[n]
      BY <1>2, <3>2, <3>3 DEF Time!Plus
    <3>6. QED
      BY <1>2, <3>3, <3>4, <3>5
  <2>2. CASE ~cooperates
    <3>1. /\ seconds' = Time!Plus(seconds, Time!Only("exec", watch))
          /\ due' = Time!Plus(due, Time!Only("exec", watch))
      BY <2>2, Zenon DEF Time!ExecEnds
    <3>2. "exec" \in Time!Names
      BY DEF Time!Names
    <3>3. QED
      BY <1>2, <3>1, <3>2, CountedFor
  <2>3. QED
    BY <2>1, <2>2
<1>5. PollsSplit'
  BY <1>1, NothingSplits DEF PollsSplit
<1>6. Covered'
  BY <1>1, <1>2, <1>4 DEF Covered, Counting
<1>7. QED
  BY <1>1, <1>2, <1>4, <1>5, <1>6 DEF TimeInv, TimeTypes, ReportInClaim

\* Every step keeps the account.
LEMMA TimeStep ==
    ASSUME ~Unauthorised, TimeInv, [Time!Next]_(Time!vars)
    PROVE  TimeInv'
<1>1. CASE UNCHANGED Time!vars
  BY <1>1 DEF Time!vars, TimeInv, TimeTypes, PollsSplit, ReportInClaim, Covered, Counting
<1>2. CASE Time!Next
  <2> USE DEF Time!PhaseOf, Time!Names
  <2>1. UNCHANGED cooperates
    BY <1>2 DEF Time!Next
  <2>2. CASE Time!Tick
    BY <2>1, <2>2, TickKeepsInv
  <2>3. ASSUME NEW name \in {"idle", "lease"}, name = Time!PhaseOf(at), at \in {"idle", "give_up"},
               Time!Loop(name)
        PROVE  TimeInv'
    <3>1. name \in Time!Names /\ at \notin {"exec", "claim"}
      BY <2>3
    <3>2. CASE cooperates
      <4>1. Time!Timed(name, "memory_wait") /\ UNCHANGED <<report, spans, failing, polls, due>>
        BY <2>3, <3>2, Zenon DEF Time!Loop
      <4>2. QED
        BY <2>1, <2>3, <3>1, <4>1, PhaseEndsKeepsInv
    <3>3. CASE ~cooperates
      <4>1. Time!Send(name)
        BY <2>3, <3>3, Zenon DEF Time!Loop
      <4>2. QED
        BY <2>1, <2>3, <3>1, <4>1, SendKeepsInv
    <3>4. QED
      BY <3>2, <3>3
  <2>4. CASE Time!MemoryWaited
    BY <2>1, <2>4, SendKeepsInv DEF Time!MemoryWaited
  <2>5. CASE Time!Slept
    BY <2>3, <2>5 DEF Time!Slept
  <2>6. CASE Time!GivenUp
    BY <2>3, <2>6 DEF Time!GivenUp
  <2>7. CASE \/ \E next \in {"take", "idle"} : Time!Claimed(next)
             \/ \E routed \in BOOLEAN : Time!Refused(routed)
             \/ Time!Unanswered
    BY <2>1, <2>7, ClaimKeepsInv
  <2>8. CASE Time!Taken
    BY <2>1, <2>8, PhaseEndsKeepsInv DEF Time!Taken
  <2>9. ASSUME NEW outcome \in {"found", "rejected", "error", "lost"}, Time!Found(outcome)
        PROVE  TimeInv'
    BY <2>1, <2>9, PhaseEndsKeepsInv DEF Time!Found
  <2>10. ASSUME NEW saw \in BOOLEAN, Time!Poll(saw) PROVE TimeInv'
    BY <2>1, <2>10, PollKeepsInv
  <2>11. ASSUME NEW outcome \in {"record", "error", "lost"}, Time!ExecEnds(outcome) PROVE TimeInv'
    BY <2>1, <2>11, ExecKeepsInv
  <2>12. ASSUME NEW ok \in BOOLEAN, Time!Completed(ok) PROVE TimeInv'
    BY <2>1, <2>12, PhaseEndsKeepsInv DEF Time!Completed
  <2>13. CASE Time!GivenUpRaising
    BY <2>1, <2>13, PhaseEndsKeepsInv DEF Time!GivenUpRaising
  <2>14. QED
    BY <1>2, <2>2, <2>4, <2>5, <2>6, <2>7, <2>8, <2>9, <2>10, <2>11, <2>12, <2>13 DEF Time!Next
<1>3. QED
  BY <1>1, <1>2

\* What a worker has counted, has sent and is counting is exactly what it did and the
\* coordinator has not been told, or may have missed, phase by phase, however long
\* exec-action ran and whatever failed (claim_reporting, Phases, ExecSpans), as long as
\* the coordinator accepts the worker's token.
THEOREM ReportedTimeIsCovered ==
    ASSUME Time!Parameters, ~Unauthorised
    PROVE  Time!Spec => []TimeIsCovered
<1>1. Time!Init => TimeInv
  <2> SUFFICES ASSUME Time!Init PROVE TimeInv
    OBVIOUS
  <2>1. /\ cooperates \in BOOLEAN /\ at \in {"memory_wait", "claim"} /\ watch = 0
        /\ seconds = Time!Zero /\ report = Time!Zero /\ spans = Time!NoSpans /\ polls = <<>>
        /\ due = Time!Zero
    BY DEF Time!Init
  <2>2. PollsSplit
    BY <2>1, NothingSplits DEF PollsSplit
  <2>3. Covered
    BY <2>1, NothingCounted DEF Covered, Counting
  <2>4. QED
    BY <2>1, <2>2, <2>3, NothingCounted DEF TimeInv, TimeTypes, ReportInClaim
<1>2. TimeInv /\ [Time!Next]_(Time!vars) => TimeInv'
  BY TimeStep
<1>3. TimeInv => TimeIsCovered
  BY CoveredByPhase DEF TimeInv, TimeIsCovered
<1>4. QED
  BY <1>1, <1>2, <1>3, PTL DEF Time!Spec
=============================================================================
