----------------------------- MODULE MCProcess -----------------------------
(***************************************************************************)
(* What a coordinator process does about claims and cache findings, side   *)
(* by side.  The parts share no variable, so what holds of one of them     *)
(* among the others holds of it alone: in a behaviour one part moves and   *)
(* the others stay where they start.                                       *)
(***************************************************************************)
EXTENDS Integers, Sequences, TLC

CONSTANTS
    Claims,                                         \* RunSlots, ClaimWake
    Builds, Runs, Slots, NoClaim, NoAction,         \* RunSlots
    ReadyActions, MaxReady,                              \* ClaimWake
    Entries, Trust, MaxForgets, MaxTime, None       \* CacheFindings

VARIABLES
    part,
    state, rowLock, admission, slotsPc, chosen,
    ready, unwoken, madeReady, waiters, pc, seen, woken, spent, forgone,
    held, now, found, checks, forgotten, task, call

Admission == INSTANCE RunSlots WITH pc <- slotsPc
Waiting == INSTANCE ClaimWake WITH Actions <- ReadyActions
\* The callers are as many as the claims and the checks as the runs: the same model
\* values stand for both.
Findings == INSTANCE CacheFindings WITH Callers <- Claims, Requests <- Runs

ASSUME ParametersAssumption ==
    Admission!Parameters /\ Waiting!Parameters /\ Findings!Parameters

slots == <<state, rowLock, admission, slotsPc, chosen>>
wake == <<ready, unwoken, madeReady, waiters, pc, seen, woken, spent, forgone>>
findings == <<held, now, found, checks, forgotten, task, call>>
vars == <<part, slots, wake, findings>>

\* A part that does not move starts in one state.
Init ==
    /\ part \in {"slots", "wake", "findings"}
    /\ Admission!Init /\ Waiting!Init /\ Findings!Init
    /\ part # "findings" => held = {}

Next ==
    /\ UNCHANGED part
    /\ \/ part = "slots" /\ Admission!Next /\ UNCHANGED <<wake, findings>>
       \/ part = "wake" /\ Waiting!Next /\ UNCHANGED <<slots, findings>>
       \/ part = "findings" /\ Findings!Next /\ UNCHANGED <<slots, wake>>

Spec == Init /\ [][Next]_vars

Symmetry == Permutations(Claims) \cup Permutations(Runs)

-----------------------------------------------------------------------------

\* _claim: never more runs than slots, whatever claims overlap.
RunsWithinSlots == Admission!RunsWithinSlots

\* claim and _wake_claim: no announced action is left without a wake while claims sleep,
\* but one that attempts looked for in vain or whose wake an error lost.
NoLostWake == Waiting!NoLostWake

\* _in_cache, _check_cache: nothing found before the last forget is told or trusted.
FindingsAreFresh == Findings!FindingsAreFresh
=============================================================================
