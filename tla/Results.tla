------------------------------ MODULE Results ------------------------------
(***************************************************************************)
(* What becomes of an action by its results, attempt after attempt: the    *)
(* record a worker reports (failed_record and spec_version in worker.py,   *)
(* exec-action's own otherwise), how the coordinator reads it              *)
(* (formats.py, the complete route in app.py), what it makes of it         *)
(* (complete, expire_leases and _input_missing in coordinator.py), and     *)
(* where later batches place the theory (the peak hints of submit,         *)
(* _record_peak and delete_expired).  One theory, in one batch after       *)
(* another; time counts in hint TTLs' fractions.                           *)
(***************************************************************************)
EXTENDS Integers, Sequences, FiniteSets, SequencesExt

CONSTANTS
    MaxAttempts,    \* REMOTE_EXEC_MAX_ATTEMPTS
    StandardMb,     \* REMOTE_EXEC_STANDARD_TIER_MB
    Peaks,          \* peaks a build reports
    Ttl,            \* REMOTE_EXEC_HINT_TTL_DAYS
    MaxClaims,      \* bound: claims of the action in one batch
    MaxBatches,     \* bound: batches submitted
    None, BadNumber

\* What the constants have to be.
Parameters ==
    /\ {MaxAttempts, Ttl, MaxClaims, MaxBatches} \subseteq Nat \ {0}
    /\ StandardMb \in Nat /\ Peaks \subseteq Nat /\ {None, BadNumber} \cap Nat = {}

VARIABLES
    state,          \* the action: "none", "waiting", "running" ("abandoned" once its worker
                    \* gave up), "done", "failed"
    tier, attempts, lastFailure,    \* its columns
    hint,           \* the theory's peak hint: [mb, age], mb = None without one
    batches,        \* how many batches there were
    past,           \* history: how the attempts of this batch ended, oldest first
    moved           \* history: whether a build failed for memory, or reported as much,
                    \* on the standard tier, with no pause of Ttl in its use since

vars == <<state, tier, attempts, lastFailure, hint, batches, past, moved>>

\* formats.FAILURES.
Retryable == {"publish", "toolchain", "internal"}
Final == {"proof", "tactic-timeout", "spec-rejected", "script", "timeout"}
Failures == Retryable \cup Final \cup {"memory", "input-missing", "disk", "unavailable"}

(***************************************************************************)
(* The record.  A field is "bad" when it does not have its form.           *)
(***************************************************************************)

Record(status, failure) ==
    [header |-> TRUE, status |-> status, failure |-> failure, missing |-> "none",
     peak |-> None, spec |-> "own", key |-> "own"]

NoRecord == Record("nothing", "none")

\* What exec-action may leave: a record of its own, a damaged one, or none.
Records ==
    LET good == {[Record("built", "none") EXCEPT !.peak = mb] : mb \in Peaks}
                \cup {Record("cached", "none")}
                \cup {Record("failed", f) : f \in Failures \ {"unavailable"}}
                \cup {[Record("failed", "input-missing") EXCEPT !.missing = m] :
                        m \in {"theory", "blob"}}
        ok == Record("built", "none")
    IN  good \cup {NoRecord, [ok EXCEPT !.header = FALSE], [ok EXCEPT !.status = "bad"],
                   [ok EXCEPT !.failure = "proof"], Record("failed", "none"),
                   Record("failed", "bad"), [ok EXCEPT !.missing = "bad"],
                   [ok EXCEPT !.peak = BadNumber], [ok EXCEPT !.spec = "bad"],
                   [ok EXCEPT !.spec = "other"], [ok EXCEPT !.key = "bad"],
                   [ok EXCEPT !.key = "other"]}

\* Mutant: an answer of 429 is one like 404.
SpecVersion429(fetch) ==
    CASE fetch \in {"timed out", "no answer", "cut short", "5xx"} -> "unavailable"
      [] fetch \in {"429", "4xx", "bad spec"} -> "error"
      [] OTHER -> fetch

\* How the worker's way to the action's release may go: curl's answer for the spec,
\* then the version in it.
Outages == {"timed out", "no answer", "cut short", "429", "5xx"}
Fetches == Outages \cup {"4xx", "bad spec", "unreleased", "release"}

\* spec_version and holbuild: which exception leaves them, if any.
SpecVersion(fetch) ==
    CASE fetch \in {"timed out", "no answer", "cut short", "429", "5xx"} -> "unavailable"
      [] fetch \in {"4xx", "bad spec"} -> "error"
      [] OTHER -> fetch

\* failed_record, whose input key is empty.
FailedRecord(failure) == [Record("failed", failure) EXCEPT !.key = "empty"]

\* execute and run_one: the record that is reported; left is what exec-action left.
Reported(fetch, left) ==
    CASE SpecVersion(fetch) = "unavailable" -> FailedRecord("unavailable")
      [] SpecVersion(fetch) = "error" -> FailedRecord("internal")
      [] SpecVersion(fetch) = "unreleased" -> FailedRecord("spec-rejected")
      [] OTHER -> IF left = NoRecord THEN FailedRecord("internal") ELSE left

\* parse_result: whether it raises no FormatError.
ParseResult(r) ==
    /\ r.header
    /\ r.status \in {"built", "cached", "failed"}
    /\ (r.failure = "none") = (r.status # "failed")
    /\ r.failure \in Failures \cup {"none"}
    /\ "bad" \notin {r.missing, r.spec, r.key}
    /\ r.peak # BadNumber

\* complete: whether the record is for the lease's action.
IsForAction(r) == r.spec = "own" /\ r.key \in {"own", "empty"}

-----------------------------------------------------------------------------
(* The theory's peak hint.                                                   *)

\* Mutant: the last peak is kept, not the highest.
RecordLastPeak(mb) == hint' = [mb |-> mb, age |-> 0]

\* _record_peak
RecordPeak(mb) ==
    hint' = [mb |-> IF hint.mb = None \/ mb > hint.mb THEN mb ELSE hint.mb, age |-> 0]

Init ==
    /\ state = "none" /\ tier = "standard" /\ attempts = 0 /\ lastFailure = "none"
    /\ hint = [mb |-> None, age |-> 0] /\ batches = 0
    /\ past = <<>> /\ moved = FALSE

\* submit of a batch with the theory, once the last one is over: its hint is used.
Submit ==
    /\ state \in {"none", "done", "failed"} /\ batches < MaxBatches
    /\ state' = "waiting" /\ attempts' = 0 /\ lastFailure' = "none"
    /\ tier' = IF hint.mb # None /\ hint.mb >= StandardMb THEN "high" ELSE "standard"
    /\ hint' = [hint EXCEPT !.age = 0]
    /\ batches' = batches + 1 /\ past' = <<>>
    /\ UNCHANGED moved

\* Time goes on between batches; the sweep deletes a hint older than its TTL.  A hint's
\* use outlasts the deadline of any batch.
Tick ==
    /\ state \in {"done", "failed"} /\ hint.age <= Ttl
    /\ hint' = IF hint.age = Ttl THEN [mb |-> None, age |-> 0] ELSE [hint EXCEPT !.age = @ + 1]
    /\ moved' = (moved /\ hint.age < Ttl)
    /\ UNCHANGED <<state, tier, attempts, lastFailure, batches, past>>

\* _claim, once a release made the action ready.
Claim ==
    /\ state = "waiting" /\ Len(past) < MaxClaims
    /\ state' = "running" /\ attempts' = attempts + 1
    /\ UNCHANGED <<tier, lastFailure, hint, batches, past, moved>>

-----------------------------------------------------------------------------
(* complete                                                                  *)

Ends(cause, final) ==
    /\ state' = final
    /\ past' = Append(past, cause)
    /\ UNCHANGED batches

\* What an attempt that ended with a failure met: the cache being away, or that failure.
Cause(fetch, failure) == IF fetch \in Outages THEN "outage" ELSE failure

\* A record that does not parse, or is for another action, is answered 400 and
\* changes nothing (the transaction is rolled back); the worker gives up, and its
\* lease will expire.
Refused(fetch, left) ==
    /\ state = "running"
    /\ ~(ParseResult(Reported(fetch, left)) /\ IsForAction(Reported(fetch, left)))
    /\ state' = "abandoned"
    /\ UNCHANGED <<tier, attempts, lastFailure, hint, batches, past, moved>>

\* The record r that a worker reported counts: its failure is noted.
Takes(fetch, left, r) ==
    /\ state = "running"
    /\ r = Reported(fetch, left) /\ ParseResult(r) /\ IsForAction(r)
    /\ lastFailure' = r.failure

Succeeds(fetch, left) ==
    \E r \in {Reported(fetch, left)} :
        /\ Takes(fetch, left, r) /\ r.status # "failed"
        /\ Ends("done", "done")
        /\ IF r.peak = None THEN UNCHANGED hint ELSE RecordPeak(r.peak)
        /\ moved' = (moved \/ (r.peak # None /\ r.peak >= StandardMb))
        /\ UNCHANGED <<tier, attempts>>

\* 'memory' on the standard tier.
MovesUp(fetch, left) ==
    \E r \in {Reported(fetch, left)} :
        /\ Takes(fetch, left, r) /\ r.failure = "memory" /\ tier = "standard"
        /\ Ends(Cause(fetch, "memory"), "waiting")
        /\ tier' = "high" /\ RecordPeak(StandardMb) /\ moved' = TRUE
        /\ UNCHANGED attempts

\* 'unavailable': the claim is not counted.
NotStarted(fetch, left) ==
    \E r \in {Reported(fetch, left)} :
        /\ Takes(fetch, left, r) /\ r.failure = "unavailable"
        /\ Ends(Cause(fetch, "unavailable"), "waiting")
        /\ attempts' = attempts - 1
        /\ UNCHANGED <<tier, hint, moved>>

\* Whether a failure gets another attempt (a missing input does so by _input_missing,
\* which builds the input again first if the batch has it).
WorthRetrying(failure) ==
    /\ attempts < MaxAttempts
    /\ \/ failure \in Retryable \cup {"memory", "input-missing"}
       \/ failure = "disk" /\ lastFailure # "disk"

FailsAgain(fetch, left) ==
    \E r \in {Reported(fetch, left)} :
        /\ Takes(fetch, left, r) /\ r.status = "failed" /\ r.failure # "unavailable"
        /\ r.failure = "memory" => tier = "high"
        /\ Ends(Cause(fetch, r.failure), IF WorthRetrying(r.failure) THEN "waiting" ELSE "failed")
        /\ UNCHANGED <<tier, attempts, hint, moved>>

\* expire_leases
Expires ==
    /\ state \in {"running", "abandoned"}
    /\ Ends("expired", IF attempts >= MaxAttempts THEN "failed" ELSE "waiting")
    /\ UNCHANGED <<tier, attempts, lastFailure, hint, moved>>

\* _requeue_evicted, while the batch waits for others.
Evicted ==
    /\ state = "done"
    /\ state' = IF attempts >= MaxAttempts THEN "failed" ELSE "waiting"
    /\ UNCHANGED <<tier, attempts, lastFailure, hint, batches, past, moved>>

Result(fetch, left) ==
    \/ Refused(fetch, left) \/ Succeeds(fetch, left) \/ MovesUp(fetch, left)
    \/ NotStarted(fetch, left) \/ FailsAgain(fetch, left)

Next ==
    \/ Submit \/ Tick \/ Claim \/ Expires \/ Evicted
    \/ \E fetch \in Fetches : \E left \in IF fetch = "release" THEN Records ELSE {NoRecord} :
          Result(fetch, left)

Spec == Init /\ [][Next]_vars

-----------------------------------------------------------------------------

\* How often the action was claimed, the claims of workers that found no cache aside.
Claimed(h) == Cardinality({i \in 1..Len(h) : h[i] # "outage"})

\* How the last attempt that came with a result ended.
LastReport(h) ==
    LET reports == {i \in 1..Len(h) : h[i] # "expired"}
    IN  IF reports = {} THEN "none" ELSE h[CHOOSE i \in reports : \A j \in reports : j <= i]

\* The README's retry table, told by what happened in the attempts so far and not by
\* the columns that keep track of it: h are the attempts' ends, the last one included.
Documented(h, onStandard) ==
    LET cause == Last(h)
        left == Claimed(h) < MaxAttempts
    IN  CASE cause = "outage" -> "waiting"
          [] cause = "memory" /\ onStandard -> "waiting"
          [] \/ cause = "memory" /\ ~onStandard
             \/ cause \in Retryable \cup {"input-missing", "expired"} ->
                IF left THEN "waiting" ELSE "failed"
          [] cause = "disk" ->
                IF left /\ LastReport(Front(h)) # "disk" THEN "waiting" ELSE "failed"
          [] cause = "done" -> "done"
          [] OTHER -> "failed"

\* An action is retried, moved to the high tier or failed exactly as the README says,
\* over any sequence of results, lost leases, evictions and cache outages: an outage
\* never uses up an attempt, however the worker met it.
RetriesAsDocumented ==
    [][Len(past') > Len(past) =>
          /\ state' = Documented(past', tier = "standard")
          /\ tier' = IF Last(past') = "memory" THEN "high" ELSE tier]_vars

\* A theory that once took the standard tier's memory starts on the high tier in every
\* later batch while it is built at least once per TTL, though later builds take less.
MemoryIsRemembered ==
    [][batches' > batches /\ moved => tier' = "high"]_vars
=============================================================================
