--------------------------- MODULE CacheFindings ---------------------------
(***************************************************************************)
(* What a coordinator process remembers of the cache (_in_cache,           *)
(* _check_cache and _forget_cache_findings in                              *)
(* remote-exec/remote_exec/coordinator.py): an entry found is trusted for  *)
(* IN_CACHE_TRUST_SECONDS, concurrent callers share one check, and an      *)
(* input-missing result forgets both, also the checks still under way.     *)
(***************************************************************************)
EXTENDS Integers, FiniteSets

CONSTANTS
    Entries,        \* action-cache keys
    Callers,        \* release passes asking
    Requests,       \* identities of checks; a check's task is one
    Trust,          \* IN_CACHE_TRUST_SECONDS, in ticks
    MaxForgets,     \* bound: input-missing results
    MaxTime,        \* bound: ticks of the clock
    None

\* What the constants have to be.
Parameters ==
    /\ Trust \in Nat \ {0}
    /\ MaxForgets \in Nat /\ MaxTime \in Nat
    /\ None \notin Requests \cup Entries

VARIABLES
    held,           \* the entries the cache holds
    now,            \* the event loop's clock
    found,          \* found_in_cache: when an entry was found, or None
    checks,         \* cache_checks: the check under way for an entry, or None
    forgotten,      \* cache_forgotten
    task,           \* the checks: what they ask, since when, and what came back
    call            \* the callers: what they asked, when, and what they were told

vars == <<held, now, found, checks, forgotten, task, call>>

Answers == {"present", "absent", "unknown"}

\* A check not started, or over and told to everyone.
NoTask == [key |-> None, gen |-> 0, phase |-> "free", answer |-> "unknown"]
NoCall == [key |-> None, gen |-> 0, on |-> None, answer |-> "unknown"]

\* The shape of the state; the check cache_checks holds for an entry is a check of
\* that entry still under way, so nobody joins one that has ended.
TypeOK ==
    /\ held \subseteq Entries /\ now \in 0..MaxTime /\ forgotten \in 0..MaxForgets
    /\ found \in [Entries -> 0..MaxTime \cup {None}]
    /\ checks \in [Entries -> Requests \cup {None}]
    /\ task \in [Requests -> [key : Entries \cup {None}, gen : 0..MaxForgets,
                              phase : {"free", "sent", "read", "over"}, answer : Answers]]
    /\ call \in [Callers -> [key : Entries \cup {None}, gen : 0..MaxForgets,
                             on : Requests \cup {None}, answer : Answers]]
    /\ \A e \in Entries : checks[e] # None =>
         /\ task[checks[e]].key = e
         /\ task[checks[e]].phase \in {"sent", "read"}

Init ==
    /\ held \in SUBSET Entries /\ now = 0 /\ forgotten = 0
    /\ found = [e \in Entries |-> None]
    /\ checks = [e \in Entries |-> None]
    /\ task = [r \in Requests |-> NoTask]
    /\ call = [c \in Callers |-> NoCall]

Trusted(e) == found[e] # None /\ now - found[e] < Trust

\* _in_cache of a finding still trusted.
AskTrusted(c, e) ==
    /\ call[c].key = None /\ Trusted(e)
    /\ call' = [call EXCEPT ![c] = [key |-> e, gen |-> forgotten, on |-> None,
                                    answer |-> "present"]]
    /\ UNCHANGED <<held, now, found, checks, forgotten, task>>

\* _in_cache while a check of e is under way: the caller shares it.
AskShared(c, e) ==
    /\ call[c].key = None /\ ~Trusted(e) /\ checks[e] # None
    /\ call' = [call EXCEPT ![c] = [key |-> e, gen |-> forgotten, on |-> checks[e],
                                    answer |-> "unknown"]]
    /\ UNCHANGED <<held, now, found, checks, forgotten, task>>

\* _in_cache that starts a check; it notes cache_forgotten.
AskNew(c, e, r) ==
    /\ call[c].key = None /\ ~Trusted(e) /\ checks[e] = None
    /\ task[r].phase = "free"
    /\ task' = [task EXCEPT ![r] = [key |-> e, gen |-> forgotten, phase |-> "sent",
                                    answer |-> "unknown"]]
    /\ checks' = [checks EXCEPT ![e] = r]
    /\ call' = [call EXCEPT ![c] = [key |-> e, gen |-> forgotten, on |-> r,
                                    answer |-> "unknown"]]
    /\ UNCHANGED <<held, now, found, forgotten>>

\* The cache reads its entry for the request and answers, or the request fails.
CacheReads(r, answer) ==
    /\ task[r].phase = "sent"
    /\ answer \in {"unknown", IF task[r].key \in held THEN "present" ELSE "absent"}
    /\ task' = [task EXCEPT ![r].phase = "read", ![r].answer = answer]
    /\ UNCHANGED <<held, now, found, checks, forgotten, call>>

\* Mutant: the finding is kept whatever was forgotten since the check began.
FinishKeepsAll(r) ==
    /\ task[r].phase = "read"
    /\ found' = IF task[r].answer = "present" THEN [found EXCEPT ![task[r].key] = now] ELSE found
    /\ checks' = [checks EXCEPT ![task[r].key] = IF @ = r THEN None ELSE @]
    /\ task' = [task EXCEPT ![r].phase = "over"]
    /\ UNCHANGED <<held, now, forgotten, call>>

\* The answer reaches the process: a 200 is remembered unless something was
\* forgotten since the check began, and the check's own place in cache_checks,
\* not a later check's, is freed.
Finish(r) ==
    /\ task[r].phase = "read"
    /\ found' = IF task[r].answer = "present" /\ task[r].gen = forgotten
                THEN [found EXCEPT ![task[r].key] = now] ELSE found
    /\ checks' = [checks EXCEPT ![task[r].key] = IF @ = r THEN None ELSE @]
    /\ task' = [task EXCEPT ![r].phase = "over"]
    /\ UNCHANGED <<held, now, forgotten, call>>

\* A caller of the check resumes with its answer.
Resume(c) ==
    /\ call[c].on # None /\ task[call[c].on].phase = "over"
    /\ call' = [call EXCEPT ![c].on = None, ![c].answer = task[call[c].on].answer]
    /\ UNCHANGED <<held, now, found, checks, forgotten, task>>

\* A caller has used its answer.
Return(c) ==
    /\ call[c].key # None /\ call[c].on = None
    /\ call' = [call EXCEPT ![c] = NoCall]
    /\ UNCHANGED <<held, now, found, checks, forgotten, task>>

\* A check all of whose callers have its answer is gone.
Collect(r) ==
    /\ task[r].phase = "over" /\ \A c \in Callers : call[c].on # r
    /\ task' = [task EXCEPT ![r] = NoTask]
    /\ UNCHANGED <<held, now, found, checks, forgotten, call>>

\* _forget_cache_findings, on an input-missing result.
Forget ==
    /\ forgotten < MaxForgets
    /\ forgotten' = forgotten + 1
    /\ found' = [e \in Entries |-> None]
    /\ checks' = [e \in Entries |-> None]
    /\ UNCHANGED <<held, now, task, call>>

\* The sweep drops findings past their time; nobody would trust them anyway.
Sweep ==
    /\ \E e \in Entries : found[e] # None /\ ~Trusted(e)
    /\ found' = [e \in Entries |-> IF Trusted(e) THEN found[e] ELSE None]
    /\ UNCHANGED <<held, now, checks, forgotten, task, call>>

Tick ==
    /\ now < MaxTime
    /\ now' = now + 1
    /\ UNCHANGED <<held, found, checks, forgotten, task, call>>

\* The cache gains or evicts an entry.
CacheChanges(e) ==
    /\ held' = IF e \in held THEN held \ {e} ELSE held \cup {e}
    /\ UNCHANGED <<now, found, checks, forgotten, task, call>>

Next ==
    \/ \E c \in Callers, e \in Entries : \/ AskTrusted(c, e) \/ AskShared(c, e)
                                         \/ \E r \in Requests : AskNew(c, e, r)
    \/ \E r \in Requests : \/ \E answer \in Answers : CacheReads(r, answer)
                           \/ Finish(r) \/ Collect(r)
    \/ \E c \in Callers : Resume(c) \/ Return(c)
    \/ Forget \/ Sweep \/ Tick
    \/ \E e \in Entries : CacheChanges(e)

Spec == Init /\ [][Next]_vars

-----------------------------------------------------------------------------

\* Nothing older than the last input-missing result is used after it: nobody who asks
\* later is told what a check that began before it found (_in_cache: it "forgets every
\* entry found and every check under way"), and no finding is recorded that was not
\* asked of the cache since.
FindingsAreFresh ==
    /\ [](\A c \in Callers : call[c].on # None => task[call[c].on].gen = call[c].gen)
    /\ [][\A e \in Entries : found'[e] # found[e] /\ found'[e] # None =>
            \E r \in Requests : task[r].key = e /\ task[r].gen = forgotten']_vars
=============================================================================
