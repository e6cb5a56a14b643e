----------------------------- MODULE Submission -----------------------------
(***************************************************************************)
(* A submitted batch, from its text to its rows: parse_batch               *)
(* (remote-exec/remote_exec/formats.py) reads it line by line and checks   *)
(* the graph, the submit route (app.py) and submit (coordinator.py) take   *)
(* what it accepted, dag_priorities visits children before their parents   *)
(* and computes each action's critical depth and descendants, and the rows *)
(* are inserted under the tables' constraints.                             *)
(***************************************************************************)
EXTENDS Integers, FiniteSets, FiniteSetsExt

CONSTANTS
    Keys,           \* input keys that occur in texts
    MaxEdges        \* bound: edge lines of a text

\* What the constants have to be.
Parameters == IsFiniteSet(Keys) /\ MaxEdges \in Nat

VARIABLES
    answer,         \* "reading", "accepted", then the answer: "201", "400" or "500"
    actions,        \* the keys of the action lines
    edges,          \* the <<child, parent>> pairs of the edge lines
    edgeLines,      \* how many edge lines there were: len(batch.edges)
    nul,            \* whether a theory name or the profile holds a NUL character
    visited,        \* the actions static_order has given
    depth,          \* critical_depth of the visited ones, 0 for others
    descendants     \* the bitset of a visited action, as a set

vars == <<answer, actions, edges, edgeLines, nul, visited, depth, descendants>>

\* Nothing has been read.
Init ==
    /\ answer = "reading" /\ actions = {} /\ edges = {} /\ edgeLines = 0 /\ nul = FALSE
    /\ visited = {} /\ depth = [k \in Keys |-> 0] /\ descendants = [k \in Keys |-> {}]

Answer(status) == answer' = status

-----------------------------------------------------------------------------
(* parse_batch *)

\* A body that is not UTF-8, a wrong header, a line that has no known form, or a key that
\* is no SHA-256.  Blank lines are skipped.
BadLine ==
    /\ answer = "reading" /\ Answer("400")
    /\ UNCHANGED <<actions, edges, edgeLines, nul, visited, depth, descendants>>

\* What a theory name is to THEORY, [^\s:]+:\S+: one that does not match, or one that
\* matches.  A NUL is no white space, so a name that holds one matches.
TheoryNames == {"unmatched", "plain", "nul"}

ActionLine(k, theory) ==
    /\ answer = "reading"
    /\ IF k \in actions \/ theory = "unmatched"
       THEN Answer("400") /\ UNCHANGED <<actions, nul>>
       ELSE actions' = actions \cup {k} /\ nul' = (nul \/ theory = "nul") /\ UNCHANGED answer
    /\ UNCHANGED <<edges, edgeLines, visited, depth, descendants>>

\* An edge may come before the actions it joins.
EdgeLine(child, parent) ==
    /\ answer = "reading" /\ edgeLines < MaxEdges
    /\ edges' = edges \cup {<<child, parent>>} /\ edgeLines' = edgeLines + 1
    /\ UNCHANGED <<answer, actions, nul, visited, depth, descendants>>

\* Paths of n edges of es from k down to an action that depends on it.
Below(es) ==
    LET below[n \in 0..Cardinality(Keys)] == [k \in Keys |->
            IF n = 0 THEN {k} ELSE UNION {below[n - 1][e[1]] : e \in {e \in es : e[2] = k}}]
    IN  below

Lengths == 1..Cardinality(Keys)

\* TopologicalSorter.prepare: whether some node reaches itself.
CycleError(es) == \E n \in Lengths, k \in Keys : k \in Below(es)[n][k]

JoinActions == \A e \in edges : e[1] \in actions /\ e[2] \in actions /\ e[1] # e[2]

\* Mutant: an edge given twice is taken for one.
WellFormedRepeated == JoinActions /\ ~CycleError(edges)

\* The checks after the last line.
WellFormed == JoinActions /\ Cardinality(edges) = edgeLines /\ ~CycleError(edges)

\* The end of the text, and the route's check that a run batch has no edges.  The profile
\* is any string of the query.
EndOfText(class, profile) ==
    /\ answer = "reading"
    /\ Answer(IF WellFormed /\ (class = "run" => edgeLines = 0) THEN "accepted" ELSE "400")
    /\ nul' = (nul \/ profile = "nul")
    /\ UNCHANGED <<actions, edges, edgeLines, visited, depth, descendants>>

-----------------------------------------------------------------------------
(* dag_priorities *)

ChildrenOf(k) == {c \in Keys : <<c, k>> \in edges}

\* The keys static_order may give next.
Visitable == {k \in actions \ visited : ChildrenOf(k) \subseteq visited}

\* Mutant: only the children's own descendants are counted.
DescendantsOfChildren(k) == UNION {descendants[c] : c \in ChildrenOf(k)}

\* descendants[key] |= bit[c] | descendants[c]
DescendantsOf(k) == UNION {{c} \cup descendants[c] : c \in ChildrenOf(k)}

\* max(depth[c] + 1 for c in children, default 0)
DepthOf(k) == Max({0} \cup {depth[c] + 1 : c \in ChildrenOf(k)})

Visit(k) ==
    /\ answer = "accepted" /\ k \in Visitable
    /\ visited' = visited \cup {k}
    /\ depth' = [depth EXCEPT ![k] = DepthOf(k)]
    /\ descendants' = [descendants EXCEPT ![k] = DescendantsOf(k)]
    /\ UNCHANGED <<answer, actions, edges, edgeLines, nul>>

-----------------------------------------------------------------------------
(* submit *)

\* edges_no_self_loop.
NoSelfLoop == \A e \in edges : e[1] # e[2]

\* The primary key and the foreign keys of edges.  An action's key is its own by
\* ActionLine.
EdgesKeyed ==
    /\ edgeLines = Cardinality(edges)
    /\ \A e \in edges : {e[1], e[2]} \subseteq actions

\* Profile and theory are columns of type text, in which PostgreSQL takes no NUL.
TextStorable == ~nul

\* Every action has been visited and the rows are inserted; or the rest forms a cycle,
\* an edge's parent is no action (KeyError), or the database refuses a row or a
\* parameter: answer 500.
Store ==
    /\ answer = "accepted" /\ Visitable = {}
    /\ Answer(IF visited = actions /\ EdgesKeyed /\ NoSelfLoop /\ TextStorable
              THEN "201" ELSE "500")
    /\ UNCHANGED <<actions, edges, edgeLines, nul, visited, depth, descendants>>

Next ==
    \/ BadLine \/ Store
    \/ \E k \in Keys : Visit(k) \/ \E theory \in TheoryNames : ActionLine(k, theory)
    \/ \E child, parent \in Keys : EdgeLine(child, parent)
    \/ \E class \in {"build", "run"}, profile \in {"plain", "nul"} : EndOfText(class, profile)

Spec == Init /\ [][Next]_vars

-----------------------------------------------------------------------------

\* What parse_batch accepts can be stored unless it has a NUL where a text column goes: no
\* graph gets past its checks to fail in the computation of priorities or at a constraint
\* of the tables, which would be an internal error for a wrong request.
AcceptedBatchCanBeStored == answer = "500" => nul

\* The actions that depend on k, directly or transitively.
Dependents(k) == UNION {Below(edges)[n][k] : n \in Lengths}

\* In what is stored, descendant_count is the number of actions that depend on the
\* action directly or transitively, each counted once however many paths lead to it,
\* and critical_depth the edges on the longest path down (Priority's fields).
PrioritiesAreExact ==
    answer = "201" => \A k \in actions :
        /\ Cardinality(descendants[k]) = Cardinality(Dependents(k))
        /\ Below(edges)[depth[k]][k] # {}
        /\ \A n \in Lengths : n > depth[k] => Below(edges)[n][k] = {}
=============================================================================
