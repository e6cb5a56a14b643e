---------------------------- MODULE ProcessProofs ----------------------------
(***************************************************************************)
(* Proofs about what a coordinator process does: the runs it lets claims   *)
(* take (RunSlots), the claims that wait in it (ClaimWake) and what it     *)
(* remembers of the cache (CacheFindings), for any number of claims,       *)
(* actions, slots, callers, entries and checks.                            *)
(***************************************************************************)
EXTENDS MCProcess, FiniteSetTheorems, SequenceTheorems, TLAPS

-----------------------------------------------------------------------------
(* RunSlots *)

\* An instance counts as the library does.
LEMMA SlotsCardinality ==
    \A S : /\ Admission!Cardinality(S) = Cardinality(S)
           /\ Admission!IsFiniteSet(S) <=> IsFiniteSet(S)
  BY DEF Admission!Cardinality, Cardinality, Admission!IsFiniteSet, IsFiniteSet

\* A claim that is about to write has the lock of the row it chose, which is
\* still ready.
ChosenIsLocked ==
    \A c \in Claims : slotsPc[c] = "write" =>
        rowLock[chosen[c]] = c /\ state[chosen[c]] = "ready"

\* A claim that counts, or that chose a run by its count, has the advisory lock.
CounterHasLock ==
    \A c \in Claims :
        slotsPc[c] = "count" \/ (slotsPc[c] = "write" /\ chosen[c] \in Runs) => admission = c

\* What a claim counted is still true when it writes: there is a slot for its run.
ChosenHasSlot ==
    \A c \in Claims :
        slotsPc[c] = "write" /\ chosen[c] \in Runs => Cardinality(Admission!Running(Runs)) < Slots

\* The inductive invariant.
SlotsInv ==
    /\ Admission!TypeOK
    /\ ChosenIsLocked
    /\ CounterHasLock
    /\ ChosenHasSlot
    /\ Admission!RunsWithinSlots

-----------------------------------------------------------------------------

\* The running runs are finitely many, and no more of them when fewer actions run.
LEMMA RunningFinite ==
    ASSUME Admission!Parameters
    PROVE  /\ IsFiniteSet(Admission!Running(Runs))
           /\ Cardinality(Admission!Running(Runs)) \in Nat
           /\ \A S \in SUBSET Admission!Running(Runs) :
                Cardinality(S) \in Nat /\ Cardinality(S) <= Cardinality(Admission!Running(Runs))
<1>1. Admission!Running(Runs) \in SUBSET Runs
  BY DEF Admission!Running
<1>2. IsFiniteSet(Admission!Running(Runs))
  BY <1>1, FS_Subset, SlotsCardinality DEF Admission!Parameters
<1>3. \A S \in SUBSET Admission!Running(Runs) :
        Cardinality(S) \in Nat /\ Cardinality(S) <= Cardinality(Admission!Running(Runs))
  BY <1>2, FS_Subset, FS_CardinalityType
<1>4. QED
  BY <1>2, <1>3, FS_CardinalityType

\* A transaction that ends without a write leaves the others what they have.
LEMMA ReleaseKeepsInv ==
    ASSUME Admission!Parameters, SlotsInv, NEW c \in Claims, Admission!Release(c), UNCHANGED state
    PROVE  SlotsInv'
<1> USE DEF SlotsInv, Admission!TypeOK, Admission!Parameters, Admission!Release
<1>1. Admission!TypeOK'
  OBVIOUS
<1>2. ChosenIsLocked'
  BY DEF ChosenIsLocked, Admission!Actions
<1>3. CounterHasLock'
  BY DEF CounterHasLock
<1>4. ChosenHasSlot' /\ Admission!RunsWithinSlots'
  BY DEF ChosenHasSlot, Admission!RunsWithinSlots, Admission!Running
<1>5. QED
  BY <1>1, <1>2, <1>3, <1>4

\* The invariant holds before the first run.
LEMMA SlotsInit ==
    ASSUME Admission!Parameters, Admission!Init
    PROVE  SlotsInv
<1>1. Admission!Running(Runs) = {}
  BY DEF Admission!Init, Admission!Running, Admission!Actions
<1>2. Admission!TypeOK /\ ChosenIsLocked /\ CounterHasLock /\ ChosenHasSlot
  BY DEF Admission!Init, Admission!TypeOK, ChosenIsLocked, CounterHasLock, ChosenHasSlot,
     Admission!Actions
<1>3. Admission!RunsWithinSlots
  BY <1>1, FS_EmptySet, SlotsCardinality DEF Admission!RunsWithinSlots, Admission!Parameters
<1>4. QED
  BY <1>2, <1>3 DEF SlotsInv

\* Every step of the admission keeps the invariant.
LEMMA SlotsStep ==
    ASSUME Admission!Parameters, SlotsInv, [Admission!Next]_(Admission!vars)
    PROVE  SlotsInv'
<1> USE DEF SlotsInv, Admission!TypeOK, Admission!Parameters
<1>1. ASSUME NEW c \in Claims, NEW a \in Builds, Admission!TakeBuild(c, a)
      PROVE  SlotsInv'
  <2> USE <1>1 DEF Admission!TakeBuild, Admission!Choose, Admission!Free
  <2>1. Admission!TypeOK'
    BY DEF Admission!Actions
  <2>2. ChosenIsLocked'
    BY DEF ChosenIsLocked, Admission!Actions
  <2>3. CounterHasLock' /\ ChosenHasSlot' /\ Admission!RunsWithinSlots'
    BY DEF CounterHasLock, ChosenHasSlot, Admission!RunsWithinSlots, Admission!Running
  <2>4. QED
    BY <2>1, <2>2, <2>3
<1>2. ASSUME NEW c \in Claims, Admission!NoBuild(c)
      PROVE  SlotsInv'
  BY <1>2
     DEF Admission!NoBuild, ChosenIsLocked, CounterHasLock, ChosenHasSlot,
         Admission!RunsWithinSlots, Admission!Running
<1>3. ASSUME NEW c \in Claims, Admission!LockAdmission(c)
      PROVE  SlotsInv'
  BY <1>3 DEF Admission!LockAdmission, ChosenIsLocked, CounterHasLock, ChosenHasSlot,
              Admission!RunsWithinSlots, Admission!Running
<1>4. ASSUME NEW c \in Claims, Admission!TakeCounted(c)
      PROVE  SlotsInv'
  <2>1. CASE Admission!Release(c)
    BY <1>4, <2>1, ReleaseKeepsInv DEF Admission!TakeCounted
  <2>2. CASE ~Admission!Release(c)
    <3>1. PICK a \in Admission!Actions :
            /\ state[a] = "ready" /\ rowLock[a] = NoClaim
            /\ a \in Runs => Cardinality(Admission!Running(Runs)) < Slots
            /\ Admission!Choose(c, a) /\ UNCHANGED <<state, admission>>
      BY <1>4, <2>2, SlotsCardinality DEF Admission!TakeCounted, Admission!Free, Admission!Actions
    <3> USE <3>1 DEF Admission!Choose
    <3>2. slotsPc[c] = "count" /\ admission = c
      BY <1>4 DEF Admission!TakeCounted, CounterHasLock
    <3>3. Admission!TypeOK'
      BY DEF Admission!Actions
    <3>4. ChosenIsLocked'
      BY <3>2 DEF ChosenIsLocked, Admission!Actions
    <3>5. CounterHasLock'
      BY <3>2 DEF CounterHasLock
    <3>6. ChosenHasSlot' /\ Admission!RunsWithinSlots'
      BY <3>2 DEF ChosenHasSlot, Admission!RunsWithinSlots, Admission!Running
    <3>7. QED
      BY <3>3, <3>4, <3>5, <3>6
  <2>3. QED
    BY <2>1, <2>2
<1>5. ASSUME NEW c \in Claims, Admission!Commit(c)
      PROVE  SlotsInv'
  <2> USE <1>5 DEF Admission!Commit, Admission!Release
  <2> DEFINE a == chosen[c]
  <2>1. a \in Admission!Actions /\ rowLock[a] = c /\ state[a] = "ready"
    BY DEF ChosenIsLocked
  <2>2. Admission!TypeOK'
    OBVIOUS
  <2>3. ChosenIsLocked'
    BY <2>1 DEF ChosenIsLocked, Admission!Actions
  <2>4. CounterHasLock'
    BY DEF CounterHasLock
  <2>5. CASE a \in Runs
    <3>1. Admission!Running(Runs)' = Admission!Running(Runs) \cup {a}
      BY <2>1, <2>5 DEF Admission!Running, Admission!Actions
    <3>2. Cardinality(Admission!Running(Runs)') <= Slots
      BY <3>1, <2>5, RunningFinite, FS_AddElement DEF ChosenHasSlot
    <3>3. ChosenHasSlot'
      BY <2>5 DEF ChosenHasSlot, CounterHasLock
    <3>4. QED
      BY <2>2, <2>3, <2>4, <3>2, <3>3, SlotsCardinality DEF Admission!RunsWithinSlots
  <2>6. CASE a \notin Runs
    <3>1. Admission!Running(Runs)' = Admission!Running(Runs)
      BY <2>1, <2>6 DEF Admission!Running, Admission!Actions
    <3>2. QED
      BY <2>2, <2>3, <2>4, <3>1 DEF ChosenHasSlot, Admission!RunsWithinSlots
  <2>7. QED
    BY <2>5, <2>6
<1>6. ASSUME NEW c \in Claims, Admission!RollBack(c)
      PROVE  SlotsInv'
  BY <1>6, ReleaseKeepsInv DEF Admission!RollBack
<1>7. ASSUME NEW a \in Admission!Actions, NEW next \in {"over", "ready"}, Admission!EndLease(a, next)
      PROVE  SlotsInv'
  <2> USE <1>7 DEF Admission!EndLease
  <2>1. Admission!TypeOK' /\ CounterHasLock'
    BY DEF CounterHasLock
  <2>2. ChosenIsLocked'
    BY DEF ChosenIsLocked
  <2>3. Admission!Running(Runs)' \in SUBSET Admission!Running(Runs)
    BY DEF Admission!Running, Admission!Actions
  <2>4. Cardinality(Admission!Running(Runs)') \in Nat
        /\ Cardinality(Admission!Running(Runs)') <= Cardinality(Admission!Running(Runs))
    BY <2>3, RunningFinite
  <2>5. ChosenHasSlot' /\ Admission!RunsWithinSlots'
    BY <2>4, RunningFinite, SlotsCardinality DEF ChosenHasSlot, Admission!RunsWithinSlots
  <2>6. QED
    BY <2>1, <2>2, <2>5
<1>8. CASE UNCHANGED Admission!vars
  BY <1>8
     DEF Admission!vars, ChosenIsLocked, CounterHasLock, ChosenHasSlot,
         Admission!RunsWithinSlots, Admission!Running
<1>9. QED
  BY <1>1, <1>2, <1>3, <1>4, <1>5, <1>6, <1>7, <1>8 DEF Admission!Next, Admission!Claim

\* _claim: for any number of claims, actions and slots, the locks of its
\* transaction keep the running runs within RUN_SLOTS.
THEOREM SlotsAreEnough ==
    ASSUME Admission!Parameters
    PROVE  Admission!Spec => []RunsWithinSlots
<1>1. Admission!Init => SlotsInv
  BY SlotsInit
<1>2. SlotsInv /\ [Admission!Next]_(Admission!vars) => SlotsInv'
  BY SlotsStep
<1>3. SlotsInv => RunsWithinSlots
  BY DEF SlotsInv, RunsWithinSlots
<1>4. QED
  BY <1>1, <1>2, <1>3, PTL DEF Admission!Spec

-----------------------------------------------------------------------------
(* ClaimWake *)

\* An instance counts as the library does.
LEMMA WakeCardinality ==
    \A S : /\ Waiting!Cardinality(S) = Cardinality(S)
           /\ Waiting!IsFiniteSet(S) <=> IsFiniteSet(S)
  BY DEF Waiting!Cardinality, Cardinality, Waiting!IsFiniteSet, IsFiniteSet

WakeTypes ==
    /\ ready \subseteq ReadyActions /\ unwoken \in Nat /\ madeReady \in Nat /\ forgone \in Nat
    /\ waiters \in Seq(Claims)
    /\ pc \in [Claims -> Waiting!Pcs] /\ seen \in [Claims -> Nat] /\ woken \in [Claims -> BOOLEAN]

\* claim_waiters holds the claims that sleep unwoken, each once.
WaitersSleep == Waiting!IsInjective(waiters) /\ Waiting!ToSet(waiters) = Waiting!Asleep

\* made_ready only grows.
SeenIsPast == \A c \in Claims : seen[c] <= madeReady

\* A claim that got nothing, and whose made_ready is still the one it took, knows that
\* every ready action is still to be announced or was left behind.
EmptyMeansNone ==
    \A c \in Claims :
        pc[c] = "empty" /\ seen[c] = madeReady => Cardinality(ready) <= unwoken + forgone

\* While a claim sleeps, there is a wake on its way for every announced action that was
\* not left behind.
WakesAreEnough ==
    Waiting!Asleep # {} => Cardinality(ready) <= unwoken + Cardinality(Waiting!Carriers) + forgone

\* The inductive invariant.
WakeInv ==
    /\ WakeTypes
    /\ WaitersSleep
    /\ SeenIsPast
    /\ EmptyMeansNone
    /\ WakesAreEnough

\* A list that gains an element it has not, and one that loses its first.
LEMMA ListAppend ==
    ASSUME NEW S, NEW s \in Seq(S), NEW c \in S, Waiting!IsInjective(s), c \notin Waiting!ToSet(s)
    PROVE  /\ Append(s, c) \in Seq(S) /\ Waiting!IsInjective(Append(s, c))
           /\ Waiting!ToSet(Append(s, c)) = Waiting!ToSet(s) \cup {c}
<1>1. /\ Append(s, c) \in Seq(S) /\ Len(Append(s, c)) = Len(s) + 1
      /\ \A i \in 1..Len(s) : Append(s, c)[i] = s[i]
      /\ Append(s, c)[Len(s) + 1] = c
      /\ DOMAIN s = 1..Len(s) /\ DOMAIN Append(s, c) = 1..Len(s) + 1 /\ Len(s) \in Nat
  OBVIOUS
<1>2. \A i \in 1..Len(s) : s[i] # c
  BY <1>1 DEF Waiting!ToSet
<1>3. Waiting!IsInjective(Append(s, c))
  BY <1>1, <1>2 DEF Waiting!IsInjective
<1>4. Waiting!ToSet(Append(s, c)) = Waiting!ToSet(s) \cup {c}
  BY <1>1 DEF Waiting!ToSet
<1>5. QED
  BY <1>1, <1>3, <1>4

\* What is left of a list is a list without its head.
LEMMA ListTail ==
    ASSUME NEW S, NEW s \in Seq(S), Waiting!IsInjective(s)
    PROVE  /\ s = <<>> <=> Waiting!ToSet(s) = {}
           /\ s # <<>> => /\ Tail(s) \in Seq(S) /\ Waiting!IsInjective(Tail(s))
                          /\ Head(s) \in Waiting!ToSet(s)
                          /\ Waiting!ToSet(Tail(s)) = Waiting!ToSet(s) \ {Head(s)}
<1>1. DOMAIN s = 1..Len(s) /\ Len(s) \in Nat /\ (s = <<>> <=> Len(s) = 0)
  OBVIOUS
<1>2. s = <<>> <=> Waiting!ToSet(s) = {}
  <2>1. Len(s) = 0 => Waiting!ToSet(s) = {}
    BY <1>1 DEF Waiting!ToSet
  <2>2. Len(s) # 0 => s[1] \in Waiting!ToSet(s)
    BY <1>1 DEF Waiting!ToSet
  <2>3. QED
    BY <1>1, <2>1, <2>2
<1>3. ASSUME s # <<>>
      PROVE  /\ Tail(s) \in Seq(S) /\ Waiting!IsInjective(Tail(s)) /\ Head(s) \in Waiting!ToSet(s)
             /\ Waiting!ToSet(Tail(s)) = Waiting!ToSet(s) \ {Head(s)}
  <2>1. /\ Tail(s) \in Seq(S) /\ Len(Tail(s)) = Len(s) - 1 /\ Head(s) = s[1]
        /\ DOMAIN Tail(s) = 1..(Len(s) - 1) /\ Len(s) >= 1
        /\ \A i \in 1..(Len(s) - 1) : Tail(s)[i] = s[i + 1]
    BY <1>1, <1>3
  <2>2. Waiting!IsInjective(Tail(s))
    BY <1>1, <2>1 DEF Waiting!IsInjective
  <2>3. Head(s) \in Waiting!ToSet(s)
    BY <1>1, <2>1 DEF Waiting!ToSet
  <2>4. ASSUME NEW x \in Waiting!ToSet(Tail(s))
        PROVE  x \in Waiting!ToSet(s) \ {Head(s)}
    <3>1. PICK i \in 1..(Len(s) - 1) : x = s[i + 1]
      BY <2>1 DEF Waiting!ToSet
    <3>2. i + 1 \in 1..Len(s) /\ i + 1 # 1
      BY <1>1
    <3>3. QED
      BY <1>1, <2>1, <3>1, <3>2 DEF Waiting!ToSet, Waiting!IsInjective
  <2>5. ASSUME NEW x \in Waiting!ToSet(s) \ {Head(s)}
        PROVE  x \in Waiting!ToSet(Tail(s))
    <3>1. PICK i \in 1..Len(s) : x = s[i]
      BY <1>1 DEF Waiting!ToSet
    <3>2. i - 1 \in 1..(Len(s) - 1) /\ i = (i - 1) + 1
      BY <1>1, <2>1, <3>1
    <3>3. Tail(s)[i - 1] = x
      BY <2>1, <3>1, <3>2
    <3>4. QED
      BY <2>1, <3>2, <3>3 DEF Waiting!ToSet
  <2>6. QED
    BY <2>1, <2>2, <2>3, <2>4, <2>5
<1>4. QED
  BY <1>2, <1>3

\* list.remove of an element that is in the list once, or not at all.
LEMMA ListRemove ==
    ASSUME NEW S, NEW s \in Seq(S), NEW c, Waiting!IsInjective(s)
    PROVE  /\ Waiting!RemoveFirst(s, c) \in Seq(S) /\ Waiting!IsInjective(Waiting!RemoveFirst(s, c))
           /\ Waiting!ToSet(Waiting!RemoveFirst(s, c)) = Waiting!ToSet(s) \ {c}
<1>1. DOMAIN s = 1..Len(s) /\ Len(s) \in Nat
  OBVIOUS
<1>2. CASE c \notin Waiting!ToSet(s)
  <2>1. Waiting!RemoveFirst(s, c) = s
    BY <1>1, <1>2 DEF Waiting!RemoveFirst, Waiting!ToSet
  <2>2. QED
    BY <1>2, <2>1
<1>3. CASE c \in Waiting!ToSet(s)
  <2>1. PICK k \in 1..Len(s) : s[k] = c
    BY <1>1, <1>3 DEF Waiting!ToSet
  <2>2. {i \in 1..Len(s) : s[i] = c} = {k}
    BY <1>1, <2>1 DEF Waiting!IsInjective
  <2>3. Waiting!Min({k}) = k
    BY DEF Waiting!Min
  <2>4. Waiting!SelectInSeq(s, LAMBDA v : v = c) = k
    BY <2>2, <2>3 DEF Waiting!SelectInSeq
  <2> DEFINE t == Waiting!RemoveAt(s, k)
  <2>5. Waiting!RemoveFirst(s, c) = t
    BY <2>1, <2>4 DEF Waiting!RemoveFirst
  <2> DEFINE low == SubSeq(s, 1, k - 1)
             high == SubSeq(s, k + 1, Len(s))
  <2>6. /\ low \in Seq(S) /\ Len(low) = k - 1
        /\ \A i \in 1..(k - 1) : low[i] = s[i]
    <3>1. \A i \in 1..(k - 1) : s[i] \in S
      BY <1>1
    <3>2. /\ low \in Seq(S) /\ Len(low) = IF 1 <= k - 1 THEN (k - 1) - 1 + 1 ELSE 0
          /\ \A i \in 1..((k - 1) - 1 + 1) : low[i] = s[1 + i - 1]
      BY <1>1, <3>1, SubSeqProperties
    <3>3. QED
      BY <1>1, <3>2
  <2>7. /\ high \in Seq(S) /\ Len(high) = Len(s) - k
        /\ \A i \in 1..(Len(s) - k) : high[i] = s[k + i]
    <3>1. \A i \in (k + 1)..Len(s) : s[i] \in S
      BY <1>1
    <3>2. /\ high \in Seq(S) /\ Len(high) = IF k + 1 <= Len(s) THEN Len(s) - (k + 1) + 1 ELSE 0
          /\ \A i \in 1..(Len(s) - (k + 1) + 1) : high[i] = s[(k + 1) + i - 1]
      BY <1>1, <3>1, SubSeqProperties
    <3>3. /\ Len(s) - (k + 1) + 1 = Len(s) - k
          /\ (IF k + 1 <= Len(s) THEN Len(s) - (k + 1) + 1 ELSE 0) = Len(s) - k
      <4>1. ASSUME NEW n \in Nat, NEW j \in 1..n
            PROVE  n - (j + 1) + 1 = n - j /\ (IF j + 1 <= n THEN n - (j + 1) + 1 ELSE 0) = n - j
        OBVIOUS
      <4>2. QED
        BY <1>1, <4>1, Zenon
    <3>4. \A i \in 1..(Len(s) - k) : (k + 1) + i - 1 = k + i
      BY <1>1
    <3>5. \A i \in 1..(Len(s) - k) : high[i] = s[k + i]
      <4> HIDE DEF high
      <4>1. QED
        BY <3>2, <3>3, <3>4
    <3>6. QED
      BY <3>2, <3>3, <3>5
  <2> HIDE DEF low, high
  <2>8. /\ low \o high \in Seq(S) /\ Len(low \o high) = Len(s) - 1
        /\ \A i \in 1..(Len(s) - 1) : (low \o high)[i] = IF i <= k - 1 THEN low[i] ELSE high[i - (k - 1)]
    <3>1. /\ low \o high \in Seq(S) /\ Len(low \o high) = Len(low) + Len(high)
          /\ \A i \in 1..(Len(low) + Len(high)) :
               (low \o high)[i] = IF i <= Len(low) THEN low[i] ELSE high[i - Len(low)]
      BY <2>6, <2>7, ConcatProperties
    <3>2. Len(low) + Len(high) = Len(s) - 1 /\ Len(low) = k - 1
      BY <1>1, <2>6, <2>7
    <3>3. QED
      BY <3>1, <3>2
  <2>9. /\ t \in Seq(S) /\ DOMAIN t = 1..(Len(s) - 1)
        /\ \A i \in 1..(Len(s) - 1) : t[i] = IF i < k THEN s[i] ELSE s[i + 1]
    <3>1. t = low \o high
      BY DEF Waiting!RemoveAt, low, high
    <3>2. ASSUME NEW i \in 1..(Len(s) - 1), ~(i < k)
          PROVE  i - (k - 1) \in 1..(Len(s) - k) /\ k + (i - (k - 1)) = i + 1
      BY <1>1, <3>2
    <3>3. \A i \in 1..(Len(s) - 1) : (low \o high)[i] = IF i < k THEN s[i] ELSE s[i + 1]
      BY <1>1, <2>6, <2>7, <2>8, <3>2
    <3>4. DOMAIN (low \o high) = 1..(Len(s) - 1)
      BY <2>8
    <3>5. QED
      BY <2>8, <3>1, <3>3, <3>4
  <2> HIDE DEF t
  <2>10. Waiting!IsInjective(t)
    <3>1. ASSUME NEW i \in 1..(Len(s) - 1), NEW j \in 1..(Len(s) - 1), t[i] = t[j]
          PROVE  i = j
      <4>1. i \in 1..Len(s) /\ i + 1 \in 1..Len(s) /\ j \in 1..Len(s) /\ j + 1 \in 1..Len(s)
        BY <1>1
      <4>2. (IF i < k THEN s[i] ELSE s[i + 1]) = (IF j < k THEN s[j] ELSE s[j + 1])
        BY <2>9, <3>1
      <4>3. (IF i < k THEN i ELSE i + 1) = (IF j < k THEN j ELSE j + 1)
        BY <1>1, <4>1, <4>2 DEF Waiting!IsInjective
      <4>4. QED
        BY <1>1, <4>3
    <3>2. QED
      BY <2>9, <3>1 DEF Waiting!IsInjective
  <2>11. ASSUME NEW x \in Waiting!ToSet(t)
        PROVE  x \in Waiting!ToSet(s) \ {c}
    <3>1. PICK i \in 1..(Len(s) - 1) : x = t[i]
      BY <2>9 DEF Waiting!ToSet
    <3>2. \E j \in 1..Len(s) : j # k /\ x = s[j]
      BY <1>1, <2>1, <2>9, <3>1
    <3>3. QED
      BY <1>1, <2>1, <3>2 DEF Waiting!ToSet, Waiting!IsInjective
  <2>12. ASSUME NEW x \in Waiting!ToSet(s) \ {c}
         PROVE  x \in Waiting!ToSet(t)
    <3>1. PICK j \in 1..Len(s) : x = s[j] /\ j # k
      BY <1>1, <2>1 DEF Waiting!ToSet
    <3>2. \E i \in 1..(Len(s) - 1) : x = t[i]
      <4>1. CASE j < k
        BY <1>1, <2>1, <2>9, <3>1, <4>1
      <4>2. CASE j > k
        <5>1. j - 1 \in 1..(Len(s) - 1) /\ ~(j - 1 < k) /\ (j - 1) + 1 = j
          BY <1>1, <2>1, <4>2
        <5>2. t[j - 1] = x
          BY <2>9, <3>1, <5>1
        <5>3. QED
          BY <5>1, <5>2
      <4>3. QED
        BY <1>1, <3>1, <4>1, <4>2
    <3>3. QED
      BY <2>9, <3>2 DEF Waiting!ToSet
  <2>13. QED
    BY <2>5, <2>9, <2>10, <2>11, <2>12
<1>4. QED
  BY <1>2, <1>3

\* Sets of claims and of actions are finite.
LEMMA ClaimsFinite ==
    ASSUME Waiting!Parameters, NEW S \in SUBSET Claims
    PROVE  /\ IsFiniteSet(S) /\ Cardinality(S) \in Nat
           /\ \A c \in Claims \ S : Cardinality(S \cup {c}) = Cardinality(S) + 1
           /\ \A c \in S : Cardinality(S \ {c}) = Cardinality(S) - 1
  BY FS_Subset, FS_CardinalityType, FS_AddElement, FS_RemoveElement, WakeCardinality
     DEF Waiting!Parameters

\* Ready actions can be counted, one more and one less.
LEMMA ReadyFinite ==
    ASSUME Waiting!Parameters, NEW S \in SUBSET ReadyActions
    PROVE  /\ IsFiniteSet(S) /\ Cardinality(S) \in Nat
           /\ \A a \in ReadyActions \ S : Cardinality(S \cup {a}) = Cardinality(S) + 1
           /\ \A a \in S : Cardinality(S \ {a}) = Cardinality(S) - 1
  BY FS_Subset, FS_CardinalityType, FS_AddElement, FS_RemoveElement, WakeCardinality
     DEF Waiting!Parameters

\* What _wake_claim and _pass_wake do to the waiting claims.
LEMMA WakeFirstFacts ==
    ASSUME WakeTypes, WaitersSleep, Waiting!WakeFirst
    PROVE  \/ Waiting!Asleep = {} /\ UNCHANGED <<waiters, woken>>
           \/ /\ waiters' \in Seq(Claims) /\ Waiting!IsInjective(waiters')
              /\ \E h \in Waiting!Asleep : /\ woken' = [woken EXCEPT ![h] = TRUE]
                                   /\ Waiting!ToSet(waiters') = Waiting!Asleep \ {h}
<1>1. waiters \in Seq(Claims) /\ Waiting!IsInjective(waiters) /\ Waiting!ToSet(waiters) = Waiting!Asleep
  BY DEF WakeTypes, WaitersSleep
<1>2. CASE waiters = <<>>
  BY <1>1, <1>2, ListTail DEF Waiting!WakeFirst
<1>3. CASE waiters # <<>>
  <2>1. /\ Tail(waiters) \in Seq(Claims) /\ Waiting!IsInjective(Tail(waiters))
        /\ Head(waiters) \in Waiting!Asleep
        /\ Waiting!ToSet(Tail(waiters)) = Waiting!Asleep \ {Head(waiters)}
    BY <1>1, <1>3, ListTail
  <2>2. waiters' = Tail(waiters) /\ woken' = [woken EXCEPT ![Head(waiters)] = TRUE]
    BY <1>3 DEF Waiting!WakeFirst
  <2>3. QED
    BY <2>1, <2>2
<1>4. QED
  BY <1>2, <1>3

\* A release: an action more, and its wake still to come.
LEMMA MakeReadyKeeps ==
    ASSUME Waiting!Parameters, WakeInv, NEW a \in ReadyActions, Waiting!MakeReady(a)
    PROVE  WakeInv'
<1>1. /\ a \notin ready /\ ready' = ready \cup {a} /\ unwoken' = unwoken + 1
      /\ UNCHANGED <<madeReady, waiters, pc, seen, woken, forgone>>
  BY DEF Waiting!MakeReady
<1>2. WakeTypes /\ ready \subseteq ReadyActions /\ unwoken \in Nat /\ forgone \in Nat
  BY DEF WakeInv, WakeTypes
<1>3. Cardinality(ready') = Cardinality(ready) + 1 /\ Cardinality(ready) \in Nat
  BY <1>1, <1>2, ReadyFinite
<1>4. WakeTypes'
  BY <1>1, <1>2 DEF WakeTypes
<1>5. Waiting!Asleep' = Waiting!Asleep /\ Waiting!Carriers' = Waiting!Carriers /\ WaitersSleep' /\ SeenIsPast'
  BY <1>1 DEF Waiting!Asleep, Waiting!Carriers, WakeInv, WaitersSleep, SeenIsPast
<1>6. EmptyMeansNone'
  BY <1>1, <1>2, <1>3 DEF WakeInv, EmptyMeansNone
<1>7. WakesAreEnough'
  <2>1. Cardinality(Waiting!Carriers) \in Nat
    BY ClaimsFinite DEF Waiting!Carriers
  <2>2. QED
    BY <1>1, <1>2, <1>3, <1>5, <2>1 DEF WakeInv, WakesAreEnough
<1>8. QED
  BY <1>4, <1>5, <1>6, <1>7 DEF WakeInv

\* _wake_claim: the claim it wakes carries the wake.
LEMMA WakeKeeps ==
    ASSUME Waiting!Parameters, WakeInv, Waiting!Wake
    PROVE  WakeInv'
<1>1. /\ unwoken > 0 /\ unwoken' = unwoken - 1 /\ madeReady' = madeReady + 1 /\ Waiting!WakeFirst
      /\ UNCHANGED <<ready, pc, seen, forgone>>
  BY DEF Waiting!Wake
<1>2. WakeTypes /\ WaitersSleep
  BY DEF WakeInv
<1>3. unwoken' \in Nat /\ madeReady' \in Nat /\ unwoken \in Nat /\ madeReady \in Nat
      /\ forgone \in Nat
  BY <1>1, <1>2 DEF WakeTypes
<1>4. SeenIsPast' /\ EmptyMeansNone'
  BY <1>1, <1>2, <1>3 DEF WakeInv, WakeTypes, SeenIsPast, EmptyMeansNone
<1>5. CASE Waiting!Asleep = {} /\ UNCHANGED <<waiters, woken>>
  <2>1. Waiting!Asleep' = Waiting!Asleep
    BY <1>1, <1>5 DEF Waiting!Asleep
  <2>2. WakeTypes'
    BY <1>1, <1>2, <1>3, <1>5 DEF WakeTypes
  <2>3. QED
    BY <1>2, <1>4, <1>5, <2>1, <2>2 DEF WakeInv, WaitersSleep, WakesAreEnough
<1>6. CASE /\ waiters' \in Seq(Claims) /\ Waiting!IsInjective(waiters')
           /\ \E h \in Waiting!Asleep : /\ woken' = [woken EXCEPT ![h] = TRUE]
                                /\ Waiting!ToSet(waiters') = Waiting!Asleep \ {h}
  <2>1. PICK h \in Waiting!Asleep : /\ woken' = [woken EXCEPT ![h] = TRUE]
                            /\ Waiting!ToSet(waiters') = Waiting!Asleep \ {h}
    BY <1>6
  <2>2. h \in Claims /\ pc[h] = "asleep" /\ ~woken[h]
    BY DEF Waiting!Asleep
  <2>3. WakeTypes'
    BY <1>1, <1>2, <1>3, <1>6, <2>1 DEF WakeTypes
  <2>4. Waiting!Asleep' = Waiting!Asleep \ {h}
    BY <1>1, <1>2, <2>1, <2>2 DEF Waiting!Asleep, WakeTypes
  <2>5. Waiting!Carriers' = Waiting!Carriers \cup {h} /\ h \notin Waiting!Carriers
    BY <1>1, <1>2, <2>1, <2>2 DEF Waiting!Carriers, WakeTypes
  <2>6. Cardinality(Waiting!Carriers') = Cardinality(Waiting!Carriers) + 1 /\ Cardinality(Waiting!Carriers) \in Nat
    BY <2>2, <2>5, ClaimsFinite DEF Waiting!Carriers
  <2>7. Cardinality(ready) \in Nat
    BY <1>2, ReadyFinite DEF WakeTypes
  <2>8. WakesAreEnough'
    BY <1>1, <1>3, <2>4, <2>6, <2>7 DEF WakeInv, WakesAreEnough
  <2>9. WaitersSleep'
    BY <1>6, <2>1, <2>4 DEF WaitersSleep
  <2>10. QED
    BY <1>4, <2>3, <2>8, <2>9 DEF WakeInv
<1>7. QED
  BY <1>1, <1>2, <1>5, <1>6, WakeFirstFacts

\* The steps of a claim that change neither who sleeps nor who carries a wake.
LEMMA MovesKeep ==
    ASSUME Waiting!Parameters, WakeInv, NEW c \in Claims,
           \/ Waiting!Arrive(c) \/ Waiting!Try(c) \/ Waiting!Leave(c)
           \/ Waiting!WakeUp(c) \/ Waiting!TryAgain(c)
    PROVE  WakeInv'
<1>1. UNCHANGED <<ready, unwoken, madeReady, waiters, forgone>> /\ WakeTypes
  BY DEF Waiting!Arrive, Waiting!Try, Waiting!Leave, Waiting!WakeUp, Waiting!TryAgain, WakeInv
<1>2. WakeTypes'
  BY <1>1
     DEF WakeTypes, Waiting!Arrive, Waiting!Try, Waiting!Leave, Waiting!WakeUp, Waiting!TryAgain,
         Waiting!Pcs
<1>3. Waiting!Asleep' = Waiting!Asleep /\ Waiting!Carriers' = Waiting!Carriers
  BY <1>1
     DEF WakeTypes, Waiting!Asleep, Waiting!Carriers, Waiting!Arrive, Waiting!Try, Waiting!Leave,
         Waiting!WakeUp, Waiting!TryAgain
<1>4. \A d \in Claims : pc'[d] = "empty" => pc[d] = "empty" /\ seen'[d] = seen[d]
  BY <1>1
     DEF WakeTypes, Waiting!Arrive, Waiting!Try, Waiting!Leave, Waiting!WakeUp, Waiting!TryAgain
<1>5. EmptyMeansNone' /\ WaitersSleep' /\ WakesAreEnough'
  BY <1>1, <1>3, <1>4 DEF WakeInv, EmptyMeansNone, WaitersSleep, WakesAreEnough
<1>6. SeenIsPast'
  BY <1>1
     DEF WakeInv, SeenIsPast, WakeTypes, Waiting!Arrive, Waiting!Try, Waiting!Leave,
         Waiting!WakeUp, Waiting!TryAgain
<1>7. QED
  BY <1>2, <1>5, <1>6 DEF WakeInv

\* Counting the actions left behind as no more than there are ready is enough.
LEMMA AtMostIsEnough ==
    ASSUME NEW n \in Nat, NEW S, Cardinality(S) \in Nat
    PROVE  /\ Waiting!AtMost(n, S) \in Nat
           /\ \A m \in Nat : Cardinality(S) <= m + n =>
                             Cardinality(S) <= m + Waiting!AtMost(n, S)
<1>1. CASE n <= Cardinality(S)
  BY <1>1, WakeCardinality DEF Waiting!AtMost
<1>2. CASE ~(n <= Cardinality(S))
  BY <1>2, WakeCardinality DEF Waiting!AtMost
<1>3. QED
  BY <1>1, <1>2

\* A claim that ends is one carrier fewer at most.
LEMMA OneCarrierFewer ==
    ASSUME Waiting!Parameters, NEW c \in Claims, Waiting!Carriers' = Waiting!Carriers \ {c}
    PROVE  /\ Cardinality(Waiting!Carriers') \in Nat /\ Cardinality(Waiting!Carriers) \in Nat
           /\ c \in Waiting!Carriers =>
                Cardinality(Waiting!Carriers') = Cardinality(Waiting!Carriers) - 1
           /\ c \notin Waiting!Carriers =>
                Cardinality(Waiting!Carriers') = Cardinality(Waiting!Carriers)
<1>1. Waiting!Carriers \in SUBSET Claims /\ Waiting!Carriers \ {c} \in SUBSET Claims
  BY DEF Waiting!Carriers
<1>2. /\ Cardinality(Waiting!Carriers) \in Nat
      /\ Cardinality(Waiting!Carriers \ {c}) \in Nat
      /\ c \in Waiting!Carriers =>
            Cardinality(Waiting!Carriers \ {c}) = Cardinality(Waiting!Carriers) - 1
  BY <1>1, ClaimsFinite
<1>3. c \notin Waiting!Carriers => Waiting!Carriers \ {c} = Waiting!Carriers
  OBVIOUS
<1>4. QED
  BY <1>2, <1>3

\* An attempt that takes an action, or is cut off by an error and may have: one action
\* fewer, or, with a wake lost, one more left behind.
LEMMA AttemptKeeps ==
    ASSUME Waiting!Parameters, WakeInv, NEW c \in Claims,
           Waiting!Lease(c) \/ Waiting!AttemptRaises(c)
    PROVE  WakeInv'
<1> DEFINE n == IF Waiting!AttemptRaises(c) /\ woken[c] THEN forgone + 1 ELSE forgone
<1>1. /\ pc[c] = "asked" /\ WakeTypes /\ unwoken \in Nat /\ forgone \in Nat /\ n \in Nat
      /\ pc' = [pc EXCEPT ![c] = "gone"]
      /\ UNCHANGED <<unwoken, madeReady, waiters, seen, woken>>
  BY DEF Waiting!Lease, Waiting!AttemptRaises, Waiting!CutOff, WakeInv, WakeTypes
<1>2. /\ Cardinality(ready) \in Nat /\ Cardinality(ready') \in Nat
      /\ Cardinality(ready') <= Cardinality(ready) /\ ready' \in SUBSET ReadyActions
      /\ Waiting!Lease(c) => Cardinality(ready') = Cardinality(ready) - 1
  <2>1. ready \in SUBSET ReadyActions /\ ready' \in SUBSET ready
    BY <1>1 DEF WakeTypes, Waiting!Lease, Waiting!AttemptRaises, Waiting!CutOff
  <2>2. Waiting!Lease(c) => \E a \in ready : ready' = ready \ {a}
    BY DEF Waiting!Lease
  <2>3. ready' \in SUBSET ReadyActions
    BY <2>1
  <2>4. IsFiniteSet(ready) /\ Cardinality(ready) \in Nat /\ Cardinality(ready') \in Nat
    BY <2>1, <2>3, ReadyFinite
  <2>5. Cardinality(ready') <= Cardinality(ready)
    BY <2>1, <2>4, FS_Subset
  <2>6. Waiting!Lease(c) => Cardinality(ready') = Cardinality(ready) - 1
    BY <2>1, <2>2, ReadyFinite
  <2>7. QED
    BY <2>3, <2>4, <2>5, <2>6
<1>3. /\ \/ forgone' = Waiting!AtMost(n, ready')
         \/ Waiting!Lease(c) /\ forgone' = Waiting!AtMost(forgone, ready')
      /\ forgone' \in Nat
  <2>1. \/ forgone' = Waiting!AtMost(n, ready')
        \/ Waiting!Lease(c) /\ forgone' = Waiting!AtMost(forgone, ready')
    BY DEF Waiting!Lease, Waiting!AttemptRaises
  <2>2. QED
    BY <1>1, <1>2, <2>1, AtMostIsEnough
<1>4. WakeTypes' /\ SeenIsPast'
  BY <1>1, <1>2, <1>3 DEF WakeInv, WakeTypes, SeenIsPast, Waiting!Pcs
<1>5. Waiting!Asleep' = Waiting!Asleep /\ Waiting!Carriers' = Waiting!Carriers \ {c}
      /\ (woken[c] <=> c \in Waiting!Carriers)
  BY <1>1 DEF Waiting!Asleep, Waiting!Carriers, WakeTypes
<1>6. ASSUME NEW m \in Nat, Cardinality(ready') <= m + n,
             Waiting!Lease(c) => Cardinality(ready') <= m + forgone
      PROVE  Cardinality(ready') <= m + forgone'
  BY <1>1, <1>2, <1>3, <1>6, AtMostIsEnough
<1>7. EmptyMeansNone'
  <2>1. ASSUME NEW d \in Claims, pc'[d] = "empty", seen'[d] = madeReady'
        PROVE  Cardinality(ready') <= unwoken' + forgone'
    <3>1. pc[d] = "empty" /\ seen[d] = madeReady
      BY <1>1, <2>1 DEF WakeTypes
    <3>2. Cardinality(ready) <= unwoken + forgone
      BY <3>1 DEF WakeInv, EmptyMeansNone
    <3>3. Cardinality(ready') <= unwoken + n /\ Cardinality(ready') <= unwoken + forgone
      BY <1>1, <1>2, <3>2
    <3>4. QED
      BY <1>1, <1>6, <3>3
  <2>2. QED
    BY <2>1 DEF EmptyMeansNone
<1>8. WakesAreEnough'
  <2>1. SUFFICES ASSUME Waiting!Asleep # {}
                 PROVE  Cardinality(ready') <= unwoken' + Cardinality(Waiting!Carriers') + forgone'
    BY <1>5 DEF WakesAreEnough
  <2>2. Cardinality(ready) <= unwoken + Cardinality(Waiting!Carriers) + forgone
    BY <2>1 DEF WakeInv, WakesAreEnough
  <2>3. /\ Cardinality(Waiting!Carriers') \in Nat /\ Cardinality(Waiting!Carriers) \in Nat
        /\ Cardinality(Waiting!Carriers') >= Cardinality(Waiting!Carriers) - 1
        /\ ~woken[c] => Cardinality(Waiting!Carriers') = Cardinality(Waiting!Carriers)
    <3>1. /\ Cardinality(Waiting!Carriers') \in Nat /\ Cardinality(Waiting!Carriers) \in Nat
          /\ c \in Waiting!Carriers =>
               Cardinality(Waiting!Carriers') = Cardinality(Waiting!Carriers) - 1
          /\ c \notin Waiting!Carriers =>
               Cardinality(Waiting!Carriers') = Cardinality(Waiting!Carriers)
      BY <1>5, OneCarrierFewer, Zenon
    <3>2. QED
      BY <1>5, <3>1
  <2>4. CASE Waiting!Lease(c)
    <3>1. Cardinality(ready') <= unwoken + Cardinality(Waiting!Carriers') + forgone
      BY <1>1, <1>2, <2>2, <2>3, <2>4
    <3>2. Cardinality(ready') <= unwoken + Cardinality(Waiting!Carriers') + n
      BY <1>1, <1>2, <2>3, <3>1
    <3>3. unwoken + Cardinality(Waiting!Carriers') \in Nat
      BY <1>1, <2>3
    <3>4. QED
      BY <1>1, <1>6, <3>1, <3>2, <3>3
  <2>5. CASE ~Waiting!Lease(c)
    <3>1. Cardinality(ready') <= unwoken + Cardinality(Waiting!Carriers') + n
      BY <1>1, <1>2, <2>2, <2>3, <2>5
    <3>2. unwoken + Cardinality(Waiting!Carriers') \in Nat
      BY <1>1, <2>3
    <3>3. QED
      BY <1>1, <1>6, <2>5, <3>1, <3>2
  <2>6. QED
    BY <2>4, <2>5
<1>9. QED
  BY <1>1, <1>4, <1>5, <1>7, <1>8 DEF WakeInv, WaitersSleep

\* An attempt that gets nothing leaves behind what is ready and announced.
LEMMA MissKeeps ==
    ASSUME Waiting!Parameters, WakeInv, NEW c \in Claims, Waiting!Miss(c)
    PROVE  WakeInv'
<1>1. /\ pc[c] = "asked" /\ WakeTypes /\ unwoken \in Nat /\ forgone \in Nat
      /\ pc' = [pc EXCEPT ![c] = "empty"]
      /\ UNCHANGED <<ready, unwoken, madeReady, waiters, seen, woken>>
  BY DEF Waiting!Miss, WakeInv, WakeTypes
<1>2. Cardinality(ready) \in Nat
  BY <1>1, ReadyFinite DEF WakeTypes
<1>3. forgone' = IF forgone + unwoken < Cardinality(ready) THEN Cardinality(ready) - unwoken
                                                          ELSE forgone
  BY WakeCardinality DEF Waiting!Miss
<1>4. forgone' \in Nat /\ Cardinality(ready) <= unwoken + forgone'
  BY <1>1, <1>2, <1>3
<1>5. WakeTypes' /\ SeenIsPast'
  BY <1>1, <1>4 DEF WakeInv, WakeTypes, SeenIsPast, Waiting!Pcs
<1>6. Waiting!Asleep' = Waiting!Asleep
  BY <1>1 DEF Waiting!Asleep, WakeTypes
<1>7. Cardinality(Waiting!Carriers') \in Nat
  <2>1. Waiting!Carriers' \in SUBSET Claims
    BY DEF Waiting!Carriers
  <2>2. QED
    BY <2>1, ClaimsFinite
<1>8. EmptyMeansNone' /\ WakesAreEnough'
  BY <1>1, <1>2, <1>4, <1>7 DEF EmptyMeansNone, WakesAreEnough
<1>9. QED
  BY <1>1, <1>5, <1>6, <1>8 DEF WakeInv, WaitersSleep

\* A claim goes to sleep only knowing that every announced action left was left behind.
LEMMA SleepKeeps ==
    ASSUME Waiting!Parameters, WakeInv, NEW c \in Claims, Waiting!Sleep(c)
    PROVE  WakeInv'
<1>1. /\ pc[c] = "empty" /\ woken' = [woken EXCEPT ![c] = FALSE] /\ WakeTypes /\ unwoken \in Nat
      /\ forgone \in Nat /\ UNCHANGED <<ready, unwoken, madeReady, seen, forgone>>
  BY DEF Waiting!Sleep, WakeInv, WakeTypes
<1>2. CASE /\ madeReady = seen[c] /\ waiters' = Append(waiters, c)
           /\ pc' = [pc EXCEPT ![c] = "asleep"]
  <2>1. /\ c \notin Waiting!Asleep /\ waiters \in Seq(Claims)
        /\ Waiting!IsInjective(waiters) /\ Waiting!ToSet(waiters) = Waiting!Asleep
    BY <1>1 DEF Waiting!Asleep, WakeInv, WakeTypes, WaitersSleep
  <2>2. /\ waiters' \in Seq(Claims) /\ Waiting!IsInjective(waiters')
        /\ Waiting!ToSet(waiters') = Waiting!Asleep \cup {c}
    BY <1>2, <2>1, ListAppend
  <2>3. WakeTypes' /\ SeenIsPast'
    BY <1>1, <1>2, <2>2 DEF WakeInv, WakeTypes, SeenIsPast, Waiting!Pcs
  <2>4. Waiting!Asleep' = Waiting!Asleep \cup {c}
    BY <1>1, <1>2 DEF Waiting!Asleep, WakeTypes
  <2>5. Cardinality(ready) <= unwoken + forgone
    BY <1>1, <1>2 DEF WakeInv, EmptyMeansNone
  <2>6. Cardinality(Waiting!Carriers') \in Nat
    <3>1. Waiting!Carriers' \in SUBSET Claims
      BY DEF Waiting!Carriers
    <3>2. QED
      BY <3>1, ClaimsFinite
  <2>7. Cardinality(ready) \in Nat
    BY <1>1, ReadyFinite DEF WakeTypes
  <2>8. EmptyMeansNone' /\ WakesAreEnough'
    BY <1>1, <2>5, <2>6, <2>7 DEF EmptyMeansNone, WakesAreEnough
  <2>9. QED
    BY <2>2, <2>3, <2>4, <2>8 DEF WakeInv, WaitersSleep
<1>3. CASE pc' = [pc EXCEPT ![c] = "awake"] /\ UNCHANGED waiters
  <2>1. WakeTypes' /\ SeenIsPast'
    BY <1>1, <1>3 DEF WakeInv, WakeTypes, SeenIsPast, Waiting!Pcs
  <2>2. Waiting!Asleep' = Waiting!Asleep /\ Waiting!Carriers' = Waiting!Carriers
    BY <1>1, <1>3 DEF Waiting!Asleep, Waiting!Carriers, WakeTypes
  <2>3. EmptyMeansNone' /\ WaitersSleep' /\ WakesAreEnough'
    BY <1>1, <1>3, <2>2 DEF WakeInv, WakeTypes, EmptyMeansNone, WaitersSleep, WakesAreEnough
  <2>4. QED
    BY <2>1, <2>3 DEF WakeInv
<1>4. QED
  BY <1>2, <1>3 DEF Waiting!Sleep

\* A claim without a wake that stops sleeping leaves the list.
LEMMA UnwokenKeeps ==
    ASSUME Waiting!Parameters, WakeInv, NEW c \in Claims,
           Waiting!Recheck(c) \/ (Waiting!Disconnect(c) /\ ~woken[c])
    PROVE  WakeInv'
<1>1. /\ pc[c] \in {"asleep", "awake"} /\ ~woken[c] /\ WakeTypes
      /\ waiters' = Waiting!RemoveFirst(waiters, c)
      /\ pc' = [pc EXCEPT ![c] = "awake"] \/ pc' = [pc EXCEPT ![c] = "gone"]
      /\ UNCHANGED <<ready, unwoken, madeReady, seen, woken, forgone>>
  BY DEF Waiting!Recheck, Waiting!Disconnect, WakeInv
<1>2. waiters \in Seq(Claims) /\ Waiting!IsInjective(waiters) /\ Waiting!ToSet(waiters) = Waiting!Asleep
  BY DEF WakeInv, WakeTypes, WaitersSleep
<1>3. /\ waiters' \in Seq(Claims) /\ Waiting!IsInjective(waiters')
      /\ Waiting!ToSet(waiters') = Waiting!Asleep \ {c}
  BY <1>1, <1>2, ListRemove
<1>4. WakeTypes' /\ SeenIsPast'
  BY <1>1, <1>3 DEF WakeInv, WakeTypes, SeenIsPast, Waiting!Pcs
<1>5. Waiting!Asleep' = Waiting!Asleep \ {c} /\ Waiting!Carriers' = Waiting!Carriers
  BY <1>1 DEF Waiting!Asleep, Waiting!Carriers, WakeTypes
<1>6. WaitersSleep' /\ WakesAreEnough'
  BY <1>1, <1>3, <1>5 DEF WakeInv, WaitersSleep, WakesAreEnough
<1>7. EmptyMeansNone'
  BY <1>1 DEF WakeInv, WakeTypes, EmptyMeansNone
<1>8. QED
  BY <1>4, <1>6, <1>7 DEF WakeInv

\* With fewer ready, as many are left behind, or all of them.
LEMMA FewerReady ==
    ASSUME Waiting!Parameters, WakeTypes, ready' \subseteq ready,
           (forgone' = forgone /\ ready' = ready) \/ forgone' = Waiting!AtMost(forgone, ready')
    PROVE  /\ ready' \in SUBSET ReadyActions /\ forgone' \in Nat /\ unwoken \in Nat
           /\ \A m \in Nat :
                 Cardinality(ready) <= m + forgone => Cardinality(ready') <= m + forgone'
<1>1. /\ ready \in SUBSET ReadyActions /\ ready' \in SUBSET ReadyActions
      /\ forgone \in Nat /\ unwoken \in Nat
  BY DEF WakeTypes
<1>2. /\ Cardinality(ready) \in Nat /\ Cardinality(ready') \in Nat
      /\ Cardinality(ready') <= Cardinality(ready)
  BY <1>1, ReadyFinite, FS_Subset
<1>3. CASE forgone' = forgone /\ ready' = ready
  BY <1>1, <1>3
<1>4. CASE forgone' = Waiting!AtMost(forgone, ready')
  <2>1. /\ forgone' \in Nat
        /\ \A m \in Nat :
              Cardinality(ready') <= m + forgone => Cardinality(ready') <= m + forgone'
    BY <1>1, <1>2, <1>4, AtMostIsEnough
  <2>2. QED
    BY <1>1, <1>2, <2>1
<1>5. QED
  BY <1>3, <1>4

\* A claim that leaves with a wake hands it on, if anyone sleeps.
LEMMA PassKeeps ==
    ASSUME Waiting!Parameters, WakeInv, NEW c \in Claims, woken[c],
           Waiting!Disconnect(c) \/ Waiting!CancelAttempt(c)
    PROVE  WakeInv'
<1>1. /\ pc[c] \in {"asleep", "awake", "asked"} /\ WakeTypes /\ WaitersSleep /\ Waiting!WakeFirst
      /\ pc' = [pc EXCEPT ![c] = "gone"] /\ ready' \subseteq ready
      /\ UNCHANGED <<unwoken, madeReady, seen>>
  BY DEF Waiting!Disconnect, Waiting!CancelAttempt, Waiting!CutOff, WakeInv
<1>2. (forgone' = forgone /\ ready' = ready) \/ forgone' = Waiting!AtMost(forgone, ready')
  BY DEF Waiting!Disconnect, Waiting!CancelAttempt
<1>3. /\ ready' \in SUBSET ReadyActions /\ forgone' \in Nat /\ unwoken \in Nat
      /\ \A m \in Nat : Cardinality(ready) <= m + forgone => Cardinality(ready') <= m + forgone'
  BY <1>1, <1>2, FewerReady
<1>4. SeenIsPast'
  BY <1>1 DEF WakeInv, SeenIsPast
<1>5. EmptyMeansNone'
  BY <1>1, <1>3 DEF WakeInv, WakeTypes, EmptyMeansNone
<1>6. CASE Waiting!Asleep = {} /\ UNCHANGED <<waiters, woken>>
  <2>1. Waiting!Asleep' = Waiting!Asleep
    BY <1>1, <1>6 DEF Waiting!Asleep, WakeTypes
  <2>2. WakeTypes'
    BY <1>1, <1>3, <1>6 DEF WakeTypes, Waiting!Pcs
  <2>3. QED
    BY <1>1, <1>4, <1>5, <1>6, <2>1, <2>2 DEF WakeInv, WaitersSleep, WakesAreEnough
<1>7. CASE /\ waiters' \in Seq(Claims) /\ Waiting!IsInjective(waiters')
           /\ \E h \in Waiting!Asleep : /\ woken' = [woken EXCEPT ![h] = TRUE]
                                /\ Waiting!ToSet(waiters') = Waiting!Asleep \ {h}
  <2>1. PICK h \in Waiting!Asleep : /\ woken' = [woken EXCEPT ![h] = TRUE]
                            /\ Waiting!ToSet(waiters') = Waiting!Asleep \ {h}
    BY <1>7
  <2>2. h \in Claims /\ pc[h] = "asleep" /\ ~woken[h] /\ h # c
    BY DEF Waiting!Asleep
  <2>3. WakeTypes'
    BY <1>1, <1>3, <1>7, <2>1 DEF WakeTypes, Waiting!Pcs
  <2>4. Waiting!Asleep' = Waiting!Asleep \ {h}
    BY <1>1, <2>1, <2>2 DEF Waiting!Asleep, WakeTypes
  <2>5. Waiting!Carriers' = (Waiting!Carriers \ {c}) \cup {h} /\ c \in Waiting!Carriers /\ h \notin Waiting!Carriers \ {c}
    BY <1>1, <2>1, <2>2 DEF Waiting!Carriers, WakeTypes
  <2>6. Cardinality(Waiting!Carriers') = Cardinality(Waiting!Carriers) /\ Cardinality(Waiting!Carriers) \in Nat
    <3>1. Waiting!Carriers \in SUBSET Claims /\ Waiting!Carriers \ {c} \in SUBSET Claims
      BY DEF Waiting!Carriers
    <3>2. Cardinality(Waiting!Carriers) \in Nat /\ Cardinality(Waiting!Carriers \ {c}) = Cardinality(Waiting!Carriers) - 1
      BY <2>5, <3>1, ClaimsFinite
    <3>3. Cardinality((Waiting!Carriers \ {c}) \cup {h}) = Cardinality(Waiting!Carriers \ {c}) + 1
      BY <2>2, <2>5, <3>1, ClaimsFinite
    <3>4. QED
      BY <2>5, <3>2, <3>3
  <2>7. WakesAreEnough'
    <3>1. unwoken + Cardinality(Waiting!Carriers) \in Nat
      BY <1>3, <2>6
    <3>2. QED
      BY <1>1, <1>3, <2>4, <2>6, <3>1 DEF WakeInv, WakesAreEnough
  <2>8. WaitersSleep'
    BY <1>7, <2>1, <2>4 DEF WaitersSleep
  <2>9. QED
    BY <1>4, <1>5, <2>3, <2>7, <2>8 DEF WakeInv
<1>8. QED
  BY <1>1, <1>6, <1>7, WakeFirstFacts

\* A claim without a wake that is cancelled at the database.
LEMMA CancelKeeps ==
    ASSUME Waiting!Parameters, WakeInv, NEW c \in Claims, ~woken[c], Waiting!CancelAttempt(c)
    PROVE  WakeInv'
<1>1. /\ pc[c] = "asked" /\ WakeTypes /\ pc' = [pc EXCEPT ![c] = "gone"] /\ ready' \subseteq ready
      /\ UNCHANGED <<unwoken, madeReady, seen, waiters, woken>>
  BY DEF Waiting!CancelAttempt, Waiting!CutOff, WakeInv
<1>2. /\ ready' \in SUBSET ReadyActions /\ forgone' \in Nat /\ unwoken \in Nat
      /\ \A m \in Nat : Cardinality(ready) <= m + forgone => Cardinality(ready') <= m + forgone'
  BY <1>1, FewerReady DEF Waiting!CancelAttempt
<1>3. WakeTypes' /\ SeenIsPast'
  BY <1>1, <1>2 DEF WakeInv, WakeTypes, SeenIsPast, Waiting!Pcs
<1>4. Waiting!Asleep' = Waiting!Asleep /\ Waiting!Carriers' = Waiting!Carriers
  BY <1>1 DEF Waiting!Asleep, Waiting!Carriers, WakeTypes
<1>5. Cardinality(Waiting!Carriers) \in Nat
  BY ClaimsFinite DEF Waiting!Carriers
<1>6. EmptyMeansNone' /\ WaitersSleep'
  BY <1>1, <1>2, <1>4 DEF WakeInv, WakeTypes, EmptyMeansNone, WaitersSleep
<1>7. WakesAreEnough'
  <2>1. unwoken + Cardinality(Waiting!Carriers) \in Nat
    BY <1>2, <1>5
  <2>2. QED
    BY <1>1, <1>2, <1>4, <2>1 DEF WakeInv, WakesAreEnough
<1>8. QED
  BY <1>3, <1>6, <1>7 DEF WakeInv

\* Every step of the waiting claims keeps the invariant.
LEMMA WakeStep ==
    ASSUME Waiting!Parameters, WakeInv, [Waiting!Next]_(Waiting!vars)
    PROVE  WakeInv'
<1>1. CASE \E a \in ReadyActions : Waiting!MakeReady(a)
  BY <1>1, MakeReadyKeeps
<1>2. CASE Waiting!Wake
  BY <1>2, WakeKeeps
<1>3. ASSUME NEW c \in Claims,
             \/ Waiting!Step(c) \/ Waiting!Arrive(c) \/ Waiting!Leave(c)
             \/ Waiting!Recheck(c) \/ Waiting!Disconnect(c) \/ Waiting!CancelAttempt(c)
             \/ Waiting!AttemptRaises(c)
      PROVE  WakeInv'
  BY <1>3, MovesKeep, AttemptKeeps, MissKeeps, SleepKeeps, UnwokenKeeps, PassKeeps, CancelKeeps
     DEF Waiting!Step
<1>4. CASE UNCHANGED Waiting!vars
  BY <1>4
     DEF Waiting!vars, WakeInv, WakeTypes, WaitersSleep, SeenIsPast, EmptyMeansNone,
         WakesAreEnough, Waiting!Asleep, Waiting!Carriers
<1>5. QED
  BY <1>1, <1>2, <1>3, <1>4 DEF Waiting!Next

\* claim, _wake_claim and _pass_wake: for any number of claims and actions, however claims
\* time out, disconnect, are cancelled or fail, a sleeping claim leaves no announced action
\* without a wake but those an attempt looked for in vain or raised over.
THEOREM WakesAreNotLost ==
    ASSUME Waiting!Parameters
    PROVE  Waiting!Spec => []NoLostWake
<1>1. Waiting!Init => WakeInv
  <2>1. SUFFICES ASSUME Waiting!Init PROVE WakeInv
    OBVIOUS
  <2>2. /\ Waiting!Asleep = {} /\ Waiting!ToSet(waiters) = {}
        /\ Waiting!IsInjective(waiters) /\ waiters \in Seq(Claims)
    BY <2>1 DEF Waiting!Init, Waiting!Asleep, Waiting!ToSet, Waiting!IsInjective
  <2>3. WakeTypes
    BY <2>1, <2>2 DEF Waiting!Init, WakeTypes, Waiting!Pcs
  <2>4. QED
    BY <2>1, <2>2, <2>3
       DEF Waiting!Init, WakeInv, WaitersSleep, SeenIsPast, EmptyMeansNone, WakesAreEnough
<1>2. WakeInv /\ [Waiting!Next]_(Waiting!vars) => WakeInv'
  BY WakeStep
<1>3. WakeInv => NoLostWake
  BY WakeCardinality DEF WakeInv, WakesAreEnough, NoLostWake, Waiting!NoLostWake
<1>4. QED
  BY <1>1, <1>2, <1>3, PTL DEF Waiting!Spec

-----------------------------------------------------------------------------
(* CacheFindings *)

Tasks == [key : Entries \cup {None}, gen : 0..MaxForgets, phase : {"free", "sent", "read", "over"},
          answer : Findings!Answers]
Calls == [key : Entries \cup {None}, gen : 0..MaxForgets, on : Runs \cup {None},
          answer : Findings!Answers]

FindingsTypes ==
    /\ forgotten \in 0..MaxForgets
    /\ checks \in [Entries -> Runs \cup {None}]
    /\ task \in [Runs -> Tasks] /\ call \in [Claims -> Calls]

\* cache_checks has the checks begun since the last forget, under their keys.
ChecksAreCurrent ==
    \A e \in Entries : checks[e] # None =>
        /\ task[checks[e]].key = e
        /\ task[checks[e]].phase \in {"sent", "read"}
        /\ task[checks[e]].gen = forgotten

\* A check under way, or over and not collected, has a key.
TasksHaveKeys == \A r \in Runs : task[r].phase # "free" => task[r].key \in Entries

\* A caller waits for a check that began after the same forgets as its call.
CallersAreCurrent ==
    \A c \in Claims : call[c].on # None => /\ task[call[c].on].phase # "free"
                                            /\ task[call[c].on].gen = call[c].gen

\* found_in_cache has a time for an entry, or nothing.
FoundTypes == now \in 0..MaxTime /\ found \in [Entries -> 0..MaxTime \cup {None}]

\* The inductive invariant; FoundTypes goes along with it.
FindingsInv ==
    /\ FindingsTypes
    /\ ChecksAreCurrent
    /\ TasksHaveKeys
    /\ CallersAreCurrent

\* _in_cache: the caller joins the check under way, or begins one of its own.
LEMMA AskKeeps ==
    ASSUME Findings!Parameters, FindingsInv, NEW c \in Claims, NEW e \in Entries,
           \/ Findings!AskTrusted(c, e) \/ Findings!AskShared(c, e)
           \/ \E r \in Runs : Findings!AskNew(c, e, r)
    PROVE  FindingsInv'
<1> USE DEF FindingsTypes
<1>1. FindingsTypes /\ ChecksAreCurrent /\ TasksHaveKeys /\ CallersAreCurrent
  BY DEF FindingsInv
<1>2. CASE Findings!AskTrusted(c, e)
  <2> DEFINE new == [key |-> e, gen |-> forgotten, on |-> None, answer |-> "present"]
  <2>1. new \in Calls /\ new.on = None
    BY <1>1 DEF Calls, Findings!Answers
  <2>2. call' = [call EXCEPT ![c] = new] /\ UNCHANGED <<checks, forgotten, task>>
    BY <1>2 DEF Findings!AskTrusted
  <2> HIDE DEF new
  <2>3. QED
    BY <1>1, <2>1, <2>2 DEF FindingsInv, ChecksAreCurrent, TasksHaveKeys, CallersAreCurrent
<1>3. CASE Findings!AskShared(c, e)
  <2> DEFINE new == [key |-> e, gen |-> forgotten, on |-> checks[e], answer |-> "unknown"]
  <2>1. new \in Calls /\ new.on = checks[e] /\ new.gen = forgotten
    BY <1>1 DEF Calls, Findings!Answers
  <2>2. checks[e] # None /\ call' = [call EXCEPT ![c] = new] /\ UNCHANGED <<checks, forgotten, task>>
    BY <1>3 DEF Findings!AskShared
  <2> HIDE DEF new
  <2>3. task[checks[e]].phase # "free" /\ task[checks[e]].gen = forgotten
    BY <1>1, <2>2 DEF ChecksAreCurrent
  <2>4. QED
    BY <1>1, <2>1, <2>2, <2>3 DEF FindingsInv, ChecksAreCurrent, TasksHaveKeys, CallersAreCurrent
<1>4. CASE \E r \in Runs : Findings!AskNew(c, e, r)
  <2>1. PICK r \in Runs : Findings!AskNew(c, e, r)
    BY <1>4
  <2> DEFINE begun == [key |-> e, gen |-> forgotten, phase |-> "sent", answer |-> "unknown"]
             new == [key |-> e, gen |-> forgotten, on |-> r, answer |-> "unknown"]
  <2>2. /\ begun \in Tasks /\ begun.key = e /\ begun.gen = forgotten /\ begun.phase = "sent"
        /\ new \in Calls /\ new.on = r /\ new.gen = forgotten
    BY <1>1 DEF Tasks, Calls, Findings!Answers
  <2>3. /\ task[r].phase = "free" /\ task' = [task EXCEPT ![r] = begun]
        /\ checks' = [checks EXCEPT ![e] = r] /\ call' = [call EXCEPT ![c] = new]
        /\ UNCHANGED forgotten
    BY <2>1 DEF Findings!AskNew
  <2> HIDE DEF begun, new
  <2>4. FindingsTypes'
    BY <1>1, <2>2, <2>3
  <2>5. ChecksAreCurrent'
    BY <1>1, <2>2, <2>3 DEF ChecksAreCurrent, Findings!Parameters
  <2>6. TasksHaveKeys'
    BY <1>1, <2>2, <2>3 DEF TasksHaveKeys
  <2>7. CallersAreCurrent'
    <3>1. \A d \in Claims : d # c /\ call[d].on # None => call[d].on # r
      BY <1>1, <2>3 DEF CallersAreCurrent
    <3>2. QED
      BY <1>1, <2>2, <2>3, <3>1 DEF CallersAreCurrent, Calls
  <2>8. QED
    BY <2>4, <2>5, <2>6, <2>7 DEF FindingsInv
<1>5. QED
  BY <1>2, <1>3, <1>4

\* A check's own steps leave its key and its generation alone.
LEMMA TaskKeeps ==
    ASSUME Findings!Parameters, FindingsInv, NEW r \in Runs,
           \/ \E answer \in Findings!Answers : Findings!CacheReads(r, answer)
           \/ Findings!Finish(r) \/ Findings!Collect(r)
    PROVE  FindingsInv'
<1> USE DEF FindingsTypes
<1>1. FindingsTypes /\ ChecksAreCurrent /\ TasksHaveKeys /\ CallersAreCurrent
  BY DEF FindingsInv
<1>2. UNCHANGED <<forgotten, call>>
  BY DEF Findings!CacheReads, Findings!Finish, Findings!Collect
<1>3. CASE \E answer \in Findings!Answers : Findings!CacheReads(r, answer)
  <2>1. PICK answer \in Findings!Answers : Findings!CacheReads(r, answer)
    BY <1>3
  <2>2. /\ task[r].phase = "sent" /\ UNCHANGED checks
        /\ task' = [task EXCEPT ![r].phase = "read", ![r].answer = answer]
    BY <2>1 DEF Findings!CacheReads
  <2>3. /\ task'[r].key = task[r].key /\ task'[r].gen = task[r].gen /\ task'[r].phase = "read"
        /\ task' \in [Runs -> Tasks] /\ \A q \in Runs \ {r} : task'[q] = task[q]
    BY <1>1, <2>2 DEF Tasks
  <2>4. QED
    BY <1>1, <1>2, <2>2, <2>3
       DEF FindingsInv, ChecksAreCurrent, TasksHaveKeys, CallersAreCurrent, Calls
<1>4. CASE Findings!Finish(r)
  <2>1. /\ task[r].phase = "read" /\ task' = [task EXCEPT ![r].phase = "over"]
        /\ checks' = [checks EXCEPT ![task[r].key] = IF checks[task[r].key] = r THEN None
                                                     ELSE checks[task[r].key]]
    BY <1>4 DEF Findings!Finish
  <2>2. /\ task'[r].key = task[r].key /\ task'[r].gen = task[r].gen /\ task'[r].phase = "over"
        /\ task' \in [Runs -> Tasks] /\ \A q \in Runs \ {r} : task'[q] = task[q]
    BY <1>1, <2>1 DEF Tasks
  <2>3. checks' \in [Entries -> Runs \cup {None}]
    BY <1>1, <2>1
  <2>4. \A e \in Entries : checks'[e] # None => checks'[e] = checks[e] /\ checks[e] # r
    BY <1>1, <2>1 DEF ChecksAreCurrent
  <2>5. QED
    BY <1>1, <1>2, <2>1, <2>2, <2>3, <2>4
       DEF FindingsInv, ChecksAreCurrent, TasksHaveKeys, CallersAreCurrent, Calls
<1>5. CASE Findings!Collect(r)
  <2>1. /\ task[r].phase = "over" /\ task' = [task EXCEPT ![r] = Findings!NoTask] /\ UNCHANGED checks
        /\ \A c \in Claims : call[c].on # r
    BY <1>5 DEF Findings!Collect
  <2>2. Findings!NoTask \in Tasks /\ Findings!NoTask.phase = "free"
    BY <1>1 DEF Tasks, Findings!NoTask, Findings!Answers, Findings!Parameters
  <2>3. QED
    BY <1>1, <1>2, <2>1, <2>2
       DEF FindingsInv, ChecksAreCurrent, TasksHaveKeys, CallersAreCurrent, Calls
<1>6. QED
  BY <1>3, <1>4, <1>5

\* The steps of callers, of the clock, the sweep and the cache; and a forget.
LEMMA OthersKeep ==
    ASSUME Findings!Parameters, FindingsInv,
           \/ \E c \in Claims : Findings!Resume(c) \/ Findings!Return(c)
           \/ Findings!Forget \/ Findings!Sweep \/ Findings!Tick
           \/ \E e \in Entries : Findings!CacheChanges(e)
           \/ UNCHANGED Findings!vars
    PROVE  FindingsInv'
<1> USE DEF FindingsTypes
<1>1. FindingsTypes /\ ChecksAreCurrent /\ TasksHaveKeys /\ CallersAreCurrent
  BY DEF FindingsInv
<1>2. ASSUME NEW c \in Claims, Findings!Resume(c)
      PROVE  FindingsInv'
  <2>1. /\ call' = [call EXCEPT ![c].on = None, ![c].answer = task[call[c].on].answer]
        /\ call[c].on # None /\ UNCHANGED <<checks, forgotten, task>>
    BY <1>2 DEF Findings!Resume
  <2>2. call[c].on \in Runs /\ task[call[c].on].answer \in Findings!Answers
    BY <1>1, <2>1 DEF Calls, Tasks
  <2>3. call' \in [Claims -> Calls] /\ call'[c].on = None /\ \A d \in Claims \ {c} : call'[d] = call[d]
    BY <1>1, <2>1, <2>2 DEF Calls
  <2>4. QED
    BY <1>1, <2>1, <2>3 DEF FindingsInv, ChecksAreCurrent, TasksHaveKeys, CallersAreCurrent
<1>3. ASSUME NEW c \in Claims, Findings!Return(c)
      PROVE  FindingsInv'
  <2>1. call' = [call EXCEPT ![c] = Findings!NoCall] /\ UNCHANGED <<checks, forgotten, task>>
    BY <1>3 DEF Findings!Return
  <2>2. Findings!NoCall \in Calls /\ Findings!NoCall.on = None
    BY <1>1 DEF Calls, Findings!NoCall, Findings!Answers, Findings!Parameters
  <2>3. QED
    BY <1>1, <2>1, <2>2 DEF FindingsInv, ChecksAreCurrent, TasksHaveKeys, CallersAreCurrent
<1>4. CASE Findings!Forget
  BY <1>1, <1>4
     DEF Findings!Forget, Findings!Parameters, FindingsInv, ChecksAreCurrent, TasksHaveKeys,
                    CallersAreCurrent
<1>5. CASE UNCHANGED <<checks, forgotten, task, call>>
  BY <1>1, <1>5 DEF FindingsInv, ChecksAreCurrent, TasksHaveKeys, CallersAreCurrent
<1>6. QED
  BY <1>2, <1>3, <1>4, <1>5
     DEF Findings!Sweep, Findings!Tick, Findings!CacheChanges, Findings!vars

\* Every step of the findings keeps the invariant.
LEMMA FindingsStep ==
    ASSUME Findings!Parameters, FindingsInv, [Findings!Next]_(Findings!vars)
    PROVE  FindingsInv'
  BY AskKeeps, TaskKeeps, OthersKeep DEF Findings!Next

\* Every step keeps the types of the findings and of the clock.
LEMMA FoundStep ==
    ASSUME Findings!Parameters, FoundTypes, [Findings!Next]_(Findings!vars)
    PROVE  FoundTypes'
<1>1. CASE UNCHANGED <<found, now>>
  BY <1>1 DEF FoundTypes
<1>2. ASSUME NEW r \in Runs, Findings!Finish(r)
      PROVE  FoundTypes'
  BY <1>2 DEF Findings!Finish, FoundTypes
<1>3. CASE Findings!Forget \/ Findings!Sweep \/ Findings!Tick
  BY <1>3 DEF Findings!Forget, Findings!Sweep, Findings!Tick, FoundTypes, Findings!Parameters
<1>4. QED
  BY <1>1, <1>2, <1>3
     DEF Findings!Next, Findings!vars, Findings!AskTrusted, Findings!AskShared, Findings!AskNew,
         Findings!CacheReads, Findings!Collect, Findings!Resume, Findings!Return,
         Findings!CacheChanges

\* A caller is told nothing older than its call, and a finding that is recorded was asked of
\* the cache since the last forget.
ToldIsFresh == \A c \in Claims : call[c].on # None => task[call[c].on].gen = call[c].gen
RecordedIsFresh ==
    \A e \in Entries : found'[e] # found[e] /\ found'[e] # None =>
        \E r \in Runs : task[r].key = e /\ task[r].gen = forgotten'

\* _check_cache records only what the check of this entry found, and only when nothing was
\* forgotten since it began.
LEMMA OnlyFreshRecorded ==
    ASSUME Findings!Parameters, FoundTypes, [Findings!Next]_(Findings!vars)
    PROVE  RecordedIsFresh
<1>1. CASE UNCHANGED found
  BY <1>1 DEF RecordedIsFresh
<1>2. ASSUME NEW r \in Runs, Findings!Finish(r)
      PROVE  RecordedIsFresh
  BY <1>2 DEF Findings!Finish, FoundTypes, RecordedIsFresh
<1>3. CASE Findings!Forget \/ Findings!Sweep
  BY <1>3 DEF Findings!Forget, Findings!Sweep, RecordedIsFresh
<1>4. QED
  BY <1>1, <1>2, <1>3
     DEF Findings!Next, Findings!vars, Findings!AskTrusted, Findings!AskShared, Findings!AskNew,
         Findings!CacheReads, Findings!Collect, Findings!Resume, Findings!Return, Findings!Tick,
         Findings!CacheChanges

\* _in_cache, _check_cache and _forget_cache_findings: for any number of callers, entries
\* and overlapping checks, nothing found before an input-missing result is used after it.
THEOREM FindingsStayFresh ==
    ASSUME Findings!Parameters
    PROVE  Findings!Spec => FindingsAreFresh
<1>1. Findings!Init => FindingsInv /\ FoundTypes
  <2>1. SUFFICES ASSUME Findings!Init PROVE FindingsInv /\ FoundTypes
    OBVIOUS
  <2>2. Findings!NoTask \in Tasks /\ Findings!NoCall \in Calls /\ Findings!NoTask.phase = "free"
        /\ Findings!NoCall.on = None
    BY DEF Tasks, Calls, Findings!NoTask, Findings!NoCall, Findings!Answers, Findings!Parameters
  <2>3. FindingsTypes /\ FoundTypes
    BY <2>1, <2>2 DEF Findings!Init, FindingsTypes, FoundTypes, Findings!Parameters
  <2>4. QED
    BY <2>1, <2>2, <2>3 DEF Findings!Init, FindingsInv, ChecksAreCurrent, TasksHaveKeys,
                            CallersAreCurrent
<1>2. FindingsInv /\ [Findings!Next]_(Findings!vars) => FindingsInv'
  BY FindingsStep
<1>3. FoundTypes /\ [Findings!Next]_(Findings!vars) => FoundTypes'
  BY FoundStep
<1>4. FindingsInv => ToldIsFresh
  BY DEF FindingsInv, CallersAreCurrent, ToldIsFresh
<1>5. FoundTypes /\ [Findings!Next]_(Findings!vars) => [RecordedIsFresh]_(Findings!vars)
  BY OnlyFreshRecorded
<1>6. Findings!Spec => []ToldIsFresh /\ [][RecordedIsFresh]_(Findings!vars)
  BY <1>1, <1>2, <1>3, <1>4, <1>5, PTL DEF Findings!Spec
<1>7. QED
  BY <1>6 DEF FindingsAreFresh, Findings!FindingsAreFresh, ToldIsFresh, RecordedIsFresh
=============================================================================
