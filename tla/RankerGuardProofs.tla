-------------------------- MODULE RankerGuardProofs --------------------------
(***************************************************************************)
(* Proofs about the guards of the ranker, for any number of callers (an    *)
(* infinite supply included), any threshold, capacity and number of        *)
(* timeouts.                                                               *)
(***************************************************************************)
EXTENDS RankerGuard, FiniteSetTheorems, TLAPS

\* The type invariant, the capacity of the bulkhead with it, is inductive.
THEOREM TypeCorrect == Spec => []TypeOK
<1>1. Init => TypeOK
  BY GuardAssumption, SMT DEF Init, TypeOK, State, Call, CallStatus
<1>2. TypeOK /\ [Next]_vars => TypeOK'
  <2> SUFFICES ASSUME TypeOK, [Next]_vars PROVE TypeOK'
    OBVIOUS
  <2> USE GuardAssumption DEF TypeOK, State, Call, CallStatus
  <2>1. ASSUME NEW c \in Callers, Acquire(c) PROVE TypeOK'
    <3>1. CASE sem < MaxConcurrent
      BY <2>1, <3>1, SMT DEF Acquire
    <3>2. CASE ~(sem < MaxConcurrent)
      BY <2>1, <3>2, SMT DEF Acquire
    <3> QED BY <3>1, <3>2
  <2>2. ASSUME NEW c \in Callers, Allow(c) PROVE TypeOK'
    <3>1. StateAfterAllow \in State
      BY SMT DEF StateAfterAllow
    <3>2. CASE StateAfterAllow = "open"
      BY <2>2, <3>1, <3>2, SMT DEF Allow
    <3>3. CASE StateAfterAllow # "open"
      BY <2>2, <3>1, <3>3, SMT DEF Allow
    <3> QED BY <3>2, <3>3
  <2>3. ASSUME NEW c \in Callers, RankerAnswers(c) \/ TakeResult(c)
        PROVE TypeOK'
    BY <2>3, SMT DEF RankerAnswers, TakeResult
  <2>4. ASSUME NEW c \in Callers, RecordSuccess(c) PROVE TypeOK'
    BY <2>4, SMT DEF RecordSuccess, FailuresAfterSuccess
  <2>5. ASSUME NEW c \in Callers, RecordFailure(c) PROVE TypeOK'
    <3>1. cooled' \in BOOLEAN
      BY <2>5, Zenon DEF RecordFailure
    <3>2. state' \in State
      BY <2>5, Zenon DEF RecordFailure
    <3>3. /\ failures' \in Nat
          /\ call' \in [Callers -> Call]
          /\ status' \in [Callers -> CallStatus]
      BY <2>5, SMT DEF RecordFailure
    <3>4. UNCHANGED <<sem, abandoned, hangs>>
      BY <2>5 DEF RecordFailure
    <3> QED BY <3>1, <3>2, <3>3, <3>4
  <2>6. ASSUME NEW c \in Callers, Release(c) PROVE TypeOK'
    BY <2>6, SMT DEF Release
  <2>7. ASSUME NEW c \in Callers, TimeOut(c) PROVE TypeOK'
    BY <2>7, SMT DEF TimeOut
  <2>8. CASE AbandonedEnds
    BY <2>8, SMT DEF AbandonedEnds
  <2>9. CASE Cool
    BY <2>9, SMT DEF Cool
  <2>10. CASE UNCHANGED vars
    BY <2>10 DEF vars
  <2> QED
    BY <2>1, <2>2, <2>3, <2>4, <2>5, <2>6, <2>7, <2>8, <2>9, <2>10
       DEF Next, Proceed
<1> QED BY <1>1, <1>2, PTL DEF Spec

-----------------------------------------------------------------------------

\* The breaker is closed exactly below the threshold: cb.state and cb.failures,
\* which Allow, RecordSuccess and RecordFailure set and test apart, stay in step
\* whatever callers interleave.  With the types this is inductive.
THEOREM BreakerFollowsFailures == Spec => []ClosedBelowThreshold
<1>1. Init => ClosedBelowThreshold
  BY GuardAssumption, SMT DEF Init, ClosedBelowThreshold
<1>2. TypeOK /\ ClosedBelowThreshold /\ [Next]_vars => ClosedBelowThreshold'
  <2> SUFFICES ASSUME TypeOK, ClosedBelowThreshold, [Next]_vars
               PROVE ClosedBelowThreshold'
    OBVIOUS
  <2> USE DEF ClosedBelowThreshold
  <2>1. ASSUME NEW c \in Callers, Allow(c) PROVE ClosedBelowThreshold'
    BY <2>1 DEF Allow, StateAfterAllow
  <2>2. ASSUME NEW c \in Callers, RecordSuccess(c)
        PROVE ClosedBelowThreshold'
    BY <2>2, GuardAssumption, SMT DEF RecordSuccess, FailuresAfterSuccess
  <2>3. ASSUME NEW c \in Callers, RecordFailure(c)
        PROVE ClosedBelowThreshold'
    <3>1. failures \in Nat /\ Threshold \in Nat
      BY GuardAssumption DEF TypeOK
    <3>2. CASE Opens(failures + 1)
      <4>1. failures + 1 >= Threshold
        BY <3>1, <3>2, SMT DEF Opens
      <4> QED BY <2>3, <3>1, <3>2, <4>1, SMT DEF RecordFailure
    <3>3. CASE ~Opens(failures + 1)
      <4>1. failures + 1 < Threshold
        BY <3>1, <3>3, SMT DEF Opens
      <4> QED BY <2>3, <3>1, <3>3, <4>1, SMT DEF RecordFailure
    <3> QED BY <3>2, <3>3
  <2>4. CASE UNCHANGED <<state, failures>>
    BY <2>4
  <2> QED
    BY <2>1, <2>2, <2>3, <2>4
       DEF Next, Proceed, Acquire, RankerAnswers, TakeResult, Release,
           TimeOut, AbandonedEnds, Cool, vars
<1> QED BY <1>1, <1>2, TypeCorrect, PTL DEF Spec

-----------------------------------------------------------------------------

\* The bulkhead's count with what makes it inductive when the supply of
\* callers is not finite: those inside always are.
SlotInv == IsFiniteSet(Inside) /\ sem = Cardinality(Inside)

\* A caller that enters, leaves or moves on inside changes the set of callers
\* inside by itself and nobody else.
LEMMA InsideSteps ==
    ASSUME TypeOK, NEW c \in Callers, NEW k \in Call,
           call' = [call EXCEPT ![c] = k]
    PROVE  /\ k = "idle" => Inside' = Inside \ {c}
           /\ k # "idle" => Inside' = Inside \union {c}
BY SMT DEF Inside, TypeOK

\* Every slot that is taken belongs to one caller inside the guards.
THEOREM SlotsMatchCallers == Spec => []SlotsAreCallers
<1>1. Init => SlotInv
  BY FS_EmptySet, SMT DEF Init, SlotInv, Inside
<1>2. TypeOK /\ SlotInv /\ [Next]_vars => SlotInv'
  <2> SUFFICES ASSUME TypeOK, SlotInv, [Next]_vars PROVE SlotInv'
    OBVIOUS
  <2>1. ASSUME NEW c \in Callers, Acquire(c) PROVE SlotInv'
    <3>1. CASE sem < MaxConcurrent
      <4>1. Inside' = Inside \union {c} /\ c \notin Inside
        <5>1. call' = [call EXCEPT ![c] = "admitted"] /\ call[c] = "idle"
          BY <2>1, <3>1 DEF Acquire
        <5>2. "admitted" \in Call /\ "admitted" # "idle"
          BY DEF Call
        <5> QED BY <5>1, <5>2, InsideSteps DEF Inside
      <4>2. /\ IsFiniteSet(Inside \union {c})
            /\ Cardinality(Inside \union {c}) = Cardinality(Inside) + 1
        BY <4>1, FS_AddElement DEF SlotInv
      <4> QED BY <2>1, <3>1, <4>1, <4>2 DEF Acquire, SlotInv
    <3>2. CASE ~(sem < MaxConcurrent)
      BY <2>1, <3>2 DEF Acquire, SlotInv, Inside
    <3> QED BY <3>1, <3>2
  <2>2. ASSUME NEW c \in Callers, Release(c) PROVE SlotInv'
    <3>1. Inside' = Inside \ {c} /\ c \in Inside
      <4>1. call' = [call EXCEPT ![c] = "idle"] /\ call[c] = "leaving"
        BY <2>2 DEF Release
      <4>2. "idle" \in Call
        BY DEF Call
      <4> QED BY <4>1, <4>2, InsideSteps DEF Inside
    <3>2. /\ IsFiniteSet(Inside \ {c})
          /\ Cardinality(Inside \ {c}) = Cardinality(Inside) - 1
      BY <3>1, FS_RemoveElement DEF SlotInv
    <3> QED BY <2>2, <3>1, <3>2 DEF Release, SlotInv
  <2>3. ASSUME NEW c \in Callers, NEW k \in Call, k # "idle",
               c \in Inside, sem' = sem, call' = [call EXCEPT ![c] = k]
        PROVE SlotInv'
    <3>1. Inside' = Inside \union {c}
      BY <2>3, InsideSteps
    <3>2. Inside' = Inside
      BY <2>3, <3>1
    <3> QED BY <2>3, <3>2 DEF SlotInv
  <2>4. ASSUME NEW c \in Callers,
               \/ Allow(c) \/ RankerAnswers(c) \/ TakeResult(c)
               \/ RecordSuccess(c) \/ RecordFailure(c) \/ TimeOut(c)
        PROVE SlotInv'
    <3>1. c \in Inside /\ sem' = sem
      BY <2>4 DEF Allow, RankerAnswers, TakeResult, RecordSuccess,
                  RecordFailure, TimeOut, Inside
    <3>2. \E k \in Call : k # "idle" /\ call' = [call EXCEPT ![c] = k]
      BY <2>4, Zenon DEF Allow, RankerAnswers, TakeResult, RecordSuccess,
                  RecordFailure, TimeOut, Call
    <3> QED BY <2>3, <3>1, <3>2
  <2>5. CASE UNCHANGED <<sem, call>>
    BY <2>5 DEF SlotInv, Inside
  <2> QED
    BY <2>1, <2>2, <2>4, <2>5
       DEF Next, Proceed, AbandonedEnds, Cool, vars
<1>3. SlotInv => SlotsAreCallers
  BY DEF SlotInv, SlotsAreCallers
<1> QED BY <1>1, <1>2, <1>3, TypeCorrect, PTL DEF Spec
=============================================================================
