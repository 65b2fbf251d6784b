----------------------------- MODULE RankerGuard -----------------------------
(***************************************************************************)
(* The three guards the product search puts around its ranking service     *)
(* (midterm/src/main.go): a bulkhead, a circuit breaker and a timeout,     *)
(* composed by callRankerSafely.                                           *)
(*                                                                         *)
(* A caller is a request goroutine, and stands for another request once    *)
(* its answer is out.  Clocks are abstracted to what the code compares:    *)
(* whether ctx has expired (TimeOut may be taken) and whether resetTimeout *)
(* has passed since the last failure (cooled).                             *)
(***************************************************************************)
EXTENDS Naturals, FiniteSets

CONSTANTS
    Callers,         \* requests that may be under way at one time
    Threshold,       \* failures before the breaker opens
    MaxConcurrent,   \* capacity of the bulkhead's channel
    MaxHangs         \* timeouts in a behaviour: then the ranker is healthy

ASSUME GuardAssumption ==
    /\ Threshold \in Nat \ {0}
    /\ MaxConcurrent \in Nat
    /\ MaxHangs \in Nat

VARIABLES
    state,       \* cb.state
    failures,    \* cb.failures
    cooled,      \* time.Since(cb.lastFailure) > cb.resetTimeout
    sem,         \* elements in the bulkhead's channel
    call,        \* where each caller stands in callRankerSafely
    status,      \* the ranker status it is about to return ("none" before, and
                 \* after the response but for one that was refused)
    abandoned,   \* ranker goroutines whose caller has timed out
    hangs        \* timeouts so far

vars == <<state, failures, cooled, sem, call, status, abandoned, hangs>>

State == {"closed", "open", "halfopen"}

\* idle; past Acquire; past Allow, the ranker running; its result in the
\* channel; the select took the result, or ctx.Done(); before Release.
Call == {"idle", "admitted", "calling", "answered", "succeeded", "timedout",
         "leaving"}

CallStatus == {"none", "ranked", "timeout_fallback", "circuit_open",
           "bulkhead_rejected"}

Inside == {c \in Callers : call[c] # "idle"}
Asking == {c \in Callers : call[c] \in {"calling", "answered"}}

Init ==
    /\ state     = "closed"
    /\ failures  = 0
    /\ cooled    = TRUE
    /\ sem       = 0
    /\ call      = [c \in Callers |-> "idle"]
    /\ status    = [c \in Callers |-> "none"]
    /\ abandoned = 0
    /\ hangs     = 0

-----------------------------------------------------------------------------
(* The bulkhead.                                                           *)

\* A bug to tell apart: nobody is refused.
AcquireUnbounded(c) ==
    /\ call[c] = "idle"
    /\ sem' = sem + 1
    /\ call' = [call EXCEPT ![c] = "admitted"]
    /\ status' = [status EXCEPT ![c] = "none"]
    /\ UNCHANGED <<state, failures, cooled, abandoned, hangs>>

\* A bug to tell apart: without a free slot the request goes on without one.
AcquireNoSlot(c) ==
    /\ call[c] = "idle"
    /\ sem' = IF sem < MaxConcurrent THEN sem + 1 ELSE sem
    /\ call' = [call EXCEPT ![c] = "admitted"]
    /\ status' = [status EXCEPT ![c] = "none"]
    /\ UNCHANGED <<state, failures, cooled, abandoned, hangs>>

\* Acquire: a non-blocking send on the channel, or a refusal at once.
Acquire(c) ==
    /\ call[c] = "idle"
    /\ IF sem < MaxConcurrent
       THEN /\ sem' = sem + 1
            /\ call' = [call EXCEPT ![c] = "admitted"]
            /\ status' = [status EXCEPT ![c] = "none"]
       ELSE /\ status' = [status EXCEPT ![c] = "bulkhead_rejected"]
            /\ UNCHANGED <<sem, call>>
    /\ UNCHANGED <<state, failures, cooled, abandoned, hangs>>

\* A bug to tell apart: Release is not deferred, and skipped after a timeout.
ReleaseOnlyRanked(c) ==
    /\ call[c] = "leaving"
    /\ sem' = IF status[c] = "ranked" THEN sem - 1 ELSE sem
    /\ call' = [call EXCEPT ![c] = "idle"]
    /\ status' = [status EXCEPT ![c] = "none"]
    /\ UNCHANGED <<state, failures, cooled, abandoned, hangs>>

\* The deferred Release, on every way out of callRankerSafely: a receive that
\* would wait for ever on an empty channel.
Release(c) ==
    /\ call[c] = "leaving"
    /\ sem > 0
    /\ sem' = sem - 1
    /\ call' = [call EXCEPT ![c] = "idle"]
    /\ status' = [status EXCEPT ![c] = "none"]
    /\ UNCHANGED <<state, failures, cooled, abandoned, hangs>>

-----------------------------------------------------------------------------
(* The circuit breaker.  Its methods run under its mutex.                  *)

\* A bug to tell apart: an open breaker looks at the clock only when it has
\* just opened, and not after one failure more, a late or a probing one.
StateAllowProbeOnce ==
    IF state = "open" /\ cooled /\ failures = Threshold THEN "halfopen" ELSE state

\* The state after Allow: a cooled open breaker becomes half-open.
StateAfterAllow == IF state = "open" /\ cooled THEN "halfopen" ELSE state

\* Allow: everyone passes but at an open breaker.
Allow(c) ==
    /\ call[c] = "admitted"
    /\ state' = StateAfterAllow
    /\ IF StateAfterAllow = "open"
       THEN /\ call' = [call EXCEPT ![c] = "leaving"]
            /\ status' = [status EXCEPT ![c] = "circuit_open"]
       ELSE /\ call' = [call EXCEPT ![c] = "calling"]
            /\ UNCHANGED status
    /\ UNCHANGED <<failures, cooled, sem, abandoned, hangs>>

FailuresAfterSuccess == 0

\* RecordSuccess: closed, whatever the state was.
RecordSuccess(c) ==
    /\ call[c] = "succeeded"
    /\ failures' = FailuresAfterSuccess
    /\ state' = "closed"
    /\ call' = [call EXCEPT ![c] = "leaving"]
    /\ status' = [status EXCEPT ![c] = "ranked"]
    /\ UNCHANGED <<cooled, sem, abandoned, hangs>>

\* A bug to tell apart: a failure too many is needed to open.
OpensLate(n) == n > Threshold \/ state = "halfopen"

\* Whether n failures open the breaker.
Opens(n) == n >= Threshold \/ state = "halfopen"

\* RecordFailure.
RecordFailure(c) ==
    /\ call[c] = "timedout"
    /\ failures' = failures + 1
    /\ cooled' = FALSE
    /\ state' = IF Opens(failures + 1) THEN "open" ELSE state
    /\ call' = [call EXCEPT ![c] = "leaving"]
    /\ status' = [status EXCEPT ![c] = "timeout_fallback"]
    /\ UNCHANGED <<sem, abandoned, hangs>>

\* resetTimeout passes.
Cool ==
    /\ ~cooled
    /\ cooled' = TRUE
    /\ UNCHANGED <<state, failures, sem, call, status, abandoned, hangs>>

-----------------------------------------------------------------------------
(* The timeout: aiRankerWithTimeout.                                       *)

\* The ranker goroutine puts its result in the buffered channel.
RankerAnswers(c) ==
    /\ call[c] = "calling"
    /\ call' = [call EXCEPT ![c] = "answered"]
    /\ UNCHANGED <<state, failures, cooled, sem, status, abandoned, hangs>>

\* The select takes the result.
TakeResult(c) ==
    /\ call[c] = "answered"
    /\ call' = [call EXCEPT ![c] = "succeeded"]
    /\ UNCHANGED <<state, failures, cooled, sem, status, abandoned, hangs>>

\* The select takes ctx.Done(), which it may do even when the result is there
\* too; a ranker that has not answered goes on without its caller.
TimeOut(c) ==
    /\ hangs < MaxHangs
    /\ call[c] \in {"calling", "answered"}
    /\ call' = [call EXCEPT ![c] = "timedout"]
    /\ abandoned' = IF call[c] = "calling" THEN abandoned + 1 ELSE abandoned
    /\ hangs' = hangs + 1
    /\ UNCHANGED <<state, failures, cooled, sem, status>>

\* An abandoned ranker goroutine ends: nobody reads its buffered result.
AbandonedEnds ==
    /\ abandoned > 0
    /\ abandoned' = abandoned - 1
    /\ UNCHANGED <<state, failures, cooled, sem, call, status, hangs>>

-----------------------------------------------------------------------------

\* What a request goroutine does by itself once it is past Acquire.
Proceed(c) ==
    Allow(c) \/ RankerAnswers(c) \/ TakeResult(c) \/ RecordSuccess(c)
        \/ RecordFailure(c) \/ Release(c)

Next ==
    \/ \E c \in Callers : Acquire(c)
    \/ \E c \in Callers : Proceed(c)
    \/ \E c \in Callers : TimeOut(c)
    \/ AbandonedEnds
    \/ Cool

Spec == Init /\ [][Next]_vars

\* Every goroutine is scheduled, clocks advance, and clients keep searching.
Fairness ==
    /\ \A c \in Callers : WF_vars(Proceed(c)) /\ WF_vars(Acquire(c))
    /\ WF_vars(Cool)

FairSpec == Spec /\ Fairness

-----------------------------------------------------------------------------
(* Properties.                                                             *)

\* Every variable has its type, and the bulkhead keeps to its capacity.
TypeOK ==
    /\ state \in State
    /\ failures \in Nat
    /\ cooled \in BOOLEAN
    /\ sem \in 0..MaxConcurrent
    /\ call \in [Callers -> Call]
    /\ status \in [Callers -> CallStatus]
    /\ abandoned \in Nat
    /\ hangs \in 0..MaxHangs

\* The slots taken in the bulkhead are exactly the requests inside it, on every
\* path through breaker and timeout: no slot leaks, none is given back twice,
\* and a release never waits.
SlotsAreCallers == sem = Cardinality(Inside)

\* The breaker is closed exactly while the failures since the last success are
\* below the threshold, however the results of concurrent calls, those that
\* began before it opened included, interleave.
ClosedBelowThreshold == state = "closed" <=> failures < Threshold

\* A request inside the guards is answered in the end, whatever the ranker does.
EveryCallReturns == \A c \in Callers : call[c] = "admitted" ~> call[c] = "idle"

\* Once the ranker has stopped hanging the breaker ends up closed for good,
\* although probes fail, several at a time, and calls that began before it
\* opened, or before it closed again, fail late.
BreakerRecovers == <>[](state = "closed")
=============================================================================
