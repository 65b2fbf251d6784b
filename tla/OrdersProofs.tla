----------------------------- MODULE OrdersProofs -----------------------------
(***************************************************************************)
(* Proofs about the order service, for any set of orders (an infinite one  *)
(* included), any number of workers and any number of faults.              *)
(***************************************************************************)
EXTENDS Orders, FiniteSetTheorems, TLAPS

Receiving == {i \in Poller : poller[i] = "receiving"}
Busy      == task \union worked
Verifying == {o \in Orders : order[o] = "verifying"}

\* The semaphores with what makes their counts inductive: a delivery is worked
\* on by one goroutine, under a receipt that was not given out before.
SlotInv ==
    /\ \A t \in Busy : t[2] <= received[t[1]]
    /\ task \intersect worked = {}
    /\ IsFiniteSet(Busy)
    /\ IsFiniteSet(Verifying)
    /\ sem = Cardinality(Receiving) + Cardinality(Busy)
    /\ payment = Cardinality(Verifying)

\* A poller that asks the queue, or comes back from it, is the only one to.
LEMMA ReceivingSteps ==
    ASSUME TypeOK, NEW i \in Poller, NEW k \in {"acquiring", "receiving"},
           poller' = [poller EXCEPT ![i] = k]
    PROVE  /\ k = "receiving" => Receiving' = Receiving \union {i}
           /\ k = "acquiring" => Receiving' = Receiving \ {i}
BY DEF Receiving, TypeOK

LEMMA ReceivingFinite == IsFiniteSet(Receiving)
<1>1. IsFiniteSet(1..NumWorkers)
  BY OrdersAssumption, FS_Interval
<1> QED BY <1>1, FS_Subset DEF Receiving, Poller

\* A poller gives up its slot or hands it over.
LEMMA PollerReturns ==
    ASSUME TypeOK, NEW i \in Poller, poller[i] = "receiving",
           poller' = [poller EXCEPT ![i] = "acquiring"]
    PROVE  Cardinality(Receiving') = Cardinality(Receiving) - 1
<1>1. Receiving' = Receiving \ {i} /\ i \in Receiving
  BY ReceivingSteps DEF Receiving
<1> QED BY <1>1, ReceivingFinite, FS_RemoveElement

\* A handler that is not the one being verified does not count.
LEMMA VerifyingKept ==
    ASSUME TypeOK, NEW o \in Orders, NEW k, order[o] # "verifying",
           k # "verifying", order' = [order EXCEPT ![o] = k]
    PROVE  Verifying' = Verifying
BY DEF Verifying, TypeOK

LEMMA SlotStep ==
    ASSUME TypeOK, SlotInv, [Next]_vars PROVE SlotInv'
<1> USE DEF queue, receiver, workers
\* What the receiver and the topic do leaves the processor's slots alone.
<1>1. ASSUME UNCHANGED <<received, sem, poller, task, worked>>,
             IsFiniteSet(Verifying'), payment' = Cardinality(Verifying')
      PROVE SlotInv'
  BY <1>1 DEF SlotInv, Busy, Receiving
<1>2. ASSUME NEW o \in Orders, BeginSync(o) \/ Publish(o) \/ PublishFails(o)
      PROVE SlotInv'
  <2>1. PICK k \in {"waiting", "accepted", "error"} :
            order' = [order EXCEPT ![o] = k]
    BY <1>2 DEF BeginSync, Publish, PublishFails
  <2>2. Verifying' = Verifying
    BY <1>2, <2>1, VerifyingKept DEF BeginSync, Publish, PublishFails
  <2> QED BY <1>1, <1>2, <2>2 DEF BeginSync, Publish, PublishFails, SlotInv
<1>3. ASSUME NEW o \in Orders, TakePayment(o) PROVE SlotInv'
  <2>1. Verifying' = Verifying \union {o} /\ o \notin Verifying
    BY <1>3 DEF TakePayment, Verifying, TypeOK
  <2>2. /\ IsFiniteSet(Verifying')
        /\ Cardinality(Verifying') = Cardinality(Verifying) + 1
    BY <2>1, FS_AddElement DEF SlotInv
  <2> QED BY <1>1, <1>3, <2>2 DEF TakePayment, SlotInv
<1>4. ASSUME NEW o \in Orders, EndSync(o) PROVE SlotInv'
  <2>1. Verifying' = Verifying \ {o} /\ o \in Verifying
    BY <1>4 DEF EndSync, Verifying, TypeOK
  <2>2. /\ IsFiniteSet(Verifying')
        /\ Cardinality(Verifying') = Cardinality(Verifying) - 1
    BY <2>1, FS_RemoveElement DEF SlotInv
  <2> QED BY <1>1, <1>4, <2>2 DEF EndSync, SlotInv
<1>5. CASE CrashReceiver
  <2>1. Verifying' = {}
    BY <1>5 DEF CrashReceiver, Verifying
  <2> QED BY <1>1, <1>5, <2>1, FS_EmptySet DEF CrashReceiver
<1>6. ASSUME UNCHANGED <<receiver, received, workers>> PROVE SlotInv'
  BY <1>6 DEF SlotInv, Busy, Receiving, Verifying
<1>7. ASSUME NEW i \in Poller, Acquire(i) PROVE SlotInv'
  <2>1. Receiving' = Receiving \union {i} /\ i \notin Receiving
    BY <1>7, ReceivingSteps DEF Acquire, Receiving
  <2>2. Cardinality(Receiving') = Cardinality(Receiving) + 1
    BY <2>1, ReceivingFinite, FS_AddElement
  <2>3. Cardinality(Receiving) \in Nat /\ Cardinality(Busy) \in Nat
    BY ReceivingFinite, FS_CardinalityType DEF SlotInv
  <2>4. sem' = Cardinality(Receiving') + Cardinality(Busy)
    BY <1>7, <2>2, <2>3, SMT DEF Acquire, SlotInv
  <2> QED BY <1>7, <2>4 DEF Acquire, SlotInv, Busy, Verifying
<1>8. ASSUME NEW i \in Poller, NEW o \in Orders, Receive(i, o) PROVE SlotInv'
  <2> DEFINE t == <<o, received[o] + 1>>
  <2>1. received[o] \in Nat
    BY DEF TypeOK
  <2>2. Busy' = Busy \union {t} /\ t \notin Busy
    <3>1. t \notin Busy
      <4> SUFFICES ASSUME t \in Busy PROVE FALSE
        OBVIOUS
      <4>1. t[2] <= received[t[1]]
        BY DEF SlotInv
      <4> QED BY <2>1, <4>1, SMT
    <3> QED BY <1>8, <3>1 DEF Receive, Busy
  <2>3. IsFiniteSet(Busy') /\ Cardinality(Busy') = Cardinality(Busy) + 1
    BY <2>2, FS_AddElement DEF SlotInv
  <2>4. Cardinality(Receiving') = Cardinality(Receiving) - 1
    BY <1>8, PollerReturns DEF Receive
  <2>5. Cardinality(Receiving) \in Nat /\ Cardinality(Busy) \in Nat
    BY ReceivingFinite, FS_CardinalityType DEF SlotInv
  <2>6. sem' = Cardinality(Receiving') + Cardinality(Busy')
    BY <1>8, <2>3, <2>4, <2>5, SMT DEF Receive, SlotInv
  <2>7. task' \intersect worked' = {}
    BY <1>8, <2>2 DEF Receive, Busy, SlotInv
  <2>8. ASSUME NEW b \in Busy' PROVE b[2] <= received'[b[1]]
    <3>1. CASE b = t
      BY <1>8, <2>1, <3>1, SMT DEF Receive, TypeOK
    <3>2. CASE b \in Busy
      <4>1. b[1] \in Orders /\ b[2] \in Nat /\ b[2] <= received[b[1]]
        BY <3>2, SMT DEF Busy, TypeOK, SlotInv
      <4> QED BY <1>8, <4>1, SMT DEF Receive, TypeOK
    <3> QED BY <2>2, <2>8, <3>1, <3>2
  <2> QED
    BY <1>8, <2>3, <2>6, <2>7, <2>8 DEF Receive, SlotInv, Verifying
<1>9. ASSUME NEW i \in Poller, ReceiveNothing(i) \/ ReceiveFails(i)
      PROVE SlotInv'
  <2>1. Cardinality(Receiving') = Cardinality(Receiving) - 1
    BY <1>9, PollerReturns DEF ReceiveNothing, ReceiveFails
  <2>2. Cardinality(Receiving) \in Nat /\ Cardinality(Busy) \in Nat
    BY ReceivingFinite, FS_CardinalityType DEF SlotInv
  <2>3. UNCHANGED <<task, worked, order, payment>> /\ sem' = sem - 1
    BY <1>9 DEF ReceiveNothing, ReceiveFails
  <2>4. sem' = Cardinality(Receiving') + Cardinality(Busy)
    BY <2>1, <2>2, <2>3, SMT DEF SlotInv
  <2>5. ASSUME NEW b \in Busy PROVE b[2] <= received'[b[1]]
    <3>1. b[1] \in Orders /\ b[2] \in Nat /\ b[2] <= received[b[1]]
      BY SMT DEF Busy, TypeOK, SlotInv
    <3>2. received'[b[1]] \in {received[b[1]], received[b[1]] + 1}
      BY <1>9, <3>1 DEF ReceiveNothing, ReceiveFails, TypeOK
    <3>3. received[b[1]] \in Nat
      BY <3>1 DEF TypeOK
    <3> QED BY <3>1, <3>2, <3>3, SMT
  <2> QED BY <2>3, <2>4, <2>5 DEF SlotInv, Busy, Verifying
<1>10. ASSUME NEW t \in Busy, Work(t) PROVE SlotInv'
  <2>1. Busy' = Busy
    BY <1>10 DEF Work, Busy
  <2>2. task' \intersect worked' = {}
    BY <1>10 DEF Work, SlotInv
  <2> QED BY <1>10, <2>1, <2>2 DEF Work, SlotInv, Receiving, Verifying
<1>11. ASSUME NEW t \in Busy, Finish(t) \/ FinishFails(t) PROVE SlotInv'
  <2>1. /\ t \in worked /\ worked' = worked \ {t} /\ sem' = sem - 1
        /\ UNCHANGED <<task, received, poller, order, payment>>
    BY <1>11 DEF Finish, FinishFails
  <2>2. Busy' = Busy \ {t}
    BY <2>1 DEF Busy, SlotInv
  <2>3. IsFiniteSet(Busy') /\ Cardinality(Busy') = Cardinality(Busy) - 1
    BY <2>2, FS_RemoveElement DEF SlotInv
  <2>4. Cardinality(Receiving) \in Nat /\ Cardinality(Busy) \in Nat
    BY ReceivingFinite, FS_CardinalityType DEF SlotInv
  <2>5. sem' = Cardinality(Receiving) + Cardinality(Busy')
    BY <2>1, <2>3, <2>4, SMT DEF SlotInv
  <2> QED
    BY <2>1, <2>2, <2>3, <2>5 DEF SlotInv, Receiving, Verifying
<1>12. CASE CrashProcessor
  <2>1. Busy' = {} /\ Receiving' = {}
    BY <1>12 DEF CrashProcessor, Busy, Receiving
  <2> QED
    BY <1>12, <2>1, FS_EmptySet, SMT
       DEF CrashProcessor, SlotInv, Verifying, Busy
<1> QED
  BY <1>2, <1>3, <1>4, <1>5, <1>6, <1>7, <1>8, <1>9, <1>10, <1>11, <1>12
     DEF Next, Poll, Invoke, LambdaDone, LambdaFails, Deliver, Reappear,
         ReappearEarly, Busy, vars

\* The counts say how far down the semaphores can go, the guards how far up.
LEMMA TypeStep ==
    ASSUME TypeOK, SlotInv', [Next]_vars PROVE TypeOK'
<1> USE OrdersAssumption DEF TypeOK, queue, receiver, workers
<1>1. sem' \in Nat /\ payment' \in Nat
  <2>1. sem' = Cardinality(Receiving') + Cardinality(Busy')
    BY DEF SlotInv
  <2>2. IsFiniteSet(Receiving')
    <3>1. IsFiniteSet(1..NumWorkers)
      BY FS_Interval
    <3> QED BY <3>1, FS_Subset DEF Receiving, Poller
  <2>3. Cardinality(Receiving') \in Nat /\ Cardinality(Busy') \in Nat
    BY <2>2, FS_CardinalityType DEF SlotInv
  <2>4. payment' \in Nat
    BY FS_CardinalityType DEF SlotInv
  <2> QED BY <2>1, <2>3, <2>4, SMT
<1>2. ASSUME NEW o \in Orders, BeginSync(o) \/ TakePayment(o) \/ EndSync(o)
      PROVE TypeOK'
  <2>1. payment' \in 0..1
    BY <1>1, <1>2, SMT DEF BeginSync, TakePayment, EndSync
  <2> QED BY <1>2, <2>1 DEF BeginSync, TakePayment, EndSync
<1>3. CASE CrashReceiver
  BY <1>3, SMT DEF CrashReceiver, Fault
<1>4. ASSUME NEW o \in Orders, Invoke(o) \/ LambdaDone(o) PROVE TypeOK'
  <2>1. CASE Invoke(o)
    BY <2>1 DEF Invoke
  <2>2. CASE LambdaDone(o)
    <3>1. done' \in [Orders -> [queue : Nat, lambda : Nat]]
      BY <2>2, SMT DEF LambdaDone
    <3> QED BY <2>2, <3>1 DEF LambdaDone
  <2> QED BY <1>4, <2>1, <2>2
<1>5. ASSUME NEW o \in Orders, LambdaFails(o) PROVE TypeOK'
  <2>1. [done EXCEPT ![o].lambda = @ + 1] \in [Orders -> [queue : Nat, lambda : Nat]]
    BY SMT
  <2>2. faults' \in 0..MaxFaults
    BY <1>5, SMT DEF LambdaFails, Fault
  <2>3. invocation' \in
          [Orders -> {"none", "published", "invoked", "ended", "dropped"}]
    BY <1>5 DEF LambdaFails
  <2> QED BY <1>5, <2>1, <2>2, <2>3 DEF LambdaFails
<1>6. ASSUME NEW o \in Orders, Publish(o) \/ PublishFails(o) \/ Deliver(o)
      PROVE TypeOK'
  <2>1. faults' \in 0..MaxFaults
    BY <1>6, SMT DEF Publish, PublishFails, Deliver, Fault
  <2> QED BY <1>6, <2>1 DEF Publish, PublishFails, Deliver, Published
<1>7. ASSUME NEW i \in Poller, Acquire(i) \/ ReceiveNothing(i) PROVE TypeOK'
  <2>1. sem' \in 0..NumWorkers
    BY <1>1, <1>7, SMT DEF Acquire, ReceiveNothing
  <2> QED BY <1>7, <2>1 DEF Acquire, ReceiveNothing
<1>8. ASSUME NEW i \in Poller, NEW o \in Orders, Receive(i, o) PROVE TypeOK'
  <2>1. received[o] + 1 \in Nat \ {0}
    BY SMT
  <2> QED BY <1>8, <2>1 DEF Receive
<1>9. ASSUME NEW i \in Poller, ReceiveFails(i) PROVE TypeOK'
  <2>1. sem' \in 0..NumWorkers /\ faults' \in 0..MaxFaults
    BY <1>1, <1>9, SMT DEF ReceiveFails, Fault
  <2>2. ASSUME NEW o \in Orders PROVE received[o] + 1 \in Nat
    BY SMT
  <2>3. /\ message' \in
              [Orders -> {"none", "published", "visible", "hidden", "deleted"}]
        /\ received' \in [Orders -> Nat]
    BY <1>9, <2>2 DEF ReceiveFails
  <2> QED BY <1>9, <2>1, <2>3 DEF ReceiveFails
<1>10. ASSUME NEW t \in Busy, Work(t) PROVE TypeOK'
  <2>1. t \in task /\ t[1] \in Orders
    BY <1>10 DEF Work
  <2>2. [done EXCEPT ![t[1]].queue = @ + 1] \in [Orders -> [queue : Nat, lambda : Nat]]
    BY <2>1, SMT
  <2> QED BY <1>10, <2>1, <2>2 DEF Work
<1>11. ASSUME NEW t \in Busy, Finish(t) \/ FinishFails(t) PROVE TypeOK'
  <2>1. sem' \in 0..NumWorkers /\ faults' \in 0..MaxFaults
    BY <1>1, <1>11, SMT DEF Finish, FinishFails, Fault
  <2> QED BY <1>11, <2>1 DEF Finish, FinishFails
<1>12. ASSUME NEW o \in Orders, Reappear(o) \/ ReappearEarly(o) PROVE TypeOK'
  <2>1. faults' \in 0..MaxFaults
    BY <1>12, SMT DEF Reappear, ReappearEarly, Fault
  <2> QED BY <1>12, <2>1 DEF Reappear, ReappearEarly
<1>13. CASE CrashProcessor
  BY <1>13, SMT DEF CrashProcessor, Fault
<1>14. CASE UNCHANGED vars
  BY <1>14 DEF vars
<1> QED
  BY <1>2, <1>3, <1>4, <1>5, <1>6, <1>7, <1>8, <1>9, <1>10, <1>11, <1>12,
     <1>13, <1>14
     DEF Next, Poll, Busy

LEMMA SlotInvariant == Spec => [](TypeOK /\ SlotInv)
<1>1. Init => TypeOK /\ SlotInv
  <2> SUFFICES ASSUME Init PROVE TypeOK /\ SlotInv
    OBVIOUS
  <2>1. Busy = {} /\ Receiving = {} /\ Verifying = {}
    BY DEF Init, Busy, Receiving, Verifying
  <2>2. SlotInv
    BY <2>1, FS_EmptySet, SMT DEF Init, SlotInv, Busy
  <2>3. TypeOK
    BY OrdersAssumption, SMT DEF Init, TypeOK
  <2> QED BY <2>2, <2>3
<1>2. TypeOK /\ SlotInv /\ [Next]_vars => (TypeOK /\ SlotInv)'
  BY SlotStep, TypeStep
<1> QED BY <1>1, <1>2, PTL DEF Spec

\* Every variable keeps its type, and neither semaphore leaves its bounds.
THEOREM TypeCorrect == Spec => []TypeOK
BY SlotInvariant, PTL

\* A slot is taken exactly for each poller that asks the queue and each
\* goroutine that works on an order, and the payment's for the one order being
\* verified.
THEOREM SlotsMatchWork == Spec => []SlotsAreWork
<1>1. SlotInv => SlotsAreWork
  BY DEF SlotInv, SlotsAreWork, Receiving, Busy, Verifying
<1> QED BY SlotInvariant, <1>1, PTL

-----------------------------------------------------------------------------

\* What AcceptedIsKept rests on: a goroutine deletes its message only when it
\* has done the order.
KeptInv == AcceptedIsKept /\ \A t \in worked : done[t[1]].queue > 0

LEMMA KeptStep ==
    ASSUME TypeOK, KeptInv, [Next]_vars PROVE KeptInv'
<1> USE DEF TypeOK, KeptInv, AcceptedIsKept, queue, receiver, workers
<1>0. \A o \in Orders : done[o].queue \in Nat /\ done[o].lambda \in Nat
  OBVIOUS
<1>1. ASSUME UNCHANGED <<message, invocation, done>>, worked' \subseteq worked,
             faults' \in {faults, faults + 1},
             \A o \in Orders : order'[o] = "accepted" => order[o] = "accepted"
      PROVE KeptInv'
  BY <1>1, SMT
<1>2. ASSUME NEW o \in Orders, BeginSync(o) \/ TakePayment(o) \/ EndSync(o)
      PROVE KeptInv'
  BY <1>1, <1>2 DEF BeginSync, TakePayment, EndSync
<1>3. CASE CrashReceiver
  BY <1>1, <1>3 DEF CrashReceiver, Fault
<1>4. ASSUME NEW o \in Orders, Invoke(o) PROVE KeptInv'
  BY <1>4, SMT DEF Invoke
<1>5. ASSUME NEW o \in Orders, LambdaDone(o) PROVE KeptInv'
  <2>1. /\ \A p \in Orders : p # o => /\ done'[p] = done[p]
                                      /\ invocation'[p] = invocation[p]
        /\ done'[o].lambda = done[o].lambda + 1
        /\ done'[o].queue = done[o].queue
        /\ UNCHANGED <<order, message, worked, faults>>
    BY <1>5, SMT DEF LambdaDone
  <2>2. done[o].lambda + 1 # 0
    BY <1>0, SMT
  <2>3. \A t \in worked : t[1] \in Orders
    OBVIOUS
  <2> QED BY <2>1, <2>2, <2>3
<1>6. ASSUME NEW o \in Orders, LambdaFails(o) PROVE KeptInv'
  <2>1. \A p \in Orders : done'[p].queue = done[p].queue
    BY <1>6, SMT DEF LambdaFails
  <2>2. faults' # 0
    BY <1>6, SMT DEF LambdaFails, Fault
  <2>3. UNCHANGED <<order, message, worked>>
    BY <1>6 DEF LambdaFails
  <2>4. \A t \in worked : t[1] \in Orders
    OBVIOUS
  <2> QED BY <2>1, <2>2, <2>3, <2>4
<1>7. ASSUME NEW o \in Orders, Publish(o) PROVE KeptInv'
  BY <1>7 DEF Publish, Published
<1>8. ASSUME NEW o \in Orders, PublishFails(o) PROVE KeptInv'
  <2>1. /\ \A p \in Orders : p # o => /\ order'[p] = order[p]
                                      /\ message'[p] = message[p]
                                      /\ invocation'[p] = invocation[p]
        /\ order'[o] = "error"
        /\ UNCHANGED <<worked, done>>
    BY <1>8 DEF PublishFails, Published
  <2>2. faults' # 0
    BY <1>8, SMT DEF PublishFails, Fault
  <2> QED BY <2>1, <2>2
<1>9. ASSUME UNCHANGED <<order, invocation, worked, done>>,
             faults' \in {faults, faults + 1},
             \A o \in Orders :
                message[o] \in {"published", "visible", "hidden"} =>
                    message'[o] \in {"published", "visible", "hidden"}
      PROVE KeptInv'
  BY <1>9, SMT
<1>10. ASSUME NEW o \in Orders, Deliver(o) \/ Reappear(o) \/ ReappearEarly(o)
       PROVE KeptInv'
  BY <1>9, <1>10 DEF Deliver, Reappear, ReappearEarly, Fault
<1>11. ASSUME NEW i \in Poller, Acquire(i) \/ ReceiveNothing(i) PROVE KeptInv'
  BY <1>1, <1>11 DEF Acquire, ReceiveNothing
<1>12. ASSUME NEW i \in Poller, NEW o \in Orders, Receive(i, o) PROVE KeptInv'
  BY <1>9, <1>12 DEF Receive
<1>13. ASSUME NEW i \in Poller, ReceiveFails(i) PROVE KeptInv'
  <2>1. \A o \in Orders :
            message[o] \in {"published", "visible", "hidden"} =>
                message'[o] \in {"published", "visible", "hidden"}
    BY <1>13 DEF ReceiveFails
  <2> QED BY <1>9, <1>13, <2>1 DEF ReceiveFails, Fault
<1>14. ASSUME NEW t \in Busy, Work(t) PROVE KeptInv'
  <2>1. t \in task /\ t[1] \in Orders
    BY <1>14 DEF Work
  <2>2. /\ done'[t[1]].queue = done[t[1]].queue + 1
        /\ \A p \in Orders : /\ p # t[1] => done'[p] = done[p]
                             /\ done'[p].lambda = done[p].lambda
        /\ worked' = worked \union {t}
        /\ UNCHANGED <<order, message, invocation, faults>>
    BY <1>14, <2>1, SMT DEF Work
  <2>3. done'[t[1]].queue > 0
    BY <1>0, <2>1, <2>2, SMT
  <2>4. ASSUME NEW b \in worked' PROVE done'[b[1]].queue > 0
    <3>1. CASE b[1] = t[1]
      BY <2>3, <3>1
    <3>2. CASE b[1] # t[1]
      <4>1. b \in worked
        BY <2>2, <3>2
      <4> QED BY <2>2, <3>2, <4>1
    <3> QED BY <3>1, <3>2
  <2>5. ASSUME NEW o \in Orders, done'[o].queue = 0 PROVE done[o].queue = 0
    <3>1. o # t[1]
      BY <2>3, <2>5, SMT
    <3> QED BY <2>2, <2>5, <3>1
  <2> QED BY <2>2, <2>4, <2>5
<1>15. ASSUME NEW t \in Busy, Finish(t) \/ FinishFails(t) PROVE KeptInv'
  <2>1. /\ t \in worked /\ t[1] \in Orders /\ done[t[1]].queue > 0
        /\ worked' \subseteq worked
        /\ UNCHANGED <<order, invocation, done>>
        /\ \A p \in Orders : p # t[1] => message'[p] = message[p]
        /\ faults' \in {faults, faults + 1}
    BY <1>15 DEF Finish, FinishFails, Fault
  <2>2. \A o \in Orders : done[o].queue = 0 => message'[o] = message[o]
    BY <2>1, SMT
  <2>3. faults' = 0 => faults = 0
    BY <2>1, SMT
  <2> QED BY <2>1, <2>2, <2>3
<1>16. CASE CrashProcessor
  BY <1>1, <1>16 DEF CrashProcessor, Fault
<1>17. CASE UNCHANGED vars
  BY <1>17 DEF vars
<1> QED
  BY <1>2, <1>3, <1>4, <1>5, <1>6, <1>7, <1>8, <1>10, <1>11, <1>12, <1>13,
     <1>14, <1>15, <1>16, <1>17
     DEF Next, Poll, Busy

\* An order answered 202 is on its way or in the queue until a goroutine has
\* done it; as long as nothing fails it is with the function until that has.
THEOREM AcceptedKept == Spec => []AcceptedIsKept
<1>1. Init => KeptInv
  BY DEF Init, KeptInv, AcceptedIsKept
<1>2. KeptInv => AcceptedIsKept
  BY DEF KeptInv
<1> QED BY TypeCorrect, KeptStep, <1>1, <1>2, PTL DEF Spec

-----------------------------------------------------------------------------

\* An order that no handler has begun is nowhere.
IdleInv ==
    /\ \A o \in Orders :
          order[o] = "idle" => message[o] = "none" /\ invocation[o] = "none"
    /\ \A t \in Busy : order[t[1]] # "idle"

LEMMA IdleStep ==
    ASSUME TypeOK, IdleInv, [Next]_vars PROVE IdleInv'
<1> USE DEF TypeOK, IdleInv, Busy, queue, receiver, workers
<1>1. ASSUME \A o \in Orders : /\ order'[o] = "idle" => order[o] = "idle"
                               /\ message[o] = "none" => message'[o] = "none"
                               /\ invocation[o] = "none" => invocation'[o] = "none",
             Busy' \subseteq Busy
      PROVE IdleInv'
  <2>1. \A t \in Busy : t[1] \in Orders
    OBVIOUS
  <2> QED BY <1>1, <2>1
<1>2. ASSUME NEW o \in Orders, BeginSync(o) \/ TakePayment(o) \/ EndSync(o)
      PROVE IdleInv'
  BY <1>1, <1>2 DEF BeginSync, TakePayment, EndSync
<1>3. CASE CrashReceiver
  BY <1>1, <1>3 DEF CrashReceiver
<1>4. ASSUME NEW o \in Orders, Invoke(o) \/ LambdaDone(o) \/ LambdaFails(o)
      PROVE IdleInv'
  BY <1>1, <1>4 DEF Invoke, LambdaDone, LambdaFails
<1>5. ASSUME NEW o \in Orders, Publish(o) \/ PublishFails(o) PROVE IdleInv'
  <2>1. /\ \A p \in Orders : p # o => /\ order'[p] = order[p]
                                      /\ message'[p] = message[p]
                                      /\ invocation'[p] = invocation[p]
        /\ order'[o] # "idle"
        /\ UNCHANGED <<task, worked>>
    BY <1>5 DEF Publish, PublishFails, Published
  <2> QED BY <2>1
<1>6. ASSUME NEW o \in Orders, Deliver(o) \/ Reappear(o) \/ ReappearEarly(o)
      PROVE IdleInv'
  BY <1>1, <1>6 DEF Deliver, Reappear, ReappearEarly
<1>7. ASSUME NEW i \in Poller, Acquire(i) \/ ReceiveNothing(i) \/ ReceiveFails(i)
      PROVE IdleInv'
  <2>1. \A o \in Orders : message[o] = "none" => message'[o] = "none"
    BY <1>7 DEF Acquire, ReceiveNothing, ReceiveFails
  <2>2. UNCHANGED <<order, invocation, task, worked>>
    BY <1>7 DEF Acquire, ReceiveNothing, ReceiveFails
  <2> QED BY <2>1, <2>2
<1>8. ASSUME NEW i \in Poller, NEW o \in Orders, Receive(i, o) PROVE IdleInv'
  <2>1. /\ message[o] = "visible" /\ message'[o] = "hidden"
        /\ \A p \in Orders : p # o => message'[p] = message[p]
        /\ task' = task \union {<<o, received[o] + 1>>}
        /\ UNCHANGED <<order, invocation, worked>>
    BY <1>8 DEF Receive
  <2>2. order[o] # "idle"
    BY <2>1
  <2> QED BY <2>1, <2>2
<1>9. ASSUME NEW t \in Busy, Work(t) PROVE IdleInv'
  BY <1>1, <1>9 DEF Work
<1>10. ASSUME NEW t \in Busy, Finish(t) \/ FinishFails(t) PROVE IdleInv'
  <2>1. /\ order[t[1]] # "idle"
        /\ \A p \in Orders : p # t[1] => message'[p] = message[p]
        /\ worked' \subseteq worked
        /\ UNCHANGED <<order, invocation, task>>
    BY <1>10 DEF Finish, FinishFails
  <2> QED BY <2>1
<1>11. CASE CrashProcessor
  BY <1>1, <1>11 DEF CrashProcessor
<1>12. CASE UNCHANGED vars
  BY <1>12 DEF vars
<1> QED
  BY <1>2, <1>3, <1>4, <1>5, <1>6, <1>7, <1>8, <1>9, <1>10, <1>11, <1>12
     DEF Next, Poll

-----------------------------------------------------------------------------

\* How often an order can still be done without a fault: by each goroutine that
\* holds it, once more by the queue when the message is to be taken, and once
\* more by the function.
Tasks(o) == {t \in task : t[1] = o}

Open(o) ==
    IF \/ message[o] \in {"none", "published", "visible"}
       \/ message[o] = "hidden" /\ Holders(o) = {}
    THEN 1 ELSE 0

LambdaOpen(o) ==
    IF invocation[o] \in {"none", "published", "invoked"} THEN 1 ELSE 0

\* What was done and what can still be done of an order grow by faults alone.
Budget(o) ==
    done[o].queue + done[o].lambda
        + Cardinality(Tasks(o)) + Open(o) + LambdaOpen(o)

AgainInv == \A o \in Orders : Budget(o) <= 2 + faults

LEMMA TasksFinite ==
    ASSUME SlotInv, NEW o \in Orders
    PROVE  IsFiniteSet(Tasks(o)) /\ Cardinality(Tasks(o)) \in Nat
<1>1. Tasks(o) \subseteq Busy
  BY DEF Tasks, Busy
<1>2. IsFiniteSet(Tasks(o))
  BY <1>1, FS_Subset DEF SlotInv
<1> QED BY <1>2, FS_CardinalityType

LEMMA AgainStep ==
    ASSUME TypeOK, SlotInv, SlotInv', IdleInv, AgainInv, [Next]_vars,
           NEW o \in Orders
    PROVE  Budget(o)' <= 2 + faults'
<1> USE DEF TypeOK, queue, receiver, workers
<1>0. /\ Budget(o) <= 2 + faults /\ faults \in Nat
      /\ done[o].queue \in Nat /\ done[o].lambda \in Nat
      /\ Cardinality(Tasks(o)) \in Nat /\ Cardinality(Tasks(o)') \in Nat
      /\ Open(o) \in 0..1 /\ LambdaOpen(o) \in 0..1
      /\ Open(o)' \in 0..1 /\ LambdaOpen(o)' \in 0..1
  <2>1. Cardinality(Tasks(o)) \in Nat
    BY TasksFinite
  <2>2. Cardinality(Tasks(o)') \in Nat
    <3>1. Tasks(o)' \subseteq Busy'
      BY DEF Tasks, Busy
    <3> QED BY <3>1, FS_Subset, FS_CardinalityType DEF SlotInv
  <2>3. /\ Open(o) \in 0..1 /\ LambdaOpen(o) \in 0..1
        /\ Open(o)' \in 0..1 /\ LambdaOpen(o)' \in 0..1
    BY SMT DEF Open, LambdaOpen
  <2>4. done[o].queue \in Nat /\ done[o].lambda \in Nat /\ faults \in Nat
    BY OrdersAssumption, SMT
  <2> QED BY <2>1, <2>2, <2>3, <2>4 DEF AgainInv
\* Nothing more can be done.
<1>1. ASSUME done'[o] = done[o], Cardinality(Tasks(o)') <= Cardinality(Tasks(o)),
             Open(o)' <= Open(o), LambdaOpen(o)' <= LambdaOpen(o), faults' = faults
      PROVE Budget(o)' <= 2 + faults'
  BY <1>0, <1>1, SMT DEF Budget
\* A fault opens the queue's message once more.
<1>2. ASSUME done'[o] = done[o], Cardinality(Tasks(o)') <= Cardinality(Tasks(o)),
             LambdaOpen(o)' <= LambdaOpen(o), faults' = faults + 1
      PROVE Budget(o)' <= 2 + faults'
  BY <1>0, <1>2, SMT DEF Budget
<1>3. ASSUME UNCHANGED <<done, faults, message, received, task, worked, invocation>>
      PROVE Budget(o)' <= 2 + faults'
  <2>1. Tasks(o)' = Tasks(o) /\ Open(o)' = Open(o) /\ LambdaOpen(o)' = LambdaOpen(o)
    BY <1>3 DEF Tasks, Open, Holders, LambdaOpen
  <2> QED BY <1>0, <1>1, <1>3, <2>1, SMT
<1>4. CASE CrashReceiver
  <2>1. Tasks(o)' = Tasks(o) /\ LambdaOpen(o)' = LambdaOpen(o)
    BY <1>4 DEF CrashReceiver, Tasks, LambdaOpen
  <2> QED BY <1>0, <1>2, <1>4, <2>1, SMT DEF CrashReceiver, Fault
<1>5. ASSUME NEW p \in Orders, Invoke(p) PROVE Budget(o)' <= 2 + faults'
  <2>1. /\ Tasks(o)' = Tasks(o) /\ Open(o)' = Open(o)
        /\ LambdaOpen(o)' = LambdaOpen(o)
    BY <1>5 DEF Invoke, Tasks, Open, Holders, LambdaOpen
  <2> QED BY <1>0, <1>1, <1>5, <2>1, SMT DEF Invoke
<1>6. ASSUME NEW p \in Orders, LambdaDone(p) \/ LambdaFails(p)
      PROVE Budget(o)' <= 2 + faults'
  <2>1. Tasks(o)' = Tasks(o) /\ Open(o)' = Open(o)
    BY <1>6 DEF LambdaDone, LambdaFails, Tasks, Open, Holders
  <2>2. CASE p # o
    <3>1. done'[o] = done[o] /\ LambdaOpen(o)' = LambdaOpen(o)
      BY <1>6, <2>2 DEF LambdaDone, LambdaFails, LambdaOpen
    <3>2. faults' \in {faults, faults + 1}
      BY <1>6 DEF LambdaDone, LambdaFails, Fault
    <3> QED BY <1>0, <1>1, <1>2, <2>1, <3>1, <3>2, SMT
  <2>3. CASE p = o
    <3>1. done'[o].queue = done[o].queue
      BY <1>6, <2>3, SMT DEF LambdaDone, LambdaFails
    <3>2. LambdaOpen(o) = 1
      BY <1>6, <2>3 DEF LambdaDone, LambdaFails, LambdaOpen
    <3>3. CASE LambdaDone(p)
      <4>1. LambdaOpen(o)' = 0 /\ done'[o].lambda = done[o].lambda + 1
        BY <2>3, <3>3, SMT DEF LambdaDone, LambdaOpen
      <4>2. faults' = faults
        BY <3>3 DEF LambdaDone
      <4> QED BY <1>0, <2>1, <3>1, <3>2, <4>1, <4>2, SMT DEF Budget
    <3>4. CASE LambdaFails(p)
      <4>1. /\ done'[o].lambda \in {done[o].lambda, done[o].lambda + 1}
            /\ faults' = faults + 1
        BY <2>3, <3>4, SMT DEF LambdaFails, Fault
      <4> QED BY <1>0, <2>1, <3>1, <3>2, <4>1, SMT DEF Budget
    <3> QED BY <1>6, <3>3, <3>4
  <2> QED BY <2>2, <2>3
<1>7. ASSUME NEW p \in Orders, Publish(p) \/ PublishFails(p)
      PROVE Budget(o)' <= 2 + faults'
  <2>1. Tasks(o)' = Tasks(o) /\ done'[o] = done[o]
    BY <1>7 DEF Publish, PublishFails, Tasks
  <2>2. LambdaOpen(o)' <= LambdaOpen(o)
    <3>1. CASE p = o
      <4>1. LambdaOpen(o) = 1
        BY <1>7, <3>1 DEF Publish, PublishFails, IdleInv, LambdaOpen
      <4> QED BY <1>0, <4>1, SMT
    <3>2. CASE p # o
      <4>1. LambdaOpen(o)' = LambdaOpen(o)
        BY <1>7, <3>2 DEF Publish, PublishFails, Published, LambdaOpen
      <4> QED BY <1>0, <4>1, SMT
    <3> QED BY <3>1, <3>2
  <2>3. Open(o)' <= Open(o)
    <3>1. CASE p = o
      <4>1. Open(o) = 1
        BY <1>7, <3>1 DEF Publish, PublishFails, IdleInv, Open
      <4> QED BY <1>0, <4>1, SMT
    <3>2. CASE p # o
      <4>1. Open(o)' = Open(o)
        BY <1>7, <3>2 DEF Publish, PublishFails, Published, Open, Holders
      <4> QED BY <1>0, <4>1, SMT
    <3> QED BY <3>1, <3>2
  <2>4. faults' \in {faults, faults + 1}
    BY <1>7 DEF Publish, PublishFails, Fault
  <2> QED BY <1>0, <1>1, <1>2, <2>1, <2>2, <2>3, <2>4, SMT
<1>8. ASSUME NEW p \in Orders, Deliver(p) \/ Reappear(p)
      PROVE Budget(o)' <= 2 + faults'
  <2>1. /\ Tasks(o)' = Tasks(o) /\ LambdaOpen(o)' = LambdaOpen(o)
        /\ done' = done /\ faults' = faults
    BY <1>8 DEF Deliver, Reappear, Tasks, LambdaOpen
  <2>2. Open(o)' = Open(o)
    BY <1>8 DEF Deliver, Reappear, Open, Holders
  <2> QED BY <1>0, <1>1, <2>1, <2>2, SMT
<1>9. ASSUME NEW p \in Orders, ReappearEarly(p) PROVE Budget(o)' <= 2 + faults'
  <2>1. Tasks(o)' = Tasks(o) /\ LambdaOpen(o)' = LambdaOpen(o)
    BY <1>9 DEF ReappearEarly, Tasks, LambdaOpen
  <2> QED BY <1>0, <1>2, <1>9, <2>1, SMT DEF ReappearEarly, Fault
<1>10. ASSUME NEW i \in Poller, NEW p \in Orders, Receive(i, p)
       PROVE Budget(o)' <= 2 + faults'
  <2> DEFINE t == <<p, received[p] + 1>>
  <2>1. /\ task' = task \union {t} /\ UNCHANGED <<done, faults, invocation>>
        /\ message[p] = "visible"
    BY <1>10 DEF Receive
  <2>2. LambdaOpen(o)' = LambdaOpen(o)
    BY <2>1 DEF LambdaOpen
  <2>3. CASE p # o
    <3>1. Tasks(o)' = Tasks(o)
      BY <2>1, <2>3 DEF Tasks
    <3>2. Holders(o)' = Holders(o) /\ message'[o] = message[o]
      BY <1>10, <2>3 DEF Receive, Holders
    <3>3. Open(o)' = Open(o)
      BY <3>2 DEF Open
    <3> QED BY <1>0, <1>1, <2>1, <2>2, <3>1, <3>3, SMT
  <2>4. CASE p = o
    <3>1. Tasks(o)' = Tasks(o) \union {t}
      BY <2>1, <2>4 DEF Tasks
    <3>2. t \notin Tasks(o)
      <4> SUFFICES ASSUME t \in Tasks(o) PROVE FALSE
        OBVIOUS
      <4>1. t[2] <= received[t[1]]
        BY DEF SlotInv, Busy, Tasks
      <4>2. received[p] \in Nat
        OBVIOUS
      <4> QED BY <4>1, <4>2, SMT
    <3>3. Cardinality(Tasks(o)') = Cardinality(Tasks(o)) + 1
      BY <3>1, <3>2, TasksFinite, FS_AddElement
    <3>4. Open(o) = 1
      BY <2>1, <2>4 DEF Open
    <3>5. Open(o)' = 0
      <4>1. message'[o] = "hidden" /\ t \in task' /\ t = <<o, received'[o]>>
        BY <1>10, <2>4 DEF Receive
      <4>2. Holders(o)' # {}
        BY <4>1 DEF Holders
      <4> QED BY <4>1, <4>2 DEF Open
    <3> QED BY <1>0, <2>1, <2>2, <3>3, <3>4, <3>5, SMT DEF Budget
  <2> QED BY <2>3, <2>4
<1>11. ASSUME NEW i \in Poller, ReceiveFails(i) PROVE Budget(o)' <= 2 + faults'
  <2>1. Tasks(o)' = Tasks(o) /\ LambdaOpen(o)' = LambdaOpen(o)
    BY <1>11 DEF ReceiveFails, Tasks, LambdaOpen
  <2> QED BY <1>0, <1>2, <1>11, <2>1, SMT DEF ReceiveFails, Fault
<1>12. ASSUME NEW t \in Busy, Work(t) PROVE Budget(o)' <= 2 + faults'
  <2>1. /\ t \in task /\ t[1] \in Orders /\ task' = task \ {t}
        /\ UNCHANGED <<message, received, invocation, faults>>
    BY <1>12 DEF Work
  <2>2. LambdaOpen(o)' = LambdaOpen(o)
    BY <2>1 DEF LambdaOpen
  <2>3. Holders(o)' = Holders(o)
    BY <1>12 DEF Work, Holders
  <2>4. Open(o)' = Open(o)
    BY <2>1, <2>3 DEF Open
  <2>5. CASE t[1] # o
    <3>1. Tasks(o)' = Tasks(o)
      BY <2>1, <2>5 DEF Tasks
    <3>2. done'[o] = done[o]
      BY <1>12, <2>1, <2>5 DEF Work
    <3> QED BY <1>0, <1>1, <2>1, <2>2, <2>4, <3>1, <3>2, SMT
  <2>6. CASE t[1] = o
    <3>1. Tasks(o)' = Tasks(o) \ {t} /\ t \in Tasks(o)
      BY <2>1, <2>6 DEF Tasks
    <3>2. Cardinality(Tasks(o)') = Cardinality(Tasks(o)) - 1
      BY <3>1, TasksFinite, FS_RemoveElement
    <3>3. /\ done'[o].queue = done[o].queue + 1
          /\ done'[o].lambda = done[o].lambda
      BY <1>12, <2>6, SMT DEF Work
    <3> QED BY <1>0, <2>1, <2>2, <2>4, <3>2, <3>3, SMT DEF Budget
  <2> QED BY <2>5, <2>6
<1>13. ASSUME NEW t \in Busy, Finish(t) PROVE Budget(o)' <= 2 + faults'
  <2>1. /\ Tasks(o)' = Tasks(o) /\ LambdaOpen(o)' = LambdaOpen(o)
        /\ UNCHANGED <<done, faults, received, task>>
    BY <1>13 DEF Finish, Tasks, LambdaOpen
  <2>2. CASE message'[o] = "deleted"
    <3>1. Open(o)' = 0
      BY <2>2 DEF Open
    <3> QED BY <1>0, <1>1, <2>1, <3>1, SMT
  <2>3. CASE message'[o] # "deleted"
    <3>1. message'[o] = message[o] /\ t # <<o, received[o]>>
      BY <1>13, <2>3, SMT DEF Finish, Busy
    <3>2. Holders(o)' = Holders(o)
      BY <1>13, <3>1 DEF Finish, Holders
    <3>3. Open(o)' = Open(o)
      BY <3>1, <3>2 DEF Open
    <3> QED BY <1>0, <1>1, <2>1, <3>3, SMT
  <2> QED BY <2>2, <2>3
<1>14. ASSUME NEW t \in Busy, FinishFails(t) PROVE Budget(o)' <= 2 + faults'
  <2>1. Tasks(o)' = Tasks(o) /\ LambdaOpen(o)' = LambdaOpen(o)
    BY <1>14 DEF FinishFails, Tasks, LambdaOpen
  <2> QED BY <1>0, <1>2, <1>14, <2>1, SMT DEF FinishFails, Fault
<1>15. CASE CrashProcessor
  <2>1. Tasks(o)' = {} /\ LambdaOpen(o)' = LambdaOpen(o)
    BY <1>15 DEF CrashProcessor, Tasks, LambdaOpen
  <2>2. Cardinality(Tasks(o)') = 0
    BY <2>1, FS_EmptySet
  <2> QED BY <1>0, <1>2, <1>15, <2>1, <2>2, SMT DEF CrashProcessor, Fault
<1> QED
  BY <1>3, <1>4, <1>5, <1>6, <1>7, <1>8, <1>9, <1>10, <1>11, <1>12, <1>13,
     <1>14, <1>15
     DEF Next, Poll, BeginSync, TakePayment, EndSync, Acquire, ReceiveNothing,
         Busy, vars

\* A subscriber does an order again only behind a fault, once for each at most,
\* whatever receipts are late and in whatever order the deletes arrive.
THEOREM DoneAgainByFaults == Spec => []DoneAgainByFaultsOnly
<1>1. Init => IdleInv
  BY DEF Init, IdleInv, Busy
<1>2. Init => AgainInv
  <2> SUFFICES ASSUME Init, NEW o \in Orders PROVE Budget(o) <= 2 + faults
    BY DEF AgainInv
  <2>1. Tasks(o) = {} /\ Open(o) = 1 /\ LambdaOpen(o) = 1
    BY DEF Init, Tasks, Open, LambdaOpen
  <2> QED BY <2>1, FS_EmptySet, SMT DEF Init, Budget
<1>3. TypeOK /\ SlotInv /\ SlotInv' /\ IdleInv /\ AgainInv /\ [Next]_vars => AgainInv'
  BY AgainStep DEF AgainInv
<1>4. TypeOK /\ SlotInv /\ AgainInv => DoneAgainByFaultsOnly
  <2> SUFFICES ASSUME TypeOK, SlotInv, AgainInv, NEW o \in Orders
               PROVE done[o].queue + done[o].lambda <= 2 + faults
    BY DEF DoneAgainByFaultsOnly
  <2>1. Cardinality(Tasks(o)) \in Nat
    BY TasksFinite
  <2>2. Open(o) \in 0..1 /\ LambdaOpen(o) \in 0..1
    BY SMT DEF Open, LambdaOpen
  <2>3. Budget(o) <= 2 + faults
    BY DEF AgainInv
  <2>4. faults \in Nat /\ done[o].queue \in Nat /\ done[o].lambda \in Nat
    BY OrdersAssumption, SMT DEF TypeOK
  <2> QED BY <2>1, <2>2, <2>3, <2>4, SMT DEF Budget
<1> QED BY SlotInvariant, IdleStep, <1>1, <1>2, <1>3, <1>4, PTL DEF Spec
=============================================================================
