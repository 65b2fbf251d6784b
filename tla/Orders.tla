------------------------------- MODULE Orders -------------------------------
(***************************************************************************)
(* The order service (hw7/src).  On the synchronous path the receiver does *)
(* the order itself, one at a time.  On the asynchronous path it publishes *)
(* to an SNS topic with two subscribers: an SQS queue, from which a        *)
(* processor's pollers take orders, each with a slot of the worker         *)
(* semaphore, and a Lambda function that does the order as well.           *)
(*                                                                         *)
(* SNS and SQS are modelled by what the program relies on: a published     *)
(* order reaches the queue, a received message is hidden until it is       *)
(* deleted or shows up again, and it may be delivered more than once.      *)
(* An order is its message: OrderID is a fresh UUID and the receiver       *)
(* publishes what it has just marshalled, so processMessage can parse it.  *)
(***************************************************************************)
EXTENDS Naturals, FiniteSets

CONSTANTS
    Orders,        \* POST /orders/sync and /orders/async requests
    NumWorkers,    \* pollers, and capacity of workerSemaphore
    MaxFaults      \* failing calls, early redeliveries and crashes

ASSUME OrdersAssumption ==
    /\ NumWorkers \in Nat \ {0}
    /\ MaxFaults \in Nat

Poller == 1..NumWorkers

VARIABLES
    order,       \* where the handler of each order stands
    payment,     \* slots taken in paymentSemaphore
    invocation,  \* where the Lambda function stands with each order
    message,     \* the order's message on its way to its deletion
    received,    \* deliveries of the message so far; the last is its receipt
    sem,         \* slots taken in workerSemaphore
    poller,      \* where each pollSQS loop stands
    task,        \* the goroutines of processMessage, by order and receipt
    worked,      \* those of them that have done the order
    done,        \* how many times each order was done by each subscriber
    faults       \* faults so far

receiver == <<order, payment>>
queue   == <<message, received>>
workers == <<sem, poller, task, worked>>
vars    == <<receiver, invocation, queue, workers, done, faults>>

Fault == faults < MaxFaults /\ faults' = faults + 1

Init ==
    /\ order    = [o \in Orders |-> "idle"]
    /\ payment  = 0
    /\ invocation = [o \in Orders |-> "none"]
    /\ message  = [o \in Orders |-> "none"]
    /\ received = [o \in Orders |-> 0]
    /\ sem      = 0
    /\ poller   = [i \in Poller |-> "acquiring"]
    /\ task     = {}
    /\ worked   = {}
    /\ done     = [o \in Orders |-> [queue |-> 0, lambda |-> 0]]
    /\ faults   = 0

-----------------------------------------------------------------------------
(* POST /orders/sync.                                                      *)

\* syncHandler up to verifyPayment.
BeginSync(o) ==
    /\ order[o] = "idle"
    /\ order' = [order EXCEPT ![o] = "waiting"]
    /\ UNCHANGED <<payment, invocation, queue, workers, done, faults>>

\* verifyPayment gets the only place of the channel.
TakePayment(o) ==
    /\ order[o] = "waiting"
    /\ payment < 1
    /\ payment' = payment + 1
    /\ order' = [order EXCEPT ![o] = "verifying"]
    /\ UNCHANGED <<invocation, queue, workers, done, faults>>

\* It sleeps, gives the place back, and the handler answers 200.
EndSync(o) ==
    /\ order[o] = "verifying"
    /\ payment' = payment - 1
    /\ order' = [order EXCEPT ![o] = "completed"]
    /\ UNCHANGED <<invocation, queue, workers, done, faults>>

\* The receiver's process ends and starts again.
CrashReceiver ==
    /\ Fault
    /\ payment' = 0
    /\ order' = [o \in Orders |-> IF order[o] \in {"waiting", "verifying"}
                                  THEN "error" ELSE order[o]]
    /\ UNCHANGED <<invocation, queue, workers, done>>

-----------------------------------------------------------------------------
(* POST /orders/async.                                                     *)

\* The topic has the order for both of its subscribers.
Published(o) ==
    /\ message' = [message EXCEPT ![o] = "published"]
    /\ invocation' = [invocation EXCEPT ![o] = "published"]

\* Publish, then 202.
Publish(o) ==
    /\ order[o] = "idle"
    /\ Published(o)
    /\ order' = [order EXCEPT ![o] = "accepted"]
    /\ UNCHANGED <<payment, received, workers, done, faults>>

\* It fails, or the receiver ends before the answer: published or not.
PublishFails(o) ==
    /\ Fault
    /\ order[o] = "idle"
    /\ Published(o) \/ UNCHANGED <<message, invocation>>
    /\ order' = [order EXCEPT ![o] = "error"]
    /\ UNCHANGED <<payment, received, workers, done>>

\* The topic delivers to the queue.
Deliver(o) ==
    /\ message[o] = "published"
    /\ message' = [message EXCEPT ![o] = "visible"]
    /\ UNCHANGED <<receiver, invocation, received, workers, done, faults>>

-----------------------------------------------------------------------------
(* The Lambda function (hw7/src/lambda/main.go).                           *)

\* SNS invokes handler with the order's record.
Invoke(o) ==
    /\ invocation[o] = "published"
    /\ invocation' = [invocation EXCEPT ![o] = "invoked"]
    /\ UNCHANGED <<receiver, queue, workers, done, faults>>

\* The loop has done the order and handler returns nil.
LambdaDone(o) ==
    /\ invocation[o] = "invoked"
    /\ invocation' = [invocation EXCEPT ![o] = "ended"]
    /\ done' = [done EXCEPT ![o].lambda = @ + 1]
    /\ UNCHANGED <<receiver, queue, workers, faults>>

\* The invocation ends without an answer, before or after the order is done:
\* it is tried again, or given up after the last retry.
LambdaFails(o) ==
    /\ Fault
    /\ invocation[o] = "invoked"
    /\ invocation' \in {[invocation EXCEPT ![o] = "published"],
                        [invocation EXCEPT ![o] = "dropped"]}
    /\ done' \in {done, [done EXCEPT ![o].lambda = @ + 1]}
    /\ UNCHANGED <<receiver, queue, workers>>

-----------------------------------------------------------------------------
(* pollSQS.                                                                *)

\* A bug to tell apart: the channel is not what limits the pollers.
AcquireUnbounded(i) ==
    /\ poller[i] = "acquiring"
    /\ sem' = sem + 1
    /\ poller' = [poller EXCEPT ![i] = "receiving"]
    /\ UNCHANGED <<receiver, invocation, queue, task, worked, done, faults>>

\* A slot is taken before the queue is asked.
Acquire(i) ==
    /\ poller[i] = "acquiring"
    /\ sem < NumWorkers
    /\ sem' = sem + 1
    /\ poller' = [poller EXCEPT ![i] = "receiving"]
    /\ UNCHANGED <<receiver, invocation, queue, task, worked, done, faults>>

\* A bug to tell apart: the message is off the queue once it is received.
ReceiveDeletes(i, o) ==
    /\ poller[i] = "receiving"
    /\ message[o] = "visible"
    /\ message' = [message EXCEPT ![o] = "deleted"]
    /\ received' = [received EXCEPT ![o] = @ + 1]
    /\ task' = task \union {<<o, received[o] + 1>>}
    /\ poller' = [poller EXCEPT ![i] = "acquiring"]
    /\ UNCHANGED <<receiver, invocation, sem, worked, done, faults>>

\* ReceiveMessage returns a message: a goroutine takes over the slot.
Receive(i, o) ==
    /\ poller[i] = "receiving"
    /\ message[o] = "visible"
    /\ message' = [message EXCEPT ![o] = "hidden"]
    /\ received' = [received EXCEPT ![o] = @ + 1]
    /\ task' = task \union {<<o, received[o] + 1>>}
    /\ poller' = [poller EXCEPT ![i] = "acquiring"]
    /\ UNCHANGED <<receiver, invocation, sem, worked, done, faults>>

\* A bug to tell apart: an empty answer leaves its slot taken.
ReceiveNothingKeepsSlot(i) ==
    /\ poller[i] = "receiving"
    /\ \A o \in Orders : message[o] # "visible"
    /\ poller' = [poller EXCEPT ![i] = "acquiring"]
    /\ UNCHANGED <<receiver, invocation, queue, sem, task, worked, done, faults>>

\* The long poll ends without a message: the slot is given back.
ReceiveNothing(i) ==
    /\ poller[i] = "receiving"
    /\ \A o \in Orders : message[o] # "visible"
    /\ sem' = sem - 1
    /\ poller' = [poller EXCEPT ![i] = "acquiring"]
    /\ UNCHANGED <<receiver, invocation, queue, task, worked, done, faults>>

\* ReceiveMessage fails, which may leave a message hidden that nobody holds.
ReceiveFails(i) ==
    /\ Fault
    /\ poller[i] = "receiving"
    /\ \/ UNCHANGED queue
       \/ \E o \in Orders :
             /\ message[o] = "visible"
             /\ message' = [message EXCEPT ![o] = "hidden"]
             /\ received' = [received EXCEPT ![o] = @ + 1]
    /\ sem' = sem - 1
    /\ poller' = [poller EXCEPT ![i] = "acquiring"]
    /\ UNCHANGED <<receiver, invocation, task, worked, done>>

-----------------------------------------------------------------------------
(* processMessage.                                                         *)

\* The order is done.
Work(t) ==
    /\ t \in task
    /\ task' = task \ {t}
    /\ worked' = worked \union {t}
    /\ done' = [done EXCEPT ![t[1]].queue = @ + 1]
    /\ UNCHANGED <<receiver, invocation, queue, sem, poller, faults>>

\* A bug to tell apart: the goroutine ends without deleting its message.
FinishKeepsMessage(t) ==
    /\ t \in worked
    /\ worked' = worked \ {t}
    /\ sem' = sem - 1
    /\ UNCHANGED <<receiver, invocation, queue, poller, task, done, faults>>

\* DeleteMessage, and the deferred release.  An old receipt is accepted and
\* may leave the message where it is.
Finish(t) ==
    /\ t \in worked
    /\ \/ message' = [message EXCEPT ![t[1]] = "deleted"]
       \/ t[2] < received[t[1]] /\ UNCHANGED message
    /\ worked' = worked \ {t}
    /\ sem' = sem - 1
    /\ UNCHANGED <<receiver, invocation, received, poller, task, done, faults>>

\* DeleteMessage fails without an effect; nobody looks at its error.
FinishFails(t) ==
    /\ Fault
    /\ t \in worked
    /\ worked' = worked \ {t}
    /\ sem' = sem - 1
    /\ UNCHANGED <<receiver, invocation, queue, poller, task, done>>

-----------------------------------------------------------------------------
(* The queue, and the end of the processor.                                *)

Holders(o) == {t \in task \union worked : t = <<o, received[o]>>}

\* The visibility timeout of a message whose last receiver is gone.
Reappear(o) ==
    /\ message[o] = "hidden"
    /\ Holders(o) = {}
    /\ message' = [message EXCEPT ![o] = "visible"]
    /\ UNCHANGED <<receiver, invocation, received, workers, done, faults>>

\* The message shows up again while it is worked on: the work outlasts the
\* timeout, or SQS delivers twice.
ReappearEarly(o) ==
    /\ Fault
    /\ message[o] = "hidden"
    /\ Holders(o) # {}
    /\ message' = [message EXCEPT ![o] = "visible"]
    /\ UNCHANGED <<receiver, invocation, received, workers, done>>

\* The processor's process ends and starts again.
CrashProcessor ==
    /\ Fault
    /\ sem' = 0
    /\ poller' = [i \in Poller |-> "acquiring"]
    /\ task' = {}
    /\ worked' = {}
    /\ UNCHANGED <<receiver, invocation, queue, done>>

-----------------------------------------------------------------------------
Poll(i) ==
    Acquire(i) \/ ReceiveNothing(i) \/ \E o \in Orders : Receive(i, o)

Next ==
    \/ \E o \in Orders : BeginSync(o) \/ TakePayment(o) \/ EndSync(o)
    \/ CrashReceiver
    \/ \E o \in Orders : Invoke(o) \/ LambdaDone(o) \/ LambdaFails(o)
    \/ \E o \in Orders : Publish(o) \/ PublishFails(o) \/ Deliver(o)
    \/ \E i \in Poller : Poll(i) \/ ReceiveFails(i)
    \/ \E t \in task \union worked : Work(t) \/ Finish(t) \/ FinishFails(t)
    \/ \E o \in Orders : Reappear(o) \/ ReappearEarly(o)
    \/ CrashProcessor

Spec == Init /\ [][Next]_vars

\* The topic delivers, a timeout passes, pollers and goroutines are scheduled.
Fairness ==
    /\ \A o \in Orders : WF_vars(Deliver(o)) /\ WF_vars(Reappear(o))
    /\ \A o \in Orders : WF_vars(TakePayment(o) \/ EndSync(o))
    /\ \A o \in Orders : WF_vars(Invoke(o) \/ LambdaDone(o))
    /\ \A i \in Poller : WF_vars(Poll(i))
    /\ WF_vars(\E t \in task \union worked : Work(t) \/ Finish(t))

FairSpec == Spec /\ Fairness

-----------------------------------------------------------------------------
(* Properties.                                                             *)

\* Every variable has its type, and the semaphore keeps to its capacity.
TypeOK ==
    /\ order \in [Orders -> {"idle", "accepted", "error",
                            "waiting", "verifying", "completed"}]
    /\ payment \in 0..1
    /\ invocation \in
          [Orders -> {"none", "published", "invoked", "ended", "dropped"}]
    /\ message \in
          [Orders -> {"none", "published", "visible", "hidden", "deleted"}]
    /\ received \in [Orders -> Nat]
    /\ sem \in 0..NumWorkers
    /\ poller \in [Poller -> {"acquiring", "receiving"}]
    /\ task \subseteq Orders \X (Nat \ {0})
    /\ worked \subseteq Orders \X (Nat \ {0})
    /\ done \in [Orders -> [queue : Nat, lambda : Nat]]
    /\ faults \in 0..MaxFaults

\* hw7/src/main.go: "semaphore size = num workers = true concurrency limit": a
\* slot is taken exactly for each poller that asks the queue and each goroutine
\* that works on an order, on every way through errors and empty answers; and
\* "1 payment at a time": the payment's slot for the one order being verified.
SlotsAreWork ==
    /\ sem = Cardinality({i \in Poller : poller[i] = "receiving"})
              + Cardinality(task \union worked)
    /\ payment = Cardinality({o \in Orders : order[o] = "verifying"})

\* An order answered 202 is on its way or in the queue until a goroutine has
\* done it, whatever fails; and as long as nothing fails it is with the Lambda
\* function until that has: neither subscriber's work takes it from the other.
AcceptedIsKept ==
    \A o \in Orders : order[o] = "accepted" =>
        /\ done[o].queue = 0 => message[o] \in {"published", "visible", "hidden"}
        /\ done[o].lambda = 0 /\ faults = 0 =>
              invocation[o] \in {"published", "invoked"}

\* A subscriber does an order again only when something failed, and once more
\* at most for each failure: late deletes with an old receipt do not add to it.
DoneAgainByFaultsOnly ==
    \A o \in Orders : done[o].queue + done[o].lambda <= 2 + faults

\* Every order is ended: one answered 202 is done by the processor and leaves
\* the queue, although the processor may end in between, and is done or given
\* up by the function; one that waits for its payment is answered, unless the
\* receiver ended.
EveryOrderEnds ==
    \A o \in Orders :
        /\ order[o] = "accepted" ~>
              /\ done[o].queue > 0 /\ message[o] = "deleted"
              /\ invocation[o] \in {"ended", "dropped"}
        /\ order[o] = "waiting" ~> order[o] \in {"completed", "error"}
=============================================================================
