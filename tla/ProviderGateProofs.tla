------------------------- MODULE ProviderGateProofs -------------------------
(***************************************************************************)
(* Theorems about ProviderGate for any number of Control calls and Hosts.  *)
(***************************************************************************)
EXTENDS ProviderGate, TLAPS

-----------------------------------------------------------------------------
(* The inductive invariant *)

(* A WaitGroup counts exactly the callback that runs, and the call it      *)
(* belongs to still holds the lifecycle.                                   *)
CountedWhileRunning ==
    \A r \in Requests :
        /\ outstanding[r] = 1 <=> callback[r] = "running"
        /\ callback[r] = "running" => Holding(r)

InGate(r) == callback[r] \in {"running", "returned"}

(* A Host's gate is occupied for one callback at a time.                   *)
OneInGate ==
    \A r, q \in Requests :
        InGate(r) /\ InGate(q) /\ HostOf[r] = HostOf[q] => r = q

AwaitsCallback(r) == pc[r] \in {"waiting", "late", "grace", "expired", "collecting"}

(* Which goroutine a Control call has, by where it is.                     *)
CallbackShape ==
    \A r \in Requests :
        /\ pc[r] \in {"arriving", "between"} => callback[r] = "none"
        /\ AwaitsCallback(r) => next[r] <= 3

IInv ==
    /\ TypeOK
    /\ OneLifecycle
    /\ CountedWhileRunning
    /\ GateCoversCallback
    /\ OneInGate
    /\ CallbackShape

USE DEF Callbacks, HasGrace

(* The initial state satisfies the invariant.                              *)
LEMMA InvInit == Init => IInv
BY GateAssumption
   DEF Init, IInv, TypeOK, PCs, CallbackPCs, OneLifecycle, Holding,
       CountedWhileRunning, GateCoversCallback, OneInGate, InGate,
       CallbackShape, AwaitsCallback

(* No step leaves the invariant.                                           *)
LEMMA InvNext == IInv /\ [Next]_vars => IInv'
<1> SUFFICES ASSUME IInv, [Next]_vars PROVE IInv'
  OBVIOUS
<1> USE GateAssumption
        DEF IInv, TypeOK, PCs, CallbackPCs, OneLifecycle, Holding,
            CountedWhileRunning, GateCoversCallback, OneInGate, InGate,
            CallbackShape, AwaitsCallback, Go, Step
<1>1. ASSUME NEW r \in Requests, Acquire(r) PROVE IInv'
  BY <1>1 DEF Acquire
<1>2. ASSUME NEW r \in Requests, GiveUp(r) PROVE IInv'
  BY <1>2 DEF GiveUp
<1>3. ASSUME NEW r \in Requests, Call(r) PROVE IInv'
  BY <1>3 DEF Call
<1>4. ASSUME NEW r \in Requests, Refuse(r) PROVE IInv'
  BY <1>4 DEF Refuse
<1>5. ASSUME NEW r \in Requests, Return(r) PROVE IInv'
  BY <1>5 DEF Return
<1>6. ASSUME NEW r \in Requests, Receive(r) PROVE IInv'
  BY <1>6 DEF Receive, Answered
<1>7. ASSUME NEW r \in Requests, Deadline(r) PROVE IInv'
  BY <1>7 DEF Deadline
<1>8. ASSUME NEW r \in Requests, AfterDeadline(r) PROVE IInv'
  BY <1>8 DEF AfterDeadline
<1>9. ASSUME NEW r \in Requests, Release(r) PROVE IInv'
  BY <1>9 DEF Release, Drained
<1>10. ASSUME NEW r \in Requests, CallbackReturns(r) PROVE IInv'
  BY <1>10 DEF CallbackReturns
<1>11. ASSUME NEW r \in Requests, AfterCallback(r) PROVE IInv'
  <2>1. CASE LeaveGate(r)
    <3>1. \A q \in Requests : InGate(q)' => InGate(q) /\ q # r
      BY <2>1 DEF LeaveGate
    <3>2. \A q \in Requests : InGate(q)' => HostOf[q] # HostOf[r]
      BY <2>1, <3>1 DEF LeaveGate
    <3>3. GateCoversCallback' /\ OneInGate'
      BY <2>1, <3>1, <3>2 DEF LeaveGate
    <3>4. TypeOK' /\ OneLifecycle' /\ CountedWhileRunning' /\ CallbackShape'
      BY <2>1 DEF LeaveGate
    <3> QED
      BY <3>3, <3>4
  <2>2. CASE StoreCompleted(r)
    BY <2>2 DEF StoreCompleted
  <2>3. CASE SendAnswer(r)
    BY <2>3 DEF SendAnswer
  <2> QED
    BY <1>11, <2>1, <2>2, <2>3 DEF AfterCallback
<1>12. CASE UNCHANGED vars
  BY <1>12 DEF vars
<1> QED
  BY <1>1, <1>2, <1>3, <1>4, <1>5, <1>6, <1>7, <1>8, <1>9, <1>10, <1>11,
     <1>12 DEF Next, Progress

(* The invariant always holds.                                             *)
LEMMA Invariance == Spec => []IInv
BY InvInit, InvNext, PTL DEF Spec

-----------------------------------------------------------------------------
(* Every variable holds a value of its type, and no WaitGroup goes below   *)
(* zero.                                                                   *)
THEOREM TypeCorrect == Spec => []TypeOK
BY Invariance, PTL DEF IInv

(* The lifecycle token is never doubled and never lost.                    *)
THEOREM TokenIsConserved == Spec => []OneLifecycle
BY Invariance, PTL DEF IInv

(* Two callbacks never run at once, on any of the Hosts.                   *)
THEOREM CallbacksExclude == Spec => []OneCallbackAtATime
<1>1. IInv => OneCallbackAtATime
  BY DEF IInv, CountedWhileRunning, OneLifecycle, OneCallbackAtATime
<1> QED
  BY <1>1, Invariance, PTL

(* A Host's gate is occupied as long as a callback of its runs.            *)
THEOREM GateIsHeld == Spec => []GateCoversCallback
BY Invariance, PTL DEF IInv

(* While the lifecycle is free no callback runs, so none of an earlier     *)
(* call acts in a later one: module Host rests on this.                    *)
LifecycleOutlivesCallbacks ==
    token => \A r \in Requests : callback[r] # "running"

THEOREM CallbacksEndFirst == Spec => []LifecycleOutlivesCallbacks
<1>1. IInv => LifecycleOutlivesCallbacks
  BY DEF IInv, CountedWhileRunning, OneLifecycle, LifecycleOutlivesCallbacks
<1> QED
  BY <1>1, Invariance, PTL

(* A Host's gate is occupied for no other reason than a callback.          *)
BusyIsInGate ==
    \A h \in Hosts : busy[h] =>
        \E r \in Requests : HostOf[r] = h /\ InGate(r)

(* Only Call occupies a gate, only LeaveGate takes its callback out of it. *)
LEMMA BusyIsInGateNext ==
    IInv /\ BusyIsInGate /\ [Next]_vars => BusyIsInGate'
<1> SUFFICES ASSUME IInv, BusyIsInGate, [Next]_vars, NEW h \in Hosts, busy'[h]
             PROVE  \E r \in Requests : HostOf[r] = h /\ InGate(r)'
  BY DEF BusyIsInGate, InGate
<1> USE DEF IInv, TypeOK
<1>1. ASSUME busy' = busy, \A q \in Requests : InGate(q) => InGate(q)'
      PROVE  \E r \in Requests : HostOf[r] = h /\ InGate(r)'
  BY <1>1 DEF BusyIsInGate
<1>2. ASSUME NEW r \in Requests, Call(r)
      PROVE  \E q \in Requests : HostOf[q] = h /\ InGate(q)'
  <2>1. InGate(r)'
    BY <1>2 DEF Call, InGate
  <2>2. \A q \in Requests : InGate(q) => InGate(q)'
    BY <1>2 DEF Call, InGate
  <2>3. h = HostOf[r] \/ busy[h]
    BY <1>2 DEF Call
  <2> QED
    BY <2>1, <2>2, <2>3 DEF BusyIsInGate
<1>3. ASSUME NEW r \in Requests, LeaveGate(r)
      PROVE  \E q \in Requests : HostOf[q] = h /\ InGate(q)'
  <2>1. \A q \in Requests : q # r /\ InGate(q) => InGate(q)'
    BY <1>3 DEF LeaveGate, Step, InGate
  <2>2. busy[h] /\ h # HostOf[r]
    BY <1>3, GateAssumption DEF LeaveGate
  <2> QED
    BY <2>1, <2>2 DEF BusyIsInGate
<1>4. ASSUME NEW r \in Requests, Receive(r)
      PROVE  busy' = busy /\ \A q \in Requests : InGate(q) => InGate(q)'
  BY <1>4 DEF Receive, Answered, InGate
<1>5. ASSUME NEW r \in Requests,
             CallbackReturns(r) \/ StoreCompleted(r) \/ SendAnswer(r)
      PROVE  busy' = busy /\ \A q \in Requests : InGate(q) => InGate(q)'
  BY <1>5 DEF CallbackReturns, StoreCompleted, SendAnswer, Step, InGate
<1>6. ASSUME UNCHANGED <<busy, callback>>
      PROVE  busy' = busy /\ \A q \in Requests : InGate(q) => InGate(q)'
  BY <1>6 DEF InGate
<1>7. \/ \E r \in Requests :
            \/ Call(r) \/ LeaveGate(r) \/ Receive(r)
            \/ CallbackReturns(r) \/ StoreCompleted(r) \/ SendAnswer(r)
      \/ UNCHANGED <<busy, callback>>
  BY DEF Next, Progress, Acquire, GiveUp, Refuse, Return, Deadline,
         AfterDeadline, Release, AfterCallback, vars
<1> QED
  BY <1>1, <1>2, <1>3, <1>4, <1>5, <1>6, <1>7

(* Who is refused meets a callback that has returned, of a call that has   *)
(* given its lifecycle back, and that has yet to leave the gate.           *)
RefusedByLeaver ==
    [][\A r \in refused' \ refused :
          \E q \in Requests :
              /\ HostOf[q] = HostOf[r]
              /\ callback[q] = "returned" /\ pc[q] = "finished"]_vars

(* No refusal is an honest one: there is never a callback in flight.       *)
THEOREM RefusalsComeLate == Spec => RefusedByLeaver
<1>1. ASSUME IInv, BusyIsInGate, [Next]_vars, NEW r \in Requests,
             r \in refused', r \notin refused
      PROVE  \E q \in Requests :
                 /\ HostOf[q] = HostOf[r]
                 /\ callback[q] = "returned" /\ pc[q] = "finished"
  <2>1. Refuse(r)
    <3> USE <1>1
    <3>1. ASSUME NEW q \in Requests, Refuse(q) PROVE q = r
      BY <3>1 DEF Refuse
    <3>2. refused' # refused
      OBVIOUS
    <3> QED
      BY <3>1, <3>2
         DEF Next, Progress, Acquire, GiveUp, Call, Return, Receive, Answered,
             Deadline, AfterDeadline, Release, CallbackReturns, AfterCallback,
             LeaveGate, StoreCompleted, SendAnswer, vars
  <2>2. /\ Holding(r) /\ callback[r] = "none" /\ busy[HostOf[r]]
        /\ HostOf[r] \in Hosts
    BY <1>1, <2>1, GateAssumption
       DEF Refuse, Holding, IInv, CallbackShape
  <2>3. PICK q \in Requests : HostOf[q] = HostOf[r] /\ InGate(q)
    BY <1>1, <2>2 DEF BusyIsInGate
  <2>4. q # r /\ ~Holding(q)
    BY <1>1, <2>2, <2>3 DEF InGate, IInv, OneLifecycle
  <2>5. callback[q] = "returned" /\ pc[q] = "finished"
    BY <1>1, <2>3, <2>4
       DEF InGate, Holding, IInv, CountedWhileRunning, CallbackShape
  <2> QED
    BY <2>3, <2>5
<1>2. IInv /\ BusyIsInGate /\ [Next]_vars =>
        [\A r \in refused' \ refused :
            \E q \in Requests :
                /\ HostOf[q] = HostOf[r]
                /\ callback[q] = "returned" /\ pc[q] = "finished"]_vars
  <2> SUFFICES ASSUME IInv, BusyIsInGate, [Next]_vars,
                      NEW r \in refused' \ refused
               PROVE  \E q \in Requests :
                          /\ HostOf[q] = HostOf[r]
                          /\ callback[q] = "returned" /\ pc[q] = "finished"
    OBVIOUS
  <2>1. r \in Requests
    BY DEF IInv, TypeOK, Next, Progress, Acquire, GiveUp, Call, Refuse, Return,
           Receive, Answered, Deadline, AfterDeadline, Release,
           CallbackReturns, AfterCallback, LeaveGate, StoreCompleted,
           SendAnswer, vars
  <2> QED
    BY <1>1, <2>1
<1>3. Init => BusyIsInGate
  BY DEF Init, BusyIsInGate
<1> QED
  BY <1>2, <1>3, BusyIsInGateNext, Invariance, PTL DEF Spec, RefusedByLeaver
=============================================================================
