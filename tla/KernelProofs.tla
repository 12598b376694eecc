---------------------------- MODULE KernelProofs ----------------------------
(***************************************************************************)
(* Theorems about Kernel for every value of its constants: any number of   *)
(* callers, any bounds, any clock.                                         *)
(***************************************************************************)
EXTENDS KernelInvariant, TLAPS

USE DEF request, execution, channels, CanStart, Closed

(* Old evidence whose time was rewritten still has the type of evidence,   *)
(* and its seal is not disturbed.                                          *)
LEMMA SubmissionsTyped ==
    ASSUME NEW o \in Submissions
    PROVE  o \in Observations
<1>1. PICK s \in Seals, t \in Times : o = [Sealed(s) EXCEPT !.at = t]
  BY DEF Submissions
<1>2. Sealed(s) \in Observations
  BY DEF Sealed, Seals, Observations
<1>3. o = [subject |-> s.subject, state |-> s.state, version |-> s.version,
           token |-> s.token, at |-> t, fingerprint |-> s]
  BY <1>1 DEF Sealed
<1> QED
  BY <1>3 DEF Observations, Seals

(* What a seal is made of.                                                 *)
LEMMA SealTyped ==
    ASSUME NEW o \in Observations
    PROVE  /\ o.subject \in Subjects /\ o.fingerprint \in Seals
           /\ SealOf(o) \in Seals
BY DEF Observations, Seals, SealOf

-----------------------------------------------------------------------------
(* Types *)

(* The initial state is well typed.                                        *)
LEMMA TypeInit == Init => TypeInv
<1> SUFFICES ASSUME Init PROVE TypeInv
  OBVIOUS
<1>1. TypeOK
  <2>1. verificationActive \in BOOLEAN
    BY DEF Init
  <2> QED
    BY <2>1, KernelAssumption DEF Init, TypeOK, Optional, Phases, PCs, Times
<1>2. CallerShape
  BY DEF Init, CallerShape, Judging
<1> QED
  BY <1>1, <1>2 DEF TypeInv

(* Steps that touch no caller.                                             *)
LEMMA TypeRuntimeStep ==
    ASSUME TypeInv,
           UNCHANGED <<callers, history>>,
           /\ root' \in States /\ phase' \in Phases
           /\ observation' \in Optional(Observations)
           /\ proposal' \in Optional(Proposals)
           /\ transition' \in Optional(Transitions)
           /\ decision' \in Optional(Decisions)
           /\ authority' \in Optional(Authorities)
           /\ executionDone' \in 0..attempts
           /\ executionCompletedAt' \in Times \cup {0}
           /\ verificationActive' \in BOOLEAN
           /\ executionResult' \in Optional(Results)
           /\ clock' \in Times
    PROVE  TypeInv'
BY DEF TypeInv, TypeOK, CallerShape, Judging, callers, history

(* A step by which p alone moves, to a place that suits what it holds.     *)
LEMMA TypeCallerStep ==
    ASSUME TypeInv, NEW p \in Callers, NEW where \in PCs, NEW l,
           Enter(p, where, l),
           attempts <= attempts', attempts' \in 0..MaxAttempts,
           where = "idle" => l = None,
           where # "idle" => l \in Locals /\ l.done <= attempts',
           where \in {"verifying", "accepting", "rejecting"} =>
               l.transition # None /\ l.before # None
    PROVE  /\ CallerShape'
           /\ pc' \in [Callers -> PCs]
           /\ local' \in [Callers -> Optional(Locals)]
<1> USE KernelAssumption
<1>1. pc' \in [Callers -> PCs]
  BY DEF Enter, TypeInv, TypeOK
<1>2. local' \in [Callers -> Optional(Locals)]
  BY DEF Enter, TypeInv, TypeOK, Optional
<1>3. ASSUME NEW q \in Callers
      PROVE  /\ pc'[q] = "idle" => local'[q] = None
             /\ pc'[q] # "idle" => local'[q] \in Locals
                                   /\ local'[q].done <= attempts'
             /\ Judging(q)' => local'[q].transition # None
                               /\ local'[q].before # None
  <2>1. CASE q = p
    BY <2>1 DEF Enter, TypeInv, TypeOK, Judging
  <2>2. CASE q # p
    <3>1. pc'[q] = pc[q] /\ local'[q] = local[q]
      BY <2>2 DEF Enter, TypeInv, TypeOK
    <3>2. pc[q] # "idle" => local[q].done \in Nat
      BY DEF TypeInv, CallerShape, Locals, Attempts
    <3> QED
      BY <3>1, <3>2 DEF TypeInv, TypeOK, CallerShape, Judging
  <2> QED
    BY <2>1, <2>2
<1> QED
  BY <1>1, <1>2, <1>3 DEF CallerShape

(* The locals a call starts with are well typed.                           *)
LEMMA HoldingTyped ==
    ASSUME NEW n \in Attempts, NEW t \in Transitions \cup {None}
    PROVE  Holding(n, t) \in Locals /\ Holding(n, t).done = n
BY DEF Holding, Locals

(* What Reserve makes is an authority.                                     *)
LEMMA AuthorityTyped ==
    ASSUME NEW t \in Transitions, NEW now \in Times, NEW lifetime \in Lifetimes
    PROVE  Authority(t, now, lifetime) \in Authorities
<1>1. [transition |-> t, at |-> now] \in ExecutionIDs
  BY DEF ExecutionIDs
<1>2. (IF lifetime > 0 THEN now + lifetime ELSE 0) \in Nat
  BY KernelAssumption DEF Times
<1> QED
  BY <1>1, <1>2 DEF Authority, Authorities

(* No step leaves the types.                                               *)
LEMMA TypeNext == TypeInv /\ [Next]_vars => TypeInv'
<1> SUFFICES ASSUME TypeInv, [Next]_vars
             PROVE  TypeInv'
  OBVIOUS
<1> USE KernelAssumption
<1>1. CASE Tick \/ ClockStepsBack
  BY <1>1, TypeRuntimeStep
     DEF Tick, ClockStepsBack, TypeInv, TypeOK, Times, lifecycle
<1>2. ASSUME NEW o \in Submissions, Observe(o) \/ Recover(o)
      PROVE  TypeInv'
  <2>1. o \in Observations
    BY SubmissionsTyped
  <2>2. EnterObserved(o) /\ UNCHANGED <<root, clock, callers, history>>
    BY <1>2 DEF Observe, Recover
  <2>3. /\ observation' \in Optional(Observations)
        /\ proposal' \in Optional(Proposals)
        /\ transition' \in Optional(Transitions)
        /\ decision' \in Optional(Decisions)
        /\ authority' \in Optional(Authorities)
        /\ executionDone' \in 0..attempts
        /\ executionCompletedAt' \in Times \cup {0}
        /\ executionResult' \in Optional(Results)
        /\ phase' \in Phases
    BY <2>1, <2>2 DEF EnterObserved, Optional, Phases, TypeInv, TypeOK
  <2>5. verificationActive' \in BOOLEAN
    BY <2>2 DEF EnterObserved
  <2>4. root' \in States /\ clock' \in Times /\ UNCHANGED <<callers, history>>
    BY <2>2 DEF TypeInv, TypeOK
  <2> QED
    BY <2>3, <2>4, <2>5, TypeRuntimeStep
<1>3. ASSUME NEW p \in Proposals, Normalize(p)
      PROVE  TypeInv'
  BY <1>3, TypeRuntimeStep DEF Normalize, TypeInv, TypeOK, Optional, Phases
<1>4. CASE Reconcile
  <2>1. ReconcileOf(observation, proposal) \in Transitions
    BY <1>4, SealTyped
       DEF Reconcile, ReconcileOf, Transitions, TypeInv, TypeOK, Optional
  <2> QED
    BY <1>4, <2>1, TypeRuntimeStep
       DEF Reconcile, TypeInv, TypeOK, Optional, Phases
<1>5. ASSUME NEW d \in Decisions, Govern(d)
      PROVE  TypeInv'
  BY <1>5, TypeRuntimeStep DEF Govern, TypeInv, TypeOK, Optional, Phases
<1>6. ASSUME NEW l \in Lifetimes, Reserve(l)
      PROVE  TypeInv'
  <2>1. Authority(transition, clock, l) \in Authorities
    BY <1>6, AuthorityTyped DEF Reserve, TypeInv, TypeOK, Optional
  <2> QED
    BY <1>6, <2>1, TypeRuntimeStep
       DEF Reserve, TypeInv, TypeOK, Optional, Phases
<1>7. CASE Commit
  <2>1. After(transition) \in States
    BY <1>7 DEF Commit, After, Transitions, Proposals,
                TypeInv, TypeOK, Optional
  <2> QED
    BY <1>7, <2>1, TypeRuntimeStep
       DEF Commit, TypeInv, TypeOK, Phases, lifecycle
<1>8. ASSUME NEW p \in Callers, CallerStep(p)
      PROVE  TypeInv'
  <2>0. /\ pc[p] # "idle" => /\ local[p] \in Locals
                             /\ local[p].done \in Attempts
                             /\ local[p].done <= attempts
        /\ Judging(p) => local[p].transition # None /\ local[p].before # None
        /\ attempts \in Nat /\ attempts \in 0..MaxAttempts
    BY DEF TypeInv, TypeOK, CallerShape, Locals
  <2> DEFINE CallersTyped == /\ CallerShape'
                             /\ pc' \in [Callers -> PCs]
                             /\ local' \in [Callers -> Optional(Locals)]
  <2>1. CASE Start(p)
    <3>1. attempts + 1 \in Attempts /\ attempts + 1 \in 0..MaxAttempts
      BY <2>1, <2>0 DEF Start, Attempts
    <3>2. transition \in Transitions /\ authority \in Authorities
      BY <2>1 DEF Start, TypeInv, TypeOK, Optional
    <3> DEFINE l == Holding(attempts + 1, transition)
    <3>3. l \in Locals /\ l.done = attempts + 1
      BY <3>1, <3>2, HoldingTyped
    <3>4. Enter(p, "starting", l) /\ attempts' = attempts + 1
      BY <2>1 DEF Start
    <3> HIDE DEF l
    <3>0. l.done <= attempts' /\ attempts <= attempts'
      BY <3>3, <3>4, <2>0
    <3>5. CallersTyped
      BY <3>1, <3>3, <3>4, <3>0, <2>0, TypeCallerStep DEF PCs
    <3>6. [authority EXCEPT !.consumed = TRUE] \in Authorities
           /\ authority.id \in ExecutionIDs
      BY <3>2 DEF Authorities
    <3>7. /\ attempts' \in 0..MaxAttempts
          /\ executionDone' \in 0..attempts'
          /\ closed' \subseteq 1..attempts'
      BY <2>1, <3>1, <2>0 DEF Start, TypeInv, TypeOK
    <3>8. verificationActive' \in BOOLEAN
      BY <2>1 DEF Start
    <3> QED
      BY <2>1, <3>5, <3>6, <3>7, <3>8
         DEF Start, TypeInv, TypeOK, Optional, Phases
  <2>2. CASE StartSnapshot(p)
    <3> DEFINE l == [local[p] EXCEPT !.before = observation]
    <3>1. l \in Locals /\ l.done = local[p].done
      BY <2>2, <2>0 DEF StartSnapshot, Locals, TypeInv, TypeOK, Optional
    <3>2. Enter(p, "executing", l) /\ attempts' = attempts
      BY <2>2 DEF StartSnapshot
    <3> HIDE DEF l
    <3>3. CallersTyped
      BY <2>2, <3>1, <3>2, <2>0, TypeCallerStep DEF StartSnapshot, PCs
    <3> QED
      BY <2>2, <3>3
         DEF StartSnapshot, TypeInv, TypeOK, lifecycle, history
  <2>3. ASSUME NEW success \in BOOLEAN, StartComplete(p, success)
        PROVE  TypeInv'
    <3>1. CallersTyped
      BY <2>3, <2>0, TypeCallerStep DEF StartComplete, Leave, PCs
    <3>2. [attempt |-> local[p].done, success |-> success] \in Results
      BY <2>3, <2>0 DEF StartComplete, Results
    <3>3. closed' \subseteq 1..attempts'
      BY <2>3, <2>0 DEF StartComplete, Attempts, TypeInv, TypeOK
    <3>4. verificationActive' \in BOOLEAN
      BY <2>3 DEF StartComplete, TypeInv, TypeOK
    <3> QED
      BY <2>3, <3>1, <3>2, <3>3, <3>4
         DEF StartComplete, TypeInv, TypeOK, Optional, Phases
  <2>4. CASE Verify(p)
    <3>1. executionDone \in Attempts /\ executionDone <= attempts
      BY <2>4, <2>0 DEF Verify, CanVerify, Attempts, TypeInv, TypeOK
    <3> DEFINE l == Holding(executionDone, None)
    <3>2. l \in Locals /\ l.done = executionDone
      BY <3>1, HoldingTyped
    <3>3. Enter(p, "waiting", l) /\ attempts' = attempts
      BY <2>4 DEF Verify
    <3> HIDE DEF l
    <3>0. l.done <= attempts' /\ attempts <= attempts'
      BY <3>1, <3>2, <3>3, <2>0
    <3>4. CallersTyped
      BY <3>2, <3>3, <3>0, <2>0, TypeCallerStep DEF PCs
    <3> QED
      BY <2>4, <3>4 DEF Verify, TypeInv, TypeOK, history
  <2>5. CASE VerifyCancel(p)
    <3>1. CallersTyped
      BY <2>5, <2>0, TypeCallerStep DEF VerifyCancel, Leave, PCs
    <3> QED
      BY <2>5, <3>1 DEF VerifyCancel, ReleaseVerificationIfCurrent,
                        TypeInv, TypeOK, history
  <2>6. CASE VerifyWake(p)
    <3> DEFINE l == [local[p] EXCEPT !.transition = transition,
                                     !.before = observation,
                                     !.completedAt = executionCompletedAt,
                                     !.execution = executionResult]
    <3>1. CASE StillCurrent(local[p].done)
      <4>1. /\ l \in Locals /\ l.done = local[p].done
            /\ l.transition # None /\ l.before # None
        BY <2>6, <3>1, <2>0
           DEF VerifyWake, StillCurrent, Locals, TypeInv, TypeOK, Optional
      <4>2. Enter(p, "verifying", l) /\ attempts' = attempts
              /\ UNCHANGED verificationActive
        BY <2>6, <3>1 DEF VerifyWake
      <4> HIDE DEF l
      <4>3. CallersTyped
        BY <2>6, <4>1, <4>2, <2>0, TypeCallerStep DEF VerifyWake, PCs
      <4> QED
        BY <2>6, <4>2, <4>3 DEF VerifyWake, TypeInv, TypeOK, history
    <3>2. CASE ~StillCurrent(local[p].done)
      <4>1. /\ Leave(p) /\ attempts' = attempts
            /\ ReleaseVerificationIfCurrent(local[p].done)
        BY <2>6, <3>2 DEF VerifyWake
      <4>2. CallersTyped
        BY <4>1, <2>0, TypeCallerStep DEF Leave, PCs
      <4> QED
        BY <2>6, <4>1, <4>2 DEF VerifyWake, ReleaseVerificationIfCurrent,
                                TypeInv, TypeOK, history
    <3> QED
      BY <3>1, <3>2
  <2>7. ASSUME NEW l, l \in {local[p]} \cup { [local[p] EXCEPT !.evidence = o] :
                                             o \in Submissions },
               pc[p] = "verifying",
               \/ Enter(p, "accepting", l)
               \/ Enter(p, "rejecting", l),
               UNCHANGED <<root, phase, lifecycle, clock, attempts, closed,
                           history>>
        PROVE  TypeInv'
    <3>1. Judging(p)
      BY <2>7 DEF Judging
    <3>2. /\ l \in Locals /\ l.done = local[p].done
          /\ l.transition # None /\ l.before # None
      BY <2>7, <3>1, <2>0, SubmissionsTyped DEF Locals
    <3>3. CallersTyped
      BY <2>7, <3>1, <3>2, <2>0, TypeCallerStep DEF PCs
    <3> QED
      BY <2>7, <3>3 DEF TypeInv, TypeOK, lifecycle, history
  <2>8. ASSUME NEW o \in Submissions, VerifierReturns(p, o)
        PROVE  TypeInv'
    BY <2>7, <2>8 DEF VerifierReturns
  <2>9. CASE VerifierFails(p)
    BY <2>7, <2>9 DEF VerifierFails
  <2>10. CASE VerifyAccept(p)
    <3>1. CallersTyped
      BY <2>10, <2>0, TypeCallerStep DEF VerifyAccept, Leave, PCs
    <3>2. local[p].evidence \in Optional(Observations)
      BY <2>10, <2>0 DEF VerifyAccept, Locals, Optional
    <3> QED
      BY <2>10, <3>1, <3>2 DEF VerifyAccept, TypeInv, TypeOK, Phases
  <2>11. CASE VerifyReject(p)
    <3>1. CallersTyped
      BY <2>11, <2>0, TypeCallerStep DEF VerifyReject, Leave, PCs
    <3> QED
      BY <2>11, <3>1 DEF VerifyReject, TypeInv, TypeOK, Phases, history
  <2> QED
    BY <1>8, <2>1, <2>2, <2>3, <2>4, <2>5, <2>6, <2>8, <2>9, <2>10, <2>11
       DEF CallerStep
<1>9. CASE UNCHANGED vars
  BY <1>9, TypeRuntimeStep DEF vars, lifecycle, TypeInv, TypeOK
<1> QED
  BY <1>1, <1>2, <1>3, <1>4, <1>5, <1>6, <1>7, <1>8, <1>9 DEF Next

(* Every variable holds a value of its Go type.                            *)
THEOREM TypeCorrect == Spec => []TypeOK
<1>1. TypeInv => TypeOK
  BY DEF TypeInv
<1> QED
  BY TypeInit, TypeNext, <1>1, PTL DEF Spec

-----------------------------------------------------------------------------
(* The inductive invariant *)

(* The initial state satisfies the invariant.                              *)
LEMMA InvInit == Init => IInv
<1> SUFFICES ASSUME Init PROVE IInv
  OBVIOUS
<1>1. TypeInv
  BY TypeInit
<1>2. EvidenceHeld /\ ChannelHeld
  BY DEF Init, EvidenceHeld, ChannelHeld, Decided, Attempted
<1>3. CallersHold
  BY DEF Init, CallersHold, ExecutorHolds, OneExecutor, VerifierHolds, OneVerifier,
         JudgeHolds, HoldsVerification, Executing, Judging
<1>4. EvidenceJudged /\ RootStableUntilCommit
  BY DEF Init, EvidenceJudged, RootStableUntilCommit
<1> QED
  BY <1>1, <1>2, <1>3, <1>4 DEF IInv

(* What a caller's step does to pc and local.                              *)
LEMMA EnterEffect ==
    ASSUME TypeInv, NEW p \in Callers, NEW where, NEW l, Enter(p, where, l)
    PROVE  /\ pc'[p] = where /\ local'[p] = l
           /\ \A q \in Callers \ {p} : pc'[q] = pc[q] /\ local'[q] = local[q]
BY DEF Enter, TypeInv, TypeOK

(* Who runs the provider's code and who holds a verification.              *)
LEMMA CallersNext ==
    ASSUME IInv, [Next]_vars
    PROVE  CallersHold'
<1> USE DEF CallersHold, ExecutorHolds, OneExecutor, VerifierHolds,
            OneVerifier, JudgeHolds, HoldsVerification, Executing, Judging
<1>0. TypeInv /\ EvidenceHeld /\ ChannelHeld /\ CallersHold
  BY DEF IInv
<1>1. /\ TypeInv /\ EvidenceHeld /\ ChannelHeld /\ CallersHold
      /\ \A q \in Callers : pc[q] # "idle" =>
             local[q].done \in 1..attempts /\ local[q].done # 0
  <2>1. ASSUME NEW q \in Callers, pc[q] # "idle"
        PROVE  local[q].done \in 1..attempts /\ local[q].done # 0
    <3>1. local[q] \in Locals /\ local[q].done <= attempts
      BY <1>0, <2>1 DEF TypeInv, CallerShape
    <3>2. local[q].done \in Attempts /\ attempts \in Nat
      BY <1>0, <3>1 DEF Locals, TypeInv, TypeOK
    <3> QED
      BY <3>1, <3>2 DEF Attempts
  <2> QED
    BY <1>0, <2>1
<1>2. CASE Tick \/ ClockStepsBack \/ UNCHANGED vars
  BY <1>1, <1>2 DEF Tick, ClockStepsBack, vars, callers, lifecycle
<1>3. ASSUME NEW o \in Submissions, Observe(o) \/ Recover(o)
      PROVE  CallersHold'
  BY <1>1, <1>3
     DEF Observe, CanObserve, Recover, CanRecover, EnterObserved, callers
<1>4. CASE \/ \E p \in Proposals : Normalize(p)
           \/ Reconcile
           \/ \E d \in Decisions : Govern(d)
           \/ \E l \in Lifetimes : Reserve(l)
  BY <1>1, <1>4 DEF Normalize, Reconcile, Govern, Reserve, callers
<1>5. CASE Commit
  BY <1>1, <1>5 DEF Commit, callers, lifecycle
<1>6. ASSUME NEW p \in Callers, CallerStep(p)
      PROVE  CallersHold'
  <2>1. CASE Start(p)
    <3>1. phase = "RESERVED" /\ phase' = "STARTED"
            /\ executionDone' = attempts + 1 /\ UNCHANGED closed
            /\ UNCHANGED <<transition, observation>>
      BY <2>1 DEF Start
    <3>2. /\ pc'[p] = "starting" /\ local'[p].done = attempts + 1
          /\ local'[p].transition = transition
          /\ \A q \in Callers \ {p} : pc'[q] = pc[q] /\ local'[q] = local[q]
      BY <2>1, <1>1, EnterEffect DEF Start, Holding
    <3>3. attempts + 1 \notin closed /\ attempts \in Nat
      BY <1>1 DEF TypeInv, TypeOK
    <3>4. \A q \in Callers : ~Executing(q) /\ ~Judging(q)
      BY <1>1, <3>1
    <3>5. \A q \in Callers : ~HoldsVerification(q)'
      BY <1>1, <3>1, <3>2, <3>3, <3>4
    <3> QED
      BY <3>1, <3>2, <3>3, <3>4, <3>5
  <2>2. CASE StartSnapshot(p)
    <3>1. pc[p] = "starting" /\ local[p] \in Locals
      BY <1>1, <2>2 DEF StartSnapshot, TypeInv, CallerShape
    <3>2. /\ pc'[p] = "executing"
          /\ local'[p].done = local[p].done
          /\ local'[p].transition = local[p].transition
          /\ local'[p].before = observation
          /\ \A q \in Callers \ {p} : pc'[q] = pc[q] /\ local'[q] = local[q]
      BY <1>1, <2>2, <3>1, EnterEffect DEF StartSnapshot, Locals
    <3>3. UNCHANGED <<phase, observation, transition, executionDone,
                      executionCompletedAt, executionResult,
                      verificationActive, closed>>
      BY <2>2 DEF StartSnapshot, lifecycle
    <3> QED
      BY <1>1, <3>1, <3>2, <3>3
  <2>3. ASSUME NEW success \in BOOLEAN, StartComplete(p, success)
        PROVE  CallersHold'
    <3>1. /\ pc[p] = "executing" /\ phase = "STARTED"
          /\ executionDone = local[p].done /\ executionDone \notin closed
      BY <1>1, <2>3 DEF StartComplete
    <3>2. /\ pc'[p] = "idle"
          /\ \A q \in Callers \ {p} : pc'[q] = pc[q] /\ local'[q] = local[q]
      BY <1>1, <2>3, EnterEffect DEF StartComplete, Leave
    <3>3. \A q \in Callers : ~Judging(q) /\ (Executing(q) => q = p)
      BY <1>1, <3>1
    <3>4. \A q \in Callers : ~Judging(q)' /\ ~Executing(q)'
      BY <3>2, <3>3
    <3>5. \A q \in Callers : HoldsVerification(q)' => HoldsVerification(q)
      BY <2>3, <3>2, <3>4 DEF StartComplete
    <3>6. phase' = "STARTED" => UNCHANGED verificationActive
      BY <2>3 DEF StartComplete
    <3> QED
      BY <1>1, <3>1, <3>4, <3>5, <3>6
  <2>4. CASE Verify(p)
    BY <1>1, <2>4, EnterEffect DEF Verify, CanVerify, Holding
  <2>5. CASE VerifyCancel(p)
    BY <1>1, <2>5, EnterEffect
       DEF VerifyCancel, Leave, ReleaseVerificationIfCurrent
  <2>6. CASE VerifyWake(p) /\ StillCurrent(local[p].done)
    <3>1. /\ pc[p] = "waiting" /\ local[p] \in Locals
          /\ phase = "STARTED" /\ executionDone = local[p].done
          /\ executionDone \in closed
      BY <1>1, <2>6 DEF VerifyWake, StillCurrent, TypeInv, CallerShape
    <3>2. /\ pc'[p] = "verifying"
          /\ local'[p].done = local[p].done
          /\ local'[p].transition = transition
          /\ local'[p].before = observation
          /\ local'[p].completedAt = executionCompletedAt
          /\ local'[p].execution = executionResult
          /\ \A q \in Callers \ {p} : pc'[q] = pc[q] /\ local'[q] = local[q]
      <4> DEFINE l == [local[p] EXCEPT !.transition = transition,
                                       !.before = observation,
                                       !.completedAt = executionCompletedAt,
                                       !.execution = executionResult]
      <4>1. Enter(p, "verifying", l)
        BY <2>6 DEF VerifyWake
      <4>2. /\ l.done = local[p].done /\ l.transition = transition
            /\ l.before = observation
            /\ l.completedAt = executionCompletedAt
            /\ l.execution = executionResult
        BY <3>1 DEF Locals
      <4> HIDE DEF l
      <4> QED
        BY <1>1, <4>1, <4>2, EnterEffect
    <3>3. UNCHANGED <<phase, observation, transition, executionDone,
                      executionCompletedAt, executionResult,
                      verificationActive, closed>>
      BY <2>6 DEF VerifyWake
    <3> QED
      BY <1>1, <3>1, <3>2, <3>3
  <2>7. CASE VerifyWake(p) /\ ~StillCurrent(local[p].done)
    <3>1. /\ pc[p] = "waiting" /\ pc'[p] = "idle"
          /\ \A q \in Callers \ {p} : pc'[q] = pc[q] /\ local'[q] = local[q]
      BY <1>1, <2>7, EnterEffect DEF VerifyWake, Leave
    <3>2. /\ UNCHANGED <<phase, observation, transition, executionDone,
                         executionCompletedAt, executionResult, closed>>
          /\ ReleaseVerificationIfCurrent(local[p].done)
      BY <2>7 DEF VerifyWake
    <3> QED
      BY <1>1, <3>1, <3>2 DEF ReleaseVerificationIfCurrent
  <2>8. ASSUME NEW o \in Submissions, VerifierReturns(p, o)
        PROVE  CallersHold'
    <3>1. pc[p] = "verifying" /\ local[p] \in Locals
      BY <1>1, <2>8 DEF VerifierReturns, TypeInv, CallerShape
    <3>2. /\ pc'[p] \in {"accepting", "rejecting"}
          /\ local'[p].done = local[p].done
          /\ local'[p].transition = local[p].transition
          /\ local'[p].before = local[p].before
          /\ local'[p].completedAt = local[p].completedAt
          /\ local'[p].execution = local[p].execution
          /\ \A q \in Callers \ {p} : pc'[q] = pc[q] /\ local'[q] = local[q]
      BY <1>1, <2>8, <3>1, EnterEffect DEF VerifierReturns, Locals
    <3>3. UNCHANGED <<phase, observation, transition, executionDone,
                      executionCompletedAt, executionResult,
                      verificationActive, closed>>
      BY <2>8 DEF VerifierReturns, lifecycle
    <3> QED
      BY <1>1, <3>1, <3>2, <3>3
  <2>9. CASE VerifierFails(p)
    BY <1>1, <2>9, EnterEffect DEF VerifierFails, lifecycle
  <2>10. CASE VerifyAccept(p)
    BY <1>1, <2>10, EnterEffect DEF VerifyAccept, StillVerifying, Leave
  <2>11. CASE VerifyReject(p)
    BY <1>1, <2>11, EnterEffect DEF VerifyReject, StillVerifying, Leave
  <2> QED
    BY <1>6, <2>1, <2>2, <2>3, <2>4, <2>5, <2>6, <2>7, <2>8, <2>9, <2>10,
       <2>11 DEF CallerStep
<1> QED
  BY <1>2, <1>3, <1>4, <1>5, <1>6 DEF Next

(* What the lifecycle holds in each phase.                                 *)
LEMMA EvidenceHeldNext ==
    ASSUME IInv, [Next]_vars
    PROVE  EvidenceHeld'
<1> USE DEF EvidenceHeld, Decided, Attempted
<1>1. TypeInv /\ EvidenceHeld /\ ChannelHeld /\ CallersHold
  BY DEF IInv
<1>2. CASE Tick \/ ClockStepsBack \/ Commit \/ UNCHANGED vars
  BY <1>1, <1>2 DEF Tick, ClockStepsBack, Commit, vars, lifecycle, Valid
<1>3. ASSUME NEW o \in Submissions, Observe(o) \/ Recover(o)
      PROVE  EvidenceHeld'
  <2>1. o # None
    BY SubmissionsTyped, NoneAssumption
  <2> QED
    BY <1>1, <1>3, <2>1
       DEF Observe, CanObserve, Recover, CanRecover, EnterObserved, Valid
<1>4. CASE \E p \in Proposals : Normalize(p)
  BY <1>1, <1>4 DEF Normalize, Valid
<1>5. CASE Reconcile
  <2>1. transition' \in Transitions
          /\ transition'.observation = observation.fingerprint
    BY <1>1, <1>5, SealTyped
       DEF Reconcile, ReconcileOf, Transitions, TypeInv, TypeOK, Optional
  <2> QED
    BY <1>1, <1>5, <2>1, NoneAssumption DEF Reconcile, Valid
<1>6. ASSUME NEW d \in Decisions, Govern(d)
      PROVE  EvidenceHeld'
  BY <1>1, <1>6 DEF Govern, Valid, IsNoop, Before, After
<1>7. ASSUME NEW l \in Lifetimes, Reserve(l)
      PROVE  EvidenceHeld'
  <2>1. authority' # None
    BY <1>1, <1>7, AuthorityTyped, NoneAssumption
       DEF Reserve, TypeInv, TypeOK, Optional
  <2> QED
    BY <1>1, <1>7, <2>1 DEF Reserve, Valid, IsNoop, Before, After
<1>8. ASSUME NEW p \in Callers, CallerStep(p)
      PROVE  EvidenceHeld'
  <2>1. CASE Start(p)
    <3>1. authority' # None
      BY <1>1, <2>1, NoneAssumption
         DEF Start, Authorities, TypeInv, TypeOK, Optional
    <3> QED
      BY <1>1, <2>1, <3>1 DEF Start, Valid, IsNoop, Before, After
  <2>2. CASE ~Start(p)
    <3>1. UNCHANGED <<observation, transition, authority>>
      BY <1>8, <2>2
         DEF CallerStep, StartSnapshot, StartComplete, Verify, VerifyCancel,
             VerifyWake, VerifierReturns, VerifierFails, VerifyAccept,
             VerifyReject, lifecycle
    <3>2. \/ phase' = phase
          \/ phase = "STARTED" /\ phase' \in {"RECOVERY", "VERIFIED"}
      BY <1>8, <2>2
         DEF CallerStep, StartSnapshot, StartComplete, Verify, VerifyCancel,
             VerifyWake, VerifierReturns, VerifierFails, VerifyAccept,
             VerifyReject, StillVerifying, lifecycle
    <3> QED
      BY <1>1, <3>1, <3>2 DEF Valid, IsNoop, Before, After
  <2> QED
    BY <2>1, <2>2
<1> QED
  BY <1>2, <1>3, <1>4, <1>5, <1>6, <1>7, <1>8 DEF Next

(* Which channel the lifecycle holds, and what a closed channel implies.   *)
LEMMA ChannelHeldNext ==
    ASSUME IInv, [Next]_vars
    PROVE  ChannelHeld'
<1> USE DEF ChannelHeld, Attempted
<1>1. TypeInv /\ EvidenceHeld /\ ChannelHeld /\ CallersHold
  BY DEF IInv
<1>2. CASE Tick \/ ClockStepsBack \/ UNCHANGED vars
  BY <1>1, <1>2 DEF Tick, ClockStepsBack, vars, lifecycle, callers
<1>3. CASE Commit
  BY <1>1, <1>3 DEF Commit, lifecycle, callers
<1>4. ASSUME NEW o \in Submissions, Observe(o) \/ Recover(o)
      PROVE  ChannelHeld'
  BY <1>1, <1>4
     DEF Observe, Recover, EnterObserved, callers, TypeInv, TypeOK
<1>5. CASE \/ \E p \in Proposals : Normalize(p)
           \/ Reconcile
           \/ \E d \in Decisions : Govern(d)
           \/ \E l \in Lifetimes : Reserve(l)
  BY <1>1, <1>5 DEF Normalize, Reconcile, Govern, Reserve, callers
<1>6. ASSUME NEW p \in Callers, CallerStep(p)
      PROVE  ChannelHeld'
  <2>1. CASE Start(p)
    BY <1>1, <2>1 DEF Start, TypeInv, TypeOK
  <2>2. ASSUME NEW success \in BOOLEAN, StartComplete(p, success)
        PROVE  ChannelHeld'
    <3>1. /\ phase = "STARTED" /\ executionDone = local[p].done
          /\ pc[p] = "executing"
      BY <1>1, <2>2 DEF StartComplete, CallersHold, ExecutorHolds, Executing
    <3>2. [attempt |-> local[p].done, success |-> success] \in Results
      BY <1>1, <3>1
         DEF Results, TypeInv, CallerShape, Locals
    <3>3. clock # 0
      BY <1>1, KernelAssumption DEF TypeInv, TypeOK, Times
    <3>4. /\ executionCompletedAt' # 0
          /\ executionResult' # None
          /\ executionResult'.attempt = executionDone
          /\ executionResult'.success = success
          /\ closed' = closed \cup {executionDone}
          /\ executionDone' = executionDone
          /\ phase' = IF success THEN "STARTED" ELSE "RECOVERY"
      BY <2>2, <3>1, <3>2, <3>3, NoneAssumption DEF StartComplete
    <3> QED
      BY <1>1, <3>1, <3>4
  <2>3. CASE StartSnapshot(p) \/ Verify(p) \/ VerifyCancel(p)
               \/ VerifyWake(p) \/ VerifierFails(p)
               \/ \E o \in Submissions : VerifierReturns(p, o)
    BY <1>1, <2>3
       DEF StartSnapshot, Verify, VerifyCancel, VerifyWake, VerifierFails,
           VerifierReturns, lifecycle
  <2>4. CASE VerifyAccept(p) \/ VerifyReject(p)
    BY <1>1, <2>4
       DEF VerifyAccept, VerifyReject, CallersHold, JudgeHolds, Judging
  <2> QED
    BY <1>6, <2>1, <2>2, <2>3, <2>4 DEF CallerStep
<1> QED
  BY <1>2, <1>3, <1>4, <1>5, <1>6 DEF Next

(* The evidence a verifier gave, before and after it is recorded.          *)
LEMMA EvidenceJudgedNext ==
    ASSUME IInv, [Next]_vars
    PROVE  EvidenceJudged'
<1> USE DEF EvidenceJudged, Proves, Subject, After
<1>1. /\ TypeInv /\ EvidenceHeld /\ ChannelHeld /\ CallersHold
      /\ EvidenceJudged
  BY DEF IInv
<1>2. CASE Tick \/ ClockStepsBack \/ Commit \/ UNCHANGED vars
  BY <1>1, <1>2
     DEF Tick, ClockStepsBack, Commit, vars, lifecycle, callers, history
<1>3. CASE \/ \E o \in Submissions : Observe(o) \/ Recover(o)
           \/ \E p \in Proposals : Normalize(p)
           \/ Reconcile
           \/ \E d \in Decisions : Govern(d)
           \/ \E l \in Lifetimes : Reserve(l)
  <2>1. /\ phase # "STARTED" /\ phase' \notin {"VERIFIED", "COMMITTED"}
        /\ UNCHANGED <<pc, local>>
    BY <1>3 DEF Observe, CanObserve, Recover, CanRecover, EnterObserved,
                Normalize, Reconcile, Govern, Reserve, callers
  <2>2. \A p \in Callers : pc[p] # "accepting"
    BY <1>1, <2>1 DEF CallersHold, JudgeHolds, Judging
  <2> QED
    BY <2>1, <2>2
<1>4. ASSUME NEW p \in Callers, CallerStep(p)
      PROVE  EvidenceJudged'
  <2>1. ASSUME \/ Start(p)
               \/ \E success \in BOOLEAN : StartComplete(p, success)
        PROVE  EvidenceJudged'
    <3>1. \A q \in Callers : ~Judging(q)
      BY <1>1, <2>1 DEF Start, StartComplete, CallersHold, JudgeHolds,
                        ExecutorHolds, Executing
    <3>2. /\ pc'[p] \in {"starting", "idle"}
          /\ \A q \in Callers \ {p} : pc'[q] = pc[q]
      BY <1>1, <2>1, EnterEffect DEF Start, StartComplete, Leave
    <3>3. \A q \in Callers : pc'[q] # "accepting"
      BY <3>1, <3>2 DEF Judging
    <3>4. phase' \notin {"VERIFIED", "COMMITTED"}
      BY <1>1, <2>1 DEF Start, StartComplete, CallersHold, ExecutorHolds,
                        Executing
    <3> QED
      BY <3>3, <3>4
  <2>2. ASSUME \/ StartSnapshot(p) \/ Verify(p) \/ VerifyCancel(p)
               \/ VerifyWake(p) \/ VerifierFails(p) \/ VerifyReject(p)
        PROVE  EvidenceJudged'
    <3>1. /\ pc'[p] # "accepting"
          /\ \A q \in Callers \ {p} : pc'[q] = pc[q] /\ local'[q] = local[q]
      BY <1>1, <2>2, EnterEffect
         DEF StartSnapshot, Verify, VerifyCancel, VerifyWake, VerifierFails,
             VerifyReject, Leave
    <3>2. /\ UNCHANGED <<transition, observation, executionCompletedAt,
                         accepted>>
          /\ phase' \in {"VERIFIED", "COMMITTED"} => phase' = phase
      BY <2>2
         DEF StartSnapshot, Verify, VerifyCancel, VerifyWake, VerifierFails,
             VerifyReject, lifecycle, history
    <3> QED
      BY <1>1, <3>1, <3>2
  <2>3. ASSUME NEW o \in Submissions, VerifierReturns(p, o)
        PROVE  EvidenceJudged'
    <3>1. /\ pc[p] = "verifying" /\ local[p] \in Locals
          /\ local[p].transition = transition
          /\ local[p].before = observation
          /\ local[p].completedAt = executionCompletedAt
      BY <1>1, <2>3 DEF VerifierReturns, TypeInv, CallerShape, CallersHold,
                        JudgeHolds, Judging
    <3>2. o \in Observations /\ o # None
      BY SubmissionsTyped, NoneAssumption
    <3>3. UNCHANGED <<transition, observation, executionCompletedAt,
                      accepted, phase>>
      BY <2>3 DEF VerifierReturns, lifecycle, history
    <3>4. CASE Convincing(o, local[p], clock)
      <4>1. Proves(o)
        BY <3>1, <3>2, <3>4 DEF Convincing, Valid, SealOf
      <4>2. /\ pc'[p] = "accepting" /\ local'[p].evidence = o
            /\ \A q \in Callers \ {p} : pc'[q] = pc[q] /\ local'[q] = local[q]
        BY <1>1, <2>3, <3>1, <3>4, EnterEffect DEF VerifierReturns, Locals
      <4> QED
        BY <1>1, <3>3, <4>1, <4>2
    <3>5. CASE ~Convincing(o, local[p], clock)
      <4>1. /\ pc'[p] = "rejecting"
            /\ \A q \in Callers \ {p} : pc'[q] = pc[q] /\ local'[q] = local[q]
        BY <1>1, <2>3, <3>5, EnterEffect DEF VerifierReturns
      <4> QED
        BY <1>1, <3>3, <4>1
    <3> QED
      BY <3>4, <3>5
  <2>4. CASE VerifyAccept(p)
    <3>1. /\ pc'[p] = "idle"
          /\ \A q \in Callers \ {p} : pc'[q] = pc[q] /\ local'[q] = local[q]
      BY <1>1, <2>4, EnterEffect DEF VerifyAccept, Leave
    <3> QED
      BY <1>1, <2>4, <3>1 DEF VerifyAccept
  <2> QED
    BY <1>4, <2>1, <2>2, <2>3, <2>4 DEF CallerStep
<1> QED
  BY <1>2, <1>3, <1>4 DEF Next

(* The root agrees with the transition from Start to Commit, one step.     *)
LEMMA RootNext ==
    ASSUME IInv, [Next]_vars
    PROVE  RootStableUntilCommit'
<1> USE DEF RootStableUntilCommit, Before
<1>1. /\ TypeInv /\ EvidenceHeld /\ ChannelHeld /\ CallersHold
      /\ RootStableUntilCommit
  BY DEF IInv
<1>2. CASE Tick \/ ClockStepsBack \/ Commit \/ UNCHANGED vars
  BY <1>1, <1>2 DEF Tick, ClockStepsBack, Commit, vars, lifecycle
<1>3. CASE \/ \E o \in Submissions : Observe(o) \/ Recover(o)
           \/ \E p \in Proposals : Normalize(p)
           \/ Reconcile
           \/ \E d \in Decisions : Govern(d)
           \/ \E l \in Lifetimes : Reserve(l)
  BY <1>3 DEF Observe, Recover, EnterObserved, Normalize, Reconcile, Govern,
              Reserve
<1>4. ASSUME NEW p \in Callers, CallerStep(p)
      PROVE  RootStableUntilCommit'
  <2>1. UNCHANGED <<root, transition>>
    BY <1>4
       DEF CallerStep, Start, StartSnapshot, StartComplete, Verify,
           VerifyCancel, VerifyWake, VerifierReturns, VerifierFails,
           VerifyAccept, VerifyReject, lifecycle
  <2>2. phase' \in {"STARTED", "VERIFIED"} =>
           phase \in {"STARTED", "VERIFIED"} \/ root = Before(transition)
    BY <1>4
       DEF CallerStep, Start, StartSnapshot, StartComplete, Verify,
           VerifyCancel, VerifyWake, VerifierReturns, VerifierFails,
           VerifyAccept, VerifyReject, StillVerifying
  <2> QED
    BY <1>1, <2>1, <2>2
<1> QED
  BY <1>2, <1>3, <1>4 DEF Next

(* No step leaves the invariant.                                           *)
LEMMA InvNext == IInv /\ [Next]_vars => IInv'
BY TypeNext, EvidenceHeldNext, ChannelHeldNext, CallersNext,
   EvidenceJudgedNext, RootNext
   DEF IInv

(* The invariant always holds.                                             *)
LEMMA Invariance == Spec => []IInv
BY InvInit, InvNext, PTL DEF Spec

-----------------------------------------------------------------------------
(* Safety, read off the invariant *)

(* While an executor may be acting, the lifecycle is its own.              *)
THEOREM ExecutionOwns == Spec => []ExecutionOwnsLifecycle
<1>1. IInv => ExecutionOwnsLifecycle
  BY DEF IInv, CallersHold, ExecutorHolds, OneExecutor,
         ExecutionOwnsLifecycle
<1> QED
  BY <1>1, Invariance, PTL

(* The executor is handed the observation its authority was granted for.   *)
THEOREM ExecutorSees == Spec => []ExecutorSeesAuthorizedObservation
<1>1. IInv => ExecutorSeesAuthorizedObservation
  BY DEF IInv, CallersHold, ExecutorHolds, Executing, EvidenceHeld, Decided,
         ExecutorSeesAuthorizedObservation
<1> QED
  BY <1>1, Invariance, PTL

(* A verifier judges the completed, successful execution it was given.     *)
THEOREM VerificationFollows == Spec => []VerificationFollowsCompletion
<1>1. IInv => VerificationFollowsCompletion
  <2> SUFFICES ASSUME IInv, NEW p \in Callers, Judging(p)
               PROVE  /\ local[p].done \in closed
                      /\ local[p].execution =
                            [attempt |-> local[p].done, success |-> TRUE]
                      /\ phase = "STARTED" /\ executionDone = local[p].done
                      /\ local[p].transition = transition
    BY DEF VerificationFollowsCompletion
  <2>1. /\ phase = "STARTED" /\ executionDone = local[p].done
        /\ executionDone \in closed /\ local[p].transition = transition
        /\ local[p].execution = executionResult
    BY DEF IInv, CallersHold, JudgeHolds
  <2>2. /\ executionResult \in Results
        /\ executionResult.attempt = executionDone /\ executionResult.success
    BY <2>1 DEF IInv, ChannelHeld, TypeInv, TypeOK, Optional
  <2>3. executionResult = [attempt |-> executionDone, success |-> TRUE]
    BY <2>2 DEF Results
  <2> QED
    BY <2>1, <2>3
<1> QED
  BY <1>1, Invariance, PTL

(* One caller at most holds the current attempt's verification.            *)
THEOREM OneVerifierAtATime == Spec => []SingleVerifier
<1>1. IInv => SingleVerifier
  BY DEF IInv, CallersHold, VerifierHolds, OneVerifier, HoldsVerification,
         SingleVerifier
<1> QED
  BY <1>1, Invariance, PTL

(* A VERIFIED or COMMITTED lifecycle rests on evidence sealed after its    *)
(* execution completed, of its subject, state and token.                   *)
THEOREM CommitIsProven == Spec => []EvidenceBindsCommit
<1>1. IInv => EvidenceBindsCommit
  BY DEF IInv, EvidenceJudged, Proves, ChannelHeld, Attempted,
         EvidenceBindsCommit
<1> QED
  BY <1>1, Invariance, PTL

(* The root cannot change between Start and Commit.                        *)
THEOREM RootIsStable == Spec => []RootStableUntilCommit
BY Invariance, PTL DEF IInv

(* RECOVERY is never a dead end.                                           *)
THEOREM RecoveryIsPossible == Spec => []RecoveryStaysPossible
<1>1. IInv => RecoveryStaysPossible
  BY DEF IInv, EvidenceHeld, ChannelHeld, Attempted, RecoveryStaysPossible
<1> QED
  BY <1>1, Invariance, PTL

(* Recover takes evidence sealed after the abandoned execution completed.  *)
THEOREM RecoveryIsFresh == Spec => RecoveryTakesNewEvidence
<1>1. ASSUME Next, phase = "RECOVERY", phase' # "RECOVERY"
      PROVE  observation'.fingerprint.at > executionCompletedAt
  <2>1. PICK o \in Submissions : Recover(o)
    BY <1>1
       DEF Next, Tick, ClockStepsBack, Observe, CanObserve, Normalize,
           Reconcile, Govern, Reserve, Commit, CallerStep, Start,
           StartSnapshot, StartComplete, Verify, CanVerify, VerifyCancel,
           VerifyWake, VerifierReturns, VerifierFails, VerifyAccept,
           VerifyReject, StillVerifying, lifecycle
  <2>2. o \in Observations
    BY SubmissionsTyped
  <2> QED
    BY <2>1, <2>2 DEF Recover, CanRecover, EnterObserved, Valid, SealOf
<1>2. [Next]_vars => [phase = "RECOVERY" /\ phase' # "RECOVERY" =>
                        observation'.fingerprint.at > executionCompletedAt]_vars
  BY <1>1
<1> QED
  BY <1>2, PTL DEF Spec, RecoveryTakesNewEvidence

-----------------------------------------------------------------------------
(* Execution IDs *)

(* No ID is spent at first.                                                *)
LEMMA IDsAgeInit == Init => IDsAge
BY DEF Init, IDsAge, SpentBy

(* A bound on the spent IDs only weakens as it grows.                      *)
LEMMA SpentByMonotone ==
    ASSUME TypeInv, NEW t \in Int, NEW u \in Int, t <= u, SpentBy(t)
    PROVE  SpentBy(u)
BY DEF SpentBy, TypeInv, TypeOK, ExecutionIDs, Times

(* Time passes between an execution and the next reservation, one step.    *)
LEMMA IDsAgeNext ==
    ASSUME IInv, IDsAge, [Next]_vars
    PROVE  IDsAge'
<1> SUFFICES ASSUME ~ClockMayStepBack PROVE IDsAge'
  BY DEF IDsAge
<1> USE DEF IDsAge
<1>1. /\ TypeInv /\ EvidenceHeld /\ ChannelHeld /\ CallersHold
      /\ EvidenceJudged
      /\ clock \in Int /\ 0 <= clock /\ clock - 1 \in Int
      /\ executionCompletedAt \in Int
  BY DEF IInv, TypeInv, TypeOK, Times
<1>2. CASE Tick
  <2>1. /\ clock' = clock + 1
        /\ UNCHANGED <<phase, authority, executionDone, executionCompletedAt,
                       closed, pc, local, spent>>
    BY <1>2 DEF Tick, lifecycle, callers, history
  <2>2. SpentBy(clock)'
    BY <1>1, <2>1, SpentByMonotone DEF SpentBy
  <2>3. phase' \notin {"STARTED", "RECOVERY"} => SpentBy(clock - 1)'
    BY <1>1, <2>1, <2>2, SpentByMonotone DEF SpentBy
  <2>4. phase' = "RESERVED" => authority'.id.at <= clock'
    BY <1>1, <2>1
       DEF EvidenceHeld, Attempted, TypeInv, TypeOK, Optional, Authorities,
           ExecutionIDs, Times
  <2>5. \A p \in Callers : pc[p] = "accepting" =>
           local[p].evidence.at \in Int
    BY <1>1 DEF EvidenceJudged, Proves, TypeInv, CallerShape, Locals,
                Observations, Times
  <2> QED
    BY <1>1, <2>1, <2>2, <2>3, <2>4, <2>5 DEF SpentBy
<1>3. CASE Commit \/ UNCHANGED vars
  BY <1>1, <1>3 DEF SpentBy, Commit, vars, lifecycle, callers, history
<1>4. ASSUME NEW o \in Submissions, Observe(o)
      PROVE  IDsAge'
  BY <1>1, <1>4
     DEF SpentBy, Observe, CanObserve, EnterObserved, callers, history
<1>5. ASSUME NEW o \in Submissions, Recover(o)
      PROVE  IDsAge'
  <2>1. o.at \in Int
    BY SubmissionsTyped DEF Observations, Times
  <2>2. SpentBy(executionCompletedAt)
    BY <1>1, <1>5 DEF Recover, CanRecover, ChannelHeld, Attempted
  <2>3. SpentBy(clock - 1)
    BY <1>1, <1>5, <2>1, <2>2, SpentByMonotone DEF Recover, CanRecover
  <2> QED
    BY <1>1, <1>5, <2>3
       DEF SpentBy, Recover, EnterObserved, callers, history
<1>6. CASE \/ \E p \in Proposals : Normalize(p)
           \/ Reconcile
           \/ \E d \in Decisions : Govern(d)
  BY <1>1, <1>6
     DEF SpentBy, Normalize, Reconcile, Govern, callers, history
<1>7. ASSUME NEW l \in Lifetimes, Reserve(l)
      PROVE  IDsAge'
  BY <1>1, <1>7 DEF SpentBy, Reserve, Authority, callers, history
<1>8. ASSUME NEW p \in Callers, CallerStep(p)
      PROVE  IDsAge'
  <2>1. CASE Start(p)
    <3>1. /\ phase = "RESERVED" /\ phase' = "STARTED"
          /\ executionDone' = attempts + 1 /\ executionCompletedAt' = 0
          /\ spent' = spent \cup {authority.id}
          /\ UNCHANGED <<clock, closed>>
      BY <2>1 DEF Start
    <3>2. executionDone' \notin closed'
      BY <1>1, <3>1 DEF TypeInv, TypeOK
    <3>3. /\ pc'[p] = "starting"
          /\ \A q \in Callers \ {p} : pc'[q] = pc[q] /\ local'[q] = local[q]
      BY <1>1, <2>1, EnterEffect DEF Start
    <3>4. SpentBy(clock)'
      BY <1>1, <3>1 DEF SpentBy
    <3> QED
      BY <1>1, <3>1, <3>2, <3>3, <3>4
  <2>2. ASSUME NEW success \in BOOLEAN, StartComplete(p, success)
        PROVE  IDsAge'
    <3>1. /\ phase = "STARTED" /\ executionDone = local[p].done
          /\ pc[p] = "executing"
      BY <1>1, <2>2 DEF StartComplete, CallersHold, ExecutorHolds, Executing
    <3>2. /\ executionCompletedAt' = clock
          /\ phase' \in {"STARTED", "RECOVERY"}
          /\ UNCHANGED <<clock, spent>>
      BY <2>2, <3>1 DEF StartComplete
    <3>3. /\ pc'[p] = "idle"
          /\ \A q \in Callers \ {p} : pc'[q] = pc[q] /\ local'[q] = local[q]
      BY <1>1, <2>2, EnterEffect DEF StartComplete, Leave
    <3> QED
      BY <1>1, <3>2, <3>3 DEF SpentBy
  <2>3. CASE \/ StartSnapshot(p) \/ Verify(p) \/ VerifyCancel(p)
             \/ VerifyWake(p) \/ VerifierFails(p)
    <3>1. /\ pc'[p] # "accepting"
          /\ \A q \in Callers \ {p} : pc'[q] = pc[q] /\ local'[q] = local[q]
      BY <1>1, <2>3, EnterEffect
         DEF StartSnapshot, Verify, VerifyCancel, VerifyWake, VerifierFails,
             Leave
    <3>2. UNCHANGED <<phase, authority, executionDone, executionCompletedAt,
                      closed, clock, spent>>
      BY <2>3 DEF StartSnapshot, Verify, VerifyCancel, VerifyWake,
                  VerifierFails, lifecycle, history
    <3> QED
      BY <1>1, <3>1, <3>2 DEF SpentBy
  <2>4. ASSUME NEW o \in Submissions, VerifierReturns(p, o)
        PROVE  IDsAge'
    <3>1. pc[p] = "verifying" /\ local[p] \in Locals
      BY <1>1, <2>4 DEF VerifierReturns, TypeInv, CallerShape
    <3>2. /\ pc'[p] = "accepting" =>
                 local'[p].evidence = o /\ Convincing(o, local[p], clock)
          /\ \A q \in Callers \ {p} : pc'[q] = pc[q] /\ local'[q] = local[q]
      BY <1>1, <2>4, <3>1, EnterEffect DEF VerifierReturns, Locals
    <3>3. UNCHANGED <<phase, authority, executionDone, executionCompletedAt,
                      closed, clock, spent>>
      BY <2>4 DEF VerifierReturns, lifecycle, history
    <3> QED
      BY <1>1, <3>2, <3>3 DEF SpentBy, Convincing, Valid, SealOf
  <2>5. CASE VerifyAccept(p)
    <3>1. /\ pc[p] = "accepting"
          /\ UNCHANGED <<authority, executionDone, executionCompletedAt,
                         closed, clock, spent>>
          /\ phase' \in {phase, "VERIFIED"}
      BY <2>5 DEF VerifyAccept
    <3>2. executionDone \in closed /\ executionDone # 0 /\ phase = "STARTED"
      BY <1>1, <3>1 DEF CallersHold, JudgeHolds, Judging, ChannelHeld, Attempted
    <3>3. executionCompletedAt <= clock - 1
      <4>1. local[p].evidence \in Observations
        BY <1>1, <3>1 DEF EvidenceJudged, Proves, TypeInv, CallerShape, Locals
      <4>2. Valid(local[p].evidence) /\ local[p].evidence.at <= clock
        BY <3>1
      <4>3. local[p].evidence.at = local[p].evidence.fingerprint.at
        BY <4>2 DEF Valid, SealOf
      <4>4. local[p].evidence.at \in Int
        BY <4>1 DEF Observations, Times
      <4>5. local[p].evidence.fingerprint.at > executionCompletedAt
        BY <1>1, <3>1 DEF EvidenceJudged, Proves
      <4> QED
        BY <1>1, <4>2, <4>3, <4>4, <4>5
    <3>4. SpentBy(clock - 1)
      BY <1>1, <3>2, <3>3, SpentByMonotone
    <3>5. /\ pc'[p] = "idle"
          /\ \A q \in Callers \ {p} : pc'[q] = pc[q] /\ local'[q] = local[q]
      BY <1>1, <2>5, EnterEffect DEF VerifyAccept, Leave
    <3> QED
      BY <1>1, <3>1, <3>2, <3>4, <3>5 DEF SpentBy
  <2>6. CASE VerifyReject(p)
    <3>1. /\ pc'[p] = "idle"
          /\ \A q \in Callers \ {p} : pc'[q] = pc[q] /\ local'[q] = local[q]
      BY <1>1, <2>6, EnterEffect DEF VerifyReject, Leave
    <3> QED
      BY <1>1, <2>6, <3>1 DEF SpentBy, VerifyReject, history
  <2> QED
    BY <1>8, <2>1, <2>2, <2>3, <2>4, <2>5, <2>6 DEF CallerStep
<1> QED
  BY <1>2, <1>3, <1>4, <1>5, <1>6, <1>7, <1>8 DEF Next, ClockStepsBack

(* With a clock that is never set back no execution ID is reserved again   *)
(* once it was executed.                                                   *)
THEOREM IDsAreFresh == Spec => []ReservedAuthorityIsFresh
<1>1. Spec => []IDsAge
  <2>1. IInv /\ IInv' /\ IDsAge /\ [Next]_vars => IDsAge'
    BY IDsAgeNext
  <2> QED
    BY <2>1, IDsAgeInit, Invariance, PTL DEF Spec
<1>2. IInv /\ IDsAge => ReservedAuthorityIsFresh
  BY DEF IInv, EvidenceHeld, Attempted, TypeInv, TypeOK, Optional,
         Authorities, ExecutionIDs, Times, IDsAge, SpentBy,
         ReservedAuthorityIsFresh
<1> QED
  BY <1>1, <1>2, Invariance, PTL

-----------------------------------------------------------------------------
(* The kernel implements ControlBoundary *)

(* An initial state is one of ControlBoundary.                             *)
LEMMA BoundaryInit == Init => Boundary!Init
BY DEF Init, Boundary!Init, Stage, Pending, BoundSubject

(* Steps that do not show at the boundary.                                 *)
LEMMA BoundaryStutter ==
    ASSUME UNCHANGED <<root, observation>>, Stage' = Stage, Pending' = Pending
    PROVE  UNCHANGED Boundary!vars
BY DEF Boundary!vars, BoundSubject

(* A step is a step of ControlBoundary or a stutter.                       *)
LEMMA BoundaryNext ==
    ASSUME IInv, [Next]_vars
    PROVE  Boundary!Next \/ UNCHANGED Boundary!vars
<1>1. /\ TypeInv /\ EvidenceHeld /\ ChannelHeld /\ CallersHold
      /\ RootStableUntilCommit
  BY DEF IInv
<1>2. CASE Tick \/ ClockStepsBack \/ UNCHANGED vars
  BY <1>2, BoundaryStutter
     DEF Tick, ClockStepsBack, vars, lifecycle, callers, Stage, Pending,
         Before, After
<1>3. ASSUME NEW o \in Submissions, Observe(o)
      PROVE  Boundary!Next \/ UNCHANGED Boundary!vars
  <2>1. Stage = "open" /\ Stage' = "open" /\ Pending = None /\ Pending' = None
    BY <1>3 DEF Observe, CanObserve, EnterObserved, Stage, Pending
  <2>2. o.subject \in Subjects /\ o # None /\ o.subject # None
    BY SubmissionsTyped, NoneAssumption DEF Observations
  <2>3. CASE observation = None
    BY <1>3, <2>1, <2>2, <2>3
       DEF Observe, EnterObserved, BoundSubject, Boundary!Next, Boundary!Bind
  <2>4. CASE observation # None
    BY <1>3, <2>1, <2>2, <2>4
       DEF Observe, CanObserve, EnterObserved, BoundSubject, Boundary!vars
  <2> QED
    BY <2>3, <2>4
<1>4. CASE \/ \E p \in Proposals : Normalize(p)
           \/ Reconcile
           \/ \E d \in Decisions : Govern(d)
           \/ \E l \in Lifetimes : Reserve(l)
  <2>1. /\ UNCHANGED <<root, observation>>
        /\ Stage = "open" /\ Stage' = "open"
        /\ Pending = None /\ Pending' = None
    BY <1>4 DEF Normalize, Reconcile, Govern, Reserve, Stage, Pending
  <2> QED
    BY <2>1, BoundaryStutter
<1>5. CASE Commit
  <2>1. /\ phase = "VERIFIED" /\ phase' = "COMMITTED"
        /\ root' = After(transition) /\ UNCHANGED observation
    BY <1>1, <1>5 DEF Commit, RootStableUntilCommit, lifecycle
  <2>2. /\ Stage = "confirmed" /\ Stage' = "open"
        /\ Pending.after = After(transition) /\ Pending' = None
    BY <2>1 DEF Stage, Pending
  <2> QED
    BY <2>1, <2>2
       DEF Boundary!Next, Boundary!Commit, Boundary!Close, BoundSubject
<1>6. ASSUME NEW o \in Submissions, Recover(o)
      PROVE  Boundary!Next \/ UNCHANGED Boundary!vars
  <2>1. /\ phase = "RECOVERY" /\ phase' = "OBSERVED" /\ UNCHANGED root
        /\ observation # None /\ observation' = o
        /\ o.subject = observation.subject /\ o # None
    BY <1>6, SubmissionsTyped, NoneAssumption
       DEF Recover, CanRecover, EnterObserved
  <2>2. Stage = "recovery" /\ Stage' = "open" /\ Pending' = None
    BY <2>1 DEF Stage, Pending
  <2> QED
    BY <2>1, <2>2
       DEF Boundary!Next, Boundary!Recover, Boundary!Close, BoundSubject
<1>7. ASSUME NEW p \in Callers, CallerStep(p)
      PROVE  Boundary!Next \/ UNCHANGED Boundary!vars
  <2>1. CASE Start(p)
    <3>1. /\ phase = "RESERVED" /\ phase' = "STARTED"
          /\ executionDone' \notin closed'
          /\ UNCHANGED <<root, observation, transition>>
      BY <1>1, <2>1 DEF Start, TypeInv, TypeOK
    <3>2. /\ transition \in Transitions /\ observation \in Observations
          /\ observation # None /\ observation.subject # None
          /\ ~IsNoop(transition) /\ root = Before(transition)
      BY <1>1, <2>1, NoneAssumption
         DEF Start, EvidenceHeld, Decided, TypeInv, TypeOK, Optional,
             Observations
    <3> DEFINE m == [before |-> Before(transition), after |-> After(transition)]
    <3>3. m \in Boundary!Moves
      BY <3>2 DEF Boundary!Moves, Transitions, Seals, Proposals, Before, After
    <3>4. /\ Stage = "open" /\ Stage' = "executing" /\ Pending' = m
      BY <3>1 DEF Stage, Pending, Before, After
    <3>5. Boundary!Begin(m)
      BY <3>1, <3>2, <3>4 DEF Boundary!Begin, BoundSubject, IsNoop
    <3> QED
      BY <3>3, <3>5 DEF Boundary!Next
  <2>2. ASSUME NEW success \in BOOLEAN, StartComplete(p, success)
        PROVE  Boundary!Next \/ UNCHANGED Boundary!vars
    <3>1. /\ phase = "STARTED" /\ executionDone = local[p].done
          /\ executionDone \notin closed
      BY <1>1, <2>2 DEF StartComplete, CallersHold, ExecutorHolds, Executing
    <3>2. /\ phase' = IF success THEN "STARTED" ELSE "RECOVERY"
          /\ executionDone' \in closed'
          /\ UNCHANGED <<root, observation, transition>>
      BY <2>2, <3>1 DEF StartComplete
    <3>3. /\ Stage = "executing"
          /\ Stage' = IF success THEN "executed" ELSE "recovery"
          /\ Pending' = Pending /\ BoundSubject' = BoundSubject
      BY <3>1, <3>2 DEF Stage, Pending, Before, After, BoundSubject
    <3> QED
      BY <3>2, <3>3 DEF Boundary!Next, Boundary!Become
  <2>3. CASE \/ StartSnapshot(p) \/ Verify(p) \/ VerifyCancel(p)
             \/ VerifyWake(p) \/ VerifierFails(p)
             \/ \E o \in Submissions : VerifierReturns(p, o)
    <3>1. UNCHANGED <<root, observation, transition, phase, executionDone,
                      closed>>
      BY <2>3 DEF StartSnapshot, Verify, VerifyCancel, VerifyWake,
                  VerifierFails, VerifierReturns, lifecycle
    <3> QED
      BY <3>1, BoundaryStutter DEF Stage, Pending, Before, After
  <2>4. CASE VerifyAccept(p) \/ VerifyReject(p)
    <3>1. phase = "STARTED" /\ executionDone \in closed
      BY <1>1, <2>4
         DEF VerifyAccept, VerifyReject, CallersHold, JudgeHolds, Judging
    <3>2. /\ phase' \in {"STARTED", "VERIFIED", "RECOVERY"}
          /\ UNCHANGED <<root, observation, transition, executionDone, closed>>
      BY <2>4, <3>1 DEF VerifyAccept, VerifyReject
    <3>3. /\ Stage = "executed"
          /\ Stage' \in {"executed", "confirmed", "recovery"}
          /\ Pending' = Pending /\ BoundSubject' = BoundSubject
      BY <3>1, <3>2 DEF Stage, Pending, Before, After, BoundSubject
    <3> QED
      BY <3>2, <3>3 DEF Boundary!Next, Boundary!Become, Boundary!vars
  <2> QED
    BY <1>7, <2>1, <2>2, <2>3, <2>4 DEF CallerStep
<1> QED
  BY <1>2, <1>3, <1>4, <1>5, <1>6, <1>7 DEF Next

(* Whatever the callers do, the root and the executions behave as          *)
(* ControlBoundary says.                                                   *)
THEOREM ImplementsBoundary == Spec => BoundarySpec
<1>1. IInv /\ [Next]_vars => [Boundary!Next]_(Boundary!vars)
  BY BoundaryNext
<1> QED
  BY <1>1, BoundaryInit, Invariance, PTL DEF Spec, BoundarySpec, Boundary!Spec
=============================================================================
