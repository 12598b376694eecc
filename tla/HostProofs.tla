----------------------------- MODULE HostProofs -----------------------------
(***************************************************************************)
(* Theorems about Host for every number of Control calls: what the         *)
(* Runtime goes through is what Kernel allows, and the provider is only    *)
(* ever written by the authority the Runtime holds.                        *)
(***************************************************************************)
EXTENDS HostInvariant, KernelProofs

(* What a provider reports is evidence as it was sealed.                   *)
LEMMA ReportTyped ==
    ASSUME TypeOK, HostTypeOK
    PROVE  LET o == Sealed([subject |-> TheSubject, state |-> resource.state,
                            version |-> resource.version, token |-> NoToken,
                            at |-> clock])
           IN  o \in Observations /\ o # None /\ Valid(o)
<1> DEFINE s == [subject |-> TheSubject, state |-> resource.state,
                 version |-> resource.version, token |-> NoToken, at |-> clock]
<1>1. TheSubject \in Subjects
  BY HostAssumption DEF TheSubject
<1>2. s \in Seals
  BY <1>1, KernelAssumption DEF Seals, TypeOK, HostTypeOK, Resources
<1>3. Sealed(s) \in Observations
  BY <1>2 DEF Sealed, Seals, Observations
<1>4. Valid(Sealed(s))
  BY DEF Sealed, Valid, SealOf
<1> QED
  BY <1>3, <1>4, NoneAssumption

(* Genuine evidence is something a caller can hand to the kernel.          *)
LEMMA GenuineIsSubmitted ==
    ASSUME NEW o \in Observations, Valid(o)
    PROVE  o \in Submissions
<1> DEFINE s == SealOf(o)
<1>1. s \in Seals /\ o.at \in Times
  BY DEF SealOf, Observations, Seals
<1>2. o = [subject |-> o.subject, state |-> o.state, version |-> o.version,
           token |-> o.token, at |-> o.at, fingerprint |-> o.fingerprint]
  BY DEF Observations
<1>3. o = [Sealed(s) EXCEPT !.at = o.at]
  BY <1>2 DEF Sealed, SealOf, Valid
<1> QED
  BY <1>1, <1>3 DEF Submissions

-----------------------------------------------------------------------------
(* Host's steps are steps of Kernel *)

(* What a Control call does to the Runtime is a kernel method, or nothing. *)
LEMMA KernelStep == HInv /\ [HostNext]_allVars => [Next]_vars
<1> SUFFICES ASSUME HInv, [HostNext]_allVars
             PROVE  Next \/ UNCHANGED vars
  OBVIOUS
<1> USE DEF HInv
<1>1. CASE UNCHANGED allVars
  BY <1>1 DEF allVars
<1>2. CASE TimePasses
  BY <1>2 DEF TimePasses, Next
<1>3. CASE OtherWriter
  BY <1>3 DEF OtherWriter
<1>4. ASSUME NEW p \in Callers, HandToKernel(p)
      PROVE  Next
  <2>1. observed[p] \in Observations /\ Valid(observed[p])
    BY <1>4 DEF HandToKernel, HostTypeOK, ObservedHeld
  <2>2. observed[p] \in Submissions
    BY <2>1, GenuineIsSubmitted
  <2> QED
    BY <1>4, <2>2 DEF HandToKernel, Next
<1>5. ASSUME NEW p \in Callers, NEW desired \in States,
             NEW lifetime \in Lifetimes, Authorize(p, desired, lifetime)
      PROVE  Next
  <2>1. TheSubject \in Subjects
    BY HostAssumption DEF TheSubject
  <2>2. [subject |-> TheSubject, target |-> desired] \in Proposals
    BY <2>1 DEF Proposals
  <2>3. ASSUME Govern([allowed |-> TRUE, transition |-> transition])
        PROVE  Next
    <3>1. transition \in Transitions
      BY <2>3 DEF Govern, IInv, TypeInv, TypeOK, Optional
    <3>2. [allowed |-> TRUE, transition |-> transition] \in Decisions
      BY <3>1 DEF Decisions
    <3> QED
      BY <2>3, <3>2 DEF Next
  <2> QED
    BY <1>5, <2>2, <2>3 DEF Authorize, Next
<1>6. ASSUME NEW p \in Callers, VerifyProvider(p)
      PROVE  Next
  <2>1. LET o == Sealed([subject |-> TheSubject, state |-> resource.state,
                         version |-> resource.version, token |-> NoToken,
                         at |-> clock])
        IN  o \in Submissions
    BY ReportTyped, GenuineIsSubmitted DEF IInv, TypeInv
  <2> QED
    BY <1>6, <2>1 DEF VerifyProvider, Next, CallerStep
<1>7. ASSUME NEW p \in Callers,
             \/ StartExecution(p) \/ ReadAuthorized(p)
             \/ ExecuteAnswered(p) \/ ExecuteFailed(p)
             \/ StartVerification(p) \/ VerificationCancelled(p)
             \/ VerificationWakes(p) \/ VerificationEnds(p)
             \/ CommitTransition(p)
      PROVE  Next \/ UNCHANGED vars
  <2>1. TRUE \in BOOLEAN /\ FALSE \in BOOLEAN
    OBVIOUS
  <2> QED
    BY <1>7, <2>1
       DEF StartExecution, ReadAuthorized, ExecuteAnswered, ExecuteFailed,
           StartVerification, VerificationCancelled, VerificationWakes,
           VerificationEnds, CommitTransition, Next, CallerStep
<1>8. ASSUME NEW p \in Callers,
             \/ \E reading \in {None, Provider!Reading} : Request(p, reading)
             \/ AcquireLifecycle(p) \/ GiveUp(p)
             \/ ObserveProvider(p) \/ ObserveFails(p)
             \/ KernelRefuses(p) \/ NotAuthorized(p)
             \/ \E payload \in States : CallExecute(p, payload)
             \/ ExecuteWrites(p) \/ ExecuteRefuses(p) \/ ReleaseLifecycle(p)
      PROVE  UNCHANGED vars
  BY <1>8
     DEF Request, AcquireLifecycle, GiveUp, ObserveProvider, ObserveFails,
         KernelRefuses, NotAuthorized, CallExecute, ExecuteWrites,
         ExecuteRefuses, ReleaseLifecycle
<1> QED
  BY <1>1, <1>2, <1>3, <1>4, <1>5, <1>6, <1>7, <1>8 DEF HostNext

-----------------------------------------------------------------------------
(* The invariant *)

(* It holds at first.                                                      *)
LEMMA HostInvInit == HostInit => HInv
<1> SUFFICES ASSUME HostInit PROVE HInv
  OBVIOUS
<1>1. IInv
  BY InvInit DEF HostInit
<1>2. resource \in Resources
  BY HostAssumption DEF HostInit, Provider!Fresh, Resources
<1>3. HostTypeOK
  BY <1>2 DEF HostInit, HostTypeOK, Steps
<1>4. OneInside /\ InMethod /\ ObservedHeld /\ ObservationIsOwn
        /\ EffectIsAuthorized
  BY DEF HostInit, Init, OneInside, Inside, InMethod, Executing, Judging,
         ObservedHeld, ObservationIsOwn, Underway, EffectIsAuthorized
<1> QED
  BY <1>1, <1>3, <1>4 DEF HInv

(* No step leaves the types.                                               *)
LEMMA HostTypeNext == HInv /\ [HostNext]_allVars => HostTypeOK'
<1> SUFFICES ASSUME HInv, [HostNext]_allVars
             PROVE  HostTypeOK'
  OBVIOUS
<1>a. HostTypeOK /\ TypeOK
  BY DEF HInv, IInv, TypeInv
<1>1. CASE UNCHANGED allVars
  BY <1>a, <1>1 DEF allVars, hostVars, provider, HostTypeOK
<1>2. CASE TimePasses
  BY <1>a, <1>2 DEF TimePasses, hostVars, provider, HostTypeOK
<1>3. CASE OtherWriter
  <2>1. resource' \in Resources
    BY <1>a, <1>3 DEF OtherWriter, Provider!Set, Resources
  <2> QED
    BY <1>a, <1>3, <2>1 DEF OtherWriter, HostTypeOK
<1>4. ASSUME NEW p \in Callers,
             \/ HandToKernel(p) \/ KernelRefuses(p) \/ ObserveFails(p)
             \/ \E desired \in States, lifetime \in Lifetimes :
                    Authorize(p, desired, lifetime)
             \/ NotAuthorized(p) \/ StartExecution(p)
             \/ ExecuteAnswered(p) \/ ExecuteFailed(p)
             \/ VerificationCancelled(p) \/ VerificationEnds(p)
             \/ CommitTransition(p)
      PROVE  HostTypeOK'
  <2>1. /\ \E where \in Steps : Goto(p, where)
        /\ UNCHANGED provider
    BY <1>4
       DEF HandToKernel, KernelRefuses, ObserveFails, Authorize,
           NotAuthorized, StartExecution, ExecuteAnswered, ExecuteFailed,
           VerificationCancelled, VerificationEnds, CommitTransition, Fail,
           Steps
  <2> QED
    BY <1>a, <2>1 DEF Goto, provider, HostTypeOK
<1>5. ASSUME NEW p \in Callers,
             \/ ReadAuthorized(p) \/ StartVerification(p)
             \/ VerificationWakes(p) \/ VerifyProvider(p)
      PROVE  HostTypeOK'
  <2>1. UNCHANGED hostVars
    BY <1>5 DEF ReadAuthorized, StartVerification, VerificationWakes,
                VerifyProvider
  <2> QED
    BY <1>a, <2>1 DEF hostVars, provider, HostTypeOK
<1>6. ASSUME NEW p \in Callers,
             \/ \E reading \in {None, Provider!Reading} : Request(p, reading)
             \/ GiveUp(p) \/ ReleaseLifecycle(p)
      PROVE  HostTypeOK'
  <2>1. Provider!Reading \in Readings
    BY <1>a DEF HostTypeOK, Resources, Provider!Reading, Readings
  <2>2. /\ token' \in BOOLEAN /\ step' \in [Callers -> Steps]
        /\ expected' \in [Callers -> Readings \cup {None}]
        /\ observed' \in [Callers -> Observations \cup {None}]
    <3>1. CASE \E reading \in {None, Provider!Reading} : Request(p, reading)
      BY <1>a, <3>1, <2>1 DEF Request, HostTypeOK, Steps
    <3>2. CASE GiveUp(p) \/ ReleaseLifecycle(p)
      BY <1>a, <3>2 DEF GiveUp, ReleaseLifecycle, HostTypeOK, Steps
    <3> QED
      BY <1>6, <3>1, <3>2
  <2>3. UNCHANGED provider
    BY <1>6 DEF Request, GiveUp, ReleaseLifecycle
  <2> QED
    BY <1>a, <2>2, <2>3 DEF HostTypeOK, provider
<1>7. ASSUME NEW p \in Callers, AcquireLifecycle(p)
      PROVE  HostTypeOK'
  <2>1. effect[p] # "running"
    BY <1>7 DEF AcquireLifecycle, HInv, EffectIsAuthorized
  <2> QED
    BY <1>a, <1>7, <2>1 DEF AcquireLifecycle, HostTypeOK, Steps
<1>8. ASSUME NEW p \in Callers, ObserveProvider(p)
      PROVE  HostTypeOK'
  <2>1. observed' \in [Callers -> Observations \cup {None}]
    BY <1>a, <1>8, ReportTyped DEF ObserveProvider, HostTypeOK
  <2> QED
    BY <1>a, <1>8, <2>1 DEF ObserveProvider, HostTypeOK, Steps, provider
<1>9. ASSUME NEW p \in Callers, NEW payload \in States,
             CallExecute(p, payload)
      PROVE  HostTypeOK'
  <2>1. Executing(p)
    BY <1>9 DEF CallExecute, Executing
  <2>2. local[p].before = observation /\ phase = "STARTED"
    BY <1>9, <2>1
       DEF CallExecute, HInv, IInv, CallersHold, ExecutorHolds
  <2>3. local[p].before \in Observations /\ authority.id \in ExecutionIDs
    BY <1>a, <2>2
       DEF HInv, IInv, EvidenceHeld, Attempted, TypeOK, Optional, Authorities
  <2> DEFINE c == [id |-> authority.id, before |-> local[p].before,
                   payload |-> payload]
  <2>4. c \in ExecuteRequests /\ c # None
    BY <2>3, HostAssumption DEF ExecuteRequests
  <2> HIDE DEF c
  <2>5. callback' = [callback EXCEPT ![p] = c]
    BY <1>9 DEF CallExecute, c
  <2> QED
    BY <1>a, <1>9, <2>4, <2>5 DEF CallExecute, HostTypeOK
<1>10. ASSUME NEW p \in Callers, ExecuteWrites(p)
       PROVE  HostTypeOK'
  <2>1. callback[p] \in ExecuteRequests
    BY <1>a, <1>10 DEF ExecuteWrites, HostTypeOK
  <2>2. resource' \in Resources
    BY <1>a, <1>10, <2>1
       DEF ExecuteWrites, Provider!Execute, HostTypeOK, Resources,
           ExecuteRequests
  <2>3. [id |-> callback[p].id, version |-> resource.version] \in Writes
    BY <1>a, <2>1 DEF HostTypeOK, Resources, ExecuteRequests, Writes
  <2> QED
    BY <1>a, <1>10, <2>2, <2>3 DEF ExecuteWrites, HostTypeOK
<1>11. ASSUME NEW p \in Callers, ExecuteRefuses(p)
       PROVE  HostTypeOK'
  BY <1>a, <1>11 DEF ExecuteRefuses, HostTypeOK
<1> QED
  BY <1>1, <1>2, <1>3, <1>4, <1>5, <1>6, <1>7, <1>8, <1>9, <1>10, <1>11
     DEF HostNext

(* Where a call that is inside Control moves on, it stays inside.          *)
LEMMA GotoInside ==
    ASSUME HInv, NEW p \in Callers,
           \/ HandToKernel(p) \/ KernelRefuses(p) \/ ObserveFails(p)
           \/ \E desired \in States, lifetime \in Lifetimes :
                  Authorize(p, desired, lifetime)
           \/ NotAuthorized(p) \/ StartExecution(p)
           \/ ExecuteAnswered(p) \/ ExecuteFailed(p)
           \/ VerificationCancelled(p) \/ VerificationEnds(p)
           \/ CommitTransition(p)
    PROVE  /\ Inside(p)
           /\ \E where \in Steps \ {"idle", "acquiring"} : Goto(p, where)
           /\ UNCHANGED provider
<1>1. CASE \/ ExecuteAnswered(p) \/ ExecuteFailed(p)
           \/ VerificationCancelled(p) \/ VerificationEnds(p)
  <2>1. Executing(p) \/ pc[p] = "waiting" \/ Judging(p)
    BY <1>1
       DEF ExecuteAnswered, ExecuteFailed, VerificationCancelled,
           VerificationEnds, StartComplete, VerifyCancel, VerifyAccept,
           VerifyReject, Executing, Judging
  <2>2. Inside(p)
    BY <2>1 DEF HInv, InMethod, Inside
  <2> QED
    BY <1>1, <2>2
       DEF ExecuteAnswered, ExecuteFailed, VerificationCancelled,
           VerificationEnds, Fail, Steps
<1>2. CASE \/ HandToKernel(p) \/ KernelRefuses(p) \/ ObserveFails(p)
           \/ \E desired \in States, lifetime \in Lifetimes :
                  Authorize(p, desired, lifetime)
           \/ NotAuthorized(p) \/ StartExecution(p) \/ CommitTransition(p)
  BY <1>2
     DEF HandToKernel, KernelRefuses, ObserveFails, Authorize, NotAuthorized,
         StartExecution, CommitTransition, Fail, Steps, Inside
<1> QED
  BY <1>1, <1>2

(* Steps that move no call inside or outside Control.                      *)
LEMMA StaysPut ==
    ASSUME [HostNext]_allVars,
           ~ \E p \in Callers :
               \/ HandToKernel(p) \/ KernelRefuses(p) \/ ObserveFails(p)
               \/ \E desired \in States, lifetime \in Lifetimes :
                      Authorize(p, desired, lifetime)
               \/ NotAuthorized(p) \/ StartExecution(p)
               \/ ExecuteAnswered(p) \/ ExecuteFailed(p)
               \/ VerificationCancelled(p) \/ VerificationEnds(p)
               \/ CommitTransition(p)
               \/ \E reading \in {None, Provider!Reading} :
                      Request(p, reading)
               \/ AcquireLifecycle(p) \/ GiveUp(p) \/ ObserveProvider(p)
               \/ ReleaseLifecycle(p)
    PROVE  UNCHANGED <<token, step, expected, observed>>
BY DEF HostNext, allVars, hostVars, TimePasses, OtherWriter, ReadAuthorized,
       CallExecute, ExecuteWrites, ExecuteRefuses, StartVerification,
       VerificationWakes, VerifyProvider

(* The lifecycle gate admits one call at a time.                           *)
LEMMA OneInsideNext == HInv /\ [HostNext]_allVars => OneInside'
<1> SUFFICES ASSUME HInv, [HostNext]_allVars
             PROVE  OneInside'
  OBVIOUS
<1>a. HostTypeOK /\ OneInside
  BY DEF HInv
<1>1. ASSUME NEW p \in Callers, Inside(p),
             NEW where \in Steps \ {"idle", "acquiring"}, Goto(p, where)
      PROVE  OneInside'
  BY <1>a, <1>1 DEF Goto, OneInside, Inside, HostTypeOK
<1>2. ASSUME NEW p \in Callers,
             \/ \E reading \in {None, Provider!Reading} : Request(p, reading)
             \/ GiveUp(p)
      PROVE  OneInside'
  BY <1>a, <1>2 DEF Request, GiveUp, OneInside, Inside, HostTypeOK
<1>3. ASSUME NEW p \in Callers, AcquireLifecycle(p)
      PROVE  OneInside'
  BY <1>a, <1>3 DEF AcquireLifecycle, OneInside, Inside, HostTypeOK
<1>4. ASSUME NEW p \in Callers, ObserveProvider(p)
      PROVE  OneInside'
  BY <1>a, <1>4 DEF ObserveProvider, OneInside, Inside, HostTypeOK
<1>5. ASSUME NEW p \in Callers, ReleaseLifecycle(p)
      PROVE  OneInside'
  BY <1>a, <1>5 DEF ReleaseLifecycle, OneInside, Inside, HostTypeOK
<1>6. CASE UNCHANGED <<token, step, expected, observed>>
  BY <1>a, <1>6 DEF OneInside, Inside
<1> QED
  BY <1>1, <1>2, <1>3, <1>4, <1>5, <1>6, GotoInside, StaysPut

(* A call is in a kernel method only where Control calls it.               *)
LEMMA InMethodNext == HInv /\ [HostNext]_allVars => InMethod'
<1> SUFFICES ASSUME HInv, [HostNext]_allVars
             PROVE  InMethod'
  OBVIOUS
<1>a. HostTypeOK /\ TypeOK /\ InMethod
  BY DEF HInv, IInv, TypeInv
<1> USE DEF Executing, Judging
<1>1. ASSUME NEW p \in Callers,
             \/ HandToKernel(p) \/ KernelRefuses(p) \/ ObserveFails(p)
             \/ \E desired \in States, lifetime \in Lifetimes :
                    Authorize(p, desired, lifetime)
             \/ NotAuthorized(p) \/ CommitTransition(p)
             \/ \E reading \in {None, Provider!Reading} : Request(p, reading)
             \/ AcquireLifecycle(p) \/ GiveUp(p) \/ ObserveProvider(p)
             \/ ReleaseLifecycle(p)
      PROVE  InMethod'
  <2>1. /\ UNCHANGED pc
        /\ step[p] \notin {"executing", "verifying"}
        /\ \E where \in Steps \ {"executing", "verifying"} :
               step' = [step EXCEPT ![p] = where]
    BY <1>1
       DEF HandToKernel, KernelRefuses, ObserveFails, Authorize,
           NotAuthorized, CommitTransition, Request, AcquireLifecycle,
           GiveUp, ObserveProvider, ReleaseLifecycle, Fail, Goto, Steps,
           Observe, Recover, Normalize, Reconcile, Govern, Reserve, Commit,
           vars, callers
  <2> QED
    BY <1>a, <2>1 DEF InMethod, HostTypeOK
<1>2. ASSUME NEW p \in Callers, StartExecution(p)
      PROVE  InMethod'
  BY <1>a, <1>2
     DEF StartExecution, Start, Enter, Fail, Goto, InMethod, HostTypeOK,
         TypeOK, vars, callers
<1>3. ASSUME NEW p \in Callers, ExecuteAnswered(p) \/ ExecuteFailed(p)
      PROVE  InMethod'
  BY <1>a, <1>3
     DEF ExecuteAnswered, ExecuteFailed, StartComplete, Leave, Enter, Fail,
         Goto, InMethod, HostTypeOK, TypeOK
<1>4. ASSUME NEW p \in Callers,
             VerificationCancelled(p) \/ VerificationEnds(p)
      PROVE  InMethod'
  BY <1>a, <1>4
     DEF VerificationCancelled, VerificationEnds, VerifyCancel, VerifyAccept,
         VerifyReject, Leave, Enter, Fail, Goto, InMethod, HostTypeOK, TypeOK
<1>5. ASSUME NEW p \in Callers, ReadAuthorized(p)
      PROVE  InMethod'
  BY <1>a, <1>5
     DEF ReadAuthorized, StartSnapshot, Enter, hostVars, InMethod, TypeOK
<1>6. ASSUME NEW p \in Callers, StartVerification(p)
      PROVE  InMethod'
  BY <1>a, <1>6
     DEF StartVerification, Verify, Enter, hostVars, InMethod, TypeOK
<1>7. ASSUME NEW p \in Callers, VerificationWakes(p) \/ VerifyProvider(p)
      PROVE  InMethod'
  <2>1. /\ pc[p] = "waiting" \/ Judging(p)
        /\ \E where \in {"idle", "verifying", "accepting", "rejecting"} :
               pc' = [pc EXCEPT ![p] = where]
        /\ UNCHANGED step
    BY <1>7
       DEF VerificationWakes, VerifyProvider, VerifyWake, VerifierReturns,
           VerifierFails, Leave, Enter, hostVars
  <2> QED
    BY <1>a, <2>1 DEF InMethod, TypeOK
<1>8. CASE \/ UNCHANGED allVars \/ TimePasses \/ OtherWriter
           \/ \E p \in Callers :
                 \/ \E payload \in States : CallExecute(p, payload)
                 \/ ExecuteWrites(p) \/ ExecuteRefuses(p)
  <2>1. UNCHANGED <<pc, step>>
    BY <1>8
       DEF allVars, hostVars, vars, callers, TimePasses, Tick, OtherWriter,
           CallExecute, ExecuteWrites, ExecuteRefuses
  <2> QED
    BY <1>a, <2>1 DEF InMethod
<1> QED
  BY <1>1, <1>2, <1>3, <1>4, <1>5, <1>6, <1>7, <1>8 DEF HostNext

(* What a call observed it keeps, as it was, until it returns.             *)
LEMMA ObservedHeldNext == HInv /\ [HostNext]_allVars => ObservedHeld'
<1> SUFFICES ASSUME HInv, [HostNext]_allVars
             PROVE  ObservedHeld'
  OBVIOUS
<1>a. HostTypeOK /\ TypeOK /\ ObservedHeld
  BY DEF HInv, IInv, TypeInv
<1>1. ASSUME NEW p \in Callers, Inside(p), step[p] # "observing",
             NEW where \in Steps \ {"idle", "acquiring", "observed"},
             Goto(p, where), where # "observing"
      PROVE  ObservedHeld'
  BY <1>a, <1>1 DEF Goto, ObservedHeld, Inside, HostTypeOK
<1>2. ASSUME NEW p \in Callers,
             \/ HandToKernel(p) \/ KernelRefuses(p)
             \/ \E desired \in States, lifetime \in Lifetimes :
                    Authorize(p, desired, lifetime)
             \/ NotAuthorized(p) \/ StartExecution(p)
             \/ ExecuteAnswered(p) \/ ExecuteFailed(p)
             \/ VerificationCancelled(p) \/ VerificationEnds(p)
             \/ CommitTransition(p)
      PROVE  ObservedHeld'
  <2>1. Inside(p)
    BY <1>2, GotoInside
  <2>2. step[p] # "observing"
    BY <1>2
       DEF HandToKernel, KernelRefuses, Authorize, NotAuthorized,
           StartExecution, ExecuteAnswered, ExecuteFailed, CommitTransition,
           VerificationCancelled, VerificationEnds, StartComplete,
           VerifyCancel, VerifyAccept, VerifyReject, HInv, InMethod,
           Executing, Judging
  <2>3. \E where \in Steps \ {"idle", "acquiring", "observing", "observed"} :
            Goto(p, where)
    BY <1>2
       DEF HandToKernel, KernelRefuses, Authorize, NotAuthorized,
           StartExecution, ExecuteAnswered, ExecuteFailed, CommitTransition,
           VerificationCancelled, VerificationEnds, Fail, Steps
  <2> QED
    BY <1>1, <2>1, <2>2, <2>3
<1>3. ASSUME NEW p \in Callers, ObserveFails(p)
      PROVE  ObservedHeld'
  BY <1>a, <1>3 DEF ObserveFails, Fail, Goto, ObservedHeld, HostTypeOK
<1>4. ASSUME NEW p \in Callers,
             \/ \E reading \in {None, Provider!Reading} : Request(p, reading)
             \/ AcquireLifecycle(p) \/ GiveUp(p) \/ ReleaseLifecycle(p)
      PROVE  ObservedHeld'
  <2>1. \A q \in Callers \ {p} : /\ step'[q] = step[q]
                                  /\ expected'[q] = expected[q]
                                  /\ observed'[q] = observed[q]
    BY <1>a, <1>4
       DEF Request, AcquireLifecycle, GiveUp, ReleaseLifecycle, HostTypeOK
  <2>2. step'[p] \in {"idle", "acquiring", "observing"} /\ observed'[p] = None
    BY <1>a, <1>4
       DEF Request, AcquireLifecycle, GiveUp, ReleaseLifecycle, HostTypeOK,
           ObservedHeld
  <2> QED
    BY <1>a, <2>1, <2>2 DEF ObservedHeld
<1>5. ASSUME NEW p \in Callers, ObserveProvider(p)
      PROVE  ObservedHeld'
  <2> DEFINE o == Sealed([subject |-> TheSubject, state |-> resource.state,
                          version |-> resource.version, token |-> NoToken,
                          at |-> clock])
  <2>1. o # None /\ Valid(o)
    BY <1>a, ReportTyped
  <2>2. o.state = resource.state /\ o.version = resource.version
    BY DEF Sealed
  <2>3. /\ observed' = [observed EXCEPT ![p] = o]
        /\ step' = [step EXCEPT ![p] = "observed"]
        /\ expected' = expected
        /\ expected[p] \in
              {None, [state |-> resource.state, version |-> resource.version]}
    BY <1>5 DEF ObserveProvider, AsExpected, Provider!Reading
  <2> HIDE DEF o
  <2> QED
    BY <1>a, <2>1, <2>2, <2>3 DEF ObservedHeld, HostTypeOK
<1>6. CASE UNCHANGED <<token, step, expected, observed>>
  BY <1>a, <1>6 DEF ObservedHeld
<1> QED
  BY <1>2, <1>3, <1>4, <1>5, <1>6, StaysPut

(* While one call is under way nobody else changes the Runtime's evidence. *)
LEMMA ObservationIsOwnNext ==
    HInv /\ [HostNext]_allVars => ObservationIsOwn'
<1> SUFFICES ASSUME HInv, [HostNext]_allVars,
                    NEW q \in Callers, step'[q] \in Underway
             PROVE  observed'[q] # None /\ observation' = observed'[q]
  BY DEF ObservationIsOwn
<1>a. /\ HostTypeOK /\ OneInside /\ InMethod /\ ObservedHeld
      /\ ObservationIsOwn
  BY DEF HInv
<1>1. ASSUME NEW p \in Callers, HandToKernel(p)
      PROVE  observed'[q] # None /\ observation' = observed'[q]
  <2>1. /\ step[p] = "observed" /\ observation' = observed[p]
        /\ step' = [step EXCEPT ![p] = "normalizing"]
        /\ UNCHANGED observed
    BY <1>1 DEF HandToKernel, Observe, Recover, EnterObserved, Goto
  <2>2. q = p
    BY <1>a, <2>1 DEF OneInside, Inside, Underway, HostTypeOK
  <2> QED
    BY <1>a, <2>1, <2>2 DEF ObservedHeld
<1>2. CASE ~ \E p \in Callers : HandToKernel(p)
  <2>1. UNCHANGED observation
    <3>1. CASE UNCHANGED vars
      BY <3>1 DEF vars, lifecycle, request
    <3>2. ASSUME NEW p \in Callers,
                 \/ \E desired \in States, lifetime \in Lifetimes :
                        Authorize(p, desired, lifetime)
                 \/ StartExecution(p) \/ ReadAuthorized(p)
                 \/ ExecuteAnswered(p) \/ ExecuteFailed(p)
                 \/ CommitTransition(p)
          PROVE  UNCHANGED observation
      BY <3>2
         DEF Authorize, Normalize, Reconcile, Govern, Reserve,
             StartExecution, Start, ReadAuthorized, StartSnapshot,
             ExecuteAnswered, ExecuteFailed, StartComplete, CommitTransition,
             Commit, vars, lifecycle, request
    <3>3. ASSUME NEW p \in Callers,
                 \/ StartVerification(p) \/ VerificationCancelled(p)
                 \/ VerificationWakes(p) \/ VerifyProvider(p)
                 \/ VerificationEnds(p)
          PROVE  UNCHANGED observation
      BY <3>3
         DEF StartVerification, Verify, VerificationCancelled, VerifyCancel,
             VerificationWakes, VerifyWake, VerifyProvider, VerifierReturns,
             VerifierFails, VerificationEnds, VerifyAccept, VerifyReject,
             lifecycle, request
    <3> QED
      BY <1>2, <3>1, <3>2, <3>3
         DEF HostNext, allVars, TimePasses, Tick, OtherWriter, Request,
             AcquireLifecycle, GiveUp, ObserveProvider, ObserveFails,
             KernelRefuses, NotAuthorized, CallExecute, ExecuteWrites,
             ExecuteRefuses, ReleaseLifecycle, lifecycle, request
  <2>2. step[q] \in Underway /\ observed'[q] = observed[q]
    <3>1. ASSUME NEW p \in Callers,
                 \/ KernelRefuses(p) \/ ObserveFails(p) \/ NotAuthorized(p)
                 \/ ExecuteAnswered(p) \/ ExecuteFailed(p)
                 \/ VerificationCancelled(p) \/ VerificationEnds(p)
                 \/ CommitTransition(p)
          PROVE  step[q] \in Underway /\ observed'[q] = observed[q]
      BY <1>a, <3>1
         DEF KernelRefuses, ObserveFails, NotAuthorized, ExecuteAnswered,
             ExecuteFailed, VerificationCancelled, VerificationEnds,
             CommitTransition, Fail, Goto, Underway, HostTypeOK
    <3>2. ASSUME NEW p \in Callers,
                 \/ \E desired \in States, lifetime \in Lifetimes :
                        Authorize(p, desired, lifetime)
                 \/ StartExecution(p)
          PROVE  step[q] \in Underway /\ observed'[q] = observed[q]
      BY <1>a, <3>2
         DEF Authorize, StartExecution, Fail, Goto, Underway, HostTypeOK
    <3>3. ASSUME NEW p \in Callers,
                 \/ \E reading \in {None, Provider!Reading} :
                        Request(p, reading)
                 \/ AcquireLifecycle(p) \/ GiveUp(p) \/ ObserveProvider(p)
                 \/ ReleaseLifecycle(p)
          PROVE  step[q] \in Underway /\ observed'[q] = observed[q]
      <4>1. /\ step'[p] \notin Underway
            /\ q # p => step'[q] = step[q] /\ observed'[q] = observed[q]
        BY <1>a, <3>3
           DEF Request, AcquireLifecycle, GiveUp, ObserveProvider,
               ReleaseLifecycle, Underway, HostTypeOK
      <4> QED
        BY <4>1
    <3> QED
      BY <1>2, <3>1, <3>2, <3>3, StaysPut
  <2> QED
    BY <1>a, <2>1, <2>2 DEF ObservationIsOwn
<1> QED
  BY <1>1, <1>2

(* An Execute callback that outlives its deadline keeps its authority.     *)
LEMMA EffectIsAuthorizedNext ==
    HInv /\ [HostNext]_allVars => EffectIsAuthorized'
<1> SUFFICES ASSUME HInv, [HostNext]_allVars,
                    NEW q \in Callers, effect'[q] = "running"
             PROVE  /\ step'[q] \in {"executing", "returning"}
                    /\ authority' # None /\ authority'.id = callback'[q].id
                    /\ observed'[q] # None
                    /\ callback'[q].before = observed'[q]
  BY DEF EffectIsAuthorized
<1>a. /\ HostTypeOK /\ TypeOK /\ OneInside /\ InMethod /\ ObservedHeld
      /\ ObservationIsOwn /\ EffectIsAuthorized
  BY DEF HInv, IInv, TypeInv
<1> DEFINE Goal == /\ step'[q] \in {"executing", "returning"}
                   /\ authority' # None /\ authority'.id = callback'[q].id
                   /\ observed'[q] # None
                   /\ callback'[q].before = observed'[q]
<1>1. ASSUME NEW p \in Callers, NEW payload \in States,
             CallExecute(p, payload)
      PROVE  Goal
  <2>1. Executing(p) /\ step[p] = "executing"
    BY <1>a, <1>1 DEF CallExecute, Executing, InMethod
  <2>2. phase = "STARTED" /\ local[p].before = observation
    BY <1>1, <2>1 DEF CallExecute, HInv, IInv, CallersHold, ExecutorHolds
  <2>3. authority # None /\ observed[p] # None /\ observation = observed[p]
    BY <1>a, <2>1, <2>2
       DEF HInv, IInv, EvidenceHeld, Attempted, ObservationIsOwn, Underway
  <2>4. UNCHANGED <<authority, step, observed>>
    BY <1>1 DEF CallExecute, vars, lifecycle
  <2>5. CASE q = p
    <3>1. callback'[p].id = authority.id
             /\ callback'[p].before = local[p].before
      BY <1>a, <1>1 DEF CallExecute, HostTypeOK
    <3> QED
      BY <2>1, <2>2, <2>3, <2>4, <2>5, <3>1
  <2>6. CASE q # p
    <3>1. effect[q] = "running" /\ callback'[q] = callback[q]
      BY <1>a, <1>1, <2>6 DEF CallExecute, HostTypeOK
    <3> QED
      BY <1>a, <2>4, <3>1 DEF EffectIsAuthorized
  <2> QED
    BY <2>5, <2>6
<1>2. CASE ~ \E p \in Callers, payload \in States : CallExecute(p, payload)
  <2>1. effect[q] = "running" /\ callback'[q] = callback[q]
    BY <1>a, <1>2
       DEF HostNext, allVars, hostVars, provider, TimePasses, OtherWriter,
           Request, AcquireLifecycle, GiveUp, ObserveProvider, ObserveFails,
           HandToKernel, KernelRefuses, Authorize, NotAuthorized,
           StartExecution, ReadAuthorized, ExecuteWrites, ExecuteRefuses,
           ExecuteAnswered, ExecuteFailed, StartVerification,
           VerificationCancelled, VerificationWakes, VerifyProvider,
           VerificationEnds, CommitTransition, ReleaseLifecycle, HostTypeOK
  <2>2. step[q] \in {"executing", "returning"} /\ Inside(q)
    BY <1>a, <2>1 DEF EffectIsAuthorized, Inside
  <2>3. \A p \in Callers : Inside(p) => p = q
    BY <1>a, <2>2 DEF OneInside
  <2>4. UNCHANGED observed /\ step'[q] \in {"executing", "returning"}
    <3>1. ASSUME NEW p \in Callers,
                 \/ HandToKernel(p) \/ KernelRefuses(p) \/ ObserveFails(p)
                 \/ \E desired \in States, lifetime \in Lifetimes :
                        Authorize(p, desired, lifetime)
                 \/ NotAuthorized(p) \/ StartExecution(p)
                 \/ ExecuteAnswered(p) \/ ExecuteFailed(p)
                 \/ VerificationCancelled(p) \/ VerificationEnds(p)
                 \/ CommitTransition(p)
          PROVE  UNCHANGED observed
                    /\ step'[q] \in {"executing", "returning"}
      <4>1. p = q
        BY <2>3, <3>1, GotoInside
      <4>2. ExecuteFailed(p)
        BY <1>a, <2>1, <2>2, <3>1, <4>1
           DEF HandToKernel, KernelRefuses, ObserveFails, Authorize,
               NotAuthorized, StartExecution, ExecuteAnswered,
               VerificationCancelled, VerificationEnds, CommitTransition,
               VerifyCancel, VerifyAccept, VerifyReject, InMethod, Judging
      <4> QED
        BY <1>a, <4>1, <4>2 DEF ExecuteFailed, Fail, Goto, HostTypeOK
    <3>2. ASSUME NEW p \in Callers,
                 \/ \E reading \in {None, Provider!Reading} :
                        Request(p, reading)
                 \/ AcquireLifecycle(p) \/ GiveUp(p)
          PROVE  UNCHANGED observed
                    /\ step'[q] \in {"executing", "returning"}
      BY <1>a, <2>2, <3>2
         DEF Request, AcquireLifecycle, GiveUp, HostTypeOK
    <3>3. ASSUME NEW p \in Callers, ObserveProvider(p) \/ ReleaseLifecycle(p)
          PROVE  FALSE
      <4>1. Inside(p)
        BY <3>3 DEF ObserveProvider, ReleaseLifecycle, Inside
      <4>2. p = q
        BY <2>3, <4>1
      <4> QED
        BY <2>1, <2>2, <3>3, <4>2
           DEF ObserveProvider, ReleaseLifecycle, Drained
    <3> QED
      BY <2>2, <3>1, <3>2, <3>3, StaysPut
  <2>5. UNCHANGED authority
    <3>1. ASSUME NEW p \in Callers,
                 \/ HandToKernel(p) \/ StartExecution(p)
                 \/ \E desired \in States, lifetime \in Lifetimes :
                        Authorize(p, desired, lifetime)
          PROVE  FALSE
      <4>1. p = q
        BY <2>3, <3>1, GotoInside
      <4> QED
        BY <2>2, <3>1, <4>1 DEF HandToKernel, StartExecution, Authorize
    <3> QED
      BY <3>1
         DEF HostNext, allVars, vars, lifecycle, TimePasses, Tick,
             OtherWriter, Request, AcquireLifecycle, GiveUp, ObserveProvider,
             ObserveFails, KernelRefuses, NotAuthorized, ReadAuthorized,
             StartSnapshot, CallExecute, ExecuteWrites, ExecuteRefuses,
             ExecuteAnswered, ExecuteFailed, StartComplete,
             StartVerification, Verify, VerificationCancelled, VerifyCancel,
             VerificationWakes, VerifyWake, VerifyProvider, VerifierReturns,
             VerifierFails, VerificationEnds, VerifyAccept, VerifyReject,
             CommitTransition, Commit, ReleaseLifecycle
  <2> QED
    BY <1>a, <2>1, <2>4, <2>5 DEF EffectIsAuthorized
<1> QED
  BY <1>1, <1>2

(* No step leaves the invariant.                                           *)
LEMMA HostInvNext == HInv /\ [HostNext]_allVars => HInv'
<1> SUFFICES ASSUME HInv, [HostNext]_allVars
             PROVE  HInv'
  OBVIOUS
<1>1. IInv'
  BY KernelStep, InvNext DEF HInv
<1> QED
  BY <1>1, HostTypeNext, OneInsideNext, InMethodNext, ObservedHeldNext,
     ObservationIsOwnNext, EffectIsAuthorizedNext
     DEF HInv

(* The invariant always holds.                                             *)
LEMMA HostInvariance == HostSpec => []HInv
BY HostInvInit, HostInvNext, PTL DEF HostSpec

-----------------------------------------------------------------------------
(* Theorems *)

(* Whatever Control calls, a provider that works late and other writers do,*)
(* the Runtime goes through a behaviour of Kernel: everything proved of    *)
(* Kernel holds of the Runtime a Host drives.                              *)
THEOREM HostImplementsKernel == HostSpec => Spec
<1>1. HostInit => Init
  BY DEF HostInit
<1> QED
  BY <1>1, KernelStep, HostInvariance, PTL DEF HostSpec, Spec

(* Control's variables keep their types, and a call that starts has no     *)
(* callback left from the one before.                                      *)
THEOREM HostTypeCorrect == HostSpec => []HostTypeOK
<1>1. HInv => HostTypeOK
  BY DEF HInv
<1> QED
  BY <1>1, HostInvariance, PTL

(* An Execute that outlives its deadline only ever writes under the        *)
(* authority the Runtime holds at that moment: host.go waits for it before *)
(* the lifecycle is given back.                                            *)
THEOREM CurrentAuthorityWrites == HostSpec => OnlyCurrentAuthorityWrites
<1>1. ASSUME HInv, HostNext, NEW w \in writes' \ writes
      PROVE  authority # None /\ authority.id = w.id
  <2>1. PICK p \in Callers : ExecuteWrites(p)
    BY <1>1
       DEF HostNext, hostVars, provider, TimePasses, OtherWriter, Request,
           AcquireLifecycle, GiveUp, ObserveProvider, ObserveFails,
           HandToKernel, KernelRefuses, Authorize, NotAuthorized,
           StartExecution, ReadAuthorized, CallExecute, ExecuteRefuses,
           ExecuteAnswered, ExecuteFailed, StartVerification,
           VerificationCancelled, VerificationWakes, VerifyProvider,
           VerificationEnds, CommitTransition, ReleaseLifecycle
  <2>2. w.id = callback[p].id
    BY <1>1, <2>1 DEF ExecuteWrites
  <2> QED
    BY <1>1, <2>1, <2>2 DEF ExecuteWrites, HInv, EffectIsAuthorized
<1>2. HInv /\ [HostNext]_allVars =>
          [\A w \in writes' \ writes :
              authority # None /\ authority.id = w.id]_allVars
  BY <1>1
<1> QED
  BY <1>2, HostInvariance, PTL DEF HostSpec, OnlyCurrentAuthorityWrites

(* What an Execute replaces is what was authorized and what the caller     *)
(* relied on, however late the callback acts.                              *)
THEOREM NoUpdateLost == HostSpec => NoLostUpdate
<1>1. ASSUME HInv, HostNext, NEW p \in Callers,
             effect[p] = "running", effect'[p] = "done"
      PROVE  /\ resource.version = callback[p].before.version
             /\ expected[p] \in {None, Provider!Reading}
  <2>1. ExecuteWrites(p)
    BY <1>1
       DEF HostNext, hostVars, provider, TimePasses, OtherWriter, Request,
           AcquireLifecycle, GiveUp, ObserveProvider, ObserveFails,
           HandToKernel, KernelRefuses, Authorize, NotAuthorized,
           StartExecution, ReadAuthorized, CallExecute, ExecuteWrites,
           ExecuteRefuses, ExecuteAnswered, ExecuteFailed, StartVerification,
           VerificationCancelled, VerificationWakes, VerifyProvider,
           VerificationEnds, CommitTransition, ReleaseLifecycle, HInv,
           HostTypeOK
  <2>2. observed[p] # None /\ callback[p].before = observed[p]
    BY <1>1 DEF HInv, EffectIsAuthorized
  <2>3. /\ resource.version = observed[p].version
        /\ resource.state = observed[p].state
    BY <2>1, <2>2 DEF ExecuteWrites, Provider!Unchanged
  <2>4. expected[p] \in {None, [state |-> observed[p].state,
                                version |-> observed[p].version]}
    BY <1>1, <2>2 DEF HInv, ObservedHeld
  <2> QED
    BY <2>2, <2>3, <2>4 DEF Provider!Reading
<1>2. HInv /\ [HostNext]_allVars =>
          [\A p \in Callers : effect[p] = "running" /\ effect'[p] = "done" =>
              /\ resource.version = callback[p].before.version
              /\ expected[p] \in {None, Provider!Reading}]_allVars
  BY <1>1
<1> QED
  BY <1>2, HostInvariance, PTL DEF HostSpec, NoLostUpdate

-----------------------------------------------------------------------------
(* Evidence is later than the last execution *)

(* Evidence Control gathers was made after the last execution completed.   *)
LEMMA EvidenceIsLaterNext ==
    ASSUME HInv, EvidenceIsLater, [HostNext]_allVars
    PROVE  EvidenceIsLater'
<1>a. /\ HostTypeOK /\ TypeOK /\ CallerShape /\ OneInside /\ InMethod
      /\ ObservedHeld /\ EvidenceHeld /\ ChannelHeld /\ ExecutorHolds
      /\ JudgeHolds /\ EvidenceJudged
  BY DEF HInv, IInv, TypeInv, CallersHold
<1>b. /\ clock \in Int /\ lastCompletedAt \in Int
      /\ executionCompletedAt \in Int
      /\ \A q \in Callers : observed[q] # None => observed[q].at \in Int
      /\ observation # None => observation.at \in Int
  BY <1>a DEF TypeOK, HostTypeOK, Optional, Observations, Times
<1> USE DEF Authorized, Authorizing, Attempted
<1>1. ASSUME UNCHANGED <<vars, observed>>,
             \A q \in Callers : step'[q] = "observed" => step[q] = "observed"
      PROVE  EvidenceIsLater'
  <2>1. UNCHANGED <<phase, observation, executionDone, executionCompletedAt,
                    closed, clock, lastCompletedAt, pc, local>>
    BY <1>1 DEF vars, lifecycle, request, execution, callers, channels,
                history
  <2> QED
    BY <1>1, <2>1 DEF EvidenceIsLater, Valid, SealOf
<1>2. ASSUME NEW p \in Callers, ObserveProvider(p)
      PROVE  EvidenceIsLater'
  <2> DEFINE o == Sealed([subject |-> TheSubject, state |-> resource.state,
                          version |-> resource.version, token |-> NoToken,
                          at |-> clock])
  <2>1. o.at = clock
    BY DEF Sealed
  <2>2. /\ observed' = [observed EXCEPT ![p] = o]
        /\ step' = [step EXCEPT ![p] = "observed"]
        /\ UNCHANGED <<phase, observation, executionDone,
                       executionCompletedAt, closed, clock, lastCompletedAt,
                       pc, local>>
    BY <1>2 DEF ObserveProvider, vars, lifecycle, request, execution,
                callers, channels, history
  <2> HIDE DEF o
  <2>3. \A q \in Callers : step'[q] = "observed" =>
            \/ q = p /\ observed'[q].at = clock
            \/ step[q] = "observed" /\ observed'[q] = observed[q]
    BY <1>a, <2>1, <2>2 DEF HostTypeOK
  <2> QED
    BY <1>b, <2>2, <2>3 DEF EvidenceIsLater, Valid, SealOf
<1>3. CASE TimePasses
  <2>1. /\ clock' = clock + 1
        /\ UNCHANGED <<phase, observation, executionDone,
                       executionCompletedAt, closed, lastCompletedAt, pc,
                       local, step, observed>>
    BY <1>3 DEF TimePasses, Tick, hostVars, lifecycle, request, execution,
                callers, channels, history
  <2>2. \A q \in Callers : pc[q] = "accepting" =>
            local[q].evidence.at \in Int
    BY <1>a DEF EvidenceJudged, Proves, CallerShape, Locals, Observations,
                Times
  <2>3. \A q \in Callers : step[q] = "observed" => observed[q].at \in Int
    BY <1>a, <1>b DEF ObservedHeld
  <2> QED
    BY <1>b, <2>1, <2>2, <2>3 DEF EvidenceIsLater, Valid, SealOf
<1>4. ASSUME NEW p \in Callers, HandToKernel(p)
      PROVE  EvidenceIsLater'
  <2>1. /\ step[p] = "observed" /\ observed[p] # None
        /\ step' = [step EXCEPT ![p] = "normalizing"]
        /\ EnterObserved(observed[p])
        /\ UNCHANGED <<observed, clock, callers, history>>
        /\ phase # "STARTED"
        /\ phase = "RECOVERY" =>
              observed[p].at > executionCompletedAt
                /\ observed[p].at <= clock
    BY <1>a, <1>4
       DEF HandToKernel, Observe, Recover, CanObserve, CanRecover, Goto,
           ObservedHeld
  <2>2. \A q \in Callers : step'[q] # "observed"
    BY <1>a, <2>1 DEF OneInside, Inside, HostTypeOK
  <2>3. observed[p].at > lastCompletedAt /\ lastCompletedAt < clock
    <3>1. CASE phase = "RECOVERY"
      BY <1>a, <1>b, <2>1, <3>1 DEF EvidenceIsLater, ChannelHeld
    <3>2. CASE phase # "RECOVERY"
      BY <2>1, <3>2 DEF EvidenceIsLater
    <3> QED
      BY <3>1, <3>2
  <2>4. /\ observation' = observed[p] /\ phase' = "OBSERVED"
        /\ UNCHANGED <<clock, lastCompletedAt, pc, local>>
    BY <2>1 DEF EnterObserved, callers, history
  <2> QED
    BY <1>b, <2>2, <2>3, <2>4 DEF EvidenceIsLater, Valid, SealOf
<1>5. ASSUME NEW p \in Callers, Inside(p), NEW where \in Steps,
             step' = [step EXCEPT ![p] = where], where # "observed",
             step[p] # "observed"
      PROVE  \A q \in Callers : step'[q] # "observed"
  BY <1>a, <1>5 DEF OneInside, Inside, HostTypeOK
<1>6. ASSUME NEW p \in Callers,
             \/ \E desired \in States, lifetime \in Lifetimes :
                    Authorize(p, desired, lifetime)
             \/ CommitTransition(p)
             \/ Start(p) /\ StartExecution(p)
      PROVE  EvidenceIsLater'
  <2>1. /\ Inside(p) /\ step[p] # "observed"
        /\ \E where \in Steps \ {"observed"} :
               step' = [step EXCEPT ![p] = where]
    BY <1>6
       DEF Authorize, CommitTransition, StartExecution, Fail, Goto, Inside,
           Steps
  <2>2. \A q \in Callers : step'[q] # "observed"
    BY <1>5, <2>1
  <2>3. /\ UNCHANGED <<observation, clock, lastCompletedAt>>
        /\ \A q \in Callers : pc'[q] = "accepting" =>
               pc[q] = "accepting" /\ local'[q] = local[q]
    BY <1>a, <1>6
       DEF Authorize, CommitTransition, StartExecution, Normalize, Reconcile,
           Govern, Reserve, Commit, Start, Enter, lifecycle, request,
           callers, channels, history, TypeOK
  <2>4. CASE Start(p)
    <3>1. /\ phase = "RESERVED" /\ phase' = "STARTED"
          /\ executionDone' = attempts + 1 /\ closed' = closed
      BY <2>4 DEF Start, CanStart
    <3>2. executionDone' \notin closed'
      BY <1>a, <3>1, KernelAssumption DEF TypeOK
    <3> QED
      BY <1>b, <2>2, <2>3, <3>1, <3>2 DEF EvidenceIsLater, Valid, SealOf
  <2>5. CASE \E desired \in States, lifetime \in Lifetimes :
                 Authorize(p, desired, lifetime)
    <3>1. phase \in Authorizing /\ phase' \in Authorizing
      BY <2>5 DEF Authorize, Normalize, Reconcile, Govern, Reserve
    <3> QED
      BY <1>b, <2>2, <2>3, <3>1 DEF EvidenceIsLater, Valid, SealOf
  <2>6. CASE CommitTransition(p)
    <3>1. /\ phase = "VERIFIED" /\ phase' \in {"COMMITTED", "RECOVERY"}
          /\ UNCHANGED <<executionDone, executionCompletedAt, closed>>
      BY <2>6
         DEF CommitTransition, Commit, lifecycle, execution, callers, channels
    <3> QED
      BY <1>a, <1>b, <2>2, <2>3, <3>1
         DEF EvidenceIsLater, Valid, SealOf, ChannelHeld
  <2> QED
    BY <1>6, <2>4, <2>5, <2>6
<1>7. ASSUME NEW p \in Callers,
             \/ ReadAuthorized(p) \/ StartVerification(p)
             \/ VerificationCancelled(p) \/ VerificationWakes(p)
             \/ VerifyProvider(p)
             \/ VerificationEnds(p) /\ VerifyReject(p)
      PROVE  EvidenceIsLater'
  <2>1. /\ UNCHANGED <<observation, executionDone, executionCompletedAt,
                       closed, clock, lastCompletedAt, observed>>
        /\ \/ phase' = phase
           \/ /\ phase = "STARTED" /\ executionDone \in closed
              /\ phase' = "RECOVERY"
    BY <1>a, <1>7
       DEF ReadAuthorized, StartSnapshot, StartVerification, Verify,
           VerificationCancelled, VerifyCancel, VerificationWakes,
           VerifyWake, VerifyProvider, VerifierReturns, VerifierFails,
           VerificationEnds, VerifyReject, StillVerifying, JudgeHolds,
           Judging, lifecycle, request, execution, callers, channels,
           history, hostVars, Fail, Goto
  <2>2. \A q \in Callers : step'[q] = "observed" => step[q] = "observed"
    BY <1>a, <1>7
       DEF ReadAuthorized, StartVerification, VerificationCancelled,
           VerificationWakes, VerifyProvider, VerificationEnds, hostVars,
           VerifyReject, VerifyAccept, Fail, Goto, HostTypeOK
  <2>3. \A q \in Callers : pc'[q] = "accepting" =>
           \/ pc[q] = "accepting" /\ local'[q] = local[q]
           \/ Valid(local'[q].evidence) /\ local'[q].evidence.at <= clock
    <3>1. CASE VerifyProvider(p)
      <4>1. CASE VerifierFails(p)
        BY <1>a, <4>1 DEF VerifierFails, Enter, TypeOK
      <4>2. ASSUME NEW o, VerifierReturns(p, o)
            PROVE  \A q \in Callers : pc'[q] = "accepting" =>
                     \/ pc[q] = "accepting" /\ local'[q] = local[q]
                     \/ Valid(local'[q].evidence)
                           /\ local'[q].evidence.at <= clock
        <5>1. CASE Convincing(o, local[p], clock)
          <6>1. local'[p] = [local[p] EXCEPT !.evidence = o]
            BY <1>a, <4>2, <5>1 DEF VerifierReturns, Enter, TypeOK
          <6>2. local[p] \in Locals
            BY <1>a, <4>2 DEF VerifierReturns, CallerShape
          <6>3. local'[p].evidence = o
            BY <6>1, <6>2 DEF Locals
          <6>4. Valid(o) /\ o.at <= clock
            BY <5>1 DEF Convincing
          <6>5. \A q \in Callers \ {p} :
                    pc'[q] = pc[q] /\ local'[q] = local[q]
            BY <1>a, <4>2, <5>1 DEF VerifierReturns, Enter, TypeOK
          <6> QED
            BY <6>3, <6>4, <6>5
        <5>2. CASE ~Convincing(o, local[p], clock)
          BY <1>a, <4>2, <5>2 DEF VerifierReturns, Enter, TypeOK
        <5> QED
          BY <5>1, <5>2
      <4> QED
        BY <3>1, <4>1, <4>2 DEF VerifyProvider
    <3>2. CASE ~VerifyProvider(p)
      BY <1>a, <1>7, <3>2
         DEF ReadAuthorized, StartSnapshot, StartVerification, Verify,
             VerificationCancelled, VerifyCancel, VerificationWakes,
             VerifyWake, VerificationEnds, VerifyReject, Leave, Enter, TypeOK
    <3> QED
      BY <3>1, <3>2
  <2> QED
    BY <1>a, <1>b, <2>1, <2>2, <2>3
       DEF EvidenceIsLater, Valid, SealOf
<1>8. ASSUME NEW p \in Callers, VerificationEnds(p), VerifyAccept(p)
      PROVE  EvidenceIsLater'
  <2>1. /\ pc[p] = "accepting" /\ Judging(p)
        /\ local[p].evidence.fingerprint.at > executionCompletedAt
        /\ Valid(local[p].evidence) /\ local[p].evidence.at <= clock
        /\ phase = "STARTED" /\ executionDone \in closed
    BY <1>a, <1>8
       DEF VerifyAccept, Judging, EvidenceJudged, Proves, JudgeHolds,
           EvidenceIsLater
  <2>2. local[p].evidence \in Observations
    BY <1>a, <2>1 DEF EvidenceJudged, Proves, CallerShape, Locals
  <2>3. lastCompletedAt < clock
    BY <1>b, <2>1, <2>2
       DEF EvidenceIsLater, Valid, SealOf, Observations, Times, Seals
  <2>4. /\ UNCHANGED <<observation, executionDone, executionCompletedAt,
                       closed, clock, lastCompletedAt>>
        /\ phase' \in {"STARTED", "VERIFIED"}
    BY <1>8, <2>1
       DEF VerifyAccept, request, execution, channels
  <2>5. \A q \in Callers : step'[q] # "observed"
    <3>1. step[p] = "verifying" /\ Inside(p)
      BY <1>a, <2>1 DEF InMethod, Inside
    <3> QED
      BY <1>8, <3>1, <1>5, <2>1
         DEF VerificationEnds, VerifyReject, Goto, Fail, Steps
  <2>6. \A q \in Callers : pc'[q] = "accepting" =>
            pc[q] = "accepting" /\ local'[q] = local[q]
    BY <1>a, <1>8 DEF VerifyAccept, Leave, Enter, TypeOK
  <2> QED
    BY <1>b, <2>1, <2>3, <2>4, <2>5, <2>6 DEF EvidenceIsLater, Valid, SealOf
<1>9. ASSUME NEW p \in Callers, ExecuteAnswered(p) \/ ExecuteFailed(p)
      PROVE  EvidenceIsLater'
  <2>1. /\ pc[p] = "executing" /\ Executing(p)
        /\ phase = "STARTED" /\ executionDone = local[p].done
    BY <1>a, <1>9
       DEF ExecuteAnswered, ExecuteFailed, StartComplete, Executing,
           ExecutorHolds
  <2>2. /\ executionCompletedAt' = clock /\ lastCompletedAt' = clock
        /\ phase' \in {"STARTED", "RECOVERY"}
        /\ executionDone' = executionDone /\ executionDone' \in closed'
        /\ clock' = clock
    BY <1>9, <2>1 DEF ExecuteAnswered, ExecuteFailed, StartComplete
  <2>3. \A q \in Callers : step'[q] # "observed"
    <3>1. step[p] = "executing" /\ Inside(p)
      BY <1>a, <2>1 DEF InMethod, Inside
    <3> QED
      BY <1>9, <3>1, <1>5 DEF ExecuteAnswered, ExecuteFailed, Goto, Fail, Steps
  <2>4. \A q \in Callers : pc'[q] = "accepting" =>
            pc[q] = "accepting" /\ local'[q] = local[q]
    BY <1>a, <1>9
       DEF ExecuteAnswered, ExecuteFailed, StartComplete, Leave, Enter, TypeOK
  <2> QED
    BY <1>b, <2>2, <2>3, <2>4 DEF EvidenceIsLater, Valid, SealOf
<1> QED
  <2>1. ASSUME NEW p \in Callers,
               \/ \E reading \in {None, Provider!Reading} :
                      Request(p, reading)
               \/ AcquireLifecycle(p) \/ GiveUp(p) \/ ObserveFails(p)
               \/ KernelRefuses(p) \/ NotAuthorized(p)
               \/ ~CanStart /\ Fail(p) /\ UNCHANGED vars
               \/ \E payload \in States : CallExecute(p, payload)
               \/ ExecuteWrites(p) \/ ExecuteRefuses(p)
        PROVE  /\ UNCHANGED <<vars, observed>>
               /\ \A q \in Callers :
                      step'[q] = "observed" => step[q] = "observed"
    BY <1>a, <2>1
       DEF Request, AcquireLifecycle, GiveUp, ObserveFails, KernelRefuses,
           NotAuthorized, CallExecute, ExecuteWrites, ExecuteRefuses, Fail,
           Goto, HostTypeOK
  <2>2. ASSUME NEW p \in Callers, ReleaseLifecycle(p)
        PROVE  EvidenceIsLater'
    <3>1. \A q \in Callers : step'[q] = "observed" =>
              step[q] = "observed" /\ observed'[q] = observed[q]
      BY <1>a, <2>2 DEF ReleaseLifecycle, HostTypeOK
    <3>2. UNCHANGED <<phase, observation, executionDone, executionCompletedAt,
                      closed, clock, lastCompletedAt, pc, local>>
      BY <2>2 DEF ReleaseLifecycle, vars, lifecycle, request, execution,
                  callers, channels, history
    <3> QED
      BY <3>1, <3>2 DEF EvidenceIsLater, Valid, SealOf
  <2>3. CASE OtherWriter \/ UNCHANGED allVars
    BY <2>3, <1>1 DEF OtherWriter, allVars, hostVars
  <2>4. ASSUME NEW p \in Callers, StartExecution(p)
        PROVE  \/ Start(p)
               \/ ~CanStart /\ Fail(p) /\ UNCHANGED vars
    BY <2>4 DEF StartExecution
  <2>5. ASSUME NEW p \in Callers, VerificationEnds(p)
        PROVE  VerifyAccept(p) \/ VerifyReject(p)
    BY <2>5 DEF VerificationEnds
  <2> QED
    BY <1>1, <1>2, <1>3, <1>4, <1>6, <1>7, <1>8, <1>9,
       <2>1, <2>2, <2>3, <2>4, <2>5
       DEF HostNext

-----------------------------------------------------------------------------
(* A commit rests on one write of its own *)

Early == (Underway \cup {"observing", "observed"}) \ {"executing"}

(* Before its execution a call is alone: nobody executes or judges, and no *)
(* Execute callback runs.                                                  *)
LEMMA AloneEarly ==
    ASSUME HInv, NEW p \in Callers, step[p] \in Early \/ step[p] = "committing"
    PROVE  \A q \in Callers :
              ~Executing(q) /\ ~Judging(q) /\ effect[q] # "running"
<1>1. Inside(p) /\ step[p] \notin {"executing", "verifying", "returning"}
  BY DEF Early, Underway, Inside
<1> SUFFICES ASSUME NEW q \in Callers,
                    Executing(q) \/ Judging(q) \/ effect[q] = "running"
             PROVE  FALSE
  OBVIOUS
<1>2. step[q] \in {"executing", "verifying", "returning"}
  BY DEF HInv, InMethod, EffectIsAuthorized
<1>3. Inside(q)
  BY <1>2 DEF Inside
<1> QED
  BY <1>1, <1>2, <1>3 DEF HInv, OneInside

(* Steps that leave the lifecycle, the callers and the writes alone.       *)
LEMMA WritesFrame ==
    ASSUME WritesHeld,
           UNCHANGED <<phase, authority, observation, executionDone, closed,
                       spent, accepted, pc, local, writes, resource>>,
           \A q \in Callers :
              /\ step'[q] \in Early => effect'[q] = "none"
              /\ \/ effect'[q] = effect[q]
                 \/ ~Executing(q) /\ effect'[q] = "none"
    PROVE  WritesHeld'
BY DEF WritesHeld, WritesAreSpent, OneOwnWrite, EvidenceShowsIt, OwnWrites,
       TheWrite, Executing, Early

(* What Start authorizes has not written anything yet.                     *)
LEMMA ReservedHasNotWritten ==
    ASSUME HInv, IDsAge, ~ClockMayStepBack, WritesAreSpent,
           phase = "RESERVED"
    PROVE  /\ authority.id \notin spent
           /\ OwnWrites = {}
           /\ resource.execution # authority.id
<1>1. /\ authority \in Authorities /\ authority.id \in ExecutionIDs
      /\ spent \subseteq ExecutionIDs
  BY DEF HInv, IInv, TypeInv, TypeOK, Optional, EvidenceHeld, Attempted,
         Authorities
<1>2. authority.id \notin spent
  BY <1>1 DEF IDsAge, SpentBy, ExecutionIDs, Times
<1> QED
  BY <1>1, <1>2, HostAssumption DEF WritesAreSpent, OwnWrites

(* Every step keeps the Runtime's authority and its write together.        *)
LEMMA WritesHeldNext ==
    ASSUME HInv, IDsAge, ~ClockMayStepBack, WritesHeld, [HostNext]_allVars
    PROVE  WritesHeld'
<1>a. /\ HostTypeOK /\ TypeOK /\ CallerShape /\ OneInside /\ InMethod
      /\ ObservationIsOwn /\ EffectIsAuthorized /\ EvidenceHeld
      /\ ExecutorHolds /\ OneExecutor /\ JudgeHolds
  BY DEF HInv, IInv, TypeInv, CallersHold
<1>b. WritesAreSpent /\ OneOwnWrite /\ EvidenceShowsIt
  BY DEF WritesHeld
<1> DEFINE Lifecycle == <<phase, authority, observation, executionDone, closed,
                          spent, accepted, pc, local>>
<1>c. UNCHANGED vars => UNCHANGED Lifecycle
  BY DEF vars, lifecycle, request, execution, callers, channels, history
<1> USE DEF Attempted
<1>1. CASE TimePasses \/ UNCHANGED allVars
  <2>1. UNCHANGED Lifecycle /\ UNCHANGED <<step, effect, writes, resource>>
    BY <1>c, <1>1
       DEF TimePasses, Tick, hostVars, allVars, provider, lifecycle, request,
           execution, callers, channels, history
  <2> QED
    BY <1>b, <2>1, WritesFrame DEF OneOwnWrite, Early
<1>2. ASSUME NEW p \in Callers,
             \/ \E reading \in {None, Provider!Reading} : Request(p, reading)
             \/ AcquireLifecycle(p) \/ GiveUp(p)
             \/ ObserveProvider(p) \/ ObserveFails(p)
             \/ KernelRefuses(p) \/ NotAuthorized(p)
             \/ ~CanStart /\ Fail(p) /\ UNCHANGED <<vars, provider>>
             \/ ReleaseLifecycle(p)
      PROVE  WritesHeld'
  <2>1. UNCHANGED Lifecycle /\ UNCHANGED <<writes, resource>>
    BY <1>c, <1>2
       DEF Request, AcquireLifecycle, GiveUp, ObserveProvider, ObserveFails,
           KernelRefuses, NotAuthorized, ReleaseLifecycle, provider
  <2>2. ASSUME NEW q \in Callers
        PROVE  /\ step'[q] \in Early => effect'[q] = "none"
               /\ \/ effect'[q] = effect[q]
                  \/ ~Executing(q) /\ effect'[q] = "none"
    <3>1. CASE AcquireLifecycle(p)
      BY <1>a, <1>b, <3>1
         DEF AcquireLifecycle, HostTypeOK, OneOwnWrite, Early, InMethod
    <3>2. CASE ~AcquireLifecycle(p)
      <4>1. UNCHANGED effect /\ (step'[q] \in Early => step[q] \in Early)
        BY <1>a, <1>2, <3>2
           DEF Request, GiveUp, ObserveProvider, ObserveFails,
               KernelRefuses, NotAuthorized, ReleaseLifecycle, provider,
               Fail, Goto, Early, Underway, HostTypeOK
      <4> QED
        BY <1>b, <4>1 DEF OneOwnWrite, Early
    <3> QED
      BY <3>1, <3>2
  <2> QED
    BY <2>1, <2>2, WritesFrame
<1>3. CASE OtherWriter
  <2>1. /\ UNCHANGED Lifecycle /\ UNCHANGED <<step, effect, writes>>
        /\ resource'.execution = None
    BY <1>c, <1>3 DEF OtherWriter, Provider!Set
  <2>2. phase = "STARTED" => authority.id # None
    BY <1>a, HostAssumption
       DEF EvidenceHeld, TypeOK, Optional, Authorities
  <2> QED
    BY <1>b, <2>1, <2>2
       DEF WritesHeld, WritesAreSpent, OneOwnWrite, EvidenceShowsIt,
           OwnWrites, TheWrite, Executing
<1>4. ASSUME NEW p \in Callers,
             \/ HandToKernel(p)
             \/ \E desired \in States, lifetime \in Lifetimes :
                    Authorize(p, desired, lifetime)
      PROVE  WritesHeld'
  <2>1. /\ step[p] \in Early
        /\ \E where \in Early : step' = [step EXCEPT ![p] = where]
        /\ phase' \notin Attempted
        /\ UNCHANGED <<spent, pc, local, effect, writes, resource>>
    BY <1>4
       DEF HandToKernel, Authorize, Observe, Recover, EnterObserved,
           Normalize, Reconcile, Govern, Reserve, Goto, provider, callers,
           history, Early, Underway
  <2>2. \A q \in Callers :
            ~Executing(q) /\ ~Judging(q) /\ effect[q] # "running"
    BY <2>1, AloneEarly
  <2>3. \A q \in Callers : step'[q] \in Early => effect[q] = "none"
    BY <1>a, <1>b, <2>1 DEF OneOwnWrite, HostTypeOK, Early
  <2> QED
    BY <1>b, <2>1, <2>2, <2>3
       DEF WritesHeld, WritesAreSpent, OneOwnWrite, EvidenceShowsIt,
           Executing, Judging, Early
<1>5. ASSUME NEW p \in Callers, Start(p), Goto(p, "executing"),
             step[p] = "starting", UNCHANGED provider
      PROVE  WritesHeld'
  <2>1. /\ OwnWrites = {} /\ resource.execution # authority.id
        /\ phase = "RESERVED"
    BY <1>b, <1>5, ReservedHasNotWritten DEF Start, CanStart
  <2>2. \A q \in Callers :
            ~Executing(q) /\ ~Judging(q) /\ effect[q] # "running"
    BY <1>5, AloneEarly DEF Early, Underway
  <2>3. /\ authority'.id = authority.id /\ phase' = "STARTED"
        /\ executionDone' \notin closed' /\ observation' = observation
        /\ spent' = spent \cup {authority.id}
        /\ pc' = [pc EXCEPT ![p] = "starting"]
        /\ UNCHANGED <<effect, writes, resource>>
    <3>1. authority \in Authorities
      BY <1>a, <1>5 DEF Start, CanStart, TypeOK, Optional
    <3>2. authority'.id = authority.id
      BY <1>5, <3>1 DEF Start, Authorities
    <3> QED
      BY <1>a, <1>5, <3>2, KernelAssumption
         DEF Start, CanStart, Enter, TypeOK, provider, request
  <2>4. \A q \in Callers :
            /\ step'[q] \in Early => effect[q] = "none"
            /\ Executing(q)' => q = p /\ effect[q] = "none"
            /\ pc'[q] # "accepting"
    BY <1>a, <1>b, <1>5, <2>2, <2>3
       DEF Goto, HostTypeOK, OneOwnWrite, Early, Underway, Executing,
           Judging, TypeOK
  <2> QED
    BY <1>b, <2>1, <2>2, <2>3, <2>4
       DEF WritesHeld, WritesAreSpent, OneOwnWrite, EvidenceShowsIt,
           OwnWrites, Early
<1>6. ASSUME NEW p \in Callers, ReadAuthorized(p)
      PROVE  WritesHeld'
  <2>1. /\ pc[p] = "starting" /\ pc' = [pc EXCEPT ![p] = "executing"]
        /\ UNCHANGED <<phase, authority, observation, executionDone, closed,
                       spent, accepted, step, effect, writes, resource>>
        /\ \A q \in Callers : q # p => local'[q] = local[q]
    BY <1>a, <1>6
       DEF ReadAuthorized, StartSnapshot, Enter, hostVars, provider,
           lifecycle, request, execution, channels, history, TypeOK
  <2>2. \A q \in Callers :
            /\ Executing(q)' <=> Executing(q)
            /\ pc'[q] = "accepting" =>
                  pc[q] = "accepting" /\ local'[q] = local[q]
    BY <1>a, <2>1 DEF Executing, TypeOK
  <2> QED
    BY <1>b, <2>1, <2>2
       DEF WritesHeld, WritesAreSpent, OneOwnWrite, EvidenceShowsIt,
           OwnWrites, TheWrite
<1>7. ASSUME NEW p \in Callers, NEW payload \in States,
             CallExecute(p, payload)
      PROVE  WritesHeld'
  <2>1. /\ UNCHANGED Lifecycle /\ UNCHANGED <<step, writes, resource>>
        /\ effect[p] = "none" /\ effect' = [effect EXCEPT ![p] = "running"]
    BY <1>c, <1>7 DEF CallExecute
  <2>2. Executing(p) /\ step[p] = "executing"
    BY <1>a, <1>7 DEF CallExecute, Executing, InMethod
  <2>3. \A q \in Callers : effect'[q] = IF q = p THEN "running" ELSE effect[q]
    BY <1>a, <2>1 DEF HostTypeOK
  <2> QED
    BY <1>b, <2>1, <2>2, <2>3
       DEF WritesHeld, WritesAreSpent, OneOwnWrite, EvidenceShowsIt,
           OwnWrites, TheWrite, Executing
<1>8. ASSUME NEW p \in Callers, ExecuteWrites(p)
      PROVE  WritesHeld'
  <2>1. /\ effect[p] = "running" /\ UNCHANGED Lifecycle /\ UNCHANGED step
        /\ authority.id = callback[p].id
        /\ writes' = writes \cup
                 {[id |-> authority.id, version |-> resource.version]}
        /\ resource'.execution = authority.id
        /\ resource'.version = resource.version + 1
    BY <1>a, <1>c, <1>8
       DEF ExecuteWrites, Provider!Execute, EffectIsAuthorized
  <2>2. step[p] \in {"executing", "returning"} /\ Inside(p)
    BY <1>a, <2>1 DEF EffectIsAuthorized, Inside
  <2>3. \A q \in Callers : effect'[q] = IF q = p THEN "done" ELSE effect[q]
    BY <1>a, <1>8 DEF ExecuteWrites, HostTypeOK
  <2>4. \A q \in Callers : Executing(q) => q = p
    <3>1. \A q \in Callers : Executing(q) => Inside(q)
      BY <1>a DEF InMethod, Inside
    <3> QED
      BY <1>a, <2>2, <3>1 DEF OneInside
  <2>5. phase = "RECOVERY" \/ Executing(p)
    BY <1>b, <2>1 DEF WritesAreSpent
  <2>6. CASE Executing(p)
    <3>1. step[p] = "executing" /\ phase = "STARTED"
            /\ executionDone \notin closed
      BY <1>a, <2>6 DEF InMethod, ExecutorHolds
    <3>2. resource.version = observation.version
      BY <1>a, <1>8, <2>1, <3>1
         DEF ExecuteWrites, Provider!Unchanged, EffectIsAuthorized,
             ObservationIsOwn, Underway
    <3>3. OwnWrites = {}
      BY <1>b, <2>1, <2>6 DEF OneOwnWrite
    <3>4. OwnWrites' = {TheWrite}
      BY <2>1, <3>2, <3>3 DEF OwnWrites, TheWrite
    <3>5. TheWrite' = TheWrite
      BY <2>1 DEF TheWrite
    <3> QED
      BY <1>b, <2>1, <2>2, <2>3, <2>4, <3>1, <3>2, <3>4, <3>5
         DEF WritesHeld, WritesAreSpent, OneOwnWrite, EvidenceShowsIt,
             Executing
  <2>7. CASE phase = "RECOVERY"
    <3>1. \A q \in Callers : ~Executing(q)
      BY <1>a, <2>7 DEF ExecutorHolds
    <3> QED
      BY <1>b, <2>1, <2>2, <2>3, <2>7, <3>1
         DEF WritesHeld, WritesAreSpent, OneOwnWrite, EvidenceShowsIt,
             Executing
  <2> QED
    BY <2>5, <2>6, <2>7
<1>9. ASSUME NEW p \in Callers, ExecuteRefuses(p)
      PROVE  WritesHeld'
  <2>1. /\ UNCHANGED Lifecycle /\ UNCHANGED <<step, writes, resource>>
        /\ effect[p] = "running"
    BY <1>c, <1>9 DEF ExecuteRefuses
  <2>2. \A q \in Callers : effect'[q] = IF q = p THEN "refused" ELSE effect[q]
    BY <1>a, <1>9 DEF ExecuteRefuses, HostTypeOK
  <2>3. step[p] \notin Early
    BY <1>a, <2>1 DEF EffectIsAuthorized, Early, Underway
  <2> QED
    BY <1>b, <2>1, <2>2, <2>3
       DEF WritesHeld, WritesAreSpent, OneOwnWrite, EvidenceShowsIt,
           OwnWrites, TheWrite, Executing
<1>10. ASSUME NEW p \in Callers, ExecuteAnswered(p) \/ ExecuteFailed(p)
       PROVE  WritesHeld'
  <2>1. /\ Executing(p) /\ phase = "STARTED"
        /\ executionDone = local[p].done
    BY <1>a, <1>10
       DEF ExecuteAnswered, ExecuteFailed, StartComplete, Executing,
           ExecutorHolds
  <2>2. /\ UNCHANGED <<authority, observation, executionDone, spent, accepted,
                       effect, writes, resource>>
        /\ pc' = [pc EXCEPT ![p] = "idle"]
        /\ \A q \in Callers : q # p => local'[q] = local[q]
        /\ \/ phase' = "STARTED" /\ effect[p] = "done"
           \/ phase' = "RECOVERY"
        /\ \E where \in {"verifying", "returning"} :
               step' = [step EXCEPT ![p] = where]
    BY <1>a, <1>10, <2>1
       DEF ExecuteAnswered, ExecuteFailed, StartComplete, Leave, Enter, Fail,
           Goto, provider, request, TypeOK
  <2>3. \A q \in Callers : /\ ~Executing(q)'
                           /\ pc'[q] = "accepting" => pc[q] = "accepting"
                                                       /\ q # p
    BY <1>a, <2>1, <2>2 DEF Executing, OneExecutor, TypeOK
  <2>4. \A q \in Callers : step'[q] \in Early => effect[q] = "none"
    BY <1>a, <1>b, <2>2 DEF OneOwnWrite, HostTypeOK, Early, Underway
  <2>5. \A q \in Callers : effect[q] = "running" => phase' = "RECOVERY"
    BY <1>a, <1>b, <2>1, <2>2 DEF WritesAreSpent, OneExecutor
  <2>6. effect[p] = "done" => OwnWrites = {TheWrite}
    BY <1>b, <2>1 DEF OneOwnWrite
  <2> QED
    BY <1>b, <2>1, <2>2, <2>3, <2>4, <2>5, <2>6
       DEF WritesHeld, WritesAreSpent, OneOwnWrite, EvidenceShowsIt,
           OwnWrites, TheWrite, Early
<1>11. ASSUME NEW p \in Callers,
              \/ StartVerification(p) \/ VerificationCancelled(p)
              \/ VerificationWakes(p)
              \/ VerifyProvider(p) /\ VerifierFails(p)
              \/ VerificationEnds(p) /\ VerifyReject(p) /\ Fail(p)
       PROVE  WritesHeld'
  <2>1. /\ UNCHANGED <<authority, observation, executionDone, closed, spent,
                       accepted, effect, writes, resource>>
        /\ \/ phase' = phase
           \/ phase = "STARTED" /\ phase' = "RECOVERY"
        /\ \A q \in Callers : q # p => local'[q] = local[q]
    BY <1>a, <1>11
       DEF StartVerification, Verify, VerificationCancelled, VerifyCancel,
           VerificationWakes, VerifyWake, VerifyProvider, VerifierFails,
           VerificationEnds, VerifyReject, StillVerifying, Leave, Enter,
           Fail, Goto, hostVars, provider, lifecycle, request, execution,
           channels, history, TypeOK
  <2>2. /\ pc[p] \notin {"starting", "executing"}
        /\ \E where \in {"idle", "waiting", "verifying", "rejecting"} :
               pc' = [pc EXCEPT ![p] = where]
    BY <1>11
       DEF StartVerification, Verify, VerificationCancelled, VerifyCancel,
           VerificationWakes, VerifyWake, VerifyProvider, VerifierFails,
           VerificationEnds, VerifyReject, Leave, Enter
  <2>3. \A q \in Callers : /\ Executing(q)' <=> Executing(q)
                           /\ pc'[q] = "accepting" => pc[q] = "accepting"
                                                       /\ q # p
    BY <1>a, <2>2 DEF Executing, TypeOK
  <2>4. \A q \in Callers : step'[q] \in Early => effect[q] = "none"
    BY <1>a, <1>b, <1>11
       DEF StartVerification, VerificationCancelled, VerificationWakes,
           VerifyProvider, VerificationEnds, Fail, Goto, hostVars,
           OneOwnWrite, HostTypeOK, Early, Underway
  <2> QED
    BY <1>b, <2>1, <2>3, <2>4
       DEF WritesHeld, WritesAreSpent, OneOwnWrite, EvidenceShowsIt,
           OwnWrites, TheWrite, Early
<1>12. ASSUME NEW p \in Callers,
              VerifyProvider(p), ~VerifierFails(p)
       PROVE  WritesHeld'
  <2> DEFINE o == Sealed([subject |-> TheSubject, state |-> resource.state,
                          version |-> resource.version, token |-> NoToken,
                          at |-> clock])
  <2>1. /\ Provider!Shows(authority.id, After(local[p].transition))
        /\ VerifierReturns(p, o) /\ UNCHANGED hostVars
    BY <1>12 DEF VerifyProvider
  <2>2. o.version = resource.version
    BY DEF Sealed
  <2> HIDE DEF o
  <2>3. pc[p] = "verifying" /\ local[p] \in Locals
    BY <1>a, <2>1 DEF VerifierReturns, CallerShape
  <2>4. phase = "STARTED"
    BY <1>a, <2>3 DEF JudgeHolds, Judging
  <2>5. resource.version = observation.version + 1
    BY <1>b, <2>1, <2>4 DEF Provider!Shows, EvidenceShowsIt
  <2>6. UNCHANGED <<phase, authority, observation, executionDone, closed,
                    spent, accepted, step, effect, writes, resource>>
    BY <2>1 DEF VerifierReturns, hostVars, provider, lifecycle, request,
                execution, channels, history
  <2>7. \A q \in Callers :
            /\ Executing(q)' <=> Executing(q)
            /\ pc'[q] = "accepting" =>
                  \/ pc[q] = "accepting" /\ local'[q] = local[q]
                  \/ local'[q].evidence.version = observation.version + 1
    <3>1. CASE Convincing(o, local[p], clock)
      <4>1. /\ pc' = [pc EXCEPT ![p] = "accepting"]
            /\ local' = [local EXCEPT ![p] = [local[p] EXCEPT !.evidence = o]]
        BY <2>1, <3>1 DEF VerifierReturns, Enter
      <4>2. local'[p].evidence = o
        BY <1>a, <2>3, <4>1 DEF TypeOK, Locals
      <4> QED
        BY <1>a, <2>2, <2>3, <2>5, <4>1, <4>2 DEF Executing, TypeOK
    <3>2. CASE ~Convincing(o, local[p], clock)
      BY <1>a, <2>1, <2>3, <3>2 DEF VerifierReturns, Enter, Executing, TypeOK
    <3> QED
      BY <3>1, <3>2
  <2> QED
    BY <1>b, <2>6, <2>7
       DEF WritesHeld, WritesAreSpent, OneOwnWrite, EvidenceShowsIt,
           OwnWrites, TheWrite
<1>13. ASSUME NEW p \in Callers, VerifyAccept(p), Goto(p, "committing"),
              UNCHANGED provider
       PROVE  WritesHeld'
  <2>1. /\ pc[p] = "accepting" /\ Judging(p) /\ step[p] = "verifying"
        /\ phase = "STARTED" /\ executionDone \in closed
    BY <1>a, <1>13 DEF VerifyAccept, Judging, InMethod, JudgeHolds
  <2>2. /\ UNCHANGED <<authority, observation, executionDone, closed, spent,
                       effect, writes, resource>>
        /\ \/ phase' = "STARTED" /\ accepted' = accepted
           \/ phase' = "VERIFIED" /\ accepted' = local[p].evidence
        /\ pc' = [pc EXCEPT ![p] = "idle"]
        /\ \A q \in Callers : q # p => local'[q] = local[q]
    BY <1>a, <1>13, <2>1
       DEF VerifyAccept, Leave, Enter, provider, request, execution,
           channels, TypeOK
  <2>3. \A q \in Callers : /\ Executing(q)' <=> Executing(q)
                           /\ pc'[q] = "accepting" => pc[q] = "accepting"
                                                       /\ q # p
    BY <1>a, <2>1, <2>2 DEF Executing, TypeOK
  <2>4. \A q \in Callers : step'[q] \in Early => effect[q] = "none"
    BY <1>a, <1>b, <1>13 DEF Goto, OneOwnWrite, HostTypeOK, Early, Underway
  <2>5. \A q \in Callers : ~Executing(q)
    BY <1>a, <2>1 DEF ExecutorHolds
  <2> QED
    BY <1>b, <2>1, <2>2, <2>3, <2>4, <2>5
       DEF WritesHeld, WritesAreSpent, OneOwnWrite, EvidenceShowsIt,
           OwnWrites, TheWrite, Early
<1>14. ASSUME NEW p \in Callers, CommitTransition(p)
       PROVE  WritesHeld'
  <2>1. /\ phase = "VERIFIED" /\ phase' \in {"COMMITTED", "RECOVERY"}
        /\ UNCHANGED <<authority, observation, executionDone, closed, spent,
                       accepted, pc, local, effect, writes, resource>>
    BY <1>14
       DEF CommitTransition, Commit, provider, lifecycle, request, execution,
           callers, channels, history
  <2>2. \A q \in Callers :
            ~Executing(q) /\ ~Judging(q) /\ effect[q] # "running"
    BY <1>14, AloneEarly DEF CommitTransition
  <2>3. \A q \in Callers : step'[q] \in Early => effect[q] = "none"
    BY <1>a, <1>b, <1>14
       DEF CommitTransition, Goto, OneOwnWrite, HostTypeOK, Early, Underway
  <2> QED
    BY <1>b, <2>1, <2>2, <2>3
       DEF WritesHeld, WritesAreSpent, OneOwnWrite, EvidenceShowsIt,
           OwnWrites, TheWrite, Executing, Judging, Early
<1> QED
  <2>1. ASSUME NEW p \in Callers, StartExecution(p)
        PROVE  WritesHeld'
    BY <2>1, <1>2, <1>5 DEF StartExecution
  <2>2. ASSUME NEW p \in Callers, VerificationEnds(p)
        PROVE  WritesHeld'
    BY <2>2, <1>11, <1>13 DEF VerificationEnds
  <2>3. ASSUME NEW p \in Callers, VerifyProvider(p)
        PROVE  WritesHeld'
    BY <2>3, <1>11, <1>12
  <2> QED
    BY <1>1, <1>2, <1>3, <1>4, <1>6, <1>7, <1>8, <1>9, <1>10, <1>11, <1>14,
       <2>1, <2>2, <2>3
       DEF HostNext

-----------------------------------------------------------------------------
(* Theorems about evidence and writes *)

(* docs/ARCHITECTURE.md promises authorization on fresh evidence; the      *)
(* kernel leaves it to its caller, and Control, which observes after it    *)
(* holds the lifecycle, keeps the promise.                                 *)
THEOREM AuthorizationIsFresh == HostSpec => []FreshAuthorization
<1>1. HostInit => EvidenceIsLater
  BY DEF HostInit, Init, EvidenceIsLater, Authorized, Authorizing, Attempted
<1>2. HInv /\ EvidenceIsLater /\ [HostNext]_allVars => EvidenceIsLater'
  BY EvidenceIsLaterNext
<1>3. HInv /\ EvidenceIsLater => FreshAuthorization
  BY DEF HInv, IInv, CallersHold, ExecutorHolds, EvidenceHeld, Executing,
         Valid, SealOf, EvidenceIsLater, Authorized, FreshAuthorization
<1> QED
  BY <1>1, <1>2, <1>3, HostInvariance, PTL DEF HostSpec

(* With a clock that is never set back, a lifecycle is VERIFIED or         *)
(* COMMITTED on exactly one write, its own: it replaced the version that   *)
(* was authorized, and the evidence shows the version it made.             *)
THEOREM CommitIsOwnWrite ==
    ~ClockMayStepBack /\ HostSpec => []CommitShowsOwnWrite
<1> SUFFICES ASSUME ~ClockMayStepBack
             PROVE  HostSpec => []CommitShowsOwnWrite
  OBVIOUS
<1>1. HostInit => IDsAge
  BY IDsAgeInit DEF HostInit
<1>2. HInv /\ HInv' /\ IDsAge /\ [HostNext]_allVars => IDsAge'
  BY IDsAgeNext, KernelStep DEF HInv
<1>3. HostInit => WritesHeld
  BY DEF HostInit, Init, Provider!Fresh, WritesHeld, WritesAreSpent,
         OneOwnWrite, EvidenceShowsIt, Executing, Attempted, Underway
<1>4. HInv /\ IDsAge /\ WritesHeld /\ [HostNext]_allVars => WritesHeld'
  BY WritesHeldNext
<1>5. WritesHeld => CommitShowsOwnWrite
  BY DEF WritesHeld, OneOwnWrite, EvidenceShowsIt, OwnWrites, TheWrite,
         CommitShowsOwnWrite
<1> QED
  BY <1>1, <1>2, <1>3, <1>4, <1>5, HostInvariance, PTL DEF HostSpec
=============================================================================
