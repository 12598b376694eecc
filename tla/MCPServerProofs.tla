--------------------------- MODULE MCPServerProofs ---------------------------
(***************************************************************************)
(* Theorems about MCPServer for every number of tool calls: what the       *)
(* Runtime goes through is what Kernel allows, provider callbacks exclude  *)
(* each other, and one that outlives its deadline neither acts outside its *)
(* authority nor escapes the recovery that follows it.                     *)
(***************************************************************************)
EXTENDS MCPInvariant, KernelProofs

-----------------------------------------------------------------------------
(* What a callback reports *)

(* An observer's or verifier's report is genuine evidence of the resource. *)
LEMMA ReadingTyped ==
    ASSUME TypeOK, GateConserved
    PROVE  /\ Reading \in Answers /\ Reading # None /\ Reading.ok
           /\ Reading.evidence # None /\ Valid(Reading.evidence)
           /\ Reading.evidence.version = resource.version
           /\ Reading.evidence.at = clock
<1> DEFINE s == [subject |-> TheSubject, state |-> resource.state,
                 version |-> resource.version, token |-> NoToken, at |-> clock]
<1>1. TheSubject \in Subjects
  BY ServerAssumption DEF TheSubject
<1>2. s \in Seals
  BY <1>1, KernelAssumption DEF Seals, TypeOK, GateConserved, Resources
<1>3. Sealed(s) \in Observations /\ Sealed(s) # None
  BY <1>2, NoneAssumption DEF Sealed, Seals, Observations
<1>4. /\ Valid(Sealed(s)) /\ Sealed(s).version = resource.version
      /\ Sealed(s).at = clock
  BY DEF Sealed, Valid, SealOf
<1>5. Reading = [ok |-> TRUE, evidence |-> Sealed(s)]
  BY DEF Reading
<1> QED
  <2>1. Reading \in Answers /\ Reading.ok /\ Reading.evidence = Sealed(s)
    BY <1>3, <1>5 DEF Answers
  <2>2. Reading # None
    BY <2>1, ServerAssumption
  <2> HIDE DEF s
  <2> QED
    BY <1>3, <1>4, <2>1, <2>2

(* The answers without evidence.                                           *)
LEMMA OtherAnswersTyped ==
    /\ Failed \in Answers /\ Failed # None /\ ~Failed.ok
    /\ Done \in Answers /\ Done # None /\ Done.ok
<1>1. Failed \in Answers /\ ~Failed.ok
  BY DEF Failed, Answers
<1>2. Done \in Answers /\ Done.ok
  BY DEF Done, Answers
<1>3. None \notin Answers
  BY ServerAssumption
<1> QED
  BY <1>1, <1>2, <1>3

(* Genuine evidence is something a caller can hand to the kernel.          *)
LEMMA GenuineIsSubmitted ==
    ASSUME NEW o \in Observations, Valid(o)
    PROVE  o \in Submissions
<1> DEFINE s == SealOf(o)
<1>1. s \in Seals /\ o.at \in Times
  BY DEF SealOf, Observations, Seals
<1>2. o = [subject |-> o.subject, state |-> o.state, version |-> o.version,
           token |-> o.token, at |-> o.at, fingerprint |-> o.fingerprint]
  BY DEF Observations
<1>3. o = [Sealed(s) EXCEPT !.at = o.at]
  BY <1>2 DEF Sealed, SealOf, Valid
<1> QED
  BY <1>1, <1>3 DEF Submissions

(* So is what a call gives the kernel after it observed or checked.        *)
LEMMA ReceivedIsSubmitted ==
    ASSUME MInv, NEW p \in Callers, step[p] \in Evidencing,
           result[p] # None, result[p].ok
    PROVE  /\ result[p].evidence \in Observations
           /\ Valid(result[p].evidence)
           /\ result[p].evidence \in Submissions
<1>1. result[p].evidence \in Observations /\ Valid(result[p].evidence)
  BY DEF MInv, GateConserved, Answers, EvidenceReceived
<1> QED
  BY <1>1, GenuineIsSubmitted

-----------------------------------------------------------------------------
(* The server's steps are steps of Kernel *)

(* What a tool call does to the Runtime is a kernel method, or nothing.    *)
LEMMA KernelStep == MInv /\ [MCPNext]_allVars => [Next]_vars
<1> SUFFICES ASSUME MInv, [MCPNext]_allVars
             PROVE  Next \/ UNCHANGED vars
  OBVIOUS
<1>1. CASE UNCHANGED allVars
  BY <1>1 DEF allVars
<1>2. CASE TimePasses
  BY <1>2 DEF TimePasses, Next
<1>3. CASE OtherWriter
  BY <1>3 DEF OtherWriter
<1>4. ASSUME NEW p \in Callers, RecoverRuntime(p) \/ ObserveRuntime(p)
      PROVE  Next \/ UNCHANGED vars
  <2>1. step[p] \in {"observed", "recovered"}
    BY <1>4 DEF RecoverRuntime, ObserveRuntime
  <2>2. result[p].evidence \in Submissions
    BY <2>1, ReceivedIsSubmitted DEF MInv, EvidenceReceived, Evidencing
  <2> QED
    BY <1>4, <2>2 DEF RecoverRuntime, ObserveRuntime, Next
<1>5. ASSUME NEW p \in Callers, NEW desired \in States,
             NEW lifetime \in Lifetimes, Authorize(p, desired, lifetime)
      PROVE  Next
  <2>1. TheSubject \in Subjects
    BY ServerAssumption DEF TheSubject
  <2>2. [subject |-> TheSubject, target |-> desired] \in Proposals
    BY <2>1 DEF Proposals
  <2>3. ASSUME Govern([allowed |-> TRUE, transition |-> transition])
        PROVE  Next
    <3>1. transition \in Transitions
      BY <2>3 DEF Govern, MInv, IInv, TypeInv, TypeOK, Optional
    <3>2. [allowed |-> TRUE, transition |-> transition] \in Decisions
      BY <3>1 DEF Decisions
    <3> QED
      BY <2>3, <3>2 DEF Next
  <2> QED
    BY <1>5, <2>2, <2>3 DEF Authorize, Next
<1>6. ASSUME NEW p \in Callers, VerificationReceived(p)
      PROVE  Next
  <2>1. result[p].ok => result[p].evidence \in Submissions
    BY <1>6, ReceivedIsSubmitted DEF VerificationReceived, Evidencing
  <2> QED
    BY <1>6, <2>1 DEF VerificationReceived, Next, CallerStep
<1>7. ASSUME NEW p \in Callers, ExecutionReceived(p)
      PROVE  Next
  <2>1. result[p].ok \in BOOLEAN
    BY <1>7 DEF ExecutionReceived, MInv, GateConserved, Answers
  <2> QED
    BY <1>7, <2>1 DEF ExecutionReceived, Next, CallerStep
<1>8. ASSUME NEW p \in Callers,
             \/ StartExecution(p) \/ ReadAuthorized(p)
             \/ ExecutionTimesOut(p) \/ StartVerification(p)
             \/ VerificationTimesOut(p) \/ VerificationEnds(p)
             \/ CommitTransition(p)
      PROVE  Next \/ UNCHANGED vars
  BY <1>8
     DEF StartExecution, ReadAuthorized, ExecutionTimesOut,
         StartVerification, VerificationTimesOut, VerificationEnds,
         CommitTransition, Next, CallerStep
<1>9. ASSUME NEW p \in Callers,
             \/ Request(p) \/ AcquireLifecycle(p) \/ GiveUp(p)
             \/ Cancelled(p) \/ ReleaseLifecycle(p) \/ AskToObserve(p)
             \/ ObservationReceived(p) \/ ObservationTimesOut(p)
             \/ NotAuthorized(p) \/ AskToExecute(p) \/ AskToVerify(p)
             \/ CallbackStep(p)
      PROVE  UNCHANGED vars
  BY <1>9
     DEF Request, AcquireLifecycle, GiveUp, Cancelled, ReleaseLifecycle,
         AskToObserve, ObservationReceived, ObservationTimesOut,
         NotAuthorized, AskToExecute, AskToVerify, CallbackStep,
         ObserverReads, ExecutorWrites, VerifierReads, CallbackFails,
         ReleaseProvider, Send
<1> QED
  BY <1>1, <1>2, <1>3, <1>4, <1>5, <1>6, <1>7, <1>8, <1>9
     DEF MCPNext, Progress

-----------------------------------------------------------------------------
(* The kinds of steps *)

(* A call that is under way moves on; no callback is involved.             *)
Moves(p) ==
    \/ Cancelled(p) \/ ObservationReceived(p) \/ ObservationTimesOut(p)
    \/ RecoverRuntime(p)
    \/ \E desired \in States, lifetime \in Lifetimes :
           Authorize(p, desired, lifetime)
    \/ NotAuthorized(p) \/ StartExecution(p)
    \/ ExecutionReceived(p) \/ ExecutionTimesOut(p)
    \/ VerificationReceived(p) \/ VerificationTimesOut(p)
    \/ VerificationEnds(p) \/ CommitTransition(p)

(* A call begins or ends.                                                  *)
Passes(p) ==
    Request(p) \/ AcquireLifecycle(p) \/ GiveUp(p) \/ ReleaseLifecycle(p)

(* A call moves on inside a method of the Runtime.                         *)
Within(p) == ReadAuthorized(p) \/ StartVerification(p)

(* A call gets the provider gate and starts a callback.                    *)
Asks(p) == AskToObserve(p) \/ AskToExecute(p) \/ AskToVerify(p)

(* There are no other steps.                                               *)
LEMMA StepKinds ==
    ASSUME [MCPNext]_allVars
    PROVE  \/ UNCHANGED allVars \/ TimePasses \/ OtherWriter
           \/ \E p \in Callers :
                 \/ Moves(p) \/ Passes(p) \/ Within(p) \/ Asks(p)
                 \/ ObserveRuntime(p) \/ CallbackStep(p)
BY DEF MCPNext, Progress, Moves, Passes, Within, Asks

(* A callback's answer, and the release of the gate after it.              *)
LEMMA CallbackKinds ==
    ASSUME NEW p \in Callers, CallbackStep(p)
    PROVE  \/ /\ ReleaseProvider(p)
           \/ /\ ObserverReads(p)
              /\ Running(p, "observe") /\ Send(p, Reading)
              /\ UNCHANGED provider
           \/ /\ VerifierReads(p)
              /\ Running(p, "verify") /\ Send(p, Reading)
              /\ UNCHANGED provider
           \/ /\ CallbackFails(p)
              /\ Unanswered(p) /\ Send(p, Failed)
              /\ UNCHANGED provider
           \/ /\ ExecutorWrites(p)
              /\ Running(p, "execute") /\ Send(p, Done)
BY DEF CallbackStep, ObserverReads, ExecutorWrites, VerifierReads,
       CallbackFails, Running, Unanswered

(* A call moves on from and to places inside.                              *)
LEMMA MovesInside ==
    ASSUME MInv, NEW p \in Callers, Moves(p)
    PROVE  /\ Inside(p)
           /\ \E where \in Steps \ {"idle", "acquiring", "observing",
                                    "executing", "checking"} :
                  Goto(p, where)
           /\ UNCHANGED <<calls, provider>>
<1>1. CASE VerificationEnds(p)
  <2>1. pc[p] \in {"accepting", "rejecting"}
    BY <1>1 DEF VerificationEnds, VerifyAccept, VerifyReject
  <2>2. Inside(p)
    BY <2>1 DEF MInv, InMethod, Inside
  <2> QED
    BY <1>1, <2>2 DEF VerificationEnds, Fail, Steps
<1>2. CASE \/ Cancelled(p) \/ ObservationReceived(p) \/ ObservationTimesOut(p)
           \/ RecoverRuntime(p)
           \/ \E desired \in States, lifetime \in Lifetimes :
                  Authorize(p, desired, lifetime)
           \/ NotAuthorized(p) \/ StartExecution(p) \/ CommitTransition(p)
  BY <1>2
     DEF Cancelled, ObservationReceived, ObservationTimesOut, RecoverRuntime,
         Authorize, NotAuthorized, StartExecution, CommitTransition, Abandon,
         Fail, Steps, Inside
<1>3. CASE \/ ExecutionReceived(p) \/ ExecutionTimesOut(p)
           \/ VerificationReceived(p) \/ VerificationTimesOut(p)
  BY <1>3
     DEF ExecutionReceived, ExecutionTimesOut, VerificationReceived,
         VerificationTimesOut, Abandon, Fail, Steps, Inside
<1> QED
  BY <1>1, <1>2, <1>3 DEF Moves

(* What a call asks for, and where it waits for it.                        *)
LEMMA AsksFor ==
    ASSUME MInv, NEW p \in Callers, Asks(p)
    PROVE  /\ Inside(p) /\ gate
           /\ \A q \in Callers : callback[q] = None
           /\ \E c \in Goroutines, where \in Steps :
                 /\ StartGoroutine(p, c) /\ Goto(p, where)
                 /\ ~c.answered
                 /\ \/ where = "observing" /\ c.kind = "observe"
                    \/ /\ where = "executing" /\ c.kind = "execute"
                       /\ AskToExecute(p) /\ c.id = authority.id
                       /\ c.before = observation
                       /\ c.after = After(transition)
                    \/ /\ where = "checking"  /\ c.kind = "verify"
                       /\ AskToVerify(p) /\ c.id = authority.id
           /\ UNCHANGED vars
<1>a. GateConserved /\ TypeOK /\ EvidenceHeld /\ ExecutorHolds /\ JudgeHolds
  BY DEF MInv, IInv, TypeInv, CallersHold
<1>1. gate /\ \A q \in Callers : callback[q] = None
  BY <1>a DEF Asks, AskToObserve, AskToExecute, AskToVerify, StartGoroutine,
              GateConserved
<1>2. CASE AskToObserve(p)
  <2>1. Goroutine("observe") \in Goroutines
    BY DEF Goroutine, Goroutines
  <2>2. ~Goroutine("observe").answered
          /\ Goroutine("observe").kind = "observe"
    BY DEF Goroutine
  <2> QED
    BY <1>1, <1>2, <2>1, <2>2 DEF AskToObserve, Inside, Steps
<1>3. CASE AskToExecute(p)
  <2> DEFINE c == [Goroutine("execute") EXCEPT
                     !.id = authority.id, !.before = local[p].before,
                     !.after = After(local[p].transition)]
  <2>1. /\ Executing(p) /\ phase = "STARTED"
        /\ local[p].before = observation /\ local[p].transition = transition
    BY <1>a, <1>3 DEF AskToExecute, Executing, ExecutorHolds
  <2>2. /\ authority.id \in ExecutionIDs /\ observation \in Observations
        /\ transition \in Transitions
    BY <1>a, <2>1 DEF EvidenceHeld, Attempted, Decided, TypeOK, Optional,
                      Authorities
  <2>3. After(transition) \in States
    BY <2>2 DEF After, Transitions, Proposals
  <2> DEFINE g == Goroutine("execute")
  <2>4. g \in Goroutines /\ ~g.answered /\ g.kind = "execute"
    BY DEF Goroutine, Goroutines
  <2>5. /\ c \in Goroutines /\ ~c.answered /\ c.kind = "execute"
        /\ c.id = authority.id /\ c.before = observation
        /\ c.after = After(transition)
    <3> HIDE DEF g
    <3>1. c = [g EXCEPT !.id = authority.id, !.before = observation,
                        !.after = After(transition)]
      BY <2>1 DEF g
    <3> HIDE DEF c
    <3> QED
      BY <2>2, <2>3, <2>4, <3>1 DEF Goroutines
  <2>6. StartGoroutine(p, c) /\ Goto(p, "executing") /\ step[p] = "admitting"
          /\ UNCHANGED vars
    BY <1>3 DEF AskToExecute
  <2> HIDE DEF c
  <2> QED
    BY <1>1, <1>3, <2>5, <2>6 DEF Inside, Steps
<1>4. CASE AskToVerify(p)
  <2> DEFINE c == [Goroutine("verify") EXCEPT
                     !.id = authority.id,
                     !.after = After(local[p].transition)]
  <2>1. Judging(p) /\ phase = "STARTED" /\ local[p].transition = transition
    BY <1>a, <1>4 DEF AskToVerify, Judging, JudgeHolds
  <2>2. authority.id \in ExecutionIDs /\ transition \in Transitions
    BY <1>a, <2>1 DEF EvidenceHeld, Attempted, Decided, TypeOK, Optional,
                      Authorities
  <2>3. After(transition) \in States
    BY <2>2 DEF After, Transitions, Proposals
  <2> DEFINE g == Goroutine("verify")
  <2>4. g \in Goroutines /\ ~g.answered /\ g.kind = "verify"
    BY DEF Goroutine, Goroutines
  <2>5. /\ c \in Goroutines /\ ~c.answered /\ c.kind = "verify"
        /\ c.id = authority.id
    <3> HIDE DEF g
    <3>1. c = [g EXCEPT !.id = authority.id, !.after = After(transition)]
      BY <2>1 DEF g
    <3> HIDE DEF c
    <3> QED
      BY <2>2, <2>3, <2>4, <3>1 DEF Goroutines
  <2>6. StartGoroutine(p, c) /\ Goto(p, "checking") /\ step[p] = "verifying"
          /\ UNCHANGED vars
    BY <1>4 DEF AskToVerify
  <2> HIDE DEF c
  <2> QED
    BY <1>1, <1>4, <2>5, <2>6 DEF Inside, Steps
<1> QED
  BY <1>2, <1>3, <1>4 DEF Asks

-----------------------------------------------------------------------------
(* The invariant, part by part *)

(* No step leaves the types, and the gate's token stays one.               *)
LEMMA GateConservedNext == MInv /\ [MCPNext]_allVars => GateConserved'
<1> SUFFICES ASSUME MInv, [MCPNext]_allVars
             PROVE  GateConserved'
  OBVIOUS
<1>a. GateConserved /\ TypeOK
  BY DEF MInv, IInv, TypeInv
<1>1. ASSUME UNCHANGED <<calls, provider>>, token' \in BOOLEAN,
             step' \in [Callers -> Steps]
      PROVE  GateConserved'
  BY <1>a, <1>1 DEF calls, provider, GateConserved
<1>2. CASE UNCHANGED allVars \/ TimePasses
  BY <1>a, <1>1, <1>2 DEF allVars, mcpVars, TimePasses, GateConserved
<1>3. CASE OtherWriter
  <2>1. resource' \in Resources
    BY <1>a, <1>3 DEF OtherWriter, Provider!Set, GateConserved, Resources
  <2> QED
    BY <1>a, <1>3, <2>1 DEF OtherWriter, calls, GateConserved
<1>4. ASSUME NEW p \in Callers, Moves(p)
      PROVE  GateConserved'
  BY <1>a, <1>1, <1>4, MovesInside DEF Goto, GateConserved
<1>5. ASSUME NEW p \in Callers, Passes(p)
      PROVE  GateConserved'
  <2>1. /\ UNCHANGED <<calls, provider>> /\ token' \in BOOLEAN
        /\ \E where \in Steps : step' = [step EXCEPT ![p] = where]
    BY <1>a, <1>5
       DEF Passes, Request, AcquireLifecycle, GiveUp, ReleaseLifecycle, Goto,
           Steps, GateConserved
  <2> QED
    BY <1>a, <1>1, <2>1 DEF GateConserved
<1>6. ASSUME NEW p \in Callers, Within(p)
      PROVE  GateConserved'
  <2>1. UNCHANGED mcpVars
    BY <1>6 DEF Within, ReadAuthorized, StartVerification
  <2> QED
    BY <1>a, <1>1, <2>1 DEF mcpVars, GateConserved
<1>7. ASSUME NEW p \in Callers, Asks(p)
      PROVE  GateConserved'
  <2>1. PICK c \in Goroutines, where \in Steps :
            StartGoroutine(p, c) /\ Goto(p, where)
    BY <1>7, AsksFor
  <2>2. \A q \in Callers : callback[q] = None
    BY <1>7, AsksFor
  <2>3. c # None
    BY ServerAssumption
  <2>4. \A q \in Callers : callback'[q] = IF q = p THEN c ELSE None
    BY <1>a, <2>1, <2>2 DEF StartGoroutine, GateConserved
  <2> QED
    BY <1>a, <2>1, <2>3, <2>4
       DEF StartGoroutine, Goto, provider, GateConserved
<1>8. ASSUME NEW p \in Callers, ObserveRuntime(p)
      PROVE  GateConserved'
  BY <1>a, <1>8 DEF ObserveRuntime, Goto, provider, Steps, GateConserved
<1>9. ASSUME NEW p \in Callers, NEW r \in Answers, Send(p, r), Unanswered(p),
             resource' \in Resources, writes' \subseteq Writes
      PROVE  GateConserved'
  <2>1. callback[p] \in Goroutines
    BY <1>a, <1>9 DEF Unanswered, GateConserved
  <2>2. [callback[p] EXCEPT !.answered = TRUE] \in Goroutines
    BY <2>1 DEF Goroutines
  <2>3. \A q \in Callers : callback'[q] = None <=> callback[q] = None
    BY <1>a, <1>9, <2>2, ServerAssumption DEF Send, Unanswered, GateConserved
  <2>4. callback' \in [Callers -> Goroutines \cup {None}]
    BY <1>a, <1>9, <2>2 DEF Send, GateConserved
  <2>5. result' \in [Callers -> Answers \cup {None}]
    BY <1>a, <1>9 DEF Send, GateConserved
  <2> QED
    BY <1>a, <1>9, <2>3, <2>4, <2>5 DEF Send, GateConserved
<1>10. ASSUME NEW p \in Callers, CallbackStep(p)
       PROVE  GateConserved'
  <2>1. CASE ReleaseProvider(p)
    <3>1. callback[p] # None /\ callback' = [callback EXCEPT ![p] = None]
      BY <2>1 DEF ReleaseProvider
    <3>2. \A q \in Callers : callback'[q] = None
      BY <1>a, <3>1 DEF GateConserved
    <3> QED
      BY <1>a, <2>1, <3>1, <3>2 DEF ReleaseProvider, provider, GateConserved
  <2>2. CASE /\ Unanswered(p) /\ UNCHANGED provider
             /\ Send(p, Reading) \/ Send(p, Failed)
    BY <1>a, <1>9, <2>2, ReadingTyped, OtherAnswersTyped
       DEF provider, GateConserved
  <2>3. CASE ExecutorWrites(p)
    <3>1. Unanswered(p) /\ Send(p, Done)
      BY <2>3 DEF ExecutorWrites, Running, Unanswered
    <3>2. Running(p, "execute")
      BY <2>3 DEF ExecutorWrites
    <3>3. /\ callback[p].id = authority.id /\ authority # None
          /\ callback[p].after = After(transition)
          /\ phase \in {"STARTED", "RECOVERY"}
      BY <3>2 DEF MInv, EffectIsAuthorized
    <3>4. authority.id \in ExecutionIDs
      BY <1>a, <3>3 DEF TypeOK, Optional, Authorities
    <3>5. After(transition) \in States
      BY <1>a, <3>3
         DEF MInv, IInv, EvidenceHeld, Decided, TypeOK, Optional, After,
             Transitions, Proposals
    <3> QED
      BY <1>a, <1>9, <2>3, <3>1, <3>3, <3>4, <3>5, OtherAnswersTyped
         DEF ExecutorWrites, Provider!Transitioned, GateConserved, Resources,
             Writes
  <2> QED
    BY <1>10, <2>1, <2>2, <2>3, CallbackKinds DEF Running, Unanswered
<1> QED
  BY <1>2, <1>3, <1>4, <1>5, <1>6, <1>7, <1>8, <1>10, StepKinds

(* The lifecycle gate admits one call at a time.                           *)
LEMMA OneInsideNext == MInv /\ [MCPNext]_allVars => OneInside'
<1> SUFFICES ASSUME MInv, [MCPNext]_allVars
             PROVE  OneInside'
  OBVIOUS
<1>a. GateConserved /\ OneInside
  BY DEF MInv
<1>1. ASSUME NEW p \in Callers, Inside(p),
             NEW where \in Steps \ {"idle", "acquiring"}, Goto(p, where)
      PROVE  OneInside'
  BY <1>a, <1>1 DEF Goto, OneInside, Inside, GateConserved
<1>2. CASE UNCHANGED <<token, step>>
  BY <1>a, <1>2 DEF OneInside, Inside
<1>3. ASSUME NEW p \in Callers, Passes(p)
      PROVE  OneInside'
  <2>1. CASE Request(p) \/ GiveUp(p)
    BY <1>a, <2>1 DEF Request, GiveUp, Goto, OneInside, Inside, GateConserved
  <2>2. CASE AcquireLifecycle(p)
    BY <1>a, <2>2 DEF AcquireLifecycle, OneInside, Inside, GateConserved
  <2>3. CASE ReleaseLifecycle(p)
    BY <1>a, <2>3 DEF ReleaseLifecycle, OneInside, Inside, GateConserved
  <2> QED
    BY <1>3, <2>1, <2>2, <2>3 DEF Passes
<1>4. ASSUME NEW p \in Callers, ObserveRuntime(p)
      PROVE  OneInside'
  BY <1>1, <1>4 DEF ObserveRuntime, Inside, Steps
<1>5. ASSUME NEW p \in Callers, Asks(p)
      PROVE  OneInside'
  <2>1. Inside(p)
    BY <1>5, AsksFor
  <2>2. \E where \in Steps \ {"idle", "acquiring"} : Goto(p, where)
    BY <1>5, AsksFor
  <2> QED
    BY <1>1, <2>1, <2>2
<1>6. ASSUME NEW p \in Callers, Within(p) \/ CallbackStep(p)
      PROVE  OneInside'
  BY <1>2, <1>6, CallbackKinds
     DEF Within, ReadAuthorized, StartVerification, mcpVars, ReleaseProvider,
         Send
<1>7. ASSUME NEW p \in Callers, Moves(p)
      PROVE  OneInside'
  BY <1>1, <1>7, MovesInside
<1> QED
  BY <1>2, <1>3, <1>4, <1>5, <1>6, <1>7, StepKinds
     DEF allVars, mcpVars, TimePasses, OtherWriter

(* A call is in a kernel method only where the server calls it.            *)
LEMMA InMethodNext == MInv /\ [MCPNext]_allVars => InMethod'
<1> SUFFICES ASSUME MInv, [MCPNext]_allVars
             PROVE  InMethod'
  OBVIOUS
<1>a. GateConserved /\ TypeOK /\ InMethod
  BY DEF MInv, IInv, TypeInv
<1> DEFINE Method == {"admitting", "executing", "verifying", "checking",
                      "judging"}
<1> USE DEF Executing
<1>1. ASSUME NEW p \in Callers,
             \/ Cancelled(p) \/ ObservationReceived(p)
             \/ ObservationTimesOut(p) \/ RecoverRuntime(p)
             \/ ObserveRuntime(p)
             \/ \E desired \in States, lifetime \in Lifetimes :
                    Authorize(p, desired, lifetime)
             \/ NotAuthorized(p) \/ CommitTransition(p)
             \/ Passes(p) \/ AskToObserve(p)
      PROVE  InMethod'
  <2>1. /\ UNCHANGED pc
        /\ step[p] \notin Method
        /\ \E where \in Steps \ Method : step' = [step EXCEPT ![p] = where]
    <3>1. CASE \/ Cancelled(p) \/ ObservationReceived(p)
               \/ ObservationTimesOut(p) \/ RecoverRuntime(p)
               \/ ObserveRuntime(p) \/ NotAuthorized(p)
      BY <3>1
         DEF Cancelled, ObservationReceived, ObservationTimesOut,
             RecoverRuntime, ObserveRuntime, NotAuthorized, Abandon, Fail,
             Goto, Steps, Observe, Recover, vars, callers
    <3>2. CASE \/ \E desired \in States, lifetime \in Lifetimes :
                      Authorize(p, desired, lifetime)
               \/ CommitTransition(p) \/ Passes(p) \/ AskToObserve(p)
      BY <3>2
         DEF Authorize, CommitTransition, Passes, Request, AcquireLifecycle,
             GiveUp, ReleaseLifecycle, AskToObserve, Goto, Steps, Normalize,
             Reconcile, Govern, Reserve, Commit, vars, callers
    <3> QED
      BY <1>1, <3>1, <3>2
  <2> QED
    BY <1>a, <2>1 DEF InMethod, GateConserved
<1>2. ASSUME NEW p \in Callers, StartExecution(p)
      PROVE  InMethod'
  BY <1>a, <1>2
     DEF StartExecution, Start, Enter, Fail, Goto, InMethod, GateConserved,
         TypeOK, vars, callers
<1>3. ASSUME NEW p \in Callers, ExecutionReceived(p) \/ ExecutionTimesOut(p)
      PROVE  InMethod'
  BY <1>a, <1>3
     DEF ExecutionReceived, ExecutionTimesOut, StartComplete, Leave, Enter,
         Fail, Goto, InMethod, GateConserved, TypeOK
<1>4. ASSUME NEW p \in Callers, VerificationEnds(p)
      PROVE  InMethod'
  BY <1>a, <1>4
     DEF VerificationEnds, VerifyAccept, VerifyReject, Leave, Enter, Fail,
         Goto, InMethod, GateConserved, TypeOK
<1>5. ASSUME NEW p \in Callers, ReadAuthorized(p)
      PROVE  InMethod'
  BY <1>a, <1>5
     DEF ReadAuthorized, StartSnapshot, Enter, mcpVars, InMethod, TypeOK
<1>6. ASSUME NEW p \in Callers, StartVerification(p)
      PROVE  InMethod'
  <2>1. /\ step[p] = "verifying" /\ pc[p] \in {"idle", "waiting"}
        /\ \E where \in {"idle", "waiting", "verifying"} :
               pc' = [pc EXCEPT ![p] = where]
        /\ UNCHANGED step
    BY <1>6
       DEF StartVerification, Verify, VerifyWake, Leave, Enter, mcpVars
  <2> QED
    BY <1>a, <2>1 DEF InMethod, TypeOK
<1>7. ASSUME NEW p \in Callers,
             VerificationReceived(p) \/ VerificationTimesOut(p)
      PROVE  InMethod'
  <2>1. /\ step[p] \in {"verifying", "checking"} /\ pc[p] = "verifying"
        /\ \E where \in {"accepting", "rejecting"} :
               pc' = [pc EXCEPT ![p] = where]
        /\ step' = [step EXCEPT ![p] = "judging"]
    BY <1>7
       DEF VerificationReceived, VerificationTimesOut, VerifierReturns,
           VerifierFails, Enter, Goto
  <2> QED
    BY <1>a, <2>1 DEF InMethod, GateConserved, TypeOK
<1>8. ASSUME NEW p \in Callers, AskToExecute(p) \/ AskToVerify(p)
      PROVE  InMethod'
  BY <1>a, <1>8
     DEF AskToExecute, AskToVerify, Goto, vars, callers, InMethod,
         GateConserved
<1>9. CASE \/ UNCHANGED allVars \/ TimePasses \/ OtherWriter
           \/ \E p \in Callers : CallbackStep(p)
  <2>1. UNCHANGED <<pc, step>>
    BY <1>9, CallbackKinds
       DEF allVars, mcpVars, vars, callers, TimePasses, Tick, OtherWriter,
           ReleaseProvider, Send
  <2> QED
    BY <1>a, <2>1 DEF InMethod
<1> QED
  BY <1>1, <1>2, <1>3, <1>4, <1>5, <1>6, <1>7, <1>8, <1>9, StepKinds
     DEF Moves, Within, Asks

(* Only the call that started an execution leads out of STARTED.           *)
LEMMA StartedIsHeldNext == MInv /\ [MCPNext]_allVars => StartedIsHeld'
<1> SUFFICES ASSUME MInv, [MCPNext]_allVars, phase' = "STARTED"
             PROVE  \E p \in Callers : step'[p] \in Attempting
  BY DEF StartedIsHeld
<1>a. GateConserved /\ TypeOK /\ InMethod /\ ExecutorHolds /\ JudgeHolds
        /\ VerifierHolds /\ OneInside
  BY DEF MInv, IInv, TypeInv, CallersHold
<1> USE DEF Attempting
<1>1. CASE phase # "STARTED"
  <2>1. PICK p \in Callers : Moves(p) /\ phase' = "STARTED"
    BY <1>1, StepKinds, CallbackKinds, AsksFor
       DEF allVars, TimePasses, Tick, OtherWriter, Passes, Request,
           AcquireLifecycle, GiveUp, ReleaseLifecycle, Within,
           ReadAuthorized, StartSnapshot, StartVerification, Verify,
           VerifyWake, ObserveRuntime, Observe, EnterObserved,
           ReleaseProvider, Send, vars
  <2>2. StartExecution(p) /\ Start(p)
    BY <1>1, <2>1
       DEF Moves, Cancelled, ObservationReceived, ObservationTimesOut,
           RecoverRuntime, Recover, EnterObserved, Authorize, Normalize,
           Reconcile, Govern, Reserve, NotAuthorized, StartExecution,
           ExecutionReceived, ExecutionTimesOut, StartComplete,
           VerificationReceived, VerificationTimesOut, VerifierReturns,
           VerifierFails, VerificationEnds, VerifyAccept, VerifyReject,
           CommitTransition, Commit, vars
  <2>3. Goto(p, "admitting")
    BY <2>2 DEF StartExecution, Start
  <2> QED
    BY <1>a, <2>3 DEF Goto, GateConserved
<1>2. CASE phase = "STARTED"
  <2>1. PICK q \in Callers : step[q] \in Attempting
    BY <1>2 DEF MInv, StartedIsHeld
  <2>2. Inside(q)
    BY <2>1 DEF Inside
  <2>3. ASSUME NEW p \in Callers, Moves(p)
        PROVE  step'[q] \in Attempting
    <3>1. p = q
      BY <1>a, <2>2, <2>3, MovesInside DEF OneInside
    <3>2. CASE ExecutionReceived(q) \/ ExecutionTimesOut(q)
      <4>1. Executing(q) /\ executionDone = local[q].done
        BY <1>a, <3>2
           DEF ExecutionReceived, ExecutionTimesOut, StartComplete,
               Executing, ExecutorHolds
      <4>2. ExecutionReceived(q) /\ result[q].ok
        BY <1>2, <3>2, <4>1
           DEF ExecutionReceived, ExecutionTimesOut, StartComplete
      <4> QED
        BY <1>a, <4>2 DEF ExecutionReceived, Goto, GateConserved
    <3>3. CASE VerificationReceived(q) \/ VerificationTimesOut(q)
      BY <1>a, <3>3
         DEF VerificationReceived, VerificationTimesOut, Goto, GateConserved
    <3>4. CASE VerificationEnds(q)
      <4>1. Judging(q) /\ executionDone = local[q].done
        BY <1>a, <3>4
           DEF VerificationEnds, VerifyAccept, VerifyReject, Judging,
               JudgeHolds
      <4>2. verificationActive
        BY <1>2, <1>a, <4>1 DEF VerifierHolds, HoldsVerification
      <4> QED
        BY <1>2, <3>4, <4>1, <4>2
           DEF VerificationEnds, VerifyAccept, VerifyReject, StillVerifying
    <3> QED
      BY <2>1, <2>3, <3>1, <3>2, <3>3, <3>4
         DEF Moves, Cancelled, ObservationReceived, ObservationTimesOut,
             RecoverRuntime, Authorize, NotAuthorized, StartExecution,
             CommitTransition
  <2>4. ASSUME NEW p \in Callers, Passes(p)
        PROVE  step'[q] \in Attempting
    BY <1>a, <2>1, <2>2, <2>4
       DEF Passes, Request, AcquireLifecycle, GiveUp, ReleaseLifecycle, Goto,
           OneInside, Inside, GateConserved
  <2>5. ASSUME NEW p \in Callers, Asks(p)
        PROVE  step'[q] \in Attempting
    BY <1>a, <2>1, <2>5
       DEF Asks, AskToObserve, AskToExecute, AskToVerify, Goto, OneInside,
           Inside, GateConserved
  <2>6. ASSUME NEW p \in Callers, ObserveRuntime(p)
        PROVE  step'[q] \in Attempting
    BY <1>a, <2>1, <2>6 DEF ObserveRuntime, Goto, GateConserved
  <2>7. ASSUME NEW p \in Callers, Within(p) \/ CallbackStep(p)
        PROVE  step' = step
    BY <2>7, CallbackKinds
       DEF Within, ReadAuthorized, StartVerification, mcpVars,
           ReleaseProvider, Send
  <2> QED
    BY <2>1, <2>3, <2>4, <2>5, <2>6, <2>7, StepKinds
       DEF allVars, mcpVars, TimePasses, OtherWriter
<1> QED
  BY <1>1, <1>2

(* Steps that are no callback's and start none leave every callback, what  *)
(* it was asked and what it answered, and let nobody wait for it anew.     *)
LEMMA CallsFrame ==
    ASSUME MInv, [MCPNext]_allVars,
           ~ \E p \in Callers : Asks(p) \/ ObserveRuntime(p) \/ CallbackStep(p)
    PROVE  /\ UNCHANGED calls
           /\ \A q \in Callers : Awaited(q)' => Awaited(q) /\ step'[q] = step[q]
<1>a. GateConserved
  BY DEF MInv
<1>1. CASE UNCHANGED allVars \/ TimePasses \/ OtherWriter
  BY <1>1 DEF allVars, mcpVars, TimePasses, OtherWriter, Awaited
<1>2. ASSUME NEW p \in Callers, Moves(p)
      PROVE  /\ UNCHANGED calls
             /\ \A q \in Callers :
                    Awaited(q)' => Awaited(q) /\ step'[q] = step[q]
  BY <1>a, <1>2, MovesInside DEF Goto, Awaited, GateConserved
<1>3. ASSUME NEW p \in Callers, Passes(p) \/ Within(p)
      PROVE  /\ UNCHANGED calls
             /\ \A q \in Callers :
                    Awaited(q)' => Awaited(q) /\ step'[q] = step[q]
  <2>1. /\ UNCHANGED calls
        /\ \/ UNCHANGED step
           \/ \E where \in {"idle", "acquiring", "asking"} :
                  step' = [step EXCEPT ![p] = where]
    BY <1>3
       DEF Passes, Request, AcquireLifecycle, GiveUp, ReleaseLifecycle, Goto,
           Within, ReadAuthorized, StartVerification, mcpVars
  <2> QED
    BY <1>a, <2>1 DEF Awaited, GateConserved
<1> QED
  BY <1>1, <1>2, <1>3, StepKinds

(* What a callback sends changes its own call's result only.               *)
LEMMA SendEffect ==
    ASSUME GateConserved, NEW p \in Callers, NEW r, Unanswered(p), Send(p, r)
    PROVE  /\ ~Unanswered(p)'
           /\ \A q \in Callers \ {p} : /\ callback'[q] = callback[q]
                                       /\ result'[q] = result[q]
           /\ callback'[p] # None
           /\ result'[p] = IF Awaited(p) THEN r ELSE None
           /\ UNCHANGED <<vars, token, step, gate>>
<1>1. callback[p] \in Goroutines
  BY DEF Unanswered, GateConserved
<1>2. /\ [callback[p] EXCEPT !.answered = TRUE] \in Goroutines
      /\ [callback[p] EXCEPT !.answered = TRUE].answered
  BY <1>1 DEF Goroutines
<1>3. callback'[p] = [callback[p] EXCEPT !.answered = TRUE]
  BY DEF Send, GateConserved
<1> QED
  BY <1>2, <1>3, ServerAssumption DEF Send, Unanswered, GateConserved

(* What a call waits for stays its own.                                    *)
LEMMA WaitsForOwnNext == MInv /\ [MCPNext]_allVars => WaitsForOwn'
<1> SUFFICES ASSUME MInv, [MCPNext]_allVars
             PROVE  WaitsForOwn'
  OBVIOUS
<1>a. GateConserved /\ WaitsForOwn
  BY DEF MInv
<1>1. CASE ~ \E p \in Callers :
                 Asks(p) \/ ObserveRuntime(p) \/ CallbackStep(p)
  BY <1>a, <1>1, CallsFrame DEF WaitsForOwn, Unanswered, calls
<1>2. ASSUME NEW p \in Callers, ObserveRuntime(p)
      PROVE  WaitsForOwn'
  <2>1. \A q \in Callers : Awaited(q)' =>
            /\ Awaited(q) /\ step'[q] = step[q]
            /\ callback'[q] = callback[q] /\ result'[q] = result[q]
    BY <1>a, <1>2 DEF ObserveRuntime, Goto, Awaited, GateConserved
  <2> QED
    BY <1>a, <2>1 DEF WaitsForOwn, Unanswered
<1>3. ASSUME NEW p \in Callers, Asks(p)
      PROVE  WaitsForOwn'
  <2>1. PICK c \in Goroutines, where \in Steps :
            /\ StartGoroutine(p, c) /\ Goto(p, where)
            /\ ~c.answered
            /\ \/ where = "observing" /\ c.kind = "observe"
               \/ where = "executing" /\ c.kind = "execute"
               \/ where = "checking"  /\ c.kind = "verify"
    BY <1>3, AsksFor
  <2>2. /\ step'[p] = where /\ callback'[p] = c /\ result'[p] = None
        /\ \A q \in Callers \ {p} :
              /\ step'[q] = step[q] /\ callback'[q] = callback[q]
              /\ result'[q] = result[q]
    BY <1>a, <2>1 DEF StartGoroutine, Goto, GateConserved
  <2>3. c # None
    BY ServerAssumption
  <2> QED
    BY <1>a, <2>1, <2>2, <2>3 DEF WaitsForOwn, Unanswered, Awaited
<1>4. ASSUME NEW p \in Callers, CallbackStep(p)
      PROVE  WaitsForOwn'
  <2>1. CASE ReleaseProvider(p)
    <3>1. /\ ~Unanswered(p) /\ ~Unanswered(p)'
          /\ \A q \in Callers \ {p} : callback'[q] = callback[q]
          /\ UNCHANGED <<step, result>>
      BY <1>a, <2>1 DEF ReleaseProvider, Unanswered, GateConserved
    <3>2. \A q \in Callers : /\ Unanswered(q)' <=> Unanswered(q)
                             /\ Unanswered(q)' => callback'[q] = callback[q]
      BY <3>1 DEF Unanswered
    <3> QED
      BY <1>a, <3>1, <3>2 DEF WaitsForOwn, Awaited
  <2>2. ASSUME NEW r \in Answers, Unanswered(p), Send(p, r)
        PROVE  WaitsForOwn'
    <3>1. r # None
      BY ServerAssumption
    <3> QED
      BY <1>a, <2>2, <3>1, SendEffect DEF WaitsForOwn, Awaited, Unanswered
  <2> QED
    BY <1>a, <1>4, <2>1, <2>2, CallbackKinds, ReadingTyped, OtherAnswersTyped
       DEF Running, Unanswered, MInv, IInv, TypeInv
<1> QED
  BY <1>1, <1>2, <1>3, <1>4

(* Evidence is only received from a callback that observes or verifies.    *)
LEMMA EvidenceReceivedNext == MInv /\ [MCPNext]_allVars => EvidenceReceived'
<1> SUFFICES ASSUME MInv, [MCPNext]_allVars
             PROVE  EvidenceReceived'
  OBVIOUS
<1>a. GateConserved /\ WaitsForOwn /\ EvidenceReceived
  BY DEF MInv
<1> USE DEF Evidencing
<1>1. ASSUME NEW q \in Callers, step'[q] = step[q],
             result'[q] = result[q], Unanswered(q)' => Unanswered(q)
      PROVE  /\ step'[q] \in {"observed", "recovered"} =>
                   result'[q] # None /\ result'[q].ok /\ ~Unanswered(q)'
             /\ step'[q] \in Evidencing /\ result'[q] # None
                   /\ result'[q].ok =>
                   /\ result'[q].evidence # None
                   /\ Valid(result'[q].evidence)
  BY <1>a, <1>1 DEF EvidenceReceived
<1>2. CASE ~ \E p \in Callers :
                 Asks(p) \/ ObserveRuntime(p) \/ CallbackStep(p)
  <2> SUFFICES ASSUME NEW q \in Callers
               PROVE  /\ step'[q] \in {"observed", "recovered"} =>
                            /\ result'[q] # None /\ result'[q].ok
                            /\ ~Unanswered(q)'
                      /\ step'[q] \in Evidencing /\ result'[q] # None
                            /\ result'[q].ok =>
                            /\ result'[q].evidence # None
                            /\ Valid(result'[q].evidence)
    BY DEF EvidenceReceived, Valid, SealOf
  <2>1. result'[q] = result[q] /\ (Unanswered(q)' <=> Unanswered(q))
    BY <1>2, CallsFrame DEF calls, Unanswered
  <2>2. CASE ObservationReceived(q)
    <3>1. Awaited(q) /\ result[q] # None
      BY <2>2 DEF ObservationReceived, Awaited
    <3>2. ~Unanswered(q)
      BY <1>a, <3>1 DEF WaitsForOwn
    <3> QED
      BY <1>a, <2>1, <2>2, <3>1, <3>2
         DEF ObservationReceived, Goto, Fail, EvidenceReceived, GateConserved
  <2>3. CASE RecoverRuntime(q)
    BY <1>a, <2>1, <2>3
       DEF RecoverRuntime, Goto, Fail, EvidenceReceived, GateConserved
  <2>4. CASE ~ObservationReceived(q) /\ ~RecoverRuntime(q)
    <3>1. \/ step'[q] = step[q]
          \/ step'[q] \notin Evidencing
      <4>1. ASSUME NEW p \in Callers, Moves(p), p # q
            PROVE  step'[q] = step[q]
        BY <1>a, <4>1, MovesInside DEF Goto, GateConserved
      <4>2. ASSUME Moves(q)
            PROVE  step'[q] \notin Evidencing
        <5>1. \/ Cancelled(q) \/ ObservationTimesOut(q)
              \/ \E desired \in States, lifetime \in Lifetimes :
                     Authorize(q, desired, lifetime)
              \/ NotAuthorized(q) \/ StartExecution(q)
              \/ ExecutionReceived(q) \/ ExecutionTimesOut(q)
              \/ VerificationReceived(q) \/ VerificationTimesOut(q)
              \/ VerificationEnds(q) \/ CommitTransition(q)
          BY <2>4, <4>2 DEF Moves
        <5>2. \E where \in Steps \ Evidencing :
                  step' = [step EXCEPT ![q] = where]
          BY <5>1
             DEF Cancelled, ObservationTimesOut, Authorize, NotAuthorized,
                 StartExecution, ExecutionReceived, ExecutionTimesOut,
                 VerificationReceived, VerificationTimesOut,
                 VerificationEnds, CommitTransition, Goto, Fail, Steps
        <5> QED
          BY <1>a, <5>2 DEF GateConserved
      <4>3. ASSUME NEW p \in Callers, Passes(p) \/ Within(p)
            PROVE  step'[q] = step[q] \/ step'[q] \notin Evidencing
        BY <1>a, <4>3
           DEF Passes, Request, AcquireLifecycle, GiveUp, ReleaseLifecycle,
               Goto, Within, ReadAuthorized, StartVerification, mcpVars,
               GateConserved
      <4> QED
        BY <1>2, <4>1, <4>2, <4>3, StepKinds
           DEF allVars, mcpVars, TimePasses, OtherWriter
    <3> QED
      BY <1>1, <2>1, <3>1
  <2> QED
    BY <2>2, <2>3, <2>4
<1>3. ASSUME NEW p \in Callers, ObserveRuntime(p)
      PROVE  EvidenceReceived'
  <2>1. /\ step'[p] \notin Evidencing
        /\ \A q \in Callers \ {p} : /\ step'[q] = step[q]
                                    /\ result'[q] = result[q]
        /\ UNCHANGED callback
    BY <1>a, <1>3 DEF ObserveRuntime, Goto, GateConserved
  <2>2. \A q \in Callers : Unanswered(q)' <=> Unanswered(q)
    BY <2>1 DEF Unanswered
  <2> QED
    BY <1>1, <2>1, <2>2 DEF EvidenceReceived, Valid, SealOf
<1>4. ASSUME NEW p \in Callers, Asks(p)
      PROVE  EvidenceReceived'
  <2>1. PICK c \in Goroutines, where \in Steps :
            /\ StartGoroutine(p, c) /\ Goto(p, where)
            /\ where \in {"observing", "executing", "checking"}
    BY <1>4, AsksFor
  <2>2. /\ step'[p] = where /\ result'[p] = None
        /\ \A q \in Callers \ {p} :
              /\ step'[q] = step[q] /\ callback'[q] = callback[q]
              /\ result'[q] = result[q]
    BY <1>a, <2>1 DEF StartGoroutine, Goto, GateConserved
  <2>3. \A q \in Callers \ {p} : Unanswered(q)' <=> Unanswered(q)
    BY <2>2 DEF Unanswered
  <2> QED
    BY <1>1, <2>1, <2>2, <2>3 DEF EvidenceReceived, Valid, SealOf
<1>5. ASSUME NEW p \in Callers, CallbackStep(p)
      PROVE  EvidenceReceived'
  <2>1. CASE ReleaseProvider(p)
    <3>1. /\ \A q \in Callers : Unanswered(q)' => Unanswered(q)
          /\ UNCHANGED <<step, result>>
      BY <1>a, <2>1 DEF ReleaseProvider, Unanswered, GateConserved
    <3> QED
      BY <1>1, <3>1 DEF EvidenceReceived, Valid, SealOf
  <2>2. ASSUME NEW r \in Answers, Unanswered(p), Send(p, r),
               \/ ~r.ok
               \/ callback[p].kind = "execute"
               \/ r.evidence # None /\ Valid(r.evidence)
        PROVE  EvidenceReceived'
    <3>1. /\ ~Unanswered(p)' /\ UNCHANGED step
          /\ result'[p] = IF Awaited(p) THEN r ELSE None
          /\ \A q \in Callers \ {p} : /\ result'[q] = result[q]
                                      /\ callback'[q] = callback[q]
      BY <1>a, <2>2, SendEffect
    <3>2. step[p] \notin {"observed", "recovered"}
      BY <1>a, <2>2 DEF EvidenceReceived
    <3>3. step[p] \in Evidencing /\ result'[p] # None /\ result'[p].ok =>
              result'[p].evidence # None /\ Valid(result'[p].evidence)
      BY <1>a, <2>2, <3>1 DEF WaitsForOwn, Awaited, Valid, SealOf
    <3>4. \A q \in Callers \ {p} : Unanswered(q)' <=> Unanswered(q)
      BY <3>1 DEF Unanswered
    <3> QED
      BY <1>1, <3>1, <3>2, <3>3, <3>4 DEF EvidenceReceived, Valid, SealOf
  <2> QED
    BY <1>a, <1>5, <2>1, <2>2, CallbackKinds, ReadingTyped, OtherAnswersTyped
       DEF Running, Unanswered, MInv, IInv, TypeInv
<1> QED
  BY <1>2, <1>3, <1>4, <1>5

(* An Execute callback keeps its authority until it answers.               *)
LEMMA EffectIsAuthorizedNext ==
    MInv /\ [MCPNext]_allVars => EffectIsAuthorized'
<1> SUFFICES ASSUME MInv, [MCPNext]_allVars,
                    NEW q \in Callers, Running(q, "execute")'
             PROVE  /\ \A r \in Callers :
                          \/ step'[r] \in {"idle", "acquiring", "asking",
                                           "returning"}
                          \/ r = q /\ step'[r] = "executing"
                    /\ phase' \in {"STARTED", "RECOVERY"}
                    /\ authority' # None /\ callback'[q].id = authority'.id
                    /\ callback'[q].before = observation'
                    /\ callback'[q].after = After(transition)'
  BY DEF EffectIsAuthorized
<1>a. /\ GateConserved /\ TypeOK /\ OneInside /\ InMethod /\ WaitsForOwn
      /\ EvidenceHeld /\ ExecutorHolds /\ EffectIsAuthorized
  BY DEF MInv, IInv, TypeInv, CallersHold
<1> DEFINE Goal == /\ \A r \in Callers :
                         \/ step'[r] \in {"idle", "acquiring", "asking",
                                          "returning"}
                         \/ r = q /\ step'[r] = "executing"
                   /\ phase' \in {"STARTED", "RECOVERY"}
                   /\ authority' # None /\ callback'[q].id = authority'.id
                   /\ callback'[q].before = observation'
                   /\ callback'[q].after = After(transition)'
<1>1. CASE AskToExecute(q)
  <2>1. Asks(q)
    BY <1>1 DEF Asks
  <2>2. PICK c \in Goroutines, where \in Steps :
            /\ StartGoroutine(q, c) /\ Goto(q, where)
            /\ \/ where # "executing" /\ c.kind # "execute"
               \/ /\ where = "executing" /\ c.id = authority.id
                  /\ c.before = observation
                  /\ c.after = After(transition)
    BY <2>1, AsksFor
  <2>3. callback'[q] = c /\ step' = [step EXCEPT ![q] = "executing"]
    BY <1>a, <1>1, <2>2 DEF StartGoroutine, AskToExecute, Goto, GateConserved
  <2>4. where = "executing"
    BY <2>2, <2>3 DEF Running
  <2>5. step[q] = "admitting" /\ Executing(q) /\ UNCHANGED vars
    BY <1>1 DEF AskToExecute, Executing
  <2>6. phase = "STARTED" /\ authority # None
    BY <1>a, <2>5 DEF ExecutorHolds, EvidenceHeld, Attempted
  <2>7. \A r \in Callers \ {q} : step'[r] \in {"idle", "acquiring"}
    BY <1>a, <2>3, <2>5 DEF OneInside, Inside, GateConserved
  <2>8. UNCHANGED <<phase, authority, observation, transition>>
    BY <2>5 DEF vars, lifecycle, request
  <2> QED
    BY <1>a, <2>2, <2>3, <2>4, <2>6, <2>7, <2>8 DEF After, GateConserved
<1>2. CASE ~AskToExecute(q)
  <2>1. Running(q, "execute") /\ callback'[q] = callback[q]
    <3>1. ASSUME NEW p \in Callers, Asks(p)
          PROVE  FALSE
      <4>1. PICK c \in Goroutines, where \in Steps :
                /\ StartGoroutine(p, c)
                /\ c.kind = "execute" => AskToExecute(p)
        BY <3>1, AsksFor
      <4>2. \A r \in Callers : callback[r] = None
        BY <3>1, AsksFor
      <4>3. callback'[p] = c /\ \A r \in Callers \ {p} : callback'[r] = None
        BY <1>a, <4>1, <4>2 DEF StartGoroutine, GateConserved
      <4> QED
        BY <1>2, <4>1, <4>3 DEF Running
    <3>2. ASSUME NEW p \in Callers, CallbackStep(p)
          PROVE  Running(q, "execute") /\ callback'[q] = callback[q]
      <4>1. CASE ReleaseProvider(p)
        BY <1>a, <4>1 DEF ReleaseProvider, Running, GateConserved
      <4>2. ASSUME NEW r, Unanswered(p), Send(p, r)
            PROVE  Running(q, "execute") /\ callback'[q] = callback[q]
        BY <1>a, <4>2, SendEffect DEF Running, Unanswered
      <4> QED
        BY <3>2, <4>1, <4>2, CallbackKinds DEF Running, Unanswered
    <3>3. ASSUME NEW p \in Callers, ObserveRuntime(p)
          PROVE  UNCHANGED callback
      BY <3>3 DEF ObserveRuntime
    <3> QED
      BY <3>1, <3>2, <3>3, CallsFrame DEF calls, Running
  <2>2. /\ \A r \in Callers :
              \/ step[r] \in {"idle", "acquiring", "asking", "returning"}
              \/ r = q /\ step[r] = "executing"
        /\ phase \in {"STARTED", "RECOVERY"}
        /\ authority # None /\ callback[q].id = authority.id
        /\ callback[q].before = observation
        /\ callback[q].after = After(transition)
    BY <1>a, <2>1 DEF EffectIsAuthorized
  <2>3. ASSUME UNCHANGED <<phase, authority, observation, transition>>,
               \A r \in Callers :
                  \/ step'[r] = step[r]
                  \/ step'[r] \in {"idle", "acquiring", "asking", "returning"}
        PROVE  Goal
    BY <2>1, <2>2, <2>3 DEF After
  <2>4. CASE UNCHANGED allVars \/ TimePasses \/ OtherWriter
    BY <2>3, <2>4 DEF allVars, vars, lifecycle, request, mcpVars,
                      TimePasses, Tick, OtherWriter
  <2>5. ASSUME NEW p \in Callers, Passes(p)
        PROVE  Goal
    <3>1. /\ UNCHANGED <<phase, authority, observation, transition>>
          /\ \E where \in {"idle", "acquiring", "asking"} :
                step' = [step EXCEPT ![p] = where]
      BY <2>5
         DEF Passes, Request, AcquireLifecycle, GiveUp, ReleaseLifecycle,
             Goto, vars, lifecycle, request
    <3> QED
      BY <1>a, <2>3, <3>1 DEF GateConserved
  <2>6. ASSUME NEW p \in Callers, Moves(p)
        PROVE  Goal
    <3>1. CASE step[p] = "executing"
      <4>1. p = q /\ Awaited(q)
        BY <2>2, <3>1 DEF Awaited
      <4>2. result[q] = None
        BY <1>a, <2>1, <4>1 DEF WaitsForOwn, Running, Unanswered
      <4>3. ExecutionTimesOut(q)
        BY <1>a, <2>6, <3>1, <4>1, <4>2
           DEF Moves, Cancelled, ObservationReceived, ObservationTimesOut,
               RecoverRuntime, Authorize, NotAuthorized, StartExecution,
               ExecutionReceived, VerificationReceived,
               VerificationTimesOut, VerificationEnds, VerifyAccept,
               VerifyReject, CommitTransition, InMethod
      <4>4. /\ phase' \in {phase, "RECOVERY"}
            /\ UNCHANGED <<authority, observation, transition>>
            /\ step' = [step EXCEPT ![q] = "returning"]
        BY <4>3 DEF ExecutionTimesOut, StartComplete, Fail, Goto, request
      <4> QED
        BY <1>a, <2>1, <2>2, <4>4 DEF After, GateConserved
    <3>2. CASE step[p] # "executing"
      <4>1. step[p] \in {"asking", "returning"}
        BY <2>2, <2>6, <3>2, MovesInside DEF Inside
      <4>2. UNCHANGED vars /\ Fail(p)
        BY <1>a, <2>6, <4>1
           DEF Moves, Cancelled, ObservationReceived, ObservationTimesOut,
               RecoverRuntime, Authorize, NotAuthorized, StartExecution,
               ExecutionReceived, ExecutionTimesOut, VerificationReceived,
               VerificationTimesOut, VerificationEnds, VerifyAccept,
               VerifyReject, CommitTransition, InMethod
      <4> QED
        BY <1>a, <2>3, <4>2
           DEF Fail, Goto, vars, lifecycle, request, GateConserved
    <3> QED
      BY <3>1, <3>2
  <2>7. ASSUME NEW p \in Callers, Within(p)
        PROVE  Goal
    <3>1. step[p] \notin {"idle", "acquiring", "asking", "returning"}
      BY <1>a, <2>7
         DEF Within, ReadAuthorized, StartSnapshot, StartVerification,
             InMethod, Executing
    <3>2. p = q /\ step[p] = "executing"
      BY <2>2, <3>1
    <3> QED
      BY <1>a, <2>7, <3>2
         DEF Within, ReadAuthorized, StartSnapshot, StartVerification,
             InMethod
  <2>8. ASSUME NEW p \in Callers, ObserveRuntime(p)
        PROVE  FALSE
    BY <2>2, <2>8 DEF ObserveRuntime
  <2>9. ASSUME NEW p \in Callers, Asks(p)
        PROVE  FALSE
    BY <2>1, <2>9, AsksFor DEF Running
  <2>10. ASSUME NEW p \in Callers, CallbackStep(p)
         PROVE  Goal
    <3>1. UNCHANGED vars /\ UNCHANGED step
      BY <2>10, CallbackKinds DEF ReleaseProvider, Send
    <3> QED
      BY <2>3, <3>1 DEF vars, lifecycle, request
  <2> QED
    BY <2>4, <2>5, <2>6, <2>7, <2>8, <2>9, <2>10, StepKinds
<1> QED
  BY <1>1, <1>2

(* While a call has an observation nothing is written by an Execute.       *)
LEMMA ReadingShowsWritesNext ==
    MInv /\ [MCPNext]_allVars => ReadingShowsWrites'
<1> SUFFICES ASSUME MInv, [MCPNext]_allVars
             PROVE  ReadingShowsWrites'
  OBVIOUS
<1>a. /\ GateConserved /\ TypeOK /\ WaitsForOwn /\ EvidenceReceived
      /\ EffectIsAuthorized /\ ReadingShowsWrites
  BY DEF MInv, IInv, TypeInv
<1>b. /\ resource.version \in Nat
      /\ \A w \in writes : w.version \in Nat
  BY <1>a, ServerAssumption DEF GateConserved, Resources, Writes
<1> DEFINE Read(q) == /\ step[q] \in {"observing", "observed", "recovered"}
                      /\ result[q] # None /\ result[q].ok
<1>1. ASSUME UNCHANGED provider,
             \A q \in Callers : Read(q)' => Read(q) /\ result'[q] = result[q]
      PROVE  ReadingShowsWrites'
  BY <1>a, <1>1 DEF ReadingShowsWrites, provider
<1>2. CASE OtherWriter
  <2>1. /\ resource'.version = resource.version + 1
        /\ UNCHANGED <<step, result, writes>>
    BY <1>2 DEF OtherWriter, Provider!Set, calls
  <2> QED
    BY <1>a, <1>b, <2>1 DEF ReadingShowsWrites
<1>3. ASSUME NEW p \in Callers, ExecutorWrites(p)
      PROVE  ReadingShowsWrites'
  <2>1. /\ resource'.version = resource.version + 1
        /\ writes' = writes \cup
              {[id |-> callback[p].id, version |-> resource.version]}
        /\ Running(p, "execute") /\ UNCHANGED step
    BY <1>3 DEF ExecutorWrites, Provider!Transitioned, Send
  <2>2. \A q \in Callers :
            step'[q] \notin {"observing", "observed", "recovered"}
    BY <1>a, <2>1 DEF EffectIsAuthorized
  <2> QED
    BY <1>a, <1>b, <2>1, <2>2 DEF ReadingShowsWrites
<1>4. ASSUME NEW p \in Callers, ReleaseProvider(p)
      PROVE  ReadingShowsWrites'
  BY <1>1, <1>4 DEF ReleaseProvider
<1>5. ASSUME NEW p \in Callers, NEW r \in Answers, Unanswered(p), Send(p, r),
             UNCHANGED provider,
             r.ok => r.evidence.version = resource.version
      PROVE  ReadingShowsWrites'
  <2>1. /\ \A q \in Callers \ {p} : result'[q] = result[q]
        /\ result'[p] = r \/ result'[p] = None
        /\ UNCHANGED <<step, resource, writes>>
    BY <1>a, <1>5, SendEffect DEF provider
  <2> QED
    BY <1>a, <1>5, <2>1 DEF ReadingShowsWrites
<1>6. ASSUME NEW p \in Callers, CallbackStep(p)
      PROVE  ReadingShowsWrites'
  BY <1>a, <1>3, <1>4, <1>5, <1>6, CallbackKinds, ReadingTyped,
     OtherAnswersTyped
     DEF Running, Unanswered
<1>7. ASSUME NEW p \in Callers, Asks(p)
      PROVE  ReadingShowsWrites'
  <2>1. PICK c \in Goroutines, where \in Steps :
            StartGoroutine(p, c) /\ Goto(p, where)
    BY <1>7, AsksFor
  <2>2. /\ result'[p] = None /\ UNCHANGED provider
        /\ \A q \in Callers \ {p} : /\ step'[q] = step[q]
                                    /\ result'[q] = result[q]
    BY <1>a, <2>1 DEF StartGoroutine, Goto, GateConserved
  <2> QED
    BY <1>1, <2>2
<1>8. ASSUME NEW p \in Callers, ObserveRuntime(p)
      PROVE  ReadingShowsWrites'
  <2>1. /\ result'[p] = None /\ UNCHANGED provider
        /\ \A q \in Callers \ {p} : /\ step'[q] = step[q]
                                    /\ result'[q] = result[q]
    BY <1>a, <1>8 DEF ObserveRuntime, Goto, GateConserved
  <2> QED
    BY <1>1, <2>1
<1>9. CASE UNCHANGED allVars \/ TimePasses
  BY <1>1, <1>9 DEF allVars, mcpVars, calls, TimePasses
<1>10. ASSUME NEW p \in Callers, Passes(p) \/ Within(p)
       PROVE  ReadingShowsWrites'
  <2>1. /\ UNCHANGED <<result, provider>>
        /\ \/ UNCHANGED step
           \/ \E where \in {"idle", "acquiring", "asking"} :
                  step' = [step EXCEPT ![p] = where]
    BY <1>10
       DEF Passes, Request, AcquireLifecycle, GiveUp, ReleaseLifecycle, Goto,
           Within, ReadAuthorized, StartVerification, mcpVars, calls
  <2>2. \A q \in Callers : Read(q)' => Read(q) /\ result'[q] = result[q]
    BY <1>a, <2>1 DEF GateConserved
  <2> QED
    BY <1>1, <2>1, <2>2
<1>11. ASSUME NEW p \in Callers, Moves(p)
       PROVE  ReadingShowsWrites'
  <2>1. UNCHANGED <<result, provider>>
    BY <1>11, MovesInside DEF calls
  <2>2. /\ \A q \in Callers \ {p} : step'[q] = step[q]
        /\ \/ step'[p] \notin {"observing", "observed", "recovered"}
           \/ step[p] \in {"observing", "observed"}
    <3>1. CASE ObservationReceived(p) \/ RecoverRuntime(p)
      BY <1>a, <3>1
         DEF ObservationReceived, RecoverRuntime, Goto, Fail, GateConserved
    <3>2. CASE ~(ObservationReceived(p) \/ RecoverRuntime(p))
      <4>1. \E where \in Steps \ {"observing", "observed", "recovered"} :
                step' = [step EXCEPT ![p] = where]
        BY <1>11, <3>2
           DEF Moves, Cancelled, ObservationTimesOut, Authorize,
               NotAuthorized, StartExecution, ExecutionReceived,
               ExecutionTimesOut, VerificationReceived,
               VerificationTimesOut, VerificationEnds, CommitTransition,
               Goto, Fail, Steps
      <4> QED
        BY <1>a, <4>1 DEF GateConserved
    <3> QED
      BY <3>1, <3>2
  <2>3. \A q \in Callers : Read(q)' => Read(q) /\ result'[q] = result[q]
    BY <2>1, <2>2
  <2> QED
    BY <1>1, <2>1, <2>3
<1> QED
  BY <1>2, <1>6, <1>7, <1>8, <1>9, <1>10, <1>11, StepKinds

-----------------------------------------------------------------------------
(* The invariant *)

(* It holds at first.                                                      *)
LEMMA MInvInit == MCPInit => MInv
<1> SUFFICES ASSUME MCPInit PROVE MInv
  OBVIOUS
<1>1. IInv
  BY InvInit DEF MCPInit
<1>2. resource \in Resources
  BY ServerAssumption DEF MCPInit, Provider!NewResource, Resources
<1>3. GateConserved
  BY <1>2 DEF MCPInit, GateConserved, Steps
<1>4. OneInside /\ InMethod /\ StartedIsHeld /\ WaitsForOwn
  BY DEF MCPInit, Init, OneInside, Inside, InMethod, Executing, StartedIsHeld,
         WaitsForOwn, Awaited
<1>5. EvidenceReceived /\ EffectIsAuthorized /\ ReadingShowsWrites
  BY DEF MCPInit, EvidenceReceived, Evidencing, EffectIsAuthorized, Running,
         ReadingShowsWrites
<1> QED
  BY <1>1, <1>3, <1>4, <1>5 DEF MInv

(* No step leaves the invariant.                                           *)
LEMMA MInvNext == MInv /\ [MCPNext]_allVars => MInv'
<1> SUFFICES ASSUME MInv, [MCPNext]_allVars
             PROVE  MInv'
  OBVIOUS
<1>1. IInv'
  BY KernelStep, InvNext DEF MInv
<1> QED
  BY <1>1, GateConservedNext, OneInsideNext, InMethodNext, StartedIsHeldNext,
     WaitsForOwnNext, EvidenceReceivedNext, EffectIsAuthorizedNext,
     ReadingShowsWritesNext
     DEF MInv

(* The invariant always holds.                                             *)
LEMMA MInvariance == MCPSpec => []MInv
BY MInvInit, MInvNext, PTL DEF MCPSpec

-----------------------------------------------------------------------------
(* Theorems *)

(* Whatever calls, deadlines, callbacks that outlive them and other writers*)
(* do, the Runtime goes through a behaviour of Kernel: everything proved of*)
(* Kernel holds of the Runtime the server drives.                          *)
THEOREM ServerImplementsKernel == MCPSpec => Spec
<1>1. MCPInit => Init
  BY DEF MCPInit
<1> QED
  BY <1>1, KernelStep, MInvariance, PTL DEF MCPSpec, Spec

(* In particular its lifecycle, its root and its executions behave as      *)
(* ControlBoundary promises, whatever the tool's callers and provider do.  *)
THEOREM ServerKeepsBoundary == MCPSpec => BoundarySpec
BY ServerImplementsKernel, ImplementsBoundary, PTL

(* The provider gate's token is never lost and never there twice, so one   *)
(* callback at most runs, although callers stop waiting for them.          *)
THEOREM GateIsConserved == MCPSpec => []GateConserved
<1>1. MInv => GateConserved
  BY DEF MInv
<1> QED
  BY <1>1, MInvariance, PTL

(* Whenever the lifecycle gate is free the Runtime is out of STARTED, for  *)
(* every way a call can end: the next call finds it in RECOVERY, or done.  *)
THEOREM NeverStranded == MCPSpec => []NotStranded
<1>1. MInv => NotStranded
  <2> SUFFICES ASSUME MInv, phase = "STARTED"
               PROVE  ~token
    BY DEF NotStranded
  <2>1. PICK p \in Callers : step[p] \in Attempting
    BY DEF MInv, StartedIsHeld
  <2>2. Inside(p)
    BY <2>1 DEF Attempting, Inside
  <2> QED
    BY <2>2 DEF MInv, OneInside
<1> QED
  BY <1>1, MInvariance, PTL

(* An Execute callback that nobody waits for any more still writes under   *)
(* the authority the Runtime holds when it writes: no later call has got a *)
(* new one while the callback has the provider gate.                       *)
THEOREM ServerWritesUnderAuthority == MCPSpec => OnlyCurrentAuthorityWrites
<1>1. ASSUME MInv, MCPNext, NEW w \in writes' \ writes
      PROVE  authority # None /\ authority.id = w.id
  <2>1. PICK p \in Callers : ExecutorWrites(p)
    <3>1. CASE TimePasses \/ OtherWriter
      BY <1>1, <3>1 DEF TimePasses, OtherWriter, mcpVars, provider
    <3>2. ASSUME NEW p \in Callers,
                 Moves(p) \/ Passes(p) \/ Within(p) \/ ObserveRuntime(p)
          PROVE  UNCHANGED writes
      BY <1>1, <3>2, MovesInside
         DEF Passes, Request, AcquireLifecycle, GiveUp, ReleaseLifecycle,
             Within, ReadAuthorized, StartVerification, ObserveRuntime,
             mcpVars, provider
    <3>3. ASSUME NEW p \in Callers, Asks(p)
          PROVE  UNCHANGED writes
      BY <1>1, <3>3, AsksFor DEF StartGoroutine, provider
    <3>4. ASSUME NEW p \in Callers, CallbackStep(p)
          PROVE  ExecutorWrites(p) \/ UNCHANGED writes
      BY <3>4, CallbackKinds DEF ReleaseProvider, provider
    <3>5. ~UNCHANGED allVars
      BY <1>1 DEF allVars, mcpVars, provider
    <3> QED
      BY <1>1, <3>1, <3>2, <3>3, <3>4, <3>5, StepKinds
  <2>2. w.id = callback[p].id
    BY <1>1, <2>1 DEF ExecutorWrites
  <2> QED
    BY <1>1, <2>1, <2>2 DEF ExecutorWrites, MInv, EffectIsAuthorized
<1>2. MInv /\ [MCPNext]_allVars =>
          [\A w \in writes' \ writes :
              authority # None /\ authority.id = w.id]_allVars
  BY <1>1
<1> QED
  BY <1>2, MInvariance, PTL DEF MCPSpec, OnlyCurrentAuthorityWrites

(* A recovery is based on an observation that shows everything the         *)
(* abandoned execution wrote, however late: the observer waited for the    *)
(* provider gate, which the execution's callback had.                      *)
THEOREM RecoverySeesWrites == MCPSpec => RecoverySeesAbandonedWrite
<1>1. ASSUME MInv, MCPNext, phase = "RECOVERY", phase' = "OBSERVED",
             NEW w \in writes
      PROVE  observation'.version > w.version
  <2>1. PICK p \in Callers : RecoverRuntime(p) \/ ObserveRuntime(p)
    <3>1. ASSUME NEW p \in Callers, Moves(p), ~RecoverRuntime(p)
          PROVE  FALSE
      BY <1>1, <3>1
         DEF Moves, Cancelled, ObservationReceived, ObservationTimesOut,
             Authorize, Normalize, Reconcile, Govern, Reserve, NotAuthorized,
             StartExecution, Start, ExecutionReceived, ExecutionTimesOut,
             StartComplete, VerificationReceived, VerificationTimesOut,
             VerifierReturns, VerifierFails, VerificationEnds, VerifyAccept,
             VerifyReject, CommitTransition, Commit, vars, lifecycle
    <3>2. ASSUME NEW p \in Callers, Passes(p) \/ Within(p)
          PROVE  FALSE
      BY <1>1, <3>2
         DEF Passes, Request, AcquireLifecycle, GiveUp, ReleaseLifecycle,
             Within, ReadAuthorized, StartSnapshot, StartVerification,
             Verify, VerifyWake, vars, lifecycle
    <3>3. ASSUME NEW p \in Callers, Asks(p) \/ CallbackStep(p)
          PROVE  FALSE
      <4>1. UNCHANGED vars
        BY <1>1, <3>3, AsksFor, CallbackKinds DEF ReleaseProvider, Send
      <4> QED
        BY <1>1, <4>1 DEF vars, lifecycle
    <3>4. ~(UNCHANGED allVars \/ TimePasses \/ OtherWriter)
      BY <1>1
         DEF allVars, vars, lifecycle, TimePasses, Tick, OtherWriter
    <3> QED
      BY <1>1, <3>1, <3>2, <3>3, <3>4, StepKinds
  <2>2. /\ step[p] \in {"observed", "recovered"}
        /\ observation' = result[p].evidence
    BY <1>1, <2>1
       DEF RecoverRuntime, ObserveRuntime, Recover, Observe, EnterObserved,
           vars, lifecycle
  <2>3. result[p] # None /\ result[p].ok
    BY <1>1, <2>2 DEF MInv, EvidenceReceived
  <2>4. w.version < result[p].evidence.version
    BY <1>1, <2>2, <2>3 DEF MInv, ReadingShowsWrites
  <2>5. w.version \in Nat /\ result[p].evidence.version \in Nat
    <3>1. result[p].evidence \in Observations
      BY <1>1, <2>2, <2>3, ReceivedIsSubmitted DEF Evidencing
    <3> QED
      BY <1>1, <3>1, ServerAssumption
         DEF MInv, GateConserved, Writes, Observations
  <2> QED
    BY <2>2, <2>4, <2>5
<1>2. MInv /\ [MCPNext]_allVars =>
          [phase = "RECOVERY" /\ phase' = "OBSERVED" =>
              \A w \in writes : w.id = authority.id =>
                  observation'.version > w.version]_allVars
  BY <1>1
<1> QED
  BY <1>2, MInvariance, PTL DEF MCPSpec, RecoverySeesAbandonedWrite

-----------------------------------------------------------------------------
(* A commit rests on one write of its own *)

(* Between its observation and its execution, and before it commits, a call*)
(* is alone: nobody executes or judges, and no Execute callback runs.      *)
LEMMA AloneOutside ==
    ASSUME MInv, NEW p \in Callers, Inside(p),
           step[p] \notin Attempting \cup {"asking", "returning"}
    PROVE  \A q \in Callers :
              /\ step[q] \notin Attempting
              /\ pc[q] = "idle" /\ ~Running(q, "execute")
<1> SUFFICES ASSUME NEW q \in Callers
             PROVE  /\ step[q] \notin Attempting
                    /\ pc[q] = "idle" /\ ~Running(q, "execute")
  OBVIOUS
<1>1. step[q] \notin Attempting
  BY DEF MInv, OneInside, Inside, Attempting
<1>2. pc[q] = "idle"
  BY <1>1 DEF MInv, IInv, TypeInv, TypeOK, PCs, InMethod, Executing, Attempting
<1>3. ~Running(q, "execute")
  BY DEF MInv, EffectIsAuthorized, Inside, Attempting
<1> QED
  BY <1>1, <1>2, <1>3

(* Steps that leave the lifecycle, the methods' callers and the provider   *)
(* alone matter only by what a call asks and receives.                     *)
LEMMA WritesFrame ==
    ASSUME WritesHeld,
           UNCHANGED <<phase, authority, observation, executionDone, closed,
                       spent, accepted, pc, local, writes, resource>>,
           \A q \in Callers :
              /\ step'[q] = "admitting" \/ Running(q, "execute")' =>
                    step[q] = "admitting" \/ Running(q, "execute")
              /\ step'[q] = "executing" /\ result'[q] # None /\ result'[q].ok
                    => OwnWrites = {TheWrite}
              /\ step'[q] = "checking" /\ Unanswered(q)' =>
                    callback'[q].id = authority.id
              /\ step'[q] = "checking" /\ result'[q] # None /\ result'[q].ok
                    => result'[q].evidence.version = observation.version + 1
    PROVE  WritesHeld'
<1>1. OwnWrites' = OwnWrites /\ TheWrite' = TheWrite
  BY DEF OwnWrites, TheWrite
<1>2. WritesAreSpent'
  BY DEF WritesHeld, WritesAreSpent
<1>3. OneOwnWrite'
  BY <1>1 DEF WritesHeld, OneOwnWrite
<1>4. EvidenceShowsIt'
  BY DEF WritesHeld, EvidenceShowsIt
<1> QED
  BY <1>2, <1>3, <1>4 DEF WritesHeld

(* What Start authorizes has not written anything yet.                     *)
LEMMA ReservedHasNotWritten ==
    ASSUME MInv, IDsAge, ~ClockMayStepBack, WritesAreSpent,
           phase = "RESERVED"
    PROVE  /\ authority.id \notin spent
           /\ OwnWrites = {}
           /\ resource.execution # authority.id
<1>1. /\ authority \in Authorities /\ authority.id \in ExecutionIDs
      /\ spent \subseteq ExecutionIDs
  BY DEF MInv, IInv, TypeInv, TypeOK, Optional, EvidenceHeld, Attempted,
         Authorities
<1>2. authority.id \notin spent
  BY <1>1 DEF IDsAge, SpentBy, ExecutionIDs, Times
<1> QED
  BY <1>1, <1>2, ServerAssumption DEF WritesAreSpent, OwnWrites

(* A callback's answer: the step that makes the one write of an authority, *)
(* and the reading that shows it.                                          *)
LEMMA WritesHeldByCallback ==
    ASSUME MInv, WritesHeld, NEW p \in Callers, CallbackStep(p)
    PROVE  WritesHeld'
<1>a. /\ GateConserved /\ TypeOK /\ InMethod /\ WaitsForOwn /\ JudgeHolds
      /\ EffectIsAuthorized
  BY DEF MInv, IInv, TypeInv, CallersHold
<1>b. WritesAreSpent /\ OneOwnWrite /\ EvidenceShowsIt
  BY DEF WritesHeld
<1> DEFINE Lifecycle == <<phase, authority, observation, executionDone, closed,
                          spent, accepted, pc, local>>
<1>c. UNCHANGED vars => UNCHANGED Lifecycle
  BY DEF vars, lifecycle, request, execution, callers, channels, history
<1>1. CASE ReleaseProvider(p)
  <2>1. /\ UNCHANGED Lifecycle /\ UNCHANGED <<step, result, writes, resource>>
        /\ \A q \in Callers :
              /\ Running(q, "execute")' => Running(q, "execute")
              /\ Unanswered(q)' => Unanswered(q) /\ callback'[q] = callback[q]
    BY <1>a, <1>c, <1>1
       DEF ReleaseProvider, provider, Running, Unanswered, GateConserved
  <2> QED
    BY <1>b, <2>1, WritesFrame DEF OneOwnWrite, EvidenceShowsIt
<1>2. ASSUME NEW r \in Answers, Unanswered(p), Send(p, r),
             UNCHANGED provider,
             \/ ~r.ok
             \/ Running(p, "observe")
             \/ VerifierReads(p) /\ r.evidence.version = resource.version
      PROVE  WritesHeld'
  <2>1. /\ UNCHANGED Lifecycle /\ UNCHANGED <<step, writes, resource>>
        /\ ~Unanswered(p)' /\ result'[p] = IF Awaited(p) THEN r ELSE None
        /\ \A q \in Callers \ {p} : /\ callback'[q] = callback[q]
                                    /\ result'[q] = result[q]
    BY <1>a, <1>c, <1>2, SendEffect DEF provider
  <2>2. \A q \in Callers :
           /\ Running(q, "execute")' => Running(q, "execute")
           /\ Unanswered(q)' => Unanswered(q) /\ callback'[q] = callback[q]
    BY <2>1 DEF Running, Unanswered
  <2>3. step[p] # "executing" \/ ~r.ok
    BY <1>a, <1>2 DEF WaitsForOwn, Awaited, Running, VerifierReads
  <2>4. ASSUME step[p] = "checking", r.ok
        PROVE  r.evidence.version = observation.version + 1
    <3>1. VerifierReads(p) /\ r.evidence.version = resource.version
      BY <1>a, <1>2, <2>4 DEF WaitsForOwn, Awaited, Running
    <3>2. resource.execution = authority.id
      BY <1>b, <1>2, <2>4, <3>1
         DEF VerifierReads, Provider!Marked, EvidenceShowsIt
    <3>3. phase = "STARTED"
      BY <1>a, <2>4 DEF InMethod, JudgeHolds, Judging
    <3> QED
      BY <1>b, <3>1, <3>2, <3>3 DEF EvidenceShowsIt
  <2>5. ASSUME NEW q \in Callers, q # p
        PROVE  /\ step'[q] = "executing" /\ result'[q] # None
                     /\ result'[q].ok => OwnWrites = {TheWrite}
               /\ step'[q] = "checking" /\ result'[q] # None
                     /\ result'[q].ok =>
                  result'[q].evidence.version = observation.version + 1
    BY <1>b, <2>1, <2>5 DEF OneOwnWrite, EvidenceShowsIt
  <2>6. /\ step'[p] = "executing" /\ result'[p] # None /\ result'[p].ok =>
              OwnWrites = {TheWrite}
        /\ step'[p] = "checking" /\ result'[p] # None /\ result'[p].ok =>
              result'[p].evidence.version = observation.version + 1
    BY <2>1, <2>3, <2>4
  <2> HIDE DEF Lifecycle
  <2>7. UNCHANGED <<phase, authority, observation, executionDone, closed,
                    spent, accepted, pc, local, writes, resource>>
    BY <2>1 DEF Lifecycle
  <2> QED
    BY <1>b, <2>1, <2>2, <2>5, <2>6, <2>7, WritesFrame
       DEF OneOwnWrite, EvidenceShowsIt
<1>3. CASE ExecutorWrites(p)
  <2>1. Running(p, "execute") /\ Unanswered(p) /\ Send(p, Done)
    BY <1>3 DEF ExecutorWrites, Running, Unanswered
  <2>2. /\ callback[p].id = authority.id /\ callback[p].before = observation
        /\ OwnWrites = {} /\ authority.id \in spent
        /\ \A q \in Callers : step[q] \notin {"admitting", "checking"}
        /\ phase \in {"STARTED", "RECOVERY"}
    BY <1>a, <1>b, <2>1
       DEF EffectIsAuthorized, OneOwnWrite, WritesAreSpent, Attempted
  <2>3. /\ UNCHANGED Lifecycle /\ UNCHANGED step
        /\ ~Unanswered(p)'
        /\ \A q \in Callers \ {p} : callback'[q] = callback[q]
    BY <1>a, <1>c, <2>1, SendEffect
  <2>4. /\ resource.version = observation.version
        /\ writes' = writes \cup {TheWrite}
        /\ resource'.execution = authority.id
        /\ resource'.version = observation.version + 1
    BY <1>3, <2>2
       DEF ExecutorWrites, Provider!Same, Provider!Transitioned, TheWrite
  <2>5. OwnWrites' = {TheWrite} /\ TheWrite' = TheWrite
    BY <2>2, <2>3, <2>4 DEF OwnWrites, TheWrite
  <2>6. \A q \in Callers : ~Running(q, "execute")'
    <3>1. \A q \in Callers \ {p} : callback[q] = None
      BY <1>a, <2>1 DEF Unanswered, GateConserved
    <3> QED
      BY <2>3, <3>1 DEF Running, Unanswered
  <2>7. WritesAreSpent'
    BY <1>b, <2>2, <2>3, <2>4 DEF WritesAreSpent, TheWrite
  <2>8. OneOwnWrite'
    BY <2>2, <2>3, <2>5, <2>6 DEF OneOwnWrite
  <2>9. EvidenceShowsIt'
    BY <1>b, <2>2, <2>3, <2>4 DEF EvidenceShowsIt
  <2> QED
    BY <2>7, <2>8, <2>9 DEF WritesHeld
<1> QED
  <2>1. CASE ObserverReads(p) \/ VerifierReads(p) \/ CallbackFails(p)
    <3>1. Reading \in Answers /\ Reading.evidence.version = resource.version
      BY <1>a, ReadingTyped
    <3>2. ASSUME VerifierReads(p)
          PROVE  Unanswered(p) /\ Send(p, Reading) /\ UNCHANGED provider
      BY <3>2 DEF VerifierReads, Running, Unanswered
    <3>3. ASSUME ObserverReads(p)
          PROVE  /\ Unanswered(p) /\ Send(p, Reading) /\ UNCHANGED provider
                 /\ Running(p, "observe")
      BY <3>3 DEF ObserverReads, Running, Unanswered
    <3>4. ASSUME CallbackFails(p)
          PROVE  Unanswered(p) /\ Send(p, Failed) /\ UNCHANGED provider
      BY <3>4 DEF CallbackFails, Running, Unanswered
    <3> QED
      BY <1>2, <2>1, <3>1, <3>2, <3>3, <3>4, OtherAnswersTyped
  <2> QED
    BY <1>1, <1>3, <2>1 DEF CallbackStep

(* The steps of the call itself that are inside a method of the Runtime.   *)
LEMMA WritesHeldInMethod ==
    ASSUME MInv, WritesHeld, NEW p \in Callers,
           \/ ReadAuthorized(p) \/ StartVerification(p)
           \/ ExecutionReceived(p) \/ ExecutionTimesOut(p)
           \/ VerificationReceived(p) \/ VerificationTimesOut(p)
           \/ VerificationEnds(p)
    PROVE  WritesHeld'
<1>a. /\ GateConserved /\ TypeOK /\ CallerShape /\ InMethod /\ OneInside
      /\ ExecutorHolds /\ JudgeHolds /\ EffectIsAuthorized
  BY DEF MInv, IInv, TypeInv, CallersHold
<1>b. WritesAreSpent /\ OneOwnWrite /\ EvidenceShowsIt
  BY DEF WritesHeld
<1> DEFINE Away(where) == /\ step' = [step EXCEPT ![p] = where]
                          /\ where \notin {"admitting", "executing",
                                           "checking"}
           Kept == /\ UNCHANGED <<authority, observation, spent, calls,
                                  writes, resource>>
                   /\ phase' = phase \/ phase' = "RECOVERY"
                   /\ phase \in Attempted
                   /\ UNCHANGED step \/ \E where \in Steps : Away(where)
<1>1. ASSUME Kept,
             phase' = "STARTED" /\ executionDone' \in closed' =>
                OwnWrites = {TheWrite},
             phase' \in {"VERIFIED", "COMMITTED"} => accepted' = accepted,
             \A q \in Callers : pc'[q] = "accepting" =>
                local'[q].evidence.version = observation.version + 1
      PROVE  WritesHeld'
  <2>1. OwnWrites' = OwnWrites /\ TheWrite' = TheWrite
    BY <1>1 DEF OwnWrites, TheWrite
  <2>2. \A q \in Callers :
            /\ result'[q] = result[q]
            /\ Running(q, "execute")' => Running(q, "execute")
            /\ Unanswered(q)' => Unanswered(q) /\ callback'[q] = callback[q]
            /\ step'[q] \in {"admitting", "executing", "checking"} =>
                  step'[q] = step[q]
    BY <1>a, <1>1 DEF calls, Running, Unanswered, GateConserved
  <2>3. WritesAreSpent'
    BY <1>b, <1>1 DEF WritesAreSpent, Attempted
  <2>4. OneOwnWrite'
    BY <1>b, <1>1, <2>1, <2>2 DEF OneOwnWrite
  <2>5. EvidenceShowsIt'
    BY <1>b, <1>1, <2>2 DEF EvidenceShowsIt
  <2> QED
    BY <2>3, <2>4, <2>5 DEF WritesHeld
<1>2. CASE ReadAuthorized(p)
  <2>1. /\ UNCHANGED <<phase, authority, observation, executionDone, closed,
                       spent, accepted, step, calls, writes, resource>>
        /\ pc' = [pc EXCEPT ![p] = "executing"] /\ Executing(p)
        /\ \A q \in Callers : q # p => local'[q] = local[q]
    BY <1>a, <1>2
       DEF ReadAuthorized, StartSnapshot, Enter, mcpVars, provider,
           lifecycle, request, execution, channels, history, TypeOK,
           Executing
  <2>2. \A q \in Callers : pc'[q] = "accepting" =>
            pc[q] = "accepting" /\ local'[q] = local[q]
    BY <1>a, <2>1 DEF TypeOK
  <2>3. phase = "STARTED"
    BY <1>a, <2>1 DEF ExecutorHolds
  <2> QED
    BY <1>1, <1>b, <2>1, <2>2, <2>3
       DEF OneOwnWrite, EvidenceShowsIt, Attempted
<1>3. CASE ExecutionReceived(p) \/ ExecutionTimesOut(p)
  <2>1. /\ Executing(p) /\ phase = "STARTED"
        /\ executionDone = local[p].done
    BY <1>a, <1>3
       DEF ExecutionReceived, ExecutionTimesOut, StartComplete, Executing,
           ExecutorHolds
  <2>2. /\ UNCHANGED <<authority, observation, executionDone, spent, accepted,
                       calls, writes, resource>>
        /\ \A q \in Callers : pc'[q] = "accepting" =>
               pc[q] = "accepting" /\ local'[q] = local[q]
        /\ \/ /\ phase' = "STARTED"
              /\ step[p] = "executing" /\ result[p] # None /\ result[p].ok
           \/ phase' = "RECOVERY"
        /\ \E where \in {"verifying", "returning"} :
               step' = [step EXCEPT ![p] = where]
    <3>1. /\ UNCHANGED <<authority, observation, executionDone, spent, accepted>>
          /\ pc' = [pc EXCEPT ![p] = "idle"]
          /\ \A q \in Callers : q # p => local'[q] = local[q]
      BY <1>a, <1>3
         DEF ExecutionReceived, ExecutionTimesOut, StartComplete, Leave,
             Enter, request, TypeOK
    <3>2. \A q \in Callers : pc'[q] = "accepting" =>
              pc[q] = "accepting" /\ local'[q] = local[q]
      BY <1>a, <3>1 DEF TypeOK
    <3>3. CASE ExecutionReceived(p)
      BY <2>1, <3>1, <3>2, <3>3
         DEF ExecutionReceived, StartComplete, Fail, Goto, provider, calls
    <3>4. CASE ExecutionTimesOut(p)
      BY <2>1, <3>1, <3>2, <3>4
         DEF ExecutionTimesOut, StartComplete, Fail, Goto, Abandon, provider,
             calls
    <3> QED
      BY <1>3, <3>3, <3>4
  <2>3. phase' = "STARTED" => OwnWrites = {TheWrite}
    BY <1>b, <2>2 DEF OneOwnWrite
  <2>4. Kept
    BY <2>1, <2>2 DEF Attempted, Steps
  <2> HIDE DEF Kept
  <2> QED
    BY <1>1, <1>b, <2>2, <2>3, <2>4 DEF EvidenceShowsIt
<1>4. CASE StartVerification(p)
  <2>1. /\ UNCHANGED <<phase, authority, observation, executionDone, closed,
                       spent, accepted, step, calls, writes, resource>>
        /\ \E where \in {"idle", "waiting", "verifying"} :
               pc' = [pc EXCEPT ![p] = where]
        /\ \A q \in Callers : q # p => local'[q] = local[q]
    BY <1>a, <1>4
       DEF StartVerification, Verify, VerifyWake, Leave, Enter, mcpVars,
           provider, lifecycle, request, execution, channels, history, TypeOK
  <2>2. \A q \in Callers : pc'[q] = "accepting" =>
            pc[q] = "accepting" /\ local'[q] = local[q]
    BY <1>a, <2>1 DEF TypeOK
  <2>3. \A q \in Callers :
            step[q] \notin {"asking", "returning"} =>
               step[q] = "verifying" \/ ~Inside(q)
    BY <1>a, <1>4 DEF StartVerification, OneInside, Inside
  <2> QED
    <3>1. \A q \in Callers :
              /\ step'[q] = "admitting" \/ Running(q, "execute")' =>
                    step[q] = "admitting" \/ Running(q, "execute")
              /\ Unanswered(q)' <=> Unanswered(q)
      BY <2>1 DEF calls, Running, Unanswered
    <3>2. CASE phase \in Attempted
      BY <1>1, <1>b, <2>1, <2>2, <3>2 DEF OneOwnWrite, EvidenceShowsIt
    <3>3. CASE phase \notin Attempted
      <4>1. pc[p] = "idle" \/ pc[p] = "waiting"
        BY <1>4 DEF StartVerification, Verify, VerifyWake
      <4> QED
        BY <1>b, <2>1, <2>2, <3>1, <3>3
           DEF WritesHeld, WritesAreSpent, OneOwnWrite, EvidenceShowsIt,
               OwnWrites, TheWrite, Attempted, calls
    <3> QED
      BY <3>2, <3>3
<1>5. CASE VerificationReceived(p) \/ VerificationTimesOut(p)
  <2>1. /\ step[p] \in {"verifying", "checking"} /\ pc[p] = "verifying"
        /\ step' = [step EXCEPT ![p] = "judging"]
        /\ UNCHANGED <<phase, authority, observation, executionDone, closed,
                       spent, accepted, calls, writes, resource>>
    BY <1>5
       DEF VerificationReceived, VerificationTimesOut, VerifierReturns,
           VerifierFails, Goto, Abandon, provider, lifecycle, request,
           execution, channels, history
  <2>2. phase = "STARTED" /\ local[p] \in Locals
    BY <1>a, <2>1 DEF JudgeHolds, Judging, CallerShape
  <2>3. \A q \in Callers : pc'[q] = "accepting" =>
            local'[q].evidence.version = observation.version + 1
    <3>1. CASE VerifierFails(p)
      BY <1>a, <1>b, <3>1 DEF VerifierFails, Enter, TypeOK, EvidenceShowsIt
    <3>2. ASSUME VerificationReceived(p), result[p].ok
          PROVE  \A q \in Callers : pc'[q] = "accepting" =>
                    local'[q].evidence.version = observation.version + 1
      <4> DEFINE o == result[p].evidence
      <4>1. /\ VerifierReturns(p, o)
            /\ o.version = observation.version + 1
        BY <1>b, <3>2 DEF VerificationReceived, EvidenceShowsIt
      <4> HIDE DEF o
      <4>2. CASE Convincing(o, local[p], clock)
        <5>1. /\ pc' = [pc EXCEPT ![p] = "accepting"]
              /\ local' = [local EXCEPT ![p] =
                             [local[p] EXCEPT !.evidence = o]]
          BY <4>1, <4>2 DEF VerifierReturns, Enter
        <5>2. local'[p].evidence = o
          BY <1>a, <2>2, <5>1 DEF TypeOK, Locals
        <5> QED
          BY <1>a, <1>b, <4>1, <5>1, <5>2 DEF TypeOK, EvidenceShowsIt
      <4>3. CASE ~Convincing(o, local[p], clock)
        BY <1>a, <1>b, <4>1, <4>3
           DEF VerifierReturns, Enter, TypeOK, EvidenceShowsIt
      <4> QED
        BY <4>2, <4>3
    <3> QED
      BY <1>5, <3>1, <3>2 DEF VerificationReceived, VerificationTimesOut
  <2>4. Kept
    BY <2>1, <2>2 DEF Attempted, Steps
  <2> HIDE DEF Kept
  <2> QED
    BY <1>1, <1>b, <2>1, <2>2, <2>3, <2>4 DEF OneOwnWrite
<1>6. CASE VerificationEnds(p)
  <2>1. /\ Judging(p) /\ step[p] = "judging"
        /\ phase = "STARTED" /\ executionDone \in closed
    BY <1>a, <1>6
       DEF VerificationEnds, VerifyAccept, VerifyReject, Judging, InMethod,
           JudgeHolds
  <2>2. OwnWrites = {TheWrite}
    BY <1>b, <2>1 DEF OneOwnWrite
  <2>3. /\ UNCHANGED <<authority, observation, executionDone, closed, spent,
                       calls, writes, resource>>
        /\ \E where \in {"committing", "returning"} :
               step' = [step EXCEPT ![p] = where]
        /\ pc' = [pc EXCEPT ![p] = "idle"]
        /\ \A q \in Callers : q # p => local'[q] = local[q]
        /\ \/ phase' = "STARTED" /\ accepted' = accepted
           \/ phase' = "RECOVERY" /\ accepted' = accepted
           \/ /\ phase' = "VERIFIED" /\ pc[p] = "accepting"
              /\ accepted' = local[p].evidence
    BY <1>a, <1>6, <2>1
       DEF VerificationEnds, VerifyAccept, VerifyReject, Leave, Enter, Fail,
           Goto, provider, request, execution, channels, history, TypeOK
  <2>4. \A q \in Callers : pc'[q] = "accepting" =>
            local'[q].evidence.version = observation.version + 1
    BY <1>a, <1>b, <2>3 DEF TypeOK, EvidenceShowsIt
  <2>5. CASE phase' # "VERIFIED"
    BY <1>1, <2>1, <2>2, <2>3, <2>4, <2>5 DEF Attempted, Steps
  <2>6. CASE phase' = "VERIFIED"
    <3>1. OwnWrites' = OwnWrites /\ TheWrite' = TheWrite
      BY <2>3 DEF OwnWrites, TheWrite
    <3>2. \A q \in Callers : step'[q] \notin {"admitting", "executing",
                                              "checking"}
      <4>1. \A q \in Callers \ {p} : ~Inside(q)
        BY <1>a, <2>1 DEF OneInside, Inside
      <4> QED
        BY <1>a, <2>3, <4>1 DEF Inside, GateConserved
    <3>3. \A q \in Callers : ~Running(q, "execute")'
      <4>1. \A q \in Callers : ~Running(q, "execute")
        BY <1>a, <2>1 DEF EffectIsAuthorized
      <4> QED
        BY <2>3, <4>1 DEF calls, Running
    <3>4. accepted'.version = observation.version + 1
      BY <1>b, <2>3, <2>6 DEF EvidenceShowsIt
    <3>5. WritesAreSpent'
      BY <1>b, <2>1, <2>3 DEF WritesAreSpent, Attempted
    <3>6. OneOwnWrite'
      BY <2>2, <3>1, <3>2, <3>3 DEF OneOwnWrite
    <3>7. EvidenceShowsIt'
      BY <2>3, <2>4, <2>6, <3>2, <3>4 DEF EvidenceShowsIt
    <3> QED
      BY <3>5, <3>6, <3>7 DEF WritesHeld
  <2> QED
    BY <2>5, <2>6
<1> QED
  BY <1>2, <1>3, <1>4, <1>5, <1>6

(* Every step keeps the Runtime's authority and its write together.        *)
LEMMA WritesHeldNext ==
    ASSUME MInv, IDsAge, ~ClockMayStepBack, WritesHeld, [MCPNext]_allVars
    PROVE  WritesHeld'
<1>a. /\ GateConserved /\ TypeOK /\ InMethod /\ EvidenceHeld
      /\ WaitsForOwn /\ EvidenceReceived
  BY DEF MInv, IInv, TypeInv
<1>b. WritesAreSpent /\ OneOwnWrite /\ EvidenceShowsIt
  BY DEF WritesHeld
<1> DEFINE Lifecycle == <<phase, authority, observation, executionDone, closed,
                          spent, accepted, pc, local>>
           Watched == {"admitting", "executing", "checking"}
<1>c. UNCHANGED vars => UNCHANGED Lifecycle
  BY DEF vars, lifecycle, request, execution, callers, channels, history
<1>1. ASSUME UNCHANGED Lifecycle, UNCHANGED <<calls, writes, resource>>,
             \A q \in Callers : step'[q] \in Watched => step'[q] = step[q]
      PROVE  WritesHeld'
  <2>1. \A q \in Callers :
            /\ result'[q] = result[q]
            /\ Running(q, "execute")' => Running(q, "execute")
            /\ Unanswered(q)' => Unanswered(q) /\ callback'[q] = callback[q]
    BY <1>1 DEF calls, Running, Unanswered
  <2>2. \A q \in Callers :
            /\ step'[q] = "admitting" \/ Running(q, "execute")' =>
                  step[q] = "admitting" \/ Running(q, "execute")
            /\ step'[q] = "executing" /\ result'[q] # None /\ result'[q].ok
                  => OwnWrites = {TheWrite}
            /\ step'[q] = "checking" /\ Unanswered(q)' =>
                  callback'[q].id = authority.id
            /\ step'[q] = "checking" /\ result'[q] # None /\ result'[q].ok
                  => result'[q].evidence.version = observation.version + 1
    BY <1>b, <1>1, <2>1 DEF OneOwnWrite, EvidenceShowsIt
  <2> QED
    BY <1>1, <2>2, WritesFrame
<1>2. CASE UNCHANGED allVars \/ TimePasses
  <2>1. UNCHANGED Lifecycle /\ UNCHANGED <<step, calls, writes, resource>>
    BY <1>c, <1>2
       DEF allVars, mcpVars, provider, TimePasses, Tick, lifecycle, request,
           execution, callers, channels, history
  <2> QED
    BY <1>1, <2>1
<1>3. ASSUME NEW p \in Callers,
             \/ Passes(p) \/ Cancelled(p) \/ ObservationReceived(p)
             \/ ObservationTimesOut(p) \/ NotAuthorized(p)
             \/ UNCHANGED vars /\ Fail(p) /\ UNCHANGED <<calls, provider>>
      PROVE  WritesHeld'
  <2>1. /\ UNCHANGED Lifecycle /\ UNCHANGED <<calls, writes, resource>>
        /\ \E where \in Steps \ Watched : step' = [step EXCEPT ![p] = where]
    BY <1>c, <1>3
       DEF Passes, Request, AcquireLifecycle, GiveUp, ReleaseLifecycle,
           Cancelled, ObservationReceived, ObservationTimesOut,
           NotAuthorized, Abandon, Fail, Goto, Steps, provider
  <2> QED
    BY <1>1, <1>a, <2>1 DEF GateConserved
<1>4. CASE OtherWriter
  <2>1. /\ UNCHANGED Lifecycle /\ UNCHANGED <<step, calls, writes>>
        /\ resource'.execution = None
    BY <1>c, <1>4 DEF OtherWriter, Provider!Set
  <2>2. phase = "STARTED" => authority.id # None
    BY <1>a, ServerAssumption
       DEF EvidenceHeld, Attempted, TypeOK, Optional, Authorities
  <2>3. /\ OwnWrites' = OwnWrites /\ TheWrite' = TheWrite
        /\ \A q \in Callers :
              /\ Running(q, "execute")' <=> Running(q, "execute")
              /\ Unanswered(q)' <=> Unanswered(q)
    BY <2>1 DEF OwnWrites, TheWrite, calls, Running, Unanswered
  <2>4. WritesAreSpent'
    BY <1>b, <2>1 DEF WritesAreSpent
  <2>5. OneOwnWrite'
    BY <1>b, <2>1, <2>3 DEF OneOwnWrite, calls
  <2>6. EvidenceShowsIt'
    BY <1>b, <2>1, <2>2, <2>3 DEF EvidenceShowsIt, calls
  <2> QED
    BY <2>4, <2>5, <2>6 DEF WritesHeld
<1>5. ASSUME NEW p \in Callers, Asks(p)
      PROVE  WritesHeld'
  <2>1. PICK c \in Goroutines, where \in Steps :
            /\ StartGoroutine(p, c) /\ Goto(p, where)
            /\ \/ where = "observing" /\ c.kind = "observe"
               \/ where = "executing" /\ c.kind = "execute" /\ AskToExecute(p)
               \/ where = "checking"  /\ c.id = authority.id
                    /\ c.kind = "verify"
    BY <1>5, AsksFor
  <2>2. /\ step'[p] = where /\ callback'[p] = c /\ result'[p] = None
        /\ \A q \in Callers \ {p} :
              /\ step'[q] = step[q] /\ callback'[q] = callback[q]
              /\ result'[q] = result[q]
        /\ UNCHANGED <<writes, resource>>
    BY <1>a, <2>1 DEF StartGoroutine, Goto, provider, GateConserved
  <2>3. UNCHANGED vars
    BY <1>5, AsksFor
  <2>4. Running(p, "execute")' => step[p] = "admitting"
    BY <2>1, <2>2 DEF Running, AskToExecute
  <2>5. \A q \in Callers \ {p} :
            /\ Running(q, "execute")' <=> Running(q, "execute")
            /\ Unanswered(q)' <=> Unanswered(q)
    BY <2>2 DEF Running, Unanswered
  <2>6. \A q \in Callers :
            /\ step'[q] = "admitting" \/ Running(q, "execute")' =>
                  step[q] = "admitting" \/ Running(q, "execute")
            /\ step'[q] = "executing" /\ result'[q] # None /\ result'[q].ok
                  => OwnWrites = {TheWrite}
            /\ step'[q] = "checking" /\ Unanswered(q)' =>
                  callback'[q].id = authority.id
            /\ step'[q] = "checking" /\ result'[q] # None /\ result'[q].ok
                  => result'[q].evidence.version = observation.version + 1
    BY <1>b, <2>1, <2>2, <2>4, <2>5 DEF OneOwnWrite, EvidenceShowsIt
  <2> QED
    BY <1>c, <2>2, <2>3, <2>6, WritesFrame
<1>6. ASSUME NEW p \in Callers,
             \/ ObserveRuntime(p)
             \/ RecoverRuntime(p) /\ ~UNCHANGED vars
             \/ \E desired \in States, lifetime \in Lifetimes :
                    Authorize(p, desired, lifetime)
      PROVE  WritesHeld'
  <2>1. /\ step[p] \in {"observed", "recovered", "normalizing",
                        "reconciling", "governing", "reserving"}
        /\ \E where \in Steps \ Watched : step' = [step EXCEPT ![p] = where]
        /\ phase' \notin Attempted
        /\ UNCHANGED <<spent, pc, local, callback, writes, resource>>
    BY <1>6
       DEF ObserveRuntime, RecoverRuntime, Authorize, Observe, Recover,
           EnterObserved, Normalize, Reconcile, Govern, Reserve, Goto, Steps,
           provider, callers, history, calls, Attempted
  <2>2. \A q \in Callers :
            /\ step[q] \notin Attempting
            /\ pc[q] = "idle" /\ ~Running(q, "execute")
    BY <2>1, AloneOutside DEF Inside, Attempting
  <2>3. \A q \in Callers : /\ step'[q] \notin Watched
                           /\ pc'[q] = "idle" /\ ~Running(q, "execute")'
    BY <1>a, <2>1, <2>2 DEF Attempting, Running, GateConserved
  <2>4. WritesAreSpent'
    BY <1>b, <2>1 DEF WritesAreSpent
  <2>5. OneOwnWrite'
    BY <2>1, <2>3 DEF OneOwnWrite, Attempted
  <2>6. EvidenceShowsIt'
    BY <2>1, <2>3 DEF EvidenceShowsIt, Attempted
  <2> QED
    BY <2>4, <2>5, <2>6 DEF WritesHeld
<1>7. ASSUME NEW p \in Callers, StartExecution(p), Start(p)
      PROVE  WritesHeld'
  <2>1. /\ OwnWrites = {} /\ resource.execution # authority.id
        /\ phase = "RESERVED" /\ step[p] = "starting"
    BY <1>b, <1>7, ReservedHasNotWritten DEF StartExecution, Start, CanStart
  <2>2. \A q \in Callers :
            /\ step[q] \notin Attempting
            /\ pc[q] = "idle" /\ ~Running(q, "execute")
    BY <2>1, AloneOutside DEF Inside, Attempting
  <2>3. authority \in Authorities /\ authority'.id = authority.id
    BY <1>a, <1>7 DEF Start, CanStart, TypeOK, Optional, Authorities
  <2>4. /\ phase' = "STARTED" /\ executionDone' = attempts + 1
        /\ closed' = closed /\ observation' = observation
        /\ spent' = spent \cup {authority.id}
        /\ pc' = [pc EXCEPT ![p] = "starting"]
        /\ UNCHANGED <<calls, writes, resource>>
        /\ step' = [step EXCEPT ![p] = "admitting"]
    BY <1>7, <2>1
       DEF StartExecution, Start, CanStart, Enter, Goto, Fail, request,
           provider
  <2>5. executionDone' \notin closed'
    BY <1>a, <2>4, KernelAssumption DEF TypeOK
  <2>6. \A q \in Callers :
            /\ step'[q] \notin {"executing", "checking"}
            /\ pc'[q] # "accepting" /\ ~Running(q, "execute")'
    BY <1>a, <2>2, <2>4 DEF Attempting, Running, calls, GateConserved, TypeOK
  <2>7. OwnWrites' = {}
    BY <2>1, <2>3, <2>4 DEF OwnWrites
  <2>8. WritesAreSpent'
    BY <1>b, <2>3, <2>4 DEF WritesAreSpent
  <2>9. OneOwnWrite'
    BY <2>4, <2>5, <2>6, <2>7 DEF OneOwnWrite
  <2>10. EvidenceShowsIt'
    BY <2>1, <2>3, <2>4, <2>6 DEF EvidenceShowsIt
  <2> QED
    BY <2>8, <2>9, <2>10 DEF WritesHeld
<1>8. ASSUME NEW p \in Callers, CommitTransition(p)
      PROVE  WritesHeld'
  <2>1. /\ phase = "VERIFIED" /\ phase' \in {"COMMITTED", "RECOVERY"}
        /\ UNCHANGED <<authority, observation, executionDone, closed, spent,
                       accepted, pc, local, calls, writes, resource>>
        /\ step[p] = "committing"
        /\ step' = [step EXCEPT ![p] = "returning"]
    BY <1>8
       DEF CommitTransition, Commit, Goto, provider, lifecycle, request,
           execution, callers, channels, history
  <2>2. \A q \in Callers :
            /\ step[q] \notin Attempting
            /\ pc[q] = "idle" /\ ~Running(q, "execute")
    BY <2>1, AloneOutside DEF Inside, Attempting
  <2>3. \A q \in Callers : /\ step'[q] \notin Watched
                           /\ pc'[q] = "idle" /\ ~Running(q, "execute")'
    BY <1>a, <2>1, <2>2 DEF Attempting, Running, calls, GateConserved
  <2>4. OwnWrites' = OwnWrites /\ TheWrite' = TheWrite
    BY <2>1 DEF OwnWrites, TheWrite
  <2>5. WritesAreSpent'
    BY <1>b, <2>1 DEF WritesAreSpent, Attempted
  <2>6. OneOwnWrite'
    BY <1>b, <2>1, <2>3, <2>4 DEF OneOwnWrite
  <2>7. EvidenceShowsIt'
    BY <1>b, <2>1, <2>3 DEF EvidenceShowsIt
  <2> QED
    BY <2>5, <2>6, <2>7 DEF WritesHeld
<1> QED
  <2>1. ASSUME NEW p \in Callers, RecoverRuntime(p), UNCHANGED vars
        PROVE  WritesHeld'
    <3>1. /\ UNCHANGED Lifecycle /\ UNCHANGED <<calls, writes, resource>>
          /\ \E where \in Steps \ Watched : step' = [step EXCEPT ![p] = where]
      BY <1>c, <2>1 DEF RecoverRuntime, Fail, Goto, Steps, provider
    <3> QED
      BY <1>1, <1>a, <3>1 DEF GateConserved
  <2>2. ASSUME NEW p \in Callers, StartExecution(p)
        PROVE  WritesHeld'
    BY <1>3, <1>7, <2>2 DEF StartExecution
  <2>3. ASSUME NEW p \in Callers, Moves(p)
        PROVE  WritesHeld'
    BY <1>3, <1>6, <1>8, <2>1, <2>2, <2>3, WritesHeldInMethod DEF Moves
  <2>4. ASSUME NEW p \in Callers, Within(p)
        PROVE  WritesHeld'
    BY <2>4, WritesHeldInMethod DEF Within
  <2> QED
    BY <1>2, <1>3, <1>4, <1>5, <1>6, <2>3, <2>4, WritesHeldByCallback,
       StepKinds

(* With a clock that is never set back, a lifecycle is VERIFIED or         *)
(* COMMITTED on exactly one write, its own: it replaced the version that   *)
(* was authorized, and the evidence shows the version it made.             *)
THEOREM ServerCommitsOwnWrite ==
    ~ClockMayStepBack /\ MCPSpec => []CommitShowsOwnWrite
<1> SUFFICES ASSUME ~ClockMayStepBack
             PROVE  MCPSpec => []CommitShowsOwnWrite
  OBVIOUS
<1>1. MCPInit => IDsAge
  BY IDsAgeInit DEF MCPInit
<1>2. MInv /\ MInv' /\ IDsAge /\ [MCPNext]_allVars => IDsAge'
  BY IDsAgeNext, KernelStep DEF MInv
<1>3. MCPInit => WritesHeld
  BY DEF MCPInit, Init, Provider!NewResource, WritesHeld, WritesAreSpent,
         OneOwnWrite, EvidenceShowsIt, Running, Attempted
<1>4. MInv /\ IDsAge /\ WritesHeld /\ [MCPNext]_allVars => WritesHeld'
  BY WritesHeldNext
<1>5. WritesHeld => CommitShowsOwnWrite
  BY DEF WritesHeld, OneOwnWrite, EvidenceShowsIt, OwnWrites, TheWrite,
         CommitShowsOwnWrite
<1> QED
  BY <1>1, <1>2, <1>3, <1>4, <1>5, MInvariance, PTL DEF MCPSpec

-----------------------------------------------------------------------------
(* Evidence is later than the last execution *)

(* The evidence a call has received.                                       *)
Holds(p) == step[p] \in Evidencing /\ result[p] # None /\ result[p].ok

(* Steps that leave the times of the lifecycle alone: what a call has      *)
(* received it had before, or has it just now.                             *)
LEMMA EvidenceFrame ==
    ASSUME MInv, EvidenceIsLater,
           UNCHANGED <<phase, observation, executionDone, executionCompletedAt,
                       closed, clock, lastCompletedAt, pc, local>>,
           \A q \in Callers : Holds(q)' =>
              \/ Holds(q) /\ result'[q] = result[q]
              \/ result'[q].evidence.at = clock
    PROVE  EvidenceIsLater'
<1>1. clock \in Int
  BY DEF MInv, IInv, TypeInv, TypeOK, Times
<1>2. \A q \in Callers : Holds(q)' =>
          /\ result'[q].evidence.at <= clock
          /\ phase \notin {"STARTED", "RECOVERY"} =>
                result'[q].evidence.at > lastCompletedAt
  BY <1>1 DEF EvidenceIsLater, Holds
<1> QED
  BY <1>2
     DEF EvidenceIsLater, Holds, Evidencing, Authorized, Authorizing,
         Attempted, Valid, SealOf

(* Evidence a call gathers was made after the last execution completed.    *)
LEMMA EvidenceIsLaterNext ==
    ASSUME MInv, EvidenceIsLater, [MCPNext]_allVars
    PROVE  EvidenceIsLater'
<1>a. /\ GateConserved /\ TypeOK /\ CallerShape /\ OneInside /\ InMethod
      /\ EvidenceReceived /\ EvidenceHeld /\ ChannelHeld /\ ExecutorHolds
      /\ JudgeHolds /\ EvidenceJudged
  BY DEF MInv, IInv, TypeInv, CallersHold
<1>b. /\ clock \in Int /\ lastCompletedAt \in Int
      /\ executionCompletedAt \in Int
      /\ observation # None => observation.at \in Int
  BY <1>a DEF TypeOK, Optional, Observations, Times
<1>c. \A q \in Callers : Holds(q) => result[q].evidence.at \in Int
  <2> SUFFICES ASSUME NEW q \in Callers, Holds(q)
               PROVE  result[q].evidence.at \in Int
    OBVIOUS
  <2>1. result[q].evidence \in Observations
    BY ReceivedIsSubmitted DEF Holds
  <2> QED
    BY <2>1 DEF Observations, Times
<1> DEFINE Timed == <<phase, observation, executionDone, executionCompletedAt,
                      closed, clock, lastCompletedAt, pc, local>>
<1>d. UNCHANGED vars => UNCHANGED Timed
  BY DEF vars, lifecycle, request, execution, callers, channels, history
<1> USE DEF Authorized, Authorizing, Attempted
<1>1. CASE UNCHANGED allVars \/ OtherWriter
  <2>1. UNCHANGED Timed /\ UNCHANGED <<step, result>>
    BY <1>d, <1>1 DEF allVars, mcpVars, calls, OtherWriter
  <2> QED
    BY <2>1, EvidenceFrame DEF Holds
<1>2. CASE TimePasses
  <2>1. /\ clock' = clock + 1
        /\ UNCHANGED <<phase, observation, executionDone,
                       executionCompletedAt, closed, lastCompletedAt, pc,
                       local, step, result>>
    BY <1>2 DEF TimePasses, Tick, mcpVars, calls, lifecycle, request,
                execution, callers, channels, history
  <2>2. \A q \in Callers : pc[q] = "accepting" =>
            local[q].evidence.at \in Int
    BY <1>a DEF EvidenceJudged, Proves, CallerShape, Locals, Observations,
                Times
  <2> QED
    BY <1>b, <1>c, <2>1, <2>2
       DEF EvidenceIsLater, Holds, Evidencing, Valid, SealOf
<1>3. ASSUME NEW p \in Callers,
             \/ Passes(p) \/ Cancelled(p) \/ ObservationReceived(p)
             \/ ObservationTimesOut(p) \/ NotAuthorized(p)
             \/ UNCHANGED vars /\ Fail(p) /\ UNCHANGED <<calls, provider>>
      PROVE  EvidenceIsLater'
  <2>1. /\ UNCHANGED Timed /\ UNCHANGED result
        /\ \/ \E where \in Steps \ Evidencing :
                  step' = [step EXCEPT ![p] = where]
           \/ /\ step[p] = "observing"
              /\ step' = [step EXCEPT ![p] = "observed"]
    BY <1>d, <1>3
       DEF Passes, Request, AcquireLifecycle, GiveUp, ReleaseLifecycle,
           Cancelled, ObservationReceived, ObservationTimesOut,
           NotAuthorized, Abandon, Fail, Goto, Steps, calls, Evidencing
  <2>2. \A q \in Callers : Holds(q)' => Holds(q)
    BY <1>a, <2>1 DEF Holds, Evidencing, GateConserved
  <2> QED
    BY <2>1, <2>2, EvidenceFrame
<1>4. ASSUME NEW p \in Callers, Asks(p)
      PROVE  EvidenceIsLater'
  <2>1. PICK c \in Goroutines, where \in Steps :
            StartGoroutine(p, c) /\ Goto(p, where)
    BY <1>4, AsksFor
  <2>2. /\ result'[p] = None
        /\ \A q \in Callers \ {p} : /\ step'[q] = step[q]
                                    /\ result'[q] = result[q]
    BY <1>a, <2>1 DEF StartGoroutine, Goto, GateConserved
  <2>3. UNCHANGED vars
    BY <1>4, AsksFor
  <2> QED
    BY <1>d, <2>2, <2>3, EvidenceFrame DEF Holds
<1>5. ASSUME NEW p \in Callers, CallbackStep(p)
      PROVE  EvidenceIsLater'
  <2>1. CASE ReleaseProvider(p)
    BY <1>d, <2>1, EvidenceFrame DEF ReleaseProvider, Holds
  <2>2. ASSUME NEW r \in Answers, Unanswered(p), Send(p, r),
               \/ ~r.ok
               \/ callback[p].kind = "execute"
               \/ r.evidence.at = clock
        PROVE  EvidenceIsLater'
    <3>1. /\ UNCHANGED vars /\ UNCHANGED step
          /\ result'[p] = IF Awaited(p) THEN r ELSE None
          /\ \A q \in Callers \ {p} : result'[q] = result[q]
      BY <1>a, <2>2, SendEffect
    <3>2. Holds(p)' => r.evidence.at = clock /\ result'[p] = r
      BY <2>2, <3>1 DEF Holds, MInv, WaitsForOwn, Awaited, Evidencing
    <3> QED
      BY <1>d, <3>1, <3>2, EvidenceFrame DEF Holds
  <2> QED
    BY <1>a, <1>5, <2>1, <2>2, CallbackKinds, ReadingTyped, OtherAnswersTyped
       DEF Running, Unanswered
<1>6. ASSUME NEW p \in Callers, Inside(p), step[p] \notin Evidencing,
             \E where \in Steps \ Evidencing :
                 step' = [step EXCEPT ![p] = where]
      PROVE  \A q \in Callers : ~Holds(q)'
  BY <1>a, <1>6 DEF OneInside, Inside, Holds, Evidencing, GateConserved
<1>7. ASSUME NEW p \in Callers,
             \/ RecoverRuntime(p) /\ CanRecover(result[p].evidence)
             \/ ObserveRuntime(p)
      PROVE  EvidenceIsLater'
  <2> DEFINE o == result[p].evidence
  <2>1. /\ step[p] \in {"observed", "recovered"}
        /\ \/ step' = [step EXCEPT ![p] = "recovered"] /\ result' = result
           \/ /\ step' = [step EXCEPT ![p] = "normalizing"]
              /\ result' = [result EXCEPT ![p] = None]
        /\ EnterObserved(o)
        /\ UNCHANGED <<clock, callers, history>>
        /\ phase # "STARTED"
        /\ phase = "RECOVERY" => o.at > executionCompletedAt /\ o.at <= clock
    BY <1>a, <1>7
       DEF RecoverRuntime, ObserveRuntime, Observe, Recover, CanObserve,
           CanRecover, Goto, calls, GateConserved
  <2>2. Holds(p)
    BY <1>a, <2>1 DEF EvidenceReceived, Holds, Evidencing
  <2>3. o.at \in Int
    BY <1>c, <2>2
  <2>4. o.at > lastCompletedAt /\ o.at <= clock
    <3>1. CASE phase = "RECOVERY"
      BY <1>a, <2>1, <3>1 DEF EvidenceIsLater, ChannelHeld
    <3>2. CASE phase # "RECOVERY"
      BY <2>1, <2>2, <3>2 DEF EvidenceIsLater, Holds
    <3> QED
      BY <3>1, <3>2
  <2>5. \A q \in Callers : Holds(q)' => q = p /\ result'[q].evidence = o
    BY <1>a, <2>1 DEF OneInside, Inside, Holds, Evidencing, GateConserved
  <2>6. /\ observation' = o /\ phase' = "OBSERVED"
        /\ UNCHANGED <<clock, lastCompletedAt, pc, local>>
    BY <2>1 DEF EnterObserved, callers, history
  <2> HIDE DEF o
  <2> QED
    BY <1>b, <2>3, <2>4, <2>5, <2>6
       DEF EvidenceIsLater, Holds, Valid, SealOf, Evidencing
<1>8. ASSUME NEW p \in Callers,
             \/ \E desired \in States, lifetime \in Lifetimes :
                    Authorize(p, desired, lifetime)
             \/ CommitTransition(p)
             \/ StartExecution(p) /\ Start(p)
      PROVE  EvidenceIsLater'
  <2>1. /\ Inside(p) /\ step[p] \notin Evidencing
        /\ \E where \in Steps \ Evidencing :
               step' = [step EXCEPT ![p] = where]
    BY <1>8
       DEF Authorize, CommitTransition, StartExecution, Fail, Goto, Inside,
           Steps, Evidencing
  <2>2. \A q \in Callers : ~Holds(q)'
    BY <1>6, <2>1
  <2>3. /\ UNCHANGED <<observation, clock, lastCompletedAt>>
        /\ \A q \in Callers : pc'[q] = "accepting" =>
               pc[q] = "accepting" /\ local'[q] = local[q]
    BY <1>a, <1>8
       DEF Authorize, CommitTransition, StartExecution, Normalize, Reconcile,
           Govern, Reserve, Commit, Start, Enter, lifecycle, request,
           callers, channels, history, TypeOK
  <2>4. CASE Start(p)
    <3>1. /\ phase = "RESERVED" /\ phase' = "STARTED"
          /\ executionDone' = attempts + 1 /\ closed' = closed
      BY <2>4 DEF Start, CanStart
    <3>2. executionDone' \notin closed'
      BY <1>a, <3>1, KernelAssumption DEF TypeOK
    <3> QED
      BY <1>b, <2>2, <2>3, <3>1, <3>2
         DEF EvidenceIsLater, Holds, Valid, SealOf, Evidencing
  <2>5. CASE \E desired \in States, lifetime \in Lifetimes :
                 Authorize(p, desired, lifetime)
    <3>1. phase \in Authorizing /\ phase' \in Authorizing
      BY <2>5 DEF Authorize, Normalize, Reconcile, Govern, Reserve
    <3> QED
      BY <1>b, <2>2, <2>3, <3>1
         DEF EvidenceIsLater, Holds, Valid, SealOf, Evidencing
  <2>6. CASE CommitTransition(p)
    <3>1. /\ phase = "VERIFIED" /\ phase' \in {"COMMITTED", "RECOVERY"}
          /\ UNCHANGED <<executionDone, executionCompletedAt, closed>>
      BY <2>6
         DEF CommitTransition, Commit, lifecycle, execution, callers, channels
    <3> QED
      BY <1>a, <1>b, <2>2, <2>3, <3>1
         DEF EvidenceIsLater, Holds, Valid, SealOf, Evidencing, ChannelHeld
  <2> QED
    BY <1>8, <2>4, <2>5, <2>6
<1>9. ASSUME NEW p \in Callers,
             \/ ReadAuthorized(p) \/ StartVerification(p)
             \/ VerificationReceived(p) \/ VerificationTimesOut(p)
             \/ VerificationEnds(p) /\ VerifyReject(p)
      PROVE  EvidenceIsLater'
  <2>1. /\ UNCHANGED <<observation, executionDone, executionCompletedAt,
                       closed, clock, lastCompletedAt>>
        /\ \/ phase' = phase
           \/ /\ phase = "STARTED" /\ executionDone \in closed
              /\ phase' = "RECOVERY"
    <3>1. CASE \/ ReadAuthorized(p) \/ StartVerification(p)
               \/ VerificationReceived(p) \/ VerificationTimesOut(p)
      BY <3>1
         DEF ReadAuthorized, StartSnapshot, StartVerification, Verify,
             VerifyWake, VerificationReceived, VerificationTimesOut,
             VerifierReturns, VerifierFails, lifecycle, request, execution,
             channels, history
    <3>2. CASE VerifyReject(p)
      BY <1>a, <3>2
         DEF VerifyReject, StillVerifying, JudgeHolds, Judging, lifecycle,
             request, execution, channels, history
    <3> QED
      BY <1>9, <3>1, <3>2
  <2>2. /\ UNCHANGED result
        /\ \A q \in Callers : Holds(q)' => Holds(q)
    <3>1. /\ UNCHANGED result
          /\ \/ UNCHANGED step
             \/ \E where \in Steps \ Evidencing :
                    step' = [step EXCEPT ![p] = where]
      BY <1>9
         DEF ReadAuthorized, StartVerification, VerificationReceived,
             VerificationTimesOut, VerificationEnds, Abandon, mcpVars, calls,
             Fail, Goto, Steps, Evidencing
    <3> QED
      BY <1>a, <3>1 DEF Holds, GateConserved
  <2>3. \A q \in Callers : pc'[q] = "accepting" =>
           \/ pc[q] = "accepting" /\ local'[q] = local[q]
           \/ Valid(local'[q].evidence) /\ local'[q].evidence.at <= clock
    <3>1. CASE VerifierFails(p)
      BY <1>a, <3>1 DEF VerifierFails, Enter, TypeOK
    <3>2. ASSUME NEW o, VerifierReturns(p, o)
          PROVE  \A q \in Callers : pc'[q] = "accepting" =>
                   \/ pc[q] = "accepting" /\ local'[q] = local[q]
                   \/ Valid(local'[q].evidence)
                         /\ local'[q].evidence.at <= clock
      <4>1. CASE Convincing(o, local[p], clock)
        <5>1. local'[p] = [local[p] EXCEPT !.evidence = o]
          BY <1>a, <3>2, <4>1 DEF VerifierReturns, Enter, TypeOK
        <5>2. local[p] \in Locals
          BY <1>a, <3>2 DEF VerifierReturns, CallerShape
        <5>3. local'[p].evidence = o
          BY <5>1, <5>2 DEF Locals
        <5>4. Valid(o) /\ o.at <= clock
          BY <4>1 DEF Convincing
        <5>5. \A q \in Callers \ {p} :
                  pc'[q] = pc[q] /\ local'[q] = local[q]
          BY <1>a, <3>2, <4>1 DEF VerifierReturns, Enter, TypeOK
        <5> QED
          BY <5>3, <5>4, <5>5
      <4>2. CASE ~Convincing(o, local[p], clock)
        BY <1>a, <3>2, <4>2 DEF VerifierReturns, Enter, TypeOK
      <4> QED
        BY <4>1, <4>2
    <3>3. CASE \/ ReadAuthorized(p) \/ StartVerification(p)
               \/ VerifyReject(p)
      BY <1>a, <3>3
         DEF ReadAuthorized, StartSnapshot, StartVerification, Verify,
             VerifyWake, VerifyReject, Leave, Enter, TypeOK
    <3> QED
      BY <1>9, <3>1, <3>2, <3>3
         DEF VerificationReceived, VerificationTimesOut
  <2> QED
    BY <1>a, <1>b, <2>1, <2>2, <2>3
       DEF EvidenceIsLater, Holds, Evidencing, Valid, SealOf
<1>10. ASSUME NEW p \in Callers, VerificationEnds(p), VerifyAccept(p)
       PROVE  EvidenceIsLater'
  <2>1. /\ pc[p] = "accepting" /\ Judging(p) /\ step[p] = "judging"
        /\ local[p].evidence.fingerprint.at > executionCompletedAt
        /\ Valid(local[p].evidence) /\ local[p].evidence.at <= clock
        /\ phase = "STARTED" /\ executionDone \in closed
    BY <1>a, <1>10
       DEF VerifyAccept, Judging, EvidenceJudged, Proves, JudgeHolds,
           InMethod, EvidenceIsLater
  <2>2. local[p].evidence \in Observations
    BY <1>a, <2>1 DEF EvidenceJudged, Proves, CallerShape, Locals
  <2>3. lastCompletedAt < clock
    BY <1>b, <2>1, <2>2
       DEF EvidenceIsLater, Valid, SealOf, Observations, Times, Seals
  <2>4. /\ UNCHANGED <<observation, executionDone, executionCompletedAt,
                       closed, clock, lastCompletedAt>>
        /\ phase' \in {"STARTED", "VERIFIED"}
    BY <1>10, <2>1
       DEF VerifyAccept, request, execution, channels
  <2>5. \A q \in Callers : ~Holds(q)'
    BY <1>6, <1>10, <2>1
       DEF VerificationEnds, Goto, Fail, Steps, Inside, Evidencing
  <2>6. \A q \in Callers : pc'[q] = "accepting" =>
            pc[q] = "accepting" /\ local'[q] = local[q]
    BY <1>a, <1>10 DEF VerifyAccept, Leave, Enter, TypeOK
  <2> QED
    BY <1>b, <2>1, <2>3, <2>4, <2>5, <2>6
       DEF EvidenceIsLater, Holds, Evidencing, Valid, SealOf
<1>11. ASSUME NEW p \in Callers, ExecutionReceived(p) \/ ExecutionTimesOut(p)
       PROVE  EvidenceIsLater'
  <2>1. /\ Executing(p) /\ step[p] \in {"admitting", "executing"}
        /\ phase = "STARTED" /\ executionDone = local[p].done
    BY <1>a, <1>11
       DEF ExecutionReceived, ExecutionTimesOut, StartComplete, Executing,
           ExecutorHolds
  <2>2. /\ executionCompletedAt' = clock /\ lastCompletedAt' = clock
        /\ phase' \in {"STARTED", "RECOVERY"}
        /\ executionDone' = executionDone /\ executionDone' \in closed'
        /\ clock' = clock
    BY <1>11, <2>1 DEF ExecutionReceived, ExecutionTimesOut, StartComplete
  <2>3. \A q \in Callers : ~Holds(q)'
    BY <1>6, <1>11, <2>1
       DEF ExecutionReceived, ExecutionTimesOut, Goto, Fail, Steps, Inside,
           Evidencing
  <2>4. \A q \in Callers : pc'[q] = "accepting" =>
            pc[q] = "accepting" /\ local'[q] = local[q]
    BY <1>a, <1>11
       DEF ExecutionReceived, ExecutionTimesOut, StartComplete, Leave, Enter,
           TypeOK
  <2> QED
    BY <1>b, <2>2, <2>3, <2>4
       DEF EvidenceIsLater, Holds, Evidencing, Valid, SealOf
<1> QED
  <2>1. ASSUME NEW p \in Callers, RecoverRuntime(p)
        PROVE  EvidenceIsLater'
    BY <1>3, <1>7, <2>1 DEF RecoverRuntime
  <2>2. ASSUME NEW p \in Callers, StartExecution(p)
        PROVE  EvidenceIsLater'
    BY <1>3, <1>8, <2>2 DEF StartExecution
  <2>3. ASSUME NEW p \in Callers, VerificationEnds(p)
        PROVE  EvidenceIsLater'
    BY <1>9, <1>10, <2>3 DEF VerificationEnds
  <2>4. ASSUME NEW p \in Callers, Moves(p)
        PROVE  EvidenceIsLater'
    BY <1>3, <1>8, <1>9, <1>11, <2>1, <2>2, <2>3, <2>4 DEF Moves
  <2>5. ASSUME NEW p \in Callers, Within(p)
        PROVE  EvidenceIsLater'
    BY <1>9, <2>5 DEF Within
  <2> QED
    BY <1>1, <1>2, <1>3, <1>4, <1>5, <1>7, <2>4, <2>5, StepKinds

(* The server keeps what docs/ARCHITECTURE.md promises of authorizations   *)
(* too, although a call may authorize on an observation it received before *)
(* time passed: none completes while the call has the lifecycle.           *)
THEOREM ServerAuthorizesOnFreshEvidence == MCPSpec => []FreshAuthorization
<1>1. MCPInit => EvidenceIsLater
  BY DEF MCPInit, Init, EvidenceIsLater, Authorized, Authorizing, Attempted,
         Evidencing
<1>2. MInv /\ EvidenceIsLater /\ [MCPNext]_allVars => EvidenceIsLater'
  BY EvidenceIsLaterNext
<1>3. MInv /\ EvidenceIsLater => FreshAuthorization
  BY DEF MInv, IInv, CallersHold, ExecutorHolds, EvidenceHeld, Executing,
         Valid, SealOf, EvidenceIsLater, Authorized, FreshAuthorization
<1> QED
  BY <1>1, <1>2, <1>3, MInvariance, PTL DEF MCPSpec
=============================================================================
