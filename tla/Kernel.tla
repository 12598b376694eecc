------------------------------- MODULE Kernel -------------------------------
(***************************************************************************)
(* kernel/kernel.go: one Runtime shared by concurrent callers.             *)
(*                                                                         *)
(* A method that runs under r.mu from its first check to its last          *)
(* assignment is one action.  Start and Verify release r.mu around the     *)
(* provider's code and are therefore several actions; the point a caller   *)
(* has reached inside them is pc[p].  A call that fails a check and        *)
(* changes nothing is a stuttering step and has no action.                 *)
(*                                                                         *)
(* A SHA-256 fingerprint is the record of the fields it seals: two         *)
(* fingerprints are equal iff those fields are.  The messages and payloads *)
(* of an execution result, which no check reads, are left out.             *)
(***************************************************************************)
EXTENDS Integers

CONSTANTS
    Subjects,          \* non-empty subject names
    States,            \* non-empty state names
    Versions,          \* provider versions, sealed but not compared
    Tokens,            \* concurrency tokens, NoToken included
    NoToken,           \* the empty concurrency token ""
    Callers,           \* goroutines that call the Runtime
    Lifetimes,         \* authority lifetimes a caller may ask for
    ClockMayStepBack,  \* may the wall clock be set back?
    MaxTime,           \* bound: last reading of the clock
    MaxAttempts,       \* bound: number of executions started
    None               \* a nil pointer

ASSUME KernelAssumption ==
    /\ NoToken \in Tokens
    /\ Lifetimes \subseteq Int
    /\ ClockMayStepBack \in BOOLEAN
    /\ MaxTime \in Nat \ {0}
    /\ MaxAttempts \in Nat

(* Readings of the clock; 0 is Go's zero time. *)
Times    == 1..MaxTime
Attempts == 1..MaxAttempts

Phases == {"IDLE", "OBSERVED", "NORMALIZED", "RECONCILED", "AUTHORIZED",
           "RESERVED", "STARTED", "VERIFIED", "COMMITTED", "RECOVERY"}

-----------------------------------------------------------------------------
(* Evidence *)

Seals == [subject : Subjects, state : States, version : Versions,
          token : Tokens, at : Times]

Observations == [subject : Subjects, state : States, version : Versions,
                 token : Tokens, at : Times, fingerprint : Seals]

SealOf(o) == [subject |-> o.subject, state |-> o.state,
              version |-> o.version, token |-> o.token, at |-> o.at]

(* What NewObservationWithConcurrencyToken returns. *)
Sealed(s) == [subject |-> s.subject, state |-> s.state,
              version |-> s.version, token |-> s.token, at |-> s.at,
              fingerprint |-> s]

(* Mutant: evidence is taken as it comes. *)
ValidUnchecked(o) == o.subject \in Subjects

Valid(o) == o.fingerprint = SealOf(o)

(* What a caller can hand to the kernel: evidence as it was made, and old  *)
(* evidence whose time was rewritten after it was sealed.                  *)
Submissions ==
    { [Sealed(s) EXCEPT !.at = t] : s \in Seals, t \in Times }

-----------------------------------------------------------------------------
(* Proposals, transitions, decisions, authority *)

Proposals == [subject : Subjects, target : States]

Transitions == [observation : Seals, proposal : Proposals]

Before(t)  == t.observation.state
After(t)   == t.proposal.target
Subject(t) == t.observation.subject
IsNoop(t)  == After(t) = Before(t)

ReconcileOf(o, p) == [observation |-> o.fingerprint, proposal |-> p]

Decisions == [allowed : BOOLEAN, transition : Transitions]

(* An ExecutionID is a hash of the transition and of the clock, not random. *)
ExecutionIDs == [transition : Transitions, at : Times]

Authorities == [id : ExecutionIDs, transition : Transitions,
                expiresAt : Nat, consumed : BOOLEAN]

Authority(t, now, lifetime) ==
    [id         |-> [transition |-> t, at |-> now],
     transition |-> t,
     expiresAt  |-> IF lifetime > 0 THEN now + lifetime ELSE 0,
     consumed   |-> FALSE]

ValidFor(a, t, o, now) ==
    /\ ~a.consumed
    /\ a.expiresAt # 0 => now < a.expiresAt
    /\ a.transition = t
    /\ a.transition.observation = o.fingerprint

Results  == [attempt : Attempts, success : BOOLEAN]

(* The local variables of a Start or Verify call that is under way. *)
Locals == [done : Attempts, transition : Transitions \cup {None},
           before : Observations \cup {None},
           completedAt : Times \cup {0},
           execution : Results \cup {None},
           evidence : Observations \cup {None}]

ASSUME NoneAssumption ==
    None \notin Subjects \cup Observations \cup Proposals \cup Transitions
                 \cup Decisions \cup Authorities \cup Results \cup Locals

-----------------------------------------------------------------------------
VARIABLES
    root,                  \* r.store.root
    phase,
    observation,
    proposal,
    transition,
    decision,
    authority,
    executionDone,         \* the channel of the current attempt, 0 for nil
    executionCompletedAt,
    verificationActive,
    executionResult,
    clock,                 \* what r.clock() returns
    attempts,              \* channels made so far
    closed,                \* channels closed so far
    pc,                    \* where each caller is
    local                  \* its local variables while it is in a call

(* History, read by properties only. *)
VARIABLES
    spent,                 \* execution IDs whose authority was consumed
    lastCompletedAt,       \* when the last attempt to complete completed
    accepted               \* the evidence the last Verify accepted

request   == <<observation, proposal, transition, decision>>
execution == <<executionDone, executionCompletedAt, executionResult>>
lifecycle == <<request, authority, execution, verificationActive>>
channels  == <<attempts, closed>>
callers   == <<channels, pc, local>>
history   == <<spent, lastCompletedAt, accepted>>
vars      == <<root, phase, lifecycle, clock, callers, history>>

PCs == {"idle", "starting", "executing", "waiting", "verifying",
        "accepting", "rejecting"}

Init ==
    /\ root \in States
    /\ phase = "IDLE"
    /\ observation = None /\ proposal = None /\ transition = None
    /\ decision = None /\ authority = None
    /\ executionDone = 0 /\ executionCompletedAt = 0
    /\ verificationActive = FALSE /\ executionResult = None
    /\ clock = 1
    /\ attempts = 0 /\ closed = {}
    /\ pc = [p \in Callers |-> "idle"]
    /\ local = [p \in Callers |-> None]
    /\ spent = {} /\ lastCompletedAt = 0 /\ accepted = None

-----------------------------------------------------------------------------
(* The clock.  Every reading is .UTC(), which drops Go's monotonic part, so *)
(* the kernel compares wall-clock times and these may be set back.          *)

Tick ==
    /\ clock < MaxTime
    /\ clock' = clock + 1
    /\ UNCHANGED <<root, phase, lifecycle, callers, history>>

ClockStepsBack ==
    /\ ClockMayStepBack
    /\ clock > 1
    /\ clock' = clock - 1
    /\ UNCHANGED <<root, phase, lifecycle, callers, history>>

-----------------------------------------------------------------------------
(* Methods that hold r.mu throughout *)

(* resetLifecycleLocked and the assignments around it. *)
EnterObserved(o) ==
    /\ observation' = o
    /\ proposal' = None /\ transition' = None
    /\ decision' = None /\ authority' = None
    /\ executionDone' = 0 /\ executionCompletedAt' = 0
    /\ verificationActive' = FALSE /\ executionResult' = None
    /\ phase' = "OBSERVED"

(* Mutant: a running execution does not refuse new evidence. *)
CanObserveMidExecution(o) ==
    /\ Valid(o)
    /\ phase \notin {"RECOVERY", "VERIFIED"}
    /\ observation # None => o.subject = observation.subject

CanObserve(o) ==
    /\ Valid(o)
    /\ phase \notin {"STARTED", "RECOVERY", "VERIFIED"}
    /\ observation # None => o.subject = observation.subject

Observe(o) ==
    /\ CanObserve(o)
    /\ EnterObserved(o)
    /\ UNCHANGED <<root, clock, callers, history>>

Normalize(p) ==
    /\ phase = "OBSERVED" /\ observation # None
    /\ p.subject = observation.subject
    /\ proposal' = p
    /\ phase' = "NORMALIZED"
    /\ UNCHANGED <<root, observation, transition, decision, authority,
                   execution, verificationActive, clock, callers, history>>

Reconcile ==
    /\ phase = "NORMALIZED" /\ observation # None /\ proposal # None
    /\ Valid(observation) /\ observation.subject = proposal.subject
    /\ transition' = ReconcileOf(observation, proposal)
    /\ phase' = "RECONCILED"
    /\ UNCHANGED <<root, observation, proposal, decision, authority,
                   execution, verificationActive, clock, callers, history>>

(* The policy is the caller's: d is whatever it answers. *)
Govern(d) ==
    /\ phase = "RECONCILED" /\ transition # None
    /\ d.transition = transition
    /\ ~IsNoop(transition)
    /\ d.allowed
    /\ decision' = d
    /\ phase' = "AUTHORIZED"
    /\ UNCHANGED <<root, observation, proposal, transition, authority,
                   execution, verificationActive, clock, callers, history>>

Reserve(lifetime) ==
    /\ phase = "AUTHORIZED" /\ transition # None /\ decision # None
    /\ decision.allowed
    /\ lifetime >= 0
    /\ authority' = Authority(transition, clock, lifetime)
    /\ phase' = "RESERVED"
    /\ UNCHANGED <<root, request, execution, verificationActive, clock,
                   callers, history>>

(* CompareAndSwap is the only write to the root. *)
Commit ==
    /\ phase = "VERIFIED" /\ transition # None
    /\ IF root = Before(transition)
         THEN root' = After(transition) /\ phase' = "COMMITTED"
         ELSE root' = root /\ phase' = "RECOVERY"
    /\ UNCHANGED <<lifecycle, clock, callers, history>>

(* Mutant: evidence from the moment of completion counts as later. *)
CanRecoverAtCompletion(o) ==
    /\ Valid(o)
    /\ phase = "RECOVERY" /\ observation # None /\ executionCompletedAt # 0
    /\ o.subject = observation.subject
    /\ o.at >= executionCompletedAt
    /\ o.at <= clock

CanRecover(o) ==
    /\ Valid(o)
    /\ phase = "RECOVERY" /\ observation # None /\ executionCompletedAt # 0
    /\ o.subject = observation.subject
    /\ o.at > executionCompletedAt
    /\ o.at <= clock

Recover(o) ==
    /\ CanRecover(o)
    /\ EnterObserved(o)
    /\ UNCHANGED <<root, clock, callers, history>>

-----------------------------------------------------------------------------
(* Start: reserve the lifecycle under r.mu, read the observation without   *)
(* it, run the executor, take r.mu again to record the result.             *)

Enter(p, where, l) ==
    /\ pc' = [pc EXCEPT ![p] = where]
    /\ local' = [local EXCEPT ![p] = l]

Leave(p) == Enter(p, "idle", None)

Holding(done, t) ==
    [done |-> done, transition |-> t, before |-> None, completedAt |-> 0,
     execution |-> None, evidence |-> None]

(* Mutant: the committed root is not compared with the transition. *)
CanStartFromAnyRoot ==
    /\ phase = "RESERVED"
    /\ authority # None /\ transition # None /\ observation # None
    /\ ValidFor(authority, transition, observation, clock)

CanStart ==
    /\ phase = "RESERVED"
    /\ authority # None /\ transition # None /\ observation # None
    /\ ValidFor(authority, transition, observation, clock)
    /\ root = Before(transition)

Start(p) ==
    /\ pc[p] = "idle"
    /\ attempts < MaxAttempts
    /\ CanStart
    /\ attempts' = attempts + 1
    /\ authority' = [authority EXCEPT !.consumed = TRUE]
    /\ executionDone' = attempts + 1
    /\ executionCompletedAt' = 0
    /\ verificationActive' = FALSE
    /\ phase' = "STARTED"
    /\ spent' = spent \cup {authority.id}
    /\ Enter(p, "starting", Holding(attempts + 1, transition))
    /\ UNCHANGED <<root, request, executionResult, clock, closed,
                   lastCompletedAt, accepted>>

(* before := *r.observation, after r.mu.Unlock(). *)
StartSnapshot(p) ==
    /\ pc[p] = "starting"
    /\ Enter(p, "executing", [local[p] EXCEPT !.before = observation])
    /\ UNCHANGED <<root, phase, lifecycle, clock, channels, history>>

(* The executor may return long after the lifecycle moved on. *)
StartComplete(p, success) ==
    /\ pc[p] = "executing"
    /\ IF phase = "STARTED" /\ executionDone = local[p].done
         THEN /\ executionCompletedAt' = clock
              /\ executionResult' = [attempt |-> local[p].done,
                                     success |-> success]
              /\ phase' = IF success THEN phase ELSE "RECOVERY"
              /\ closed' = closed \cup {local[p].done}
              /\ lastCompletedAt' = clock
         ELSE UNCHANGED <<executionCompletedAt, executionResult, phase,
                          closed, lastCompletedAt>>
    /\ Leave(p)
    /\ UNCHANGED <<root, request, authority, executionDone,
                   verificationActive, clock, attempts, spent, accepted>>

-----------------------------------------------------------------------------
(* Verify: reserve verification, wait for the attempt's channel, look      *)
(* again, run the verifier, judge its evidence, record the verdict.        *)

CanVerify ==
    /\ phase = "STARTED" /\ authority # None /\ transition # None
    /\ observation # None /\ executionDone # 0
    /\ ~verificationActive

Verify(p) ==
    /\ pc[p] = "idle"
    /\ CanVerify
    /\ verificationActive' = TRUE
    /\ Enter(p, "waiting", Holding(executionDone, None))
    /\ UNCHANGED <<root, phase, request, authority, execution, clock,
                   channels, history>>

(* Mutant: a late caller releases whatever verification is reserved. *)
ReleaseVerificationAlways(done) ==
    verificationActive' = (verificationActive /\ done = 0)

ReleaseVerificationIfCurrent(done) ==
    verificationActive' =
        IF executionDone = done THEN FALSE ELSE verificationActive

(* The context ended.  Go's select takes this branch at will when the      *)
(* channel is closed as well.                                              *)
VerifyCancel(p) ==
    /\ pc[p] = "waiting"
    /\ ReleaseVerificationIfCurrent(local[p].done)
    /\ Leave(p)
    /\ UNCHANGED <<root, phase, request, authority, execution, clock,
                   channels, history>>

(* Mutants: the phase alone is looked at again; the wait ends early. *)
StillStarted(done) ==
    /\ phase = "STARTED" /\ authority # None /\ transition # None
    /\ observation # None /\ done # 0
NotWaited(done) == done \in Attempts

Closed(done) == done \in closed

StillCurrent(done) ==
    /\ phase = "STARTED" /\ authority # None /\ transition # None
    /\ observation # None /\ executionDone = done

VerifyWake(p) ==
    /\ pc[p] = "waiting"
    /\ Closed(local[p].done)
    /\ IF StillCurrent(local[p].done)
         THEN /\ Enter(p, "verifying",
                       [local[p] EXCEPT !.transition = transition,
                                        !.before = observation,
                                        !.completedAt = executionCompletedAt,
                                        !.execution = executionResult])
              /\ UNCHANGED verificationActive
         ELSE /\ ReleaseVerificationIfCurrent(local[p].done)
              /\ Leave(p)
    /\ UNCHANGED <<root, phase, request, authority, execution, clock,
                   channels, history>>

(* Mutants: evidence of any age; evidence that lost its token. *)
ConvincingAnyAge(o, l, now) ==
    /\ Valid(o)
    /\ o.subject = Subject(l.transition)
    /\ o.state = After(l.transition)
    /\ o.fingerprint # l.transition.observation
    /\ o.at <= now
    /\ l.before.token # NoToken =>
           o.token # NoToken /\ o.token # l.before.token
ConvincingAnyToken(o, l, now) ==
    /\ Valid(o)
    /\ o.subject = Subject(l.transition)
    /\ o.state = After(l.transition)
    /\ o.fingerprint # l.transition.observation
    /\ o.at > l.completedAt /\ o.at <= now
    /\ l.before.token # NoToken => o.token # l.before.token

Convincing(o, l, now) ==
    /\ Valid(o)
    /\ o.subject = Subject(l.transition)
    /\ o.state = After(l.transition)
    /\ o.fingerprint # l.transition.observation
    /\ o.at > l.completedAt
    /\ o.at <= now
    /\ l.before.token # NoToken =>
           o.token # NoToken /\ o.token # l.before.token

(* The verifier answers and the answer is judged against the clock. *)
VerifierReturns(p, o) ==
    /\ pc[p] = "verifying"
    /\ IF Convincing(o, local[p], clock)
         THEN Enter(p, "accepting", [local[p] EXCEPT !.evidence = o])
         ELSE Enter(p, "rejecting", local[p])
    /\ UNCHANGED <<root, phase, lifecycle, clock, channels, history>>

VerifierFails(p) ==
    /\ pc[p] = "verifying"
    /\ Enter(p, "rejecting", local[p])
    /\ UNCHANGED <<root, phase, lifecycle, clock, channels, history>>

StillVerifying(done) ==
    phase = "STARTED" /\ executionDone = done /\ verificationActive

VerifyAccept(p) ==
    /\ pc[p] = "accepting"
    /\ IF StillVerifying(local[p].done)
         THEN /\ phase' = "VERIFIED"
              /\ verificationActive' = FALSE
              /\ accepted' = local[p].evidence
         ELSE UNCHANGED <<phase, verificationActive, accepted>>
    /\ Leave(p)
    /\ UNCHANGED <<root, request, authority, execution, clock, channels,
                   spent, lastCompletedAt>>

(* Mutant: a failed verification only gives up its reservation. *)
VerifyRejectReleases(p) ==
    /\ pc[p] = "rejecting"
    /\ ReleaseVerificationIfCurrent(local[p].done)
    /\ Leave(p)
    /\ UNCHANGED <<root, phase, request, authority, execution, clock,
                   channels, history>>

VerifyReject(p) ==
    /\ pc[p] = "rejecting"
    /\ IF StillVerifying(local[p].done)
         THEN phase' = "RECOVERY" /\ verificationActive' = FALSE
         ELSE UNCHANGED <<phase, verificationActive>>
    /\ Leave(p)
    /\ UNCHANGED <<root, request, authority, execution, clock, channels,
                   history>>

-----------------------------------------------------------------------------
CallerStep(p) ==
    \/ Start(p)
    \/ StartSnapshot(p)
    \/ \E success \in BOOLEAN : StartComplete(p, success)
    \/ Verify(p)
    \/ VerifyCancel(p)
    \/ VerifyWake(p)
    \/ \E o \in Submissions : VerifierReturns(p, o)
    \/ VerifierFails(p)
    \/ VerifyAccept(p)
    \/ VerifyReject(p)

Next ==
    \/ Tick
    \/ ClockStepsBack
    \/ \E o \in Submissions : Observe(o)
    \/ \E p \in Proposals : Normalize(p)
    \/ Reconcile
    \/ \E d \in Decisions : Govern(d)
    \/ \E l \in Lifetimes : Reserve(l)
    \/ Commit
    \/ \E o \in Submissions : Recover(o)
    \/ \E p \in Callers : CallerStep(p)

Spec == Init /\ [][Next]_vars

-----------------------------------------------------------------------------
(* Properties *)

Optional(S) == S \cup {None}

(* Every variable holds a value of its Go type.                            *)
TypeOK ==
    /\ root \in States
    /\ phase \in Phases
    /\ observation \in Optional(Observations)
    /\ proposal \in Optional(Proposals)
    /\ transition \in Optional(Transitions)
    /\ decision \in Optional(Decisions)
    /\ authority \in Optional(Authorities)
    /\ executionDone \in 0..attempts
    /\ executionCompletedAt \in Times \cup {0}
    /\ verificationActive \in BOOLEAN
    /\ executionResult \in Optional(Results)
    /\ clock \in Times
    /\ attempts \in 0..MaxAttempts
    /\ closed \subseteq 1..attempts
    /\ pc \in [Callers -> PCs]
    /\ local \in [Callers -> Optional(Locals)]
    /\ spent \subseteq ExecutionIDs
    /\ lastCompletedAt \in Times \cup {0}
    /\ accepted \in Optional(Observations)

Executing(p) == pc[p] \in {"starting", "executing"}
Judging(p)   == pc[p] \in {"verifying", "accepting", "rejecting"}

(* While an executor may be acting on the resource the lifecycle is its    *)
(* own: the phase is STARTED, the current channel is the one it will       *)
(* close, and no second executor runs.  Start releases r.mu for the whole  *)
(* execution, so nothing but the phase keeps other callers out.            *)
ExecutionOwnsLifecycle ==
    \A p \in Callers : Executing(p) =>
        /\ phase = "STARTED"
        /\ executionDone = local[p].done
        /\ executionDone \notin closed
        /\ \A q \in Callers : Executing(q) => q = p

(* The executor is handed the observation its authority was granted for,   *)
(* though Start reads it from the Runtime after releasing r.mu.            *)
ExecutorSeesAuthorizedObservation ==
    \A p \in Callers : pc[p] = "executing" =>
        local[p].before.fingerprint = local[p].transition.observation

(* A verifier judges the finished execution of the transition it was       *)
(* given: its channel is closed, the result is that attempt's own and      *)
(* successful, and the lifecycle is still in that attempt.                 *)
VerificationFollowsCompletion ==
    \A p \in Callers : Judging(p) =>
        /\ local[p].done \in closed
        /\ local[p].execution = [attempt |-> local[p].done, success |-> TRUE]
        /\ phase = "STARTED" /\ executionDone = local[p].done
        /\ local[p].transition = transition

(* At most one caller holds the current attempt's verification, and then   *)
(* the reservation is taken; callers left over from earlier attempts,      *)
(* cancelled or woken late, never release it for somebody else.            *)
SingleVerifier ==
    \A p \in Callers :
        (pc[p] = "waiting" \/ Judging(p)) /\ local[p].done = executionDone
            /\ phase = "STARTED" =>
        /\ verificationActive
        /\ \A q \in Callers :
               (pc[q] = "waiting" \/ Judging(q))
                   /\ local[q].done = executionDone => q = p

(* The evidence behind a VERIFIED or COMMITTED lifecycle was really made   *)
(* after the execution completed, of the transition's subject, in the      *)
(* transition's target state, under a new concurrency token if there was   *)
(* one.  The seal, not the claimed time, is what counts.                   *)
EvidenceBindsCommit ==
    phase \in {"VERIFIED", "COMMITTED"} =>
        /\ accepted.fingerprint.subject = Subject(transition)
        /\ accepted.fingerprint.state = After(transition)
        /\ accepted.fingerprint.at > executionCompletedAt
        /\ executionCompletedAt # 0
        /\ observation.token # NoToken =>
               accepted.fingerprint.token \notin {NoToken, observation.token}

(* From Start to Commit the root is the state the transition was computed  *)
(* from: Commit's compare-and-swap cannot fail.                            *)
RootStableUntilCommit ==
    phase \in {"STARTED", "VERIFIED"} => root = Before(transition)

(* A lifecycle in RECOVERY can be recovered by new evidence: Recover's     *)
(* other conditions hold, it only takes an observation that is late enough.*)
RecoveryStaysPossible ==
    phase = "RECOVERY" => observation # None /\ executionCompletedAt # 0

(* Execution IDs are a hash of the transition and the wall clock, with no  *)
(* random part; a reserved authority still never reuses the ID of an       *)
(* executed one, provided the clock is never set back.                     *)
ReservedAuthorityIsFresh ==
    phase = "RESERVED" /\ ~ClockMayStepBack => authority.id \notin spent

(* Recover accepts only evidence that was made after the abandoned         *)
(* execution completed, whatever time is written on it.                    *)
RecoveryTakesNewEvidence ==
    [][phase = "RECOVERY" /\ phase' # "RECOVERY" =>
          observation'.fingerprint.at > executionCompletedAt]_vars

(* docs/ARCHITECTURE.md: after a recovery, authorization is based on fresh *)
(* evidence.  Every execution is authorized by an observation made after   *)
(* the previous execution completed.                                       *)
FreshAuthorization ==
    \A p \in Callers : pc[p] = "executing" =>
        local[p].before.fingerprint.at > lastCompletedAt

-----------------------------------------------------------------------------
(* The kernel implements ControlBoundary.                                  *)

Stage ==
    CASE phase = "STARTED"  -> IF executionDone \in closed THEN "executed"
                                                           ELSE "executing"
      [] phase = "VERIFIED" -> "confirmed"
      [] phase = "RECOVERY" -> "recovery"
      [] OTHER              -> "open"

Pending ==
    IF phase \in {"STARTED", "VERIFIED", "RECOVERY"}
      THEN [before |-> Before(transition), after |-> After(transition)]
      ELSE None

BoundSubject == IF observation = None THEN None ELSE observation.subject

Boundary == INSTANCE ControlBoundary
              WITH stage <- Stage, pending <- Pending, subject <- BoundSubject

(* Concurrent callers, cancellations and late answers never show outside:  *)
(* the root and the executions behave as ControlBoundary says.             *)
BoundarySpec == Boundary!Spec
=============================================================================
