--------------------------- MODULE KernelInvariant ---------------------------
(* The inductive invariant behind the safety of Kernel, in named parts.    *)
EXTENDS Kernel

(* A caller has local variables exactly while it is in a call.             *)
CallerShape ==
    \A p \in Callers :
        /\ pc[p] = "idle" => local[p] = None
        /\ pc[p] # "idle" => local[p] \in Locals /\ local[p].done <= attempts
        /\ Judging(p) => local[p].transition # None /\ local[p].before # None

TypeInv == TypeOK /\ CallerShape

-----------------------------------------------------------------------------
(* What the lifecycle holds in each phase.                                 *)

Decided   == {"AUTHORIZED", "RESERVED", "STARTED", "VERIFIED", "COMMITTED",
              "RECOVERY"}
Attempted == {"STARTED", "VERIFIED", "COMMITTED", "RECOVERY"}

EvidenceHeld ==
    /\ phase # "IDLE" => observation # None
    /\ observation # None => Valid(observation)
    /\ phase \in Decided \cup {"RECONCILED"} =>
           transition # None /\ transition.observation = observation.fingerprint
    /\ phase \in Decided => ~IsNoop(transition)
    /\ phase \in Attempted \cup {"RESERVED"} => authority # None

ChannelHeld ==
    /\ phase \notin Attempted => executionDone = 0
    /\ phase \in Attempted => executionDone # 0
    /\ phase \in Attempted \ {"STARTED"} => executionDone \in closed
    /\ executionDone \in closed =>
           /\ executionCompletedAt # 0
           /\ executionResult # None
           /\ executionResult.attempt = executionDone
           /\ phase = "STARTED" => executionResult.success

-----------------------------------------------------------------------------
(* What a caller holds while it runs the provider's code.                  *)

ExecutorHolds ==
    \A p \in Callers : Executing(p) =>
        /\ phase = "STARTED"
        /\ executionDone = local[p].done
        /\ executionDone \notin closed
        /\ local[p].transition = transition
        /\ pc[p] = "executing" => local[p].before = observation

OneExecutor ==
    \A p, q \in Callers : Executing(p) /\ Executing(q) => p = q

HoldsVerification(p) ==
    (pc[p] = "waiting" \/ Judging(p)) /\ local[p].done = executionDone

VerifierHolds ==
    \A p \in Callers :
        HoldsVerification(p) /\ phase = "STARTED" => verificationActive

OneVerifier ==
    \A p, q \in Callers : HoldsVerification(p) /\ HoldsVerification(q) => p = q

JudgeHolds ==
    \A p \in Callers : Judging(p) =>
        /\ phase = "STARTED"
        /\ executionDone = local[p].done
        /\ executionDone \in closed
        /\ local[p].transition = transition
        /\ local[p].before = observation
        /\ local[p].completedAt = executionCompletedAt
        /\ local[p].execution = executionResult

CallersHold ==
    ExecutorHolds /\ OneExecutor /\ VerifierHolds /\ OneVerifier /\ JudgeHolds

-----------------------------------------------------------------------------
(* What accepted evidence shows, whatever the clock says later.            *)

Proves(o) ==
    /\ o # None
    /\ o.fingerprint.subject = Subject(transition)
    /\ o.fingerprint.state = After(transition)
    /\ o.fingerprint.at > executionCompletedAt
    /\ observation.token # NoToken =>
           o.fingerprint.token \notin {NoToken, observation.token}

EvidenceJudged ==
    /\ \A p \in Callers : pc[p] = "accepting" => Proves(local[p].evidence)
    /\ phase \in {"VERIFIED", "COMMITTED"} => Proves(accepted)

IInv ==
    /\ TypeInv
    /\ EvidenceHeld
    /\ ChannelHeld
    /\ CallersHold
    /\ EvidenceJudged
    /\ RootStableUntilCommit

-----------------------------------------------------------------------------
(* With a clock that is never set back, every executed ID is older than    *)
(* anything that can be reserved.                                          *)

SpentBy(t) == \A id \in spent : id.at <= t

IDsAge ==
    ~ClockMayStepBack =>
        /\ SpentBy(clock)
        /\ executionCompletedAt <= clock
        /\ executionDone # 0 /\ executionDone \in closed =>
               SpentBy(executionCompletedAt)
        /\ phase \notin {"STARTED", "RECOVERY"} => SpentBy(clock - 1)
        /\ phase = "RESERVED" =>
               /\ authority.id.at <= clock
               /\ SpentBy(authority.id.at - 1)
        /\ \A p \in Callers : pc[p] = "accepting" =>
               local[p].evidence.at <= clock /\ Valid(local[p].evidence)
=============================================================================
