---------------------------- MODULE MCPInvariant ----------------------------
(* The inductive invariants behind the theorems of MCPServerProofs: MInv,  *)
(* which keeps calls and callbacks apart, and with it CommitInv, how time  *)
(* and the provider's writes relate to the Runtime's authority.            *)
EXTENDS MCPServer, KernelInvariant

-----------------------------------------------------------------------------
(* Where a call is *)

(* One call at a time is between AcquireLifecycle and ReleaseLifecycle.    *)
Inside(p) == step[p] \notin {"idle", "acquiring"}

OneInside ==
    \A p \in Callers : Inside(p) =>
        ~token /\ \A q \in Callers : Inside(q) => q = p

(* A call is inside a method of the Runtime only where the server calls it.*)
InMethod ==
    \A p \in Callers :
        /\ Executing(p) <=> step[p] \in {"admitting", "executing"}
        /\ step[p] = "executing" => pc[p] = "executing"
        /\ pc[p] = "waiting" => step[p] = "verifying"
        /\ pc[p] = "verifying" => step[p] \in {"verifying", "checking"}
        /\ step[p] = "checking" => pc[p] = "verifying"
        /\ pc[p] \in {"accepting", "rejecting"} <=> step[p] = "judging"

(* Between Start and the verdict there is a call to bring it about.        *)
Attempting == {"admitting", "executing", "verifying", "checking", "judging"}

StartedIsHeld ==
    phase = "STARTED" => \E p \in Callers : step[p] \in Attempting

-----------------------------------------------------------------------------
(* What a call waits for *)

Unanswered(p) == callback[p] # None /\ ~callback[p].answered

(* A call that waits on results has started the callback, of the kind it   *)
(* waits for, that fills it: nothing of an earlier callback gets there.    *)
WaitsForOwn ==
    \A p \in Callers : Awaited(p) =>
        /\ Unanswered(p) <=> result[p] = None
        /\ Unanswered(p) =>
              \/ step[p] = "observing" /\ callback[p].kind = "observe"
              \/ step[p] = "executing" /\ callback[p].kind = "execute"
              \/ step[p] = "checking"  /\ callback[p].kind = "verify"

(* What it received from an observer or a verifier is genuine evidence.    *)
Evidencing == {"observing", "observed", "recovered", "checking"}

EvidenceReceived ==
    \A p \in Callers :
        /\ step[p] \in {"observed", "recovered"} =>
              result[p] # None /\ result[p].ok /\ ~Unanswered(p)
        /\ step[p] \in Evidencing /\ result[p] # None /\ result[p].ok =>
              result[p].evidence # None /\ Valid(result[p].evidence)

-----------------------------------------------------------------------------
(* What an Execute callback may do *)

(* While one is unanswered no later call has come further than the gate,   *)
(* so the Runtime still has the authority the callback acts for and the    *)
(* observation it was granted on.                                          *)
EffectIsAuthorized ==
    \A p \in Callers : Running(p, "execute") =>
        /\ \A q \in Callers :
              \/ step[q] \in {"idle", "acquiring", "asking", "returning"}
              \/ q = p /\ step[q] = "executing"
        /\ phase \in {"STARTED", "RECOVERY"}
        /\ authority # None /\ callback[p].id = authority.id
        /\ callback[p].before = observation
        /\ callback[p].after = After(transition)

(* What a call observed is later than every write.                         *)
ReadingShowsWrites ==
    /\ \A w \in writes : w.version < resource.version
    /\ \A p \in Callers :
          step[p] \in {"observing", "observed", "recovered"}
              /\ result[p] # None /\ result[p].ok =>
          \A w \in writes : w.version < result[p].evidence.version

MInv ==
    /\ IInv
    /\ GateConserved
    /\ OneInside
    /\ InMethod
    /\ StartedIsHeld
    /\ WaitsForOwn
    /\ EvidenceReceived
    /\ EffectIsAuthorized
    /\ ReadingShowsWrites

-----------------------------------------------------------------------------
(* How the evidence relates to the last execution that completed.          *)

Authorizing == {"OBSERVED", "NORMALIZED", "RECONCILED", "AUTHORIZED",
                "RESERVED"}

Authorized == \/ phase \in Authorizing
              \/ phase = "STARTED" /\ executionDone \notin closed

EvidenceIsLater ==
    /\ lastCompletedAt <= clock
    /\ phase \notin {"STARTED", "RECOVERY"} => lastCompletedAt < clock
    /\ phase \in Attempted /\ executionDone \in closed =>
           lastCompletedAt = executionCompletedAt
    /\ Authorized => observation.at > lastCompletedAt
    /\ \A p \in Callers :
           /\ step[p] \in Evidencing /\ result[p] # None /\ result[p].ok =>
                 /\ result[p].evidence.at <= clock
                 /\ phase \notin {"STARTED", "RECOVERY"} =>
                       result[p].evidence.at > lastCompletedAt
           /\ pc[p] = "accepting" =>
                 Valid(local[p].evidence) /\ local[p].evidence.at <= clock

-----------------------------------------------------------------------------
(* What the provider's writes are to the Runtime's authority.              *)

OwnWrites == {w \in writes : w.id = authority.id}

TheWrite == [id |-> authority.id, version |-> observation.version]

WritesAreSpent ==
    /\ phase \in Attempted => authority.id \in spent
    /\ \A w \in writes : w.id \in spent
    /\ resource.execution \in spent \cup {None}

OneOwnWrite ==
    /\ \A p \in Callers :
           /\ step[p] = "admitting" \/ Running(p, "execute") => OwnWrites = {}
           /\ step[p] = "executing" /\ result[p] # None /\ result[p].ok =>
                 OwnWrites = {TheWrite}
    /\ phase \in {"VERIFIED", "COMMITTED"} => OwnWrites = {TheWrite}
    /\ phase = "STARTED" /\ executionDone \in closed =>
           OwnWrites = {TheWrite}

EvidenceShowsIt ==
    /\ phase = "STARTED" /\ resource.execution = authority.id =>
           resource.version = observation.version + 1
    /\ \A p \in Callers :
           /\ step[p] = "checking" /\ Unanswered(p) =>
                 callback[p].id = authority.id
           /\ step[p] = "checking" /\ result[p] # None /\ result[p].ok =>
                 result[p].evidence.version = observation.version + 1
           /\ pc[p] = "accepting" =>
                 local[p].evidence.version = observation.version + 1
    /\ phase \in {"VERIFIED", "COMMITTED"} =>
           accepted.version = observation.version + 1

WritesHeld == WritesAreSpent /\ OneOwnWrite /\ EvidenceShowsIt

CommitInv == MInv /\ IDsAge /\ EvidenceIsLater /\ WritesHeld
=============================================================================
