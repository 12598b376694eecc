---------------------------- MODULE HostInvariant ----------------------------
(* The inductive invariants behind the theorems of HostProofs: HInv, what  *)
(* each Control call has gathered beside Kernel's own invariant, and with  *)
(* it CommitInv, how that relates to time and to the provider's writes.    *)
EXTENDS Host, KernelInvariant

(* One Control call at a time is between AcquireLifecycle and the release. *)
Inside(p) == step[p] \notin {"idle", "acquiring"}

OneInside ==
    \A p \in Callers : Inside(p) =>
        ~token /\ \A q \in Callers : Inside(q) => q = p

(* A call is inside a method of the Runtime only where Control calls it.   *)
InMethod ==
    \A p \in Callers :
        /\ Executing(p) <=> step[p] = "executing"
        /\ pc[p] = "waiting" \/ Judging(p) => step[p] = "verifying"

(* What it observed is genuine evidence, and what its caller expected.     *)
ObservedHeld ==
    \A p \in Callers :
        /\ step[p] \in {"idle", "acquiring", "observing"} => observed[p] = None
        /\ step[p] = "observed" => observed[p] # None
        /\ observed[p] # None =>
              LET o == observed[p] IN
              /\ Valid(o)
              /\ expected[p] \in
                    {None, [state |-> o.state, version |-> o.version]}

(* From then on to the execution it is the Runtime's observation.          *)
Underway == {"normalizing", "reconciling", "governing", "reserving",
             "starting", "executing"}

ObservationIsOwn ==
    \A p \in Callers : step[p] \in Underway =>
        observed[p] # None /\ observation = observed[p]

(* An Execute callback acts for the authority the Runtime holds, and on    *)
(* the observation it was granted for, whether or not anybody waits.       *)
EffectIsAuthorized ==
    \A p \in Callers : effect[p] = "running" =>
        /\ step[p] \in {"executing", "returning"}
        /\ authority # None /\ authority.id = callback[p].id
        /\ observed[p] # None /\ callback[p].before = observed[p]

HInv ==
    /\ IInv
    /\ HostTypeOK
    /\ OneInside
    /\ InMethod
    /\ ObservedHeld
    /\ ObservationIsOwn
    /\ EffectIsAuthorized

-----------------------------------------------------------------------------
(* How the evidence relates to the last execution that completed.          *)

Authorizing == {"OBSERVED", "NORMALIZED", "RECONCILED", "AUTHORIZED",
                "RESERVED"}

Authorized == \/ phase \in Authorizing
              \/ phase = "STARTED" /\ executionDone \notin closed

EvidenceIsLater ==
    /\ lastCompletedAt <= clock
    /\ phase \notin {"STARTED", "RECOVERY"} => lastCompletedAt < clock
    /\ phase \in Attempted /\ executionDone \in closed =>
           lastCompletedAt = executionCompletedAt
    /\ Authorized => observation.at > lastCompletedAt
    /\ \A p \in Callers :
           /\ step[p] = "observed" =>
                 /\ observed[p].at <= clock
                 /\ phase \notin {"STARTED", "RECOVERY"} =>
                       observed[p].at > lastCompletedAt
           /\ pc[p] = "accepting" =>
                 Valid(local[p].evidence) /\ local[p].evidence.at <= clock

-----------------------------------------------------------------------------
(* What the provider's writes are to the Runtime's authority.              *)

OwnWrites == {w \in writes : w.id = authority.id}

TheWrite == [id |-> authority.id, version |-> observation.version]

WritesAreSpent ==
    /\ phase \in Attempted => authority.id \in spent
    /\ \A p \in Callers : effect[p] = "running" =>
           phase = "RECOVERY" \/ Executing(p)
    /\ \A w \in writes : w.id \in spent
    /\ resource.execution \in spent \cup {None}

OneOwnWrite ==
    /\ \A p \in Callers :
           /\ step[p] \in (Underway \cup {"observing", "observed"})
                 \ {"executing"} => effect[p] = "none"
           /\ Executing(p) /\ effect[p] \in {"none", "running"} =>
                 OwnWrites = {}
           /\ Executing(p) /\ effect[p] = "done" => OwnWrites = {TheWrite}
    /\ phase \in {"VERIFIED", "COMMITTED"} => OwnWrites = {TheWrite}
    /\ phase = "STARTED" /\ executionDone \in closed =>
           OwnWrites = {TheWrite}

EvidenceShowsIt ==
    /\ phase = "STARTED" /\ resource.execution = authority.id =>
           resource.version = observation.version + 1
    /\ \A p \in Callers : pc[p] = "accepting" =>
           local[p].evidence.version = observation.version + 1
    /\ phase \in {"VERIFIED", "COMMITTED"} =>
           accepted.version = observation.version + 1

WritesHeld == WritesAreSpent /\ OneOwnWrite /\ EvidenceShowsIt

CommitInv == HInv /\ IDsAge /\ EvidenceIsLater /\ WritesHeld
=============================================================================
