-------------------------------- MODULE Host --------------------------------
(***************************************************************************)
(* control/host.go: Control calls that drive one Runtime (module Kernel)   *)
(* and one provider (module MemoryProvider), while other writers change    *)
(* the provider's resource.                                                *)
(*                                                                         *)
(* step[p] is the place of call p in Control.  Every kernel method it      *)
(* calls is Kernel's action, with the arguments Control passes.  Fields of *)
(* the ControlRequest that are first read late (desired state, lifetime,   *)
(* payload) are chosen where they are read.                                *)
(*                                                                         *)
(* Module ProviderGate shows that callbacks exclude each other and that    *)
(* the lifecycle is given back when the last of them returned; here a call *)
(* keeps the lifecycle while effect[p] = "running".  Observe and Verify    *)
(* callbacks only read, so one that outlives its deadline is not followed; *)
(* a callback the gate refuses is one that failed.                         *)
(***************************************************************************)
EXTENDS Kernel

CONSTANT MaxVersion    \* bound: last version other writers produce

VARIABLES
    token,      \* is the token in Runtime.lifecycleGate?
    step,       \* where each Control call is
    expected,   \* its ControlRequest.ExpectedObservation
    observed,   \* the observation its provider returned
    effect,     \* its Execute callback: none, running, done or refused
    callback,   \* what that callback, while it runs, was called with
    resource    \* the provider's resource

(* History, read by properties only. *)
VARIABLE
    writes      \* execution ID and version replaced, of each Execute

Provider == INSTANCE MemoryProvider

provider == <<effect, callback, resource, writes>>
hostVars == <<token, step, expected, observed, provider>>
allVars  == <<vars, hostVars>>

TheSubject == CHOOSE s \in Subjects : TRUE

Steps == {"idle", "acquiring", "observing", "observed", "normalizing",
          "reconciling", "governing", "reserving", "starting", "executing",
          "verifying", "committing", "returning"}

Readings == [state : States, version : Versions]

ExecuteRequests == [id : ExecutionIDs, before : Observations, payload : States]

Resources == [state : States, version : Versions,
              execution : ExecutionIDs \cup {None}]

Writes == [id : ExecutionIDs, version : Versions]

(* Versions is the bound on what anybody writes.                           *)
ASSUME HostAssumption ==
    /\ Subjects # {}
    /\ 1 \in Versions /\ Versions \subseteq Nat
    /\ None \notin Readings \cup ExecuteRequests \cup ExecutionIDs

HostInit ==
    /\ Init
    /\ token = TRUE
    /\ step = [p \in Callers |-> "idle"]
    /\ expected = [p \in Callers |-> None]
    /\ observed = [p \in Callers |-> None]
    /\ effect = [p \in Callers |-> "none"]
    /\ callback = [p \in Callers |-> None]
    /\ \E s \in States : resource = Provider!Fresh(s)
    /\ writes = {}

(* Control goes on; the lifecycle and what it gathered stay as they are. *)
Goto(p, where) ==
    /\ step' = [step EXCEPT ![p] = where]
    /\ UNCHANGED <<token, expected, observed>>

(* Any error ends the call; the lifecycle is still to be given back. *)
Fail(p) == Goto(p, "returning")

-----------------------------------------------------------------------------
(* Acquire and observe *)

(* A caller may name the reading it relies on. *)
Request(p, reading) ==
    /\ step[p] = "idle"
    /\ expected' = [expected EXCEPT ![p] = reading]
    /\ step' = [step EXCEPT ![p] = "acquiring"]
    /\ UNCHANGED <<vars, provider, token, observed>>

AcquireLifecycle(p) ==
    /\ step[p] = "acquiring"
    /\ token
    /\ token' = FALSE
    /\ step' = [step EXCEPT ![p] = "observing"]
    /\ effect' = [effect EXCEPT ![p] = "none"]
    /\ UNCHANGED <<vars, expected, observed, callback, resource, writes>>

(* The caller's context ended first; there is no lifecycle to give back. *)
GiveUp(p) ==
    /\ step[p] = "acquiring"
    /\ step' = [step EXCEPT ![p] = "idle"]
    /\ expected' = [expected EXCEPT ![p] = None]
    /\ UNCHANGED <<vars, provider, token, observed>>

(* Mutant: what the caller relied on is not compared. *)
ExpectsAnything(p) == p \in Callers

AsExpected(p) == expected[p] \in {None, Provider!Reading}

ObserveProvider(p) ==
    /\ step[p] = "observing"
    /\ AsExpected(p)
    /\ observed' = [observed EXCEPT ![p] =
          Sealed([subject |-> TheSubject, state |-> resource.state,
                  version |-> resource.version, token |-> NoToken,
                  at |-> clock])]
    /\ step' = [step EXCEPT ![p] = "observed"]
    /\ UNCHANGED <<vars, provider, token, expected>>

(* The provider failed, was late, or showed another state than expected. *)
ObserveFails(p) ==
    /\ step[p] = "observing"
    /\ Fail(p)
    /\ UNCHANGED <<vars, provider>>

-----------------------------------------------------------------------------
(* Authorize *)

HandToKernel(p) ==
    LET o == observed[p] IN
    /\ step[p] = "observed"
    /\ \/ phase = "RECOVERY" /\ Recover(o) /\ Goto(p, "normalizing")
       \/ phase # "RECOVERY" /\ Observe(o) /\ Goto(p, "normalizing")
    /\ UNCHANGED provider

KernelRefuses(p) ==
    LET o == observed[p] IN
    /\ step[p] = "observed"
    /\ \/ phase = "RECOVERY" /\ ~CanRecover(o)
       \/ phase # "RECOVERY" /\ ~CanObserve(o)
    /\ Fail(p)
    /\ UNCHANGED <<vars, provider>>

Authorize(p, desired, lifetime) ==
    /\ \/ /\ step[p] = "normalizing" /\ Goto(p, "reconciling")
          /\ Normalize([subject |-> TheSubject, target |-> desired])
       \/ /\ step[p] = "reconciling" /\ Goto(p, "governing")
          /\ Reconcile
       \/ /\ step[p] = "governing" /\ Goto(p, "reserving")
          /\ Govern([allowed |-> TRUE, transition |-> transition])
       \/ /\ step[p] = "reserving" /\ Goto(p, "starting")
          /\ Reserve(lifetime)
    /\ UNCHANGED provider

(* The policy denies or there is nothing to do; the lifetime is negative. *)
NotAuthorized(p) ==
    /\ \/ step[p] = "governing"
       \/ step[p] = "reserving" /\ \E lifetime \in Lifetimes : lifetime < 0
    /\ Fail(p)
    /\ UNCHANGED <<vars, provider>>

-----------------------------------------------------------------------------
(* Execute *)

StartExecution(p) ==
    /\ step[p] = "starting"
    /\ \/ Start(p) /\ Goto(p, "executing")
       \/ ~CanStart /\ Fail(p) /\ UNCHANGED vars
    /\ UNCHANGED provider

ReadAuthorized(p) ==
    /\ StartSnapshot(p)
    /\ UNCHANGED hostVars

(* providerExecutor.Execute starts the callback.  The payload is the       *)
(* caller's and need not be the desired state.                             *)
CallExecute(p, payload) ==
    /\ pc[p] = "executing" /\ effect[p] = "none"
    /\ effect' = [effect EXCEPT ![p] = "running"]
    /\ callback' = [callback EXCEPT ![p] =
          [id |-> authority.id, before |-> local[p].before,
           payload |-> payload]]
    /\ UNCHANGED <<vars, token, step, expected, observed, resource, writes>>

(* The callback may act long after its caller stopped waiting for it.      *)
ExecuteWrites(p) ==
    LET c == callback[p] IN
    /\ effect[p] = "running"
    /\ resource.version + 1 \in Versions
    /\ Provider!Unchanged(c.before)
    /\ Provider!Execute(c.id, c.payload)
    /\ writes' = writes \cup {[id |-> c.id, version |-> resource.version]}
    /\ effect' = [effect EXCEPT ![p] = "done"]
    /\ callback' = [callback EXCEPT ![p] = None]
    /\ UNCHANGED <<vars, token, step, expected, observed>>

(* The resource changed since, the context had ended, or it just fails. *)
ExecuteRefuses(p) ==
    /\ effect[p] = "running"
    /\ effect' = [effect EXCEPT ![p] = "refused"]
    /\ callback' = [callback EXCEPT ![p] = None]
    /\ UNCHANGED <<vars, token, step, expected, observed, resource, writes>>

(* The answer reached Control in time ... *)
ExecuteAnswered(p) ==
    /\ effect[p] = "done"
    /\ StartComplete(p, TRUE)
    /\ Goto(p, "verifying")
    /\ UNCHANGED provider

(* ... or it was an error, or there was no call, or nobody waits any more. *)
ExecuteFailed(p) ==
    /\ StartComplete(p, FALSE)
    /\ Fail(p)
    /\ UNCHANGED provider

-----------------------------------------------------------------------------
(* Verify, commit, return *)

StartVerification(p) ==
    /\ step[p] = "verifying"
    /\ Verify(p)
    /\ UNCHANGED hostVars

(* verifyCtx ends before the kernel's select: its deadline is h.timeout.   *)
VerificationCancelled(p) ==
    /\ VerifyCancel(p)
    /\ Fail(p)
    /\ UNCHANGED provider

VerificationWakes(p) ==
    /\ VerifyWake(p)
    /\ UNCHANGED hostVars

(* The provider's Verify, as providerVerifier turns it into an observation.*)
VerifyProvider(p) ==
    /\ pc[p] = "verifying"
    /\ \/ /\ Provider!Shows(authority.id, After(local[p].transition))
          /\ VerifierReturns(p,
                Sealed([subject |-> TheSubject, state |-> resource.state,
                        version |-> resource.version, token |-> NoToken,
                        at |-> clock]))
       \/ VerifierFails(p)
    /\ UNCHANGED hostVars

VerificationEnds(p) ==
    /\ \/ VerifyAccept(p) /\ Goto(p, "committing")
       \/ VerifyReject(p) /\ Fail(p)
    /\ UNCHANGED provider

CommitTransition(p) ==
    /\ step[p] = "committing"
    /\ Commit
    /\ Goto(p, "returning")
    /\ UNCHANGED provider

(* Mutant: the lifecycle is released when Control returns. *)
DrainedAtOnce(p) == step[p] = "returning"

(* outstanding.Wait(). *)
Drained(p) == effect[p] # "running"

ReleaseLifecycle(p) ==
    /\ step[p] = "returning"
    /\ Drained(p)
    /\ token' = TRUE
    /\ step' = [step EXCEPT ![p] = "idle"]
    /\ expected' = [expected EXCEPT ![p] = None]
    /\ observed' = [observed EXCEPT ![p] = None]
    /\ UNCHANGED <<vars, provider>>

-----------------------------------------------------------------------------
(* Everybody else *)

OtherWriter ==
    /\ resource.version < MaxVersion /\ resource.version + 1 \in Versions
    /\ \E s \in States : Provider!Set(s)
    /\ UNCHANGED <<vars, token, step, expected, observed, effect, callback,
                   writes>>

TimePasses == Tick /\ UNCHANGED hostVars

HostNext ==
    \/ TimePasses
    \/ OtherWriter
    \/ \E p \in Callers :
        \/ \E reading \in {None, Provider!Reading} : Request(p, reading)
        \/ AcquireLifecycle(p) \/ GiveUp(p)
        \/ ObserveProvider(p) \/ ObserveFails(p)
        \/ HandToKernel(p) \/ KernelRefuses(p)
        \/ \E desired \in States, lifetime \in Lifetimes :
               Authorize(p, desired, lifetime)
        \/ NotAuthorized(p)
        \/ StartExecution(p) \/ ReadAuthorized(p)
        \/ \E payload \in States : CallExecute(p, payload)
        \/ ExecuteWrites(p) \/ ExecuteRefuses(p)
        \/ ExecuteAnswered(p) \/ ExecuteFailed(p)
        \/ StartVerification(p) \/ VerificationCancelled(p)
        \/ VerificationWakes(p) \/ VerifyProvider(p) \/ VerificationEnds(p)
        \/ CommitTransition(p) \/ ReleaseLifecycle(p)

HostSpec == HostInit /\ [][HostNext]_allVars

-----------------------------------------------------------------------------
(* Properties *)

(* Every variable of the Host holds a value of its Go type, and a call     *)
(* that starts has no Execute callback left from the one before.           *)
HostTypeOK ==
    /\ token \in BOOLEAN
    /\ step \in [Callers -> Steps]
    /\ expected \in [Callers -> Readings \cup {None}]
    /\ observed \in [Callers -> Observations \cup {None}]
    /\ effect \in [Callers -> {"none", "running", "done", "refused"}]
    /\ callback \in [Callers -> ExecuteRequests \cup {None}]
    /\ \A p \in Callers : callback[p] # None <=> effect[p] = "running"
    /\ resource \in Resources
    /\ writes \subseteq Writes

(* Every write of a provider is by the authority the Runtime holds at that *)
(* moment: an Execute that outlived its deadline never acts in, or after,  *)
(* a later lifecycle.                                                      *)
OnlyCurrentAuthorityWrites ==
    [][\A w \in writes' \ writes :
          authority # None /\ authority.id = w.id]_allVars

(* Nothing is overwritten unseen: what an Execute replaces is what was     *)
(* authorized, and what its caller said it relies on, though the resource  *)
(* was read for that long before.                                          *)
NoLostUpdate ==
    [][\A p \in Callers : effect[p] = "running" /\ effect'[p] = "done" =>
          /\ resource.version = callback[p].before.version
          /\ expected[p] \in {None, Provider!Reading}]_allVars

(* A VERIFIED or COMMITTED lifecycle rests on one write of its own, which  *)
(* replaced the version it was authorized for, and its evidence shows the  *)
(* very version that write made.                                           *)
CommitShowsOwnWrite ==
    phase \in {"VERIFIED", "COMMITTED"} =>
        /\ {w \in writes : w.id = authority.id}
              = {[id |-> authority.id, version |-> observation.version]}
        /\ accepted.version = observation.version + 1

(* host_test.go, TestHostProviderVerificationTimeoutTransitionsToRecovery: *)
(* a verification that runs into its deadline leaves the Runtime in        *)
(* RECOVERY.  Whenever no Control call is under way it is not in STARTED,  *)
(* which only the call that started it can leave.                          *)
NotStranded == token => phase # "STARTED"
=============================================================================
