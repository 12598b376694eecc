------------------------------ MODULE MCPServer ------------------------------
(***************************************************************************)
(* integrations/mcp/server.go: calls of the ackos_control tool that drive  *)
(* one Runtime (module Kernel) and the synthetic provider.                 *)
(*                                                                         *)
(* Unlike the Host the server gives the lifecycle back as soon as a call   *)
(* returns.  What keeps a provider callback that outlived its deadline     *)
(* from meeting the next call is the server's provider gate, which every   *)
(* callback's goroutine holds until it returns and for which callers wait  *)
(* as long as their own deadline allows.                                   *)
(***************************************************************************)
EXTENDS Kernel

CONSTANT MaxVersion    \* bound: last version other writers produce

VARIABLES
    token,      \* is the token in Runtime.lifecycleGate?
    gate,       \* is the token in Server.providerGate?
    step,       \* where each call is
    callback,   \* the goroutine a call started: what it runs, None when over
    result,     \* what the call received, or can receive, from results
    resource    \* the provider's resource

(* History, read by properties only. *)
VARIABLE
    writes      \* execution ID and version replaced, of each Execute

Provider == INSTANCE SyntheticProvider

provider == <<resource, writes>>
calls    == <<gate, callback, result>>
mcpVars  == <<token, step, calls, provider>>
allVars  == <<vars, mcpVars>>

TheSubject == CHOOSE s \in Subjects : TRUE

Steps == {"idle", "acquiring", "asking", "observing", "observed", "recovered",
          "normalizing", "reconciling", "governing", "reserving", "starting",
          "admitting", "executing", "verifying", "checking", "judging",
          "committing", "returning"}

(* answered: the result is sent, the gate not yet released. *)
Goroutines ==
    [kind : {"observe", "execute", "verify"}, answered : BOOLEAN,
     id : ExecutionIDs \cup {None}, before : Observations \cup {None},
     after : States \cup {None}]

Goroutine(kind) ==
    [kind |-> kind, answered |-> FALSE, id |-> None, before |-> None,
     after |-> None]

Answers == [ok : BOOLEAN, evidence : Observations \cup {None}]

Resources == [state : States, version : Versions,
              execution : ExecutionIDs \cup {None}]

Writes == [id : ExecutionIDs, version : Versions]

(* Versions is the bound on what anybody writes.                           *)
ASSUME ServerAssumption ==
    /\ Subjects # {}
    /\ 1 \in Versions /\ Versions \subseteq Nat
    /\ None \notin Goroutines \cup Answers \cup ExecutionIDs

MCPInit ==
    /\ Init
    /\ token = TRUE /\ gate = TRUE
    /\ step = [p \in Callers |-> "idle"]
    /\ callback = [p \in Callers |-> None]
    /\ result = [p \in Callers |-> None]
    /\ \E s \in States : resource = Provider!NewResource(s)
    /\ writes = {}

Goto(p, where) ==
    /\ step' = [step EXCEPT ![p] = where]
    /\ UNCHANGED token

(* Any error ends the call. *)
Fail(p) == Goto(p, "returning")

-----------------------------------------------------------------------------
(* Provider callbacks: acquireProvider, then a goroutine *)

StartGoroutine(p, c) ==
    /\ gate
    /\ gate' = FALSE
    /\ callback' = [callback EXCEPT ![p] = c]
    /\ result' = [result EXCEPT ![p] = None]
    /\ UNCHANGED provider

(* The caller still selects on the channel; a late result is dropped. *)
Awaited(p) == step[p] \in {"observing", "executing", "checking"}

Send(p, r) ==
    /\ callback' = [callback EXCEPT ![p].answered = TRUE]
    /\ result' = [result EXCEPT ![p] = IF Awaited(p) THEN r ELSE None]
    /\ UNCHANGED <<vars, token, step, gate>>

Running(p, kind) ==
    callback[p] # None /\ callback[p].kind = kind /\ ~callback[p].answered

(* What a callback sends. *)
Failed == [ok |-> FALSE, evidence |-> None]
Done   == [ok |-> TRUE, evidence |-> None]

Reading ==
    [ok |-> TRUE, evidence |-> Sealed([
        subject |-> TheSubject, state |-> resource.state,
        version |-> resource.version, token |-> NoToken, at |-> clock])]

ObserverReads(p) ==
    /\ Running(p, "observe")
    /\ Send(p, Reading)
    /\ UNCHANGED provider

ExecutorWrites(p) ==
    LET c == callback[p] IN
    /\ Running(p, "execute")
    /\ resource.version + 1 \in Versions
    /\ Provider!Same(c.before)
    /\ Provider!Transitioned(c.id, c.after)
    /\ writes' = writes \cup {[id |-> c.id, version |-> resource.version]}
    /\ Send(p, Done)

VerifierReads(p) ==
    /\ Running(p, "verify")
    /\ Provider!Marked(callback[p].id, callback[p].after)
    /\ Send(p, Reading)
    /\ UNCHANGED provider

(* The context had ended, the resource is not as required, or it fails. *)
CallbackFails(p) ==
    /\ \E kind \in {"observe", "execute", "verify"} : Running(p, kind)
    /\ Send(p, Failed)
    /\ UNCHANGED provider

(* The deferred releaseProvider. *)
ReleaseProvider(p) ==
    /\ callback[p] # None /\ callback[p].answered
    /\ gate' = TRUE
    /\ callback' = [callback EXCEPT ![p] = None]
    /\ UNCHANGED <<vars, token, step, result, provider>>

(* Mutant: who stops waiting releases the gate. *)
AbandonReleasing(p) ==
    /\ gate' = TRUE
    /\ UNCHANGED <<callback, result, provider>>

(* A caller that stops waiting leaves gate and goroutine alone. *)
Abandon(p) == UNCHANGED <<calls, provider>>

-----------------------------------------------------------------------------
(* Lifecycle *)

Request(p) ==
    /\ step[p] = "idle"
    /\ step' = [step EXCEPT ![p] = "acquiring"]
    /\ UNCHANGED <<vars, token, calls, provider>>

AcquireLifecycle(p) ==
    /\ step[p] = "acquiring"
    /\ token
    /\ token' = FALSE
    /\ step' = [step EXCEPT ![p] = "asking"]
    /\ UNCHANGED <<vars, calls, provider>>

(* The request was cancelled: before it had the lifecycle ... *)
GiveUp(p) ==
    /\ step[p] = "acquiring"
    /\ Goto(p, "idle")
    /\ UNCHANGED <<vars, calls, provider>>

(* ... or where the call looks again, up to the reservation. *)
Cancelled(p) ==
    /\ step[p] \in {"asking", "observed", "reserving"}
    /\ Fail(p)
    /\ UNCHANGED <<vars, calls, provider>>

ReleaseLifecycle(p) ==
    /\ step[p] = "returning"
    /\ token' = TRUE
    /\ step' = [step EXCEPT ![p] = "idle"]
    /\ UNCHANGED <<vars, calls, provider>>

-----------------------------------------------------------------------------
(* Observe and authorize *)

AskToObserve(p) ==
    /\ step[p] = "asking"
    /\ StartGoroutine(p, Goroutine("observe"))
    /\ Goto(p, "observing")
    /\ UNCHANGED vars

ObservationReceived(p) ==
    /\ step[p] = "observing" /\ result[p] # None
    /\ IF result[p].ok THEN Goto(p, "observed") ELSE Fail(p)
    /\ UNCHANGED <<vars, calls, provider>>

(* Mutant: there is no deadline while waiting for the gate. *)
ObservationTimesOutOnceAdmitted(p) ==
    /\ step[p] = "observing"
    /\ Fail(p)
    /\ Abandon(p)
    /\ UNCHANGED vars

ObservationTimesOut(p) ==
    /\ step[p] \in {"asking", "observing"}
    /\ Fail(p)
    /\ Abandon(p)
    /\ UNCHANGED vars

(* In RECOVERY the observation is given to Recover first ... *)
RecoverRuntime(p) ==
    /\ step[p] = "observed" /\ phase = "RECOVERY"
    /\ IF CanRecover(result[p].evidence)
         THEN Recover(result[p].evidence) /\ Goto(p, "recovered")
         ELSE UNCHANGED vars /\ Fail(p)
    /\ UNCHANGED <<calls, provider>>

(* ... and then, as always, to Observe. *)
ObserveRuntime(p) ==
    /\ \/ step[p] = "observed" /\ phase # "RECOVERY"
       \/ step[p] = "recovered"
    /\ Observe(result[p].evidence)
    /\ Goto(p, "normalizing")
    /\ result' = [result EXCEPT ![p] = None]
    /\ UNCHANGED <<gate, callback, provider>>

Authorize(p, desired, lifetime) ==
    /\ \/ /\ step[p] = "normalizing" /\ Goto(p, "reconciling")
          /\ Normalize([subject |-> TheSubject, target |-> desired])
       \/ /\ step[p] = "reconciling" /\ Goto(p, "governing")
          /\ Reconcile
       \/ /\ step[p] = "governing" /\ Goto(p, "reserving")
          /\ Govern([allowed |-> TRUE, transition |-> transition])
       \/ /\ step[p] = "reserving" /\ Goto(p, "starting")
          /\ Reserve(lifetime)
    /\ UNCHANGED <<calls, provider>>

(* The policy denies, or there is nothing to do. *)
NotAuthorized(p) ==
    /\ step[p] = "governing"
    /\ Fail(p)
    /\ UNCHANGED <<vars, calls, provider>>

-----------------------------------------------------------------------------
(* Execute: boundedExecutor inside Start *)

StartExecution(p) ==
    /\ step[p] = "starting"
    /\ \/ Start(p) /\ Goto(p, "admitting")
       \/ ~CanStart /\ Fail(p) /\ UNCHANGED vars
    /\ UNCHANGED <<calls, provider>>

ReadAuthorized(p) ==
    /\ StartSnapshot(p)
    /\ UNCHANGED mcpVars

AskToExecute(p) ==
    /\ step[p] = "admitting" /\ pc[p] = "executing"
    /\ StartGoroutine(p, [Goroutine("execute") EXCEPT
                            !.id = authority.id, !.before = local[p].before,
                            !.after = After(local[p].transition)])
    /\ Goto(p, "executing")
    /\ UNCHANGED vars

ExecutionReceived(p) ==
    /\ step[p] = "executing" /\ result[p] # None
    /\ StartComplete(p, result[p].ok)
    /\ IF result[p].ok THEN Goto(p, "verifying") ELSE Fail(p)
    /\ UNCHANGED <<calls, provider>>

ExecutionTimesOut(p) ==
    /\ step[p] \in {"admitting", "executing"}
    /\ StartComplete(p, FALSE)
    /\ Fail(p)
    /\ Abandon(p)

-----------------------------------------------------------------------------
(* Verify: boundedVerifier inside Verify, whose own context never ends *)

StartVerification(p) ==
    /\ step[p] = "verifying"
    /\ Verify(p) \/ VerifyWake(p)
    /\ UNCHANGED mcpVars

AskToVerify(p) ==
    /\ step[p] = "verifying" /\ pc[p] = "verifying"
    /\ StartGoroutine(p, [Goroutine("verify") EXCEPT
                            !.id = authority.id,
                            !.after = After(local[p].transition)])
    /\ Goto(p, "checking")
    /\ UNCHANGED vars

VerificationReceived(p) ==
    /\ step[p] = "checking" /\ result[p] # None
    /\ IF result[p].ok THEN VerifierReturns(p, result[p].evidence)
                       ELSE VerifierFails(p)
    /\ Goto(p, "judging")
    /\ UNCHANGED <<calls, provider>>

VerificationTimesOut(p) ==
    /\ step[p] \in {"verifying", "checking"}
    /\ VerifierFails(p)
    /\ Goto(p, "judging")
    /\ Abandon(p)

VerificationEnds(p) ==
    /\ \/ VerifyAccept(p) /\ Goto(p, "committing")
       \/ VerifyReject(p) /\ Fail(p)
    /\ UNCHANGED <<calls, provider>>

CommitTransition(p) ==
    /\ step[p] = "committing"
    /\ Commit
    /\ Goto(p, "returning")
    /\ UNCHANGED <<calls, provider>>

-----------------------------------------------------------------------------
OtherWriter ==
    /\ resource.version < MaxVersion /\ resource.version + 1 \in Versions
    /\ \E s \in States : Provider!Set(s)
    /\ UNCHANGED <<vars, token, step, calls, writes>>

TimePasses == Tick /\ UNCHANGED mcpVars

(* What the goroutine of the tool call does by itself. *)
Progress(p) ==
    \/ AskToObserve(p) \/ ObservationReceived(p) \/ ObservationTimesOut(p)
    \/ RecoverRuntime(p) \/ ObserveRuntime(p)
    \/ \E desired \in States, lifetime \in Lifetimes :
           Authorize(p, desired, lifetime)
    \/ NotAuthorized(p)
    \/ StartExecution(p) \/ ReadAuthorized(p)
    \/ AskToExecute(p) \/ ExecutionReceived(p) \/ ExecutionTimesOut(p)
    \/ StartVerification(p) \/ AskToVerify(p)
    \/ VerificationReceived(p) \/ VerificationTimesOut(p)
    \/ VerificationEnds(p) \/ CommitTransition(p)
    \/ ReleaseLifecycle(p)

CallbackStep(p) ==
    \/ ObserverReads(p) \/ ExecutorWrites(p) \/ VerifierReads(p)
    \/ CallbackFails(p) \/ ReleaseProvider(p)

MCPNext ==
    \/ TimePasses \/ OtherWriter
    \/ \E p \in Callers :
        \/ Request(p) \/ AcquireLifecycle(p) \/ GiveUp(p) \/ Cancelled(p)
        \/ Progress(p) \/ CallbackStep(p)

MCPSpec == MCPInit /\ [][MCPNext]_allVars

(* Goroutines of tool calls are scheduled and their deadlines pass; nothing *)
(* is assumed of the provider's code or of the clients.                     *)
FairMCPSpec == MCPSpec /\ \A p \in Callers : WF_allVars(Progress(p))

-----------------------------------------------------------------------------
(* Properties *)

(* Every variable holds a value of its Go type; the gate's token is in its  *)
(* channel or with one callback, never twice and never lost, so callbacks   *)
(* exclude each other (TestControlDoesNotOverlapTimedOutProviderCall).      *)
GateConserved ==
    /\ token \in BOOLEAN /\ gate \in BOOLEAN
    /\ step \in [Callers -> Steps]
    /\ callback \in [Callers -> Goroutines \cup {None}]
    /\ result \in [Callers -> Answers \cup {None}]
    /\ resource \in Resources /\ writes \subseteq Writes
    /\ gate <=> \A p \in Callers : callback[p] = None
    /\ \A p, q \in Callers : callback[p] # None /\ callback[q] # None => p = q

(* The observation a recovery is based on shows whatever the abandoned      *)
(* execution did to the resource, although that execution's callback may    *)
(* have written long after it was reported to have failed, when the kernel  *)
(* took its completion time.                                                *)
RecoverySeesAbandonedWrite ==
    [][phase = "RECOVERY" /\ phase' = "OBSERVED" =>
          \A w \in writes :
              w.id = authority.id => observation'.version > w.version]_allVars

(* As in module Host: every write is by the authority the Runtime holds at  *)
(* that moment.                                                             *)
OnlyCurrentAuthorityWrites ==
    [][\A w \in writes' \ writes :
          authority # None /\ authority.id = w.id]_allVars

(* As in module Host: a VERIFIED or COMMITTED lifecycle rests on one write  *)
(* of its own, and its evidence shows the version that write made.          *)
CommitShowsOwnWrite ==
    phase \in {"VERIFIED", "COMMITTED"} =>
        /\ {w \in writes : w.id = authority.id}
              = {[id |-> authority.id, version |-> observation.version]}
        /\ accepted.version = observation.version + 1

(* docs/MCP.md: a disconnected caller cannot strand the shared Runtime in   *)
(* STARTED.                                                                 *)
NotStranded == token => phase # "STARTED"

(* A tool call is answered, or gets as far as Start, although the provider  *)
(* never returns from a callback, of this call or of an earlier one.        *)
CallIsAnswered ==
    \A p \in Callers :
        /\ step[p] = "asking" ~> step[p] \in {"starting", "returning"}
        /\ step[p] = "admitting" ~> step[p] = "returning"
=============================================================================
