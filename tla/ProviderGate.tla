---------------------------- MODULE ProviderGate ----------------------------
(***************************************************************************)
(* control/provider_gate.go and the invocation bookkeeping of              *)
(* control/host.go, goroutine by goroutine: Control calls of several Hosts *)
(* that share one Runtime and reach one provider.                          *)
(*                                                                         *)
(* A Control call takes the Runtime's lifecycle token, makes up to three   *)
(* callbacks (observe, execute, verify), each in a goroutine of its own    *)
(* behind its Host's provider gate, and on return leaves a goroutine       *)
(* behind that gives the token back when every callback has returned.      *)
(* What the callbacks compute is left out: an answer lets the call go on   *)
(* or ends it.                                                             *)
(***************************************************************************)
EXTENDS Integers

CONSTANTS
    Requests,   \* Control calls
    Hosts,
    HostOf      \* the Host each Control call is made on

ASSUME GateAssumption == HostOf \in [Requests -> Hosts]

(* The callbacks of a Control call, in order; only execute has a grace     *)
(* period after its deadline (executionResultGrace).                       *)
Callbacks == <<"observe", "execute", "verify">>
HasGrace(n) == Callbacks[n] = "execute"

VARIABLES
    token,        \* is the token in Runtime.lifecycleGate?
    busy,         \* busy[h]: providerGate.busy of Host h's gate
    pc,           \* where each Control call is
    next,         \* the callback it makes next, or waits for
    outstanding,  \* outstanding[r]: invocation.outstanding, a WaitGroup
    callback,     \* where the goroutine of its current callback is
    refused       \* the calls that ended with ErrCallbackInFlight

vars == <<token, busy, pc, next, outstanding, callback, refused>>

PCs == {"arriving",   \* in AcquireLifecycle
        "between",    \* holds the lifecycle, waits for no callback
        "waiting",    \* in callProvider's select
        "late",       \* ctx.Done was chosen
        "grace",      \* in the select on the grace timer
        "expired",    \* the timer was chosen
        "collecting", \* in a plain receive from done
        "draining",   \* returned; its releaseWhenDone goroutine waits
        "finished"}

(* A callback's goroutine between the statements other goroutines see.     *)
CallbackPCs == {"none", "running", "returned", "left", "completed", "sent"}

(* Control has not returned to its caller. *)
InControl(r) == pc[r] \notin {"draining", "finished"}

Init ==
    /\ token = TRUE
    /\ busy = [h \in Hosts |-> FALSE]
    /\ pc = [r \in Requests |-> "arriving"]
    /\ next = [r \in Requests |-> 1]
    /\ outstanding = [r \in Requests |-> 0]
    /\ callback = [r \in Requests |-> "none"]
    /\ refused = {}

Go(r, where) == pc' = [pc EXCEPT ![r] = where]

-----------------------------------------------------------------------------
(* The calling goroutine *)

Acquire(r) ==
    /\ pc[r] = "arriving"
    /\ token
    /\ token' = FALSE
    /\ Go(r, "between")
    /\ UNCHANGED <<busy, next, outstanding, callback, refused>>

(* Mutant: the release is deferred before the acquisition is checked. *)
GiveUpReleasing(r) ==
    /\ pc[r] = "arriving"
    /\ Go(r, "draining")
    /\ UNCHANGED <<token, busy, next, outstanding, callback, refused>>

(* The caller's context ended first. *)
GiveUp(r) ==
    /\ pc[r] = "arriving"
    /\ Go(r, "finished")
    /\ UNCHANGED <<token, busy, next, outstanding, callback, refused>>

(* invokeProvider and tryEnter: count the callback, occupy the gate, start *)
(* the goroutine ...                                                       *)
Call(r) ==
    /\ pc[r] = "between" /\ next[r] \in DOMAIN Callbacks
    /\ ~busy[HostOf[r]]
    /\ busy' = [busy EXCEPT ![HostOf[r]] = TRUE]
    /\ outstanding' = [outstanding EXCEPT ![r] = @ + 1]
    /\ callback' = [callback EXCEPT ![r] = "running"]
    /\ Go(r, "waiting")
    /\ UNCHANGED <<token, next, refused>>

(* Mutant: a call that was not admitted stays counted. *)
RefuseStaysCounted(r) ==
    /\ pc[r] = "between" /\ next[r] \in DOMAIN Callbacks
    /\ busy[HostOf[r]]
    /\ outstanding' = [outstanding EXCEPT ![r] = @ + 1]
    /\ refused' = refused \cup {r}
    /\ Go(r, "draining")
    /\ UNCHANGED <<token, busy, next, callback>>

(* ... or return ErrCallbackInFlight, which ends the Control call; Add(1)  *)
(* and Done() cancel out.                                                  *)
Refuse(r) ==
    /\ pc[r] = "between" /\ next[r] \in DOMAIN Callbacks
    /\ busy[HostOf[r]]
    /\ refused' = refused \cup {r}
    /\ Go(r, "draining")
    /\ UNCHANGED <<token, busy, next, outstanding, callback>>

(* The answer arrived. *)
Answered(r) ==
    /\ Go(r, "between")
    /\ next' = [next EXCEPT ![r] = @ + 1]
    /\ callback' = [callback EXCEPT ![r] = "none"]
    /\ UNCHANGED <<token, busy, outstanding, refused>>

Receive(r) ==
    /\ pc[r] \in {"waiting", "grace", "collecting"}
    /\ callback[r] = "sent"
    /\ Answered(r)

(* Mutant: a caller that stops waiting leaves the gate itself. *)
DeadlineLeavesGate(r) ==
    /\ pc[r] = "waiting" /\ Go(r, "late")
    /\ busy' = [busy EXCEPT ![HostOf[r]] = FALSE]
    /\ UNCHANGED <<token, next, outstanding, callback, refused>>

(* A deadline or a timer; the selects choose freely when done is ready too.*)
Deadline(r) ==
    /\ \/ pc[r] = "waiting" /\ Go(r, "late")
       \/ pc[r] = "grace"   /\ Go(r, "expired")
    /\ UNCHANGED <<token, busy, next, outstanding, callback, refused>>

(* Mutant: completed is stored before the callback runs. *)
CompletedEarly(r) == callback[r] # "none"

(* completed.Load(). *)
Completed(r) == callback[r] \in {"completed", "sent"}

AfterDeadline(r) ==
    /\ \/ pc[r] \in {"late", "expired"} /\ Completed(r) /\ Go(r, "collecting")
       \/ pc[r] = "late" /\ ~Completed(r) /\ HasGrace(next[r]) /\ Go(r, "grace")
       \/ pc[r] = "late" /\ ~Completed(r) /\ ~HasGrace(next[r])
            /\ Go(r, "draining")
       \/ pc[r] = "expired" /\ ~Completed(r) /\ Go(r, "draining")
    /\ UNCHANGED <<token, busy, next, outstanding, callback, refused>>

(* Control ends between two callbacks, or after the last.                  *)
Return(r) ==
    /\ pc[r] = "between"
    /\ Go(r, "draining")
    /\ UNCHANGED <<token, busy, next, outstanding, callback, refused>>

(* Mutant: the lifecycle is released as soon as Control returns. *)
DrainedAtOnce(r) == pc[r] = "draining"

(* outstanding.Wait() in the goroutine releaseWhenDone started. *)
Drained(r) == outstanding[r] = 0

Release(r) ==
    /\ pc[r] = "draining"
    /\ Drained(r)
    /\ ~token
    /\ token' = TRUE
    /\ Go(r, "finished")
    /\ UNCHANGED <<busy, next, outstanding, callback, refused>>

-----------------------------------------------------------------------------
(* The callback's goroutine.  outstanding.Done() is deferred inside the    *)
(* function the gate runs, so it comes before gate.leave().                *)

Step(r, from, to) ==
    /\ callback[r] = from
    /\ callback' = [callback EXCEPT ![r] = to]

CallbackReturns(r) ==
    /\ Step(r, "running", "returned")
    /\ outstanding' = [outstanding EXCEPT ![r] = @ - 1]
    /\ UNCHANGED <<token, busy, pc, next, refused>>

LeaveGate(r) ==
    /\ Step(r, "returned", "left")
    /\ busy' = [busy EXCEPT ![HostOf[r]] = FALSE]
    /\ UNCHANGED <<token, pc, next, outstanding, refused>>

StoreCompleted(r) ==
    /\ Step(r, "left", "completed")
    /\ UNCHANGED <<token, busy, pc, next, outstanding, refused>>

SendAnswer(r) ==
    /\ Step(r, "completed", "sent")
    /\ UNCHANGED <<token, busy, pc, next, outstanding, refused>>

AfterCallback(r) == LeaveGate(r) \/ StoreCompleted(r) \/ SendAnswer(r)

-----------------------------------------------------------------------------
Progress(r) == Call(r) \/ Refuse(r) \/ Return(r)

Next ==
    \E r \in Requests :
        \/ Acquire(r) \/ GiveUp(r)
        \/ Progress(r)
        \/ Receive(r) \/ Deadline(r) \/ AfterDeadline(r)
        \/ Release(r)
        \/ CallbackReturns(r) \/ AfterCallback(r)

Spec == Init /\ [][Next]_vars

(* Running goroutines are scheduled, deadlines and timers fire.  A provider *)
(* may never return from a callback.                                       *)
FairSpec ==
    /\ Spec
    /\ \A r \in Requests :
          /\ WF_vars(Progress(r))
          /\ WF_vars(Receive(r))
          /\ WF_vars(Deadline(r))
          /\ WF_vars(AfterDeadline(r))
          /\ WF_vars(AfterCallback(r))

(* Providers return from every callback, and whoever waits for the         *)
(* lifecycle keeps waiting until it gets it.                               *)
Cooperation ==
    \A r \in Requests :
        /\ WF_vars(CallbackReturns(r))
        /\ WF_vars(Acquire(r))
        /\ WF_vars(Release(r))

-----------------------------------------------------------------------------
(* Properties *)

(* Every variable holds a value of its Go type; a WaitGroup never goes     *)
(* below zero (it would panic).                                            *)
TypeOK ==
    /\ token \in BOOLEAN
    /\ busy \in [Hosts -> BOOLEAN]
    /\ pc \in [Requests -> PCs]
    /\ next \in [Requests -> 1..4]
    /\ outstanding \in [Requests -> {0, 1}]
    /\ callback \in [Requests -> CallbackPCs]
    /\ refused \subseteq Requests

Holding(r) == pc[r] \notin {"arriving", "finished"}

(* The lifecycle token is in the channel or with one Control call, never   *)
(* twice and never lost: a second release would block its goroutine, a     *)
(* missing one every later Control call.                                   *)
OneLifecycle ==
    /\ \A r, q \in Requests : Holding(r) /\ Holding(q) => r = q
    /\ token <=> \A r \in Requests : ~Holding(r)

(* Two callbacks never run at once, whichever Host they were called        *)
(* through and however long after its deadline one of them returns.        *)
OneCallbackAtATime ==
    \A r, q \in Requests :
        callback[r] = "running" /\ callback[q] = "running" => r = q

(* While a callback runs its Host's gate is occupied, so the next call on  *)
(* that Host is refused, not started beside it.                            *)
GateCoversCallback ==
    \A r \in Requests :
        callback[r] \in {"running", "returned"} => busy[HostOf[r]]

(* provider_gate.go:12: a call is refused only because a prior callback    *)
(* is still running.                                                       *)
RefusalIsHonest ==
    [][\A r \in refused' \ refused :
          \E q \in Requests :
              HostOf[q] = HostOf[r] /\ callback[q] = "running"]_vars

(* Control returns to its caller although the provider never answers.      *)
CallerIsAnswered ==
    \A r \in Requests : pc[r] = "between" ~> ~InControl(r)

(* If providers return, every Control call gets the lifecycle and gives it *)
(* back.                                                                   *)
LifecycleComesRound ==
    Cooperation =>
        \A r \in Requests : pc[r] = "arriving" ~> pc[r] = "finished"
=============================================================================
