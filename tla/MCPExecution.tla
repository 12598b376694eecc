----------------------------- MODULE MCPExecution -----------------------------
(***************************************************************************)
(* integrations/mcp/server.go, with a control provider behind it: how the  *)
(* outcome of one execution becomes the error code of one tool call.       *)
(*                                                                         *)
(* A call's executor goroutine may outlive its deadline.  It writes the    *)
(* provider's error into a variable of the call, without a lock, and sends *)
(* its result on a channel nobody may be reading any more; the call learns *)
(* from a second channel whether it may look at that variable.  What ends  *)
(* a call before it has executed anything reaches the same classification. *)
(* Module MCPServer has the rest of the lifecycle and leaves this out.     *)
(***************************************************************************)
CONSTANTS Calls, None

VARIABLES
    lifecycle,  \* is the Runtime's lifecycle free?
    gate,       \* is the server's provider gate free?
    inRecovery, \* is the Runtime in RECOVERY?
    caller,     \* where each tool call is
    recovering, \* calls that found the Runtime in RECOVERY
    ended,      \* calls whose execution context has ended
    worker,     \* where its executor goroutine is
    answer,     \* what the provider answered to it
    results,    \* the executor's result channel, None when empty
    outcomes,   \* the outcome channel, None when empty
    holder,     \* executionError
    code        \* the code in the tool result, None without one

(* History, read by properties only. *)
VARIABLE received  \* what Start returned to the call

callerVars == <<lifecycle, inRecovery, caller, recovering, ended, outcomes,
                code, received>>
workerVars == <<worker, answer, holder>>
vars       == <<gate, results, callerVars, workerVars>>

(* The provider succeeds, finds the observation stale, fails otherwise.    *)
Answers == {"ok", "stale", "other"}

(* What Start returns, and what the outcome channel tells of it.           *)
Returned == Answers \cup {"unadmitted", "timeout"}
Outcomes == {"completed", "timedOut"}
Codes    == {"stale_observation", "execution_failed"}

ASSUME NoneAssumption == None \notin Returned \cup Outcomes \cup Codes

Init ==
    /\ lifecycle = TRUE /\ gate = TRUE
    /\ inRecovery = FALSE
    /\ caller = [c \in Calls |-> "idle"]
    /\ recovering = {} /\ ended = {}
    /\ worker = [c \in Calls |-> "none"]
    /\ answer = [c \in Calls |-> None]
    /\ results = [c \in Calls |-> None]
    /\ outcomes = [c \in Calls |-> None]
    /\ holder = [c \in Calls |-> None]
    /\ code = [c \in Calls |-> None]
    /\ received = [c \in Calls |-> None]

(* The error variable belongs to the call. Mutant: it belongs to the server. *)
SlotShared(c) == CHOOSE d \in Calls : TRUE

Slot(c) == c

-----------------------------------------------------------------------------
(* controlWithExecutionError, up to Start *)

(* The lifecycle is over, and its error, if any, goes on to controlTool.   *)
LifecycleReturns(c, where) ==
    /\ lifecycle' = TRUE
    /\ caller' = [caller EXCEPT ![c] = where]
    /\ UNCHANGED <<gate, results, recovering, ended, outcomes, code, received,
                   workerVars>>

(* controlTool tells execution failures by how their text begins. *)
ErrorReturns(c, prefixed) ==
    LifecycleReturns(c, IF prefixed THEN "classifying" ELSE "done")

BeginControl(c) ==
    /\ caller[c] = "idle"
    /\ lifecycle /\ lifecycle' = FALSE
    /\ caller' = [caller EXCEPT ![c] = "observing"]
    /\ recovering' = IF inRecovery THEN recovering \cup {c} ELSE recovering
    /\ UNCHANGED <<gate, results, inRecovery, ended, outcomes, code, received,
                   workerVars>>

(* The provider's error, observed anew or for recovery, is returned as it  *)
(* is, whatever its text.  To have been asked, it had the gate.            *)
ObservationFails(c, prefixed) ==
    /\ caller[c] = "observing" /\ gate
    /\ ErrorReturns(c, prefixed)
    /\ UNCHANGED inRecovery

(* Refused or cancelled before Start, or the observation timed out: errors *)
(* with texts of their own.  Recover may have ended RECOVERY before.       *)
NotStarted(c) ==
    /\ caller[c] = "observing"
    /\ ErrorReturns(c, FALSE)
    /\ inRecovery' \in {inRecovery, FALSE}

-----------------------------------------------------------------------------
(* boundedExecutor.Execute, called by the Runtime *)

(* The call has observed, recovered if need be, and reserved authority. *)
StartExecution(c) ==
    /\ caller[c] = "observing" /\ gate
    /\ caller' = [caller EXCEPT ![c] = "admitting"]
    /\ inRecovery' = FALSE
    /\ UNCHANGED <<gate, results, lifecycle, recovering, ended, outcomes, code,
                   received, workerVars>>

(* Its deadline passes, or the client disconnects. *)
ContextEnds(c) ==
    /\ caller[c] \in {"admitting", "waiting"}
    /\ ended' = ended \cup {c}
    /\ UNCHANGED <<gate, results, lifecycle, inRecovery, caller, recovering,
                   outcomes, code, received, workerVars>>

(* The select may take the gate although the context has ended.            *)
AcquireProvider(c) ==
    /\ caller[c] = "admitting"
    /\ gate /\ gate' = FALSE
    /\ caller' = [caller EXCEPT ![c] = "waiting"]
    /\ worker' = [worker EXCEPT ![c] = "started"]
    /\ UNCHANGED <<results, lifecycle, inRecovery, recovering, ended, outcomes,
                   code, received, answer, holder>>

(* Mutant: every outcome is reported as a completion. *)
ReportCompleted(c, o) == outcomes' = [outcomes EXCEPT ![c] = "completed"]

ReportExecutionOutcome(c, o) == outcomes' = [outcomes EXCEPT ![c] = o]

(* A failed execution leaves the Runtime in RECOVERY. *)
StartReturns(c, r) ==
    /\ received' = [received EXCEPT ![c] = r]
    /\ caller' = [caller EXCEPT ![c] = "returned"]
    /\ inRecovery' = (r # "ok")
    /\ UNCHANGED <<gate, lifecycle, recovering, ended, code, workerVars>>

NotAdmitted(c) ==
    /\ caller[c] = "admitting" /\ c \in ended
    /\ ReportExecutionOutcome(c, "completed")
    /\ StartReturns(c, "unadmitted")
    /\ UNCHANGED results

ResultReceived(c) ==
    /\ caller[c] = "waiting" /\ results[c] # None
    /\ results' = [results EXCEPT ![c] = None]
    /\ ReportExecutionOutcome(c, "completed")
    /\ StartReturns(c, results[c])

ExecutionTimesOut(c) ==
    /\ caller[c] = "waiting" /\ c \in ended
    /\ ReportExecutionOutcome(c, "timedOut")
    /\ StartReturns(c, "timeout")
    /\ UNCHANGED results

-----------------------------------------------------------------------------
(* The goroutine: providerExecutor.Execute *)

WorkerAt(c, where) ==
    /\ worker' = [worker EXCEPT ![c] = where]
    /\ UNCHANGED callerVars

(* An ended context is an error like any other. *)
CallProvider(c) ==
    /\ worker[c] = "started"
    /\ IF c \in ended
         THEN WorkerAt(c, "failed") /\ answer' = [answer EXCEPT ![c] = "other"]
         ELSE WorkerAt(c, "calling") /\ UNCHANGED answer
    /\ UNCHANGED <<gate, results, holder>>

(* A result with another call's execution ID counts as a failure. *)
ProviderAnswers(c, a) ==
    /\ worker[c] = "calling"
    /\ answer' = [answer EXCEPT ![c] = a]
    /\ WorkerAt(c, IF a = "ok" THEN "finished" ELSE "failed")
    /\ UNCHANGED <<gate, results, holder>>

CaptureExecutionError(c) ==
    /\ worker[c] = "failed"
    /\ holder' = [holder EXCEPT ![Slot(c)] = answer[c]]
    /\ WorkerAt(c, "finished")
    /\ UNCHANGED <<gate, results, answer>>

SendResult(c) ==
    /\ worker[c] = "finished"
    /\ results' = [results EXCEPT ![c] = answer[c]]
    /\ WorkerAt(c, "releasing")
    /\ UNCHANGED <<gate, answer, holder>>

ReleaseProvider(c) ==
    /\ worker[c] = "releasing"
    /\ gate' = TRUE
    /\ WorkerAt(c, "none")
    /\ UNCHANGED <<results, answer, holder>>

-----------------------------------------------------------------------------
(* controlWithExecutionError after Start, and controlTool *)

ExecutionFailed(c) ==
    /\ caller[c] = "returned" /\ received[c] # "ok"
    /\ ErrorReturns(c, TRUE)
    /\ UNCHANGED inRecovery

(* Committed, or an error of Verify or Commit: "verification failed" or a  *)
(* sentinel of the kernel's, none of which begins like an execution's.     *)
ExecutionSucceeded(c) ==
    /\ caller[c] = "returned" /\ received[c] = "ok"
    /\ ErrorReturns(c, FALSE)
    /\ inRecovery' \in BOOLEAN

(* An outcome was sent, and it was no timeout.  Nothing was sent to a call *)
(* that never got to Start; its select takes the default.                  *)
Completed(c) == outcomes[c] = "completed"

ExecutionErrorValue(c) == IF Completed(c) THEN holder[Slot(c)] ELSE None

ExecutionFailureCode(c) ==
    IF outcomes[c] # "timedOut" /\ ExecutionErrorValue(c) = "stale"
      THEN "stale_observation" ELSE "execution_failed"

Classify(c) ==
    /\ caller[c] = "classifying"
    /\ code' = [code EXCEPT ![c] = ExecutionFailureCode(c)]
    /\ outcomes' = [outcomes EXCEPT ![c] = None]
    /\ caller' = [caller EXCEPT ![c] = "done"]
    /\ UNCHANGED <<gate, results, lifecycle, inRecovery, recovering, ended,
                   received, workerVars>>

-----------------------------------------------------------------------------
Control(c) ==
    \/ BeginControl(c) \/ NotStarted(c)
    \/ \E prefixed \in BOOLEAN : ObservationFails(c, prefixed)

Execute(c) ==
    \/ StartExecution(c) \/ ContextEnds(c) \/ AcquireProvider(c)
    \/ NotAdmitted(c) \/ ResultReceived(c) \/ ExecutionTimesOut(c)

Worker(c) ==
    \/ CallProvider(c) \/ \E a \in Answers : ProviderAnswers(c, a)
    \/ CaptureExecutionError(c) \/ SendResult(c) \/ ReleaseProvider(c)

ControlTool(c) ==
    ExecutionFailed(c) \/ ExecutionSucceeded(c) \/ Classify(c)

Next == \E c \in Calls :
    Control(c) \/ Execute(c) \/ Worker(c) \/ ControlTool(c)

Spec == Init /\ [][Next]_vars

-----------------------------------------------------------------------------
(* Properties *)

(* docs/MCP.md:45, 50: once a call is over, its code is stale_observation  *)
(* exactly if the provider told this very call, in time, that its          *)
(* observation was stale.  A timeout, a cancellation, a late answer to     *)
(* this call or any answer to another one is execution_failed, a call that *)
(* executed has no code, and one that never got to Start, an observation   *)
(* of a recovery having failed perhaps, is never told of a stale one.      *)
CodeIsOfOwnExecution ==
    \A c \in Calls : caller[c] = "done" =>
        /\ code[c] = "stale_observation" <=> received[c] = "stale"
        /\ received[c] \in {"other", "unadmitted", "timeout"} =>
              code[c] = "execution_failed"
        /\ received[c] = "ok" => code[c] = None

(* What docs/MCP.md:50 says beyond that, and the code does not keep: the   *)
(* error of a recovery is returned directly and is no execution            *)
(* classification, so a call that found the Runtime in RECOVERY has a code *)
(* only if it executed.  ObservationFails with the prefix refutes it.      *)
RecoveryErrorsAreDirect ==
    \A c \in recovering : code[c] # None => received[c] # None

(* No executor can still write the error variable a call is about to read: *)
(* the read and the write are not synchronized but by this.                *)
HolderIsSettled ==
    \A c, d \in Calls :
        caller[c] = "classifying" /\ Completed(c) /\ Slot(c) = Slot(d) =>
            worker[d] \notin {"started", "calling", "failed"}
=============================================================================
