-------------------------- MODULE MCPExecutionProofs --------------------------
(* Theorems about MCPExecution, for any number of calls. *)
EXTENDS MCPExecution, TLAPS

TypeInv ==
    /\ caller \in [Calls -> {"idle", "observing", "admitting", "waiting",
                             "returned", "classifying", "done"}]
    /\ worker \in [Calls -> {"none", "started", "calling", "failed",
                             "finished", "releasing"}]
    /\ answer \in [Calls -> Answers \cup {None}]
    /\ results \in [Calls -> Answers \cup {None}]
    /\ outcomes \in [Calls -> Outcomes \cup {None}]
    /\ holder \in [Calls -> Answers \cup {None}]
    /\ code \in [Calls -> Codes \cup {None}]
    /\ received \in [Calls -> Returned \cup {None}]

(* Nothing has happened to a call that waits for the gate. *)
Unadmitted ==
    \A c \in Calls : caller[c] \in {"idle", "observing", "admitting"} =>
        worker[c] = "none" /\ holder[c] = None /\ results[c] = None

(* Start has not returned to it. *)
Unanswered ==
    \A c \in Calls :
        caller[c] \in {"idle", "observing", "admitting", "waiting"} =>
            received[c] = None /\ outcomes[c] = None

(* The code is the last thing a call gets. *)
Unclassified ==
    \A c \in Calls : caller[c] # "done" => code[c] = None

(* A call that ended before Start has no worker, and the select of          *)
(* controlTool finds its outcome channel empty.                            *)
NothingExecuted ==
    \A c \in Calls :
        caller[c] \in {"classifying", "done"} /\ received[c] = None =>
            /\ worker[c] = "none" /\ holder[c] = None
            /\ outcomes[c] = None

Settled(c) == worker[c] \in {"releasing", "none"}

(* The error variable is written before the result is sent, so whoever has *)
(* the result has the variable that goes with it.                          *)
AnswerHeld ==
    \A c \in Calls :
        /\ worker[c] \in {"started", "calling", "failed"} =>
              holder[c] = None /\ results[c] = None
        /\ worker[c] = "failed" => answer[c] \in {"stale", "other"}
        /\ worker[c] = "finished" =>
              /\ answer[c] \in Answers /\ results[c] = None
              /\ holder[c] = "stale" <=> answer[c] = "stale"
        /\ results[c] # None =>
              Settled(c) /\ (holder[c] = "stale" <=> results[c] = "stale")

(* What Start returned is what the channel and the error variable tell. *)
ReceivedHeld ==
    \A c \in Calls :
        /\ received[c] \in Answers =>
              Settled(c) /\ (holder[c] = "stale" <=> received[c] = "stale")
        /\ received[c] = "unadmitted" => worker[c] = "none" /\ holder[c] = None
        /\ caller[c] = "returned" => received[c] # None
        /\ caller[c] = "classifying" => received[c] # "ok"
        /\ caller[c] \in {"returned", "classifying"} /\ received[c] # None =>
              outcomes[c] = IF received[c] = "timeout" THEN "timedOut"
                                                       ELSE "completed"

IInv ==
    /\ TypeInv
    /\ Unadmitted
    /\ Unanswered
    /\ Unclassified
    /\ NothingExecuted
    /\ AnswerHeld
    /\ ReceivedHeld
    /\ CodeIsOfOwnExecution

-----------------------------------------------------------------------------
LEMMA NoneIsNoValue ==
    /\ None \notin Answers /\ None \notin Returned
    /\ None # "stale" /\ None # "completed" /\ None # "timedOut"
    /\ None # "stale_observation" /\ None # "execution_failed"
BY NoneAssumption DEF Answers, Returned, Outcomes, Codes

LEMMA InvInit == Init => IInv
BY NoneIsNoValue
   DEF Init, IInv, TypeInv, Unadmitted, Unanswered, Unclassified,
       NothingExecuted, AnswerHeld, Settled, ReceivedHeld,
       CodeIsOfOwnExecution, Answers, Returned, Outcomes, Codes

(* The steps of a call up to Start, under its own execution, of its        *)
(* goroutine, and of controlTool.                                          *)
LEMMA ControlKeeps ==
    ASSUME IInv, NEW c \in Calls, Control(c) PROVE IInv'
<1> USE NoneIsNoValue
    DEF IInv, TypeInv, Unadmitted, Unanswered, Unclassified, NothingExecuted,
        AnswerHeld, Settled, ReceivedHeld, CodeIsOfOwnExecution, workerVars,
        LifecycleReturns, ErrorReturns, Outcomes, Codes
<1>1. CASE BeginControl(c)
  BY <1>1 DEF BeginControl
<1>2. CASE NotStarted(c)
  BY <1>2 DEF NotStarted, Answers, Returned
<1>3. ASSUME NEW prefixed \in BOOLEAN, ObservationFails(c, prefixed)
      PROVE  IInv'
  <2>1. CASE prefixed
    BY <1>3, <2>1 DEF ObservationFails, Answers, Returned
  <2>2. CASE ~prefixed
    BY <1>3, <2>2 DEF ObservationFails, Answers, Returned
  <2> QED
    BY <2>1, <2>2
<1> QED
  BY <1>1, <1>2, <1>3 DEF Control

LEMMA ExecuteKeeps ==
    ASSUME IInv, NEW c \in Calls, Execute(c) PROVE IInv'
<1> USE NoneIsNoValue
    DEF IInv, TypeInv, Unadmitted, Unanswered, Unclassified, NothingExecuted,
        AnswerHeld, Settled, ReceivedHeld, CodeIsOfOwnExecution, callerVars,
        workerVars, Outcomes, Codes
<1>1. CASE StartExecution(c)
  BY <1>1 DEF StartExecution
<1>2. CASE ContextEnds(c)
  BY <1>2 DEF ContextEnds
<1>3. CASE AcquireProvider(c)
  BY <1>3 DEF AcquireProvider, Answers, Returned
<1>4. CASE NotAdmitted(c)
  BY <1>4 DEF NotAdmitted, ReportExecutionOutcome, StartReturns, Answers,
              Returned
<1>5. CASE ResultReceived(c)
  BY <1>5 DEF ResultReceived, ReportExecutionOutcome, StartReturns, Answers,
              Returned
<1>6. CASE ExecutionTimesOut(c)
  BY <1>6 DEF ExecutionTimesOut, ReportExecutionOutcome, StartReturns, Answers,
              Returned
<1> QED
  BY <1>1, <1>2, <1>3, <1>4, <1>5, <1>6 DEF Execute

LEMMA WorkerKeeps ==
    ASSUME IInv, NEW c \in Calls, Worker(c) PROVE IInv'
<1> USE NoneIsNoValue
    DEF IInv, TypeInv, Unadmitted, Unanswered, Unclassified, NothingExecuted,
        AnswerHeld, Settled, ReceivedHeld, CodeIsOfOwnExecution, callerVars,
        WorkerAt, Outcomes, Codes
<1>1. CASE CallProvider(c)
  BY <1>1 DEF CallProvider, Answers, Returned
<1>2. ASSUME NEW a \in Answers, ProviderAnswers(c, a) PROVE IInv'
  BY <1>2 DEF ProviderAnswers, Answers, Returned
<1>3. CASE CaptureExecutionError(c)
  BY <1>3 DEF CaptureExecutionError, Slot, Answers, Returned
<1>4. CASE SendResult(c)
  BY <1>4 DEF SendResult, Answers, Returned
<1>5. CASE ReleaseProvider(c)
  BY <1>5 DEF ReleaseProvider, Answers, Returned
<1> QED
  BY <1>1, <1>2, <1>3, <1>4, <1>5 DEF Worker

LEMMA ControlToolKeeps ==
    ASSUME IInv, NEW c \in Calls, ControlTool(c) PROVE IInv'
<1> USE NoneIsNoValue
    DEF IInv, TypeInv, Unadmitted, Unanswered, Unclassified, NothingExecuted,
        AnswerHeld, Settled, ReceivedHeld, CodeIsOfOwnExecution, workerVars,
        LifecycleReturns, ErrorReturns, Outcomes, Codes
<1>1. CASE ExecutionFailed(c)
  BY <1>1 DEF ExecutionFailed
<1>2. CASE ExecutionSucceeded(c)
  BY <1>2 DEF ExecutionSucceeded
<1>3. CASE Classify(c)
  BY <1>3 DEF Classify, ExecutionFailureCode, ExecutionErrorValue, Completed,
              Slot, Answers, Returned
<1> QED
  BY <1>1, <1>2, <1>3 DEF ControlTool

LEMMA InvNext == IInv /\ [Next]_vars => IInv'
<1> SUFFICES ASSUME IInv, [Next]_vars PROVE IInv'
  OBVIOUS
<1>1. CASE UNCHANGED vars
  BY <1>1 DEF vars, callerVars, workerVars, IInv, TypeInv, Unadmitted,
              Unanswered, Unclassified, NothingExecuted, AnswerHeld, Settled,
              ReceivedHeld, CodeIsOfOwnExecution
<1>2. CASE Next
  BY <1>2, ControlKeeps, ExecuteKeeps, WorkerKeeps, ControlToolKeeps DEF Next
<1> QED
  BY <1>1, <1>2

LEMMA Invariance == Spec => []IInv
BY InvInit, InvNext, PTL DEF Spec

-----------------------------------------------------------------------------
(* docs/MCP.md:45, 50: the error code tells what the provider told this    *)
(* call's own execution, and a call that executed nothing is not told of a *)
(* stale observation, however its error reads.                             *)
THEOREM CodesAreOwn == Spec => []CodeIsOfOwnExecution
<1>1. IInv => CodeIsOfOwnExecution
  BY DEF IInv
<1> QED
  BY Invariance, <1>1, PTL

(* Reading the error variable without a lock is no race: no executor of    *)
(* that variable can still write it.                                       *)
THEOREM HoldersAreSettled == Spec => []HolderIsSettled
<1>1. IInv => HolderIsSettled
  BY NoneIsNoValue
     DEF IInv, TypeInv, NothingExecuted, ReceivedHeld, Settled,
         HolderIsSettled, Completed, Slot, Answers, Returned
<1> QED
  BY Invariance, <1>1, PTL
=============================================================================
