--------------------------- MODULE ControlBoundary ---------------------------
(***************************************************************************)
(* What the kernel promises whoever looks at the committed root and at the *)
(* executions run on its behalf, with no callers, locks, clocks or         *)
(* evidence: executions do not overlap, each starts from the root it will  *)
(* replace, a failed or unconfirmed one must be recovered before anything  *)
(* else happens, and the root changes only by committing the target of the *)
(* execution that was confirmed last.                                      *)
(***************************************************************************)
CONSTANTS Subjects, States, None

VARIABLES
    root,     \* the committed state
    stage,    \* how far the current execution is
    pending,  \* the states it goes between, None when there is none
    subject   \* the one subject ever controlled, None before it is known

vars == <<root, stage, pending, subject>>

Moves  == [before : States, after : States]
Stages == {"open", "executing", "executed", "confirmed", "recovery"}

Init ==
    /\ root \in States
    /\ stage = "open"
    /\ pending = None
    /\ subject = None

Bind ==
    /\ subject = None
    /\ subject' \in Subjects
    /\ UNCHANGED <<root, stage, pending>>

Begin(m) ==
    /\ stage = "open" /\ subject # None
    /\ m.before = root /\ m.after # root
    /\ stage' = "executing" /\ pending' = m
    /\ UNCHANGED <<root, subject>>

Become(from, to) ==
    /\ stage = from /\ stage' = to
    /\ UNCHANGED <<root, pending, subject>>

Close ==
    /\ stage' = "open" /\ pending' = None /\ UNCHANGED subject

Commit ==
    /\ stage = "confirmed"
    /\ root' = pending.after
    /\ Close

Recover ==
    /\ stage = "recovery"
    /\ UNCHANGED root
    /\ Close

Next ==
    \/ Bind
    \/ \E m \in Moves : Begin(m)
    \/ Become("executing", "executed")
    \/ Become("executing", "recovery")
    \/ Become("executed", "confirmed")
    \/ Become("executed", "recovery")
    \/ Commit
    \/ Recover

Spec == Init /\ [][Next]_vars
=============================================================================
