---------------------------- MODULE BranchRegister ----------------------------
(***************************************************************************)
(* What replacing one file of a branch promises, with no objects, no       *)
(* processes and no reads: a request takes effect at most once, at one     *)
(* instant, on the very version it was authorized for, and changes nothing *)
(* but the file it names.  Whoever is told that it succeeded can rely on   *)
(* that; whoever is told that it failed knows nothing.                     *)
(***************************************************************************)
CONSTANTS Clients, Versions, Paths, Target, Entries, None

VARIABLES
    tip,       \* the branch's version
    tree,      \* what it holds, by path
    request    \* each client's request, None when it has none

vars == <<tip, tree, request>>

Trees == [Paths -> Entries \cup {None}]

Asked(v, e) ==
    [seen |-> v, desired |-> e, effect |-> FALSE, verdict |-> "open"]

Init ==
    /\ tip \in Versions
    /\ tree \in Trees
    /\ request = [c \in Clients |-> None]

Open(c) == request[c] # None /\ request[c].verdict = "open"

Ask(c, v, e) ==
    /\ request[c] = None
    /\ request' = [request EXCEPT ![c] = Asked(v, e)]
    /\ UNCHANGED <<tip, tree>>

TakeEffect(c, v) ==
    /\ Open(c) /\ ~request[c].effect
    /\ tip = request[c].seen
    /\ tip' = v
    /\ tree' = [tree EXCEPT ![Target] = request[c].desired]
    /\ request' = [request EXCEPT ![c].effect = TRUE]

Confirm(c) ==
    /\ Open(c) /\ request[c].effect
    /\ request' = [request EXCEPT ![c].verdict = "confirmed"]
    /\ UNCHANGED <<tip, tree>>

Deny(c) ==
    /\ Open(c)
    /\ request' = [request EXCEPT ![c].verdict = "denied"]
    /\ UNCHANGED <<tip, tree>>

Forget(c) ==
    /\ request[c] # None /\ request[c].verdict # "open"
    /\ request' = [request EXCEPT ![c] = None]
    /\ UNCHANGED <<tip, tree>>

(* Writers that do not ask. *)
Foreign ==
    /\ tip' \in Versions /\ tree' \in Trees
    /\ UNCHANGED request

Next ==
    \/ Foreign
    \/ \E c \in Clients :
        \/ \E v \in Versions, e \in Entries : Ask(c, v, e)
        \/ \E v \in Versions : TakeEffect(c, v)
        \/ Confirm(c) \/ Deny(c) \/ Forget(c)

Spec == Init /\ [][Next]_vars
=============================================================================
