--------------------------- MODULE GitFileProvider ---------------------------
(***************************************************************************)
(* integrations/git/provider.go: replacing one file of a branch.           *)
(*                                                                         *)
(* Each client is a Host with a Runtime of its own, in a process of its    *)
(* own, running one lifecycle after another against the same branch, which *)
(* people and other programs move as well.  Objects never change once they *)
(* are written, so the reads of commits, trees and blobs below a given     *)
(* commit are one step with the decision they lead to; reads and updates   *)
(* of the ref are steps of their own.                                      *)
(*                                                                         *)
(* A tree is the function from its leaves' paths to mode and object that   *)
(* flattenTree computes; module GitTree has the nested trees.  An entry of *)
(* a regular file is its own fingerprint (FileStateFingerprint hashes mode *)
(* and bytes), an object ID is an element of Commits.                      *)
(***************************************************************************)
CONSTANTS
    Clients,
    Commits,        \* object IDs of commits; bound: number of commits made
    Paths,
    Target,         \* the path the resource ID names
    Entries,        \* mode and object of a leaf
    Regular,        \* those with mode 100644 or 100755 and a readable blob
    ExecutionIDs,   \* bound: number of executions
    MayRewrite,     \* do other writers also force the branch back?
    None

ASSUME GitAssumption ==
    /\ Target \in Paths
    /\ Regular \subseteq Entries
    /\ MayRewrite \in BOOLEAN

Trees == [Paths -> Entries \cup {None}]

(* A commit message is the execution ID it carries, None for any other. *)
CommitObjects == [parent : Commits \cup {None}, tree : Trees,
                  message : ExecutionIDs \cup {None}]

(* The observation, the authorized request and the commit made for it. *)
Calls == [before : Commits, state : Regular, desired : Regular \cup {None},
          id : ExecutionIDs \cup {None}, commit : Commits \cup {None}]

(* Requests as module BranchRegister sees them. *)
Requests == [seen : Commits, desired : Regular, effect : BOOLEAN,
             verdict : {"open", "confirmed", "denied"}]

Results == {"ok", "stale", "failed", "unreadable"}

ASSUME NoneAssumption ==
    None \notin Commits \cup Paths \cup Entries \cup ExecutionIDs
                  \cup CommitObjects \cup Calls \cup Requests \cup Results

VARIABLES
    objects,    \* the repository's commits by ID, None where there is none
    ref,        \* the branch
    pc,         \* where each client is
    call,       \* what it holds
    abandoned,  \* clients whose Host no longer waits for Execute
    answer,     \* what the last Execute returned
    root        \* the state its Runtime has committed

(* History, read by properties only (reflog guards what others reset to). *)
VARIABLES
    reflog,     \* every commit the branch ever named
    used,       \* execution IDs given out
    installed,  \* those whose compare-and-swap took effect
    overtaken   \* commits the branch was moved away from

repository == <<objects, ref, reflog, installed, overtaken>>
clients    == <<pc, call, abandoned, answer, root, used>>
vars       == <<repository, clients>>

PCs == {"idle", "observed", "executing", "preparing", "updating", "swapped",
        "inquiring", "executed", "checking", "verified", "recovery"}

FileAt(k) == objects[k].tree[Target]

Init ==
    \E k \in Commits, t \in Trees :
        /\ t[Target] \in Regular
        /\ objects = [j \in Commits |->
              IF j = k THEN [parent |-> None, tree |-> t, message |-> None]
                       ELSE None]
        /\ ref = k /\ reflog = {k}
        /\ pc = [c \in Clients |-> "idle"]
        /\ call = [c \in Clients |-> None]
        /\ abandoned = {}
        /\ answer = [c \in Clients |-> None]
        /\ root = [c \in Clients |-> t[Target]]
        /\ used = {} /\ installed = {} /\ overtaken = {}

(* Git names an object by its content: the same commit is stored once. *)
Store(o, k) ==
    /\ \/ objects[k] = o
       \/ objects[k] = None /\ \A j \in Commits : objects[j] # o
    /\ objects' = [objects EXCEPT ![k] = o]

Goto(c, where) ==
    /\ pc' = [pc EXCEPT ![c] = where]
    /\ UNCHANGED <<root, used>>

-----------------------------------------------------------------------------
(* Observe, and the kernel's way from there to Start *)

Observed(k) ==
    [before |-> k, state |-> FileAt(k), desired |-> None, id |-> None,
     commit |-> None]

Readable(k) == FileAt(k) \in Regular

(* Observe, and after a failure Recover, take one reading of the ref. *)
Observe(c) ==
    /\ pc[c] \in {"idle", "observed", "recovery"}
    /\ Readable(ref)
    /\ call' = [call EXCEPT ![c] = Observed(ref)]
    /\ answer' = [answer EXCEPT ![c] = None]
    /\ abandoned' = abandoned \ {c}
    /\ Goto(c, "observed")
    /\ UNCHANGED repository

(* Start: the observed state is the committed root; the ID is a new one.   *)
Authorize(c, desired, id) ==
    /\ pc[c] = "observed"
    /\ call[c].state = root[c] /\ desired # root[c]
    /\ id \notin used
    /\ used' = used \cup {id}
    /\ call' = [call EXCEPT ![c].desired = desired, ![c].id = id]
    /\ pc' = [pc EXCEPT ![c] = "executing"]
    /\ UNCHANGED <<repository, abandoned, answer, root>>

-----------------------------------------------------------------------------
(* Execute *)

Executing == {"executing", "preparing", "updating", "swapped", "inquiring"}

(* The deadline and its grace have passed: the Host reports a failure, but *)
(* keeps the lifecycle until the callback has returned.                    *)
Abandon(c) ==
    /\ pc[c] \in Executing
    /\ c \notin abandoned
    /\ abandoned' = abandoned \cup {c}
    /\ UNCHANGED <<repository, pc, call, answer, root, used>>

(* Mutant: an answer after the grace still counts. *)
ReturnLate(c, a) ==
    /\ answer' = [answer EXCEPT ![c] = a]
    /\ Goto(c, IF a = "ok" THEN "executed" ELSE "recovery")
    /\ UNCHANGED <<call, abandoned>>

Return(c, a) ==
    /\ answer' = [answer EXCEPT ![c] = a]
    /\ Goto(c, IF a = "ok" /\ c \notin abandoned THEN "executed"
                                                 ELSE "recovery")
    /\ UNCHANGED <<call, abandoned>>

ReadTip(c) ==
    /\ pc[c] = "executing"
    /\ IF ref = call[c].before
         THEN Goto(c, "preparing") /\ UNCHANGED <<call, abandoned, answer>>
         ELSE Return(c, "stale")
    /\ UNCHANGED repository

(* Mutant: the file is added where it no longer is. *)
ReplacementOnEmptyTree(l) ==
    [parent |-> l.before,
     tree |-> [p \in Paths |-> IF p = Target THEN l.desired ELSE None],
     message |-> l.id]

Replacement(l) ==
    [parent |-> l.before,
     tree |-> [objects[l.before].tree EXCEPT ![Target] = l.desired],
     message |-> l.id]

(* The authorized state is checked against its tip, then the blob, the     *)
(* trees and the commit are written.                                       *)
Prepare(c, k) ==
    /\ pc[c] = "preparing"
    /\ FileAt(call[c].before) = call[c].state
    /\ Store(Replacement(call[c]), k)
    /\ call' = [call EXCEPT ![c].commit = k]
    /\ Goto(c, "updating")
    /\ UNCHANGED <<ref, reflog, installed, overtaken, abandoned, answer>>

(* Any check or git command before update-ref fails. *)
ExecuteFails(c) ==
    /\ pc[c] \in {"executing", "preparing"}
    /\ Return(c, "failed")
    /\ UNCHANGED repository

(* Mutant: the branch is set without naming its old value. *)
TipAnything(l) == l.before \in Commits

TipIs(l) == ref = l.before

(* git update-ref compares and swaps ... *)
Swap(c) ==
    /\ pc[c] = "updating"
    /\ TipIs(call[c])
    /\ ref' = call[c].commit
    /\ reflog' = reflog \cup {ref'}
    /\ installed' = installed \cup {call[c].id}
    /\ overtaken' = overtaken \cup {ref}
    /\ Goto(c, "swapped")
    /\ UNCHANGED <<objects, call, abandoned, answer>>

(* ... and its process ends well, ... *)
UpdateSucceeds(c) ==
    /\ pc[c] = "swapped"
    /\ Return(c, "ok")
    /\ UNCHANGED repository

(* ... or badly, having swapped or not: killed, locked out, refused.       *)
UpdateFails(c) ==
    /\ pc[c] \in {"updating", "swapped"}
    /\ Goto(c, "inquiring")
    /\ UNCHANGED <<repository, call, abandoned, answer>>

(* Mutants: any other tip settles it; the file's state settles it. *)
ShowsStaleFirst(l) == IF ref # l.before THEN "stale" ELSE "failed"

ShowsState(l) ==
    IF FileAt(ref) = l.desired THEN "ok" ELSE ShowsStaleFirst(l)

Shows(l) ==
    IF ref = l.commit THEN "ok"
    ELSE IF ref # l.before THEN "stale" ELSE "failed"

(* The recovery read, detached from the request's context. *)
Inquire(c) ==
    /\ pc[c] = "inquiring"
    /\ Return(c, Shows(call[c]))
    /\ UNCHANGED repository

InquiryFails(c) ==
    /\ pc[c] = "inquiring"
    /\ Return(c, "unreadable")
    /\ UNCHANGED repository

-----------------------------------------------------------------------------
(* Verify *)

(* The object checks: the sole parent, the message, the only leaf changed. *)
Made(l) ==
    LET o == objects[l.commit] IN
    /\ FileAt(l.before) = l.state
    /\ o.message = l.id
    /\ o.parent = l.before
    /\ \A p \in Paths \ {Target} : o.tree[p] = objects[l.before].tree[p]
    /\ FileAt(l.commit) = l.desired

VerifyTip(c) ==
    /\ pc[c] = "executed"
    /\ Goto(c, IF ref = call[c].commit THEN "checking" ELSE "recovery")
    /\ UNCHANGED <<repository, call, abandoned, answer>>

(* Mutant: the branch is not read again. *)
StillTipUnread(l) == l.commit \in reflog

StillTip(l) == ref = l.commit

VerifyFinally(c) ==
    /\ pc[c] = "checking"
    /\ Goto(c, IF Made(call[c]) /\ StillTip(call[c]) THEN "verified"
                                                     ELSE "recovery")
    /\ UNCHANGED <<repository, call, abandoned, answer>>

VerifyFails(c) ==
    /\ pc[c] \in {"executed", "checking"}
    /\ Goto(c, "recovery")
    /\ UNCHANGED <<repository, call, abandoned, answer>>

(* The kernel's Commit. *)
CommitRoot(c) ==
    /\ pc[c] = "verified"
    /\ root' = [root EXCEPT ![c] = call[c].desired]
    /\ pc' = [pc EXCEPT ![c] = "idle"]
    /\ UNCHANGED <<repository, call, abandoned, answer, used>>

-----------------------------------------------------------------------------
(* Other writers of the repository *)

MoveTo(k) ==
    /\ ref' = k
    /\ reflog' = reflog \cup {k}
    /\ overtaken' = overtaken \cup {ref}
    /\ UNCHANGED <<installed, clients>>

(* A commit on the tip; tools that copy commits copy their messages.       *)
Push(k, path, entry, message) ==
    /\ message \in {None, objects[ref].message}
    /\ Store([parent |-> ref, message |-> message,
              tree |-> [objects[ref].tree EXCEPT ![path] = entry]], k)
    /\ MoveTo(k)

(* The branch is forced to a commit it once named. *)
Rewrite(k) ==
    /\ MayRewrite
    /\ k \in reflog \ {ref}
    /\ MoveTo(k)
    /\ UNCHANGED objects

-----------------------------------------------------------------------------
ClientStep(c) ==
    \/ Observe(c)
    \/ \E desired \in Regular, id \in ExecutionIDs : Authorize(c, desired, id)
    \/ Abandon(c)
    \/ ReadTip(c) \/ ExecuteFails(c) \/ \E k \in Commits : Prepare(c, k)
    \/ Swap(c) \/ UpdateSucceeds(c) \/ UpdateFails(c)
    \/ Inquire(c) \/ InquiryFails(c)
    \/ VerifyTip(c) \/ VerifyFinally(c) \/ VerifyFails(c) \/ CommitRoot(c)

Next ==
    \/ \E c \in Clients : ClientStep(c)
    \/ \E k \in Commits :
        \/ Rewrite(k)
        \/ \E p \in Paths, e \in Entries \cup {None},
              m \in ExecutionIDs \cup {None} : Push(k, p, e, m)

Spec == Init /\ [][Next]_vars

-----------------------------------------------------------------------------
(* Properties *)

(* Every variable holds a value of its Go type, and the branch always      *)
(* names a commit that exists.                                             *)
TypeOK ==
    /\ objects \in [Commits -> CommitObjects \cup {None}]
    /\ reflog \subseteq {k \in Commits : objects[k] # None}
    /\ ref \in reflog
    /\ pc \in [Clients -> PCs]
    /\ call \in [Clients -> Calls \cup {None}]
    /\ abandoned \subseteq Clients
    /\ answer \in [Clients -> Results \cup {None}]
    /\ root \in [Clients -> Regular]
    /\ installed \subseteq used /\ used \subseteq ExecutionIDs
    /\ overtaken \subseteq reflog

Took(c) == call[c].id \in installed

(* An Execute whose compare-and-swap took effect is reported as stale or   *)
(* failed only when the branch has meanwhile been moved away from its      *)
(* commit: a killed or cancelled git process alone never turns a change    *)
(* that was made into one that is reported as not made.                    *)
FailureIsHonest ==
    \A c \in Clients :
        answer[c] \in {"stale", "failed"} /\ Took(c) =>
            call[c].commit \in overtaken

(* git-file-replace-contract.md:143: once the compare-and-swap succeeded   *)
(* Execute must not report a failure.                                      *)
CommittedIsReported ==
    \A c \in Clients : answer[c] \in {"stale", "failed"} => ~Took(c)

(* When a lifecycle becomes VERIFIED the branch itself is what was asked   *)
(* for: the authorized tip and one commit on it, no leaf changed but the   *)
(* target, and that to the desired state, although others may have moved   *)
(* the branch while the objects were read.                                 *)
VerificationShowsBranch ==
    [][\A c \in Clients : pc[c] # "verified" /\ pc'[c] = "verified" =>
          /\ objects[ref].parent = call[c].before
          /\ objects[ref].tree =
                [objects[call[c].before].tree EXCEPT
                    ![Target] = call[c].desired]]_vars

-----------------------------------------------------------------------------
(* The provider implements BranchRegister: success means that this request *)
(* took effect, once, on the version it was authorized for.                *)

Verdict(a) ==
    IF a = None THEN "open" ELSE IF a = "ok" THEN "confirmed" ELSE "denied"

RequestOf(c) ==
    IF call[c] = None THEN None
    ELSE IF call[c].id = None THEN None
    ELSE [seen |-> call[c].before, desired |-> call[c].desired,
          effect |-> Took(c), verdict |-> Verdict(answer[c])]

Register ==
    INSTANCE BranchRegister
        WITH Versions <- Commits, tip <- ref, tree <- objects[ref].tree,
             request <- [c \in Clients |-> RequestOf(c)]

RegisterSpec == Register!Spec

-----------------------------------------------------------------------------
(* Each client's Runtime keeps what ControlBoundary promises, whatever the *)
(* other clients do to the branch they share.                              *)

Stage(c) ==
    CASE pc[c] \in {"idle", "observed"}     -> "open"
      [] pc[c] \in Executing                -> IF c \in abandoned
                                                 THEN "recovery"
                                                 ELSE "executing"
      [] pc[c] \in {"executed", "checking"} -> "executed"
      [] pc[c] = "verified"                 -> "confirmed"
      [] OTHER                              -> "recovery"

Pending(c) ==
    IF Stage(c) = "open" THEN None
    ELSE [before |-> call[c].state, after |-> call[c].desired]

Subject(c) == IF call[c] = None THEN None ELSE Target

Boundary(c) ==
    INSTANCE ControlBoundary
        WITH Subjects <- {Target}, States <- Regular, root <- root[c],
             stage <- Stage(c), pending <- Pending(c), subject <- Subject(c)

BoundarySpec ==
    /\ \A c \in Clients : Boundary(c)!Init
    /\ [][\A c \in Clients :
            Boundary(c)!Next \/ UNCHANGED Boundary(c)!vars]_vars
=============================================================================
