--------------------------- MODULE GitFileInvariant ---------------------------
(* The inductive invariant behind the theorems of GitFileProviderProofs.   *)
EXTENDS GitFileProvider

Authorized(c) == call[c] # None /\ call[c].id # None

(* What a client holds, by where it is: no call, an observation, a request *)
(* authorized from the committed root, or the request with its commit.     *)
CallShape ==
    \A c \in Clients :
        /\ pc[c] = "observed" =>
              call[c] # None /\ call[c].id = None /\ c \notin abandoned
        /\ pc[c] \notin {"idle", "observed"} =>
              /\ Authorized(c)
              /\ call[c].desired # None
        /\ pc[c] = "idle" /\ call[c] # None => Authorized(c)
        /\ call[c] # None => objects[call[c].before] # None

(* Execution IDs are given out once. *)
IDsAreOwn ==
    \A c, d \in Clients :
        Authorized(c) =>
            /\ call[c].id \in used
            /\ Authorized(d) /\ call[c].id = call[d].id => c = d

Updating(c) == pc[c] \in {"updating", "swapped", "inquiring"}
Succeeded(c) == pc[c] \in {"executed", "checking", "verified"}

(* The commit of a request is the replacement it asked for. *)
CommitIsReplacement ==
    \A c \in Clients : Updating(c) \/ Succeeded(c) =>
        /\ call[c].commit # None
        /\ objects[call[c].commit] = Replacement(call[c])

(* A call is answered when Execute returns, and only then. *)
AnswerShape ==
    \A c \in Clients :
        /\ answer[c] = None <=>
              \/ pc[c] \in Executing \cup {"observed"}
              \/ pc[c] = "idle" /\ call[c] = None
        /\ Succeeded(c) => answer[c] = "ok"

(* The branch never named a commit that carries the ID of an execution     *)
(* whose compare-and-swap did not take effect.                             *)
PublishedAreInstalled ==
    \A k \in reflog :
        objects[k].message # None => objects[k].message \in installed

(* Whose compare-and-swap took effect, by where the client is. *)
TookShape ==
    \A c \in Clients :
        /\ pc[c] \in {"executing", "preparing", "updating"} => ~Took(c)
        /\ pc[c] = "swapped" => Took(c)
        /\ Authorized(c) /\ answer[c] = "ok" => Took(c)

(* A commit that was installed is the tip, or the branch was moved away.   *)
InstalledIsTipOrLeft ==
    \A c \in Clients : Authorized(c) /\ Took(c) =>
        /\ call[c].commit # None
        /\ ref = call[c].commit \/ call[c].commit \in overtaken

(* All a step needs to keep the properties of GitFileProvider: whoever     *)
(* reads the branch and finds its commit knows that its own                *)
(* compare-and-swap installed it, because the commit carries an ID that is *)
(* its own and no published commit carries one that was not installed.     *)
IInv ==
    /\ TypeOK
    /\ CallShape
    /\ IDsAreOwn
    /\ CommitIsReplacement
    /\ AnswerShape
    /\ PublishedAreInstalled
    /\ TookShape
    /\ InstalledIsTipOrLeft
    /\ FailureIsHonest
=============================================================================
