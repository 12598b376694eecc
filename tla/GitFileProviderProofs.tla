------------------------ MODULE GitFileProviderProofs ------------------------
(***************************************************************************)
(* Theorems about GitFileProvider for any number of clients, commits,      *)
(* executions and paths, and any other writers.                            *)
(***************************************************************************)
EXTENDS GitFileInvariant, TLAPS

(* The values None is told apart from. *)
LEMMA NoneIsNoValue ==
    /\ None \notin Commits /\ None # Target /\ None \notin Entries
    /\ None \notin Regular /\ None \notin ExecutionIDs
    /\ None \notin CommitObjects /\ None \notin Calls
    /\ None \notin Requests /\ None \notin Results
BY NoneAssumption, GitAssumption

-----------------------------------------------------------------------------
(* The object store *)

(* Storing a commit changes none that is there.                            *)
LEMMA StoreKeeps ==
    ASSUME NEW o \in CommitObjects, NEW k \in Commits, Store(o, k),
           objects \in [Commits -> CommitObjects \cup {None}]
    PROVE  /\ objects' \in [Commits -> CommitObjects \cup {None}]
           /\ objects'[k] = o
           /\ \A j \in Commits : objects[j] # None => objects'[j] = objects[j]
BY DEF Store

(* A replacement is a commit object.                                       *)
LEMMA ReplacementIsObject ==
    ASSUME NEW l \in Calls, l.desired # None, l.id # None,
           objects \in [Commits -> CommitObjects \cup {None}],
           objects[l.before] # None
    PROVE  /\ Replacement(l) \in CommitObjects
           /\ Replacement(l).message = l.id
           /\ Replacement(l).parent = l.before
           /\ Replacement(l).tree =
                [objects[l.before].tree EXCEPT ![Target] = l.desired]
BY GitAssumption DEF Replacement, Calls, CommitObjects, Trees

(* The commits clients rely on stay what they are while others are stored. *)
LEMMA ReplacementIsKept ==
    ASSUME IInv, NEW d \in Clients, Updating(d) \/ Succeeded(d),
           \A j \in Commits : objects[j] # None => objects'[j] = objects[j]
    PROVE  objects'[call[d].commit] =
             [parent  |-> call[d].before,
              tree    |-> [objects'[call[d].before].tree EXCEPT
                             ![Target] = call[d].desired],
              message |-> call[d].id]
<1>1. /\ call[d] \in Calls /\ call[d].desired # None /\ call[d].id # None
      /\ call[d].before \in Commits /\ call[d].commit \in Commits
      /\ objects[call[d].before] # None
      /\ objects[call[d].commit] = Replacement(call[d])
  BY DEF IInv, TypeOK, CallShape, CommitIsReplacement, Authorized, Calls,
         Updating, Succeeded
<1>2. Replacement(call[d]) # None
  BY <1>1, ReplacementIsObject, NoneIsNoValue DEF IInv, TypeOK
<1> QED
  BY <1>1, <1>2 DEF Replacement

-----------------------------------------------------------------------------
(* The inductive invariant *)

(* The initial state satisfies the invariant.                              *)
LEMMA InvInit == Init => IInv
BY GitAssumption, NoneIsNoValue
   DEF Init, IInv, TypeOK, PCs, Results, CallShape, IDsAreOwn, Authorized,
       CommitIsReplacement, Updating, Succeeded, AnswerShape, Executing,
       PublishedAreInstalled, TookShape, Took, InstalledIsTipOrLeft,
       FailureIsHonest, FileAt, CommitObjects, Trees

(* No step leaves the invariant.                                           *)
LEMMA InvNext == IInv /\ [Next]_vars => IInv'
<1> SUFFICES ASSUME IInv, [Next]_vars PROVE IInv'
  OBVIOUS
<1> USE GitAssumption, NoneIsNoValue
        DEF IInv, TypeOK, CallShape, IDsAreOwn, CommitIsReplacement,
            AnswerShape, PublishedAreInstalled, TookShape,
            InstalledIsTipOrLeft, FailureIsHonest, Authorized, Updating,
            Succeeded, Executing, Took, PCs, Results, Calls, FileAt,
            Replacement, repository, Goto
<1>1. ASSUME NEW c \in Clients, Observe(c) PROVE IInv'
  BY <1>1 DEF Observe, Observed, Readable
<1>2. ASSUME NEW c \in Clients, NEW desired \in Regular, NEW id \in ExecutionIDs,
             Authorize(c, desired, id) PROVE IInv'
  BY <1>2 DEF Authorize
<1>3. ASSUME NEW c \in Clients, Abandon(c) PROVE IInv'
  BY <1>3 DEF Abandon
<1>4. ASSUME NEW c \in Clients, ReadTip(c) PROVE IInv'
  <2>1. CASE ref = call[c].before
    BY <1>4, <2>1 DEF ReadTip
  <2>2. CASE ref # call[c].before
    BY <1>4, <2>2 DEF ReadTip, Return
  <2> QED
    BY <2>1, <2>2
<1>5. ASSUME NEW c \in Clients, ExecuteFails(c) PROVE IInv'
  BY <1>5 DEF ExecuteFails, Return
<1>6. ASSUME NEW c \in Clients, NEW k \in Commits, Prepare(c, k) PROVE IInv'
  <2>1. /\ call[c] \in Calls /\ call[c].desired # None /\ call[c].id # None
        /\ objects[call[c].before] # None
    BY <1>6 DEF Prepare
  <2>2. /\ Replacement(call[c]) \in CommitObjects
        /\ Replacement(call[c]) # None
    BY <2>1, ReplacementIsObject
  <2>3. /\ objects' \in [Commits -> CommitObjects \cup {None}]
        /\ objects'[k] = Replacement(call[c])
        /\ \A j \in Commits : objects[j] # None => objects'[j] = objects[j]
    BY <1>6, <2>2, StoreKeeps DEF Prepare
  <2>4. TypeOK'
    BY <1>6, <2>1, <2>3 DEF Prepare
  <2>5. CommitIsReplacement'
    <3>1. /\ objects'[call'[c].commit] = Replacement(call[c])'
          /\ call'[c].commit # None
      BY <1>6, <2>1, <2>3 DEF Prepare
    <3>2. ASSUME NEW d \in Clients \ {c}, Updating(d) \/ Succeeded(d)
          PROVE  objects'[call[d].commit] = Replacement(call[d])'
      BY <1>6, <2>3, <3>2, ReplacementIsKept DEF Prepare
    <3>3. \A d \in Clients \ {c} : call'[d] = call[d] /\ pc'[d] = pc[d]
      BY <1>6 DEF Prepare
    <3> QED
      BY <3>1, <3>2, <3>3
  <2>6. PublishedAreInstalled'
    BY <1>6, <2>3 DEF Prepare
  <2>7. CallShape' /\ IDsAreOwn' /\ AnswerShape'
    BY <1>6, <2>1, <2>3 DEF Prepare
  <2>8. TookShape' /\ InstalledIsTipOrLeft' /\ FailureIsHonest'
    BY <1>6, <2>1, <2>3 DEF Prepare
  <2> QED
    BY <2>4, <2>5, <2>6, <2>7, <2>8
<1>7. ASSUME NEW c \in Clients, Swap(c) PROVE IInv'
  <2>1. /\ call[c] \in Calls /\ call[c].id # None
        /\ call[c].id \in ExecutionIDs /\ call[c].id \in used
        /\ call[c].commit \in Commits
        /\ objects[call[c].commit] = Replacement(call[c])
    BY <1>7 DEF Swap
  <2>2. Replacement(call[c]) # None
    BY <1>7, <2>1, ReplacementIsObject DEF Swap
  <2>3. \A d \in Clients : Authorized(d) /\ d # c => Took(d)' = Took(d)
    BY <1>7, <2>1 DEF Swap
  <2>4. TypeOK'
    BY <1>7, <2>1, <2>2 DEF Swap
  <2>5. CallShape' /\ IDsAreOwn' /\ CommitIsReplacement' /\ AnswerShape'
    BY <1>7 DEF Swap
  <2>6. PublishedAreInstalled'
    BY <1>7, <2>1 DEF Swap
  <2>7. TookShape' /\ InstalledIsTipOrLeft' /\ FailureIsHonest'
    BY <1>7, <2>1, <2>3 DEF Swap
  <2> QED
    BY <2>4, <2>5, <2>6, <2>7
<1>8. ASSUME NEW c \in Clients, UpdateSucceeds(c) PROVE IInv'
  BY <1>8 DEF UpdateSucceeds, Return
<1>9. ASSUME NEW c \in Clients, UpdateFails(c) PROVE IInv'
  BY <1>9 DEF UpdateFails
<1>10. ASSUME NEW c \in Clients, Inquire(c) PROVE IInv'
  <2>1. /\ call[c] \in Calls /\ call[c].id # None
        /\ objects[call[c].commit] = Replacement(call[c])
    BY <1>10 DEF Inquire
  <2>2. ref = call[c].commit => Took(c)
    BY <2>1
  <2>3. Shows(call[c]) \in {"ok", "stale", "failed"}
    BY DEF Shows
  <2>4. /\ Shows(call[c]) = "ok" => Took(c)
        /\ Shows(call[c]) # "ok" => ref # call[c].commit
    BY <2>2 DEF Shows
  <2> QED
    BY <1>10, <2>1, <2>3, <2>4 DEF Inquire, Return
<1>11. ASSUME NEW c \in Clients, InquiryFails(c) PROVE IInv'
  BY <1>11 DEF InquiryFails, Return
<1>12. ASSUME NEW c \in Clients, VerifyTip(c) PROVE IInv'
  BY <1>12 DEF VerifyTip
<1>13. ASSUME NEW c \in Clients, VerifyFinally(c) PROVE IInv'
  BY <1>13 DEF VerifyFinally
<1>14. ASSUME NEW c \in Clients, VerifyFails(c) PROVE IInv'
  BY <1>14 DEF VerifyFails
<1>15. ASSUME NEW c \in Clients, CommitRoot(c) PROVE IInv'
  BY <1>15 DEF CommitRoot

<1>16. ASSUME NEW k \in Commits, Rewrite(k) PROVE IInv'
  BY <1>16 DEF Rewrite, MoveTo, clients
<1>17. ASSUME NEW k \in Commits, NEW p \in Paths,
              NEW e \in Entries \cup {None},
              NEW m \in ExecutionIDs \cup {None}, Push(k, p, e, m)
       PROVE  IInv'
  <2> DEFINE o == [parent |-> ref, message |-> m,
                   tree |-> [objects[ref].tree EXCEPT ![p] = e]]
  <2>1. objects[ref] \in CommitObjects
    OBVIOUS
  <2>2. o \in CommitObjects
    BY <2>1 DEF CommitObjects, Trees
  <2>3. /\ objects' \in [Commits -> CommitObjects \cup {None}]
        /\ objects'[k] = o
        /\ \A j \in Commits : objects[j] # None => objects'[j] = objects[j]
    BY <1>17, <2>2, StoreKeeps DEF Push
  <2>4. o # None /\ (m # None => m \in installed)
    BY <1>17, <2>2 DEF Push
  <2> HIDE DEF o
  <2>5. TypeOK'
    BY <1>17, <2>3, <2>4 DEF Push, MoveTo, clients
  <2>6. CommitIsReplacement'
    BY <1>17, <2>3, ReplacementIsKept DEF Push, MoveTo, clients
  <2>7. PublishedAreInstalled'
    BY <1>17, <2>3, <2>4 DEF Push, MoveTo, clients, o
  <2>8. CallShape' /\ IDsAreOwn' /\ AnswerShape'
    BY <1>17, <2>3 DEF Push, MoveTo, clients
  <2>9. TookShape' /\ InstalledIsTipOrLeft' /\ FailureIsHonest'
    BY <1>17, <2>3 DEF Push, MoveTo, clients
  <2> QED
    BY <2>5, <2>6, <2>7, <2>8, <2>9
<1>18. CASE UNCHANGED vars
  BY <1>18 DEF vars, clients
<1> QED
  BY <1>1, <1>2, <1>3, <1>4, <1>5, <1>6, <1>7, <1>8, <1>9, <1>10, <1>11,
     <1>12, <1>13, <1>14, <1>15, <1>16, <1>17, <1>18 DEF Next, ClientStep

(* The invariant holds in every reachable state.                           *)
LEMMA Invariance == Spec => []IInv
BY InvInit, InvNext, PTL DEF Spec

-----------------------------------------------------------------------------
(* Safety *)

(* Every variable keeps its Go type, and the branch names a commit that    *)
(* exists, whatever objects Execute and others add to the repository.      *)
THEOREM TypeCorrect == Spec => []TypeOK
BY Invariance, PTL DEF IInv

(* Execute's answer to a failed update-ref never denies a change that is   *)
(* still the branch's tip.                                                 *)
THEOREM FailuresAreHonest == Spec => []FailureIsHonest
BY Invariance, PTL DEF IInv

(* Verify accepts only while the branch is the authorized tip with the     *)
(* target replaced, whoever moves the branch between its reads.            *)
THEOREM VerificationIsOfBranch == Spec => VerificationShowsBranch
<1> DEFINE Shown(c) ==
      /\ objects[ref].parent = call[c].before
      /\ objects[ref].tree =
            [objects[call[c].before].tree EXCEPT ![Target] = call[c].desired]
<1>1. ASSUME IInv, [Next]_vars,
             NEW c \in Clients, pc[c] # "verified", pc'[c] = "verified"
      PROVE  Shown(c)
  <2> USE <1>1 DEF IInv, TypeOK
  <2>1. \/ UNCHANGED pc
        \/ \E d \in Clients : ClientStep(d)
    BY DEF Next, Rewrite, Push, MoveTo, vars, clients
  <2>2. PICK d \in Clients : ClientStep(d)
    BY <2>1
  <2>3. VerifyFinally(d)
    <3>1. ~Observe(d) /\ ~VerifyTip(d) /\ ~VerifyFails(d) /\ ~CommitRoot(d)
      BY DEF Observe, VerifyTip, VerifyFails, CommitRoot, Goto
    <3>2. \A desired \in Regular, id \in ExecutionIDs :
              ~Authorize(d, desired, id)
      BY DEF Authorize
    <3>3. ~Abandon(d) /\ ~Swap(d) /\ ~UpdateFails(d)
      BY DEF Abandon, Swap, UpdateFails, Goto
    <3>4. \A k \in Commits : ~Prepare(d, k)
      BY DEF Prepare, Goto
    <3>5. \A a \in Results : ~Return(d, a)
      BY DEF Return, Goto
    <3>6. ~ReadTip(d) /\ ~ExecuteFails(d) /\ ~UpdateSucceeds(d)
             /\ ~InquiryFails(d) /\ ~Inquire(d)
      BY <3>5 DEF ReadTip, ExecuteFails, UpdateSucceeds, InquiryFails,
                  Inquire, Shows, Results, Goto
    <3> QED
      BY <2>2, <3>1, <3>2, <3>3, <3>4, <3>6 DEF ClientStep
  <2>4. c = d /\ ref = call[c].commit /\ Succeeded(c)
    BY <2>3 DEF VerifyFinally, Goto, StillTip, Succeeded
  <2>5. objects[ref] = Replacement(call[c])
    BY <2>4 DEF CommitIsReplacement
  <2> QED
    BY <2>5 DEF Replacement
<1>2. IInv /\ [Next]_vars =>
        \A c \in Clients : pc[c] # "verified" /\ pc'[c] = "verified"
                              => Shown(c)
  BY <1>1
<1> QED
  BY <1>2, Invariance, PTL DEF Spec, VerificationShowsBranch

-----------------------------------------------------------------------------
(* Refinement of BranchRegister *)

asked == [c \in Clients |-> RequestOf(c)]

(* The initial states map to initial states.                               *)
LEMMA RegisterInit == Init => Register!Init
<1> SUFFICES ASSUME Init PROVE Register!Init
  OBVIOUS
<1>1. \A c \in Clients : RequestOf(c) = None
  BY DEF Init, RequestOf
<1>2. ref \in Commits /\ objects[ref].tree \in Trees
  BY DEF Init
<1> QED
  BY <1>1, <1>2 DEF Register!Init, Register!Trees, Trees

(* A step of one client that changes neither the branch nor any object     *)
(* maps to what it does to that client's request.                          *)
LEMMA OthersKeepRequests ==
    ASSUME IInv, NEW c \in Clients,
           \A d \in Clients \ {c} :
              /\ call'[d] = call[d] /\ answer'[d] = answer[d]
              /\ Authorized(d) => Took(d)' = Took(d)
    PROVE  asked' = [asked EXCEPT ![c] = RequestOf(c)']
<1>1. ASSUME NEW d \in Clients \ {c} PROVE RequestOf(d)' = RequestOf(d)
  BY <1>1 DEF RequestOf, Authorized, Took
<1> QED
  BY <1>1 DEF asked

(* Every step maps to a step of BranchRegister or a stutter.               *)
LEMMA RegisterNext ==
    IInv /\ IInv' /\ [Next]_vars => Register!Next \/ UNCHANGED Register!vars
<1> SUFFICES ASSUME IInv, IInv', [Next]_vars
             PROVE  Register!Next \/ UNCHANGED Register!vars
  OBVIOUS
<1> DEFINE tree == objects[ref].tree
<1>1. /\ Register!vars = <<ref, tree, asked>>
      /\ tree \in Trees /\ tree' \in Trees /\ ref' \in Commits
      /\ Register!Trees = Trees
  BY DEF Register!vars, Register!Trees, Trees, asked, IInv, TypeOK,
         CommitObjects
<1>2. ASSUME NEW c \in Clients, asked' = [asked EXCEPT ![c] = RequestOf(c)'],
             UNCHANGED <<ref, tree>>, RequestOf(c)' = RequestOf(c)
      PROVE  UNCHANGED Register!vars
  BY <1>2 DEF Register!vars, asked
<1>3. ASSUME NEW c \in Clients, NEW a \in Results, Return(c, a),
             pc[c] \in Executing, a = "ok" => Took(c), UNCHANGED repository
      PROVE  Register!Next
  <2>1. asked' = [asked EXCEPT ![c] = RequestOf(c)']
    BY <1>3, OthersKeepRequests DEF Return, repository, Took, IInv, TypeOK
  <2>2. call[c] \in Calls /\ call[c] # None /\ call[c].id # None
           /\ call[c].desired # None /\ answer[c] = None
    BY <1>3, NoneIsNoValue
       DEF IInv, TypeOK, CallShape, AnswerShape, Authorized, Executing
  <2>3. RequestOf(c) = [seen |-> call[c].before, desired |-> call[c].desired,
                        effect |-> Took(c), verdict |-> "open"]
    BY <2>2, Zenon DEF RequestOf, Verdict
  <2>4. call'[c] = call[c] /\ Took(c)' = Took(c) /\ answer'[c] = a
    BY <1>3 DEF IInv, TypeOK, Return, Took, repository
  <2>5. a # None
    BY NoneIsNoValue, <1>3
  <2>6. RequestOf(c)' =
          [seen |-> call[c].before, desired |-> call[c].desired,
           effect |-> Took(c),
           verdict |-> IF a = "ok" THEN "confirmed" ELSE "denied"]
    BY <2>2, <2>4, <2>5, Zenon DEF RequestOf, Verdict
  <2>7. RequestOf(c) \in Requests
    BY <2>2, <2>3 DEF Requests, Calls, Took
  <2>8. asked[c] = RequestOf(c) /\ asked[c] # None
    BY <2>7, NoneIsNoValue DEF asked
  <2>9. RequestOf(c)' = [asked[c] EXCEPT !.verdict =
                           IF a = "ok" THEN "confirmed" ELSE "denied"]
    BY <2>3, <2>6, <2>8
  <2>10. asked[c].verdict = "open" /\ asked[c].effect = Took(c)
    BY <2>3, <2>8
  <2>11. UNCHANGED <<ref, tree>>
    BY <1>3 DEF repository
  <2>12. CASE a = "ok"
    <3>1. asked' = [asked EXCEPT ![c].verdict = "confirmed"]
      BY <2>1, <2>9, <2>12 DEF asked
    <3>2. asked[c].effect
      BY <1>3, <2>10, <2>12, Zenon
    <3>3. Register!Confirm(c)
      BY <2>8, <2>10, <2>11, <3>1, <3>2
         DEF Register!Confirm, Register!Open, asked
    <3> QED
      BY <3>3 DEF Register!Next
  <2>13. CASE a # "ok"
    <3>1. asked' = [asked EXCEPT ![c].verdict = "denied"]
      BY <2>1, <2>9, <2>13 DEF asked
    <3>2. Register!Deny(c)
      BY <2>8, <2>10, <2>11, <3>1 DEF Register!Deny, Register!Open, asked
    <3> QED
      BY <3>2 DEF Register!Next
  <2> QED
    BY <2>12, <2>13
<1>4. ASSUME UNCHANGED <<repository, call, answer>>
      PROVE  UNCHANGED Register!vars
  BY <1>4 DEF repository, Register!vars, RequestOf, Took
<1>5. ASSUME NEW c \in Clients, Observe(c)
      PROVE  Register!Next \/ UNCHANGED Register!vars
  <2>1. asked' = [asked EXCEPT ![c] = RequestOf(c)']
    BY <1>5, OthersKeepRequests
       DEF Observe, repository, Took, IInv, TypeOK
  <2>2. RequestOf(c)' = None
    BY <1>5, NoneIsNoValue DEF Observe, Observed, RequestOf, IInv, TypeOK
  <2>3. UNCHANGED <<ref, tree>>
    BY <1>5 DEF Observe, repository
  <2>4. CASE RequestOf(c) = None
    BY <1>2, <2>1, <2>2, <2>3, <2>4
  <2>5. CASE RequestOf(c) # None
    <3>1. asked[c] = RequestOf(c) /\ answer[c] # None
      BY <1>5, <2>5
         DEF asked, RequestOf, Observe, Executing, IInv, CallShape, AnswerShape
    <3>2. asked[c].verdict # "open"
      BY <2>5, <3>1 DEF RequestOf, Verdict
    <3>3. Register!Forget(c)
      BY <2>1, <2>2, <2>3, <2>5, <3>1, <3>2 DEF Register!Forget, asked
    <3> QED
      BY <3>3 DEF Register!Next
  <2> QED
    BY <2>4, <2>5
<1>6. ASSUME NEW c \in Clients, NEW desired \in Regular,
             NEW id \in ExecutionIDs, Authorize(c, desired, id)
      PROVE  Register!Next
  <2>1. asked' = [asked EXCEPT ![c] = RequestOf(c)']
    BY <1>6, OthersKeepRequests
       DEF Authorize, repository, Took, IInv, TypeOK
  <2>2. /\ call[c] \in Calls /\ call[c].id = None /\ answer[c] = None
        /\ call'[c] = [call[c] EXCEPT !.desired = desired, !.id = id]
        /\ answer'[c] = None /\ installed' = installed
        /\ id \notin installed /\ id # None /\ call[c] # None
    BY <1>6, NoneIsNoValue
       DEF Authorize, repository, IInv, TypeOK, CallShape, AnswerShape
  <2>3. /\ call'[c] # None /\ call'[c].id = id
        /\ call'[c].before = call[c].before /\ call'[c].desired = desired
    BY <2>2, NoneIsNoValue DEF Calls
  <2>4. Took(c)' = FALSE
    BY <2>2, <2>3 DEF Took
  <2>5. RequestOf(c)' = Register!Asked(call[c].before, desired)
    BY <2>2, <2>3, <2>4, Zenon DEF RequestOf, Verdict, Register!Asked
  <2>6. asked[c] = None
    BY <2>2 DEF asked, RequestOf
  <2>7. Register!Ask(c, call[c].before, desired)
    BY <1>6, <2>1, <2>5, <2>6
       DEF Register!Ask, Authorize, repository, asked
  <2> QED
    BY <2>2, <2>7, GitAssumption DEF Register!Next, Calls
<1>7. ASSUME NEW c \in Clients, NEW k \in Commits, Prepare(c, k)
      PROVE  UNCHANGED Register!vars
  <2>1. asked' = [asked EXCEPT ![c] = RequestOf(c)']
    BY <1>7, OthersKeepRequests DEF Prepare, Goto, Took, IInv, TypeOK
  <2>2. call[c] \in Calls /\ call'[c] = [call[c] EXCEPT !.commit = k]
           /\ answer'[c] = answer[c] /\ installed' = installed
    BY <1>7, NoneIsNoValue
       DEF Prepare, Goto, IInv, TypeOK, CallShape, Authorized
  <2>3. RequestOf(c)' = RequestOf(c)
    BY <2>2, NoneIsNoValue DEF RequestOf, Took, Calls
  <2>4. ref' = ref /\ objects'[ref] = objects[ref]
    BY <1>7, NoneIsNoValue
       DEF Prepare, Store, IInv, TypeOK
  <2> QED
    BY <1>2, <2>1, <2>3, <2>4
<1>8. ASSUME NEW c \in Clients, Swap(c) PROVE Register!Next
  <2>1. /\ call[c] \in Calls /\ call[c] # None /\ call[c].id # None
        /\ call[c].desired # None /\ answer[c] = None
        /\ call[c].commit \in Commits /\ call[c].commit # None
        /\ objects[call[c].commit] = Replacement(call[c])
    BY <1>8
       DEF Swap, IInv, TypeOK, CallShape, CommitIsReplacement, AnswerShape,
           TookShape, Authorized, Updating, Executing, Calls, Took
  <2>13. ~Took(c)
    BY <1>8 DEF Swap, IInv, TookShape
  <2>2. \A d \in Clients \ {c} : Authorized(d) => Took(d)' = Took(d)
    BY <1>8, <2>1 DEF Swap, IInv, IDsAreOwn, Authorized, Took
  <2>3. asked' = [asked EXCEPT ![c] = RequestOf(c)']
    BY <1>8, <2>2, OthersKeepRequests DEF Swap, Goto, IInv, TypeOK
  <2>4. RequestOf(c) =
          [seen |-> call[c].before, desired |-> call[c].desired,
           effect |-> Took(c), verdict |-> "open"]
    BY <2>1, Zenon DEF RequestOf, Verdict
  <2>5. call' = call /\ answer' = answer /\ Took(c)' = TRUE
    BY <1>8 DEF Swap, Took
  <2>6. RequestOf(c)' =
          [seen |-> call[c].before, desired |-> call[c].desired,
           effect |-> Took(c)', verdict |-> "open"]
    BY <2>1, <2>5, Zenon DEF RequestOf, Verdict
  <2>7. asked[c] = RequestOf(c) /\ RequestOf(c) # None
    <3>1. RequestOf(c) \in Requests
      BY <2>1, <2>4 DEF Requests, Calls, Took
    <3> QED
      BY <3>1, NoneIsNoValue DEF asked
  <2>8. asked' = [asked EXCEPT ![c].effect = TRUE]
    <3>1. RequestOf(c)' = [asked[c] EXCEPT !.effect = Took(c)']
      BY <2>4, <2>6, <2>7
    <3>2. RequestOf(c)' = [asked[c] EXCEPT !.effect = TRUE]
      BY <2>5, <3>1, Zenon
    <3> QED
      BY <2>3, <3>2 DEF asked
  <2>9. ref = call[c].before /\ ref' = call[c].commit /\ objects' = objects
    BY <1>8 DEF Swap, TipIs
  <2>10. tree' = [tree EXCEPT ![Target] = call[c].desired]
    BY <2>1, <2>9 DEF Replacement
  <2>11. Register!Open(c) /\ ~asked[c].effect /\ asked[c].seen = ref
           /\ asked[c].desired = call[c].desired
    BY <2>1, <2>4, <2>7, <2>9, <2>13 DEF Register!Open, asked
  <2>12. Register!TakeEffect(c, call[c].commit)
    BY <2>8, <2>9, <2>10, <2>11 DEF Register!TakeEffect, asked
  <2> QED
    BY <2>1, <2>12 DEF Register!Next
<1>9. ASSUME NEW k \in Commits, MoveTo(k) PROVE Register!Next
  <2>1. asked' = asked
    BY <1>9 DEF MoveTo, clients, asked, RequestOf, Took
  <2> QED
    BY <1>1, <2>1 DEF Register!Next, Register!Foreign, asked
<1>10. ASSUME NEW c \in Clients, ClientStep(c)
       PROVE  Register!Next \/ UNCHANGED Register!vars
  <2>1. CASE Abandon(c) \/ UpdateFails(c) \/ VerifyTip(c) \/ VerifyFinally(c)
               \/ VerifyFails(c) \/ CommitRoot(c)
    BY <2>1, <1>4
       DEF Abandon, UpdateFails, VerifyTip, VerifyFinally, VerifyFails,
           CommitRoot, Goto
  <2>2. CASE ReadTip(c)
    BY <2>2, <1>3, <1>4 DEF ReadTip, Goto, Executing, Results
  <2>3. CASE ExecuteFails(c) \/ InquiryFails(c)
    BY <2>3, <1>3 DEF ExecuteFails, InquiryFails, Executing, Results
  <2>4. CASE UpdateSucceeds(c)
    BY <2>4, <1>3
       DEF UpdateSucceeds, Executing, Results, IInv, TookShape
  <2>5. CASE Inquire(c)
    <3>1. /\ call[c] \in Calls /\ call[c].id # None
          /\ objects[call[c].commit] = Replacement(call[c])
      BY <2>5
         DEF Inquire, IInv, TypeOK, CallShape, CommitIsReplacement, Authorized,
             Updating
    <3>2. ref = call[c].commit => Took(c)
      BY <3>1 DEF Replacement, IInv, TypeOK, PublishedAreInstalled, Took
    <3>3. Shows(call[c]) \in Results
      BY DEF Shows, Results
    <3>4. Shows(call[c]) = "ok" => Took(c)
      BY <3>2 DEF Shows
    <3> QED
      BY <2>5, <3>3, <3>4, <1>3 DEF Inquire, Executing
  <2> QED
    BY <1>10, <1>5, <1>6, <1>7, <1>8, <2>1, <2>2, <2>3, <2>4, <2>5
       DEF ClientStep
<1>11. CASE UNCHANGED vars
  BY <1>11, <1>4 DEF vars, clients
<1> QED
  BY <1>9, <1>10, <1>11 DEF Next, Rewrite, Push

(* An Execute that reports success changed the branch exactly once, from   *)
(* the very tip it was authorized for and in nothing but the target file;  *)
(* one that reports a failure changed it at most once.                     *)
THEOREM ImplementsRegister == Spec => RegisterSpec
<1>1. IInv /\ IInv' /\ [Next]_vars => [Register!Next]_(Register!vars)
  BY RegisterNext
<1> QED
  BY <1>1, RegisterInit, Invariance, PTL DEF Spec, RegisterSpec, Register!Spec

-----------------------------------------------------------------------------
(* Refinement of ControlBoundary *)

(* The initial states map to initial states.                               *)
LEMMA BoundaryInit == ASSUME NEW c \in Clients, Init PROVE Boundary(c)!Init
<1>1. call[c] = None /\ pc[c] = "idle" /\ root[c] \in Regular
  BY DEF Init
<1>2. Stage(c) = "open"
  BY <1>1 DEF Stage, Executing
<1> QED
  BY <1>1, <1>2 DEF Boundary!Init, Pending, Subject

(* What a client holds does not change when others take steps.             *)
LEMMA BoundaryStutter ==
    ASSUME NEW c \in Clients, call'[c] = call[c], root'[c] = root[c],
           Stage(c)' = Stage(c)
    PROVE  UNCHANGED Boundary(c)!vars
BY DEF Boundary!vars, Pending, Subject

(* A client's own steps map to steps of ControlBoundary or stutters.       *)
LEMMA BoundaryStep ==
    ASSUME IInv, NEW c \in Clients, ClientStep(c)
    PROVE  Boundary(c)!Next \/ UNCHANGED Boundary(c)!vars
<1> USE DEF IInv, TypeOK, PCs
<1>1. ASSUME NEW to, pc[c] \notin {"idle", "observed"}, UNCHANGED <<call, root>>,
             Stage(c)' = to, to # "open", Stage(c) # "open",
             \/ Stage(c) = "executing" /\ to \in {"executed", "recovery"}
             \/ Stage(c) = "executed" /\ to \in {"confirmed", "recovery"}
             \/ Stage(c) = to
      PROVE  Boundary(c)!Next \/ UNCHANGED Boundary(c)!vars
  BY <1>1
     DEF Boundary!Next, Boundary!Become, Boundary!vars, Pending, Subject
<1>2. CASE Observe(c)
  <2>1. /\ pc'[c] = "observed" /\ Stage(c)' = "open" /\ root' = root
        /\ call'[c] = Observed(ref)
    BY <1>2 DEF Observe, Goto, Stage, Executing
  <2>5. Observed(ref) # None
    <3>1. Observed(ref) \in Calls
      BY <1>2 DEF Observe, Readable, Observed, Calls
    <3> QED
      BY <3>1, NoneIsNoValue
  <2>2. CASE pc[c] = "recovery"
    BY <2>1, <2>2, <2>5, NoneIsNoValue
       DEF Stage, Executing, CallShape, Authorized, Pending, Subject,
           Boundary!Next, Boundary!Recover, Boundary!Close
  <2>3. CASE pc[c] \in {"idle", "observed"} /\ call[c] = None
    BY <2>1, <2>3, <2>5, NoneIsNoValue
       DEF Stage, Executing, Pending, Subject, Boundary!Next, Boundary!Bind
  <2>4. CASE pc[c] \in {"idle", "observed"} /\ call[c] # None
    BY <2>1, <2>4, <2>5 DEF Stage, Executing, Pending, Subject, Boundary!vars
  <2> QED
    BY <1>2, <2>2, <2>3, <2>4 DEF Observe
<1>3. ASSUME NEW desired \in Regular, NEW id \in ExecutionIDs,
             Authorize(c, desired, id)
      PROVE  Boundary(c)!Next
  <2>1. /\ Stage(c) = "open" /\ Stage(c)' = "executing" /\ root' = root
        /\ call[c] \in Calls /\ call[c] # None
        /\ call'[c] = [call[c] EXCEPT !.desired = desired, !.id = id]
        /\ call[c].state = root[c] /\ desired # root[c]
    BY <1>3, NoneIsNoValue DEF Authorize, Stage, Executing, CallShape
  <2>2. call'[c] # None /\ call'[c].state = root[c]
           /\ call'[c].desired = desired
    <3>1. [call[c] EXCEPT !.desired = desired, !.id = id] \in Calls
      BY <1>3, <2>1 DEF Calls
    <3> QED
      BY <2>1, <3>1, NoneIsNoValue DEF Calls
  <2> DEFINE move == [before |-> root[c], after |-> desired]
  <2>3. /\ Pending(c)' = move
        /\ Subject(c)' = Target /\ Subject(c) = Target
    BY <2>1, <2>2 DEF Pending, Subject
  <2>4. Boundary(c)!Begin(move)
    BY <2>1, <2>3, NoneIsNoValue DEF Boundary!Begin
  <2> QED
    BY <2>4 DEF Boundary!Next, Boundary!Moves
<1>4. ASSUME NEW a, Return(c, a), pc[c] \in Executing
      PROVE  Boundary(c)!Next \/ UNCHANGED Boundary(c)!vars
  <2>1. /\ Stage(c)' \in {"executed", "recovery"} /\ UNCHANGED <<call, root>>
        /\ Stage(c) = IF c \in abandoned THEN "recovery" ELSE "executing"
        /\ c \in abandoned => Stage(c)' = "recovery"
    BY <1>4 DEF Return, Goto, Stage, Executing
  <2> QED
    BY <1>1, <1>4, <2>1 DEF Executing
<1>5. CASE ReadTip(c) \/ ExecuteFails(c) \/ UpdateSucceeds(c) \/ Inquire(c)
              \/ InquiryFails(c)
  <2>1. CASE \E a : Return(c, a)
    BY <1>4, <1>5, <2>1
       DEF ReadTip, ExecuteFails, UpdateSucceeds, Inquire, InquiryFails,
           Executing
  <2>2. CASE ReadTip(c) /\ Goto(c, "preparing") /\ UNCHANGED <<call, abandoned>>
    BY <2>2, BoundaryStutter DEF ReadTip, Goto, Stage, Executing
  <2> QED
    BY <1>5, <2>1, <2>2
       DEF ReadTip, ExecuteFails, UpdateSucceeds, Inquire, InquiryFails
<1>6. CASE Abandon(c)
  BY <1>6, <1>1 DEF Abandon, Stage, Executing
<1>7. ASSUME NEW k \in Commits, Prepare(c, k)
      PROVE  UNCHANGED Boundary(c)!vars
  <2>1. /\ call[c] \in Calls /\ call'[c] = [call[c] EXCEPT !.commit = k]
        /\ call[c] # None
        /\ Stage(c)' = Stage(c) /\ root' = root
    BY <1>7, NoneIsNoValue
       DEF Prepare, Goto, Stage, Executing, CallShape, Authorized
  <2>2. call'[c] # None /\ call'[c].state = call[c].state
           /\ call'[c].desired = call[c].desired
    BY <1>7, <2>1, NoneIsNoValue DEF Calls
  <2> QED
    BY <2>1, <2>2 DEF Boundary!vars, Pending, Subject
<1>8. CASE Swap(c) \/ UpdateFails(c)
  BY <1>8, BoundaryStutter DEF Swap, UpdateFails, Goto, Stage, Executing
<1>9. CASE VerifyTip(c) \/ VerifyFinally(c) \/ VerifyFails(c)
  <2>1. /\ Stage(c) = "executed" /\ UNCHANGED <<call, root>>
        /\ Stage(c)' \in {"executed", "confirmed", "recovery"}
        /\ pc[c] \notin {"idle", "observed"}
    BY <1>9 DEF VerifyTip, VerifyFinally, VerifyFails, Goto, Stage, Executing
  <2> QED
    BY <1>1, <2>1
<1>10. CASE CommitRoot(c)
  <2>1. /\ Stage(c) = "confirmed" /\ Stage(c)' = "open" /\ call' = call
        /\ root'[c] = call[c].desired
    BY <1>10 DEF CommitRoot, Stage, Executing
  <2> QED
    BY <2>1
       DEF Boundary!Next, Boundary!Commit, Boundary!Close, Pending, Subject
<1> QED
  BY <1>2, <1>3, <1>5, <1>6, <1>7, <1>8, <1>9, <1>10 DEF ClientStep

(* Each client's Runtime keeps what ControlBoundary promises: executions   *)
(* start from the root, do not overlap, and the root changes only by a     *)
(* commit of the change Verify confirmed, whatever others do to the branch.*)
THEOREM ImplementsBoundary == Spec => BoundarySpec
<1> DEFINE Step == \A c \in Clients :
                     Boundary(c)!Next \/ UNCHANGED Boundary(c)!vars
<1>1. ASSUME IInv, [Next]_vars PROVE Step
  <2> SUFFICES ASSUME NEW c \in Clients
               PROVE  Boundary(c)!Next \/ UNCHANGED Boundary(c)!vars
    OBVIOUS
  <2>1. CASE ClientStep(c)
    BY <1>1, <2>1, BoundaryStep
  <2>2. CASE UNCHANGED clients
    BY <2>2, BoundaryStutter DEF clients, Stage
  <2>3. ASSUME NEW d \in Clients \ {c}, ClientStep(d)
        PROVE  UNCHANGED Boundary(c)!vars
    <3>1. /\ call'[c] = call[c] /\ root'[c] = root[c] /\ pc'[c] = pc[c]
          /\ c \in abandoned' <=> c \in abandoned
      BY <1>1, <2>3
         DEF IInv, TypeOK, ClientStep, Goto, Return, Observe, Authorize,
             Abandon, ReadTip, ExecuteFails, Prepare, Swap, UpdateSucceeds,
             UpdateFails, Inquire, InquiryFails, VerifyTip, VerifyFinally,
             VerifyFails, CommitRoot
    <3> QED
      BY <3>1, BoundaryStutter DEF Stage
  <2> QED
    BY <1>1, <2>1, <2>2, <2>3 DEF Next, vars, Rewrite, Push, MoveTo
<1>2. Init => \A c \in Clients : Boundary(c)!Init
  BY BoundaryInit
<1>3. IInv /\ [Next]_vars => [Step]_vars
  BY <1>1
<1> HIDE DEF Step
<1>4. Spec => (\A c \in Clients : Boundary(c)!Init) /\ [][Step]_vars
  BY <1>2, <1>3, Invariance, PTL DEF Spec
<1> QED
  BY <1>4 DEF BoundarySpec, Step
=============================================================================
