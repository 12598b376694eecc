-------------------------- MODULE SyntheticProvider --------------------------
(***************************************************************************)
(* integrations/synthetic/provider.go: the resource of the demonstration   *)
(* server.  Executor, Verifier and RecoveryObserver hold no state; each    *)
(* reads or writes the Resource under its mutex.                           *)
(***************************************************************************)
EXTENDS Naturals

CONSTANT None

VARIABLE resource   \* [state, version, execution] of the Resource struct

NewResource(s) == [state |-> s, version |-> 1, execution |-> None]

(* Mutant: the version is not compared. *)
SameState(before) == resource.state = before.state

(* The guard of Executor.Execute against what changed since Before. *)
Same(before) ==
    /\ resource.state = before.state
    /\ resource.version = before.version

Transitioned(id, after) ==
    resource' = [state |-> after, version |-> resource.version + 1,
                 execution |-> id]

(* Verifier.Verify: the target state, under this execution's marker. *)
Marked(id, after) ==
    resource.state = after /\ resource.execution = id

(* A change from outside clears the marker. *)
Set(s) ==
    resource' = [state |-> s, version |-> resource.version + 1,
                 execution |-> None]
=============================================================================
