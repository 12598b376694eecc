--------------------------- MODULE MemoryProvider ---------------------------
(***************************************************************************)
(* integrations/memory/provider.go: one resource, whose every method runs  *)
(* under the resource's own mutex.  Other modules conjoin these operators  *)
(* with their own steps.                                                   *)
(***************************************************************************)
EXTENDS Naturals

CONSTANT None

VARIABLE resource   \* [state, version, execution] of the Resource struct

Fresh(s) == [state |-> s, version |-> 1, execution |-> None]

(* What Observe reports of the resource. *)
Reading == [state |-> resource.state, version |-> resource.version]

(* Mutant: the state is compared, the version is not. *)
UnchangedState(before) == resource.state = before.state

(* What Execute compares with the authorized observation. *)
Unchanged(before) ==
    /\ resource.state = before.state
    /\ resource.version = before.version

Execute(id, payload) ==
    resource' = [state |-> payload, version |-> resource.version + 1,
                 execution |-> id]

(* Mutant: the state is compared, the execution is not. *)
ShowsState(id, expected) == resource.state = expected

(* Verify: the resource is in the expected state and this execution was    *)
(* the last to write it.                                                   *)
Shows(id, expected) ==
    resource.execution = id /\ resource.state = expected

(* Some other writer. *)
Set(s) ==
    resource' = [state |-> s, version |-> resource.version + 1,
                 execution |-> None]
=============================================================================
