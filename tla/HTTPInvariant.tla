---------------------------- MODULE HTTPInvariant ----------------------------
(* The inductive invariant behind the theorems of HTTPAdapterProofs: where *)
(* the change of a call is, and what each message on the wire stands for.  *)
EXTENDS HTTPAdapter

(* Outcomes that tell the caller that no change was submitted.             *)
Refusals == {"invalid", "unobserved", "mismatched"}

(* No change of the call was sent.                                         *)
Unsent(c) ==
    /\ posts[c] = 0
    /\ EffectsOf(c) = {}
    /\ \A m \in requests \cup answers : m.call = c => m.kind = "observe"

(* At most one is, by a call that does not say that none was.              *)
SentOnce ==
    \A c \in Calls :
        /\ pc[c] # "done" => outcome[c] = None
        /\ \/ Unsent(c)
           \/ /\ pc[c] \in {"changing", "done"} /\ outcome[c] \notin Refusals
              /\ posts[c] = 1

(* A change on the wire is of the file asked for, and has had no effect.   *)
ChangePending ==
    \A m \in requests :
        /\ m.to = "api"
        /\ m.kind = "change" =>
              /\ m.token \in Tokens /\ m.token.file = asked[m.call]
              /\ EffectsOf(m.call) = {}
              /\ \A a \in answers : a.call = m.call => a.kind = "observe"
              /\ \A n \in requests :
                    n.call = m.call /\ n.kind = "change" => n = m

(* The service changed what was asked for, once for a call.                *)
EffectsAreOwn ==
    \A e \in effects :
        /\ e.file = asked[e.call]
        /\ \A d \in effects : d.call = e.call => d = e

(* What an answer of status 200 says is so.                                *)
AnswersTell ==
    \A a \in answers : Decoded(a) =>
        /\ a.kind = "observe" =>
              /\ a.body \in ObservationBodies
              /\ a.body.token # None => a.body.token.file = a.body.file
        /\ a.kind = "change" =>
              /\ a.body \in ChangeBodies
              /\ Confirms(a.body) => EffectsOf(a.call) # {}

SuccessTells ==
    \A c \in Calls : outcome[c] = "success" => EffectsOf(c) # {}

AdapterInv ==
    /\ TypeOK
    /\ SentOnce
    /\ ChangePending
    /\ EffectsAreOwn
    /\ AnswersTell
    /\ SuccessTells
=============================================================================
