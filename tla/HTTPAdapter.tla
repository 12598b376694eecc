----------------------------- MODULE HTTPAdapter -----------------------------
(***************************************************************************)
(* integrations/mcp/http_api_adapter.go: one tool call is one POST to      *)
(* /v1/observations and, if its answer is about the file asked for, one    *)
(* POST to /v1/changes with the token of that observation.                 *)
(*                                                                         *)
(* The service behind it is not part of the repository.  It is modelled    *)
(* from what the adapter and its tests expect of it: a token stands for    *)
(* one version of one file, a change made with it takes effect on that     *)
(* version or not at all, and only an answer of status 200 that carries    *)
(* an execution ID and both confirmations says that it did.  Requests and  *)
(* answers are lost or delayed, also beyond the adapter's timeout, and     *)
(* service and gateways may answer anything else at any time.              *)
(***************************************************************************)
EXTENDS Naturals

CONSTANTS
    Calls,        \* tool calls
    Files,        \* repository, branch and path
    MaxVersion,   \* bound: changes of one file
    None

Tokens  == [file : Files, version : 0 .. MaxVersion]
Servers == {"api", "elsewhere"}
Kinds   == {"observe", "change"}

(* A change always carries a token; which file that is for, the API knows. *)
Requests ==
    [call : Calls, kind : {"observe"}, to : Servers, file : Files,
     token : {None}] \cup
    [call : Calls, kind : {"change"}, to : Servers, file : Files,
     token : Tokens]

(* Status 200, another 2xx, 3xx, and all others. *)
Statuses == {"ok", "accepted", "redirect", "error"}

ObservationBodies == [file : Files, token : Tokens \cup {None}]
ChangeBodies      == [verified : BOOLEAN, committed : BOOLEAN, id : BOOLEAN]

(* The body is None if it is too long, no JSON, or more than expected.     *)
Answers == [call : Calls, kind : Kinds, status : Statuses,
            body : ObservationBodies \cup ChangeBodies \cup {None}]

Outcomes == {"invalid", "unobserved", "mismatched", "ambiguous",
             "unconfirmed", "success"}

ASSUME AdapterAssumption == MaxVersion \in Nat /\ None \notin Outcomes

VARIABLES
    pc,         \* where each tool call is
    asked,      \* the file it is about
    outcome,    \* what its caller is told
    requests,   \* on the wire
    answers,    \* on the wire
    version,    \* the service's version of each file
    effects,    \* history: changes made, [call, file, version replaced]
    posts       \* history: mutating requests sent for each call

calls   == <<pc, asked, outcome>>
service == <<version, effects>>
vars    == <<calls, requests, answers, service, posts>>

Init ==
    /\ pc = [c \in Calls |-> "idle"]
    /\ asked = [c \in Calls |-> None]
    /\ outcome = [c \in Calls |-> None]
    /\ requests = {} /\ answers = {}
    /\ version = [f \in Files |-> 0]
    /\ effects = {}
    /\ posts = [c \in Calls |-> 0]

Ends(c, o) ==
    /\ pc' = [pc EXCEPT ![c] = "done"]
    /\ outcome' = [outcome EXCEPT ![c] = o]
    /\ UNCHANGED asked

Sends(c, ms) ==
    /\ requests' = requests \cup ms
    /\ posts' = [posts EXCEPT ![c] =
                   IF \E m \in ms : m.kind = "change" THEN @ + 1 ELSE @]

-----------------------------------------------------------------------------
(* controlTool and postJSON *)

Invoke(c, f) ==
    /\ pc[c] = "idle"
    /\ asked' = [asked EXCEPT ![c] = f]
    /\ pc' = [pc EXCEPT ![c] = "observing"]
    /\ Sends(c, {[call |-> c, kind |-> "observe", to |-> "api", file |-> f,
                  token |-> None]})
    /\ UNCHANGED <<outcome, answers, service>>

(* A field is missing, the mode is no file's, the Base64 not canonical.    *)
InvokeInvalid(c) ==
    /\ pc[c] = "idle"
    /\ Ends(c, "invalid")
    /\ UNCHANGED <<requests, answers, service, posts>>

Receive(c, a, kind) ==
    /\ a.call = c /\ a.kind = kind
    /\ pc[c] = IF kind = "observe" THEN "observing" ELSE "changing"
    /\ answers' = answers \ {a}

Decoded(a) == a.status = "ok" /\ a.body # None

(* Mutant: http.Client's default, which posts again where it is told to.   *)
RepostedOnRedirect(c, a) ==
    IF a.status # "redirect" \/ a.kind = "observe" THEN {}
    ELSE {[call |-> c, kind |-> a.kind, to |-> "elsewhere",
           file |-> asked[c], token |-> [file |-> asked[c], version |-> 0]]}

(* CheckRedirect makes a redirect an answer like any other.                *)
Reposted(c, a) == {}

(* Mutant: the answer needs no token. *)
MatchesFile(c, b) == b.file = asked[c]

Matches(c, b) == b.token # None /\ b.file = asked[c]

Observed(c, a) ==
    /\ Receive(c, a, "observe")
    /\ Decoded(a) /\ Matches(c, a.body)
    /\ pc' = [pc EXCEPT ![c] = "changing"]
    /\ Sends(c, {[call |-> c, kind |-> "change", to |-> "api",
                  file |-> a.body.file, token |-> a.body.token]})
    /\ UNCHANGED <<asked, outcome, service>>

NotObserved(c, a) ==
    /\ Receive(c, a, "observe")
    /\ ~(Decoded(a) /\ Matches(c, a.body))
    /\ Ends(c, IF Decoded(a) THEN "mismatched" ELSE "unobserved")
    /\ Sends(c, Reposted(c, a))
    /\ UNCHANGED service

(* Mutant: verification counts as success. *)
ConfirmsVerification(b) == b.verified /\ b.id

Confirms(b) == b.verified /\ b.committed /\ b.id

ChangeAnswered(c, a) ==
    /\ Receive(c, a, "change")
    /\ Ends(c, IF ~Decoded(a) THEN "ambiguous"
               ELSE IF Confirms(a.body) THEN "success" ELSE "unconfirmed")
    /\ Sends(c, Reposted(c, a))
    /\ UNCHANGED service

(* Mutant: the client's timeout covers the first request only. *)
BoundedFirst(c) == pc[c] = "observing"

Bounded(c) == pc[c] \in {"observing", "changing"}

(* Mutant: a timeout is a timeout. *)
GivesUpUnobserved(c) == "unobserved"

GivesUp(c) == IF pc[c] = "observing" THEN "unobserved" ELSE "ambiguous"

(* The client's timeout, or the end of the caller's context.               *)
TimesOut(c) ==
    /\ Bounded(c)
    /\ Ends(c, GivesUp(c))
    /\ UNCHANGED <<requests, answers, service, posts>>

-----------------------------------------------------------------------------
(* The service, what stands before it, and the network *)

Answer(m, status, body) ==
    /\ requests' = requests \ {m}
    /\ answers' = answers \cup
          {[call |-> m.call, kind |-> m.kind, status |-> status,
            body |-> body]}
    /\ UNCHANGED <<calls, posts>>

(* An observation of the file asked for, or of some other, or of none.     *)
ServeObservation(m, f, token) ==
    /\ m.kind = "observe"
    /\ token \in {[file |-> f, version |-> version[f]], None}
    /\ Answer(m, "ok", [file |-> f, token |-> token])
    /\ UNCHANGED service

(* The change takes effect, confirmed or not: verification may fail, the   *)
(* answer may be cut off or be replaced on its way.                        *)
ServeChange(m, status, b) ==
    /\ m.kind = "change"
    /\ m.token.version = version[m.token.file]
    /\ version[m.token.file] < MaxVersion
    /\ version' = [version EXCEPT ![m.token.file] = @ + 1]
    /\ effects' = effects \cup {[call |-> m.call, file |-> m.token.file,
                                 version |-> m.token.version]}
    /\ Answer(m, status, b)

(* Anything that does not say that the request was carried out.            *)
ServeNothing(m, status, b) ==
    /\ status = "ok" /\ b # None =>
          m.kind = "change" /\ ~(b.verified /\ b.committed /\ b.id)
    /\ Answer(m, status, b)
    /\ UNCHANGED service

LoseRequest(m) ==
    /\ requests' = requests \ {m}
    /\ UNCHANGED <<calls, answers, service, posts>>

LoseAnswer(a) ==
    /\ answers' = answers \ {a}
    /\ UNCHANGED <<calls, requests, service, posts>>

OtherWriter(f) ==
    /\ version[f] < MaxVersion
    /\ version' = [version EXCEPT ![f] = @ + 1]
    /\ UNCHANGED <<calls, requests, answers, effects, posts>>

-----------------------------------------------------------------------------
ToolCall(c) ==
    \/ \E f \in Files : Invoke(c, f)
    \/ InvokeInvalid(c)
    \/ \E a \in answers :
        Observed(c, a) \/ NotObserved(c, a) \/ ChangeAnswered(c, a)
    \/ TimesOut(c)

Serve(m) ==
    \/ \E f \in Files, t \in Tokens \cup {None} : ServeObservation(m, f, t)
    \/ \E s \in Statuses, b \in ChangeBodies \cup {None} :
        ServeChange(m, s, b) \/ ServeNothing(m, s, b)
    \/ LoseRequest(m)

Next ==
    \/ \E c \in Calls : ToolCall(c)
    \/ \E m \in requests : Serve(m)
    \/ \E a \in answers : LoseAnswer(a)
    \/ \E f \in Files : OtherWriter(f)

Spec == Init /\ [][Next]_vars

(* The client's timeout is set to a positive duration and ends every       *)
(* request; nothing is assumed of the network or the service.              *)
FairSpec == Spec /\ \A c \in Calls : WF_vars(TimesOut(c))

-----------------------------------------------------------------------------
(* Properties *)

(* Every variable holds a value of its Go type. *)
TypeOK ==
    /\ pc \in [Calls -> {"idle", "observing", "changing", "done"}]
    /\ asked \in [Calls -> Files \cup {None}]
    /\ outcome \in [Calls -> Outcomes \cup {None}]
    /\ requests \subseteq Requests /\ answers \subseteq Answers
    /\ version \in [Files -> 0 .. MaxVersion]
    /\ effects \subseteq [call : Calls, file : Files, version : 0 .. MaxVersion]
    /\ posts \in [Calls -> Nat]

EffectsOf(c) == {e \in effects : e.call = c}

(* HTTP_API_ADAPTER.md:23: a call is reported successful only if the       *)
(* service did carry out its change, once, on the file it asked for,       *)
(* whatever other answers, late or for other calls, were on the wire.      *)
SuccessIsOwnChange ==
    \A c \in Calls : outcome[c] = "success" =>
        \E v \in 0 .. MaxVersion :
            EffectsOf(c) = {[call |-> c, file |-> asked[c], version |-> v]}

(* A caller told that no change was submitted, by any answer but the two   *)
(* that warn of an unknown outcome, may call again: its change neither was *)
(* made nor is still on its way.                                           *)
RefusalIsFinal ==
    \A c \in Calls : outcome[c] \in {"invalid", "unobserved", "mismatched"} =>
        /\ EffectsOf(c) = {}
        /\ ~\E m \in requests : m.call = c /\ m.kind = "change"

(* HTTP_API_ADAPTER.md:11,25: a mutating request is sent once, to the API, *)
(* whatever is answered to it, and changes the file asked for only.        *)
OneChangePerCall ==
    /\ \A c \in Calls : posts[c] <= 1
    /\ \A m \in requests : m.to = "api"
    /\ \A e \in effects : e.file = asked[e.call]

(* Every tool call ends, with a service that never answers too.            *)
ToolCallEnds ==
    \A c \in Calls : pc[c] # "idle" ~> pc[c] = "done"
=============================================================================
