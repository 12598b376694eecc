-------------------------- MODULE HTTPAdapterProofs --------------------------
(***************************************************************************)
(* Theorems about HTTPAdapter for every number of calls, files and changes:*)
(* a call changes what it was asked to, once, and its caller is told of    *)
(* success, or that nothing was submitted, only if it is so.               *)
(***************************************************************************)
EXTENDS HTTPInvariant, TLAPS

-----------------------------------------------------------------------------
(* The kinds of steps *)

(* Messages are lost, or somebody else writes.                             *)
Drops ==
    /\ requests' \subseteq requests /\ answers' \subseteq answers
    /\ version' \in [Files -> 0 .. MaxVersion]
    /\ UNCHANGED <<calls, effects, posts>>

(* A call ends, having received an answer or none; nothing is sent.        *)
Concludes(c, o) ==
    /\ pc[c] # "done"
    /\ Ends(c, o)
    /\ answers' \subseteq answers
    /\ UNCHANGED <<requests, service, posts>>

(* CheckRedirect: an answer makes the client send nothing.                 *)
LEMMA NothingReposted ==
    ASSUME TypeOK, NEW c \in Calls, NEW a, Sends(c, Reposted(c, a))
    PROVE  UNCHANGED <<requests, posts>>
<1>1. posts' = [posts EXCEPT ![c] = posts[c]] /\ requests' = requests
  BY DEF Sends, Reposted
<1> QED
  BY <1>1 DEF TypeOK

(* How a call may end: what it is told says something of where it was and  *)
(* of what it received.                                                    *)
LEMMA Endings ==
    ASSUME TypeOK, NEW c \in Calls,
           \/ InvokeInvalid(c) \/ TimesOut(c)
           \/ \E a \in answers : NotObserved(c, a) \/ ChangeAnswered(c, a)
    PROVE  \E o \in Outcomes :
              /\ Concludes(c, o)
              /\ o \in Refusals => pc[c] \in {"idle", "observing"}
              /\ o = "success" => \E a \in answers :
                    /\ a.call = c /\ a.kind = "change"
                    /\ Decoded(a) /\ Confirms(a.body)
<1> USE DEF Outcomes, Refusals
<1>1. CASE InvokeInvalid(c)
  BY <1>1 DEF InvokeInvalid, Concludes, service
<1>2. CASE TimesOut(c)
  <2>1. /\ pc[c] \in {"observing", "changing"} /\ Ends(c, GivesUp(c))
        /\ UNCHANGED <<requests, answers, service, posts>>
    BY <1>2 DEF TimesOut, Bounded
  <2>2. \/ pc[c] = "observing" /\ GivesUp(c) = "unobserved"
        \/ pc[c] = "changing" /\ GivesUp(c) = "ambiguous"
    BY <2>1 DEF GivesUp
  <2> QED
    BY <2>1, <2>2 DEF Concludes
<1>3. ASSUME NEW a \in answers, NotObserved(c, a)
      PROVE  \E o \in Outcomes :
                Concludes(c, o) /\ pc[c] = "observing" /\ o # "success"
  <2>1. /\ pc[c] = "observing" /\ answers' \subseteq answers
        /\ UNCHANGED service /\ UNCHANGED <<requests, posts>>
        /\ \E o \in {"mismatched", "unobserved"} : Ends(c, o)
    BY <1>3, NothingReposted DEF NotObserved, Receive
  <2> QED
    BY <2>1 DEF Concludes
<1>4. ASSUME NEW a \in answers, ChangeAnswered(c, a)
      PROVE  \E o \in Outcomes :
                /\ Concludes(c, o) /\ o \notin Refusals
                /\ o = "success" => /\ a.call = c /\ a.kind = "change"
                                    /\ Decoded(a) /\ Confirms(a.body)
  <2>1. /\ pc[c] = "changing" /\ answers' \subseteq answers
        /\ a.call = c /\ a.kind = "change"
        /\ UNCHANGED service /\ UNCHANGED <<requests, posts>>
    BY <1>4, NothingReposted DEF ChangeAnswered, Receive
  <2>2. \/ Ends(c, "ambiguous") \/ Ends(c, "unconfirmed")
        \/ Ends(c, "success") /\ Decoded(a) /\ Confirms(a.body)
    BY <1>4 DEF ChangeAnswered
  <2> QED
    BY <2>1, <2>2 DEF Concludes
<1> QED
  BY <1>1, <1>2, <1>3, <1>4

(* There are no other steps.                                               *)
LEMMA StepKinds ==
    ASSUME TypeOK, [Next]_vars
    PROVE  \/ Drops
           \/ \E c \in Calls, f \in Files : Invoke(c, f)
           \/ \E c \in Calls, a \in answers : Observed(c, a)
           \/ \E c \in Calls :
                 \/ InvokeInvalid(c) \/ TimesOut(c)
                 \/ \E a \in answers : NotObserved(c, a) \/ ChangeAnswered(c, a)
           \/ \E m \in requests, f \in Files, t \in Tokens \cup {None} :
                 ServeObservation(m, f, t)
           \/ \E m \in requests, s \in Statuses, b \in ChangeBodies \cup {None} :
                 ServeChange(m, s, b) \/ ServeNothing(m, s, b)
<1>1. CASE UNCHANGED vars
  BY <1>1 DEF vars, service, Drops, TypeOK
<1>2. ASSUME NEW m \in requests, LoseRequest(m)
      PROVE  Drops
  BY <1>2 DEF LoseRequest, service, Drops, TypeOK
<1>3. ASSUME NEW a \in answers, LoseAnswer(a)
      PROVE  Drops
  BY <1>3 DEF LoseAnswer, service, Drops, TypeOK
<1>4. ASSUME NEW f \in Files, OtherWriter(f)
      PROVE  Drops
  BY <1>4, AdapterAssumption DEF OtherWriter, Drops, TypeOK
<1> QED
  BY <1>1, <1>2, <1>3, <1>4 DEF Next, ToolCall, Serve

(* An answer of the service takes the place of the request it answers.     *)
LEMMA AnswerTyped ==
    ASSUME TypeOK, NEW m \in requests, NEW s \in Statuses,
           NEW b \in ObservationBodies \cup ChangeBodies \cup {None},
           Answer(m, s, b)
    PROVE  \E r \in Answers :
              /\ r.call = m.call /\ r.kind = m.kind
              /\ r.status = s /\ r.body = b
              /\ answers' = answers \cup {r}
              /\ requests' = requests \ {m}
              /\ UNCHANGED <<calls, posts>>
<1> DEFINE r == [call |-> m.call, kind |-> m.kind, status |-> s, body |-> b]
<1>1. m.call \in Calls /\ m.kind \in Kinds
  BY DEF TypeOK, Requests, Kinds
<1>2. /\ r \in Answers /\ r.call = m.call /\ r.kind = m.kind
      /\ r.status = s /\ r.body = b
  BY <1>1 DEF Answers
<1>3. /\ answers' = answers \cup {r} /\ requests' = requests \ {m}
      /\ UNCHANGED <<calls, posts>>
  BY DEF Answer
<1> HIDE DEF r
<1> QED
  BY <1>2, <1>3

(* What the request of a call becomes: an answer, with the effect before   *)
(* it if the change was carried out.                                       *)
LEMMA Answered ==
    ASSUME AdapterInv, NEW m \in requests,
           \/ \E f \in Files, t \in Tokens \cup {None} :
                 ServeObservation(m, f, t)
           \/ \E s \in Statuses, b \in ChangeBodies \cup {None} :
                 ServeChange(m, s, b) \/ ServeNothing(m, s, b)
    PROVE  \E r \in Answers :
              /\ r.call = m.call /\ r.kind = m.kind
              /\ answers' = answers \cup {r}
              /\ requests' = requests \ {m}
              /\ UNCHANGED <<calls, posts>>
              /\ version' \in [Files -> 0 .. MaxVersion]
              /\ \/ /\ UNCHANGED effects
                    /\ Decoded(r) /\ r.kind = "observe" =>
                          /\ r.body \in ObservationBodies
                          /\ r.body.token # None =>
                                r.body.token.file = r.body.file
                    /\ Decoded(r) /\ r.kind = "change" =>
                          r.body \in ChangeBodies /\ ~Confirms(r.body)
                 \/ /\ m.kind = "change"
                    /\ Decoded(r) => r.body \in ChangeBodies
                    /\ \E e \in [call : Calls, file : Files,
                                 version : 0 .. MaxVersion] :
                          /\ e.call = m.call /\ e.file = asked[m.call]
                          /\ effects' = effects \cup {e}
<1>a. TypeOK /\ ChangePending
  BY DEF AdapterInv
<1>1. ASSUME NEW f \in Files, NEW t \in Tokens \cup {None},
             ServeObservation(m, f, t)
      PROVE  \E r \in Answers :
                /\ r.call = m.call /\ r.kind = m.kind
                /\ answers' = answers \cup {r}
                /\ requests' = requests \ {m}
                /\ UNCHANGED <<calls, posts, version, effects>>
                /\ r.kind = "observe" /\ r.body \in ObservationBodies
                /\ r.body.token # None => r.body.token.file = r.body.file
  <2> DEFINE b == [file |-> f, token |-> t]
  <2>1. b \in ObservationBodies /\ b.token = t /\ b.file = f
    BY DEF ObservationBodies
  <2>2. /\ m.kind = "observe" /\ Answer(m, "ok", b)
        /\ UNCHANGED <<version, effects>>
        /\ t # None => t.file = f
    BY <1>1 DEF ServeObservation, service
  <2> HIDE DEF b
  <2>3. "ok" \in Statuses
    BY DEF Statuses
  <2>4. PICK r \in Answers :
           /\ r.call = m.call /\ r.kind = m.kind /\ r.body = b
           /\ answers' = answers \cup {r} /\ requests' = requests \ {m}
           /\ UNCHANGED <<calls, posts>>
    BY <1>a, <2>1, <2>2, <2>3, AnswerTyped
  <2> QED
    BY <2>1, <2>2, <2>4
<1>2. ASSUME NEW s \in Statuses, NEW b \in ChangeBodies \cup {None},
             ServeNothing(m, s, b)
      PROVE  \E r \in Answers :
                /\ r.call = m.call /\ r.kind = m.kind
                /\ answers' = answers \cup {r}
                /\ requests' = requests \ {m}
                /\ UNCHANGED <<calls, posts, version, effects>>
                /\ Decoded(r) => /\ r.kind = "change"
                                 /\ r.body \in ChangeBodies
                                 /\ ~Confirms(r.body)
  <2>1. /\ Answer(m, s, b) /\ UNCHANGED <<version, effects>>
        /\ s = "ok" /\ b # None =>
              /\ m.kind = "change" /\ ~(b.verified /\ b.committed /\ b.id)
    BY <1>2 DEF ServeNothing, service
  <2>2. PICK r \in Answers :
           /\ r.call = m.call /\ r.kind = m.kind
           /\ r.status = s /\ r.body = b
           /\ answers' = answers \cup {r} /\ requests' = requests \ {m}
           /\ UNCHANGED <<calls, posts>>
    BY <1>a, <2>1, AnswerTyped
  <2> QED
    BY <2>1, <2>2 DEF Decoded, Confirms
<1>3. ASSUME NEW s \in Statuses, NEW b \in ChangeBodies \cup {None},
             ServeChange(m, s, b)
      PROVE  /\ m.kind = "change"
             /\ \E r \in Answers :
                   /\ r.call = m.call /\ r.kind = m.kind
                   /\ answers' = answers \cup {r}
                   /\ requests' = requests \ {m}
                   /\ UNCHANGED <<calls, posts>>
                   /\ Decoded(r) => r.body \in ChangeBodies
             /\ version' \in [Files -> 0 .. MaxVersion]
             /\ \E e \in [call : Calls, file : Files,
                          version : 0 .. MaxVersion] :
                   /\ e.call = m.call /\ e.file = asked[m.call]
                   /\ effects' = effects \cup {e}
  <2>1. /\ m.kind = "change" /\ Answer(m, s, b)
        /\ version[m.token.file] < MaxVersion
        /\ version' = [version EXCEPT ![m.token.file] =
                         version[m.token.file] + 1]
        /\ effects' = effects \cup {[call |-> m.call, file |-> m.token.file,
                                     version |-> m.token.version]}
    BY <1>3 DEF ServeChange
  <2>2. /\ m.token \in Tokens /\ m.token.file = asked[m.call]
        /\ m.call \in Calls
    BY <1>a, <2>1 DEF ChangePending, TypeOK, Requests
  <2>3. m.token.file \in Files /\ m.token.version \in 0 .. MaxVersion
    BY <2>2 DEF Tokens
  <2>4. version' \in [Files -> 0 .. MaxVersion]
    BY <1>a, <2>1, <2>3, AdapterAssumption DEF TypeOK
  <2>5. PICK r \in Answers :
           /\ r.call = m.call /\ r.kind = m.kind
           /\ r.status = s /\ r.body = b
           /\ answers' = answers \cup {r} /\ requests' = requests \ {m}
           /\ UNCHANGED <<calls, posts>>
    BY <1>a, <2>1, AnswerTyped
  <2>6. Decoded(r) => r.body \in ChangeBodies
    BY <2>5 DEF Decoded
  <2> DEFINE e == [call |-> m.call, file |-> m.token.file,
                   version |-> m.token.version]
  <2>7. /\ e \in [call : Calls, file : Files, version : 0 .. MaxVersion]
        /\ e.call = m.call /\ e.file = asked[m.call]
        /\ effects' = effects \cup {e}
    BY <2>1, <2>2, <2>3
  <2> HIDE DEF e
  <2> QED
    BY <2>1, <2>4, <2>5, <2>6, <2>7
<1>4. version \in [Files -> 0 .. MaxVersion]
  BY <1>a DEF TypeOK
<1> QED
  <2>1. ASSUME NEW s \in Statuses, NEW b \in ChangeBodies \cup {None},
               ServeNothing(m, s, b)
        PROVE  \E r \in Answers :
                  /\ r.call = m.call /\ r.kind = m.kind
                  /\ answers' = answers \cup {r}
                  /\ requests' = requests \ {m}
                  /\ UNCHANGED <<calls, posts, version, effects>>
                  /\ Decoded(r) => /\ r.kind # "observe"
                                   /\ r.body \in ChangeBodies
                                   /\ ~Confirms(r.body)
    BY <1>2, <2>1
  <2> QED
    BY <1>1, <1>3, <1>4, <2>1

(* What a call sends: to observe, or to change what it observed.           *)
LEMMA Sent ==
    ASSUME AdapterInv, NEW c \in Calls,
           \/ \E f \in Files : Invoke(c, f)
           \/ \E a \in answers : Observed(c, a)
    PROVE  \E m \in Requests :
              /\ m.call = c /\ m.to = "api"
              /\ requests' = requests \cup {m}
              /\ answers' \subseteq answers
              /\ UNCHANGED <<outcome, service>>
              /\ \/ /\ m.kind = "observe" /\ UNCHANGED posts
                    /\ pc[c] = "idle"
                    /\ pc' = [pc EXCEPT ![c] = "observing"]
                    /\ \E f \in Files : asked' = [asked EXCEPT ![c] = f]
                 \/ /\ m.kind = "change"
                    /\ posts' = [posts EXCEPT ![c] = posts[c] + 1]
                    /\ pc[c] = "observing"
                    /\ pc' = [pc EXCEPT ![c] = "changing"]
                    /\ UNCHANGED asked
                    /\ m.token \in Tokens /\ m.token.file = asked[c]
<1>a. TypeOK /\ AnswersTell
  BY DEF AdapterInv
<1>1. ASSUME NEW f \in Files, Invoke(c, f)
      PROVE  \E m \in Requests :
                /\ m.call = c /\ m.to = "api" /\ m.kind = "observe"
                /\ requests' = requests \cup {m}
                /\ UNCHANGED <<outcome, service, answers, posts>>
                /\ pc[c] = "idle" /\ pc' = [pc EXCEPT ![c] = "observing"]
                /\ asked' = [asked EXCEPT ![c] = f]
  <2> DEFINE m == [call |-> c, kind |-> "observe", to |-> "api", file |-> f,
                   token |-> None]
  <2>1. m \in Requests /\ m.call = c /\ m.to = "api" /\ m.kind = "observe"
    BY DEF Requests, Servers
  <2>2. Sends(c, {m}) /\ UNCHANGED <<outcome, service, answers>>
          /\ pc[c] = "idle" /\ pc' = [pc EXCEPT ![c] = "observing"]
          /\ asked' = [asked EXCEPT ![c] = f]
    BY <1>1 DEF Invoke
  <2> HIDE DEF m
  <2>3. requests' = requests \cup {m} /\ posts' = [posts EXCEPT ![c] = posts[c]]
    BY <2>1, <2>2 DEF Sends
  <2>4. UNCHANGED posts
    BY <1>a, <2>3 DEF TypeOK
  <2> QED
    BY <2>1, <2>2, <2>3, <2>4
<1>2. ASSUME NEW a \in answers, Observed(c, a)
      PROVE  \E m \in Requests :
                /\ m.call = c /\ m.to = "api" /\ m.kind = "change"
                /\ requests' = requests \cup {m}
                /\ answers' \subseteq answers
                /\ UNCHANGED <<outcome, service, asked>>
                /\ posts' = [posts EXCEPT ![c] = posts[c] + 1]
                /\ pc[c] = "observing" /\ pc' = [pc EXCEPT ![c] = "changing"]
                /\ m.token \in Tokens /\ m.token.file = asked[c]
  <2> DEFINE m == [call |-> c, kind |-> "change", to |-> "api",
                   file |-> a.body.file, token |-> a.body.token]
  <2>1. /\ a.kind = "observe" /\ pc[c] = "observing"
        /\ Decoded(a) /\ a.body.token # None /\ a.body.file = asked[c]
        /\ answers' \subseteq answers
    BY <1>2 DEF Observed, Receive, Matches
  <2>2. /\ a.body.file \in Files /\ a.body.token \in Tokens
        /\ a.body.token.file = asked[c]
    BY <1>a, <2>1 DEF AnswersTell, ObservationBodies
  <2>3. /\ m \in Requests /\ m.call = c /\ m.to = "api" /\ m.kind = "change"
        /\ m.token = a.body.token
    BY <2>2 DEF Requests, Servers
  <2>4. Sends(c, {m}) /\ UNCHANGED <<outcome, service, asked>>
          /\ pc' = [pc EXCEPT ![c] = "changing"]
    BY <1>2 DEF Observed
  <2> HIDE DEF m
  <2>5. requests' = requests \cup {m}
          /\ posts' = [posts EXCEPT ![c] = posts[c] + 1]
    BY <2>3, <2>4 DEF Sends
  <2> QED
    BY <2>1, <2>2, <2>3, <2>4, <2>5
<1> QED
  BY <1>1, <1>2

-----------------------------------------------------------------------------
(* The invariant *)

(* It holds at first.                                                      *)
LEMMA AdapterInvInit == Init => AdapterInv
<1> SUFFICES ASSUME Init PROVE AdapterInv
  OBVIOUS
<1>1. TypeOK
  BY AdapterAssumption DEF Init, TypeOK
<1>2. SentOnce /\ SuccessTells
  BY AdapterAssumption
     DEF Init, SentOnce, Unsent, EffectsOf, SuccessTells, Outcomes
<1>3. ChangePending /\ EffectsAreOwn /\ AnswersTell
  BY DEF Init, ChangePending, EffectsAreOwn, AnswersTell
<1> QED
  BY <1>1, <1>2, <1>3 DEF AdapterInv

(* The steps, as what they do to each part of the state.                   *)
LEMMA AdapterSteps ==
    ASSUME AdapterInv, [Next]_vars
    PROVE  \/ Drops
           \/ \E c \in Calls :
                 \/ \E f \in Files : Invoke(c, f)
                 \/ \E a \in answers : Observed(c, a)
           \/ \E c \in Calls, o \in Outcomes :
                 /\ Concludes(c, o)
                 /\ o \in Refusals => pc[c] \in {"idle", "observing"}
                 /\ o = "success" => \E a \in answers :
                       /\ a.call = c /\ a.kind = "change"
                       /\ Decoded(a) /\ Confirms(a.body)
           \/ \E m \in requests :
                 \/ \E f \in Files, t \in Tokens \cup {None} :
                       ServeObservation(m, f, t)
                 \/ \E s \in Statuses, b \in ChangeBodies \cup {None} :
                       ServeChange(m, s, b) \/ ServeNothing(m, s, b)
<1>1. TypeOK
  BY DEF AdapterInv
<1> QED
  BY <1>1, StepKinds, Endings

(* No step leaves the types.                                               *)
LEMMA TypeNext == AdapterInv /\ [Next]_vars => TypeOK'
<1> SUFFICES ASSUME AdapterInv, [Next]_vars
             PROVE  TypeOK'
  OBVIOUS
<1>a. TypeOK
  BY DEF AdapterInv
<1>1. CASE Drops
  BY <1>a, <1>1 DEF Drops, calls, TypeOK
<1>2. ASSUME NEW c \in Calls,
             \/ \E f \in Files : Invoke(c, f)
             \/ \E a \in answers : Observed(c, a)
      PROVE  TypeOK'
  BY <1>a, <1>2, Sent DEF service, TypeOK
<1>3. ASSUME NEW c \in Calls, NEW o \in Outcomes, Concludes(c, o)
      PROVE  TypeOK'
  BY <1>a, <1>3 DEF Concludes, Ends, service, TypeOK
<1>4. ASSUME NEW m \in requests,
             \/ \E f \in Files, t \in Tokens \cup {None} :
                   ServeObservation(m, f, t)
             \/ \E s \in Statuses, b \in ChangeBodies \cup {None} :
                   ServeChange(m, s, b) \/ ServeNothing(m, s, b)
      PROVE  TypeOK'
  BY <1>a, <1>4, Answered DEF calls, TypeOK
<1> QED
  BY <1>1, <1>2, <1>3, <1>4, AdapterSteps

(* A call sends its change once, and is not told then that it did not.     *)
LEMMA SentOnceNext == AdapterInv /\ [Next]_vars => SentOnce'
<1> SUFFICES ASSUME AdapterInv, [Next]_vars
             PROVE  SentOnce'
  OBVIOUS
<1>a. TypeOK /\ SentOnce
  BY DEF AdapterInv
<1> USE DEF Unsent, EffectsOf, Refusals
<1>1. CASE Drops
  BY <1>a, <1>1 DEF Drops, calls, SentOnce
<1>2. ASSUME NEW c \in Calls,
             \/ \E f \in Files : Invoke(c, f)
             \/ \E a \in answers : Observed(c, a)
      PROVE  SentOnce'
  <2>1. PICK m \in Requests :
           /\ m.call = c /\ requests' = requests \cup {m}
           /\ answers' \subseteq answers /\ UNCHANGED <<outcome, effects>>
           /\ \/ /\ m.kind = "observe" /\ UNCHANGED posts
                 /\ pc[c] = "idle"
                 /\ pc' = [pc EXCEPT ![c] = "observing"]
              \/ /\ m.kind = "change"
                 /\ posts' = [posts EXCEPT ![c] = posts[c] + 1]
                 /\ pc[c] = "observing"
                 /\ pc' = [pc EXCEPT ![c] = "changing"]
    BY <1>2, Sent DEF service
  <2>2. Unsent(c) /\ outcome[c] = None
    BY <1>a, <2>1 DEF SentOnce
  <2>3. ASSUME NEW d \in Calls, d # c
        PROVE  /\ pc'[d] # "done" => outcome'[d] = None
               /\ \/ Unsent(d)'
                  \/ /\ pc'[d] \in {"changing", "done"}
                     /\ outcome'[d] \notin Refusals
                     /\ posts'[d] = 1
    BY <1>a, <2>1, <2>3 DEF SentOnce, TypeOK
  <2>4. CASE m.kind = "observe"
    BY <1>a, <2>1, <2>2, <2>3, <2>4 DEF SentOnce, TypeOK
  <2>5. CASE m.kind = "change"
    <3>1. None \notin Refusals
      BY AdapterAssumption DEF Outcomes
    <3>2. /\ pc'[c] = "changing" /\ outcome'[c] = None /\ posts'[c] = 1
      BY <1>a, <2>1, <2>2, <2>5 DEF TypeOK
    <3> QED
      BY <2>3, <3>1, <3>2 DEF SentOnce
  <2> QED
    BY <2>1, <2>4, <2>5
<1>3. ASSUME NEW c \in Calls, NEW o \in Outcomes, Concludes(c, o),
             o \in Refusals => pc[c] \in {"idle", "observing"}
      PROVE  SentOnce'
  <2>1. /\ pc' = [pc EXCEPT ![c] = "done"] /\ outcome' = [outcome EXCEPT ![c] = o]
        /\ answers' \subseteq answers
        /\ UNCHANGED <<requests, effects, posts>>
    BY <1>3 DEF Concludes, Ends, service
  <2>2. \A d \in Calls : Unsent(d) => Unsent(d)'
    BY <2>1
  <2> QED
    BY <1>a, <1>3, <2>1, <2>2 DEF SentOnce, TypeOK
<1>4. ASSUME NEW m \in requests,
             \/ \E f \in Files, t \in Tokens \cup {None} :
                   ServeObservation(m, f, t)
             \/ \E s \in Statuses, b \in ChangeBodies \cup {None} :
                   ServeChange(m, s, b) \/ ServeNothing(m, s, b)
      PROVE  SentOnce'
  <2>1. PICK r \in Answers :
           /\ r.call = m.call /\ r.kind = m.kind
           /\ answers' = answers \cup {r} /\ requests' = requests \ {m}
           /\ UNCHANGED <<calls, posts>>
           /\ \/ UNCHANGED effects
              \/ /\ m.kind = "change"
                 /\ \E e \in [call : Calls, file : Files,
                              version : 0 .. MaxVersion] :
                       e.call = m.call /\ effects' = effects \cup {e}
    BY <1>4, Answered
  <2>2. \A d \in Calls : Unsent(d) => Unsent(d)'
    BY <2>1
  <2> QED
    BY <1>a, <2>1, <2>2 DEF calls, SentOnce
<1> QED
  BY <1>1, <1>2, <1>3, <1>4, AdapterSteps

(* A change on the wire is the call's only one and had no effect yet: the  *)
(* service takes it off the wire when it carries it out.                   *)
LEMMA ChangePendingNext == AdapterInv /\ [Next]_vars => ChangePending'
<1> SUFFICES ASSUME AdapterInv, [Next]_vars
             PROVE  ChangePending'
  OBVIOUS
<1>a. TypeOK /\ SentOnce /\ ChangePending
  BY DEF AdapterInv
<1> USE DEF EffectsOf
<1>1. CASE Drops
  BY <1>a, <1>1 DEF Drops, calls, ChangePending
<1>2. ASSUME NEW c \in Calls,
             \/ \E f \in Files : Invoke(c, f)
             \/ \E a \in answers : Observed(c, a)
      PROVE  ChangePending'
  <2>1. PICK m \in Requests :
           /\ m.call = c /\ m.to = "api"
           /\ requests' = requests \cup {m}
           /\ answers' \subseteq answers /\ UNCHANGED effects
           /\ pc[c] \in {"idle", "observing"}
           /\ \/ /\ m.kind = "observe"
                 /\ \E f \in Files : asked' = [asked EXCEPT ![c] = f]
              \/ /\ m.kind = "change" /\ UNCHANGED asked
                 /\ m.token \in Tokens /\ m.token.file = asked[c]
    BY <1>2, Sent DEF service
  <2>2. Unsent(c)
    BY <1>a, <2>1 DEF SentOnce
  <2>3. ASSUME NEW n \in requests', n.kind = "change", n # m
        PROVE  n \in requests /\ n.call # c /\ asked'[n.call] = asked[n.call]
    <3>1. n \in requests /\ n.call # c
      BY <2>1, <2>2, <2>3 DEF Unsent
    <3>2. n.call \in Calls
      BY <1>a, <3>1 DEF TypeOK, Requests
    <3> QED
      BY <1>a, <2>1, <3>1, <3>2 DEF TypeOK
  <2>4. \A n \in requests' :
           /\ n.to = "api"
           /\ n.kind = "change" =>
                 n.token \in Tokens /\ n.token.file = asked'[n.call]
    BY <1>a, <2>1, <2>3 DEF ChangePending
  <2>5. ASSUME NEW n \in requests', n.kind = "change"
        PROVE  /\ EffectsOf(n.call)' = {}
               /\ \A a \in answers' : a.call = n.call => a.kind = "observe"
    BY <1>a, <2>1, <2>2, <2>3, <2>5 DEF ChangePending, Unsent
  <2>6. ASSUME NEW n \in requests', n.kind = "change",
               NEW l \in requests', l.call = n.call, l.kind = "change"
        PROVE  l = n
    BY <1>a, <2>1, <2>2, <2>3, <2>6 DEF ChangePending, Unsent
  <2> QED
    BY <2>4, <2>5, <2>6 DEF ChangePending
<1>3. ASSUME NEW c \in Calls, NEW o \in Outcomes, Concludes(c, o)
      PROVE  ChangePending'
  BY <1>a, <1>3 DEF Concludes, Ends, service, ChangePending
<1>4. ASSUME NEW m \in requests,
             \/ \E f \in Files, t \in Tokens \cup {None} :
                   ServeObservation(m, f, t)
             \/ \E s \in Statuses, b \in ChangeBodies \cup {None} :
                   ServeChange(m, s, b) \/ ServeNothing(m, s, b)
      PROVE  ChangePending'
  <2>1. PICK r \in Answers :
           /\ r.call = m.call /\ r.kind = m.kind
           /\ answers' = answers \cup {r} /\ requests' = requests \ {m}
           /\ UNCHANGED <<calls, posts>>
           /\ \/ UNCHANGED effects
              \/ /\ m.kind = "change"
                 /\ \E e \in [call : Calls, file : Files,
                              version : 0 .. MaxVersion] :
                       e.call = m.call /\ effects' = effects \cup {e}
    BY <1>4, Answered
  <2>2. m.kind \in {"observe", "change"}
    BY <1>a DEF TypeOK, Requests
  <2>3. ASSUME NEW n \in requests', n.kind = "change"
        PROVE  m.kind = "change" => n.call # m.call
    BY <1>a, <2>1, <2>3 DEF ChangePending
  <2>4. ASSUME NEW n \in requests', n.kind = "change"
        PROVE  /\ EffectsOf(n.call)' = {}
               /\ \A a \in answers' : a.call = n.call => a.kind = "observe"
    BY <1>a, <2>1, <2>2, <2>3, <2>4 DEF ChangePending
  <2> QED
    BY <1>a, <2>1, <2>4 DEF ChangePending, calls
<1> QED
  BY <1>1, <1>2, <1>3, <1>4, AdapterSteps

(* The service carries a call's change out once, on the file asked for.    *)
LEMMA EffectsAreOwnNext == AdapterInv /\ [Next]_vars => EffectsAreOwn'
<1> SUFFICES ASSUME AdapterInv, [Next]_vars
             PROVE  EffectsAreOwn'
  OBVIOUS
<1>a. TypeOK /\ SentOnce /\ ChangePending /\ EffectsAreOwn
  BY DEF AdapterInv
<1>1. CASE Drops
  BY <1>a, <1>1 DEF Drops, calls, EffectsAreOwn
<1>2. ASSUME NEW c \in Calls,
             \/ \E f \in Files : Invoke(c, f)
             \/ \E a \in answers : Observed(c, a)
      PROVE  EffectsAreOwn'
  <2>1. /\ UNCHANGED effects /\ pc[c] \in {"idle", "observing"}
        /\ \/ UNCHANGED asked
           \/ \E f \in Files : asked' = [asked EXCEPT ![c] = f]
    BY <1>2, Sent DEF service
  <2>2. \A e \in effects : e.call # c
    BY <1>a, <2>1 DEF SentOnce, Unsent, EffectsOf
  <2> QED
    BY <1>a, <2>1, <2>2 DEF EffectsAreOwn, TypeOK
<1>3. ASSUME NEW c \in Calls, NEW o \in Outcomes, Concludes(c, o)
      PROVE  EffectsAreOwn'
  BY <1>a, <1>3 DEF Concludes, Ends, service, EffectsAreOwn
<1>4. ASSUME NEW m \in requests,
             \/ \E f \in Files, t \in Tokens \cup {None} :
                   ServeObservation(m, f, t)
             \/ \E s \in Statuses, b \in ChangeBodies \cup {None} :
                   ServeChange(m, s, b) \/ ServeNothing(m, s, b)
      PROVE  EffectsAreOwn'
  <2>1. /\ UNCHANGED calls
        /\ \/ UNCHANGED effects
           \/ /\ m.kind = "change"
              /\ \E e \in [call : Calls, file : Files,
                           version : 0 .. MaxVersion] :
                    /\ e.call = m.call /\ e.file = asked[m.call]
                    /\ effects' = effects \cup {e}
    BY <1>4, Answered
  <2>2. m.kind = "change" => \A d \in effects : d.call # m.call
    BY <1>a DEF ChangePending, EffectsOf
  <2> QED
    BY <1>a, <2>1, <2>2 DEF calls, EffectsAreOwn
<1> QED
  BY <1>1, <1>2, <1>3, <1>4, AdapterSteps

(* Confirmations come with the effect, and effects stay.                   *)
LEMMA AnswersTellNext == AdapterInv /\ [Next]_vars => AnswersTell'
<1> SUFFICES ASSUME AdapterInv, [Next]_vars
             PROVE  AnswersTell'
  OBVIOUS
<1>a. TypeOK /\ AnswersTell
  BY DEF AdapterInv
<1> USE DEF EffectsOf
<1>1. ASSUME answers' \subseteq answers, UNCHANGED effects
      PROVE  AnswersTell'
  BY <1>a, <1>1 DEF AnswersTell, Decoded, Confirms
<1>2. CASE Drops
  BY <1>1, <1>2 DEF Drops
<1>3. ASSUME NEW c \in Calls,
             \/ \E f \in Files : Invoke(c, f)
             \/ \E a \in answers : Observed(c, a)
      PROVE  AnswersTell'
  BY <1>1, <1>3, Sent DEF service
<1>4. ASSUME NEW c \in Calls, NEW o \in Outcomes, Concludes(c, o)
      PROVE  AnswersTell'
  BY <1>1, <1>4 DEF Concludes, service
<1>5. ASSUME NEW m \in requests,
             \/ \E f \in Files, t \in Tokens \cup {None} :
                   ServeObservation(m, f, t)
             \/ \E s \in Statuses, b \in ChangeBodies \cup {None} :
                   ServeChange(m, s, b) \/ ServeNothing(m, s, b)
      PROVE  AnswersTell'
  <2>1. PICK r \in Answers :
           /\ r.call = m.call /\ r.kind = m.kind
           /\ answers' = answers \cup {r}
           /\ \/ /\ UNCHANGED effects
                 /\ Decoded(r) /\ r.kind = "observe" =>
                       /\ r.body \in ObservationBodies
                       /\ r.body.token # None =>
                             r.body.token.file = r.body.file
                 /\ Decoded(r) /\ r.kind = "change" =>
                       r.body \in ChangeBodies /\ ~Confirms(r.body)
              \/ /\ m.kind = "change"
                 /\ Decoded(r) => r.body \in ChangeBodies
                 /\ \E e \in [call : Calls, file : Files,
                              version : 0 .. MaxVersion] :
                       e.call = m.call /\ effects' = effects \cup {e}
    BY <1>5, Answered
  <2>2. \A c \in Calls : EffectsOf(c) # {} => EffectsOf(c)' # {}
    BY <2>1
  <2>3. \A a \in answers : a.call \in Calls
    BY <1>a DEF TypeOK, Answers
  <2> HIDE DEF EffectsOf
  <2>4. ASSUME NEW a \in answers, Decoded(a)
        PROVE  /\ a.kind = "observe" =>
                     /\ a.body \in ObservationBodies
                     /\ a.body.token # None => a.body.token.file = a.body.file
               /\ a.kind = "change" =>
                     /\ a.body \in ChangeBodies
                     /\ Confirms(a.body) => EffectsOf(a.call)' # {}
    BY <1>a, <2>2, <2>3, <2>4 DEF AnswersTell
  <2>5. ASSUME Decoded(r)
        PROVE  /\ r.kind = "observe" =>
                     /\ r.body \in ObservationBodies
                     /\ r.body.token # None => r.body.token.file = r.body.file
               /\ r.kind = "change" =>
                     /\ r.body \in ChangeBodies
                     /\ Confirms(r.body) => EffectsOf(r.call)' # {}
    BY <2>1, <2>5 DEF EffectsOf
  <2> QED
    BY <2>1, <2>4, <2>5 DEF AnswersTell, Decoded, Confirms
<1> QED
  BY <1>2, <1>3, <1>4, <1>5, AdapterSteps

(* Success is told on a confirmation only.                                 *)
LEMMA SuccessTellsNext == AdapterInv /\ [Next]_vars => SuccessTells'
<1> SUFFICES ASSUME AdapterInv, [Next]_vars
             PROVE  SuccessTells'
  OBVIOUS
<1>a. TypeOK /\ AnswersTell /\ SuccessTells
  BY DEF AdapterInv
<1> USE DEF EffectsOf
<1>1. CASE Drops
  BY <1>a, <1>1 DEF Drops, calls, SuccessTells
<1>2. ASSUME NEW c \in Calls,
             \/ \E f \in Files : Invoke(c, f)
             \/ \E a \in answers : Observed(c, a)
      PROVE  SuccessTells'
  BY <1>a, <1>2, Sent DEF service, SuccessTells
<1>3. ASSUME NEW c \in Calls, NEW o \in Outcomes, Concludes(c, o),
             o = "success" => \E a \in answers :
                /\ a.call = c /\ a.kind = "change"
                /\ Decoded(a) /\ Confirms(a.body)
      PROVE  SuccessTells'
  <2>1. o = "success" => EffectsOf(c) # {}
    BY <1>a, <1>3 DEF AnswersTell
  <2>2. outcome' = [outcome EXCEPT ![c] = o] /\ UNCHANGED effects
    BY <1>3 DEF Concludes, Ends, service
  <2> QED
    BY <1>a, <2>1, <2>2 DEF SuccessTells, TypeOK
<1>4. ASSUME NEW m \in requests,
             \/ \E f \in Files, t \in Tokens \cup {None} :
                   ServeObservation(m, f, t)
             \/ \E s \in Statuses, b \in ChangeBodies \cup {None} :
                   ServeChange(m, s, b) \/ ServeNothing(m, s, b)
      PROVE  SuccessTells'
  <2>1. UNCHANGED calls /\ effects \subseteq effects'
    BY <1>4, Answered
  <2> QED
    BY <1>a, <2>1 DEF calls, SuccessTells
<1> QED
  BY <1>1, <1>2, <1>3, <1>4, AdapterSteps

(* The invariant always holds.                                             *)
LEMMA AdapterInvariance == Spec => []AdapterInv
<1>1. AdapterInv /\ [Next]_vars => AdapterInv'
  BY TypeNext, SentOnceNext, ChangePendingNext, EffectsAreOwnNext,
     AnswersTellNext, SuccessTellsNext
     DEF AdapterInv
<1> QED
  BY <1>1, AdapterInvInit, PTL DEF Spec

-----------------------------------------------------------------------------
(* Theorems *)

(* Messages and histories keep their types, whatever the service answers.  *)
THEOREM AdapterTypeCorrect == Spec => []TypeOK
<1>1. AdapterInv => TypeOK
  BY DEF AdapterInv
<1> QED
  BY <1>1, AdapterInvariance, PTL

(* A call reported successful has made exactly one change, on the file it  *)
(* was asked for, with any answers lost, delayed or cut off.               *)
THEOREM SuccessIsTrue == Spec => []SuccessIsOwnChange
<1>1. AdapterInv => SuccessIsOwnChange
  <2> SUFFICES ASSUME AdapterInv, NEW c \in Calls, outcome[c] = "success"
               PROVE  \E v \in 0 .. MaxVersion : EffectsOf(c) =
                         {[call |-> c, file |-> asked[c], version |-> v]}
    BY DEF SuccessIsOwnChange
  <2>1. PICK e \in effects : e.call = c
    BY DEF AdapterInv, SuccessTells, EffectsOf
  <2>2. /\ e \in [call : Calls, file : Files, version : 0 .. MaxVersion]
        /\ e.file = asked[c]
        /\ \A d \in effects : d.call = c => d = e
    BY <2>1 DEF AdapterInv, TypeOK, EffectsAreOwn
  <2>3. e = [call |-> c, file |-> asked[c], version |-> e.version]
          /\ e.version \in 0 .. MaxVersion
    BY <2>1, <2>2
  <2>4. EffectsOf(c) = {e}
    BY <2>1, <2>2 DEF EffectsOf
  <2> QED
    BY <2>3, <2>4
<1> QED
  BY <1>1, AdapterInvariance, PTL

(* A caller told that nothing was submitted may call again: nothing was    *)
(* changed for it, and nothing that could change it is on its way.         *)
THEOREM RefusalsAreFinal == Spec => []RefusalIsFinal
<1>1. AdapterInv => RefusalIsFinal
  BY DEF AdapterInv, SentOnce, Unsent, Refusals, RefusalIsFinal
<1> QED
  BY <1>1, AdapterInvariance, PTL

(* A mutating request is sent once, to the API only, and changes what the  *)
(* call was asked to.                                                      *)
THEOREM OneChangeAtMost == Spec => []OneChangePerCall
<1>1. AdapterInv => OneChangePerCall
  BY DEF AdapterInv, SentOnce, Unsent, ChangePending, EffectsAreOwn,
         OneChangePerCall
<1> QED
  BY <1>1, AdapterInvariance, PTL
=============================================================================
