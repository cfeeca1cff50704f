--------------------------- MODULE WebhookProofs ---------------------------
(***************************************************************************)
(* What the admission webhook decides, for any number of requests, workers  *)
(* and faults: nothing is admitted that the deny level blocks, and what an  *)
(* alert says of a request comes true.                                      *)
(***************************************************************************)
EXTENDS Webhook, DenyLevelProofs

(* The part of the types that the argument needs. *)
Types ==
    /\ conf \in Environment
    /\ object \in [Requests -> Object]
    /\ handler \in [Requests -> Handler]
    /\ api \in [Requests -> {"pending", "admitted", "rejected"}]
    /\ up \subseteq Workers

Judgeable == {"event", "secret", "post_default", "post_namespace", "count", "answer", "answered"}
Alerted  == {"post_namespace", "count", "answer", "answered"}

(* Once decided, the message names every severity the object fails with, or *)
(* HIGH because OPA did not answer.                                         *)
Evaluated ==
    \A r \in Requests : handler[r].pc \in Judgeable /\ ~object[r].owned =>
        Reasons(r) \subseteq handler[r].msg \/ "HIGH" \in handler[r].msg

(* Admitted is only what was answered so. *)
AdmittedByAnswer ==
    \A r \in Requests : api[r] = "admitted" =>
        handler[r].pc = "answered" /\ Allowed(handler[r].msg)

(* An alert is sent late in the handling, says what the message says, and   *)
(* had a reason to be sent.                                                 *)
AlertsAsDecided ==
    \A a \in alerts :
        /\ a.of \in Requests
        /\ handler[a.of].pc \in Alerted \cup {"lost"}
        /\ a.denied = ~Allowed(handler[a.of].msg)

IInv == Types /\ Evaluated /\ AdmittedByAnswer /\ AlertsAsDecided
-----------------------------------------------------------------------------
(* Where the decision leads; the prover need not look closer. *)
LEMMA NextStages ==
    ASSUME NEW r, NEW msg
    PROVE  /\ AfterEvent(r, msg) \in {"secret", "count", "answer"}
           /\ AfterDecision(r, msg) \in {"event", "secret", "count", "answer"}
BY DEF AfterEvent, AfterDecision

(* The handler starts in the invariant. *)
LEMMA InitInv == Init => IInv
BY WebhookAssumption DEF Init, IInv, Types, Evaluated, AdmittedByAnswer, AlertsAsDecided, Handler,
   Labels, Judgeable

(* A step of one handler that leaves api and alerts alone and does not      *)
(* touch a message already decided.                                         *)
LEMMA QuietStep ==
    ASSUME IInv, NEW r \in Requests, NEW h \in Handler, Become(r, h),
           UNCHANGED <<conf, object, api, alerts, up>>,
           handler[r].pc \notin {"answered", "lost"},
           h.msg = handler[r].msg \/ handler[r].pc \notin Alerted,
           handler[r].pc \in Alerted => h.pc \in Alerted,
           h.pc \in Judgeable /\ ~object[r].owned =>
               Reasons(r) \subseteq h.msg \/ "HIGH" \in h.msg
    PROVE  IInv'
<1> USE DEF IInv, Become
<1>1. handler' = [handler EXCEPT ![r] = h] OBVIOUS
<1>2. Types' BY <1>1 DEF Types
<1>3. Evaluated'
  <2> SUFFICES ASSUME NEW q \in Requests, h.pc \in Judgeable \/ q # r,
                      handler'[q].pc \in Judgeable, ~object[q].owned
               PROVE  Reasons(q) \subseteq handler'[q].msg \/ "HIGH" \in handler'[q].msg
      BY <1>1 DEF Evaluated, Types, Reasons
  <2>1. CASE q = r BY <1>1, <2>1 DEF Types
  <2>2. CASE q # r BY <1>1, <2>2 DEF Types, Evaluated
  <2> QED BY <2>1, <2>2
<1>4. AdmittedByAnswer' BY <1>1 DEF Types, AdmittedByAnswer, Allowed
<1>5. AlertsAsDecided' BY <1>1 DEF Types, AlertsAsDecided, Allowed, Alerted
<1> QED BY <1>2, <1>3, <1>4, <1>5

(* A handler at the end of its way. *)
LEMMA Ended ==
    ASSUME NEW g \in Handler, NEW l \in Labels, NEW a \in Workers \cup {None}
    PROVE  /\ [g EXCEPT !.pc = l, !.spent = 0] \in Handler
           /\ [g EXCEPT !.pc = l, !.spent = 0].msg = g.msg
           /\ [g EXCEPT !.pc = l, !.spent = 0].pc = l
           /\ [g EXCEPT !.at = a, !.spent = 0, !.pc = l] \in Handler
           /\ [g EXCEPT !.at = a, !.spent = 0, !.pc = l].msg = g.msg
           /\ [g EXCEPT !.at = a, !.spent = 0, !.pc = l].pc = l
<1>1. 0 \in 0 .. 2 OBVIOUS
<1> DEFINE n == 0
<1>2. n \in 0 .. 2 BY <1>1
<1> HIDE DEF n
<1>3. /\ [g EXCEPT !.pc = l, !.spent = n] \in Handler
      /\ [g EXCEPT !.pc = l, !.spent = n].msg = g.msg
      /\ [g EXCEPT !.pc = l, !.spent = n].pc = l
    BY <1>2 DEF Handler
<1>4. /\ [g EXCEPT !.at = a, !.spent = n, !.pc = l] \in Handler
      /\ [g EXCEPT !.at = a, !.spent = n, !.pc = l].msg = g.msg
      /\ [g EXCEPT !.at = a, !.spent = n, !.pc = l].pc = l
    BY <1>2 DEF Handler
<1> QED BY <1>3, <1>4 DEF n

(* Giving up never admits. *)
LEMMA GivingUp ==
    ASSUME Types, NEW r \in Requests
    PROVE  GiveUp(r) \in {"admitted", "rejected"} /\ (GiveUp(r) = "admitted" => api[r] = "admitted")
BY DEF GiveUp, Types

(* The steps that call out and come back with nothing but their own         *)
(* progress.                                                                *)
LEMMA QuietSteps ==
    ASSUME IInv, NEW r \in Requests,
           \/ \E w \in Workers : Accept(r, w)
           \/ QueryOpa(r) \/ CreateEvent(r) \/ ReadSlackSecret(r) \/ Count(r)
    PROVE  IInv'
<1> USE DEF At
<1>0. handler[r] \in Handler /\ object[r] \in Object BY DEF IInv, Types
<1>1. ASSUME NEW w \in Workers, Accept(r, w) PROVE IInv'
  <2> DEFINE l == IF object[r].owned THEN AfterDecision(r, {}) ELSE "opa"
             h == [handler[r] EXCEPT !.at = w, !.pc = l]
  <2>1. l \in {"event", "secret", "count", "answer", "opa"} BY NextStages
  <2>2. h \in Handler BY <1>0, <2>1 DEF Handler, Labels, Busy
  <2>3. ~object[r].owned => h.pc \notin Judgeable BY <1>0 DEF Judgeable, Handler
  <2>4. h.msg = handler[r].msg BY <1>0 DEF Handler
  <2> HIDE DEF l
  <2> QED BY <1>1, <2>2, <2>3, <2>4, QuietStep DEF Accept, Alerted, l
<1>2. ASSUME QueryOpa(r) PROVE IInv'
  <2>1. PICK msg \in {Reasons(r), {"HIGH"}}, spent \in {handler[r].spent, Slower(handler[r].spent)} :
            Decide(r, msg, spent)
      BY <1>2 DEF QueryOpa, Judged, Unjudged
  <2> DEFINE h == [handler[r] EXCEPT !.msg = msg, !.spent = spent, !.pc = AfterDecision(r, msg)]
  <2>2. msg \in SUBSET Severities
      BY <1>0, WebhookAssumption DEF Reasons, Object, Severities
  <2>3. spent \in 0 .. 2 BY <1>0 DEF Handler, Slower
  <2>4. AfterDecision(r, msg) \in {"event", "secret", "count", "answer"} BY NextStages
  <2>5. h \in Handler BY <1>0, <2>2, <2>3, <2>4 DEF Handler, Labels, Busy
  <2>6. Reasons(r) \subseteq h.msg \/ "HIGH" \in h.msg BY <1>0 DEF Handler
  <2>7. handler[r].pc = "opa" BY <1>2 DEF QueryOpa
  <2> QED BY <1>2, <2>1, <2>5, <2>6, <2>7, QuietStep DEF QueryOpa, Decide, Alerted
<1>3. ASSUME CreateEvent(r) PROVE IInv'
  <2> DEFINE h == [handler[r] EXCEPT !.pc = AfterEvent(r, handler[r].msg)]
  <2>1. AfterEvent(r, handler[r].msg) \in {"secret", "count", "answer"} BY NextStages
  <2>2. h \in Handler /\ h.msg = handler[r].msg BY <1>0, <2>1 DEF Handler, Labels, Busy
  <2>3. ~object[r].owned => Reasons(r) \subseteq h.msg \/ "HIGH" \in h.msg
      BY <1>3, <2>2 DEF CreateEvent, IInv, Evaluated, Judgeable
  <2> QED BY <1>3, <2>2, <2>3, QuietStep DEF CreateEvent, Alerted
<1>4. ASSUME ReadSlackSecret(r) PROVE IInv'
  <2>1. PICK target \in BOOLEAN :
            Become(r, [handler[r] EXCEPT !.target = target,
                           !.pc = IF conf.default THEN "post_default" ELSE AfterDefault(target)])
      BY <1>4 DEF ReadSlackSecret
  <2> DEFINE l == IF conf.default THEN "post_default" ELSE AfterDefault(target)
             h == [handler[r] EXCEPT !.target = target, !.pc = l]
  <2>2. l \in {"post_default", "post_namespace", "count"} BY DEF AfterDefault
  <2>3. h \in Handler /\ h.msg = handler[r].msg BY <1>0, <2>2 DEF Handler, Labels, Busy
  <2>4. ~object[r].owned => Reasons(r) \subseteq h.msg \/ "HIGH" \in h.msg
      BY <1>4, <2>3 DEF ReadSlackSecret, IInv, Evaluated, Judgeable
  <2> HIDE DEF l
  <2> QED BY <1>4, <2>1, <2>3, <2>4, QuietStep DEF ReadSlackSecret, Alerted, l
<1>5. ASSUME Count(r) PROVE IInv'
  <2> DEFINE h == [handler[r] EXCEPT !.pc = "answer"]
  <2>1. h \in Handler /\ h.msg = handler[r].msg /\ h.pc = "answer"
      BY <1>0 DEF Handler, Labels, Busy
  <2>2. ~object[r].owned => Reasons(r) \subseteq h.msg \/ "HIGH" \in h.msg
      BY <1>5, <2>1 DEF Count, IInv, Evaluated, Judgeable
  <2> QED BY <1>5, <2>1, <2>2, QuietStep DEF Count, Alerted
<1> QED BY <1>1, <1>2, <1>3, <1>4, <1>5

(* A post to Slack says what was decided. *)
LEMMA PostStep ==
    ASSUME IInv, NEW r \in Requests, NEW to \in {"default", "namespace"},
           NEW next \in {"post_namespace", "count"}, Post(r, to, next),
           handler[r].pc \in {"post_default", "post_namespace"}
    PROVE  IInv'
<1>0. handler[r] \in Handler /\ Types BY DEF IInv, Types
<1>1. PICK spent \in {handler[r].spent, Slower(handler[r].spent)} :
          Become(r, [handler[r] EXCEPT !.spent = spent, !.pc = next])
    BY DEF Post
<1> DEFINE h == [handler[r] EXCEPT !.spent = spent, !.pc = next]
<1>2. h \in Handler /\ h.msg = handler[r].msg /\ h.pc = next
  <2>1. spent \in 0 .. 2 BY <1>0 DEF Handler, Slower
  <2>2. next \in Labels BY DEF Labels, Busy
  <2> QED BY <1>0, <2>1, <2>2 DEF Handler
<1>3. handler' = [handler EXCEPT ![r] = h] /\ UNCHANGED <<conf, object, api, up>>
    BY <1>1 DEF Become, Post
<1> HIDE DEF h
<1>4. Types' BY <1>0, <1>2, <1>3 DEF Types
<1>5. Evaluated' BY <1>0, <1>2, <1>3 DEF IInv, Types, Evaluated, Judgeable, Reasons
<1>6. AdmittedByAnswer' BY <1>0, <1>2, <1>3 DEF IInv, Types, AdmittedByAnswer, Allowed
<1>7. AlertsAsDecided'
  <2>1. \A q \in Requests : handler'[q].msg = handler[q].msg BY <1>0, <1>2, <1>3 DEF Types
  <2>2. PICK c : alerts' = alerts \cup {[of |-> r, to |-> to, denied |-> ~Allowed(handler[r].msg),
                                        customer |-> c]}
      BY DEF Post
  <2>3. handler'[r].pc \in Alerted BY <1>0, <1>2, <1>3 DEF Types, Alerted
  <2>4. \A q \in Requests : q # r => handler'[q] = handler[q] BY <1>0, <1>3 DEF Types
  <2> QED BY <1>3, <2>1, <2>2, <2>3, <2>4 DEF IInv, AlertsAsDecided, Allowed
<1> QED BY <1>4, <1>5, <1>6, <1>7 DEF IInv

(* The answer settles a request that is still pending. *)
LEMMA AnswerStep ==
    ASSUME IInv, NEW r \in Requests, Answer(r)
    PROVE  IInv'
<1>0. handler[r] \in Handler /\ Types BY DEF IInv, Types
<1> DEFINE h == [handler[r] EXCEPT !.pc = "answered", !.spent = 0]
<1>1. h \in Handler /\ h.msg = handler[r].msg /\ h.pc = "answered"
    BY <1>0, Ended DEF Labels
<1>2. handler' = [handler EXCEPT ![r] = h] /\ UNCHANGED <<conf, object, alerts, up>>
    BY DEF Answer, Become
<1>3. handler[r].pc = "answer" BY DEF Answer, At
<1>4. /\ api' \in [Requests -> {"pending", "admitted", "rejected"}]
      /\ \A q \in Requests : api'[q] = "admitted" =>
            api[q] = "admitted" \/ (q = r /\ Allowed(handler[r].msg))
    BY <1>0 DEF Answer, Types
<1> HIDE DEF h
<1>5. Types' BY <1>0, <1>1, <1>2, <1>4 DEF Types
<1>6. Evaluated' BY <1>0, <1>1, <1>2, <1>3 DEF IInv, Types, Evaluated, Judgeable, Reasons
<1>7. AdmittedByAnswer'
    BY <1>0, <1>1, <1>2, <1>3, <1>4 DEF IInv, Types, AdmittedByAnswer, Allowed
<1>8. AlertsAsDecided'
    BY <1>0, <1>1, <1>2, <1>3 DEF IInv, Types, AlertsAsDecided, Allowed, Alerted
<1> QED BY <1>5, <1>6, <1>7, <1>8 DEF IInv

(* A request that is lost on the way, to an exception or with its worker,   *)
(* stays undecided.                                                         *)
LEMMA LostStep ==
    ASSUME IInv, UNCHANGED <<conf, object, alerts>>, up' \subseteq Workers,
           handler' \in [Requests -> Handler],
           \A q \in Requests :
               /\ handler'[q].msg = handler[q].msg
               /\ handler'[q].pc = handler[q].pc \/ (handler[q].pc \in Busy /\ handler'[q].pc = "lost"),
           \A q \in Requests : api'[q] = api[q] \/ api'[q] = GiveUp(q),
           api' \in [Requests -> {"pending", "admitted", "rejected"}]
    PROVE  IInv'
<1>1. Types' BY DEF IInv, Types
<1>2. Evaluated' BY DEF IInv, Evaluated, Judgeable, Reasons
<1>3. AdmittedByAnswer'
  <2>1. \A q \in Requests : api'[q] = "admitted" => api[q] = "admitted"
      BY GivingUp DEF IInv
  <2> QED BY <2>1 DEF IInv, AdmittedByAnswer, Allowed, Busy
<1>4. AlertsAsDecided' BY DEF IInv, AlertsAsDecided, Allowed
<1> QED BY <1>1, <1>2, <1>3, <1>4 DEF IInv

(* The invariant is inductive. *)
LEMMA StepInv == IInv /\ [Next]_vars => IInv'
<1> SUFFICES ASSUME IInv, [Next]_vars PROVE IInv' OBVIOUS
<1>0. Types BY DEF IInv
<1>1. ASSUME NEW r \in Requests, Take(r) PROVE IInv'
  <2>1. PICK w \in Workers : Accept(r, w) BY <1>0, <1>1 DEF Take, Types
  <2> QED BY <2>1, QuietSteps
<1>2. ASSUME NEW r \in Requests, Handle(r) PROVE IInv'
  <2>1. CASE QueryOpa(r) \/ CreateEvent(r) \/ ReadSlackSecret(r) \/ Count(r)
      BY <2>1, QuietSteps
  <2>2. CASE PostDefault(r)
      BY <2>2, PostStep DEF PostDefault, AfterDefault, At
  <2>3. CASE PostNamespace(r)
      BY <2>3, PostStep DEF PostNamespace, At
  <2>4. CASE Answer(r) BY <2>4, AnswerStep
  <2> QED BY <1>2, <2>1, <2>2, <2>3, <2>4 DEF Handle, Timed
<1>3. ASSUME NEW r \in Requests, Raise(r) PROVE IInv'
  <2> DEFINE h == [handler[r] EXCEPT !.pc = "lost", !.spent = 0]
  <2>1. handler[r] \in Handler /\ handler[r].pc \in Busy
      BY <1>0, <1>3 DEF Types, Raise, Busy
  <2>2. h \in Handler /\ h.msg = handler[r].msg /\ h.pc = "lost"
      BY <2>1, Ended DEF Labels
  <2>3. handler' = [handler EXCEPT ![r] = h] BY <1>3 DEF Raise, Become
  <2> HIDE DEF h
  <2>4. /\ api' \in [Requests -> {"pending", "admitted", "rejected"}]
        /\ \A q \in Requests : api'[q] = api[q] \/ api'[q] = GiveUp(q)
      BY <1>0, <1>3, GivingUp DEF Raise, Types
  <2>5. /\ handler' \in [Requests -> Handler]
        /\ \A q \in Requests :
              /\ handler'[q].msg = handler[q].msg
              /\ handler'[q].pc = handler[q].pc \/ (handler[q].pc \in Busy /\ handler'[q].pc = "lost")
      BY <1>0, <2>1, <2>2, <2>3 DEF Types
  <2> QED BY <1>0, <1>3, <2>4, <2>5, LostStep DEF Raise, Types
<1>4. ASSUME NEW r \in Requests, ApiTimeout(r) PROVE IInv'
  <2>1. /\ api' \in [Requests -> {"pending", "admitted", "rejected"}]
        /\ \A q \in Requests : api'[q] = api[q] \/ api'[q] = GiveUp(q)
      BY <1>0, <1>4, GivingUp DEF ApiTimeout, Types
  <2> QED BY <1>0, <1>4, <2>1, LostStep DEF ApiTimeout, Types
<1>5. ASSUME NEW w \in Workers, Die(w) PROVE IInv'
  <2>1. ASSUME NEW q \in Requests
        PROVE  /\ handler'[q] \in Handler
               /\ handler'[q].msg = handler[q].msg
               /\ handler'[q].pc = handler[q].pc \/ (handler[q].pc \in Busy /\ handler'[q].pc = "lost")
    <3>1. handler[q] \in Handler BY <1>0 DEF Types
    <3> DEFINE l == IF handler[q].pc \in Busy THEN "lost" ELSE handler[q].pc
               g == [handler[q] EXCEPT !.at = None, !.spent = 0, !.pc = l]
    <3>2. handler'[q] = IF handler[q].at # w THEN handler[q] ELSE g
        BY <1>5 DEF Die
    <3>3. l \in Labels /\ (l = handler[q].pc \/ (handler[q].pc \in Busy /\ l = "lost"))
        BY <3>1 DEF Handler, Labels
    <3> HIDE DEF l
    <3>4. g \in Handler /\ g.msg = handler[q].msg /\ g.pc = l
      <4>1. None \in Workers \cup {None} /\ l \in Labels BY <3>3
      <4> HIDE DEF l
      <4> QED BY <3>1, <4>1, Ended, Zenon
    <3> HIDE DEF g
    <3> QED BY <3>1, <3>2, <3>3, <3>4
  <2>2. handler' \in [Requests -> Handler] BY <1>5, <2>1 DEF Die
  <2>3. /\ api' \in [Requests -> {"pending", "admitted", "rejected"}]
        /\ \A q \in Requests : api'[q] = api[q] \/ api'[q] = GiveUp(q)
      BY <1>0, <1>5, GivingUp DEF Die, Types
  <2> QED BY <1>0, <1>5, <2>1, <2>2, <2>3, LostStep DEF Die, Types
<1>6. ASSUME NEW w \in Workers, Boot(w) PROVE IInv'
  BY <1>0, <1>6, LostStep DEF Boot, Types
<1>7. CASE UNCHANGED vars
  BY <1>0, <1>7, LostStep DEF vars, Types
<1> QED BY <1>1, <1>2, <1>3, <1>4, <1>5, <1>6, <1>7 DEF Next

(* The invariant of the webhook's decisions. *)
THEOREM Invariance == Spec => []IInv
<1>1. Init => IInv BY InitInv
<1>2. IInv /\ [Next]_vars => IInv' BY StepInv
<1> QED BY <1>1, <1>2, PTL DEF Spec

-----------------------------------------------------------------------------
(* A message that allows a request is a good one: what it was judged by     *)
(* passes.                                                                  *)
LEMMA AllowedPasses ==
    ASSUME IInv, NEW r \in Requests, Allowed(handler[r].msg), handler[r].pc \in Judgeable
    PROVE  Passes(r)
<1>1. conf.level \in {"OFF", "LOW", "MED", "HIGH"}
    BY DEF IInv, Types, Environment, Levels, Allowed, AllowedAt
<1>2. ASSUME ~object[r].owned, NEW p \in object[r].fails
      PROVE  ~Blocked(conf.level, Severity[p])
  <2>1. Severity[p] \in Severities /\ Severity[p] \in Reasons(r)
      BY <1>2, WebhookAssumption DEF IInv, Types, Object, Reasons
  <2>2. CASE Severity[p] \in handler[r].msg
    BY <1>1, <2>1, <2>2, DenyListIsRanking DEF Allowed, AllowedAt
  <2>3. CASE "HIGH" \in handler[r].msg
    <3>1. "HIGH" \notin DenyList[conf.level] BY <2>3 DEF Allowed, AllowedAt
    <3>2. conf.level = "OFF" BY <1>1, <3>1 DEF DenyList, Severities
    <3> QED BY <2>1, <3>2 DEF Severities, Blocked, Rank, Threshold
  <2> QED BY <1>2, <2>1, <2>2, <2>3 DEF IInv, Evaluated
<1> QED BY <1>2 DEF Allowed, AllowedAt, Passes

(* Whatever OPA, Slack, the workers and the API server do, a request is     *)
(* admitted only if every policy that its object fails ranks below the      *)
(* deny level, or it is a child of a ReplicaSet.                            *)
THEOREM Closed == Spec => []FailsClosed
<1>1. IInv => FailsClosed
  BY AllowedPasses DEF FailsClosed, IInv, AdmittedByAnswer, Judgeable
<1> QED BY <1>1, Invariance, PTL

(* What passes does not change. *)
LEMMA PassingFixed ==
    ASSUME Next
    PROVE  {r \in Requests : Passes(r)}' = {r \in Requests : Passes(r)}
<1>1. conf' = conf /\ object' = object
    BY DEF Next, Take, Handle, Timed, Accept, QueryOpa, CreateEvent, ReadSlackSecret, PostDefault,
       PostNamespace, Post, Count, Answer, Raise, ApiTimeout, Die, Boot
<1> QED BY <1>1 DEF Passes

(* What an alert adds to the announced denials. *)
LEMMA DeniedGrows ==
    ASSUME NEW x, alerts' = alerts \cup {x}
    PROVE  Denied' = Denied \cup (IF x.denied THEN {x.of} ELSE {})
BY DEF Denied

(* The webhook keeps the promise of Admission: one verdict for each         *)
(* request, only what passes is admitted, and nothing that an alert has     *)
(* announced as denied.                                                     *)
THEOREM Refinement == Spec => ImplementsAdmission
<1> DEFINE passing == {r \in Requests : Passes(r)}
<1>1. Init => Promise!Init
    BY DEF Init, Promise!Init, Denied
<1>2. ASSUME IInv, Next PROVE Promise!Next \/ UNCHANGED <<passing, Denied, api>>
  <2>0. UNCHANGED passing /\ Types BY <1>2, PassingFixed DEF IInv
  <2> HIDE DEF passing
  <2>1. ASSUME NEW S \in SUBSET Requests, UNCHANGED alerts,
               api' = [q \in Requests |-> IF q \in S THEN GiveUp(q) ELSE api[q]]
        PROVE  Promise!Next
    <3> DEFINE P == {q \in S : api[q] = "pending"}
    <3>1. api' = [q \in Requests |-> IF q \in P THEN "rejected" ELSE api[q]]
        BY <2>1 DEF GiveUp
    <3>2. Denied' = Denied BY <2>1 DEF Denied
    <3>3. Promise!Reject(P) BY <2>0, <3>1, <3>2 DEF Promise!Reject, Promise!Pending, passing
    <3> QED BY <3>3 DEF Promise!Next
  <2>2. ASSUME NEW r \in Requests, UNCHANGED alerts, api' = [api EXCEPT ![r] = GiveUp(r)]
        PROVE  Promise!Next
    <3>1. api' = [q \in Requests |-> IF q \in {r} THEN GiveUp(q) ELSE api[q]]
        BY <2>0, <2>2 DEF Types
    <3> QED BY <2>1, <2>2, <3>1
  <2>3. ASSUME NEW r \in Requests, Answer(r)
        PROVE  Promise!Next \/ UNCHANGED <<passing, Denied, api>>
    <3>0. UNCHANGED alerts /\ Denied' = Denied BY <2>3 DEF Answer, Denied
    <3>1. CASE api[r] # "pending" BY <2>0, <2>3, <3>0, <3>1 DEF Answer, Types
    <3>2. CASE api[r] = "pending" /\ Allowed(handler[r].msg)
      <4>1. Passes(r) BY <1>2, <2>3, <3>2, AllowedPasses DEF Answer, At, Judgeable
      <4>2. api' = [api EXCEPT ![r] = "admitted"] BY <2>3, <3>2 DEF Answer
      <4>3. r \notin Denied BY <1>2, <3>2 DEF IInv, AlertsAsDecided, Denied
      <4>4. Promise!Admit(r)
          BY <2>0, <3>0, <3>2, <4>1, <4>2, <4>3 DEF Promise!Admit, Promise!Pending, passing
      <4> QED BY <4>4 DEF Promise!Next
    <3>3. CASE api[r] = "pending" /\ ~Allowed(handler[r].msg)
      BY <2>2, <2>3, <3>0, <3>3 DEF Answer, GiveUp
    <3> QED BY <3>1, <3>2, <3>3
  <2>4. ASSUME NEW r \in Requests, NEW to, NEW next, Post(r, to, next),
               handler[r].pc \in {"post_default", "post_namespace"}
        PROVE  Promise!Next \/ UNCHANGED <<passing, Denied, api>>
    <3> DEFINE x == [of |-> r, to |-> to, denied |-> ~Allowed(handler[r].msg),
                     customer |-> handler[r].target]
    <3>1. alerts' = alerts \cup {x} /\ x.of = r /\ x.denied = ~Allowed(handler[r].msg)
        BY <2>4 DEF Post
    <3> HIDE DEF x
    <3>2. api' = api BY <2>4 DEF Post
    <3>3. CASE Allowed(handler[r].msg)
      <4>1. Denied' = Denied BY <3>1, <3>3, DeniedGrows
      <4> QED BY <2>0, <3>2, <4>1
    <3>4. CASE ~Allowed(handler[r].msg)
      <4>1. Denied' = Denied \cup {r} BY <3>1, <3>4, DeniedGrows
      <4>2. api[r] # "admitted" BY <1>2, <2>4 DEF IInv, AdmittedByAnswer
      <4>3. Promise!Announce(r) BY <2>0, <3>2, <4>1, <4>2 DEF Promise!Announce, passing
      <4> QED BY <4>3 DEF Promise!Next
    <3> QED BY <3>3, <3>4
  <2>5. ASSUME NEW r \in Requests, PostDefault(r) \/ PostNamespace(r)
        PROVE  Promise!Next \/ UNCHANGED <<passing, Denied, api>>
    BY <2>4, <2>5 DEF PostDefault, PostNamespace, At
  <2>6. ASSUME NEW r \in Requests,
               Take(r) \/ QueryOpa(r) \/ CreateEvent(r) \/ ReadSlackSecret(r) \/ Count(r)
        PROVE  UNCHANGED <<passing, Denied, api>>
    <3>1. UNCHANGED <<alerts, api>>
        BY <2>6 DEF Take, Accept, QueryOpa, CreateEvent, ReadSlackSecret, Count
    <3> QED BY <2>0, <3>1 DEF Denied
  <2>7. ASSUME NEW r \in Requests, Raise(r) \/ ApiTimeout(r) PROVE Promise!Next
    BY <2>2, <2>7 DEF Raise, ApiTimeout
  <2>8. ASSUME NEW w \in Workers, Die(w) PROVE Promise!Next
    <3>1. Occupied(w) \in SUBSET Requests BY DEF Occupied
    <3> QED BY <2>1, <2>8, <3>1 DEF Die
  <2>9. ASSUME NEW w \in Workers, Boot(w) PROVE UNCHANGED <<passing, Denied, api>>
    BY <2>0, <2>9 DEF Boot, Denied
  <2> QED
    BY <1>2, <2>3, <2>5, <2>6, <2>7, <2>8, <2>9 DEF Next, Handle, Timed
<1>3. UNCHANGED vars => UNCHANGED <<passing, Denied, api>>
    BY DEF vars, Passes, Denied
<1>4. IInv /\ [Next]_vars => [Promise!Next]_<<passing, Denied, api>>
    BY <1>2, <1>3
<1> QED BY <1>1, <1>4, Invariance, PTL DEF Spec, ImplementsAdmission, Promise!Spec

(* No request is admitted after an alert that announced its denial. *)
THEOREM TruthfulDenials == Spec => []DenialAlertTruthful
<1>1. IInv => DenialAlertTruthful
  BY DEF IInv, AdmittedByAnswer, AlertsAsDecided, DenialAlertTruthful
<1> QED BY <1>1, Invariance, PTL
=============================================================================
