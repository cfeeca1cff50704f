------------------------ MODULE WebhookReportProofs ------------------------
(***************************************************************************)
(* What the admission webhook reports of its decisions, for any number of   *)
(* requests, workers and faults: every denial that is answered was first    *)
(* reported, no alert lacks a reason, and the denials are counted.          *)
(***************************************************************************)
EXTENDS WebhookProofs, FiniteSetTheorems

(* Stages after the event, and those at the end, after the count. *)
Noted == {"secret", "post_default", "post_namespace", "count", "answer", "answered"}
Taken == {"answer", "answered"}

DenialAlert(r, to) ==
    [of |-> r, to |-> to, denied |-> TRUE, customer |-> handler[r].target]

(* Where the handler may be with what it has found out. *)
OnCourse(r) ==
    /\ handler[r].pc = "new" => handler[r].msg = {}
    /\ handler[r].pc = "opa" => ~object[r].owned
    /\ handler[r].pc \in {"secret", "post_default", "post_namespace"} =>
           conf.slack /\ ~object[r].owned /\ AlertDue(handler[r].msg)
    /\ handler[r].pc = "count" => ~Skipped(r)
    /\ handler[r].pc \in Busy => handler[r].at \in Workers

(* What has been reported of a denial so far. *)
Reported(r) ==
    ~Allowed(handler[r].msg) =>
        /\ conf.events /\ handler[r].pc \in Noted => r \in events
        /\ conf.slack /\ ~object[r].owned =>
              /\ conf.default /\ handler[r].pc \in Alerted => DenialAlert(r, "default") \in alerts
              /\ handler[r].target /\ handler[r].pc \in Taken \cup {"count"} =>
                     DenialAlert(r, "namespace") \in alerts

Course == \A r \in Requests : OnCourse(r) /\ Reported(r)

CInv == IInv /\ Course
-----------------------------------------------------------------------------
(* The end of the way is reached past Slack only where nothing is due.      *)
LEMMA WaysOn ==
    ASSUME NEW r \in Requests, NEW msg
    PROVE  /\ AfterEvent(r, msg) = "secret" => conf.slack /\ ~object[r].owned /\ AlertDue(msg)
           /\ AfterEvent(r, msg) = "count" => ~conf.slack
           /\ AfterEvent(r, msg) = "answer" =>
                  conf.slack /\ (object[r].owned \/ ~AlertDue(msg))
           /\ conf.events /\ ~Allowed(msg) => AfterDecision(r, msg) = "event"
           /\ AfterDecision(r, msg) # "event" => AfterDecision(r, msg) = AfterEvent(r, msg)
BY DEF AfterEvent, AfterDecision, AlertDue

(* What a step of another handler leaves of a handler's course. *)
LEMMA OthersKeep ==
    ASSUME NEW q \in Requests, OnCourse(q), Reported(q), handler'[q] = handler[q],
           UNCHANGED <<conf, object>>, events \subseteq events', alerts \subseteq alerts'
    PROVE  OnCourse(q)' /\ Reported(q)'
<1>1. OnCourse(q)' BY DEF OnCourse, Skipped, AlertDue, Allowed
<1>2. Reported(q)' BY DEF Reported, Allowed, DenialAlert
<1> QED BY <1>1, <1>2

(* A step of one handler keeps the others on their course.                  *)
LEMMA CourseStep ==
    ASSUME Types, Course, NEW r \in Requests, NEW h, handler' = [handler EXCEPT ![r] = h],
           UNCHANGED <<conf, object>>, events \subseteq events', alerts \subseteq alerts',
           OnCourse(r)', Reported(r)'
    PROVE  Course'
<1>1. ASSUME NEW q \in Requests, q # r PROVE OnCourse(q)' /\ Reported(q)'
  <2>1. handler'[q] = handler[q] BY <1>1 DEF Types
  <2> QED BY <1>1, <2>1, OthersKeep DEF Course
<1> QED BY <1>1 DEF Course

(* The decision sends the handler on its course. *)
LEMMA DecisionCourse ==
    ASSUME Types, Course, NEW r \in Requests, NEW h \in Handler, Become(r, h),
           h.pc = AfterDecision(r, h.msg), h.at \in Workers,
           UNCHANGED <<conf, object, events, alerts>>
    PROVE  Course'
<1>1. handler' = [handler EXCEPT ![r] = h] /\ handler'[r] = h BY DEF Become, Types
<1>2. h.pc \in {"event", "secret", "count", "answer"} BY NextStages
<1>3. OnCourse(r)' BY <1>1, <1>2, WaysOn DEF OnCourse, Skipped, AlertDue, Allowed
<1>4. Reported(r)'
  BY <1>1, <1>2, WaysOn DEF Reported, Allowed, AllowedAt, AlertDue, Noted, Alerted, Taken
<1> QED BY <1>1, <1>3, <1>4, CourseStep

(* The first event of a request, and what the handler does next.            *)
LEMMA EventCourse ==
    ASSUME CInv, NEW r \in Requests, CreateEvent(r)
    PROVE  Course'
<1>0. Types /\ handler[r] \in Handler BY DEF CInv, IInv, Types
<1> DEFINE l == AfterEvent(r, handler[r].msg)
           h == [handler[r] EXCEPT !.pc = l]
<1>1. handler' = [handler EXCEPT ![r] = h] /\ handler'[r] = h /\ handler[r].pc = "event"
    BY <1>0 DEF CreateEvent, Become, Types, At
<1>2. UNCHANGED <<conf, object, alerts>> /\ events' = events \cup {r}
    BY DEF CreateEvent
<1>3. l \in {"secret", "count", "answer"} BY NextStages
<1>4. h.pc = l /\ h.msg = handler[r].msg /\ h.at = handler[r].at /\ h.at \in Workers
    BY <1>0, <1>1 DEF Handler, CInv, Course, OnCourse, Busy
<1>5. OnCourse(r)'
  <2>1. /\ l = "secret" => conf.slack /\ ~object[r].owned /\ AlertDue(handler[r].msg)
        /\ l = "count" => ~conf.slack
      BY WaysOn
  <2> HIDE DEF h, l
  <2> QED BY <1>1, <1>2, <1>3, <1>4, <2>1 DEF OnCourse, Skipped, AlertDue, Allowed
<1>6. Reported(r)'
  <2>1. ~Allowed(handler[r].msg) /\ conf.slack /\ ~object[r].owned => l = "secret"
      BY <1>3, WaysOn DEF AlertDue
  <2> HIDE DEF h, l
  <2> QED BY <1>1, <1>2, <1>3, <1>4, <2>1 DEF Reported, Allowed, Noted, Alerted, Taken
<1> HIDE DEF h
<1> QED BY <1>0, <1>1, <1>2, <1>5, <1>6, CourseStep DEF CInv

(* The namespace's target is known from here on. *)
LEMMA SecretCourse ==
    ASSUME CInv, NEW r \in Requests, ReadSlackSecret(r)
    PROVE  Course'
<1>0. Types /\ handler[r] \in Handler BY DEF CInv, IInv, Types
<1>1. PICK target \in BOOLEAN :
          Become(r, [handler[r] EXCEPT !.target = target,
                         !.pc = IF conf.default THEN "post_default" ELSE AfterDefault(target)])
    BY DEF ReadSlackSecret
<1> DEFINE l == IF conf.default THEN "post_default" ELSE AfterDefault(target)
           h == [handler[r] EXCEPT !.target = target, !.pc = l]
<1>2. handler' = [handler EXCEPT ![r] = h] /\ handler'[r] = h /\ handler[r].pc = "secret"
    BY <1>0, <1>1 DEF ReadSlackSecret, Become, Types, At
<1>3. UNCHANGED <<conf, object, events, alerts>> BY DEF ReadSlackSecret
<1>4. \/ l = "post_default" /\ conf.default
      \/ l = "post_namespace" /\ ~conf.default
      \/ l = "count" /\ ~conf.default /\ ~target
    BY DEF AfterDefault
<1>5. h.pc = l /\ h.msg = handler[r].msg /\ h.at = handler[r].at /\ h.target = target
    BY <1>0 DEF Handler
<1>6. OnCourse(r) /\ Reported(r) BY DEF CInv, Course
<1> HIDE DEF h, l
<1>7. OnCourse(r)' BY <1>2, <1>3, <1>4, <1>5, <1>6 DEF OnCourse, Skipped, AlertDue, Allowed, Busy
<1>8. Reported(r)'
    BY <1>2, <1>3, <1>4, <1>5, <1>6 DEF Reported, Allowed, Noted, Alerted, Taken
<1> QED BY <1>0, <1>2, <1>3, <1>7, <1>8, CourseStep DEF CInv

(* A post reports to one target and leads to the next. *)
LEMMA PostCourse ==
    ASSUME CInv, NEW r \in Requests, PostDefault(r) \/ PostNamespace(r)
    PROVE  Course'
<1>0. Types /\ handler[r] \in Handler BY DEF CInv, IInv, Types
<1>1. PICK to \in {"default", "namespace"}, next \in {"post_namespace", "count"} :
          /\ Post(r, to, next)
          /\ \/ handler[r].pc = "post_default" /\ to = "default"
                /\ (next = "count" => ~handler[r].target)
             \/ handler[r].pc = "post_namespace" /\ to = "namespace" /\ next = "count"
    BY DEF PostDefault, PostNamespace, AfterDefault, At
<1>2. PICK spent \in {handler[r].spent, Slower(handler[r].spent)} :
          Become(r, [handler[r] EXCEPT !.spent = spent, !.pc = next])
    BY <1>1 DEF Post
<1> DEFINE h == [handler[r] EXCEPT !.spent = spent, !.pc = next]
<1>3. handler' = [handler EXCEPT ![r] = h] /\ handler'[r] = h BY <1>0, <1>2 DEF Become, Types
<1>4. /\ h.pc = next /\ h.msg = handler[r].msg /\ h.at = handler[r].at
      /\ h.target = handler[r].target
    BY <1>0 DEF Handler
<1>5. OnCourse(r) /\ Reported(r) BY DEF CInv, Course
<1>6. /\ UNCHANGED <<conf, object, events>> /\ alerts \subseteq alerts'
      /\ ~Allowed(handler[r].msg) => DenialAlert(r, to) \in alerts'
    BY <1>1 DEF Post, DenialAlert
<1> HIDE DEF h
<1>7. OnCourse(r)' BY <1>1, <1>3, <1>4, <1>5, <1>6 DEF OnCourse, Skipped, AlertDue, Allowed, Busy
<1>8. Reported(r)'
  <2> SUFFICES ASSUME ~Allowed(handler[r].msg)
               PROVE  /\ conf.events => r \in events
                      /\ conf.slack /\ ~object[r].owned =>
                            /\ conf.default => DenialAlert(r, "default") \in alerts'
                            /\ handler[r].target /\ next = "count" =>
                                  DenialAlert(r, "namespace") \in alerts'
      BY <1>3, <1>4, <1>6 DEF Reported, Allowed, DenialAlert, Taken
  <2>1. conf.events => r \in events BY <1>1, <1>5 DEF Reported, Noted
  <2>2. ASSUME conf.slack /\ ~object[r].owned, conf.default
        PROVE  DenialAlert(r, "default") \in alerts'
      BY <1>1, <1>5, <1>6, <2>2 DEF Reported, Alerted
  <2>3. ASSUME handler[r].target, next = "count"
        PROVE  DenialAlert(r, "namespace") \in alerts'
      BY <1>1, <1>6, <2>3
  <2> QED BY <2>1, <2>2, <2>3
<1> QED BY <1>0, <1>3, <1>6, <1>7, <1>8, CourseStep DEF CInv

(* A step towards the end: the count, the answer, or the loss of the        *)
(* request.  Nothing more is reported.                                      *)
LEMMA EndCourse ==
    ASSUME Types, NEW q \in Requests, OnCourse(q), Reported(q),
           UNCHANGED <<conf, object, events, alerts>>,
           handler'[q].msg = handler[q].msg, handler'[q].target = handler[q].target,
           \/ handler'[q].pc = handler[q].pc /\ handler[q].pc \notin Busy
           \/ handler'[q].pc = "lost"
           \/ handler[q].pc = "count" /\ handler'[q].pc = "answer" /\ handler'[q].at = handler[q].at
           \/ handler[q].pc = "answer" /\ handler'[q].pc = "answered"
    PROVE  OnCourse(q)' /\ Reported(q)'
<1>1. OnCourse(q)' BY DEF OnCourse, Skipped, AlertDue, Allowed, Busy
<1>2. Reported(q)' BY DEF Reported, Allowed, DenialAlert, Noted, Alerted, Taken, Busy
<1> QED BY <1>1, <1>2

(* The steps that only bring a handler to its end, several at once when     *)
(* their worker dies.                                                       *)
LEMMA EndSteps ==
    ASSUME Types, NEW r \in Requests, NEW w \in Workers,
           Count(r) \/ Answer(r) \/ Raise(r) \/ Die(w), NEW q \in Requests
    PROVE  /\ handler'[q].msg = handler[q].msg /\ handler'[q].target = handler[q].target
           /\ \/ handler'[q].pc = handler[q].pc /\ handler'[q].at = handler[q].at
              \/ handler'[q].pc = handler[q].pc /\ handler[q].pc \notin Busy
              \/ handler'[q].pc = "lost"
              \/ handler[q].pc = "count" /\ handler'[q].pc = "answer" /\ handler'[q].at = handler[q].at
              \/ handler[q].pc = "answer" /\ handler'[q].pc = "answered"
<1>0. handler[q] \in Handler /\ handler[r] \in Handler BY DEF Types
<1>1. CASE Count(r) BY <1>0, <1>1 DEF Count, Become, At, Types, Handler
<1>2. CASE Answer(r) BY <1>0, <1>2 DEF Answer, Become, At, Types, Handler
<1>3. CASE Raise(r) BY <1>0, <1>3 DEF Raise, Become, Types, Handler
<1>4. CASE Die(w) BY <1>0, <1>4 DEF Die, Types, Handler
<1> QED BY <1>1, <1>2, <1>3, <1>4

(* Every step keeps every handler on its course. *)
LEMMA StepCourse ==
    ASSUME CInv, [Next]_vars
    PROVE  Course'
<1>0. Types /\ Course BY DEF CInv, IInv
<1>1. ASSUME NEW r \in Requests, Take(r) PROVE Course'
  <2>1. PICK w \in Workers : Accept(r, w) BY <1>0, <1>1 DEF Take, Types
  <2> DEFINE l == IF object[r].owned THEN AfterDecision(r, {}) ELSE "opa"
             h == [handler[r] EXCEPT !.at = w, !.pc = l]
  <2>2. Become(r, h) /\ handler[r].pc = "new" /\ UNCHANGED <<conf, object, events, alerts>>
      BY <2>1 DEF Accept, At
  <2>3. l \in {"event", "secret", "count", "answer", "opa"} BY NextStages
  <2>4. handler[r] \in Handler /\ handler[r].msg = {}
      BY <1>0, <2>2 DEF Types, Course, OnCourse
  <2>5. h.pc = l /\ h.at = w /\ h.msg = {} /\ h \in Handler
      BY <2>3, <2>4 DEF Handler, Labels, Busy
  <2>6. CASE object[r].owned
    <3>1. l = AfterDecision(r, {}) BY <2>6
    <3> HIDE DEF h, l
    <3> QED BY <1>0, <2>2, <2>5, <3>1, DecisionCourse
  <2>7. CASE ~object[r].owned
    <3>1. l = "opa" BY <2>7
    <3> HIDE DEF h, l
    <3>2. handler' = [handler EXCEPT ![r] = h] /\ handler'[r] = h
        BY <1>0, <2>2 DEF Become, Types
    <3>3. OnCourse(r)' BY <2>2, <2>5, <2>7, <3>1, <3>2 DEF OnCourse
    <3>4. Reported(r)' BY <2>5, <3>1, <3>2 DEF Reported, Noted, Alerted, Taken
    <3> QED BY <1>0, <2>2, <3>2, <3>3, <3>4, CourseStep
  <2> QED BY <2>6, <2>7
<1>2. ASSUME NEW r \in Requests, QueryOpa(r) PROVE Course'
  <2>1. PICK msg \in {Reasons(r), {"HIGH"}}, spent \in {handler[r].spent, Slower(handler[r].spent)} :
            Decide(r, msg, spent)
      BY <1>2 DEF QueryOpa, Judged, Unjudged
  <2> DEFINE l == AfterDecision(r, msg)
             h == [handler[r] EXCEPT !.msg = msg, !.spent = spent, !.pc = l]
  <2>2. handler[r] \in Handler /\ object[r] \in Object /\ handler[r].pc = "opa"
      BY <1>0, <1>2 DEF Types, QueryOpa, At
  <2>3. msg \in SUBSET Severities
      BY <2>2, WebhookAssumption DEF Reasons, Object, Severities
  <2>4. spent \in 0 .. 2 BY <2>2 DEF Handler, Slower
  <2>5. l \in {"event", "secret", "count", "answer"} BY NextStages
  <2>6. h \in Handler /\ h.pc = l /\ h.msg = msg /\ h.at \in Workers
    <3>1. handler[r].at \in Workers BY <1>0, <2>2 DEF Course, OnCourse, Busy
    <3> HIDE DEF l
    <3> QED BY <2>2, <2>3, <2>4, <2>5, <3>1 DEF Handler, Labels, Busy
  <2>7. Become(r, h) BY <2>1 DEF Decide
  <2>8. UNCHANGED <<conf, object, events, alerts>> BY <1>2 DEF QueryOpa
  <2> HIDE DEF h
  <2> QED BY <1>0, <2>6, <2>7, <2>8, DecisionCourse
<1>3. ASSUME NEW r \in Requests, NEW w \in Workers,
             Count(r) \/ Answer(r) \/ Raise(r) \/ Die(w)
      PROVE  Course'
  <2>1. UNCHANGED <<conf, object, events, alerts>> BY <1>3 DEF Count, Answer, Raise, Die
  <2>2. ASSUME NEW q \in Requests PROVE OnCourse(q)' /\ Reported(q)'
    <3>1. OnCourse(q) /\ Reported(q) BY <1>0 DEF Course
    <3>2. CASE handler'[q].pc = handler[q].pc /\ handler'[q].at = handler[q].at
      BY <1>0, <1>3, <2>1, <3>1, <3>2, EndSteps
         DEF OnCourse, Reported, Skipped, AlertDue, Allowed, DenialAlert
    <3>3. CASE ~(handler'[q].pc = handler[q].pc /\ handler'[q].at = handler[q].at)
      BY <1>0, <1>3, <2>1, <3>1, <3>3, EndSteps, EndCourse
    <3> QED BY <3>2, <3>3
  <2> QED BY <2>2 DEF Course
<1>4. ASSUME NEW w \in Workers, Die(w) PROVE Course'
  <2>1. CASE Requests = {} BY <2>1 DEF Course
  <2>2. CASE Requests # {} BY <1>3, <1>4, <2>2
  <2> QED BY <2>1, <2>2
<1>5. ASSUME NEW r \in Requests, Count(r) \/ Answer(r) \/ Raise(r) PROVE Course'
  <2>1. handler[r].pc \in Busy BY <1>5 DEF Count, Answer, Raise, At, Busy
  <2>2. handler[r].at \in Workers BY <1>0, <2>1 DEF Course, OnCourse
  <2> QED BY <1>3, <1>5, <2>2
<1>6. ASSUME UNCHANGED <<conf, object, handler, events, alerts>> PROVE Course'
  BY <1>0, <1>6 DEF Course, OnCourse, Reported, Skipped, AlertDue, Allowed, DenialAlert
<1> QED
  BY <1>1, <1>2, <1>4, <1>5, <1>6, EventCourse, SecretCourse, PostCourse
     DEF Next, Handle, Timed, ApiTimeout, Boot, vars

(* The invariant of the reports.                                            *)
LEMMA CourseInv == Spec => []CInv
<1>1. Init => CInv
  BY InitInv DEF Init, CInv, Course, OnCourse, Reported, Busy, Noted, Alerted, Taken
<1>2. CInv /\ [Next]_vars => CInv' BY StepCourse, StepInv DEF CInv
<1> QED BY <1>1, <1>2, PTL DEF Spec

(* Whatever Slack, the API, exceptions and the deaths of workers do, no     *)
(* denial is answered before what the configuration asks for has been       *)
(* handed over: the event, the default alert and the namespace's.           *)
THEOREM Reporting == Spec => []DenialReported
<1>1. CInv => DenialReported
  BY DEF CInv, Course, Reported, DenialReported, DenialAlert, At, Noted, Alerted, Taken
<1> QED BY <1>1, CourseInv, PTL

-----------------------------------------------------------------------------
(* Alerts *)

(* A message that an alert was sent for is not changed any more.            *)
LEMMA AlertedKeep ==
    ASSUME IInv, [Next]_vars, NEW r \in Requests, handler[r].pc \in Alerted \cup {"lost"}
    PROVE  handler'[r].msg = handler[r].msg
<1>0. Types BY DEF IInv
<1>1. ASSUME NEW q \in Requests, Take(q) \/ Handle(q) \/ Raise(q) PROVE handler'[r].msg = handler[r].msg
  <2>1. CASE q # r
    <3>1. \E h : handler' = [handler EXCEPT ![q] = h]
        BY <1>1 DEF Take, Accept, Handle, Timed, QueryOpa, Judged, Unjudged, Decide, CreateEvent,
           ReadSlackSecret, PostDefault, PostNamespace, Post, Count, Answer, Raise, Become
    <3> QED BY <1>0, <2>1, <3>1 DEF Types
  <2>2. CASE q = r
    <3>1. PostNamespace(r) \/ Count(r) \/ Answer(r)
        BY <1>1, <2>2 DEF Take, Accept, Handle, Timed, QueryOpa, CreateEvent, ReadSlackSecret,
           PostDefault, Raise, At, Alerted
    <3>2. CASE PostNamespace(r)
        BY <1>0, <3>2 DEF PostNamespace, Post, Become, Types, Handler
    <3>3. CASE Count(r) BY <1>0, <3>3 DEF Count, Become, Types, Handler
    <3>4. CASE Answer(r) BY <1>0, <3>4 DEF Answer, Become, Types, Handler
    <3> QED BY <3>1, <3>2, <3>3, <3>4
  <2> QED BY <2>1, <2>2
<1>2. ASSUME NEW w \in Workers, Die(w) PROVE handler'[r].msg = handler[r].msg
  BY <1>0, <1>2, EndSteps
<1> QED BY <1>1, <1>2 DEF Next, ApiTimeout, Boot, vars

(* A new alert is the post of the step, and says what the message says.     *)
LEMMA NewAlerts ==
    ASSUME CInv, [Next]_vars, NEW a \in alerts', a \notin alerts
    PROVE  \E r \in Requests : \E to \in {"default", "namespace"} :
               /\ handler[r].pc \in {"post_default", "post_namespace"}
               /\ a = [of |-> r, to |-> to, denied |-> ~Allowed(handler[r].msg),
                       customer |-> handler[r].target]
               /\ handler'[r].msg = handler[r].msg
<1>1. PICK r \in Requests : PostDefault(r) \/ PostNamespace(r)
    BY DEF Next, Take, Accept, Handle, Timed, QueryOpa, CreateEvent, ReadSlackSecret, Count, Answer,
       Raise, ApiTimeout, Die, Boot, vars
<1>2. /\ handler[r].pc \in {"post_default", "post_namespace"}
      /\ \E to \in {"default", "namespace"}, next \in {"post_namespace", "count"} : Post(r, to, next)
    BY <1>1 DEF PostDefault, PostNamespace, AfterDefault, At
<1>3. handler'[r].msg = handler[r].msg
    BY <1>2 DEF Post, Become, CInv, IInv, Types, Handler
<1>4. PICK to \in {"default", "namespace"}, next \in {"post_namespace", "count"} : Post(r, to, next)
    BY <1>2
<1>5. a = [of |-> r, to |-> to, denied |-> ~Allowed(handler[r].msg), customer |-> handler[r].target]
    BY <1>4 DEF Post
<1> QED BY <1>2, <1>3, <1>5

(* For any alert there was a reason: a denial, or a failure where           *)
(* MAGTAPE_SLACK_PASSIVE is set, and never for the child of a ReplicaSet.   *)
THEOREM Warranted == Spec => []AlertWarranted
<1>1. Init => AlertWarranted BY DEF Init, AlertWarranted
<1>2. ASSUME CInv, AlertWarranted, [Next]_vars PROVE AlertWarranted'
  <2>1. UNCHANGED <<conf, object>>
      BY <1>2 DEF Next, Take, Handle, Timed, Accept, QueryOpa, CreateEvent, ReadSlackSecret, PostDefault,
         PostNamespace, Post, Count, Answer, Raise, ApiTimeout, Die, Boot, vars
  <2>2. ASSUME NEW a \in alerts
        PROVE  /\ conf.slack /\ ~object[a.of].owned
               /\ ~a.denied => conf.passive /\ handler'[a.of].msg # {}
    <3>1. a.of \in Requests /\ handler[a.of].pc \in Alerted \cup {"lost"}
        BY <1>2, <2>2 DEF CInv, IInv, AlertsAsDecided
    <3>2. handler'[a.of].msg = handler[a.of].msg
        BY <1>2, <3>1, AlertedKeep DEF CInv
    <3> QED BY <1>2, <2>2, <3>2 DEF AlertWarranted
  <2>3. ASSUME NEW a \in alerts', a \notin alerts
        PROVE  /\ conf.slack /\ ~object[a.of].owned
               /\ ~a.denied => conf.passive /\ handler'[a.of].msg # {}
    <3>1. PICK r \in Requests, to \in {"default", "namespace"} :
              /\ handler[r].pc \in {"post_default", "post_namespace"}
              /\ a = [of |-> r, to |-> to, denied |-> ~Allowed(handler[r].msg),
                      customer |-> handler[r].target]
              /\ handler'[r].msg = handler[r].msg
        BY <1>2, <2>3, NewAlerts
    <3>2. conf.slack /\ ~object[r].owned /\ AlertDue(handler[r].msg)
        BY <1>2, <3>1 DEF CInv, Course, OnCourse
    <3> QED BY <3>1, <3>2 DEF AlertDue
  <2> QED BY <2>1, <2>2, <2>3 DEF AlertWarranted
<1> QED BY <1>1, <1>2, CourseInv, PTL DEF Spec

-----------------------------------------------------------------------------
(* Counters *)

Served(w)     == {r \in Requests : handler[r].at = w /\ handler[r].pc \in Taken}
Tallied(w, o) == {r \in Served(w) : Outcome(r) = o /\ ~Skipped(r)}

(* The counters are right: in a worker, for each outcome, and in total. *)
Right(w) ==
    /\ counts[w].allowed = Cardinality(Tallied(w, "allowed"))
    /\ counts[w].denied = Cardinality(Tallied(w, "denied"))
    /\ counts[w].total = counts[w].allowed + counts[w].denied

Tallies(w) == <<counts[w].allowed, counts[w].denied, counts[w].total>>

Counted == counts \in [Workers -> Counters] /\ \A w \in Workers : Right(w)

KInv == CInv /\ Counted

(* What is counted is finite.                                               *)
LEMMA Finite ==
    ASSUME NEW w, NEW o
    PROVE  /\ IsFiniteSet(Served(w)) /\ Cardinality(Served(w)) \in Nat
           /\ Cardinality(Served(w)) <= Cardinality(Requests)
           /\ IsFiniteSet(Tallied(w, o)) /\ Cardinality(Tallied(w, o)) \in Nat
<1>1. Served(w) \in SUBSET Requests /\ Tallied(w, o) \in SUBSET Requests BY DEF Served, Tallied
<1> QED BY <1>1, FS_Subset, FS_CardinalityType, WebhookAssumption

(* A request is tallied by what its handler has found out. *)
LEMMA SameTallied ==
    ASSUME NEW w, NEW o, Served(w)' = Served(w), UNCHANGED <<conf, object>>,
           \A q \in Served(w) : handler'[q].msg = handler[q].msg
    PROVE  Tallied(w, o)' = Tallied(w, o)
<1>1. ASSUME NEW q \in Served(w) PROVE Outcome(q)' = Outcome(q) /\ Skipped(q)' = Skipped(q)
    BY <1>1 DEF Outcome, Skipped, AlertDue, Allowed
<1> QED BY <1>1 DEF Tallied

(* A handler that goes on, and is tallied neither before nor after.         *)
LEMMA UncountedStep ==
    ASSUME KInv, NEW r \in Requests, NEW h, handler' = [handler EXCEPT ![r] = h],
           UNCHANGED <<conf, object>>, counts' \in [Workers -> Counters],
           \A w \in Workers : UNCHANGED Tallies(w),
           handler[r].pc \notin Taken, h.pc # "answered",
           h.pc = "answer" => conf.slack /\ (object[r].owned \/ ~AlertDue(h.msg))
    PROVE  Counted'
<1>0. Types /\ Counted BY DEF KInv, CInv, IInv
<1>1. handler'[r] = h /\ \A q \in Requests : q # r => handler'[q] = handler[q] BY <1>0 DEF Types
<1>2. ASSUME NEW w \in Workers, NEW o
      PROVE  Tallied(w, o)' = Tallied(w, o)
  <2>1. r \notin Tallied(w, o) BY DEF Tallied, Served
  <2>2. r \notin Tallied(w, o)'
      BY <1>1 DEF Tallied, Served, Skipped, AlertDue, Allowed, Taken
  <2>3. ASSUME NEW q \in Requests, q # r
        PROVE  q \in Tallied(w, o)' <=> q \in Tallied(w, o)
      BY <1>1, <2>3 DEF Tallied, Served, Outcome, Skipped, AlertDue, Allowed
  <2>4. Tallied(w, o) \subseteq Requests /\ Tallied(w, o)' \subseteq Requests
      BY DEF Tallied, Served
  <2> QED BY <2>1, <2>2, <2>3, <2>4
<1> QED BY <1>0, <1>2 DEF Counted, Right, Tallies

(* The counters of one worker after a count. *)
Tick(c, o) == [[c EXCEPT ![o] = @ + 1] EXCEPT !.total = @ + 1]

LEMMA CountersMove ==
    ASSUME NEW c \in Counters, NEW o \in {"allowed", "denied"}
    PROVE  /\ Tick(c, o) \in Counters
           /\ Tick(c, o).total = c.total + 1
           /\ Tick(c, o).denied = IF o = "denied" THEN c.denied + 1 ELSE c.denied
           /\ Tick(c, o).allowed = IF o = "allowed" THEN c.allowed + 1 ELSE c.allowed
<1> DEFINE e == [c EXCEPT ![o] = @ + 1]
<1>1. c \in [DOMAIN Zero -> Nat] /\ \A f \in [DOMAIN Zero -> Nat] : f \in Counters
    BY DEF Counters, Zero
<1>2. DOMAIN Zero = {"allowed", "denied", "total", "pass", "fail"} BY DEF Zero
<1> HIDE DEF Counters
<1>3. e \in [DOMAIN Zero -> Nat] BY <1>1, <1>2
<1>4. /\ e["total"] = c["total"]
      /\ e["denied"] = IF o = "denied" THEN c["denied"] + 1 ELSE c["denied"]
      /\ e["allowed"] = IF o = "allowed" THEN c["allowed"] + 1 ELSE c["allowed"]
    BY <1>1, <1>2
<1> HIDE DEF e
<1>5. [e EXCEPT !.total = @ + 1] \in [DOMAIN Zero -> Nat] BY <1>2, <1>3
<1>6. /\ [e EXCEPT !.total = @ + 1].total = c.total + 1
      /\ [e EXCEPT !.total = @ + 1].denied = IF o = "denied" THEN c.denied + 1 ELSE c.denied
      /\ [e EXCEPT !.total = @ + 1].allowed = IF o = "allowed" THEN c.allowed + 1 ELSE c.allowed
    BY <1>2, <1>3, <1>4
<1>7. Tick(c, o) = [e EXCEPT !.total = @ + 1] BY DEF Tick, e
<1> QED BY <1>1, <1>5, <1>6, <1>7

(* The count of a request: its worker's, in the same step.                  *)
LEMMA CountStep ==
    ASSUME KInv, NEW r \in Requests, Count(r)
    PROVE  Counted'
<1>0. Types /\ Counted /\ handler[r] \in Handler BY DEF KInv, CInv, IInv, Types
<1> DEFINE h == [handler[r] EXCEPT !.pc = "answer"]
<1>1. /\ handler' = [handler EXCEPT ![r] = h] /\ handler[r].pc = "count"
      /\ UNCHANGED <<conf, object>>
    BY DEF Count, Become, At
<1>2. h.pc = "answer" /\ h.at = handler[r].at /\ h.msg = handler[r].msg BY <1>0 DEF Handler
<1>3. handler[r].at \in Workers /\ ~Skipped(r)
    BY <1>1 DEF KInv, CInv, Course, OnCourse, Busy
<1>4. handler'[r] = h /\ \A q \in Requests : q # r => handler'[q] = handler[q]
    BY <1>0, <1>1 DEF Types
<1> HIDE DEF h
<1> PICK w \in Workers : w = handler[r].at BY <1>3
<1>5. /\ counts' \in [Workers -> Counters]
      /\ \A v \in Workers : v # w => counts'[v] = counts[v]
      /\ counts'[w].total = counts[w].total + 1
      /\ counts'[w].denied = IF Outcome(r) = "denied" THEN counts[w].denied + 1
                             ELSE counts[w].denied
      /\ counts'[w].allowed = IF Outcome(r) = "allowed" THEN counts[w].allowed + 1
                              ELSE counts[w].allowed
  <2> DEFINE o == Outcome(r)
             d == Tick(counts[w], o)
  <2>1. counts \in [Workers -> Counters] /\ counts[w] \in Counters BY <1>0 DEF Counted
  <2>2. o \in {"allowed", "denied"} /\ o = Outcome(r) BY DEF Outcome
  <2>3. counts' = [counts EXCEPT ![w][o] = @ + 1, ![w].total = @ + 1]
      BY DEF Count
  <2> HIDE DEF o
  <2>4. counts' = [counts EXCEPT ![w] = d]
    <3> DEFINE g == [counts EXCEPT ![w][o] = @ + 1]
    <3>1. g[w] = [counts[w] EXCEPT ![o] = @ + 1] /\ DOMAIN g = Workers BY <2>1
    <3>2. \A v \in Workers : v # w => g[v] = counts[v] BY <2>1
    <3>3. counts' = [g EXCEPT ![w].total = @ + 1]
      <4>1. o # "total" BY <2>2
      <4>2. g[w].total = counts[w].total BY <2>1, <3>1, <4>1 DEF Counters
      <4> QED BY <2>3, <4>2
    <3> HIDE DEF g
    <3>4. counts' = [g EXCEPT ![w] = d] BY <3>1, <3>3 DEF Tick
    <3> HIDE DEF d
    <3> QED BY <2>1, <3>1, <3>2, <3>4
  <2>5. /\ d \in Counters /\ d.total = counts[w].total + 1
        /\ d.denied = IF o = "denied" THEN counts[w].denied + 1 ELSE counts[w].denied
        /\ d.allowed = IF o = "allowed" THEN counts[w].allowed + 1 ELSE counts[w].allowed
      BY <2>1, <2>2, CountersMove
  <2> HIDE DEF d
  <2>6. counts'[w] = d /\ \A v \in Workers : v # w => counts'[v] = counts[v] BY <2>1, <2>4
  <2>7. counts' \in [Workers -> Counters] BY <2>1, <2>4, <2>5
  <2> QED BY <2>2, <2>5, <2>6, <2>7
<1>6. ASSUME NEW v \in Workers, v # w PROVE Right(v)'
  <2>1. Served(v)' = Served(v) BY <1>1, <1>2, <1>4, <1>6 DEF Served, Taken
  <2>2. \A q \in Requests : handler'[q].msg = handler[q].msg BY <1>2, <1>4
  <2>3. \A o : Tallied(v, o)' = Tallied(v, o)
    <3>1. Served(v) \subseteq Requests BY DEF Served
    <3> QED BY <1>1, <2>1, <2>2, <3>1, SameTallied
  <2> QED BY <1>0, <1>5, <1>6, <2>3 DEF Counted, Right
<1>7. Served(w)' = Served(w) \cup {r} /\ r \notin Served(w)
  <2>1. r \notin Served(w) BY <1>1 DEF Served, Taken
  <2>2. r \in Served(w)' BY <1>2, <1>4 DEF Served, Taken
  <2>3. ASSUME NEW q \in Requests, q # r PROVE q \in Served(w)' <=> q \in Served(w)
      BY <1>4, <2>3 DEF Served
  <2>4. Served(w)' \subseteq Requests /\ Served(w) \subseteq Requests BY DEF Served
  <2> QED BY <2>1, <2>2, <2>3, <2>4
<1>8. ASSUME NEW o
      PROVE  /\ Tallied(w, o)' = IF Outcome(r) = o THEN Tallied(w, o) \cup {r} ELSE Tallied(w, o)
             /\ r \notin Tallied(w, o)
  <2>1. ASSUME NEW q \in Requests PROVE Outcome(q)' = Outcome(q) /\ Skipped(q)' = Skipped(q)
    <3>1. handler'[q].msg = handler[q].msg BY <1>2, <1>4
    <3> QED BY <1>1, <3>1 DEF Outcome, Skipped, AlertDue, Allowed
  <2>2. Served(w) \subseteq Requests BY DEF Served
  <2> QED BY <1>3, <1>7, <2>1, <2>2 DEF Tallied
<1>9. Right(w)'
  <2>1. ASSUME NEW o, Outcome(r) = o
        PROVE  Cardinality(Tallied(w, o)') = Cardinality(Tallied(w, o)) + 1
    <3>1. Tallied(w, o)' = Tallied(w, o) \cup {r} /\ r \notin Tallied(w, o) BY <1>8, <2>1
    <3> QED BY <3>1, Finite, FS_AddElement
  <2>2. ASSUME NEW o, Outcome(r) # o PROVE Tallied(w, o)' = Tallied(w, o) BY <1>8, <2>2
  <2>3. Right(w) /\ counts[w] \in Counters BY <1>0 DEF Counted
  <2>4. /\ counts'[w].allowed = Cardinality(Tallied(w, "allowed")')
        /\ counts'[w].denied = Cardinality(Tallied(w, "denied")')
      BY <1>5, <2>1, <2>2, <2>3 DEF Right
  <2>5. counts'[w].total = counts'[w].allowed + counts'[w].denied
    <3>1. CASE Outcome(r) = "allowed" BY <1>5, <2>3, <3>1 DEF Right, Counters
    <3>2. CASE Outcome(r) = "denied" BY <1>5, <2>3, <3>2 DEF Right, Counters
    <3> QED BY <3>1, <3>2 DEF Outcome
  <2> QED BY <2>4, <2>5 DEF Right
<1> QED BY <1>5, <1>6, <1>9 DEF Counted

(* What a judgement adds to the counters by policy. *)
LEMMA JudgedCounts ==
    ASSUME Counted, NEW w \in Workers, NEW m \in Nat, NEW n \in Nat,
           counts' = [counts EXCEPT ![w].fail = @ + m, ![w].pass = @ + n]
    PROVE  /\ counts' \in [Workers -> Counters]
           /\ \A v \in Workers : UNCHANGED Tallies(v)
<1> DEFINE d == [counts[w] EXCEPT !.fail = @ + m, !.pass = @ + n]
<1>1. counts \in [Workers -> Counters] /\ counts[w] \in Counters BY DEF Counted
<1>2. /\ d \in Counters /\ d.allowed = counts[w].allowed
      /\ d.denied = counts[w].denied /\ d.total = counts[w].total
  <2> PICK c \in Counters : c = counts[w] BY <1>1
  <2> DEFINE i == c.fail + m
             j == c.pass + n
  <2>1. i \in Nat /\ j \in Nat BY DEF Counters
  <2>2. d = [c EXCEPT !.fail = i, !.pass = j] BY DEF Counters
  <2> HIDE DEF d, i, j
  <2> QED BY <2>1, <2>2 DEF Counters
<1>3. counts' = [counts EXCEPT ![w] = d]
  <2> DEFINE g == [counts EXCEPT ![w].fail = @ + m]
  <2>1. g[w] = [counts[w] EXCEPT !.fail = @ + m] /\ DOMAIN g = Workers BY <1>1
  <2>2. \A v \in Workers : v # w => g[v] = counts[v] BY <1>1
  <2>3. g[w].pass = counts[w].pass BY <1>1, <2>1 DEF Counters
  <2>4. counts' = [g EXCEPT ![w].pass = @ + n] BY <2>3
  <2>5. [g[w] EXCEPT !.pass = @ + n] = d BY <2>1, <2>3
  <2> HIDE DEF g
  <2>6. counts' = [g EXCEPT ![w] = d] BY <2>4, <2>5
  <2> HIDE DEF d
  <2> QED BY <1>1, <2>1, <2>2, <2>6
<1> HIDE DEF d
<1> QED BY <1>1, <1>2, <1>3 DEF Tallies

(* A handler's next call, when it is neither counted nor answered yet.      *)
LEMMA QuietCounts ==
    ASSUME KInv, NEW r \in Requests,
           \/ \E w \in Workers : Accept(r, w)
           \/ QueryOpa(r) \/ CreateEvent(r) \/ ReadSlackSecret(r)
           \/ PostDefault(r) \/ PostNamespace(r) \/ Raise(r)
    PROVE  Counted'
<1>0. /\ Types /\ Counted /\ handler[r] \in Handler /\ object[r] \in Object
      /\ counts \in [Workers -> Counters] /\ OnCourse(r)
    BY DEF KInv, CInv, IInv, Types, Counted, Course
<1>1. UNCHANGED <<conf, object>>
    BY DEF Accept, QueryOpa, CreateEvent, ReadSlackSecret, PostDefault, PostNamespace, Post, Raise
<1>2. handler[r].pc \notin Taken
    BY DEF Accept, QueryOpa, CreateEvent, ReadSlackSecret, PostDefault, PostNamespace, Raise, At,
       Taken
<1>3. /\ counts' \in [Workers -> Counters]
      /\ \A w \in Workers : UNCHANGED Tallies(w)
  <2>1. CASE UNCHANGED counts BY <1>0, <2>1 DEF Tallies
  <2>2. ASSUME QueryOpa(r), Judged(r)
        PROVE  /\ counts' \in [Workers -> Counters]
               /\ \A w \in Workers : UNCHANGED Tallies(w)
    <3>1. handler[r].at \in Workers BY <1>0, <2>2 DEF QueryOpa, At, OnCourse, Busy
    <3>2. object[r].fails \in SUBSET Policies /\ Policies \ object[r].fails \in SUBSET Policies
        BY <1>0 DEF Object
    <3>3. Cardinality(object[r].fails) \in Nat /\ Cardinality(Policies \ object[r].fails) \in Nat
        BY <3>2, FS_Subset, FS_CardinalityType, WebhookAssumption
    <3> QED BY <1>0, <2>2, <3>1, <3>3, JudgedCounts DEF Judged
  <2> QED BY <2>1, <2>2 DEF Accept, QueryOpa, Unjudged, CreateEvent, ReadSlackSecret,
             PostDefault, PostNamespace, Post, Raise
<1>4. ASSUME NEW h \in Handler, handler' = [handler EXCEPT ![r] = h], h.pc # "answered",
             h.pc = "answer" => conf.slack /\ (object[r].owned \/ ~AlertDue(h.msg))
      PROVE  Counted'
    BY <1>1, <1>2, <1>3, <1>4, UncountedStep
<1>5. ASSUME NEW w \in Workers, Accept(r, w) PROVE Counted'
  <2> DEFINE l == IF object[r].owned THEN AfterDecision(r, {}) ELSE "opa"
             h == [handler[r] EXCEPT !.at = w, !.pc = l]
  <2>1. l \in {"event", "secret", "count", "answer", "opa"} BY NextStages
  <2>2. h \in Handler /\ h.pc = l /\ h.msg = handler[r].msg
      BY <1>0, <2>1 DEF Handler, Labels, Busy
  <2>3. handler[r].msg = {} BY <1>0, <1>5 DEF Accept, At, OnCourse
  <2>4. l = "answer" => conf.slack /\ (object[r].owned \/ ~AlertDue({})) BY WaysOn
  <2>5. handler' = [handler EXCEPT ![r] = h] BY <1>5 DEF Accept, Become
  <2> HIDE DEF h, l
  <2> QED BY <1>4, <2>1, <2>2, <2>3, <2>4, <2>5
<1>6. ASSUME QueryOpa(r) PROVE Counted'
  <2>1. PICK msg \in {Reasons(r), {"HIGH"}}, spent \in {handler[r].spent, Slower(handler[r].spent)} :
            Decide(r, msg, spent)
      BY <1>6 DEF QueryOpa, Judged, Unjudged
  <2> DEFINE l == AfterDecision(r, msg)
             h == [handler[r] EXCEPT !.msg = msg, !.spent = spent, !.pc = l]
  <2>2. msg \in SUBSET Severities BY <1>0, WebhookAssumption DEF Reasons, Object, Severities
  <2>3. spent \in 0 .. 2 BY <1>0 DEF Handler, Slower
  <2>4. l \in {"event", "secret", "count", "answer"} BY NextStages
  <2>5. l = "answer" => conf.slack /\ (object[r].owned \/ ~AlertDue(msg)) BY WaysOn
  <2> HIDE DEF l
  <2>6. h \in Handler /\ h.pc = l /\ h.msg = msg BY <1>0, <2>2, <2>3, <2>4 DEF Handler, Labels, Busy
  <2>7. handler' = [handler EXCEPT ![r] = h] BY <2>1 DEF Decide, Become, l
  <2> HIDE DEF h
  <2> QED BY <1>4, <2>4, <2>5, <2>6, <2>7
<1>7. ASSUME CreateEvent(r) PROVE Counted'
  <2> DEFINE l == AfterEvent(r, handler[r].msg)
             h == [handler[r] EXCEPT !.pc = l]
  <2>1. l \in {"secret", "count", "answer"} BY NextStages
  <2>2. l = "answer" => conf.slack /\ (object[r].owned \/ ~AlertDue(handler[r].msg)) BY WaysOn
  <2> HIDE DEF l
  <2>3. h \in Handler /\ h.pc = l /\ h.msg = handler[r].msg BY <1>0, <2>1 DEF Handler, Labels, Busy
  <2>4. handler' = [handler EXCEPT ![r] = h] BY <1>7 DEF CreateEvent, Become, l
  <2> HIDE DEF h
  <2> QED BY <1>4, <2>1, <2>2, <2>3, <2>4
<1>8. ASSUME ReadSlackSecret(r) PROVE Counted'
  <2>1. PICK target \in BOOLEAN :
            Become(r, [handler[r] EXCEPT !.target = target,
                           !.pc = IF conf.default THEN "post_default" ELSE AfterDefault(target)])
      BY <1>8 DEF ReadSlackSecret
  <2> DEFINE l == IF conf.default THEN "post_default" ELSE AfterDefault(target)
             h == [handler[r] EXCEPT !.target = target, !.pc = l]
  <2>2. l \in {"post_default", "post_namespace", "count"} BY DEF AfterDefault
  <2>3. handler' = [handler EXCEPT ![r] = h] BY <2>1 DEF Become
  <2> HIDE DEF l
  <2>4. h \in Handler /\ h.pc = l BY <1>0, <2>2 DEF Handler, Labels, Busy
  <2> HIDE DEF h
  <2> QED BY <1>4, <2>2, <2>3, <2>4
<1>9. ASSUME PostDefault(r) \/ PostNamespace(r) PROVE Counted'
  <2>1. PICK to \in {"default", "namespace"}, next \in {"post_namespace", "count"} : Post(r, to, next)
      BY <1>9 DEF PostDefault, PostNamespace, AfterDefault
  <2>2. PICK spent \in {handler[r].spent, Slower(handler[r].spent)} :
            Become(r, [handler[r] EXCEPT !.spent = spent, !.pc = next])
      BY <2>1 DEF Post
  <2> DEFINE h == [handler[r] EXCEPT !.spent = spent, !.pc = next]
  <2>3. spent \in 0 .. 2 BY <1>0 DEF Handler, Slower
  <2>4. h \in Handler /\ h.pc = next
    <3>1. next \in Labels BY DEF Labels, Busy
    <3> QED BY <1>0, <2>3, <3>1 DEF Handler
  <2>5. handler' = [handler EXCEPT ![r] = h] BY <2>2 DEF Become
  <2> HIDE DEF h
  <2> QED BY <1>4, <2>4, <2>5
<1>10. ASSUME Raise(r) PROVE Counted'
  <2> DEFINE h == [handler[r] EXCEPT !.pc = "lost", !.spent = 0]
  <2>1. h \in Handler /\ h.pc = "lost" BY <1>0, Ended DEF Labels
  <2>2. handler' = [handler EXCEPT ![r] = h] BY <1>10 DEF Raise, Become
  <2> HIDE DEF h
  <2> QED BY <1>4, <2>1, <2>2
<1> QED BY <1>5, <1>6, <1>7, <1>8, <1>9, <1>10

(* The answer leaves a request tallied where it was.                        *)
LEMMA AnswerCounts ==
    ASSUME KInv, NEW r \in Requests, Answer(r)
    PROVE  Counted'
<1>0. Types /\ Counted /\ handler[r] \in Handler BY DEF KInv, CInv, IInv, Types
<1> DEFINE h == [handler[r] EXCEPT !.pc = "answered", !.spent = 0]
<1>1. /\ handler' = [handler EXCEPT ![r] = h] /\ handler[r].pc = "answer"
      /\ UNCHANGED <<conf, object, counts>>
    BY DEF Answer, Become, At
<1>2. h.pc = "answered" /\ h.at = handler[r].at /\ h.msg = handler[r].msg BY <1>0 DEF Handler
<1>3. handler'[r] = h /\ \A q \in Requests : q # r => handler'[q] = handler[q]
    BY <1>0, <1>1 DEF Types
<1> HIDE DEF h
<1>4. ASSUME NEW w \in Workers, NEW o PROVE Tallied(w, o)' = Tallied(w, o)
  <2>1. Served(w)' = Served(w) BY <1>1, <1>2, <1>3 DEF Served, Taken
  <2>2. \A q \in Requests : handler'[q].msg = handler[q].msg BY <1>2, <1>3
  <2>3. Served(w) \subseteq Requests BY DEF Served
  <2> QED BY <1>1, <2>1, <2>2, <2>3, SameTallied
<1> QED BY <1>0, <1>1, <1>4 DEF Counted, Right

(* A worker that dies takes its counters along, and what they counted.      *)
LEMMA DieCounts ==
    ASSUME KInv, NEW w \in Workers, Die(w)
    PROVE  Counted'
<1>0. Types /\ Counted /\ counts \in [Workers -> Counters] BY DEF KInv, CInv, IInv, Counted
<1>1. UNCHANGED <<conf, object>> /\ counts' = [counts EXCEPT ![w] = Zero] BY DEF Die
<1>2. Zero \in Counters /\ Zero.allowed = 0 /\ Zero.denied = 0 /\ Zero.total = 0
    BY DEF Zero, Counters
<1>3. ASSUME NEW q \in Requests
      PROVE  IF handler[q].at # w THEN handler'[q] = handler[q] ELSE handler'[q].at = None
  <2>1. handler[q] \in Handler BY <1>0 DEF Types
  <2> QED BY <2>1 DEF Die, Handler
<1>4. ASSUME NEW v \in Workers, v # w, NEW o PROVE Tallied(v, o)' = Tallied(v, o)
  <2>1. Served(v)' = Served(v) BY <1>3, <1>4, WebhookAssumption DEF Served
  <2>2. \A q \in Served(v) : handler'[q] = handler[q] BY <1>3, <1>4 DEF Served
  <2> QED BY <1>1, <2>1, <2>2, SameTallied
<1>5. ASSUME NEW o PROVE Tallied(w, o)' = {}
  <2>1. Served(w)' = {} BY <1>3, WebhookAssumption DEF Served
  <2> QED BY <2>1 DEF Tallied
<1>6. ASSUME NEW v \in Workers PROVE Right(v)'
  <2>1. CASE v = w BY <1>0, <1>1, <1>2, <1>5, <2>1, FS_EmptySet DEF Right
  <2>2. CASE v # w
    <3>1. counts'[v] = counts[v] BY <1>0, <1>1, <2>2
    <3> QED BY <1>0, <1>4, <2>2, <3>1 DEF Counted, Right
  <2> QED BY <2>1, <2>2
<1> QED BY <1>0, <1>1, <1>2, <1>6 DEF Counted

(* Every step keeps the counters right.                                     *)
LEMMA StepCounted ==
    ASSUME KInv, [Next]_vars
    PROVE  Counted'
<1>1. ASSUME UNCHANGED <<conf, object, handler, counts>> PROVE Counted'
  <2>1. \A w, o : Tallied(w, o)' = Tallied(w, o)
    <3>1. \A w : Served(w)' = Served(w) BY <1>1 DEF Served
    <3> QED BY <1>1, <3>1, SameTallied
  <2> QED BY <1>1, <2>1 DEF KInv, Counted, Right
<1>2. ASSUME NEW r \in Requests, Take(r) PROVE Counted'
  <2>1. PICK w \in Workers : Accept(r, w) BY <1>2 DEF KInv, CInv, IInv, Types, Take
  <2> QED BY <2>1, QuietCounts
<1>3. ASSUME NEW r \in Requests, Handle(r) \/ Raise(r) PROVE Counted'
  BY <1>3, QuietCounts, CountStep, AnswerCounts DEF Handle, Timed
<1> QED BY <1>1, <1>2, <1>3, DieCounts DEF Next, ApiTimeout, Boot, vars

(* The invariant of the counters.                                           *)
LEMMA CountedInv == Spec => []KInv
<1>1. Init => KInv
  <2> SUFFICES ASSUME Init PROVE KInv OBVIOUS
  <2>1. CInv BY InitInv DEF Init, CInv, Course, OnCourse, Reported, Busy, Noted, Alerted, Taken
  <2>2. Zero \in Counters /\ Zero.allowed = 0 /\ Zero.denied = 0 /\ Zero.total = 0
      BY DEF Zero, Counters
  <2>3. \A w, o : Tallied(w, o) = {}
      BY DEF Init, Served, Tallied, Taken
  <2>4. counts \in [Workers -> Counters] /\ \A w \in Workers : counts[w] = Zero
      BY <2>2 DEF Init
  <2>5. \A w, o : Cardinality(Tallied(w, o)) = 0
      BY <2>3, FS_EmptySet
  <2>6. Counted BY <2>2, <2>4, <2>5 DEF Counted, Right
  <2> QED BY <2>1, <2>6 DEF KInv
<1>2. KInv /\ [Next]_vars => KInv' BY StepCounted, StepCourse, StepInv DEF KInv, CInv
<1> QED BY <1>1, <1>2, PTL DEF Spec

(* Allowed and denied are two.                                              *)
LEMMA TotalBound ==
    ASSUME Counted, NEW w \in Workers
    PROVE  /\ counts[w].total \in Nat /\ counts[w].total <= Cardinality(Served(w))
           /\ ~conf.slack => counts[w].total = Cardinality(Served(w))
<1> DEFINE A == Tallied(w, "allowed")
           D == Tallied(w, "denied")
<1>1. A \cap D = {} /\ A \cup D \in SUBSET Served(w) BY DEF Tallied
<1>2. IsFiniteSet(A) /\ IsFiniteSet(D) BY Finite
<1>3. ~conf.slack => A \cup D = Served(w) BY DEF Tallied, Skipped, Outcome
<1>4. counts[w].total = Cardinality(A) + Cardinality(D) BY DEF Counted, Right
<1> HIDE DEF A, D
<1>5. Cardinality(A \cup D) = Cardinality(A) + Cardinality(D)
  <2>1. Cardinality(A \cup D) = Cardinality(A) + Cardinality(D) - Cardinality(A \cap D)
      BY <1>2, FS_Union
  <2>2. Cardinality(A \cap D) = 0 BY <1>1, FS_EmptySet
  <2>3. Cardinality(A) \in Nat /\ Cardinality(D) \in Nat BY <1>2, FS_CardinalityType
  <2> QED BY <2>1, <2>2, <2>3
<1>6. Cardinality(A \cup D) \in Nat /\ Cardinality(A \cup D) <= Cardinality(Served(w))
    BY <1>1, FS_Subset, FS_CardinalityType, Finite
<1> QED BY <1>3, <1>4, <1>5, <1>6

(* The counters of every worker are exact, at any number of requests,       *)
(* threads and deaths of workers.                                           *)
THEOREM Counting == Spec => []OutcomesCounted
<1>1. KInv => OutcomesCounted
  <2>1. ASSUME NEW w, NEW o
        PROVE  Tallied(w, o) = {r \in Requests :
                   /\ handler[r].at = w /\ handler[r].pc \in {"answer", "answered"}
                   /\ Outcome(r) = o /\ ~Skipped(r)}
      BY DEF Tallied, Served, Taken
  <2>2. ASSUME KInv, NEW w \in Workers, NEW o \in {"allowed", "denied"}
        PROVE  counts[w][o] = Cardinality(Tallied(w, o))
    <3>1. CASE o = "allowed" BY <2>2, <3>1 DEF KInv, Counted, Right
    <3>2. CASE o = "denied" BY <2>2, <3>2 DEF KInv, Counted, Right
    <3> QED BY <3>1, <3>2
  <2> QED BY <2>1, <2>2 DEF KInv, Counted, Right, OutcomesCounted
<1> QED BY <1>1, CountedInv, PTL

(* Without Slack, every request that a worker has answered is in its total, *)
(* as README.md has it: it is Slack alone that makes requests go uncounted. *)
THEOREM AllCounted ==
    ASSUME \A c \in Configs : ~c.slack
    PROVE  Spec => []EveryAnswerCounted
<1>1. Init => conf \in Configs BY DEF Init
<1>2. conf \in Configs /\ [Next]_vars => (conf \in Configs)'
    BY DEF Next, Take, Handle, Timed, Accept, QueryOpa, CreateEvent, ReadSlackSecret, PostDefault,
       PostNamespace, Post, Count, Answer, Raise, ApiTimeout, Die, Boot, vars
<1>3. KInv /\ conf \in Configs => EveryAnswerCounted
  <2> SUFFICES ASSUME KInv, conf \in Configs, NEW w \in Workers
               PROVE  Cardinality({r \in Requests : handler[r].at = w /\ At(r, "answered")})
                          <= counts[w].total
      BY DEF EveryAnswerCounted
  <2> DEFINE S == {r \in Requests : handler[r].at = w /\ At(r, "answered")}
  <2>1. S \in SUBSET Served(w) BY DEF Served, At, Taken
  <2>2. counts[w].total = Cardinality(Served(w)) BY TotalBound DEF KInv
  <2> QED BY <2>1, <2>2, Finite, FS_Subset
<1> QED BY <1>1, <1>2, <1>3, CountedInv, PTL DEF Spec

(* Every variable keeps its type, and no worker counts a request twice.     *)
THEOREM Typing == Spec => []TypeOK
<1> DEFINE Rest == /\ conf \in Configs /\ object \in Loads
                   /\ events \subseteq Requests /\ alerts \subseteq Alert
                   /\ faults \in 0 .. MaxFaults
<1>1. Init => Rest BY WebhookAssumption DEF Init
<1>2. ASSUME CInv, Rest, [Next]_vars PROVE Rest'
  <2>1. UNCHANGED <<conf, object>>
      BY <1>2 DEF Next, Take, Handle, Timed, Accept, QueryOpa, CreateEvent, ReadSlackSecret, PostDefault,
         PostNamespace, Post, Count, Answer, Raise, ApiTimeout, Die, Boot, vars
  <2>2. events' \subseteq Requests
      BY <1>2 DEF Next, Take, Handle, Timed, Accept, QueryOpa, CreateEvent, ReadSlackSecret, PostDefault,
         PostNamespace, Post, Count, Answer, Raise, ApiTimeout, Die, Boot, vars
  <2>3. alerts' \subseteq Alert
    <3>1. ASSUME NEW r \in Requests, NEW to \in {"default", "namespace"}
          PROVE  [of |-> r, to |-> to, denied |-> ~Allowed(handler[r].msg),
                  customer |-> handler[r].target] \in Alert
      <4>1. handler[r].target \in BOOLEAN BY <1>2 DEF CInv, IInv, Types, Handler
      <4>2. (~Allowed(handler[r].msg)) \in BOOLEAN BY DEF Allowed, AllowedAt
      <4> QED BY <4>1, <4>2, Zenon DEF Alert
    <3> QED BY <1>2, <3>1, NewAlerts
  <2>4. faults' \in 0 .. MaxFaults
    <3>1. faults' = faults \/ (faults < MaxFaults /\ faults' = faults + 1)
        BY <1>2 DEF Next, Take, Handle, Timed, Accept, QueryOpa, CreateEvent, ReadSlackSecret,
           PostDefault, PostNamespace, Post, Count, Answer, Raise, ApiTimeout, Die, Boot, vars
    <3> QED BY <1>2, <3>1, WebhookAssumption
  <2> QED BY <1>2, <2>1, <2>2, <2>3, <2>4
<1>3. KInv /\ Rest => TypeOK
  <2> SUFFICES ASSUME KInv, Rest PROVE TypeOK OBVIOUS
  <2>1. Types /\ Counted BY DEF KInv, CInv, IInv
  <2>2. ASSUME NEW w \in Workers PROVE counts[w].total <= Cardinality(Requests)
    <3>1. counts[w].total \in Nat /\ counts[w].total <= Cardinality(Served(w))
        BY <2>1, TotalBound
    <3>2. Cardinality(Requests) \in Nat BY FS_CardinalityType, WebhookAssumption
    <3> QED BY <3>1, <3>2, Finite
  <2> QED BY <2>1, <2>2 DEF Types, Counted, TypeOK
<1> QED BY <1>1, <1>2, <1>3, CountedInv, CourseInv, PTL DEF Spec
=============================================================================
