------------------------------ MODULE Webhook ------------------------------
(***************************************************************************)
(* The admission webhook, app/magtape/magtape.py: magtape() and what it     *)
(* calls.  Gunicorn runs it in several worker processes with several        *)
(* threads each (app/magtape/config.py); a thread handles one request of    *)
(* the API server.  Every call out of the process (OPA, the Kubernetes API, *)
(* Slack) is a step, and so is what the handler counts and answers at the   *)
(* end; the decision in between has no step of its own.                     *)
(*                                                                          *)
(* Abstraction.  A policy is an identifier with a severity, the message is  *)
(* the set of severities it names after "[FAIL]".  Time is counted in       *)
(* time-outs of the calls to OPA and to Slack (5 s each): the API server    *)
(* gives up after two of them, its default of 10 s.  The calls to the       *)
(* Kubernetes API have no time-out: they take any time and may never        *)
(* return.  A failed policy gives one reason.  Counters are not split by    *)
(* namespace and by policy.                                                 *)
(***************************************************************************)
EXTENDS DenyLevel, FiniteSets

CONSTANTS
    Requests,    \* admission requests
    Workers,     \* gunicorn worker processes
    Threads,     \* threads of a worker
    Policies,    \* the policies that OPA evaluates for an object
    Severity,    \* Severity[p]: the severity that policy p reports
    Configs,     \* environments the deployment may be given
    Loads,       \* what the requests may carry together
    None,        \* no worker
    MaxFaults    \* bound: exceptions and deaths of workers together

(* The environment variables read at start-up.  default: a default Slack   *)
(* URL is set.                                                             *)
Environment == [level : Levels, events : BOOLEAN,
                slack : BOOLEAN, passive : BOOLEAN, default : BOOLEAN]

(* owned: its first owner is a ReplicaSet.  fails: the policies it fails.  *)
Object == [owned : BOOLEAN, fails : SUBSET Policies]

ASSUME WebhookAssumption ==
    /\ IsFiniteSet(Requests) /\ IsFiniteSet(Policies) /\ None \notin Workers
    /\ Threads \in Nat \ {0} /\ MaxFaults \in Nat
    /\ Severity \in [Policies -> Severities]
    /\ Configs \subseteq Environment /\ Loads \subseteq [Requests -> Object]

VARIABLES
    conf,     \* the environment
    object,   \* object[r]: what request r carries
    handler,  \* handler[r]: the thread that handles r
    api,      \* api[r]: "pending", or what the API server did: "admitted", "rejected"
    events,   \* requests for which an event was handed to the Kubernetes API
    alerts,   \* alerts handed to Slack; of neither does the handler need an answer
    counts,   \* counts[w]: the Prometheus counters of worker w
    up,       \* the workers that run
    faults    \* faults so far

vars == <<conf, object, handler, api, events, alerts, counts, up, faults>>

Busy   == {"opa", "event", "secret", "post_default", "post_namespace", "count", "answer"}
Labels == Busy \cup {"new", "answered", "lost"}

(* pc: the next call.  at: the worker.  msg: response_message.  target:    *)
(* the namespace has a Slack URL of its own.  spent: time-outs so far.     *)
Handler == [pc : Labels, at : Workers \cup {None}, msg : SUBSET Severities,
            target : BOOLEAN, spent : 0 .. 2]

(* magtape_requests by count_type, and magtape_policy's pass and fail; the  *)
(* latter's total is incremented with each of them.                         *)
Counters == [allowed : Nat, denied : Nat, total : Nat, pass : Nat, fail : Nat]
Zero     == [allowed |-> 0, denied |-> 0, total |-> 0, pass |-> 0, fail |-> 0]

Alert == [of : Requests, to : {"default", "namespace"}, denied : BOOLEAN, customer : BOOLEAN]

Init ==
    /\ conf \in Configs
    /\ object \in Loads
    /\ handler = [r \in Requests |->
                    [pc |-> "new", at |-> None, msg |-> {}, target |-> FALSE, spent |-> 0]]
    /\ api = [r \in Requests |-> "pending"]
    /\ events = {} /\ alerts = {}
    /\ counts = [w \in Workers |-> Zero]
    /\ up = Workers
    /\ faults = 0

At(r, l)     == handler[r].pc = l
Become(r, h) == handler' = [handler EXCEPT ![r] = h]
Slower(n)    == IF n = 2 THEN 2 ELSE n + 1

-----------------------------------------------------------------------------
(* The decision *)

Allowed(msg) == AllowedAt(conf.level, msg)

(* Faulty variant: the alert is tied to a failure whatever the decision. *)
AlertDueOnFailure(msg) == msg # {} /\ (conf.passive \/ ~Allowed(msg))

(* alert_should_send is ~Allowed: both are set together. *)
AlertDue(msg) == (msg # {} /\ conf.passive) \/ ~Allowed(msg)

(* Faulty variant: children of a ReplicaSet are alerted for as well. *)
AfterEventForAll(r, msg) ==
    IF ~conf.slack THEN "count" ELSE IF AlertDue(msg) THEN "secret" ELSE "answer"

(* With Slack enabled, what is not alerted for is not counted either. *)
AfterEvent(r, msg) ==
    IF ~conf.slack THEN "count"
    ELSE IF ~object[r].owned /\ AlertDue(msg) THEN "secret" ELSE "answer"

AfterDecision(r, msg) ==
    IF conf.events /\ (msg # {} \/ ~Allowed(msg)) THEN "event" ELSE AfterEvent(r, msg)

-----------------------------------------------------------------------------
(* The API server's side *)

(* Faulty variant: failurePolicy Ignore. *)
GiveUpIgnoring(r) == IF api[r] = "pending" THEN "admitted" ELSE api[r]

(* failurePolicy Fail: a webhook that does not answer is a rejection. *)
GiveUp(r) == IF api[r] = "pending" THEN "rejected" ELSE api[r]

Occupied(w) == {r \in Requests : handler[r].at = w /\ handler[r].pc \in Busy}
Full(w)     == Cardinality(Occupied(w)) = Threads

(* The calls to the Kubernetes API, of no bounded length. *)
Untimed == {"event", "secret"}

(* A request may have to wait: no worker runs, or one whose threads are all *)
(* busy has accepted it.                                                    *)
Backlog == up = {} \/ \E w \in up : Full(w)

(* Ten seconds are over, in calls that timed out, in a call to the          *)
(* Kubernetes API or in the backlog.  The handler does not notice.          *)
ApiTimeout(r) ==
    /\ api[r] = "pending"
    /\ \/ handler[r].spent = 2
       \/ handler[r].pc \in Untimed
       \/ At(r, "new") /\ Backlog
    /\ api' = [api EXCEPT ![r] = GiveUp(r)]
    /\ UNCHANGED <<conf, object, handler, events, alerts, counts, up, faults>>

-----------------------------------------------------------------------------
(* The handler *)

(* A thread takes the request.  The child of a ReplicaSet is not evaluated. *)
Accept(r, w) ==
    /\ At(r, "new")
    /\ ~Full(w)
    /\ Become(r, [handler[r] EXCEPT !.at = w,
                      !.pc = IF object[r].owned THEN AfterDecision(r, {}) ELSE "opa"])
    /\ UNCHANGED <<conf, object, api, events, alerts, counts, up, faults>>

Reasons(r) == {Severity[p] : p \in object[r].fails}

Decide(r, msg, spent) ==
    Become(r, [handler[r] EXCEPT !.msg = msg, !.spent = spent, !.pc = AfterDecision(r, msg)])

(* The policies' answer: its reasons, counted by policy. *)
Judged(r) ==
    /\ Decide(r, Reasons(r), handler[r].spent)
    /\ counts' = [counts EXCEPT ![handler[r].at].fail = @ + Cardinality(object[r].fails),
                     ![handler[r].at].pass = @ + Cardinality(Policies \ object[r].fails)]

(* No answer, or one that is not 200, at once or after the time-out. *)
Unjudged(r, msg) ==
    /\ \E spent \in {handler[r].spent, Slower(handler[r].spent)} : Decide(r, msg, spent)
    /\ UNCHANGED counts

(* Faulty variant: without an answer there is nothing to report. *)
QueryOpaOrPass(r) ==
    /\ At(r, "opa")
    /\ Judged(r) \/ Unjudged(r, {})
    /\ UNCHANGED <<conf, object, api, events, alerts, up, faults>>

(* build_response_message.  No answer is a failure of severity HIGH. *)
QueryOpa(r) ==
    /\ At(r, "opa")
    /\ Judged(r) \/ Unjudged(r, {"HIGH"})
    /\ UNCHANGED <<conf, object, api, events, alerts, up, faults>>

(* send_k8s_event.  An ApiException is logged and passed over. *)
CreateEvent(r) ==
    /\ At(r, "event")
    /\ events' = events \cup {r}
    /\ Become(r, [handler[r] EXCEPT !.pc = AfterEvent(r, handler[r].msg)])
    /\ UNCHANGED <<conf, object, api, alerts, counts, up, faults>>

AfterDefault(target) == IF target THEN "post_namespace" ELSE "count"

(* get_namespace_slack.  No secret, no key, no URL and an ApiException are  *)
(* all "no target".  A default URL that is blank is skipped, though it      *)
(* counts as a target.                                                      *)
ReadSlackSecret(r) ==
    /\ At(r, "secret")
    /\ \E target \in BOOLEAN :
          Become(r, [handler[r] EXCEPT !.target = target,
                         !.pc = IF conf.default THEN "post_default" ELSE AfterDefault(target)])
    /\ UNCHANGED <<conf, object, api, events, alerts, counts, up, faults>>

(* Faulty variant: without its time-out a post may never return. *)
PostBlocking(r, to, next) ==
    /\ handler[r].spent < 2
    /\ alerts' = alerts \cup {[of |-> r, to |-> to, denied |-> ~Allowed(handler[r].msg),
                               customer |-> handler[r].target]}
    /\ \/ Become(r, [handler[r] EXCEPT !.pc = next])
       \/ Become(r, [handler[r] EXCEPT !.spent = 2])
    /\ UNCHANGED <<conf, object, api, events, counts, up, faults>>

(* send_slack_alert.  What becomes of the post is logged; it may time out. *)
Post(r, to, next) ==
    /\ alerts' = alerts \cup {[of |-> r, to |-> to, denied |-> ~Allowed(handler[r].msg),
                               customer |-> handler[r].target]}
    /\ \E spent \in {handler[r].spent, Slower(handler[r].spent)} :
          Become(r, [handler[r] EXCEPT !.spent = spent, !.pc = next])
    /\ UNCHANGED <<conf, object, api, events, counts, up, faults>>

PostDefault(r)   == At(r, "post_default") /\ Post(r, "default", AfterDefault(handler[r].target))
PostNamespace(r) == At(r, "post_namespace") /\ Post(r, "namespace", "count")

Outcome(r) == IF Allowed(handler[r].msg) THEN "allowed" ELSE "denied"

(* Faulty variant: the total once per outcome and once more at the end. *)
CountTwice(r) ==
    LET w == handler[r].at IN
    /\ At(r, "count")
    /\ counts' = [counts EXCEPT ![w][Outcome(r)] = @ + 1, ![w].total = @ + 2]
    /\ Become(r, [handler[r] EXCEPT !.pc = "answer"])
    /\ UNCHANGED <<conf, object, api, events, alerts, up, faults>>

(* Faulty variant: only what was alerted to the namespace counts as denied. *)
CountByTarget(r) ==
    LET w == handler[r].at IN
    /\ At(r, "count")
    /\ counts' = [counts EXCEPT ![w][IF handler[r].target THEN Outcome(r) ELSE "allowed"] = @ + 1,
                                ![w].total = @ + 1]
    /\ Become(r, [handler[r] EXCEPT !.pc = "answer"])
    /\ UNCHANGED <<conf, object, api, events, alerts, up, faults>>

(* The counters are the worker's own. *)
Count(r) ==
    LET w == handler[r].at IN
    /\ At(r, "count")
    /\ counts' = [counts EXCEPT ![w][Outcome(r)] = @ + 1, ![w].total = @ + 1]
    /\ Become(r, [handler[r] EXCEPT !.pc = "answer"])
    /\ UNCHANGED <<conf, object, api, events, alerts, up, faults>>

(* Faulty variant: in passive mode, what was alerted is let through. *)
AnswerPassive(r) ==
    /\ At(r, "answer")
    /\ Become(r, [handler[r] EXCEPT !.pc = "answered", !.spent = 0])
    /\ api' = [api EXCEPT ![r] = IF @ # "pending" THEN @
                  ELSE IF conf.passive \/ Allowed(handler[r].msg) THEN "admitted" ELSE "rejected"]
    /\ UNCHANGED <<conf, object, events, alerts, counts, up, faults>>

(* The response; too late, it is dropped.  Time no longer matters to it. *)
Answer(r) ==
    /\ At(r, "answer")
    /\ Become(r, [handler[r] EXCEPT !.pc = "answered", !.spent = 0])
    /\ api' = [api EXCEPT ![r] = IF @ # "pending" THEN @
                                 ELSE IF Allowed(handler[r].msg) THEN "admitted" ELSE "rejected"]
    /\ UNCHANGED <<conf, object, events, alerts, counts, up, faults>>

(* An exception nobody catches becomes a 500: an OPA answer without         *)
(* "decisions", a Kubernetes client that cannot be configured or connected, *)
(* a Slack secret without data or that is not base64.                       *)
Raise(r) ==
    /\ handler[r].pc \in {"opa", "event", "secret"}
    /\ faults < MaxFaults
    /\ faults' = faults + 1
    /\ Become(r, [handler[r] EXCEPT !.pc = "lost", !.spent = 0])
    /\ api' = [api EXCEPT ![r] = GiveUp(r)]
    /\ UNCHANGED <<conf, object, events, alerts, counts, up>>

(* A worker dies with its requests and its counters. *)
Die(w) ==
    /\ w \in up
    /\ faults < MaxFaults
    /\ faults' = faults + 1
    /\ up' = up \ {w}
    /\ handler' = [r \in Requests |-> IF handler[r].at # w THEN handler[r]
                      ELSE [handler[r] EXCEPT !.at = None, !.spent = 0,
                                !.pc = IF @ \in Busy THEN "lost" ELSE @]]
    /\ api' = [r \in Requests |-> IF r \in Occupied(w) THEN GiveUp(r) ELSE api[r]]
    /\ counts' = [counts EXCEPT ![w] = Zero]
    /\ UNCHANGED <<conf, object, events, alerts>>

(* Gunicorn's master starts another in its place. *)
Boot(w) ==
    /\ w \notin up
    /\ up' = up \cup {w}
    /\ UNCHANGED <<conf, object, handler, api, events, alerts, counts, faults>>

-----------------------------------------------------------------------------
Take(r) == \E w \in up : Accept(r, w)

Timed(r) ==
    QueryOpa(r) \/ PostDefault(r) \/ PostNamespace(r) \/ Count(r) \/ Answer(r)

Handle(r) == Timed(r) \/ CreateEvent(r) \/ ReadSlackSecret(r)

Next ==
    \/ \E r \in Requests : Take(r) \/ Handle(r) \/ Raise(r) \/ ApiTimeout(r)
    \/ \E w \in Workers : Die(w) \/ Boot(w)

Spec == Init /\ [][Next]_vars

(* A request that does not have to wait is taken, a thread goes on through  *)
(* all but the calls to the Kubernetes API, which may never return, the API *)
(* server's clock moves and a dead worker is replaced.  Faults are never    *)
(* owed.                                                                    *)
Fairness ==
    /\ \A r \in Requests :
          WF_vars(~Backlog /\ Take(r)) /\ WF_vars(Timed(r)) /\ WF_vars(ApiTimeout(r))
    /\ \A w \in Workers : WF_vars(Boot(w))

FairSpec == Spec /\ Fairness

-----------------------------------------------------------------------------
(* Properties *)

(* Every variable keeps its type, and no worker counts a request twice. *)
TypeOK ==
    /\ conf \in Configs /\ object \in Loads
    /\ handler \in [Requests -> Handler]
    /\ api \in [Requests -> {"pending", "admitted", "rejected"}]
    /\ events \subseteq Requests /\ alerts \subseteq Alert
    /\ counts \in [Workers -> Counters]
    /\ \A w \in Workers : counts[w].total <= Cardinality(Requests)
    /\ up \subseteq Workers /\ faults \in 0 .. MaxFaults

(* A child of a ReplicaSet passes with its parent; any other object when    *)
(* each policy it fails ranks below the deny level.                         *)
Passes(r) ==
    /\ conf.level # "other"
    /\ object[r].owned \/ \A p \in object[r].fails : ~Blocked(conf.level, Severity[p])

(* Only what passes is admitted, through an OPA that does not answer,       *)
(* exceptions, dying workers and an API server that gives up.               *)
FailsClosed == \A r \in Requests : api[r] = "admitted" => Passes(r)

(* The handler implements the promise of Admission: what passes is fixed    *)
(* when the request arrives, the alert goes out before the answer, and the  *)
(* answer agrees with it, also when OPA's silence was the reason to deny.   *)
Denied  == {a.of : a \in {b \in alerts : b.denied}}
Promise == INSTANCE Admission WITH
              passing <- {r \in Requests : Passes(r)}, announced <- Denied, verdict <- api

ImplementsAdmission == Promise!Spec

(* An alert that says "Policy Denial Detected" is never followed by the     *)
(* admission of that request, whatever happens between the post and the     *)
(* answer.                                                                  *)
DenialAlertTruthful ==
    \A a \in alerts : a.denied => api[a.of] # "admitted"

(* A denial that was answered was first reported: by an event where events  *)
(* are enabled and, where Slack is, to the default target and to the        *)
(* namespace's if there is one, with a note that the customer was told      *)
(* exactly when the namespace has a target.                                 *)
DenialReported ==
    \A r \in Requests : At(r, "answered") /\ ~Allowed(handler[r].msg) =>
        /\ conf.events => r \in events
        /\ conf.slack /\ ~object[r].owned =>
               \A to \in {"default", "namespace"} :
                   (IF to = "default" THEN conf.default ELSE handler[r].target) =>
                       [of |-> r, to |-> to, denied |-> TRUE, customer |-> handler[r].target] \in alerts

(* No alert without a reason: not for a child of a ReplicaSet, and for a    *)
(* request that is let through only if MAGTAPE_SLACK_PASSIVE asks for it    *)
(* and something failed.                                                    *)
AlertWarranted ==
    \A a \in alerts :
        /\ conf.slack /\ ~object[a.of].owned
        /\ ~a.denied => conf.passive /\ handler[a.of].msg # {}

(* With Slack enabled, a handler passes the counters by when no alert is    *)
(* due: always for a child of a ReplicaSet.                                 *)
Skipped(r) == conf.slack /\ (object[r].owned \/ ~AlertDue(handler[r].msg))

(* A worker's counters are exact.  Those of the allowed and of the denied   *)
(* requests number what it has taken to the answer since it started, less   *)
(* what was skipped, and total is their sum.                                *)
OutcomesCounted ==
    \A w \in Workers :
        /\ \A o \in {"allowed", "denied"} :
               counts[w][o] = Cardinality({r \in Requests :
                   /\ handler[r].at = w /\ handler[r].pc \in {"answer", "answered"}
                   /\ Outcome(r) = o /\ ~Skipped(r)})
        /\ counts[w].total = counts[w].allowed + counts[w].denied

(* Every request gets a verdict, though threads are few, calls time out,    *)
(* workers die and calls to the Kubernetes API may never return; and only   *)
(* such a call can hold a thread for good.                                  *)
Decided ==
    \A r \in Requests :
        <>(api[r] # "pending") /\ <>[](handler[r].pc \notin Busy \ Untimed)

(* Every request that a worker has answered is in its total.  README.md:    *)
(* the metrics track the number of requests passed, failed and total.       *)
(* It is so without Slack; with it, what is Skipped is missing.             *)
EveryAnswerCounted ==
    \A w \in Workers :
        Cardinality({r \in Requests : handler[r].at = w /\ At(r, "answered")}) <= counts[w].total
=============================================================================
