------------------------------ MODULE Rollout ------------------------------
(***************************************************************************)
(* A workload on its way to its pods, past MagTape's replicas.  The API     *)
(* server asks any ready replica about an object that the VWC selects; the  *)
(* replicas have each read their own deny level when they started, and      *)
(* kube-mgmt loads the policies into each one's OPA one by one.  Operators  *)
(* change the level, the namespace's label and the VWC meanwhile.  How one  *)
(* replica handles one request is Webhook's matter: here a verdict is one   *)
(* step, with every outcome that it can have there.                         *)
(*                                                                          *)
(* Abstraction.  There is one workload (workloads share nothing but the     *)
(* replicas), which wants one pod.                                          *)
(***************************************************************************)
EXTENDS DenyLevel, Policies

CONSTANTS
    Replicas,    \* MagTape's pods
    None,        \* no such object
    Specs,       \* Specs[k]: what may be applied of kind k, by name
    Owners,      \* Owners[k]: what its first ownerReference may say, or "none"
    Installed,   \* Installed[k]: the policies that are installed then
    MoreRules,   \* kinds that an operator adds to the rules of the VWC
    Offered,     \* deny levels that operators use
    MaxFaults,   \* bound: evictions and restarts of OPA together
    MaxChanges,  \* bound: what operators change
    MaxApplies   \* bound: applications of the workload

Kinds == Workloads \cup {"PodDisruptionBudget", "Service"}

(* The rules of the VWC. *)
Rules == {"Deployment", "StatefulSet", "DaemonSet", "Pod", "PodDisruptionBudget"} \cup MoreRules

Entrypoint == "entrypoint"

IsSpecOf(k, spec) ==
    /\ k \in Workloads => spec \in PodSpec
    /\ k = "PodDisruptionBudget" => IsPdbSpec(spec)
    /\ k = "Service" => spec \in ServiceSpec

ASSUME RolloutAssumption ==
    /\ Offered \subseteq Levels \ {"other"}
    /\ DOMAIN Specs \subseteq Kinds /\ MoreRules \subseteq Kinds
    /\ Installed \in [DOMAIN Specs -> SUBSET Policies]
    /\ \A k \in DOMAIN Specs :
          None \notin DOMAIN Specs[k] /\ \A spec \in DOMAIN Specs[k] : IsSpecOf(k, Specs[k][spec])
    /\ Entrypoint \notin Policies
    /\ MaxFaults \in Nat /\ MaxChanges \in Nat /\ MaxApplies \in Nat

VARIABLES
    kind,        \* the workload's kind
    level,       \* MAGTAPE_DENY_LEVEL in the configmap magtape-env
    labelled,    \* the workload's namespace has MagTape's label
    registered,  \* the VWC exists
    replica,     \* replica[m]: the stage, deny level and loaded policies of a replica
    stored,      \* the workload that was admitted, or None
    template,    \* what its controller has made of it: the newest ReplicaSet
    pod,         \* its pod
    refused,     \* what was refused just now and by whose answer, or None
    bounds       \* faults, changes and applies so far

vars == <<kind, level, labelled, registered, replica, stored, template, pod, refused, bounds>>
cluster  == <<kind, level, labelled, registered>>
workload == <<stored, template, pod>>

Gone == [pc |-> "gone", level |-> "OFF", loaded |-> {}]

Init ==
    /\ kind \in DOMAIN Specs
    /\ level \in Offered
    /\ labelled \in BOOLEAN /\ registered = TRUE
    /\ replica = [m \in Replicas |-> Gone]
    /\ stored = None /\ template = None /\ pod = None /\ refused = None
    /\ bounds = [faults |-> 0, changes |-> 0, applies |-> 0]

Spend(what, limit) ==
    /\ bounds[what] < limit
    /\ bounds' = [bounds EXCEPT ![what] = @ + 1]

-----------------------------------------------------------------------------
(* Admission *)

Ready == {m \in Replicas : replica[m].pc = "ready"}

(* Faulty variant: without the selector. *)
SelectedAll(namespace) == TRUE

(* namespaceSelector.  MagTape's own namespace has no label. *)
Selected(namespace) == namespace = "app" /\ labelled

Asked(namespace, o) == registered /\ o.kind \in Rules /\ Selected(namespace)

(* Faulty variants: whatever has an owner is skipped; nothing is. *)
SkippedOwned(o) == o.owner # "none"
SkippedNever(o) == FALSE

(* The first owner is a ReplicaSet: the parent was validated before. *)
Skipped(o) == o.owner = "ReplicaSet"

(* What the webhook has OPA evaluate. *)
Examined(namespace, o) == Asked(namespace, o) /\ ~Skipped(o)

Evaluates(m) == Entrypoint \in replica[m].loaded

(* The response message, from the policies' answers, or because the call to *)
(* OPA failed.  While OPA has no entrypoint it answers with an error, or    *)
(* with no decisions, which is an exception.                                *)
Findings(m, o) == {Severity[p] : p \in {p \in replica[m].loaded \ {Entrypoint} : Violates(p, o)}}
Unanswered     == {"HIGH"}

Messages(m, o) ==
    IF Skipped(o) THEN {{}}
    ELSE {Unanswered} \cup (IF Evaluates(m) THEN {Findings(m, o)} ELSE {})

Allows(m, msg) == AllowedAt(replica[m].level, msg)
Admits(m, o)   == \E msg \in Messages(m, o) : Allows(m, msg)

(* failurePolicy Fail: with no replica ready nothing is let in. *)
Admissible(namespace, o) == Asked(namespace, o) => \E m \in Ready : Admits(m, o)

(* An object is refused by the policies' answer, by that of a failed call   *)
(* to OPA, or, whatever it is, because no answer comes: no replica is       *)
(* ready, an exception, a worker that dies, the API server's time-out.      *)
Refusable(namespace, o, answer) ==
    /\ Asked(namespace, o)
    /\ \/ answer = "none"
       \/ \E m \in Ready :
             /\ ~Skipped(o)
             /\ \/ answer = "opa" /\ ~Allows(m, Unanswered)
                \/ answer = "policies" /\ Evaluates(m) /\ ~Allows(m, Findings(m, o))

(* The policies that m enforces on an object. *)
Enforced(m, o) ==
    {p \in replica[m].loaded \ {Entrypoint} :
        Evaluates(m) /\ Blocked(replica[m].level, Severity[p]) /\ o.kind \in Targets[p]}

(* What an admitted object may have been held to: a child of a ReplicaSet,  *)
(* to nothing of its own.                                                   *)
Held(o) ==
    IF ~Asked("app", o) \/ o.owner = "ReplicaSet" THEN {{}}
    ELSE {Enforced(m, o) : m \in {m \in Ready : Admits(m, o)}}

-----------------------------------------------------------------------------
(* The workload *)

Controlled == kind \in Workloads \ {"Pod"}
Owner      == IF kind = "Deployment" THEN "ReplicaSet" ELSE kind

Request       == [spec : DOMAIN Specs[kind], owner : Owners[kind]]
Applied(e)    == [kind |-> kind, owner |-> e.owner, spec |-> Specs[kind][e.spec]]
PodOf(spec)   == [kind |-> "Pod", owner |-> Owner, spec |-> Specs[kind][spec]]

Runs(entry) == pod # None /\ pod.spec = entry.spec

(* A user creates or updates the workload, or fails to; a pod is not        *)
(* updated.                                                                 *)
Apply ==
    /\ kind = "Pod" => stored = None
    /\ Spend("applies", MaxApplies)
    /\ \E e \in Request :
          \/ /\ Admissible("app", Applied(e))
             /\ \E held \in Held(Applied(e)) :
                   stored' = [spec |-> e.spec, owner |-> e.owner, held |-> held]
             /\ refused' = None
          \/ \E answer \in {"policies", "opa", "none"} :
                /\ Refusable("app", Applied(e), answer)
                /\ refused' = [spec |-> e.spec, owner |-> e.owner, answer |-> answer]
                /\ UNCHANGED stored
    /\ UNCHANGED <<cluster, replica, template, pod>>

(* The controller takes the workload over, a Deployment's by creating a     *)
(* ReplicaSet; the rules of the VWC do not list those.                      *)
Sync ==
    /\ Controlled /\ template # stored
    /\ template' = stored
    /\ refused' = None
    /\ UNCHANGED <<cluster, replica, stored, pod, bounds>>

(* It creates the pod, in the place of an older one, and tries again when   *)
(* the pod is refused.                                                      *)
CreatePod ==
    /\ template # None /\ ~Runs(template)
    /\ Admissible("app", PodOf(template.spec))
    /\ \E held \in Held(PodOf(template.spec)) :
          pod' = [spec |-> template.spec, held |-> IF Owner = "ReplicaSet" THEN template.held ELSE held]
    /\ refused' = None
    /\ UNCHANGED <<cluster, replica, stored, template, bounds>>

LosePod ==
    /\ pod # None
    /\ Spend("faults", MaxFaults)
    /\ pod' = None
    /\ refused' = None
    /\ UNCHANGED <<cluster, replica, stored, template>>

-----------------------------------------------------------------------------
(* MagTape's replicas *)

OwnPod == [kind |-> "Pod", owner |-> "ReplicaSet", spec |-> None]

(* Faulty variant: the replica's successor finds its policies loaded. *)
EvictKeeping(m) ==
    /\ replica[m] # Gone
    /\ Spend("faults", MaxFaults)
    /\ replica' = [replica EXCEPT ![m] = [Gone EXCEPT !.loaded = replica[m].loaded]]
    /\ refused' = None
    /\ UNCHANGED <<cluster, workload>>

Evict(m) ==
    /\ replica[m] # Gone
    /\ Spend("faults", MaxFaults)
    /\ replica' = [replica EXCEPT ![m] = Gone]
    /\ refused' = None
    /\ UNCHANGED <<cluster, workload>>

(* MagTape's own ReplicaSet puts another in its place. *)
Recreate(m) ==
    /\ replica[m].pc = "gone"
    /\ Admissible("magtape-system", OwnPod)
    /\ replica' = [replica EXCEPT ![m].pc = "starting"]
    /\ refused' = None
    /\ UNCHANGED <<cluster, workload, bounds>>

(* The init container has seen to the VWC, the environment is read, and     *)
(* /healthz answers, whatever OPA knows by then.                            *)
Start(m) ==
    /\ replica[m].pc = "starting"
    /\ replica' = [replica EXCEPT ![m] = [pc |-> "ready", level |-> level, loaded |-> {}]]
    /\ registered' = TRUE
    /\ refused' = None
    /\ UNCHANGED <<kind, level, labelled, workload, bounds>>

(* kube-mgmt puts the configmaps into OPA, in any order. *)
Load(m) ==
    /\ replica[m].pc = "ready"
    /\ \E x \in (Installed[kind] \cup {Entrypoint}) \ replica[m].loaded :
          replica' = [replica EXCEPT ![m].loaded = @ \cup {x}]
    /\ refused' = None
    /\ UNCHANGED <<cluster, workload, bounds>>

RestartOpa(m) ==
    /\ replica[m].loaded # {}
    /\ Spend("faults", MaxFaults)
    /\ replica' = [replica EXCEPT ![m].loaded = {}]
    /\ refused' = None
    /\ UNCHANGED <<cluster, workload>>

-----------------------------------------------------------------------------
(* Operators: another deny level, which replicas read when they start, the  *)
(* label set or removed, the VWC removed.                                   *)
Change ==
    /\ Spend("changes", MaxChanges)
    /\ \/ (\E l \in Offered \ {level} : level' = l) /\ UNCHANGED <<labelled, registered>>
       \/ labelled' = ~labelled /\ UNCHANGED <<level, registered>>
       \/ registered /\ registered' = FALSE /\ UNCHANGED <<level, labelled>>
    /\ refused' = None
    /\ UNCHANGED <<kind, replica, workload>>

ComeUp(m) == Recreate(m) \/ Start(m) \/ Load(m)

Next ==
    \/ Apply \/ Sync \/ CreatePod \/ LosePod \/ Change
    \/ \E m \in Replicas : ComeUp(m) \/ Evict(m) \/ RestartOpa(m)

Spec == Init /\ [][Next]_vars

(* Controllers, the kubelet and kube-mgmt go on.  A pod that is examined    *)
(* may be refused time and again, by calls to OPA that fail.                *)
Fairness ==
    /\ WF_vars(Sync)
    /\ WF_vars(CreatePod /\ ~Examined("app", PodOf(template.spec)))
    /\ \A m \in Replicas : WF_vars(ComeUp(m))

FairSpec == Spec /\ Fairness

-----------------------------------------------------------------------------
(* Properties *)

(* What was let in, and the pod. *)
Entry    == [spec : DOMAIN Specs[kind], owner : Owners[kind], held : SUBSET Installed[kind]]
PodEntry == [spec : DOMAIN Specs[kind], held : SUBSET Installed[kind]]
Refusal  == [spec : DOMAIN Specs[kind], owner : Owners[kind], answer : {"policies", "opa", "none"}]

(* Every variable keeps its type; a replica that is not ready has nothing   *)
(* loaded.                                                                  *)
TypeOK ==
    /\ kind \in DOMAIN Specs /\ level \in Offered
    /\ labelled \in BOOLEAN /\ registered \in BOOLEAN
    /\ replica \in [Replicas -> [pc : {"gone", "starting", "ready"}, level : Levels \ {"other"},
                                 loaded : SUBSET (Installed[kind] \cup {Entrypoint})]]
    /\ \A m \in Replicas : replica[m].pc # "ready" => replica[m].loaded = {}
    /\ {stored, template} \subseteq Entry \cup {None}
    /\ pod \in PodEntry \cup {None} /\ refused \in Refusal \cup {None}
    /\ bounds \in [faults : 0 .. MaxFaults, changes : 0 .. MaxChanges, applies : 0 .. MaxApplies]

(* A policy is complied with: as docs/policies.md asks, or as Tolerated. *)
Complies(p, o) == Meets(p, o) \/ Tolerated(p, o)

(* What runs is what was judged: a workload complies with each policy that  *)
(* the replica that let it in enforced; its pod complies with the same, if  *)
(* a ReplicaSet owns it, or else with each that it was held to itself;      *)
(* through updates, changes of the level and the label, replicas that come  *)
(* and go, and policies that are loaded late.  A ReplicaSet's pod is held   *)
(* to no more than its Deployment was: not to policies that only look at    *)
(* pods, nor to anything when nobody was asked about the Deployment.        *)
PodsAsJudged ==
    /\ stored # None => \A p \in stored.held : Complies(p, Applied(stored))
    /\ pod # None => \A p \in pod.held : Complies(p, PodOf(pod.spec))

(* The chain is as strong as the weakest ready replica, no weaker: what is  *)
(* examined and let in complies with all the policies that one of them      *)
(* enforces, and one whose OPA has no entrypoint yet lets something in only *)
(* at level OFF.                                                            *)
WeakestReplica ==
    [][stored' # stored /\ Examined("app", Applied(stored')) =>
         \E m \in Ready :
            /\ Evaluates(m) \/ replica[m].level = "OFF"
            /\ \A p \in Enforced(m, Applied(stored')) : Complies(p, Applied(stored'))]_vars

(* Nothing is refused without a cause, and the cause is the one given: what *)
(* the VWC does not select is never refused; what the policies' answer      *)
(* refuses does not meet, as docs/policies.md has it, a policy that a ready *)
(* replica enforces; and a failed call to OPA refuses nothing at level OFF. *)
RefusedForCause ==
    [][refused' # refused /\ refused' # None =>
         /\ Asked("app", Applied(refused'))
         /\ refused'.answer = "policies" =>
               \E m \in Ready : \E p \in Enforced(m, Applied(refused')) : ~Meets(p, Applied(refused'))
         /\ refused'.answer = "opa" => \E m \in Ready : replica[m].level # "OFF"]_vars

(* A Deployment that was let in gets its pods, though the level is raised,  *)
(* the namespace is labelled, and replicas and policies come and go         *)
(* between the two.                                                         *)
RolloutCompletes == kind = "Deployment" /\ stored # None ~> Runs(stored)

(* README.md, "Break Glass Scenarios": without the label any workload's     *)
(* pods are let in, also with no replica ready.                             *)
BreakGlass == Controlled /\ stored # None /\ ~labelled ~> labelled \/ Runs(stored)

(* Lost replicas come back and evaluate all policies, also when none is     *)
(* left that could be asked about their pods.                               *)
MagTapeReturns ==
    \A m \in Replicas :
        <>[](m \in Ready /\ replica[m].loaded = Installed[kind] \cup {Entrypoint})
=============================================================================
