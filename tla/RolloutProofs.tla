--------------------------- MODULE RolloutProofs ---------------------------
(***************************************************************************)
(* Proofs about Rollout, for any number of replicas, any workloads and any  *)
(* policies.  The policies are related to what docs/policies.md asks first, *)
(* then a replica's verdict to the policies; the invariant adds the         *)
(* controller's template, through which what was judged reaches the pod.    *)
(***************************************************************************)
EXTENDS Rollout, DenyLevelProofs

-----------------------------------------------------------------------------
(* The policies *)

(* A PDB that is not denied gives percentages in the ranges only. *)
LEMMA PdbMeets ==
    ASSUME NEW spec, IsPdbSpec(spec)
    PROVE  DeniesPdb(spec) <=> ~SurvivesZoneLoss(spec)
<1>1. DOMAIN Limits = {"minAvailable", "maxUnavailable"}
      /\ Limits["minAvailable"] = <<0, 66>> /\ Limits["maxUnavailable"] = <<33, 100>>
  BY DEF Limits
<1>2. DOMAIN Limits \cap DOMAIN spec = DOMAIN spec
  BY DEF IsPdbSpec
<1>3. ASSUME NEW name \in DOMAIN spec
      PROVE  WithinRange(spec[name].number, Limits[name])
             <=> spec[name].number \in IF name = "minAvailable" THEN 0 .. 66 ELSE 33 .. 100
  <2>1. spec[name].number \in Nat
    BY DEF IsPdbSpec
  <2>2. name \in {"minAvailable", "maxUnavailable"}
    BY <1>1 DEF IsPdbSpec
  <2> QED
    BY <1>1, <2>1, <2>2 DEF WithinRange
<1> QED
  BY <1>2, <1>3 DEF DeniesPdb, SurvivesZoneLoss

(* An emptyDir is denied unless its size is given in M, up to the limit,    *)
(* which is more than docs/policies.md lets in.                             *)
LEMMA EmptyDirMeets ==
    ASSUME NEW spec \in PodSpec
    PROVE  /\ DeniesEmptyDir(spec) <=> ~Sized(spec, 0 .. 100)
           /\ EphemeralStorageBounded(spec) => Sized(spec, 0 .. 100)
<1>1. \A v \in spec.volumes : v.size \in Nat
  BY DEF PodSpec, Volume
<1>2. \A n \in Nat : (n > SizeLimit <=> n \notin 0 .. 100) /\ (n \in 0 .. 99 => n \in 0 .. 100)
  BY DEF SizeLimit
<1> QED
  BY <1>1, <1>2 DEF DeniesEmptyDir, EphemeralStorageBounded, Sized

(* What survives the loss of a zone leaves room for an eviction where there *)
(* are three replicas or more.                                              *)
LEMMA ZoneLossLeavesRoom ==
    ASSUME NEW spec, SurvivesZoneLoss(spec), NEW n \in Nat, n >= 3
    PROVE  LeavesRoom(spec, n)
<1> SUFFICES ASSUME "minAvailable" \in DOMAIN spec
             PROVE  100 * n - spec["minAvailable"].number * n >= 100
  BY DEF LeavesRoom
<1> DEFINE x == spec["minAvailable"].number
<1>1. x \in 0 .. 66
  BY DEF SurvivesZoneLoss
<1> HIDE DEF x
<1>2. PICK y \in Nat : x + y = 66
  <2>1. 66 - x \in Nat /\ x + (66 - x) = 66
    BY <1>1
  <2> QED
    BY <2>1
<1>3. x * n + y * n = 66 * n /\ y * n \in Nat /\ x * n \in Nat
  BY <1>1, <1>2
<1>4. 100 * n - x * n >= 100
  BY <1>3
<1> QED
  BY <1>4 DEF x

(* A number that matches an entry is in the interval that the entry gives. *)
LEMMA RangeAllots ==
    ASSUME NEW entry \in Seq(Nat \cup {Blanks}) \ {<< >>}, NEW np \in Nat
    PROVE  RangeMatches(np, entry) <=> Complete(entry) /\ np \in Interval(entry)
<1> DEFINE part == Nat \cup {Blanks}
<1>1. Len(entry) \in Nat /\ Len(entry) # 0 /\ entry[1] \in part
  OBVIOUS
<1>2. part \subseteq Int
  BY DEF Blanks
<1>3. CASE Len(entry) = 1
  BY <1>1, <1>2, <1>3 DEF RangeMatches, Complete, Interval
<1>4. CASE Len(entry) > 1
  <2>1. entry[2] \in part
    BY <1>4
  <2> HIDE DEF part
  <2> QED
    BY <1>1, <1>2, <1>4, <2>1 DEF RangeMatches, Complete, Interval
<1>5. \A n \in Nat : n = 0 \/ n = 1 \/ n > 1
  OBVIOUS
<1> QED
  BY <1>1, <1>3, <1>4, <1>5

(* The nodePort policy lets in nothing but what the annotation allots, and  *)
(* all of it when the annotation is well-formed.                            *)
LEMMA NodePortMeets ==
    ASSUME NEW spec \in ServiceSpec
    PROVE  /\ ~DeniesNodePort(spec) => NodePortsAllotted(spec)
           /\ WellFormed(spec.annotation.entries) /\ NodePortsAllotted(spec) => ~DeniesNodePort(spec)
<1> DEFINE entries == spec.annotation.entries
           applies == spec.type = "NodePort" /\ spec.annotation.gives = "list"
<1>1. entries \in Seq(Seq(Nat \cup {Blanks}) \ {<< >>})
  BY DEF ServiceSpec, Annotation
<1>2. \A port \in spec.ports : port.nodePort \in Nat
  BY DEF ServiceSpec, Port
<1>3. DOMAIN entries = 1 .. Len(entries) /\ \A i \in 1 .. Len(entries) : entries[i] \in Seq(Nat \cup {Blanks}) \ {<< >>}
  BY <1>1
<1>4. \A np \in Nat : np \in Allowance(entries) <=> \E i \in DOMAIN entries : RangeMatches(np, entries[i])
  <2> SUFFICES ASSUME NEW np \in Nat
               PROVE  np \in Allowance(entries) <=> \E i \in DOMAIN entries : RangeMatches(np, entries[i])
    OBVIOUS
  <2>1. np \in Allowance(entries)
        <=> \E i \in 1 .. Len(entries) : Complete(entries[i]) /\ np \in Interval(entries[i])
    BY DEF Allowance
  <2> QED
    BY <1>3, <2>1, RangeAllots
<1>5. NodePortsAllotted(spec) <=> (applies => \A port \in spec.ports : port.nodePort \in Allowance(entries))
  BY DEF NodePortsAllotted
<1>6. DeniesNodePort(spec)
      <=> applies /\ \E port \in spec.ports :
                        WellFormed(entries) => ~\E i \in DOMAIN entries : RangeMatches(port.nodePort, entries[i])
  BY DEF DeniesNodePort
<1> HIDE DEF entries, applies
<1>7. ~DeniesNodePort(spec) => NodePortsAllotted(spec)
  BY <1>2, <1>4, <1>5, <1>6
<1>8. WellFormed(entries) /\ NodePortsAllotted(spec) => ~DeniesNodePort(spec)
  BY <1>2, <1>4, <1>5, <1>6
<1> QED
  BY <1>7, <1>8 DEF entries

(* An object as the policies expect it. *)
Typed(o) ==
    /\ o.kind \in Workloads => o.spec \in PodSpec
    /\ o.kind = "PodDisruptionBudget" => IsPdbSpec(o.spec)
    /\ o.kind = "Service" => o.spec \in ServiceSpec

WellAnnotated(o) == o.kind = "Service" => WellFormed(o.spec.annotation.entries)

LEMMA TargetKinds ==
    /\ \A p \in Policies : Targets[p] \subseteq Workloads \cup {"PodDisruptionBudget", "Service"}
    /\ \A p \in Policies : "PodDisruptionBudget" \in Targets[p] <=> p = "pdb"
    /\ \A p \in Policies : "Service" \in Targets[p] <=> p \in {"port_name_mismatch", "node_port_range"}
    /\ \A p \in Policies : Severity[p] \in Severities
BY DEF Policies, Targets, Workloads, Severity, Severities

(* An object that a policy does not deny complies with it, and what meets   *)
(* docs/policies.md is not denied, but for a service whose annotation is    *)
(* not well-formed, which is denied whatever its ports.                     *)
LEMMA PolicyMeets ==
    ASSUME NEW p \in Policies, NEW o, o.kind \in Targets[p], Typed(o)
    PROVE  /\ ~Denies(p, o) => Complies(p, o)
           /\ WellAnnotated(o) /\ Meets(p, o) => ~Denies(p, o)
<1> USE DEF Complies
<1>1. CASE p = "pdb"
  <2>1. IsPdbSpec(o.spec)
    BY <1>1, TargetKinds DEF Typed, Targets
  <2> QED
    BY <1>1, <2>1, PdbMeets DEF Denies, Meets
<1>2. CASE p = "node_port_range"
  <2>1. o.kind = "Service" /\ o.spec \in ServiceSpec
    BY <1>2 DEF Typed, Targets
  <2> QED
    BY <1>2, <2>1, NodePortMeets DEF Denies, Meets, WellAnnotated
<1>3. CASE p = "port_name_mismatch"
  BY <1>3 DEF Denies, Meets, DeniesPortName
<1>4. CASE p \notin {"pdb", "node_port_range", "port_name_mismatch"}
  <2>1. o.spec \in PodSpec
    BY <1>4 DEF Typed, Targets, Policies, Workloads
  <2>2. CASE p = "emptydir"
    BY <2>1, <2>2, EmptyDirMeets DEF Denies, Meets, Tolerated
  <2>3. CASE p \in {"resource_limits", "resource_requests"}
    <3>1. \A c \in o.spec.containers :
             c.limits \subseteq {"cpu", "memory"} /\ c.requests \subseteq {"cpu", "memory"}
      BY <2>1 DEF PodSpec, Container
    <3> QED
      BY <2>3, <3>1 DEF Denies, DeniesLimits, DeniesRequests, Meets
  <2>4. CASE p \notin {"emptydir", "resource_limits", "resource_requests"}
    BY <1>4, <2>4 DEF Denies, DeniesLiveness, DeniesReadiness, DeniesPrivileged, DeniesHostPort,
       DeniesHostPath, DeniesSingleton, Meets
  <2> QED
    BY <2>2, <2>3, <2>4
<1> QED
  BY <1>1, <1>2, <1>3, <1>4

(* What a workload complies with, its pod complies with too: they share     *)
(* their spec, and the pod is not alone.                                    *)
LEMMA ParentSuffices ==
    ASSUME NEW p, NEW e, Complies(p, Applied(e)), Owner # "none"
    PROVE  Complies(p, PodOf(e.spec))
<1>1. Applied(e).spec = PodOf(e.spec).spec /\ PodOf(e.spec).owner # "none"
  BY DEF Applied, PodOf
<1> QED
  BY <1>1 DEF Complies, Meets, Tolerated

-----------------------------------------------------------------------------
(* A verdict *)

KnownReplicas ==
    replica \in [Replicas -> [pc : {"gone", "starting", "ready"}, level : Levels \ {"other"},
                              loaded : SUBSET (Installed[kind] \cup {Entrypoint})]]

(* What the policies' answer allows is exactly what no policy denies that   *)
(* the replica enforces; without an answer only level OFF allows anything.  *)
LEMMA Verdict ==
    ASSUME KnownReplicas, kind \in DOMAIN Specs, NEW m \in Replicas, NEW o, ~Skipped(o)
    PROVE  /\ Evaluates(m) => (Allows(m, Findings(m, o)) <=> \A p \in Enforced(m, o) : ~Denies(p, o))
           /\ Allows(m, Unanswered) <=> replica[m].level = "OFF"
           /\ Admits(m, o) => Evaluates(m) \/ replica[m].level = "OFF"
           /\ Admits(m, o) => \A p \in Enforced(m, o) : ~Denies(p, o)
           /\ Enforced(m, o) \subseteq {p \in Policies : o.kind \in Targets[p]}
<1> DEFINE lv == replica[m].level
           found == {p \in replica[m].loaded \ {Entrypoint} : Violates(p, o)}
<1>1. lv \in {"OFF", "LOW", "MED", "HIGH"}
  BY DEF KnownReplicas, Levels
<1>2. replica[m].loaded \ {Entrypoint} \subseteq Policies
  <2>1. replica[m].loaded \subseteq Installed[kind] \cup {Entrypoint}
    BY DEF KnownReplicas
  <2>2. Installed[kind] \subseteq Policies
    BY RolloutAssumption
  <2> QED
    BY <2>1, <2>2
<1>3. ASSUME Evaluates(m)
      PROVE  Allows(m, Findings(m, o)) <=> \A p \in Enforced(m, o) : ~Denies(p, o)
  <2>1. Findings(m, o) = {Severity[p] : p \in found}
    BY DEF Findings
  <2>2. Findings(m, o) \in SUBSET Severities
    BY <1>2, <2>1, TargetKinds
  <2>3. Allows(m, Findings(m, o)) <=> \A s \in Findings(m, o) : ~Blocked(lv, s)
    BY <1>1, <2>2, AllowsUnlessBlocked DEF Allows
  <2>4. (\A s \in Findings(m, o) : ~Blocked(lv, s)) <=> \A p \in found : ~Blocked(lv, Severity[p])
    BY <2>1
  <2>5. Enforced(m, o) = {p \in replica[m].loaded \ {Entrypoint} : o.kind \in Targets[p] /\ Blocked(lv, Severity[p])}
    BY <1>3 DEF Enforced
  <2> QED
    BY <2>3, <2>4, <2>5 DEF Violates
<1>4. Allows(m, Unanswered) <=> lv = "OFF"
  BY <1>1 DEF Allows, Unanswered, AllowedAt, DenyList, Severities
<1>5. Enforced(m, o) \subseteq {p \in Policies : o.kind \in Targets[p]}
  BY <1>2 DEF Enforced
<1>6. Admits(m, o) => Allows(m, Unanswered) \/ (Evaluates(m) /\ Allows(m, Findings(m, o)))
  BY DEF Admits, Messages
<1>7. lv = "OFF" => Enforced(m, o) = {}
  <2>1. lv = "OFF" => \A p \in Policies : ~Blocked(lv, Severity[p])
    BY TargetKinds DEF Blocked, Rank, Threshold, Severities
  <2> QED
    BY <1>2, <2>1 DEF Enforced
<1> QED
  BY <1>3, <1>4, <1>5, <1>6, <1>7

(* What an object may be held to, it complies with. *)
LEMMA HeldMeets ==
    ASSUME KnownReplicas, kind \in DOMAIN Specs, NEW o, Typed(o),
           NEW held \in Held(o), NEW p \in held
    PROVE  Complies(p, o)
<1>1. PICK m \in Ready : Admits(m, o) /\ held = Enforced(m, o)
  BY DEF Held
<1>2. m \in Replicas /\ ~Skipped(o)
  BY <1>1 DEF Ready, Held, Skipped
<1>3. p \in Policies /\ o.kind \in Targets[p] /\ ~Denies(p, o)
  BY <1>1, <1>2, Verdict
<1> QED
  BY <1>3, PolicyMeets

-----------------------------------------------------------------------------
(* The invariant *)

(* What was let in complies with what it was held to; the template is the   *)
(* workload of some moment, so that the same is true of it.                 *)
JudgedAs(entry) == entry # None => \A p \in entry.held : Complies(p, Applied(entry))
PodJudged       == pod # None => \A p \in pod.held : Complies(p, PodOf(pod.spec))

IInv ==
    /\ TypeOK
    /\ template # None => Controlled
    /\ JudgedAs(stored) /\ JudgedAs(template) /\ PodJudged

(* Every request is for an object of its kind, and so is the pod that a     *)
(* controller makes of it.                                                  *)
LEMMA Applicable ==
    ASSUME TypeOK, NEW e, e.spec \in DOMAIN Specs[kind]
    PROVE  /\ Typed(Applied(e)) /\ Applied(e).kind = kind
           /\ Controlled => Typed(PodOf(e.spec))
<1>1. IsSpecOf(kind, Specs[kind][e.spec]) /\ kind \in Kinds
  BY RolloutAssumption DEF TypeOK
<1> QED
  BY <1>1 DEF IsSpecOf, Typed, Applied, PodOf, Controlled, Workloads

(* Held policies are installed. *)
LEMMA HeldInstalled ==
    ASSUME TypeOK, NEW o, NEW held \in Held(o)
    PROVE  held \in SUBSET Installed[kind]
BY DEF TypeOK, Held, Enforced, Ready

LEMMA InitInv == Init => IInv
<1> SUFFICES ASSUME Init PROVE IInv
  OBVIOUS
<1>1. Gone \in [pc : {"gone", "starting", "ready"}, level : Levels \ {"other"},
                loaded : SUBSET (Installed[kind] \cup {Entrypoint})]
  BY DEF Gone, Levels
<1>2. TypeOK
  BY <1>1, RolloutAssumption DEF Init, TypeOK, Gone
<1> QED
  BY <1>2 DEF Init, IInv, JudgedAs, PodJudged

(* What is spent stays within its bound. *)
BoundsOK == bounds \in [faults : 0 .. MaxFaults, changes : 0 .. MaxChanges, applies : 0 .. MaxApplies]

LEMMA SpendBounds ==
    ASSUME BoundsOK
    PROVE  /\ Spend("faults", MaxFaults) => BoundsOK'
           /\ Spend("changes", MaxChanges) => BoundsOK'
           /\ Spend("applies", MaxApplies) => BoundsOK'
<1>1. bounds.faults \in 0 .. MaxFaults /\ bounds.changes \in 0 .. MaxChanges /\ bounds.applies \in 0 .. MaxApplies
  BY DEF BoundsOK
<1>2. \A n, max \in Nat : n < max => n + 1 \in 0 .. max
  OBVIOUS
<1> QED
  BY <1>1, <1>2, RolloutAssumption DEF Spend, BoundsOK

(* A replica's record goes from one of the type to another. *)
LEMMA ReplicaStep ==
    ASSUME TypeOK, NEW m \in Replicas, NEW r,
           replica' = [replica EXCEPT ![m] = r], kind' = kind,
           r \in [pc : {"gone", "starting", "ready"}, level : Levels \ {"other"},
                  loaded : SUBSET (Installed[kind] \cup {Entrypoint})],
           r.pc # "ready" => r.loaded = {}
    PROVE  /\ KnownReplicas'
           /\ \A n \in Replicas : replica'[n].pc # "ready" => replica'[n].loaded = {}
<1>1. replica \in [Replicas -> [pc : {"gone", "starting", "ready"}, level : Levels \ {"other"},
                                loaded : SUBSET (Installed[kind] \cup {Entrypoint})]]
  BY DEF TypeOK
<1>2. KnownReplicas'
  BY <1>1 DEF KnownReplicas
<1>3. \A n \in Replicas : replica'[n] = IF n = m THEN r ELSE replica[n]
  BY <1>1
<1> QED
  BY <1>2, <1>3 DEF TypeOK

(* Every step of a replica keeps the types. *)
LEMMA ReplicaTypes ==
    ASSUME TypeOK, NEW m \in Replicas, ComeUp(m) \/ Evict(m) \/ RestartOpa(m)
    PROVE  TypeOK' /\ UNCHANGED <<kind, workload>>
<1> DEFINE Record == [pc : {"gone", "starting", "ready"}, level : Levels \ {"other"},
                      loaded : SUBSET (Installed[kind] \cup {Entrypoint})]
           old == replica[m]
<1>1. old \in Record /\ (old.pc # "ready" => old.loaded = {})
  BY DEF TypeOK
<1>2. UNCHANGED <<kind, level, labelled, workload>> /\ refused' = None
  BY DEF ComeUp, Recreate, Start, Load, Evict, RestartOpa, cluster
<1>3. registered' \in BOOLEAN
  BY DEF TypeOK, ComeUp, Recreate, Start, Load, Evict, RestartOpa, cluster
<1>4. BoundsOK'
  BY SpendBounds DEF TypeOK, BoundsOK, ComeUp, Recreate, Start, Load, Evict, RestartOpa
<1>5. \E r \in Record : (r.pc # "ready" => r.loaded = {}) /\ replica' = [replica EXCEPT ![m] = r]
  <2>1. CASE Evict(m)
    <3>1. Gone \in Record /\ Gone.loaded = {}
      BY DEF Gone, Levels
    <3> QED
      BY <2>1, <3>1 DEF Evict
  <2>2. CASE Recreate(m)
    <3>1. [old EXCEPT !.pc = "starting"] \in Record /\ [old EXCEPT !.pc = "starting"].loaded = {}
      BY <1>1, <2>2 DEF Recreate
    <3>2. replica' = [replica EXCEPT ![m] = [old EXCEPT !.pc = "starting"]]
      BY <2>2 DEF Recreate
    <3> QED
      BY <3>1, <3>2
  <2>3. CASE Start(m)
    <3>1. level \in Levels \ {"other"}
      BY RolloutAssumption DEF TypeOK
    <3>2. [pc |-> "ready", level |-> level, loaded |-> {}] \in Record
      BY <3>1
    <3> QED
      BY <2>3, <3>2 DEF Start
  <2>4. CASE Load(m)
    <3>1. PICK x \in Installed[kind] \cup {Entrypoint} : replica' = [replica EXCEPT ![m].loaded = @ \cup {x}]
      BY <2>4 DEF Load
    <3>2. [old EXCEPT !.loaded = @ \cup {x}] \in Record /\ [old EXCEPT !.loaded = @ \cup {x}].pc = "ready"
      BY <1>1, <2>4 DEF Load
    <3>3. replica' = [replica EXCEPT ![m] = [old EXCEPT !.loaded = @ \cup {x}]]
      BY <3>1
    <3> QED
      BY <3>2, <3>3
  <2>5. CASE RestartOpa(m)
    <3>1. [old EXCEPT !.loaded = {}] \in Record /\ [old EXCEPT !.loaded = {}].loaded = {}
      BY <1>1
    <3>2. replica' = [replica EXCEPT ![m] = [old EXCEPT !.loaded = {}]]
      BY <2>5 DEF RestartOpa
    <3> QED
      BY <3>1, <3>2
  <2> QED
    BY <2>1, <2>2, <2>3, <2>4, <2>5 DEF ComeUp
<1>6. KnownReplicas' /\ \A n \in Replicas : replica'[n].pc # "ready" => replica'[n].loaded = {}
  <2> HIDE DEF old
  <2>1. PICK r \in Record : (r.pc # "ready" => r.loaded = {}) /\ replica' = [replica EXCEPT ![m] = r]
    BY <1>5
  <2> QED
    BY <1>2, <2>1, ReplicaStep
<1> QED
  BY <1>2, <1>3, <1>4, <1>6 DEF TypeOK, KnownReplicas, BoundsOK, Entry, PodEntry, workload

(* A workload is let in with policies that it complies with. *)
LEMMA ApplyInv ==
    ASSUME IInv, Apply
    PROVE  IInv'
<1>1. TypeOK
  BY DEF IInv
<1>2. BoundsOK'
  BY <1>1, SpendBounds DEF TypeOK, BoundsOK, Apply
<1>3. UNCHANGED <<cluster, replica, template, pod>>
  BY DEF Apply
<1>4. CASE UNCHANGED stored /\ refused' \in Refusal \cup {None}
  <2>1. TypeOK'
    BY <1>1, <1>2, <1>3, <1>4 DEF TypeOK, BoundsOK, Entry, PodEntry, Refusal, cluster
  <2> QED
    BY <1>3, <1>4, <2>1 DEF IInv, JudgedAs, PodJudged, Complies, Applied, PodOf, Owner, Controlled, cluster
<1>5. ASSUME NEW e \in Request, NEW held \in Held(Applied(e)),
             stored' = [spec |-> e.spec, owner |-> e.owner, held |-> held],
             refused' = None
      PROVE  IInv'
  <2>1. stored' \in Entry
    BY <1>1, <1>5, HeldInstalled DEF Entry, Request
  <2>2. TypeOK'
    BY <1>1, <1>2, <1>3, <1>5, <2>1 DEF TypeOK, BoundsOK, Entry, PodEntry, Refusal, cluster
  <2>3. e.spec \in DOMAIN Specs[kind]
    BY DEF Request
  <2>4. \A p \in held : Complies(p, Applied(e))
    BY <1>1, <2>3, HeldMeets, Applicable DEF TypeOK, KnownReplicas
  <2>5. Applied(stored)' = Applied(e) /\ stored'.held = held
    BY <1>3, <1>5 DEF Applied, cluster
  <2>6. JudgedAs(stored)'
    BY <2>4, <2>5 DEF JudgedAs, Complies, Meets, Tolerated
  <2> QED
    BY <1>3, <2>2, <2>6 DEF IInv, JudgedAs, PodJudged, Complies, Applied, PodOf, Owner, Controlled, cluster
<1>6. CASE \E e \in Request, answer \in {"policies", "opa", "none"} :
              /\ refused' = [spec |-> e.spec, owner |-> e.owner, answer |-> answer]
              /\ UNCHANGED stored
  BY <1>4, <1>6 DEF Refusal, Request
<1>7. CASE \E e \in Request : \E held \in Held(Applied(e)) :
              /\ stored' = [spec |-> e.spec, owner |-> e.owner, held |-> held]
              /\ refused' = None
  BY <1>5, <1>7
<1>8. \E e \in Request :
         \/ /\ \E held \in Held(Applied(e)) :
                 stored' = [spec |-> e.spec, owner |-> e.owner, held |-> held]
            /\ refused' = None
         \/ \E answer \in {"policies", "opa", "none"} :
                 /\ refused' = [spec |-> e.spec, owner |-> e.owner, answer |-> answer]
                 /\ UNCHANGED stored
  BY DEF Apply
<1> QED
  BY <1>6, <1>7, <1>8

LEMMA SyncInv ==
    ASSUME IInv, Sync
    PROVE  IInv'
<1>1. TypeOK'
  BY DEF IInv, Sync, TypeOK, Entry, PodEntry, cluster
<1> QED
  BY <1>1 DEF IInv, Sync, JudgedAs, PodJudged, Complies, Applied, PodOf, Owner, Controlled, cluster

(* A pod is created under the policies that it was held to, or that its     *)
(* template was.                                                            *)
LEMMA CreatePodInv ==
    ASSUME IInv, CreatePod
    PROVE  IInv'
<1> DEFINE spec == template.spec
<1>1. TypeOK /\ template \in Entry /\ Controlled
  BY DEF IInv, TypeOK, CreatePod
<1>2. spec \in DOMAIN Specs[kind] /\ template.held \in SUBSET Installed[kind]
  BY <1>1 DEF Entry
<1>3. PICK held \in Held(PodOf(spec)) :
         pod' = [spec |-> spec, held |-> IF Owner = "ReplicaSet" THEN template.held ELSE held]
  BY DEF CreatePod
<1>4. UNCHANGED <<cluster, replica, stored, template, bounds>> /\ refused' = None
  BY DEF CreatePod
<1>5. pod' \in PodEntry
  BY <1>1, <1>2, <1>3, HeldInstalled DEF PodEntry
<1>6. TypeOK'
  BY <1>1, <1>4, <1>5 DEF TypeOK, Entry, PodEntry, cluster
<1>7. \A p \in pod'.held : Complies(p, PodOf(spec))
  <2>1. CASE Owner = "ReplicaSet"
    <3>1. \A p \in template.held : Complies(p, Applied(template))
      BY <1>1, RolloutAssumption DEF IInv, JudgedAs, CreatePod
    <3>2. \A p \in template.held : Complies(p, PodOf(template.spec))
      BY <2>1, <3>1, ParentSuffices
    <3> QED
      BY <1>3, <2>1, <3>2
  <2>2. CASE Owner # "ReplicaSet"
    <3>1. Typed(PodOf(spec))
      BY <1>1, <1>2, Applicable
    <3>2. KnownReplicas /\ kind \in DOMAIN Specs
      BY <1>1 DEF TypeOK, KnownReplicas
    <3> HIDE DEF spec
    <3> QED
      BY <1>3, <2>2, <3>1, <3>2, HeldMeets
  <2> QED
    BY <2>1, <2>2
<1>8. PodJudged'
  BY <1>3, <1>4, <1>7 DEF PodJudged, Complies, PodOf, Owner, cluster
<1> QED
  BY <1>4, <1>6, <1>8 DEF IInv, JudgedAs, Complies, Applied, Controlled, cluster

LEMMA OtherInv ==
    ASSUME IInv, LosePod \/ Change \/ UNCHANGED vars
    PROVE  IInv'
<1>1. TypeOK
  BY DEF IInv
<1>2. BoundsOK'
  BY <1>1, SpendBounds DEF TypeOK, BoundsOK, LosePod, Change, vars
<1>3. /\ UNCHANGED <<kind, replica, stored, template>>
      /\ pod' \in {pod, None} /\ refused' \in {refused, None}
  BY DEF LosePod, Change, vars, cluster, workload
<1>4. level' \in Offered /\ labelled' \in BOOLEAN /\ registered' \in BOOLEAN
  BY <1>1 DEF TypeOK, LosePod, Change, vars, cluster
<1>5. TypeOK'
  BY <1>1, <1>2, <1>3, <1>4 DEF TypeOK, BoundsOK, Entry, PodEntry, Refusal
<1> QED
  BY <1>3, <1>5 DEF IInv, JudgedAs, PodJudged, Complies, Applied, PodOf, Owner, Controlled

LEMMA NextInv ==
    ASSUME IInv, [Next]_vars
    PROVE  IInv'
<1>1. ASSUME NEW m \in Replicas, ComeUp(m) \/ Evict(m) \/ RestartOpa(m)
      PROVE  IInv'
  <2>1. TypeOK' /\ UNCHANGED <<kind, workload>>
    BY <1>1, ReplicaTypes DEF IInv
  <2> QED
    BY <2>1 DEF IInv, JudgedAs, PodJudged, Complies, Applied, PodOf, Owner, Controlled, workload
<1> QED
  BY <1>1, ApplyInv, SyncInv, CreatePodInv, OtherInv DEF Next

-----------------------------------------------------------------------------
(* The theorems *)

(* Every variable keeps its type. *)
THEOREM Typing == Spec => []TypeOK
<1>1. IInv => TypeOK
  BY DEF IInv
<1> QED
  BY <1>1, InitInv, NextInv, PTL DEF Spec

(* What runs is what was judged, for any number of replicas: a workload     *)
(* complies with what the replica that let it in enforced, and its pod with *)
(* that or with what it was held to itself.                                 *)
THEOREM Judged == Spec => []PodsAsJudged
<1>1. IInv => PodsAsJudged
  BY DEF IInv, JudgedAs, PodJudged, PodsAsJudged
<1> QED
  BY <1>1, InitInv, NextInv, PTL DEF Spec

(* A PDB that was held to its policy leaves room for an eviction in every   *)
(* workload of three replicas or more, by the rule of docs/policies.md.     *)
THEOREM RoomLeft ==
    Spec => [](stored # None /\ "pdb" \in stored.held =>
                 \A n \in Nat : n >= 3 => LeavesRoom(Applied(stored).spec, n))
<1>1. ASSUME IInv, stored # None, "pdb" \in stored.held, NEW n \in Nat, n >= 3
      PROVE  LeavesRoom(Applied(stored).spec, n)
  <2>1. Complies("pdb", Applied(stored))
    BY <1>1 DEF IInv, JudgedAs
  <2>2. SurvivesZoneLoss(Applied(stored).spec)
    BY <2>1 DEF Complies, Meets, Tolerated
  <2> QED
    BY <1>1, <2>2, ZoneLossLeavesRoom
<1>2. IInv => (stored # None /\ "pdb" \in stored.held =>
                 \A n \in Nat : n >= 3 => LeavesRoom(Applied(stored).spec, n))
  BY <1>1
<1> QED
  BY <1>2, InitInv, NextInv, PTL DEF Spec

(* What is examined and let in complies with all that one ready replica     *)
(* enforces, whatever the others do.                                        *)
THEOREM Strength == Spec => WeakestReplica
<1> DEFINE Strong(o) ==
        \E m \in Ready :
            /\ Evaluates(m) \/ replica[m].level = "OFF"
            /\ \A p \in Enforced(m, o) : Complies(p, o)
<1>1. ASSUME IInv, Next, stored' # stored, Examined("app", Applied(stored'))
      PROVE  Strong(Applied(stored'))
  <2>1. Apply
    BY <1>1 DEF Next, Sync, CreatePod, LosePod, Change, ComeUp, Recreate, Start, Load, Evict, RestartOpa, workload
  <2>2. PICK e \in Request :
           /\ Admissible("app", Applied(e))
           /\ stored'.spec = e.spec /\ stored'.owner = e.owner
    BY <1>1, <2>1 DEF Apply
  <2> DEFINE o == Applied(e)
  <2>3. Applied(stored') = o /\ e.spec \in DOMAIN Specs[kind]
    BY <2>2 DEF Applied, Request
  <2>4. PICK m \in Ready : Admits(m, o)
    BY <1>1, <2>2, <2>3 DEF Admissible, Examined
  <2>5. TypeOK /\ KnownReplicas /\ kind \in DOMAIN Specs /\ m \in Replicas
    BY <1>1, <2>4 DEF IInv, TypeOK, KnownReplicas, Ready
  <2>6. Typed(o) /\ ~Skipped(o)
    BY <1>1, <2>3, <2>5, Applicable DEF Examined
  <2> HIDE DEF o
  <2>7. Evaluates(m) \/ replica[m].level = "OFF"
    BY <2>4, <2>5, <2>6, Verdict
  <2>8. \A p \in Enforced(m, o) : Complies(p, o)
    BY <2>4, <2>5, <2>6, Verdict, PolicyMeets
  <2> QED
    BY <2>3, <2>4, <2>7, <2>8
<1>2. IInv /\ [Next]_vars =>
        [stored' # stored /\ Examined("app", Applied(stored')) => Strong(Applied(stored'))]_vars
  BY <1>1
<1> QED
  BY <1>2, InitInv, NextInv, PTL DEF Spec, WeakestReplica

AnnotationsWellFormed ==
    \A k \in DOMAIN Specs : \A spec \in DOMAIN Specs[k] :
        k = "Service" => WellFormed(Specs[k][spec].annotation.entries)

(* Nothing is refused but for the cause that is given, as long as the       *)
(* annotations of the namespaces are well-formed: when one is not, each of  *)
(* its services is refused.                                                 *)
THEOREM Causes == AnnotationsWellFormed /\ Spec => RefusedForCause
<1> DEFINE Caused(o, answer) ==
        /\ Asked("app", o)
        /\ answer = "policies" => \E m \in Ready : \E p \in Enforced(m, o) : ~Meets(p, o)
        /\ answer = "opa" => \E m \in Ready : replica[m].level # "OFF"
<1>1. ASSUME AnnotationsWellFormed, IInv, Next, refused' # refused, refused' # None
      PROVE  Caused(Applied(refused'), refused'.answer)
  <2>1. Apply
    BY <1>1 DEF Next, Sync, CreatePod, LosePod, Change, ComeUp, Recreate, Start, Load, Evict, RestartOpa, workload
  <2>2. PICK e \in Request, answer \in {"policies", "opa", "none"} :
           /\ Refusable("app", Applied(e), answer)
           /\ refused' = [spec |-> e.spec, owner |-> e.owner, answer |-> answer]
    BY <1>1, <2>1 DEF Apply
  <2> DEFINE o == Applied(e)
  <2>3. Applied(refused') = o /\ refused'.answer = answer /\ e.spec \in DOMAIN Specs[kind]
    BY <2>2 DEF Applied, Request
  <2>4. TypeOK /\ KnownReplicas /\ kind \in DOMAIN Specs
    BY <1>1 DEF IInv, TypeOK, KnownReplicas
  <2>5. Typed(o) /\ o.kind = kind
    BY <2>3, <2>4, Applicable
  <2>6. WellAnnotated(o)
    BY <1>1, <2>3, <2>4, <2>5 DEF AnnotationsWellFormed, WellAnnotated, Applied
  <2>7. Refusable("app", o, answer)
    BY <2>2
  <2> HIDE DEF o
  <2>8. ASSUME answer = "policies"
        PROVE  \E m \in Ready : \E p \in Enforced(m, o) : ~Meets(p, o)
    <3>1. PICK m \in Ready : ~Skipped(o) /\ Evaluates(m) /\ ~Allows(m, Findings(m, o))
      BY <2>7, <2>8 DEF Refusable
    <3>2. m \in Replicas
      BY DEF Ready
    <3>3. PICK p \in Enforced(m, o) : Denies(p, o)
      BY <2>4, <3>1, <3>2, Verdict
    <3>4. ~Meets(p, o)
      BY <2>4, <2>5, <2>6, <3>1, <3>2, <3>3, Verdict, PolicyMeets
    <3> QED
      BY <3>4
  <2>9. ASSUME answer = "opa"
        PROVE  \E m \in Ready : replica[m].level # "OFF"
    <3>1. PICK m \in Ready : ~Skipped(o) /\ ~Allows(m, Unanswered)
      BY <2>7, <2>9 DEF Refusable
    <3>2. m \in Replicas
      BY DEF Ready
    <3> QED
      BY <2>4, <3>1, <3>2, Verdict
  <2>10. Asked("app", o)
    BY <2>7 DEF Refusable
  <2> QED
    BY <2>3, <2>8, <2>9, <2>10
<1>2. AnnotationsWellFormed /\ IInv /\ [Next]_vars =>
        [refused' # refused /\ refused' # None => Caused(Applied(refused'), refused'.answer)]_vars
  BY <1>1
<1>3. AnnotationsWellFormed /\ Init /\ [][Next]_vars => []AnnotationsWellFormed
  <2>1. AnnotationsWellFormed /\ [Next]_vars => AnnotationsWellFormed'
    BY DEF AnnotationsWellFormed
  <2> QED
    BY <2>1, PTL
<1> QED
  BY <1>2, <1>3, InitInv, NextInv, PTL DEF Spec, RefusedForCause
=============================================================================
