------------------------------ MODULE Policies ------------------------------
(***************************************************************************)
(* The policies under policies/, as predicates over objects, and what       *)
(* docs/policies.md asks of the same objects.  A policy is named by its     *)
(* file.                                                                    *)
(*                                                                          *)
(* Abstraction.  An object is its kind, whether it has ownerReferences and  *)
(* a spec; a workload's pod template and a pod's spec are alike: sets of    *)
(* containers and volumes.  Probes are there or not, requests and limits    *)
(* are the resources they name, a quantity is an amount and a unit.  A PDB  *)
(* gives limits, each a number that is a percentage or is not.  A Service   *)
(* has a type, ports and its namespace's nodePort annotation, which gives   *)
(* "nothing", the exception "na" or the entries of a list.                  *)
(***************************************************************************)
EXTENDS Integers, Sequences, FiniteSets

Workloads == {"Deployment", "StatefulSet", "DaemonSet", "Pod"}

Container == [liveness : BOOLEAN, readiness : BOOLEAN, limits : SUBSET {"cpu", "memory"},
              requests : SUBSET {"cpu", "memory"}, privileged : BOOLEAN, hostPort : BOOLEAN]
Volume    == [source : {"emptyDir", "hostPath", "other"}, unit : {"none", "M", "Gi"}, size : Nat]
PodSpec   == [containers : SUBSET Container, volumes : SUBSET Volume]

(* policy_metadata: which kinds a policy is about, and what it reports. *)
Targets ==
    [liveness_probe |-> Workloads, readiness_probe |-> Workloads, resource_limits |-> Workloads,
     resource_requests |-> Workloads, privileged_pod |-> Workloads, pdb |-> {"PodDisruptionBudget"},
     port_name_mismatch |-> {"Service"}, node_port_range |-> {"Service"},
     singleton_pod |-> {"Pod"}, host_port |-> {"Pod"}, emptydir |-> {"Pod"}, host_path |-> {"Pod"}]

Policies == DOMAIN Targets

Severity ==
    [p \in Policies |->
        IF p \in {"privileged_pod", "pdb", "port_name_mismatch", "host_port"} THEN "HIGH"
        ELSE IF p \in {"emptydir", "host_path", "node_port_range"} THEN "MED"
        ELSE "LOW"]

-----------------------------------------------------------------------------
(* PDBs: spec is a function from the limits it gives to their values *)

Limits == [minAvailable |-> <<0, 66>>, maxUnavailable |-> <<33, 100>>]

(* Faulty variant: one per cent of tolerance. *)
WithinRangeLoosely(x, range) == x >= range[1] /\ x <= range[2] + 1

WithinRange(x, range) == x >= range[1] /\ x <= range[2]

IsPdbSpec(spec) ==
    DOMAIN spec \subseteq DOMAIN Limits /\ spec \in [DOMAIN spec -> [number : Nat, percent : BOOLEAN]]

DeniesPdb(spec) ==
    \E name \in DOMAIN Limits \cap DOMAIN spec :
        ~spec[name].percent \/ ~WithinRange(spec[name].number, Limits[name])

-----------------------------------------------------------------------------
(* Services.  Entries are separated by commas; an entry is a sequence of    *)
(* parts, separated by hyphens.  A part is a number, empty, or made of      *)
(* blanks; no port has the number 0.                                        *)

Empty  == 0
Blanks == -1

Given(part) == part \notin {Empty, Blanks}

Annotation  == [gives : {"nothing", "na", "list"}, entries : Seq(Seq(Nat \cup {Blanks}) \ {<< >>})]
Port        == [name : STRING, port : Nat \ {Empty}, nodePort : Nat \ {Empty}]
ServiceSpec == [type : STRING, annotation : Annotation, ports : SUBSET Port]

Parts(entries) == UNION {{i} \X DOMAIN entries[i] : i \in DOMAIN entries}
Before(k, l)   == k[1] < l[1] \/ (k[1] = l[1] /\ k[2] < l[2])
Between(k, S)  == \E first, last \in S : Before(first, k) /\ Before(k, last)

(* Faulty variant: a part is a number, [0-9]+ where [0-9 ]+ is meant. *)
WellFormedStrictly(entries) ==
    LET parts   == Parts(entries)
        numbers == {k \in parts : Given(entries[k[1]][k[2]])}
        core    == numbers \cup {k \in parts : Between(k, numbers)}
    IN  /\ numbers # {} /\ core = numbers
        /\ \A i \in DOMAIN entries : Cardinality({k \in core : k[1] = i}) <= 2

(* What check_annotation matches.  Hyphens, commas and blanks may surround  *)
(* the list; in it each part is a number or blanks, and an entry has at     *)
(* most one hyphen.  The annotation is trimmed, so that blanks at its very  *)
(* ends are nothing, and blanks inside it are a list of their own.          *)
WellFormed(entries) ==
    LET parts   == Parts(entries)
        part(k) == entries[k[1]][k[2]]
        numbers == {k \in parts : Given(part(k))}
        core    == numbers \cup {k \in parts : Between(k, numbers)}
    IN  /\ numbers = {} => \E k \in parts : part(k) = Blanks /\ Between(k, parts)
        /\ \A k \in core : part(k) # Empty
        /\ \A i \in DOMAIN entries : Cardinality({k \in core : k[1] = i}) <= 2

(* range_matches: a number, or a range both ends of which are there. *)
RangeMatches(np, entry) ==
    /\ Given(entry[1])
    /\ \/ Len(entry) = 1 /\ entry[1] = np
       \/ Len(entry) > 1 /\ Given(entry[2]) /\ entry[1] <= np /\ np <= entry[2]

(* The policy only looks at services of type NodePort, has nothing to say   *)
(* without the annotation and makes an exception for "na".                  *)
DeniesNodePort(spec) ==
    LET entries == spec.annotation.entries IN
    /\ spec.type = "NodePort" /\ spec.annotation.gives = "list"
    /\ \E port \in spec.ports :
          WellFormed(entries) => ~\E i \in DOMAIN entries : RangeMatches(port.nodePort, entries[i])

DeniesPortName(spec) == \E port \in spec.ports : port.name = "http" /\ port.port = 443

-----------------------------------------------------------------------------
(* Volumes.  An emptyDir without sizeLimit has the unit "none". *)

SizeLimit == 100

DeniesEmptyDir(spec) ==
    \E v \in spec.volumes : v.source = "emptyDir" /\ (v.unit # "M" \/ v.size > SizeLimit)

-----------------------------------------------------------------------------
(* The deny rules of the other policies, and all of them together *)

DeniesLiveness(spec)   == \E c \in spec.containers : ~c.liveness
DeniesReadiness(spec)  == \E c \in spec.containers : ~c.readiness
DeniesLimits(spec)     == \E c \in spec.containers : ~({"cpu", "memory"} \subseteq c.limits)
DeniesRequests(spec)   == \E c \in spec.containers : ~({"cpu", "memory"} \subseteq c.requests)
DeniesPrivileged(spec) == \E c \in spec.containers : c.privileged
DeniesHostPort(spec)   == \E c \in spec.containers : c.hostPort
DeniesHostPath(spec)   == \E v \in spec.volumes : v.source = "hostPath"
DeniesSingleton(owner) == owner = "none"

Denies(p, o) ==
    \/ p = "liveness_probe"     /\ DeniesLiveness(o.spec)
    \/ p = "readiness_probe"    /\ DeniesReadiness(o.spec)
    \/ p = "resource_limits"    /\ DeniesLimits(o.spec)
    \/ p = "resource_requests"  /\ DeniesRequests(o.spec)
    \/ p = "privileged_pod"     /\ DeniesPrivileged(o.spec)
    \/ p = "host_port"          /\ DeniesHostPort(o.spec)
    \/ p = "host_path"          /\ DeniesHostPath(o.spec)
    \/ p = "emptydir"           /\ DeniesEmptyDir(o.spec)
    \/ p = "singleton_pod"      /\ DeniesSingleton(o.owner)
    \/ p = "pdb"                /\ DeniesPdb(o.spec)
    \/ p = "port_name_mismatch" /\ DeniesPortName(o.spec)
    \/ p = "node_port_range"    /\ DeniesNodePort(o.spec)

(* The policy's answer: matches, and then a reason. *)
Violates(p, o) == o.kind \in Targets[p] /\ Denies(p, o)

-----------------------------------------------------------------------------
(* What docs/policies.md asks of an object by itself.  LeavesRoom stands    *)
(* apart: a PDB does not give the number of replicas.  What the policies    *)
(* let in has it for three replicas or more.                                *)

(* "Allow for a failure of one third", in percentages only. *)
SurvivesZoneLoss(spec) ==
    \A name \in DOMAIN spec :
        /\ spec[name].percent
        /\ spec[name].number \in IF name = "minAvailable" THEN 0 .. 66 ELSE 33 .. 100

(* "replicacount - (PDB% * replicacount) >= 1", of what must be available. *)
LeavesRoom(spec, replicacount) ==
    "minAvailable" \in DOMAIN spec =>
        100 * replicacount - spec["minAvailable"].number * replicacount >= 100

(* "A single number, numbers separated by commas, a range split with a      *)
(* hyphen, or a combination of the three".                                  *)
Complete(e)   == Given(e[1]) /\ (Len(e) > 1 => Given(e[2]))
Interval(e)   == IF Len(e) = 1 THEN {e[1]} ELSE e[1] .. e[2]
Allowance(entries) ==
    UNION {Interval(entries[i]) : i \in {i \in 1 .. Len(entries) : Complete(entries[i])}}

NodePortsAllotted(spec) ==
    spec.type = "NodePort" /\ spec.annotation.gives = "list" =>
        {port.nodePort : port \in spec.ports} \subseteq Allowance(spec.annotation.entries)

(* Every emptyDir has a sizeLimit in megabytes, and one of these sizes. *)
Sized(spec, sizes) ==
    \A v \in {v \in spec.volumes : v.source = "emptyDir"} : v.unit = "M" /\ v.size \in sizes

(* "Less than 100M". *)
EphemeralStorageBounded(spec) == Sized(spec, 0 .. 99)

Meets(p, o) ==
    /\ p = "liveness_probe"     => \A c \in o.spec.containers : c.liveness
    /\ p = "readiness_probe"    => \A c \in o.spec.containers : c.readiness
    /\ p = "resource_limits"    => \A c \in o.spec.containers : c.limits = {"cpu", "memory"}
    /\ p = "resource_requests"  => \A c \in o.spec.containers : c.requests = {"cpu", "memory"}
    /\ p = "privileged_pod"     => ~\E c \in o.spec.containers : c.privileged
    /\ p = "host_port"          => ~\E c \in o.spec.containers : c.hostPort
    /\ p = "host_path"          => "hostPath" \notin {v.source : v \in o.spec.volumes}
    /\ p = "emptydir"           => EphemeralStorageBounded(o.spec)
    /\ p = "singleton_pod"      => o.owner # "none"
    /\ p = "pdb"                => SurvivesZoneLoss(o.spec)
    /\ p = "port_name_mismatch" => \A t \in o.spec.ports : <<t.name, t.port>> # <<"http", 443>>
    /\ p = "node_port_range"    => NodePortsAllotted(o.spec)

(* What the policies let in beyond it: an emptyDir of the limit itself,     *)
(* which is not "greater than 100 Megabytes".                               *)
Tolerated(p, o) == p = "emptydir" /\ Sized(o.spec, 0 .. 100)
=============================================================================
