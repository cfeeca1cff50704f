----------------------------- MODULE RolloutMC -----------------------------
(* Small instances of Rollout for TLC. *)
EXTENDS Rollout, TLC

CONSTANTS m1, m2   \* the replicas

Good == [liveness |-> TRUE, readiness |-> TRUE, limits |-> {"cpu", "memory"},
         requests |-> {"cpu", "memory"}, privileged |-> FALSE, hostPort |-> FALSE]
Bad(field, value) == [Good EXCEPT ![field] = value]

Template(containers, volumes) == [containers |-> containers, volumes |-> volumes]
Of(container)    == Template({Good, container}, {})
EmptyDir(n, u)   == [source |-> "emptyDir", unit |-> u, size |-> n]

Budget(name, n, percent) == [limit \in {name} |-> [number |-> n, percent |-> percent]]

PortOf(name, n, np) == [name |-> name, port |-> n, nodePort |-> np]
Service(gives, entries, ports) ==
    [type |-> "NodePort", annotation |-> [gives |-> gives, entries |-> entries], ports |-> ports]

SomeSpecs ==
    [Deployment  |-> [no_probe |-> Of(Bad("liveness", FALSE)), port |-> Of(Bad("hostPort", TRUE))],
     StatefulSet |-> [good |-> Of(Good), port |-> Of(Bad("hostPort", TRUE))],
     Pod |->
        [full |-> Template({Good}, {EmptyDir(100, "M")}), over |-> Template({Good}, {EmptyDir(101, "M")}),
         gigabytes |-> Template({Good}, {EmptyDir(1, "Gi")})],
     PodDisruptionBudget |->
        [two_thirds |-> Budget("minAvailable", 66, TRUE), more |-> Budget("minAvailable", 67, TRUE),
         number |-> Budget("maxUnavailable", 40, FALSE)],
     Service |->
        [between |-> Service("list", << <<1, 4>>, <<6>> >>, {PortOf("http", 80, 5)}),
         blanks |-> Service("list", << <<Empty, 1, 2>>, <<Blanks>>, <<5, 6>>, <<Blanks, Empty>> >>,
                            {PortOf("http", 80, 5)})]]

SomePolicies ==
    [Deployment  |-> {"liveness_probe", "host_port"}, StatefulSet |-> {"host_port"},
     Pod |-> {"emptydir"}, PodDisruptionBudget |-> {"pdb"},
     Service |-> {"node_port_range"}]

(* A pod may say that a ReplicaSet owns it. *)
SomeOwners == [k \in DOMAIN SomeSpecs |-> IF k = "Pod" THEN {"none", "ReplicaSet"} ELSE {"none"}]
=============================================================================
