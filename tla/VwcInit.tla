------------------------------ MODULE VwcInit ------------------------------
(***************************************************************************)
(* init_vwc of app/magtape-init/magtape-init.py: every replica's init       *)
(* container sees to it that the cluster has MagTape's validating webhook   *)
(* configuration (VWC).  The replicas share one cluster-scoped object and   *)
(* do not coordinate; each API call is a step.  What the VWC should be is   *)
(* a template in a configmap, which may change while replicas start.        *)
(*                                                                          *)
(* Abstraction.  A VWC is the resources its rule lists, its CA bundle, one  *)
(* value for all the fields that the template does not name, and whether    *)
(* another webhook stands before or after MagTape's in its list.  A kubelet *)
(* that mounts a new template late is a replica that read the old one.      *)
(***************************************************************************)
EXTENDS Naturals, Sequences

CONSTANTS
    Pods,         \* the replicas
    None,         \* no VWC, no CA bundle
    Resources,    \* resources that a rule may list
    Shipped,      \* the rules of the successive versions of the template
    EditedRules,  \* rules that an operator may write
    InitVwcs,     \* what the VWC may be before the replicas start
    MaxFaults,    \* bound: API errors and kills together
    MaxEdits      \* bound: changes an operator makes to the VWC

CAs  == {"cluster", "pks", "operator"}
Vwcs == [rules : Seq(Resources), caBundle : CAs \cup {None}, other : {"default", "edited"},
         neighbour : {"none", "before", "after"}]

ASSUME VwcAssumption ==
    /\ Shipped \in Seq(Seq(Resources)) /\ Shipped # << >>
    /\ EditedRules \subseteq Seq(Resources)
    /\ InitVwcs \subseteq Vwcs \cup {None}
    /\ None \notin Vwcs /\ None \notin CAs
    /\ MaxFaults \in Nat /\ MaxEdits \in Nat

VARIABLES
    vwc,       \* the ValidatingWebhookConfiguration magtape-webhook
    version,   \* which template the configmap holds; at most Len(Shipped) are seen
    platform,  \* where the root CA is found, see RootCA
    named,     \* whether the template holds a webhook of MagTape's name
    proc,      \* proc[p]: p's progress, whether read_vwc found a VWC, the version p read
    faults,    \* faults so far
    edits      \* edits so far

vars == <<vwc, version, platform, named, proc, faults, edits>>

Labels == {"read_vwc", "list_namespaces", "read_configmap", "find_webhook", "reread",
           "patch", "create", "done", "crashed"}

Fresh(l) == [pc |-> l, found |-> FALSE, read |-> 0]

Init ==
    /\ vwc \in InitVwcs
    /\ version = 1
    /\ platform \in {"plain", "pks", "pks_without_ca"}
    /\ named \in BOOLEAN
    /\ proc = [p \in Pods |-> Fresh("read_vwc")]
    /\ faults = 0
    /\ edits = 0

At(p, l)   == proc[p].pc = l
Goto(p, l) == proc' = [proc EXCEPT ![p] = [pc |-> l, found |-> proc[p].found, read |-> proc[p].read]]
Exit(p)    == proc' = [proc EXCEPT ![p] = Fresh("crashed")]

-----------------------------------------------------------------------------
(* The root CA and the template *)

(* The module's global; init_tls_pair assigns a local of the same name, so  *)
(* the global keeps its first value, and write_vwc reads the global.        *)
magtape_tls_byoc == FALSE

(* Faulty variants: PKS is taken for any other platform; its CA is not looked for. *)
RootCAOfCluster(byoc)  == IF byoc THEN "operator" ELSE "cluster"
RootCAWithoutPks(byoc) == IF byoc THEN "operator" ELSE IF platform = "plain" THEN "cluster" ELSE "none"

(* get_rootca: the operator's CA, the CA that PKS keeps in a configmap, or  *)
(* the CA of the service account.                                           *)
RootCA(byoc) ==
    IF byoc THEN "operator" ELSE IF platform = "plain" THEN "cluster" ELSE "pks"

(* read_vwc_from_template: the file of that version, with the CA filled in. *)
Template(v) == [rules |-> Shipped[v], caBundle |-> RootCA(magtape_tls_byoc)]

(* Of two lists each entry of the first is compared with the one at the     *)
(* same position of the second; further ones do not count.                  *)
Continues(new, existing) ==
    /\ Len(new) <= Len(existing)
    /\ \A i \in 1 .. Len(new) : existing[i] = new[i]

(* The template is in force: MagTape's webhook has all it asks for. *)
InForce(new, existing) ==
    Continues(new.rules, existing.rules) /\ existing.caBundle = new.caBundle

(* Faulty variant: whatever comes first in the list is taken for MagTape's. *)
CoversFirst(new, existing) == existing.neighbour = "before" \/ InForce(new, existing)

(* compare_vwc_fields.  The webhooks are a list as well, so that another    *)
(* one before MagTape's is a difference.                                    *)
Covers(new, existing) == existing.neighbour # "before" /\ InForce(new, existing)

(* A (strategic merge) patch: webhooks are merged by name, rules are not.   *)
Patched(new, existing) ==
    [rules |-> new.rules, caBundle |-> new.caBundle, other |-> existing.other,
     neighbour |-> existing.neighbour]

(* What the API server makes of a new object: it fills in the defaults. *)
Defaulted(new) ==
    [rules |-> new.rules, caBundle |-> new.caBundle, other |-> "default", neighbour |-> "none"]

-----------------------------------------------------------------------------
(* Steps of a replica *)

(* read_vwc: find out whether there is a VWC. *)
ReadVwc(p) ==
    /\ At(p, "read_vwc")
    /\ proc' = [proc EXCEPT ![p] = [pc |-> "list_namespaces", found |-> vwc # None, read |-> 0]]
    /\ UNCHANGED <<vwc, version, platform, named, faults, edits>>

(* The template's file is read, then comes check_for_pks: with no CA of the *)
(* operator's, is this a PKS cluster?                                       *)
ListNamespaces(p) ==
    /\ At(p, "list_namespaces")
    /\ proc' = [proc EXCEPT ![p] =
                   [pc    |-> IF platform = "plain" THEN "find_webhook" ELSE "read_configmap",
                    found |-> proc[p].found, read |-> version]]
    /\ UNCHANGED <<vwc, version, platform, named, faults, edits>>

ReadConfigMap(p) ==
    /\ At(p, "read_configmap")
    /\ IF platform = "pks" THEN Goto(p, "find_webhook") ELSE Exit(p)
    /\ UNCHANGED <<vwc, version, platform, named, faults, edits>>

(* find_webhook_index, and write_vwc's choice between update and create,    *)
(* made on what read_vwc saw.                                               *)
FindWebhook(p) ==
    /\ At(p, "find_webhook")
    /\ IF named THEN Goto(p, IF proc[p].found THEN "reread" ELSE "create") ELSE Exit(p)
    /\ UNCHANGED <<vwc, version, platform, named, faults, edits>>

(* Faulty variant: the VWC found first is taken for up to date. *)
RereadTrusting(p) ==
    /\ At(p, "reread")
    /\ Goto(p, "done")
    /\ UNCHANGED <<vwc, version, platform, named, faults, edits>>

(* vwc_should_update reads the VWC again; by now it may be gone. *)
Reread(p) ==
    /\ At(p, "reread")
    /\ \/ vwc = None /\ Exit(p)
       \/ vwc # None /\ Goto(p, IF Covers(Template(proc[p].read), vwc) THEN "done" ELSE "patch")
    /\ UNCHANGED <<vwc, version, platform, named, faults, edits>>

(* Faulty variant: the VWC is replaced by the template instead. *)
PatchReplacing(p) ==
    /\ At(p, "patch")
    /\ \/ vwc = None /\ Exit(p) /\ UNCHANGED vwc
       \/ vwc # None /\ vwc' = Defaulted(Template(proc[p].read)) /\ Goto(p, "done")
    /\ UNCHANGED <<version, platform, named, faults, edits>>

(* The decision to patch may be stale: the VWC may be gone, another replica *)
(* may have patched it, and the template may have changed.                  *)
Patch(p) ==
    /\ At(p, "patch")
    /\ \/ vwc = None /\ Exit(p) /\ UNCHANGED vwc
       \/ vwc # None /\ vwc' = Patched(Template(proc[p].read), vwc) /\ Goto(p, "done")
    /\ UNCHANGED <<version, platform, named, faults, edits>>

(* Faulty variant: wait for the other's VWC to go away. *)
CreateRetrying(p) ==
    /\ At(p, "create")
    /\ vwc = None /\ vwc' = Defaulted(Template(proc[p].read)) /\ Goto(p, "done")
    /\ UNCHANGED <<version, platform, named, faults, edits>>

(* Of two replicas that found no VWC one gets 409 and exits. *)
Create(p) ==
    /\ At(p, "create")
    /\ \/ vwc = None /\ vwc' = Defaulted(Template(proc[p].read)) /\ Goto(p, "done")
       \/ vwc # None /\ Exit(p) /\ UNCHANGED vwc
    /\ UNCHANGED <<version, platform, named, faults, edits>>

Step(p) ==
    \/ ReadVwc(p) \/ ListNamespaces(p) \/ ReadConfigMap(p) \/ FindWebhook(p)
    \/ Reread(p) \/ Patch(p) \/ Create(p)

-----------------------------------------------------------------------------
(* Environment *)

(* The kubelet starts a failed init container again. *)
Restart(p) ==
    /\ At(p, "crashed")
    /\ proc' = [proc EXCEPT ![p] = Fresh("read_vwc")]
    /\ UNCHANGED <<vwc, version, platform, named, faults, edits>>

(* The container is killed, or an API call fails: any error but read_vwc's  *)
(* 404 makes the process exit.                                              *)
Fail(p) ==
    /\ proc[p].pc \notin {"done", "crashed"}
    /\ faults < MaxFaults
    /\ faults' = faults + 1
    /\ Exit(p)
    /\ UNCHANGED <<vwc, version, platform, named, edits>>

(* An operator deletes the VWC, changes its rules or a field the template   *)
(* does not name, or puts a webhook before or after MagTape's.              *)
Edit ==
    /\ vwc # None
    /\ edits < MaxEdits
    /\ edits' = edits + 1
    /\ \/ vwc' = None
       \/ \E r \in EditedRules : vwc' = [vwc EXCEPT !.rules = r]
       \/ vwc' = [vwc EXCEPT !.other = "edited"]
       \/ \E n \in {"before", "after"} : vwc' = [vwc EXCEPT !.neighbour = n]
    /\ UNCHANGED <<version, platform, named, proc, faults>>

(* The operator installs the next release's template. *)
Upgrade ==
    /\ version < Len(Shipped)
    /\ version' = version + 1
    /\ UNCHANGED <<vwc, platform, named, proc, faults, edits>>

Next ==
    \/ \E p \in Pods : Step(p) \/ Restart(p) \/ Fail(p)
    \/ Edit
    \/ Upgrade

Spec == Init /\ [][Next]_vars

(* A running container goes on and the kubelet restarts it. *)
FairSpec == Spec /\ \A p \in Pods : WF_vars(Step(p)) /\ WF_vars(Restart(p))
-----------------------------------------------------------------------------
(* Properties *)

(* Every variable keeps its type. *)
TypeOK ==
    /\ vwc = None \/ vwc \in Vwcs
    /\ version \in 1 .. Len(Shipped)
    /\ platform \in {"plain", "pks", "pks_without_ca"}
    /\ named \in BOOLEAN
    /\ proc \in [Pods -> [pc : Labels, found : BOOLEAN, read : 0 .. Len(Shipped)]]
    /\ faults \in 0 .. MaxFaults
    /\ edits \in 0 .. MaxEdits

(* No replica removes a VWC, another webhook in it, or a field of it that   *)
(* the template does not name.                                              *)
KeepsOtherFields ==
    [][vwc # None /\ edits' = edits =>
         vwc' # None /\ vwc'.other = vwc.other /\ vwc'.neighbour = vwc.neighbour]_vars

(* When any replica has finished, and nobody else touched the VWC, a        *)
(* version of the template is in force that was current since the start:    *)
(* whichever replica created or patched it, wherever MagTape's webhook is   *)
(* listed, and never from a template without that webhook or on a platform  *)
(* without a CA.                                                            *)
DoneMeansInstalled ==
    edits = 0 /\ (\E p \in Pods : At(p, "done")) =>
        /\ named /\ platform # "pks_without_ca"
        /\ vwc # None /\ \E v \in 1 .. version : InForce(Template(v), vwc)

Usable == named /\ platform # "pks_without_ca"

(* Losing a race, a fault, an upgrade or a VWC deleted under its feet costs *)
(* a replica a restart, and in the end each finishes.                       *)
Finishes == Usable => \A p \in Pods : <>At(p, "done")

(* No more edits and versions come, and no replica is about to write an     *)
(* older version.                                                           *)
Quiet ==
    /\ edits = MaxEdits /\ version = Len(Shipped)
    /\ \A p \in Pods : proc[p].pc \in {"reread", "find_webhook", "read_configmap", "patch", "create"}
           => proc[p].read = version

(* Then one replica that starts over is enough to bring the current version *)
(* of the template into force for good.                                     *)
RepairsDrift ==
    Usable /\ Quiet /\ (\E p \in Pods : At(p, "read_vwc"))
        ~> [](vwc # None /\ InForce(Template(version), vwc))

(* When all replicas have finished, and one of them with the current        *)
(* version of the template, the VWC has that version's rules.  The comment  *)
(* in vwc_should_update: if VWC and template match, there is no need to     *)
(* update.                                                                  *)
TemplateApplied ==
    /\ edits = 0 /\ \A p \in Pods : At(p, "done")
    /\ \E p \in Pods : proc[p].read = version
    => vwc.rules = Shipped[version]

(* Once a replica has finished with the current version of the template,    *)
(* that version stays in force: no other replica puts an older one back.    *)
(* The comment at the choice between update and create in write_vwc: the    *)
(* check lets MagTape scale out "without each replica stomping on the VWC". *)
UpgradeSticks ==
    edits = 0 /\ (\E p \in Pods : At(p, "done") /\ proc[p].read = version)
        => InForce(Template(version), vwc)

=============================================================================
