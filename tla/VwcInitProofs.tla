--------------------------- MODULE VwcInitProofs ---------------------------
(* Theorems about VwcInit, for every set of replicas, every sequence of     *)
(* template versions and every bound.                                       *)
EXTENDS VwcInit, TLAPS

Reading == {"find_webhook", "read_configmap"}
Writing == {"reread", "patch", "create", "done"}

(* How far a replica has come says what it has checked, and that it has     *)
(* read a version of the template that was current since the start.         *)
Checked(p) ==
    /\ proc[p].pc \in Reading \cup Writing => proc[p].read # 0
    /\ proc[p].read <= version
    /\ proc[p].pc \in {"find_webhook"} \cup Writing => platform # "pks_without_ca"
    /\ proc[p].pc \in Writing => named

IInv == TypeOK /\ (\A p \in Pods : Checked(p)) /\ DoneMeansInstalled

Templates == [rules : Seq(Resources), caBundle : CAs]

LEMMA TemplateTyped ==
  ASSUME TypeOK, NEW v \in 1 .. Len(Shipped)
  PROVE  Template(v) \in Templates
  <1>1. Shipped[v] \in Seq(Resources)
    BY VwcAssumption
  <1>2. RootCA(magtape_tls_byoc) \in CAs
    BY DEF RootCA, magtape_tls_byoc, CAs
  <1> QED
    BY <1>1, <1>2 DEF Template, Templates

(* A patch and a new object put the template into force; a patch keeps what *)
(* the template does not name.                                              *)
LEMMA Effects ==
  ASSUME NEW t \in Templates, NEW v \in Vwcs
  PROVE  /\ Patched(t, v) \in Vwcs /\ InForce(t, Patched(t, v))
         /\ Patched(t, v).other = v.other /\ Patched(t, v).neighbour = v.neighbour
         /\ Defaulted(t) \in Vwcs /\ InForce(t, Defaulted(t))
  <1>1. Continues(t.rules, t.rules)
    BY DEF Continues, Templates
  <1>2. /\ Patched(t, v) = [rules |-> t.rules, caBundle |-> t.caBundle, other |-> v.other,
                            neighbour |-> v.neighbour]
        /\ Patched(t, v) \in Vwcs
    BY DEF Patched, Vwcs, Templates
  <1>3. Defaulted(t) \in Vwcs
    BY DEF Defaulted, Vwcs, Templates
  <1>4. InForce(t, Patched(t, v)) /\ InForce(t, Defaulted(t))
    BY <1>1, <1>2 DEF InForce, Defaulted
  <1> QED
    BY <1>2, <1>3, <1>4

LEMMA InitIInv == Init => IInv
  BY VwcAssumption DEF Init, IInv, TypeOK, Checked, DoneMeansInstalled, At, Labels, Fresh, Reading,
     Writing

(* What a step of a replica does to the VWC: nothing, or it brings the      *)
(* version of the template that the replica read into force.                *)
LEMMA StepEffect ==
  ASSUME IInv, NEW p \in Pods, Step(p)
  PROVE  \/ vwc' = vwc
         \/ /\ proc[p].read \in 1 .. version
            /\ vwc' # None /\ vwc' \in Vwcs /\ InForce(Template(proc[p].read), vwc')
            /\ \/ At(p, "create") /\ vwc = None
               \/ /\ At(p, "patch") /\ vwc \in Vwcs
                  /\ vwc' = Patched(Template(proc[p].read), vwc)
  <1>0. TypeOK /\ proc[p].read \in 0 .. Len(Shipped) /\ proc[p].read <= version
    BY DEF IInv, TypeOK, Checked
  <1>1. CASE Patch(p)
    <2>1. proc[p].read # 0 /\ At(p, "patch")
      BY <1>1 DEF IInv, Checked, Patch, At, Writing
    <2>2. proc[p].read \in 1 .. Len(Shipped) /\ proc[p].read \in 1 .. version
      BY <1>0, <2>1, VwcAssumption DEF TypeOK
    <2>3. Template(proc[p].read) \in Templates
      BY <1>0, <2>2, TemplateTyped
    <2>4. (vwc \in Vwcs /\ vwc' = Patched(Template(proc[p].read), vwc)) \/ vwc' = vwc
      BY <1>1, <1>0 DEF Patch, TypeOK
    <2> QED
      BY <2>1, <2>2, <2>3, <2>4, Effects, VwcAssumption
  <1>2. CASE Create(p)
    <2>1. proc[p].read # 0 /\ At(p, "create")
      BY <1>2 DEF IInv, Checked, Create, At, Writing
    <2>2. proc[p].read \in 1 .. Len(Shipped) /\ proc[p].read \in 1 .. version
      BY <1>0, <2>1, VwcAssumption DEF TypeOK
    <2>3. Template(proc[p].read) \in Templates
      BY <1>0, <2>2, TemplateTyped
    <2> DEFINE d == Defaulted(Template(proc[p].read))
    <2>4. \A t \in Templates : Defaulted(t) \in Vwcs /\ InForce(t, Defaulted(t))
      <3>1. TAKE t \in Templates
      <3>2. Defaulted(t) \in Vwcs
        BY DEF Defaulted, Vwcs, Templates
      <3> QED
        BY <3>2, Effects
    <2>5. d \in Vwcs /\ InForce(Template(proc[p].read), d)
      BY <2>3, <2>4
    <2>6. (vwc = None /\ vwc' = d) \/ vwc' = vwc
      BY <1>2 DEF Create
    <2> HIDE DEF d
    <2> QED
      BY <2>1, <2>2, <2>5, <2>6, VwcAssumption
  <1>3. CASE ReadVwc(p) \/ ListNamespaces(p) \/ ReadConfigMap(p) \/ FindWebhook(p) \/ Reread(p)
    BY <1>3 DEF ReadVwc, ListNamespaces, ReadConfigMap, FindWebhook, Reread
  <1> QED
    BY <1>1, <1>2, <1>3 DEF Step

LEMMA StepDone ==
  ASSUME IInv, NEW p \in Pods, Step(p), At(p, "done")'
  PROVE  vwc' # None /\ \E v \in 1 .. version : InForce(Template(v), vwc')
  <1>0. proc[p].read \in Nat /\ proc[p].read <= version
    BY VwcAssumption DEF IInv, TypeOK, Checked
  <1>1. CASE Reread(p)
    <2>1. proc[p].read # 0
      BY <1>1 DEF IInv, Checked, Reread, At, Writing
    <2>2. vwc' = vwc /\ vwc # None /\ Covers(Template(proc[p].read), vwc)
      BY <1>1 DEF Reread, At, Goto, Exit, Fresh, IInv, TypeOK
    <2> QED
      BY <1>0, <2>1, <2>2 DEF Covers
  <1>2. CASE Patch(p)
    <2>1. vwc # None /\ vwc' = Patched(Template(proc[p].read), vwc)
      BY <1>2 DEF Patch, At, Exit, Fresh, IInv, TypeOK
    <2>2. proc[p].read # 0
      BY <1>2 DEF IInv, Checked, Patch, At, Writing
    <2>3. vwc \in Vwcs /\ proc[p].read \in 1 .. Len(Shipped) /\ TypeOK
      BY <2>1, <2>2, VwcAssumption DEF IInv, TypeOK
    <2>4. Template(proc[p].read) \in Templates
      BY <2>3, TemplateTyped
    <2> QED
      BY <1>0, <2>1, <2>2, <2>3, <2>4, Effects, VwcAssumption
  <1>3. CASE Create(p)
    <2>1. (vwc = None /\ vwc' # vwc) \/ vwc' = Defaulted(Template(proc[p].read))
      BY <1>3 DEF Create, At, Exit, Fresh, IInv, TypeOK
    <2>2. At(p, "create") /\ proc[p].read # 0
      BY <1>3 DEF Create, IInv, Checked, At, Writing
    <2>3. proc[p].read \in 1 .. Len(Shipped) /\ TypeOK
      BY <2>2, VwcAssumption DEF IInv, TypeOK
    <2>4. Template(proc[p].read) \in Templates
      BY <2>3, TemplateTyped
    <2>5. vwc' = Defaulted(Template(proc[p].read))
      BY <1>3 DEF Create, At, Exit, Fresh, IInv, TypeOK
    <2>6. vwc' \in Vwcs
      BY <2>4, <2>5 DEF Defaulted, Vwcs, Templates
    <2>7. InForce(Template(proc[p].read), vwc')
      BY <2>4, <2>5, <2>6, Effects
    <2> QED
      BY <1>0, <2>2, <2>6, <2>7, VwcAssumption
  <1>4. CASE ReadVwc(p) \/ ListNamespaces(p) \/ ReadConfigMap(p) \/ FindWebhook(p)
    BY <1>4 DEF ReadVwc, ListNamespaces, ReadConfigMap, FindWebhook, At, Goto, Exit, Fresh, IInv,
       TypeOK
  <1> QED
    BY <1>1, <1>2, <1>3, <1>4 DEF Step

LEMMA NextIInv == IInv /\ [Next]_vars => IInv'
  <1> SUFFICES ASSUME IInv, [Next]_vars PROVE IInv'
    OBVIOUS
  <1>0. version \in Nat /\ version # 0 /\ version <= Len(Shipped) /\ Len(Shipped) \in Nat
    BY VwcAssumption DEF IInv, TypeOK
  <1>1. CASE UNCHANGED vars
    BY <1>1 DEF vars, IInv, TypeOK, Checked, DoneMeansInstalled, At, InForce, Template, RootCA
  <1>2. ASSUME NEW p \in Pods, Step(p) PROVE IInv'
    <2>1. UNCHANGED <<version, platform, named, faults, edits>> /\ \A v : Template(v)' = Template(v)
      BY <1>2 DEF Step, ReadVwc, ListNamespaces, ReadConfigMap, FindWebhook, Reread, Patch, Create,
         Template, RootCA
    <2>2. vwc' = None \/ vwc' \in Vwcs
      BY <1>2, StepEffect DEF IInv, TypeOK
    <2>3. PICK l \in Labels, b \in BOOLEAN, n \in 0 .. Len(Shipped) :
              /\ proc' = [proc EXCEPT ![p] = [pc |-> l, found |-> b, read |-> n]]
              /\ n <= version
              /\ l \in Reading \cup Writing => n # 0
              /\ l \in {"find_webhook"} \cup Writing => platform # "pks_without_ca"
              /\ l \in Writing => named
      <3>1. proc[p].found \in BOOLEAN /\ proc[p].read \in 0 .. Len(Shipped)
            /\ version \in 0 .. Len(Shipped) /\ 0 \in 0 .. Len(Shipped) /\ 0 <= version
        BY <1>0 DEF IInv, TypeOK
      <3>2. Checked(p) /\ platform \in {"plain", "pks", "pks_without_ca"}
        BY DEF IInv, TypeOK
      <3>3. CASE ReadVwc(p)
        BY <3>1, <3>3 DEF ReadVwc, Labels, Reading, Writing
      <3>4. CASE ListNamespaces(p)
        <4> DEFINE stage == IF platform = "plain" THEN "find_webhook" ELSE "read_configmap"
        <4>1. proc' = [proc EXCEPT ![p] = [pc |-> stage, found |-> proc[p].found, read |-> version]]
          BY <3>4 DEF ListNamespaces
        <4>2. /\ stage \in Labels /\ stage \notin Writing
              /\ stage = "find_webhook" => platform # "pks_without_ca"
          BY DEF Labels, Writing
        <4> HIDE DEF stage
        <4> USE <3>1, <4>2
        <4> WITNESS stage \in Labels, proc[p].found \in BOOLEAN, version \in 0 .. Len(Shipped)
        <4> QED
          BY <1>0, <4>1
      <3>5. CASE ReadConfigMap(p)
        BY <3>1, <3>2, <3>5 DEF ReadConfigMap, Goto, Exit, Fresh, At, Checked, Labels, Reading,
           Writing
      <3>6. CASE FindWebhook(p)
        BY <3>1, <3>2, <3>6 DEF FindWebhook, Goto, Exit, Fresh, At, Checked, Labels, Reading,
           Writing
      <3>7. CASE Reread(p)
        BY <3>1, <3>2, <3>7 DEF Reread, Goto, Exit, Fresh, At, Checked, Labels, Reading, Writing
      <3>8. CASE Patch(p) \/ Create(p)
        BY <3>1, <3>2, <3>8 DEF Patch, Create, Goto, Exit, Fresh, At, Checked, Labels, Reading,
           Writing
      <3> QED
        BY <1>2, <3>3, <3>4, <3>5, <3>6, <3>7, <3>8 DEF Step
    <2>4. TypeOK'
      BY <2>1, <2>2, <2>3 DEF IInv, TypeOK
    <2>5. Checked(p)'
      BY <2>1, <2>3 DEF IInv, TypeOK, Checked
    <2>6. \A q \in Pods : Checked(q)'
      BY <2>1, <2>3, <2>5 DEF IInv, TypeOK, Checked
    <2>7. ASSUME edits' = 0, NEW q \in Pods, At(q, "done")'
          PROVE  /\ named' /\ platform' # "pks_without_ca"
                 /\ vwc' # None /\ \E v \in 1 .. version' : InForce(Template(v), vwc)'
      <3>1. named' /\ platform' # "pks_without_ca"
        BY <2>6, <2>7 DEF Checked, At, Writing
      <3>2. vwc' # None /\ \E v \in 1 .. version : InForce(Template(v), vwc')
        <4>1. CASE q = p
          BY <1>2, <2>7, <4>1, StepDone
        <4>2. CASE q # p
          <5>1. At(q, "done") /\ edits = 0
            BY <2>1, <2>3, <2>7, <4>2 DEF At, IInv, TypeOK
          <5>2. vwc # None /\ \E v \in 1 .. version : InForce(Template(v), vwc)
            BY <5>1 DEF IInv, DoneMeansInstalled
          <5> QED
            BY <1>2, <5>2, StepEffect
        <4> QED
          BY <4>1, <4>2
      <3>3. \A v : InForce(Template(v), vwc)' = InForce(Template(v), vwc')
        BY <2>1 DEF InForce, Template, RootCA, Continues
      <3> QED
        BY <2>1, <3>1, <3>2, <3>3
    <2> QED
      BY <2>4, <2>6, <2>7 DEF IInv, DoneMeansInstalled
  <1>3. ASSUME NEW p \in Pods, Restart(p) \/ Fail(p) PROVE IInv'
    <2>1. UNCHANGED <<vwc, version, platform, named, edits>>
      BY <1>3 DEF Restart, Fail
    <2>2. PICK l \in {"read_vwc", "crashed"} : proc' = [proc EXCEPT ![p] = Fresh(l)]
      BY <1>3 DEF Restart, Fail, Exit
    <2>3. TypeOK'
      <3>1. Fresh(l) \in [pc : Labels, found : BOOLEAN, read : 0 .. Len(Shipped)]
        BY <1>0 DEF Fresh, Labels
      <3> QED
        BY <1>3, <2>1, <2>2, <3>1, VwcAssumption DEF Restart, Fail, IInv, TypeOK
    <2>4. \A q \in Pods : Checked(q)' /\ (At(q, "done")' => At(q, "done"))
      BY <1>0, <2>1, <2>2 DEF IInv, TypeOK, Checked, At, Fresh, Reading, Writing
    <2> QED
      BY <2>1, <2>3, <2>4 DEF IInv, DoneMeansInstalled, InForce, Template, RootCA
  <1>4. CASE Edit
    <2>1. vwc \in Vwcs /\ edits' \in 0 .. MaxEdits /\ edits' # 0
      BY <1>4, VwcAssumption DEF Edit, IInv, TypeOK
    <2>2. vwc' = None \/ vwc' \in Vwcs
      BY <1>4, <2>1, VwcAssumption DEF Edit, Vwcs
    <2>3. TypeOK' /\ \A q \in Pods : Checked(q)'
      BY <1>4, <2>1, <2>2 DEF Edit, IInv, TypeOK, Checked
    <2> QED
      BY <2>1, <2>3 DEF IInv, DoneMeansInstalled
  <1>5. CASE Upgrade
    <2>1. version' = version + 1 /\ version < Len(Shipped)
          /\ UNCHANGED <<vwc, platform, named, proc, faults, edits>>
      BY <1>5 DEF Upgrade
    <2>2. TypeOK'
      BY <1>0, <2>1 DEF IInv, TypeOK
    <2>3. \A q \in Pods : Checked(q)'
      BY <1>0, <2>1 DEF IInv, TypeOK, Checked
    <2>4. DoneMeansInstalled'
      BY <1>0, <2>1 DEF IInv, DoneMeansInstalled, At, InForce, Template, RootCA
    <2> QED
      BY <2>2, <2>3, <2>4 DEF IInv
  <1> QED
    BY <1>1, <1>2, <1>3, <1>4, <1>5 DEF Next

LEMMA Invariance == Spec => []IInv
  BY InitIInv, NextIInv, PTL DEF Spec

(* VWC initialisation keeps its types. *)
THEOREM Typing == Spec => []TypeOK
  <1>1. IInv => TypeOK
    BY DEF IInv
  <1> QED
    BY <1>1, Invariance, PTL

(* For any number of replicas and versions: when a replica has finished and *)
(* nobody edited the VWC, a version of the template is in force.            *)
THEOREM Installation == Spec => []DoneMeansInstalled
  <1>1. IInv => DoneMeansInstalled
    BY DEF IInv
  <1> QED
    BY <1>1, Invariance, PTL

(* No replica removes a VWC, another webhook in it or a field that the      *)
(* template does not name.                                                  *)
THEOREM OthersKept == Spec => KeepsOtherFields
  <1>1. ASSUME IInv, Next, vwc # None, edits' = edits
        PROVE  vwc' # None /\ vwc'.other = vwc.other /\ vwc'.neighbour = vwc.neighbour
    <2>1. ASSUME NEW q \in Pods, Step(q)
          PROVE  vwc' # None /\ vwc'.other = vwc.other /\ vwc'.neighbour = vwc.neighbour
      <3>1. vwc' = vwc \/ (proc[q].read \in 1 .. version /\ vwc' # None /\ vwc \in Vwcs
                           /\ vwc' = Patched(Template(proc[q].read), vwc))
        BY <1>1, <2>1, StepEffect
      <3>2. ASSUME proc[q].read \in 1 .. version
            PROVE  Template(proc[q].read) \in Templates
        <4>1. proc[q].read \in 1 .. Len(Shipped) /\ TypeOK
          BY <1>1, <3>2, VwcAssumption DEF IInv, TypeOK
        <4> QED
          BY <4>1, TemplateTyped
      <3> QED
        BY <1>1, <3>1, <3>2, Effects
    <2>2. ASSUME NEW q \in Pods, Restart(q) \/ Fail(q) PROVE vwc' = vwc
      BY <2>2 DEF Restart, Fail
    <2>3. Upgrade => vwc' = vwc
      BY DEF Upgrade
    <2>4. ~Edit
      BY <1>1 DEF Edit, IInv, TypeOK
    <2> QED
      BY <1>1, <2>1, <2>2, <2>3, <2>4 DEF Next
  <1>2. IInv /\ [Next]_vars =>
          [vwc # None /\ edits' = edits =>
             vwc' # None /\ vwc'.other = vwc.other /\ vwc'.neighbour = vwc.neighbour]_vars
    BY <1>1 DEF vars
  <1> QED
    BY <1>2, Invariance, PTL DEF Spec, KeepsOtherFields

-----------------------------------------------------------------------------
(* What is repaired stays repaired: the safety half of RepairsDrift *)

Current == vwc # None /\ InForce(Template(version), vwc)

(* Quiet lasts: from here on the replicas read the last version only. *)
LEMMA QuietLasts == IInv /\ Quiet /\ [Next]_vars => Quiet'
  <1> SUFFICES ASSUME IInv, Quiet, [Next]_vars PROVE Quiet'
    OBVIOUS
  <1> DEFINE late == {"reread", "find_webhook", "read_configmap", "patch", "create"}
  <1>0. /\ edits = MaxEdits /\ version = Len(Shipped) /\ \A q \in Pods : proc[q].pc \in late => proc[q].read = version
        /\ proc \in [Pods -> [pc : Labels, found : BOOLEAN, read : 0 .. Len(Shipped)]]
    BY DEF Quiet, IInv, TypeOK
  <1>1. ASSUME NEW p \in Pods, Step(p) \/ Restart(p) \/ Fail(p) PROVE Quiet'
    <2>1. UNCHANGED <<edits, version>> /\ \A q \in Pods \ {p} : proc'[q] = proc[q]
      BY <1>0, <1>1 DEF Step, ReadVwc, ListNamespaces, ReadConfigMap, FindWebhook, Reread, Patch,
         Create, Restart, Fail, Goto, Exit
    <2>2. proc'[p].pc \in late => proc'[p].read = version
      BY <1>0, <1>1 DEF Step, ReadVwc, ListNamespaces, ReadConfigMap, FindWebhook, Reread, Patch,
         Create, Restart, Fail, Goto, Exit, At, Fresh
    <2> QED
      BY <1>0, <2>1, <2>2 DEF Quiet
  <1>2. ~Edit /\ ~Upgrade
    BY <1>0, VwcAssumption DEF Edit, Upgrade
  <1> QED
    BY <1>0, <1>1, <1>2 DEF Next, vars, Quiet

LEMMA CurrentLasts == IInv /\ Quiet /\ Current /\ [Next]_vars => Current'
  <1> SUFFICES ASSUME IInv, Quiet, Current, [Next]_vars PROVE Current'
    OBVIOUS
  <1>0. edits = MaxEdits /\ version = Len(Shipped)
    BY DEF Quiet
  <1>1. ASSUME UNCHANGED <<version, platform>>,
               vwc' # None, InForce(Template(version), vwc')
        PROVE  Current'
    BY <1>1 DEF Current, InForce, Template, RootCA
  <1>2. ASSUME NEW p \in Pods, Step(p) PROVE Current'
    <2>1. UNCHANGED <<version, platform>>
      BY <1>2 DEF Step, ReadVwc, ListNamespaces, ReadConfigMap, FindWebhook, Reread, Patch, Create
    <2>2. CASE vwc' = vwc
      BY <1>1, <2>1, <2>2 DEF Current
    <2>3. CASE vwc' # vwc
      <3>1. vwc' # None /\ InForce(Template(proc[p].read), vwc') /\ proc[p].pc \in {"create", "patch"}
        BY <1>2, <2>3, StepEffect DEF At
      <3>2. proc[p].read = version
        BY <3>1 DEF Quiet
      <3> QED
        BY <1>1, <2>1, <3>1, <3>2
    <2> QED
      BY <2>2, <2>3
  <1>3. ASSUME NEW p \in Pods, Restart(p) \/ Fail(p) PROVE Current'
    BY <1>1, <1>3 DEF Restart, Fail, Current
  <1>4. ~Edit /\ ~Upgrade
    BY <1>0, VwcAssumption DEF Edit, Upgrade
  <1>5. CASE UNCHANGED vars
    BY <1>1, <1>5 DEF vars, Current
  <1> QED
    BY <1>2, <1>3, <1>4, <1>5 DEF Next

(* Once no more edits and versions come and no replica holds an older one,  *)
(* a VWC with the current version of the template in force keeps it,        *)
(* whichever replicas still patch it, start over or fail.                   *)
THEOREM RepairLasts ==
  Spec => [](Quiet /\ vwc # None /\ InForce(Template(version), vwc)
               => [](vwc # None /\ InForce(Template(version), vwc)))
  <1>1. Spec => [](Quiet /\ Current => []Current)
    BY Invariance, QuietLasts, CurrentLasts, PTL DEF Spec
  <1> QED
    BY <1>1, PTL DEF Current

=============================================================================
