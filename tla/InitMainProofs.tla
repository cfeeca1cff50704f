--------------------------- MODULE InitMainProofs ---------------------------
(* Theorems about InitMain, for every set of replicas and every bound: what *)
(* is proved of TlsInit and of VwcInit holds in the container that runs     *)
(* both, and what follows for their composition.                            *)
EXTENDS InitMain, TLAPS

TP == INSTANCE TlsInitProofs
VP == INSTANCE VwcInitProofs

-----------------------------------------------------------------------------
(* T and TP, and V and VP, instantiate the same definitions *)

LEMMA TlsAssumed == TP!TlsAssumption
  BY InitMainAssumption DEF T!TlsAssumption, T!Keys, T!Secrets, T!CSRs, T!Pairs,
     TP!TlsAssumption, TP!Keys, TP!Secrets, TP!CSRs, TP!Pairs

LEMMA VwcAssumed == VP!VwcAssumption
  BY InitMainAssumption DEF V!VwcAssumption, V!CAs, V!Vwcs, VP!VwcAssumption, VP!CAs, VP!Vwcs

LEMMA SameInit == Init => TP!Init /\ VP!Init
  BY DEF Init, T!Init, T!NoPair, T!Proc, T!Fresh, TP!Init, TP!NoPair, TP!Proc, TP!Fresh,
     V!Init, V!Fresh, VP!Init, VP!Fresh

LEMMA SameTls == T!Next => TP!Next
  BY DEF T!Next, T!Step, T!ReadSecret, T!ReadCA, T!GenerateKey, T!Decide, T!CsrRead, T!CsrDelete,
     T!CsrCreate, T!CsrStatus, T!CsrApprove, T!CsrPoll, T!PollTimeout, T!SecretCreate,
     T!SecretVerify, T!Wait, T!WriteCert, T!WriteKey, T!Sign, T!Age, T!Restart, T!Kill,
     T!ExitOnError, T!ApiError, T!NoPair, T!PairOf, T!Proc, T!Fresh, T!At, T!Become, T!Goto,
     T!Exit, T!IsBlank, T!ShouldUpdate, T!Byoc, T!WriteStage, T!Issued,
     TP!Next, TP!Step, TP!ReadSecret, TP!ReadCA, TP!GenerateKey, TP!Decide, TP!CsrRead,
     TP!CsrDelete, TP!CsrCreate, TP!CsrStatus, TP!CsrApprove, TP!CsrPoll, TP!PollTimeout,
     TP!SecretCreate, TP!SecretVerify, TP!Wait, TP!WriteCert, TP!WriteKey, TP!Sign, TP!Age,
     TP!Restart, TP!Kill, TP!ExitOnError, TP!ApiError, TP!NoPair, TP!PairOf, TP!Proc, TP!Fresh,
     TP!At, TP!Become, TP!Goto, TP!Exit, TP!IsBlank, TP!ShouldUpdate, TP!Byoc, TP!WriteStage,
     TP!Issued

LEMMA SameVwc ==
  /\ \A p \in Pods : V!Step(p) \/ V!Restart(p) \/ V!Fail(p) => VP!Next
  /\ V!Edit \/ V!Upgrade => VP!Next
  BY DEF V!Step, V!ReadVwc, V!ListNamespaces, V!ReadConfigMap, V!FindWebhook, V!Reread, V!Patch,
     V!Create, V!Restart, V!Fail, V!Edit, V!Upgrade, V!Template, V!RootCA, V!magtape_tls_byoc,
     V!Continues, V!InForce, V!Covers, V!Patched, V!Defaulted, V!At, V!Goto, V!Exit, V!Fresh,
     VP!Next, VP!Step, VP!ReadVwc, VP!ListNamespaces, VP!ReadConfigMap, VP!FindWebhook,
     VP!Reread, VP!Patch, VP!Create, VP!Restart, VP!Fail, VP!Edit, VP!Upgrade, VP!Template,
     VP!RootCA, VP!magtape_tls_byoc, VP!Continues, VP!InForce, VP!Covers, VP!Patched,
     VP!Defaulted, VP!At, VP!Goto, VP!Exit, VP!Fresh

-----------------------------------------------------------------------------
(* The inductive invariant *)

(* A replica that has begun with init_vwc is done with init_tls_pair. *)
InOrder == \A p \in Pods : proc[p].pc # "read_vwc" => pod[p].pc = "done"

TlsInv == TP!IInv /\ TP!HoldKeys

MInv == TlsInv /\ VP!IInv /\ InOrder

(* TlsInit's part is about TlsInit's variables, VwcInit's about VwcInit's;  *)
(* they share the count of faults.                                          *)
LEMMA TlsFrame ==
  ASSUME TlsInv, UNCHANGED tlsVars, faults' \in 0 .. MaxFaults
  PROVE  TlsInv'
  <1>1. TP!TypeOK'
    BY DEF TlsInv, TP!IInv, TP!TypeOK, tlsVars
  <1>2. ASSUME NEW p \in Pods PROVE TP!PodInv(p)'
    BY DEF TlsInv, TP!IInv, TP!PodInv, TP!MakesOwn, TP!ReadStored, TP!HoldsStored, TP!Written,
       TP!ByocChecked, TP!At, tlsVars
  <1>3. TP!HoldKeys'
    BY DEF TlsInv, TP!HoldKeys, TP!HoldsKeys, tlsVars
  <1> QED
    BY <1>1, <1>2, <1>3 DEF TlsInv, TP!IInv

LEMMA VwcFrame ==
  ASSUME VP!IInv, UNCHANGED vwcVars, faults' \in 0 .. MaxFaults
  PROVE  VP!IInv'
  <1>1. VP!TypeOK'
    BY DEF VP!IInv, VP!TypeOK, vwcVars
  <1>2. ASSUME NEW p \in Pods PROVE VP!Checked(p)'
    BY DEF VP!IInv, VP!Checked, vwcVars
  <1>3. VP!DoneMeansInstalled'
    BY DEF VP!IInv, VP!DoneMeansInstalled, VP!At, VP!InForce, VP!Template, VP!RootCA, vwcVars
  <1> QED
    BY <1>1, <1>2, <1>3 DEF VP!IInv

LEMMA InitMInv == Init => MInv
  <1> SUFFICES ASSUME Init PROVE MInv
    OBVIOUS
  <1>1. TlsInv
    BY SameInit, TlsAssumed, TP!InitIInv, TP!InitHoldKeys DEF TlsInv
  <1>2. VP!IInv
    BY SameInit, VwcAssumed, VP!InitIInv
  <1>3. InOrder
    BY DEF Init, V!Init, V!Fresh, InOrder
  <1> QED
    BY <1>1, <1>2, <1>3 DEF MInv

(* A step of init_tls_pair, the signer or the clock. *)
LEMMA TlsStep ==
  ASSUME MInv, T!Next, UNCHANGED vwcVars
  PROVE  /\ MInv' /\ TP!SecretKept
         /\ \A p \in Pods : /\ Serving(p) => pod'[p] = pod[p] /\ files'[p] = files[p]
                            /\ TP!Filled(p) => TP!Filled(p)'
  <1>1. TP!IInv /\ TP!HoldKeys /\ [TP!Next]_(TP!vars)
    BY SameTls DEF MInv, TlsInv
  <1>2. TlsInv'
    BY <1>1, TlsAssumed, TP!NextIInv, TP!NextHoldKeys DEF TlsInv
  <1>3. faults' \in 0 .. MaxFaults
    BY <1>2 DEF TlsInv, TP!IInv, TP!TypeOK
  <1>4. VP!IInv'
    BY <1>3, VwcFrame DEF MInv
  <1>5. /\ TP!SecretKept
        /\ \A p \in Pods : /\ TP!At(p, "done") => pod'[p] = pod[p] /\ files'[p] = files[p]
                           /\ TP!Filled(p) => TP!Filled(p)'
    BY <1>1, TlsAssumed, TP!InPlace
  <1>6. InOrder' /\ \A p \in Pods : Serving(p) => TP!At(p, "done")
    BY <1>5 DEF MInv, InOrder, TP!At, vwcVars, Serving, V!At
  <1> QED
    BY <1>2, <1>4, <1>5, <1>6 DEF MInv

(* A step of init_vwc, or one of an operator on the VWC or its template. *)
LEMMA VwcStep ==
  ASSUME MInv, UNCHANGED tlsVars,
         \/ V!Edit \/ V!Upgrade
         \/ \E p \in Pods : RunVwc(p)
  PROVE  MInv'
  <1>1. VP!IInv /\ [VP!Next]_(VP!vars)
    BY SameVwc DEF MInv, RunVwc
  <1>2. VP!IInv'
    BY <1>1, VwcAssumed, VP!NextIInv
  <1>3. faults' \in 0 .. MaxFaults
    BY <1>2 DEF VP!IInv, VP!TypeOK
  <1>4. TlsInv'
    BY <1>3, TlsFrame DEF MInv
  <1>5. InOrder'
    <2>1. CASE V!Edit \/ V!Upgrade
      BY <2>1 DEF V!Edit, V!Upgrade, MInv, InOrder, tlsVars
    <2>2. ASSUME NEW p \in Pods, RunVwc(p) PROVE InOrder'
      <3>1. pod[p].pc = "done" /\ pod' = pod
        BY <2>2 DEF RunVwc, T!At, tlsVars
      <3>2. \A q \in Pods \ {p} : proc'[q] = proc[q]
        BY <2>2, <1>1 DEF RunVwc, V!Step, V!ReadVwc, V!ListNamespaces, V!ReadConfigMap,
           V!FindWebhook, V!Reread, V!Patch, V!Create, V!Fail, V!Goto, V!Exit, VP!IInv, VP!TypeOK
      <3> QED
        BY <3>1, <3>2 DEF MInv, InOrder
    <2> QED
      BY <2>1, <2>2
  <1> QED
    BY <1>2, <1>4, <1>5 DEF MInv

(* The container starts again; its files stay. *)
LEMMA RestartStep ==
  ASSUME MInv, NEW p \in Pods, RestartMain(p)
  PROVE  MInv'
  <1>0. /\ V!Restart(p) /\ UNCHANGED <<secret, ca, csr, files, gen, faults>>
        /\ pod' = [pod EXCEPT ![p] = TP!Fresh("read_secret")]
        /\ TP!IInv /\ TP!HoldKeys /\ VP!IInv
    BY DEF RestartMain, V!Restart, MInv, TlsInv, T!Fresh, T!Proc, T!NoPair, TP!Fresh, TP!Proc,
       TP!NoPair
  <1>1. VP!IInv'
    <2>1. [VP!Next]_(VP!vars)
      BY <1>0, SameVwc
    <2> QED
      BY <1>0, <2>1, VwcAssumed, VP!NextIInv
  <1>2. /\ pod' \in [Pods -> TP!Process] /\ pod'[p] = TP!Fresh("read_secret")
        /\ \A q \in Pods \ {p} : pod'[q] = pod[q]
    <2>1. TP!Fresh("read_secret") \in TP!Process
      BY DEF TP!Fresh, TP!Proc, TP!NoPair, TP!Process, TP!Labels
    <2> QED
      BY <1>0, <2>1 DEF TP!IInv, TP!TypeOK
  <1>3. TP!IInv'
    <2>1. TP!TypeOK'
      BY <1>0, <1>2 DEF TP!IInv, TP!TypeOK
    <2>2. TP!PodInv(p)'
      BY <1>2, TlsAssumed, TP!FreshInv
    <2>3. TP!SecretKept
      BY <1>0 DEF TP!SecretKept, TP!PairOf
    <2> QED
      BY <1>0, <1>2, <2>1, <2>2, <2>3, TlsAssumed, TP!OneReplica
  <1>4. TP!HoldKeys'
    BY <1>0, <1>2 DEF TP!HoldKeys, TP!HoldsKeys, TP!Storing, TP!Fresh, TP!Proc
  <1>5. InOrder'
    <2>1. proc' = [proc EXCEPT ![p] = V!Fresh("read_vwc")] /\ p \in DOMAIN proc
      BY <1>0 DEF V!Restart, VP!IInv, VP!TypeOK
    <2>2. proc'[p].pc = "read_vwc" /\ \A q \in Pods \ {p} : proc'[q] = proc[q]
      BY <2>1 DEF V!Fresh
    <2> QED
      BY <1>2, <2>2 DEF MInv, InOrder
  <1> QED
    BY <1>1, <1>3, <1>4, <1>5 DEF MInv, TlsInv

LEMMA NextMInv == MInv /\ [Next]_vars => MInv'
  <1> SUFFICES ASSUME MInv, [Next]_vars PROVE MInv'
    OBVIOUS
  <1>1. CASE UNCHANGED vars
    <2>1. faults' \in 0 .. MaxFaults /\ UNCHANGED tlsVars /\ UNCHANGED vwcVars
      BY <1>1 DEF vars, MInv, VP!IInv, VP!TypeOK
    <2>2. InOrder'
      BY <2>1 DEF MInv, InOrder, tlsVars, vwcVars
    <2> QED
      BY <2>1, <2>2, TlsFrame, VwcFrame DEF MInv
  <1>2. CASE T!Next /\ UNCHANGED vwcVars
    BY <1>2, TlsStep
  <1>3. ASSUME NEW p \in Pods, RunVwc(p) PROVE MInv'
    BY <1>3, VwcStep DEF RunVwc
  <1>4. ASSUME NEW p \in Pods, RestartMain(p) PROVE MInv'
    BY <1>4, RestartStep
  <1>5. CASE (V!Edit \/ V!Upgrade) /\ UNCHANGED tlsVars
    BY <1>5, VwcStep
  <1> QED
    BY <1>1, <1>2, <1>3, <1>4, <1>5 DEF Next

LEMMA Invariance == Spec => []MInv
  BY InitMInv, NextMInv, PTL DEF Spec

-----------------------------------------------------------------------------
(* What a replica serves *)

LEMMA MInvAgree ==
  ASSUME MInv, NEW p \in Pods, Serving(p), ~T!Rotates(pod[p].seen)
  PROVE  secret # None /\ files[p] = T!PairOf(secret)
  <1>1. TP!At(p, "done")
    BY DEF Serving, V!At, MInv, InOrder, TP!At
  <1>2. TP!ReplicasAgree
    BY TlsAssumed, TP!IInvAgree DEF MInv, TlsInv
  <1>3. ~TP!Rotates(pod[p].seen)
    BY DEF T!Rotates, T!ShouldUpdate, T!IsBlank, TP!Rotates, TP!ShouldUpdate, TP!IsBlank
  <1>4. secret # None /\ files[p] = TP!PairOf(secret)
    BY <1>1, <1>2, <1>3 DEF TP!ReplicasAgree
  <1> QED
    BY <1>4 DEF T!PairOf, TP!PairOf

(* Replicas agree on the pair they serve also when exits of init_vwc make   *)
(* some of them run init_tls_pair again, on the files of the first run.     *)
THEOREM Agreement == Spec => []ServingAgree
  <1>1. MInv => ServingAgree
    BY MInvAgree DEF ServingAgree
  <1> QED
    BY <1>1, Invariance, PTL

(* Where nobody edits the VWC, the API server trusts every certificate that *)
(* MagTape requested, whichever replica wrote the VWC and from whichever    *)
(* version of its template, on plain clusters and on PKS.                   *)
THEOREM Trust == Spec => []GeneratedPairTrusted
  <1>1. ASSUME MInv, NEW p \in Pods, Serving(p), edits = 0, files[p].cert # ExtKey
        PROVE  vwc.caBundle = Issuer(files[p].cert)
    <2>1. PICK v \in 1 .. version : VP!InForce(VP!Template(v), vwc)
      BY <1>1 DEF Serving, V!At, MInv, VP!IInv, VP!DoneMeansInstalled, VP!At
    <2>2. vwc.caBundle = VP!RootCA(FALSE)
      BY <2>1 DEF VP!InForce, VP!Template, VP!magtape_tls_byoc
    <2> QED
      BY <1>1, <2>2 DEF VP!RootCA, Issuer
  <1>2. MInv => GeneratedPairTrusted
    BY <1>1 DEF GeneratedPairTrusted
  <1> QED
    BY <1>2, Invariance, PTL

-----------------------------------------------------------------------------
(* The servers' election of a pair *)

Chosen == IF secret = None THEN None ELSE T!PairOf(secret)
Serves == [p \in Pods |-> IF Serving(p) /\ ~T!Rotates(pod[p].seen) THEN files[p] ELSE None]

LEMMA ChosenTyped == MInv => Chosen \in T!Pairs \cup {None} /\ (secret # None => Chosen # None)
  <1> SUFFICES ASSUME MInv, secret # None PROVE Chosen \in T!Pairs /\ Chosen # None
    BY DEF Chosen
  <1>1. Chosen \in T!Pairs
    BY DEF MInv, TlsInv, TP!IInv, TP!TypeOK, TP!Secrets, TP!Keys, Chosen, T!PairOf, T!Pairs, T!Keys
  <1>2. None \notin T!Pairs
    BY InitMainAssumption DEF T!TlsAssumption
  <1> QED
    BY <1>1, <1>2

LEMMA InitElects == Init => Election!Init
  <1> SUFFICES ASSUME Init PROVE Election!Init
    OBVIOUS
  <1>1. Chosen \in T!Pairs \cup {None}
    BY InitMInv, ChosenTyped
  <1>2. Serves = [p \in Pods |-> None]
    BY DEF Init, V!Init, V!Fresh, Serves, Serving, V!At
  <1> QED
    BY <1>1, <1>2 DEF Election!Init, Chosen, Serves

(* A step in which the server of p neither runs nor starts, and those that  *)
(* run keep what they serve.                                                *)
LEMMA ServesKept ==
  ASSUME \A p \in Pods : /\ (Serving(p)' <=> Serving(p))
                         /\ Serving(p) => pod'[p] = pod[p] /\ files'[p] = files[p]
  PROVE  Serves' = Serves
  BY DEF Serves, T!Rotates, T!ShouldUpdate, T!IsBlank

LEMMA NextElects == MInv /\ MInv' /\ [Next]_vars => [Election!Next]_(Election!vars)
  <1> SUFFICES ASSUME MInv, MInv', [Next]_vars
               PROVE  \/ Chosen' = Chosen /\ Serves' = Serves
                      \/ Chosen = None /\ Chosen' \in T!Pairs /\ Serves' = Serves
                      \/ \E p \in Pods : /\ Chosen # None /\ Chosen' = Chosen
                                         /\ Serves[p] = None
                                         /\ Serves' = [Serves EXCEPT ![p] = Chosen]
    BY DEF Election!Next, Election!Choose, Election!Adopt, Election!vars, Chosen, Serves
  <1>1. CASE UNCHANGED vars
    BY <1>1 DEF vars, tlsVars, vwcVars, Chosen, Serves, Serving, V!At, T!PairOf, T!Rotates,
       T!ShouldUpdate, T!IsBlank
  <1>2. CASE T!Next /\ UNCHANGED vwcVars
    <2>1. Serves' = Serves
      BY <1>2, TlsStep, ServesKept DEF Serving, V!At, vwcVars
    <2>2. secret # None => Chosen' = Chosen
      BY <1>2, TlsStep DEF TP!SecretKept, TP!PairOf, Chosen, T!PairOf
    <2>3. (Chosen \in T!Pairs \cup {None} /\ (secret # None => Chosen # None))'
      BY ChosenTyped, PTL
    <2> QED
      BY <2>1, <2>2, <2>3 DEF Chosen
  <1>3. ASSUME NEW p \in Pods, RunVwc(p)
        PROVE  \/ Chosen' = Chosen /\ Serves' = Serves
               \/ /\ Chosen # None /\ Chosen' = Chosen
                  /\ Serves[p] = None /\ Serves' = [Serves EXCEPT ![p] = Chosen]
    <2>1. /\ UNCHANGED <<secret, pod, files>> /\ Chosen' = Chosen
          /\ ~Serving(p) /\ \A q \in Pods \ {p} : (Serving(q)' <=> Serving(q))
      BY <1>3 DEF RunVwc, tlsVars, Chosen, T!PairOf, Serving, V!At, V!Step, V!ReadVwc,
         V!ListNamespaces, V!ReadConfigMap, V!FindWebhook, V!Reread, V!Patch, V!Create, V!Fail,
         V!Goto, V!Exit, MInv, VP!IInv, VP!TypeOK
    <2>2. CASE ~Serving(p)'
      BY <2>1, <2>2, ServesKept
    <2>3. CASE Serving(p)' /\ T!Rotates(pod[p].seen)
      <3>1. Serves' = Serves
        BY <2>1, <2>3 DEF Serves, T!Rotates, T!ShouldUpdate, T!IsBlank
      <3> QED
        BY <2>1, <3>1
    <2>4. CASE Serving(p)' /\ ~T!Rotates(pod[p].seen)
      <3>1. secret # None /\ files[p] = Chosen
        <4>1. MInv' /\ Serving(p)' /\ ~T!Rotates(pod[p].seen)'
          BY <2>1, <2>4 DEF T!Rotates, T!ShouldUpdate, T!IsBlank
        <4>2. (secret # None /\ files[p] = T!PairOf(secret))'
          BY <4>1, MInvAgree, PTL
        <4> QED
          BY <2>1, <4>2 DEF Chosen
      <3>2. Chosen # None
        BY <3>1, ChosenTyped
      <3>3. \A q \in Pods : Serves'[q] = IF q = p THEN Chosen ELSE Serves[q]
        BY <2>1, <2>4, <3>1 DEF Serves, T!Rotates, T!ShouldUpdate, T!IsBlank
      <3>4. Serves[p] = None /\ Serves' = [Serves EXCEPT ![p] = Chosen]
        BY <2>1, <3>3 DEF Serves
      <3> QED
        BY <2>1, <3>2, <3>4
    <2> QED
      BY <2>2, <2>3, <2>4
  <1>4. ASSUME NEW p \in Pods, RestartMain(p)
        PROVE  Chosen' = Chosen /\ Serves' = Serves
    <2>1. /\ UNCHANGED <<secret, files>> /\ ~Serving(p) /\ ~Serving(p)'
          /\ \A q \in Pods \ {p} : pod'[q] = pod[q] /\ (Serving(q)' <=> Serving(q))
      BY <1>4 DEF RestartMain, V!Restart, V!Fresh, Serving, V!At, MInv, TlsInv, TP!IInv, TP!TypeOK,
         VP!IInv, VP!TypeOK
    <2> QED
      BY <2>1, ServesKept DEF Chosen, T!PairOf
  <1>5. CASE (V!Edit \/ V!Upgrade) /\ UNCHANGED tlsVars
    <2>1. UNCHANGED <<secret, pod, files, proc>>
      BY <1>5 DEF V!Edit, V!Upgrade, tlsVars
    <2> QED
      BY <2>1, ServesKept DEF Chosen, T!PairOf, Serving, V!At
  <1> QED
    BY <1>1, <1>2, <1>3, <1>4, <1>5 DEF Next

(* Seen from the servers that start, the whole init container implements    *)
(* the single choice of a pair, and what a server starts with it keeps.     *)
THEOREM Refinement == Spec => ServersElect
  <1>1. Election!Init /\ [][Election!Next]_(Election!vars) => ServersElect
    BY DEF ServersElect, Election!Spec
  <1> QED
    BY <1>1, InitElects, NextElects, InitMInv, NextMInv, Invariance, PTL DEF Spec

-----------------------------------------------------------------------------
(* Registered only when it can be served *)

(* RegisteredWhenServable, with keys for "not blank". *)
Servable == vwc # None => secret # None /\ \E p \in Pods : TP!Filled(p)

LEMMA NextServable == MInv /\ Servable /\ [Next]_vars => Servable'
  <1> SUFFICES ASSUME MInv, Servable, [Next]_vars, vwc' # None
               PROVE  secret' # None /\ \E p \in Pods : TP!Filled(p)'
    BY DEF Servable
  <1>1. ASSUME vwc # None, UNCHANGED <<secret, files>>
        PROVE  secret' # None /\ \E p \in Pods : TP!Filled(p)'
    BY <1>1 DEF Servable, TP!Filled
  <1>2. CASE UNCHANGED vars
    BY <1>1, <1>2 DEF vars, tlsVars, vwcVars
  <1>3. CASE T!Next /\ UNCHANGED vwcVars
    BY <1>3, TlsStep DEF Servable, vwcVars, TP!SecretKept
  <1>4. ASSUME NEW p \in Pods, RunVwc(p)
        PROVE  secret' # None /\ \E q \in Pods : TP!Filled(q)'
    <2>1. TP!At(p, "done") /\ UNCHANGED <<secret, files>>
      BY <1>4 DEF RunVwc, T!At, TP!At, tlsVars
    <2>2. secret # None /\ TP!Filled(p)
      BY <2>1, TlsAssumed, TP!DoneFilled DEF MInv, TlsInv
    <2> QED
      BY <2>1, <2>2 DEF TP!Filled
  <1>5. ASSUME NEW p \in Pods, RestartMain(p)
        PROVE  secret' # None /\ \E q \in Pods : TP!Filled(q)'
    BY <1>1, <1>5 DEF RestartMain, V!Restart
  <1>6. CASE (V!Edit \/ V!Upgrade) /\ UNCHANGED tlsVars
    BY <1>1, <1>6 DEF V!Edit, V!Upgrade, tlsVars
  <1> QED
    BY <1>2, <1>3, <1>4, <1>5, <1>6 DEF Next

(* On a cluster without a VWC: whichever replicas race, crash or start over *)
(* and whatever is deleted in between, the webhook is registered only after *)
(* a pair is stored and some replica has both its files.                    *)
THEOREM Registration ==
  ASSUME InitVwcs \subseteq {None}
  PROVE  Spec => []RegisteredWhenServable
  <1>1. Init => Servable
    BY DEF Init, V!Init, Servable
  <1>2. Spec => [](MInv /\ Servable)
    BY <1>1, NextServable, InitMInv, NextMInv, PTL DEF Spec
  <1>3. ASSUME Servable PROVE RegisteredWhenServable
    BY <1>3, TlsAssumed DEF Servable, RegisteredWhenServable, TP!Filled, TP!TlsAssumption
  <1> QED
    BY <1>2, <1>3, PTL
=============================================================================
