--------------------------- MODULE TlsInitProofs ---------------------------
(* Theorems about TlsInit, for every set of replicas and every bound. *)
EXTENDS TlsInit, TLAPS

(* A replica that is making or storing a pair of its own has its key, and,  *)
(* after the poll, a certificate; it read no secret, or one to be rotated.  *)
MakesOwn(p) ==
    /\ pod[p].pc \in CsrSteps => /\ pod[p].pair.key \in Keys
                                 /\ pod[p].seen = None \/ Rotates(pod[p].seen)
    /\ At(p, "csr_approve") => pod[p].req \in CSRs
    /\ At(p, "sec_create") => /\ pod[p].pair.cert \in Keys /\ pod[p].pair.key \in Keys
                              /\ pod[p].seen = None

(* What a replica read is still what the secret holds. *)
ReadStored(p) ==
    pod[p].seen # None => secret # None /\ PairOf(secret) = PairOf(pod[p].seen)

(* Up to the decision the local pair is the one that was read; past it, a   *)
(* replica that does not rotate holds the stored pair.                      *)
HoldsStored(p) ==
    /\ pod[p].pc \in {"read_ca", "decide"} /\ pod[p].seen # None =>
         pod[p].pair = PairOf(pod[p].seen)
    /\ At(p, "read_ca") \/ At(p, "wait") => pod[p].seen # None
    /\ /\ pod[p].pc \in {"wait", "sec_verify", "write_cert", "write_key", "done"}
       /\ ~Rotates(pod[p].seen)
       => secret # None /\ pod[p].pair = PairOf(secret)

(* The files hold what has been written of the local pair. *)
Written(p) ==
    /\ pod[p].pc \in {"write_key", "done"} => files[p].cert = pod[p].pair.cert
    /\ At(p, "done") => files[p].key = pod[p].pair.key

(* Past check_for_byoc, an operator's pair has its CA. *)
ByocChecked(p) ==
    Byoc(pod[p].seen) /\ ~At(p, "read_ca") => ca = "ok"

PodInv(p) == MakesOwn(p) /\ ReadStored(p) /\ HoldsStored(p) /\ Written(p) /\ ByocChecked(p)

IInv == TypeOK /\ \A p \in Pods : PodInv(p)

-----------------------------------------------------------------------------
(* How the three kinds of local step change the processes *)

PodsTyped == pod \in [Pods -> Process]

LEMMA BecomeEffect ==
  ASSUME PodsTyped, NEW p \in Pods, NEW r \in Process, Become(p, r)
  PROVE  PodsTyped' /\ pod'[p] = r /\ \A q \in Pods \ {p} : pod'[q] = pod[q]
  BY DEF PodsTyped, Become

LEMMA GotoEffect ==
  ASSUME PodsTyped, NEW p \in Pods, NEW l \in Labels, Goto(p, l)
  PROVE  /\ PodsTyped' /\ \A q \in Pods \ {p} : pod'[q] = pod[q]
         /\ pod'[p] = Proc(l, pod[p].seen, pod[p].pair, pod[p].req)
  <1>1. Proc(l, pod[p].seen, pod[p].pair, pod[p].req) \in Process
    BY DEF PodsTyped, Process, Proc
  <1> QED
    BY <1>1, BecomeEffect DEF Goto

LEMMA ExitEffect ==
  ASSUME PodsTyped, NEW p \in Pods, Exit(p)
  PROVE  /\ PodsTyped' /\ \A q \in Pods \ {p} : pod'[q] = pod[q]
         /\ pod'[p] = Fresh("crashed")
  <1>1. Fresh("crashed") \in Process
    BY DEF Fresh, Proc, NoPair, Process, Labels
  <1> QED
    BY <1>1, BecomeEffect DEF Exit

-----------------------------------------------------------------------------
(* The inductive invariant *)

LEMMA InitIInv == Init => IInv
  <1> SUFFICES ASSUME Init PROVE IInv
    OBVIOUS
  <1>1. TypeOK
    BY TlsAssumption DEF Init, TypeOK, Fresh, Proc, NoPair, Process, Labels, CSRs, Keys
  <1>2. ASSUME NEW p \in Pods PROVE PodInv(p)
    <2>1. pod[p] = Fresh("read_secret")
      BY DEF Init
    <2> QED
      BY <2>1 DEF PodInv, MakesOwn, ReadStored, HoldsStored, Written, ByocChecked, Byoc, At,
         Fresh, Proc, CsrSteps
  <1> QED
    BY <1>1, <1>2 DEF IInv

(* A step leaves PodInv of a replica alone when it changes neither the      *)
(* replica nor the pair in an existing secret.                              *)
SecretKept == secret # None => secret' # None /\ PairOf(secret') = PairOf(secret)

LEMMA Frame ==
  ASSUME NEW q \in Pods, PodInv(q), pod'[q] = pod[q], files'[q] = files[q], ca' = ca, SecretKept
  PROVE  PodInv(q)'
  BY DEF PodInv, MakesOwn, ReadStored, HoldsStored, Written, ByocChecked, At, SecretKept

(* A process that was just reset satisfies its part of the invariant. *)
LEMMA FreshInv ==
  ASSUME NEW p \in Pods, NEW l \in {"crashed", "read_secret"}, pod'[p] = Fresh(l)
  PROVE  PodInv(p)'
  BY DEF PodInv, MakesOwn, ReadStored, HoldsStored, Written, ByocChecked, Byoc, At,
     Fresh, Proc, CsrSteps

(* What a step of one replica must show. *)
LEMMA OneReplica ==
  ASSUME IInv, NEW p \in Pods, TypeOK', \A q \in Pods \ {p} : pod'[q] = pod[q] /\ files'[q] = files[q],
         ca' = ca, SecretKept, PodInv(p)'
  PROVE  IInv'
  <1>1. ASSUME NEW q \in Pods \ {p} PROVE PodInv(q)'
    BY <1>1, Frame DEF IInv
  <1> QED
    BY <1>1 DEF IInv

(* Exits change nothing but the process and the count of faults. *)
LEMMA ExitStep ==
  ASSUME IInv, NEW p \in Pods, Exit(p), faults' \in 0 .. MaxFaults,
         UNCHANGED <<secret, ca, csr, files, gen>>
  PROVE  IInv'
  <1>1. PodsTyped' /\ pod'[p] = Fresh("crashed") /\ \A q \in Pods \ {p} : pod'[q] = pod[q]
    BY ExitEffect DEF IInv, TypeOK, PodsTyped
  <1>2. TypeOK'
    BY <1>1 DEF IInv, TypeOK, PodsTyped
  <1>3. PodInv(p)'
    BY <1>1, FreshInv
  <1> QED
    BY <1>1, <1>2, <1>3, OneReplica DEF SecretKept

(* Steps that move one process from l to m and change nothing else. *)
LEMMA MoveStep ==
  ASSUME IInv, NEW p \in Pods, NEW m \in Labels, Goto(p, m),
         UNCHANGED <<secret, ca, csr, files, gen, faults>>,
         PodInv(p)'
  PROVE  IInv'
  <1>1. PodsTyped' /\ \A q \in Pods \ {p} : pod'[q] = pod[q]
    BY GotoEffect DEF IInv, TypeOK, PodsTyped
  <1>2. TypeOK'
    BY <1>1 DEF IInv, TypeOK, PodsTyped
  <1> QED
    BY <1>1, <1>2, OneReplica DEF SecretKept

-----------------------------------------------------------------------------
(* One lemma per step *)

LEMMA ReadSecretStep ==
  ASSUME IInv, NEW p \in Pods, ReadSecret(p)
  PROVE  IInv'
  <1> USE DEF ReadSecret
  <1>1. CASE secret = None
    <2>1. Goto(p, "decide")
      BY <1>1
    <2>2. pod'[p] = Proc("decide", pod[p].seen, pod[p].pair, pod[p].req)
      BY <2>1, GotoEffect DEF Labels, IInv, TypeOK, PodsTyped
    <2>3. PodInv(p)'
      BY <1>1, <2>2 DEF PodInv, MakesOwn, ReadStored, HoldsStored, Written, ByocChecked, Byoc, At, Proc, IInv, CsrSteps
    <2> QED
      BY <2>1, <2>3, MoveStep DEF Labels
  <1>2. CASE secret # None /\ secret.readable
    <2> DEFINE l == IF secret.byoc THEN "read_ca" ELSE "decide"
               r == Proc(l, secret, PairOf(secret), None)
    <2>1. r \in Process
      BY <1>2 DEF IInv, TypeOK, Process, Proc, Labels, Secrets, PairOf
    <2>2. Become(p, r)
      BY <1>2
    <2>3. PodsTyped' /\ pod'[p] = r /\ \A q \in Pods \ {p} : pod'[q] = pod[q]
      BY <2>1, <2>2, BecomeEffect DEF IInv, TypeOK, PodsTyped
    <2>4. TypeOK'
      BY <2>3 DEF IInv, TypeOK, PodsTyped
    <2>5. PodInv(p)'
      BY <1>2, <2>3 DEF PodInv, MakesOwn, ReadStored, HoldsStored, Written, ByocChecked, Byoc, At, Proc, CsrSteps
    <2> QED
      BY <2>3, <2>4, <2>5, OneReplica DEF SecretKept
  <1>3. CASE secret # None /\ ~secret.readable
    BY <1>3, ExitStep DEF IInv, TypeOK
  <1> QED
    BY <1>1, <1>2, <1>3

LEMMA ReadCAStep ==
  ASSUME IInv, NEW p \in Pods, ReadCA(p)
  PROVE  IInv'
  <1>1. CASE ca = "ok"
    <2>1. Goto(p, "decide") /\ UNCHANGED <<secret, ca, csr, files, gen, faults>>
      BY <1>1 DEF ReadCA
    <2>2. pod'[p] = Proc("decide", pod[p].seen, pod[p].pair, pod[p].req)
      BY <2>1, GotoEffect DEF Labels, IInv, TypeOK, PodsTyped
    <2>3. PodInv(p)'
      BY <1>1, <2>1, <2>2 DEF PodInv, MakesOwn, ReadStored, HoldsStored, Written, ByocChecked, Byoc, At, Proc, IInv, ReadCA, CsrSteps
    <2> QED
      BY <2>1, <2>3, MoveStep DEF Labels
  <1>2. CASE ca # "ok"
    BY <1>2, ExitStep DEF ReadCA, IInv, TypeOK
  <1> QED
    BY <1>1, <1>2

LEMMA DecideStep ==
  ASSUME IInv, NEW p \in Pods, Decide(p)
  PROVE  IInv'
  <1> DEFINE s == pod[p].seen
  <1>1. /\ At(p, "decide") /\ UNCHANGED <<secret, ca, csr, files, faults>>
        /\ PodsTyped /\ pod[p] \in Process /\ PodInv(p)
    BY DEF Decide, IInv, TypeOK, PodsTyped
  <1>2. CASE Exit(p) /\ UNCHANGED gen
    BY <1>1, <1>2, ExitStep DEF IInv, TypeOK
  <1>3. CASE ShouldUpdate(s) /\ ~Byoc(s) /\ GenerateKey(p)
    <2> DEFINE k == <<p, gen[p] + 1>>
               r == Proc("csr_read", s, [cert |-> None, key |-> k], None)
    <2>1. gen[p] \in Nat /\ gen[p] < MaxGen /\ gen' \in [Pods -> 0 .. MaxGen]
      BY <1>3, TlsAssumption DEF GenerateKey, IInv, TypeOK
    <2>2. k \in Keys
      BY <2>1 DEF Keys
    <2>3. r \in Process
      BY <1>1, <2>2 DEF Process, Proc, Labels, CsrSteps
    <2>4. PodsTyped' /\ pod'[p] = r /\ \A q \in Pods \ {p} : pod'[q] = pod[q]
      BY <1>1, <1>3, <2>3, BecomeEffect DEF GenerateKey
    <2>5. TypeOK'
      BY <1>1, <2>1, <2>4 DEF IInv, TypeOK, PodsTyped
    <2>6. s = None \/ Rotates(s)
      BY <1>3 DEF Rotates, Byoc
    <2>7. PodInv(p)'
      BY <1>1, <2>2, <2>4, <2>6 DEF PodInv, MakesOwn, ReadStored, HoldsStored, Written, ByocChecked, Byoc, At, Proc, CsrSteps
    <2> QED
      BY <1>1, <2>4, <2>5, <2>7, OneReplica DEF SecretKept
  <1>4. CASE /\ IF Byoc(s) THEN ~IsBlank(s) ELSE ~ShouldUpdate(s)
             /\ Goto(p, WriteStage(s)) /\ UNCHANGED gen
    <2>1. s # None /\ ~Rotates(s)
      BY <1>4 DEF Byoc, Rotates, ShouldUpdate
    <2>2. WriteStage(s) = IF s.byoc THEN "write_cert" ELSE "wait"
      BY <2>1 DEF WriteStage
    <2>3. WriteStage(s) \in Labels
      BY <2>2 DEF Labels
    <2>4. pod'[p] = Proc(WriteStage(s), s, pod[p].pair, pod[p].req)
      BY <1>1, <1>4, <2>3, GotoEffect
    <2>5. secret # None /\ pod[p].pair = PairOf(secret)
      BY <1>1, <2>1 DEF PodInv, HoldsStored, ReadStored, At
    <2>6. PodInv(p)'
      BY <1>1, <2>1, <2>2, <2>4, <2>5 DEF PodInv, MakesOwn, ReadStored, HoldsStored, Written, ByocChecked, Byoc, At, Proc, CsrSteps
    <2> QED
      BY <1>1, <1>4, <2>3, <2>6, MoveStep
  <1> QED
    BY <1>2, <1>3, <1>4 DEF Decide

LEMMA CsrReadStep ==
  ASSUME IInv, NEW p \in Pods, CsrRead(p)
  PROVE  IInv'
  <1> DEFINE l == IF csr = None THEN "csr_create" ELSE "csr_delete"
  <1>1. l \in Labels /\ Goto(p, l) /\ UNCHANGED <<secret, ca, csr, files, gen, faults>>
    BY DEF CsrRead, Labels, CsrSteps
  <1>2. pod'[p] = Proc(l, pod[p].seen, pod[p].pair, pod[p].req)
    BY <1>1, GotoEffect DEF IInv, TypeOK, PodsTyped
  <1>3. PodInv(p)'
    BY <1>1, <1>2 DEF PodInv, MakesOwn, ReadStored, HoldsStored, Written, ByocChecked, Byoc, At, Proc, IInv, CsrRead, CsrSteps
  <1> QED
    BY <1>1, <1>3, MoveStep

(* A step of submit_and_approve_k8s_csr that changes the shared request and *)
(* goes on to another of its steps, with req set to c.                      *)
LEMMA RequestStep ==
  ASSUME IInv, NEW p \in Pods, NEW l \in CsrSteps, NEW c \in CSRs \cup {None},
         Become(p, Proc(l, pod[p].seen, pod[p].pair, c)), pod[p].pc \in CsrSteps,
         l = "csr_approve" => c \in CSRs,
         csr' \in CSRs \cup {None}, faults' \in 0 .. MaxFaults,
         UNCHANGED <<secret, ca, files, gen>>
  PROVE  IInv'
  <1> DEFINE r == Proc(l, pod[p].seen, pod[p].pair, c)
  <1>1. r \in Process
    BY DEF IInv, TypeOK, Process, Proc, Labels
  <1>2. PodsTyped' /\ pod'[p] = r /\ \A q \in Pods \ {p} : pod'[q] = pod[q]
    BY <1>1, BecomeEffect DEF IInv, TypeOK, PodsTyped
  <1>3. TypeOK'
    BY <1>2 DEF IInv, TypeOK, PodsTyped
  <1>4. PodInv(p)'
    BY <1>2 DEF PodInv, MakesOwn, ReadStored, HoldsStored, Written, ByocChecked, Byoc, At, Proc, IInv, CsrSteps
  <1> QED
    BY <1>2, <1>3, <1>4, OneReplica DEF SecretKept

LEMMA CsrSubmitStep ==
  ASSUME IInv, NEW p \in Pods, CsrDelete(p) \/ CsrCreate(p) \/ CsrStatus(p) \/ CsrApprove(p)
  PROVE  IInv'
  <1>0. /\ csr \in CSRs \cup {None} /\ faults \in 0 .. MaxFaults
        /\ pod[p].req \in CSRs \cup {None} /\ MakesOwn(p)
    BY DEF IInv, TypeOK, Process, PodInv
  <1>1. CASE CsrDelete(p)
    BY <1>0, <1>1, RequestStep DEF CsrDelete, Goto, CsrSteps, At
  <1>2. CASE CsrCreate(p)
    <2>1. CASE csr = None
      <3>0. /\ pod[p].pair.key \in Keys
            /\ csr' = [key |-> pod[p].pair.key, approved |-> FALSE, signed |-> FALSE]
        BY <1>0, <1>2, <2>1 DEF CsrCreate, MakesOwn, CsrSteps, At
      <3>1. csr' \in CSRs
        BY <3>0 DEF CSRs
      <3>2. /\ Become(p, Proc("csr_status", pod[p].seen, pod[p].pair, pod[p].req))
            /\ pod[p].pc \in CsrSteps /\ "csr_status" \in CsrSteps
            /\ UNCHANGED <<secret, ca, files, gen, faults>>
        BY <1>2, <2>1 DEF CsrCreate, Goto, CsrSteps, At
      <3>3. faults' \in 0 .. MaxFaults
        BY <1>0, <3>2
      <3> QED
        BY <1>0, <3>1, <3>2, <3>3, RequestStep
    <2>2. CASE csr # None
      BY <1>0, <1>2, <2>2, ExitStep DEF CsrCreate
    <2> QED
      BY <2>1, <2>2
  <1>3. CASE CsrStatus(p)
    <2>1. CASE csr = None
      BY <1>0, <1>3, <2>1, ExitStep DEF CsrStatus
    <2>2. CASE csr # None
      BY <1>0, <1>3, <2>2, RequestStep DEF CsrStatus, CsrSteps, At
    <2> QED
      BY <2>1, <2>2
  <1>4. CASE CsrApprove(p)
    <2>1. csr' \in CSRs \cup {None}
      BY <1>0, <1>4 DEF CsrApprove, MakesOwn, CSRs
    <2> QED
      BY <1>0, <1>4, <2>1, RequestStep DEF CsrApprove, CsrSteps, At
  <1> QED
    BY <1>1, <1>2, <1>3, <1>4

LEMMA CsrPollStep ==
  ASSUME IInv, NEW p \in Pods, CsrPoll(p)
  PROVE  IInv'
  <1>0. /\ At(p, "csr_poll") /\ UNCHANGED <<secret, ca, csr, files, gen, faults>>
        /\ csr \in CSRs \cup {None} /\ faults \in 0 .. MaxFaults
        /\ PodsTyped /\ pod[p] \in Process /\ PodInv(p)
    BY DEF CsrPoll, IInv, TypeOK, PodsTyped
  <1>1. CASE Exit(p)
    BY <1>0, <1>1, ExitStep
  <1>2. CASE csr # None /\ Become(p, Proc("csr_poll", pod[p].seen, pod[p].pair, csr))
    BY <1>0, <1>2, RequestStep DEF CsrSteps, At
  <1>3. CASE /\ csr # None
             /\ Become(p, Proc(WriteStage(pod[p].seen), pod[p].seen,
                               [cert |-> csr.key, key |-> pod[p].pair.key], None))
    <2> DEFINE s == pod[p].seen
               r == Proc(WriteStage(s), s, [cert |-> csr.key, key |-> pod[p].pair.key], None)
    <2>1. csr.key \in Keys /\ pod[p].pair.key \in Keys /\ (s = None \/ Rotates(s))
      BY <1>0, <1>3 DEF PodInv, MakesOwn, CSRs, At, CsrSteps
    <2>2. WriteStage(s) = IF s = None THEN "sec_create" ELSE "wait"
      BY <2>1 DEF WriteStage, Rotates
    <2>3. r \in Process
      BY <1>0, <2>1, <2>2 DEF Process, Proc, Labels
    <2>4. PodsTyped' /\ pod'[p] = r /\ \A q \in Pods \ {p} : pod'[q] = pod[q]
      BY <1>0, <1>3, <2>3, BecomeEffect
    <2>5. TypeOK'
      BY <1>0, <2>4 DEF IInv, TypeOK, PodsTyped
    <2>6. PodInv(p)'
      BY <1>0, <2>1, <2>2, <2>4 DEF PodInv, MakesOwn, ReadStored, HoldsStored, Written, ByocChecked, Byoc, At, Proc, CsrSteps
    <2> QED
      BY <1>0, <2>4, <2>5, <2>6, OneReplica DEF SecretKept
  <1> QED
    BY <1>1, <1>2, <1>3 DEF CsrPoll

LEMMA SecretCreateStep ==
  ASSUME IInv, NEW p \in Pods, SecretCreate(p)
  PROVE  IInv'
  <1>0. /\ At(p, "sec_create") /\ UNCHANGED <<ca, csr, files, gen, faults>>
        /\ faults \in 0 .. MaxFaults /\ PodsTyped /\ PodInv(p)
    BY DEF SecretCreate, IInv, TypeOK, PodsTyped
  <1>1. CASE secret = None
    <2>1. /\ Goto(p, "sec_verify")
          /\ secret' = [cert |-> pod[p].pair.cert, key |-> pod[p].pair.key, due |-> FALSE,
                        readable |-> TRUE, byoc |-> FALSE, label |-> p]
      BY <1>1 DEF SecretCreate
    <2>2. /\ PodsTyped' /\ \A q \in Pods \ {p} : pod'[q] = pod[q]
          /\ pod'[p] = Proc("sec_verify", pod[p].seen, pod[p].pair, pod[p].req)
      BY <1>0, <2>1, GotoEffect DEF Labels
    <2>3. secret' \in Secrets /\ pod[p].seen = None
      BY <1>0, <2>1 DEF PodInv, MakesOwn, Secrets
    <2>4. TypeOK' /\ secret' # None
      BY <1>0, <2>2, <2>3, TlsAssumption DEF IInv, TypeOK, PodsTyped
    <2>5. pod[p].pair = PairOf(secret')
      BY <1>0, <2>1 DEF PairOf, PodsTyped, Process
    <2>6. PodInv(p)'
      BY <1>0, <2>2, <2>3, <2>4, <2>5 DEF PodInv, MakesOwn, ReadStored, HoldsStored, Written, ByocChecked, Byoc, At, Proc, CsrSteps
    <2> QED
      BY <1>0, <1>1, <2>2, <2>4, <2>6, OneReplica DEF SecretKept
  <1>2. CASE secret # None
    BY <1>0, <1>2, ExitStep DEF SecretCreate
  <1> QED
    BY <1>1, <1>2

LEMMA VerifyWaitStep ==
  ASSUME IInv, NEW p \in Pods, SecretVerify(p) \/ Wait(p)
  PROVE  IInv'
  <1>0. UNCHANGED <<secret, ca, csr, files, gen, faults>> /\ PodsTyped /\ PodInv(p)
    BY DEF SecretVerify, Wait, IInv, TypeOK, PodsTyped
  <1>1. CASE Exit(p)
    BY <1>0, <1>1, ExitStep DEF IInv, TypeOK
  <1>2. CASE Goto(p, "write_cert") /\ (At(p, "sec_verify") \/ At(p, "wait"))
    <2>1. pod'[p] = Proc("write_cert", pod[p].seen, pod[p].pair, pod[p].req)
      BY <1>0, <1>2, GotoEffect DEF Labels
    <2>2. PodInv(p)'
      BY <1>0, <1>2, <2>1 DEF PodInv, MakesOwn, ReadStored, HoldsStored, Written, ByocChecked, Byoc, At, Proc, CsrSteps
    <2> QED
      BY <1>0, <1>2, <2>2, MoveStep DEF Labels
  <1> QED
    BY <1>1, <1>2 DEF SecretVerify, Wait

LEMMA WriteStep ==
  ASSUME IInv, NEW p \in Pods, WriteCert(p) \/ WriteKey(p)
  PROVE  IInv'
  <1>0. /\ UNCHANGED <<secret, ca, csr, gen, faults>> /\ PodsTyped /\ PodInv(p)
        /\ pod[p] \in Process
        /\ files \in [Pods -> [cert : Keys \cup {Blank, None}, key : Keys \cup {Blank, None}]]
    BY DEF WriteCert, WriteKey, IInv, TypeOK, PodsTyped
  <1>1. CASE WriteCert(p)
    <2>1. /\ PodsTyped' /\ \A q \in Pods \ {p} : pod'[q] = pod[q]
          /\ pod'[p] = Proc("write_key", pod[p].seen, pod[p].pair, pod[p].req)
      BY <1>0, <1>1, GotoEffect DEF WriteCert, Labels
    <2>2. /\ \A q \in Pods \ {p} : files'[q] = files[q]
          /\ files'[p].cert = pod[p].pair.cert
          /\ files' \in [Pods -> [cert : Keys \cup {Blank, None}, key : Keys \cup {Blank, None}]]
      BY <1>0, <1>1 DEF WriteCert, Process
    <2>3. TypeOK'
      BY <1>0, <2>1, <2>2 DEF IInv, TypeOK, PodsTyped
    <2>4. PodInv(p)'
      BY <1>0, <1>1, <2>1, <2>2 DEF WriteCert, PodInv, MakesOwn, ReadStored, HoldsStored, Written, ByocChecked, Byoc, At, Proc, CsrSteps
    <2> QED
      BY <1>0, <2>1, <2>2, <2>3, <2>4, OneReplica DEF SecretKept
  <1>2. CASE WriteKey(p)
    <2>1. /\ PodsTyped' /\ \A q \in Pods \ {p} : pod'[q] = pod[q]
          /\ pod'[p] = Proc("done", pod[p].seen, pod[p].pair, pod[p].req)
      BY <1>0, <1>2, GotoEffect DEF WriteKey, Labels
    <2>2. /\ \A q \in Pods \ {p} : files'[q] = files[q]
          /\ files'[p].cert = files[p].cert /\ files'[p].key = pod[p].pair.key
          /\ files' \in [Pods -> [cert : Keys \cup {Blank, None}, key : Keys \cup {Blank, None}]]
      BY <1>0, <1>2 DEF WriteKey, Process
    <2>3. TypeOK'
      BY <1>0, <2>1, <2>2 DEF IInv, TypeOK, PodsTyped
    <2>4. PodInv(p)'
      BY <1>0, <1>2, <2>1, <2>2 DEF WriteKey, PodInv, MakesOwn, ReadStored, HoldsStored, Written, ByocChecked, Byoc, At, Proc, CsrSteps
    <2> QED
      BY <1>0, <2>1, <2>2, <2>3, <2>4, OneReplica DEF SecretKept
  <1> QED
    BY <1>1, <1>2

LEMMA EnvironmentStep ==
  ASSUME IInv, Sign \/ Age
  PROVE  IInv'
  <1>1. CASE Sign
    <2>1. TypeOK'
      BY <1>1 DEF Sign, IInv, TypeOK, CSRs
    <2>2. \A q \in Pods : PodInv(q)'
      BY <1>1, Frame DEF Sign, IInv, SecretKept
    <2> QED
      BY <2>1, <2>2 DEF IInv
  <1>2. CASE Age
    <2>1. secret \in Secrets /\ secret' = [secret EXCEPT !.due = TRUE]
      BY <1>2 DEF Age, IInv, TypeOK
    <2>2. secret' \in Secrets /\ secret' # None /\ PairOf(secret') = PairOf(secret)
      BY <2>1, TlsAssumption DEF Secrets, PairOf
    <2>3. TypeOK'
      BY <1>2, <2>2 DEF Age, IInv, TypeOK
    <2>4. \A q \in Pods : PodInv(q)'
      BY <1>2, <2>2, Frame DEF Age, IInv, SecretKept
    <2> QED
      BY <2>3, <2>4 DEF IInv
  <1> QED
    BY <1>1, <1>2

LEMMA FaultStep ==
  ASSUME IInv, NEW p \in Pods, PollTimeout(p) \/ Restart(p) \/ Kill(p) \/ ApiError(p)
  PROVE  IInv'
  <1>0. faults \in 0 .. MaxFaults /\ PodsTyped /\ PodInv(p) /\ MaxFaults \in Nat
    BY TlsAssumption DEF IInv, TypeOK, PodsTyped
  <1>1. CASE PollTimeout(p) \/ Kill(p)
    BY <1>0, <1>1, ExitStep DEF PollTimeout, Kill
  <1>2. CASE Restart(p)
    <2>1. Goto(p, "read_secret") /\ At(p, "crashed")
      BY <1>2 DEF Restart
    <2>2. pod'[p] = Proc("read_secret", pod[p].seen, pod[p].pair, pod[p].req)
      BY <1>0, <2>1, GotoEffect DEF Labels
    <2>3. PodInv(p)'
      BY <1>0, <1>2, <2>1, <2>2 DEF Restart, PodInv, MakesOwn, ReadStored, HoldsStored, Written, ByocChecked, Byoc, At, Proc, CsrSteps
    <2> QED
      BY <1>2, <2>1, <2>3, MoveStep DEF Restart, Labels
  <1>3. CASE ApiError(p)
    <2>1. CASE Exit(p)
      BY <1>0, <1>3, <2>1, ExitStep DEF ApiError
    <2>2. CASE At(p, "csr_approve") /\ Become(p, Proc("csr_poll", pod[p].seen, pod[p].pair, None))
      <3>1. /\ csr' \in CSRs \cup {None} /\ faults' \in 0 .. MaxFaults
            /\ UNCHANGED <<secret, ca, files, gen>>
        BY <1>0, <1>3 DEF ApiError, IInv, TypeOK
      <3>2. pod[p].pc \in CsrSteps
        BY <2>2 DEF CsrSteps, At
      <3> QED
        BY <2>2, <3>1, <3>2, RequestStep DEF CsrSteps
    <2> QED
      BY <1>3, <2>1, <2>2 DEF ApiError
  <1> QED
    BY <1>1, <1>2, <1>3

LEMMA NextIInv == IInv /\ [Next]_vars => IInv'
  <1> SUFFICES ASSUME IInv, [Next]_vars PROVE IInv'
    OBVIOUS
  <1>1. CASE UNCHANGED vars
    <2>1. TypeOK'
      BY <1>1 DEF vars, IInv, TypeOK
    <2>2. \A q \in Pods : PodInv(q)'
      BY <1>1, Frame DEF vars, IInv, SecretKept
    <2> QED
      BY <2>1, <2>2 DEF IInv
  <1>2. ASSUME NEW p \in Pods, Step(p) PROVE IInv'
    BY <1>2, ReadSecretStep, ReadCAStep, DecideStep, CsrReadStep, CsrSubmitStep, CsrPollStep,
       SecretCreateStep, VerifyWaitStep, WriteStep DEF Step
  <1> QED
    BY <1>1, <1>2, FaultStep, EnvironmentStep DEF Next

-----------------------------------------------------------------------------
(* The theorems *)

LEMMA Invariance == Spec => []IInv
  BY InitIInv, NextIInv, PTL DEF Spec

(* The variables keep their types, for any number of replicas and any bounds. *)
THEOREM Typing == Spec => []TypeOK
  <1>1. IInv => TypeOK
    BY DEF IInv
  <1> QED
    BY <1>1, Invariance, PTL

LEMMA IInvAgree == IInv => ReplicasAgree
  <1> SUFFICES ASSUME IInv, NEW p \in Pods, At(p, "done"), ~Rotates(pod[p].seen)
               PROVE  secret # None /\ files[p] = PairOf(secret)
    BY DEF ReplicasAgree
  <1>1. secret # None /\ pod[p].pair = PairOf(secret)
    BY DEF IInv, PodInv, HoldsStored, At
  <1>2. files[p].cert = pod[p].pair.cert /\ files[p].key = pod[p].pair.key
    BY DEF IInv, PodInv, Written, At
  <1>3. files[p] = [cert |-> files[p].cert, key |-> files[p].key]
    BY DEF IInv, TypeOK
  <1> QED
    BY <1>1, <1>2, <1>3 DEF PairOf

(* Any number of replicas, racing and crashing in any way, agree: whoever   *)
(* finishes init_tls_pair without rotating serves the secret's pair.        *)
THEOREM Agreement == Spec => []ReplicasAgree
  BY IInvAgree, Invariance, PTL

LEMMA IInvByoc == IInv => ByocRespected
  <1> SUFFICES ASSUME IInv, NEW p \in Pods, Byoc(pod[p].seen)
               PROVE  /\ pod[p].pc \notin CsrSteps \cup {"sec_create"}
                      /\ At(p, "done") =>
                           /\ ca = "ok"
                           /\ files[p] = [cert |-> pod[p].seen.cert, key |-> pod[p].seen.key]
    BY DEF ByocRespected
  <1>1. ~Rotates(pod[p].seen) /\ pod[p].seen # None
    BY DEF Rotates, Byoc
  <1>2. pod[p].pc \notin CsrSteps \cup {"sec_create"}
    BY <1>1 DEF IInv, PodInv, MakesOwn, At
  <1>3. ASSUME At(p, "done")
        PROVE  ca = "ok" /\ files[p] = [cert |-> pod[p].seen.cert, key |-> pod[p].seen.key]
    <2>1. ca = "ok"
      BY <1>3 DEF IInv, PodInv, ByocChecked, At
    <2>2. files[p] = PairOf(secret)
      BY <1>1, <1>3, IInvAgree DEF ReplicasAgree
    <2>3. PairOf(secret) = PairOf(pod[p].seen)
      BY <1>1 DEF IInv, PodInv, ReadStored
    <2> QED
      BY <2>1, <2>2, <2>3 DEF PairOf
  <1> QED
    BY <1>2, <1>3

(* An operator's certificate is never rotated and never served without its CA. *)
THEOREM OperatorPairRespected == Spec => []ByocRespected
  BY IInvByoc, Invariance, PTL

-----------------------------------------------------------------------------
(* What is served can be used *)

(* What a replica stores or writes is a pair without holes: the secret's    *)
(* fields were looked at, or it is the replica's own.                       *)
Storing == {"wait", "sec_create", "sec_verify", "write_cert", "write_key", "done"}
HoldsKeys(p) ==
    pod[p].pc \in Storing => pod[p].pair.cert \in Keys /\ pod[p].pair.key \in Keys

(* Within one replica: it enters these stages from Decide or from CsrPoll   *)
(* and then keeps its pair.                                                 *)
LEMMA HoldsKeysStep ==
  ASSUME IInv, NEW p \in Pods, HoldsKeys(p), Step(p)
  PROVE  HoldsKeys(p)'
  <1>0. pod[p] \in Process /\ PodsTyped /\ PodInv(p) /\ csr \in CSRs \cup {None}
    BY DEF IInv, TypeOK, PodsTyped
  <1>1. CASE \E l \in Labels : Goto(p, l) /\ (l \in Storing => pod[p].pc \in Storing)
    <2>1. PICK l \in Labels : Goto(p, l) /\ (l \in Storing => pod[p].pc \in Storing)
      BY <1>1
    <2>2. pod'[p] = Proc(l, pod[p].seen, pod[p].pair, pod[p].req)
      BY <1>0, <2>1, GotoEffect
    <2> QED
      BY <2>1, <2>2 DEF HoldsKeys, Proc
  <1>2. ASSUME NEW l \in Labels \ Storing, NEW seen, NEW pair, NEW req,
               Become(p, Proc(l, seen, pair, req))
        PROVE  HoldsKeys(p)'
    <2>1. pod'[p].pc = l
      BY <1>0, <1>2 DEF Become, Proc, PodsTyped
    <2> QED
      BY <2>1 DEF HoldsKeys
  <1>3. CASE Exit(p)
    BY <1>0, <1>3, ExitEffect DEF HoldsKeys, Fresh, Proc, Storing
  <1>4. CASE ReadSecret(p) \/ ReadCA(p)
    BY <1>1, <1>2, <1>3, <1>4 DEF ReadSecret, ReadCA, Labels, Storing
  <1>5. CASE Decide(p)
    <2> DEFINE s == pod[p].seen
    <2>1. CASE GenerateKey(p)
      BY <1>2, <2>1 DEF GenerateKey, Labels, CsrSteps, Storing
    <2>2. CASE Goto(p, WriteStage(s)) /\ IF Byoc(s) THEN ~IsBlank(s) ELSE ~ShouldUpdate(s)
      <3>1. s # None /\ s \in Secrets /\ ~IsBlank(s) /\ At(p, "decide")
        <4>1. s \in Secrets \cup {None} /\ At(p, "decide")
          BY <1>0, <1>5 DEF Decide, Process
        <4>2. s # None /\ ~IsBlank(s)
          BY <2>2 DEF Byoc, ShouldUpdate
        <4> QED
          BY <4>1, <4>2
      <3>2. WriteStage(s) \in Labels
        BY DEF WriteStage, Labels
      <3>3. pod'[p].pair = pod[p].pair
        <4>1. pod'[p] = Proc(WriteStage(s), s, pod[p].pair, pod[p].req)
          BY <1>0, <2>2, <3>2, GotoEffect
        <4> QED
          BY <4>1 DEF Proc
      <3>4. pod[p].pair.cert = s.cert /\ pod[p].pair.key = s.key
        BY <1>0, <3>1 DEF PodInv, HoldsStored, PairOf, At
      <3> QED
        BY <3>1, <3>3, <3>4 DEF HoldsKeys, IsBlank, Secrets
    <2> QED
      BY <1>3, <1>5, <2>1, <2>2 DEF Decide
  <1>6. CASE CsrRead(p) \/ CsrDelete(p) \/ CsrCreate(p) \/ CsrStatus(p) \/ CsrApprove(p)
    BY <1>1, <1>2, <1>3, <1>6 DEF CsrRead, CsrDelete, CsrCreate, CsrStatus, CsrApprove, Labels,
       CsrSteps, Storing
  <1>7. CASE CsrPoll(p)
    <2>1. CASE Become(p, Proc(WriteStage(pod[p].seen), pod[p].seen,
                              [cert |-> csr.key, key |-> pod[p].pair.key], None)) /\ csr # None
      <3>1. csr.key \in Keys /\ pod[p].pair.key \in Keys
        BY <1>0, <1>7, <2>1 DEF CsrPoll, PodInv, MakesOwn, CSRs, At, CsrSteps
      <3>2. pod'[p].pair = [cert |-> csr.key, key |-> pod[p].pair.key]
        BY <1>0, <2>1 DEF Become, Proc, PodsTyped
      <3> QED
        BY <3>1, <3>2 DEF HoldsKeys
    <2> QED
      BY <1>2, <1>3, <1>7, <2>1 DEF CsrPoll, Labels, CsrSteps, Storing
  <1>8. CASE SecretCreate(p) \/ SecretVerify(p) \/ Wait(p) \/ WriteCert(p) \/ WriteKey(p)
    BY <1>1, <1>3, <1>8 DEF SecretCreate, SecretVerify, Wait, WriteCert, WriteKey, At, Labels, Storing
  <1> QED
    BY <1>4, <1>5, <1>6, <1>7, <1>8 DEF Step

(* A step of one replica moves no other. *)
LEMMA StepMovesOne ==
  ASSUME PodsTyped, NEW p \in Pods, Step(p)
  PROVE  \A q \in Pods \ {p} : pod'[q] = pod[q]
  BY DEF PodsTyped, Step, ReadSecret, ReadCA, Decide, GenerateKey, CsrRead, CsrDelete, CsrCreate,
     CsrStatus, CsrApprove, CsrPoll, SecretCreate, SecretVerify, Wait, WriteCert, WriteKey,
     Goto, Exit, Become

HoldKeys == \A p \in Pods : HoldsKeys(p)

(* Every step leaves other replicas' stages alone, and only Step moves one  *)
(* replica to a stage where it stores.                                      *)
LEMMA NextHoldKeys == IInv /\ HoldKeys /\ [Next]_vars => HoldKeys'
  <1> SUFFICES ASSUME IInv, HoldKeys, [Next]_vars PROVE HoldKeys'
    OBVIOUS
  <1>0. PodsTyped
    BY DEF IInv, TypeOK, PodsTyped
  <1>1. CASE UNCHANGED pod
    BY <1>1 DEF HoldKeys, HoldsKeys
  <1>2. ASSUME NEW p \in Pods, Step(p) PROVE HoldKeys'
    <2>1. HoldsKeys(p)'
      BY <1>2, HoldsKeysStep DEF HoldKeys
    <2>2. \A q \in Pods \ {p} : pod'[q] = pod[q]
      BY <1>0, <1>2, StepMovesOne
    <2> QED
      BY <2>1, <2>2 DEF HoldKeys, HoldsKeys
  <1>3. ASSUME NEW p \in Pods, PollTimeout(p) \/ Restart(p) \/ Kill(p) \/ ApiError(p)
        PROVE  HoldKeys'
    <2>1. PICK l \in Labels \ Storing : \E seen, pair, req : Become(p, Proc(l, seen, pair, req))
      BY <1>3 DEF PollTimeout, Restart, Kill, ApiError, Exit, Fresh, Goto, Labels, CsrSteps, Storing
    <2>2. pod'[p].pc = l /\ \A q \in Pods \ {p} : pod'[q] = pod[q]
      BY <1>0, <2>1 DEF Become, Proc, PodsTyped
    <2> QED
      BY <2>2 DEF HoldKeys, HoldsKeys
  <1> QED
    BY <1>1, <1>2, <1>3 DEF Next, vars, Sign, Age

LEMMA InitHoldKeys == Init => HoldKeys
  BY DEF Init, HoldKeys, HoldsKeys, Fresh, Proc, Storing

LEMMA HoldKeysServe == IInv /\ HoldKeys => ServesUsablePair
  <1> SUFFICES ASSUME IInv, HoldKeys, NEW p \in Pods, At(p, "done")
               PROVE  {files[p].cert, files[p].key} \cap {Blank, None} = {}
    BY DEF ServesUsablePair
  <1>1. files[p].cert \in Keys /\ files[p].key \in Keys
    BY DEF IInv, PodInv, Written, HoldKeys, HoldsKeys, Storing, At
  <1> QED
    BY <1>1, TlsAssumption

(* Whatever the secret held, and whichever of its writes and restarts came  *)
(* in between, a replica that is done serves a certificate and a key.       *)
THEOREM ServesUsable == Spec => []ServesUsablePair
  <1>1. Spec => [](IInv /\ HoldKeys)
    BY InitIInv, NextIInv, InitHoldKeys, NextHoldKeys, PTL DEF Spec
  <1> QED
    BY <1>1, HoldKeysServe, PTL

(* What is in place stays: a stored secret, a replica that is done with     *)
(* what it serves, and both files of one, though further ones come and go.  *)
Filled(p) == files[p].cert \in Keys /\ files[p].key \in Keys

LEMMA InPlace ==
  ASSUME IInv, HoldKeys, [Next]_vars
  PROVE  /\ SecretKept
         /\ \A p \in Pods : /\ At(p, "done") => pod'[p] = pod[p] /\ files'[p] = files[p]
                            /\ Filled(p) => Filled(p)'
  <1>0. PodsTyped /\ secret \in Secrets \cup {None}
        /\ files \in [Pods -> [cert : Keys \cup {Blank, None}, key : Keys \cup {Blank, None}]]
    BY DEF IInv, TypeOK, PodsTyped
  <1>1. CASE UNCHANGED vars
    BY <1>1 DEF vars, At, Filled, SecretKept
  <1>2. CASE Sign
    BY <1>2 DEF Sign, At, Filled, SecretKept
  <1>3. CASE Age
    <2>1. secret' \in Secrets /\ PairOf(secret') = PairOf(secret)
      BY <1>0, <1>3 DEF Age, Secrets, PairOf
    <2> QED
      BY <1>3, <2>1, TlsAssumption DEF Age, At, Filled, SecretKept
  <1>4. ASSUME NEW p \in Pods, PollTimeout(p) \/ Restart(p) \/ Kill(p) \/ ApiError(p)
        PROVE  /\ UNCHANGED <<secret, files>> /\ ~At(p, "done")
               /\ \A q \in Pods \ {p} : pod'[q] = pod[q]
    BY <1>0, <1>4 DEF PollTimeout, Restart, Kill, ApiError, ExitOnError, At, Goto, Exit, Become,
       PodsTyped
  <1>5. ASSUME NEW p \in Pods, Step(p)
        PROVE  /\ ~At(p, "done")
               /\ \A q \in Pods \ {p} : pod'[q] = pod[q] /\ files'[q] = files[q]
    <2>1. \A q \in Pods \ {p} : pod'[q] = pod[q]
      BY <1>0, <1>5, StepMovesOne
    <2>2. \A q \in Pods \ {p} : files'[q] = files[q]
      BY <1>0, <1>5 DEF Step, ReadSecret, ReadCA, Decide, CsrRead, CsrDelete, CsrCreate,
         CsrStatus, CsrApprove, CsrPoll, SecretCreate, SecretVerify, Wait, WriteCert, WriteKey
    <2> QED
      BY <1>5, <2>1, <2>2 DEF Step, ReadSecret, ReadCA, Decide, CsrRead, CsrDelete, CsrCreate,
         CsrStatus, CsrApprove, CsrPoll, SecretCreate, SecretVerify, Wait, WriteCert, WriteKey, At
  <1>6. ASSUME NEW p \in Pods, Step(p)
        PROVE  secret # None => secret' = secret
    BY <1>6 DEF Step, ReadSecret, ReadCA, Decide, CsrRead, CsrDelete, CsrCreate,
       CsrStatus, CsrApprove, CsrPoll, SecretCreate, SecretVerify, Wait, WriteCert, WriteKey
  <1>7. ASSUME NEW p \in Pods, Step(p), NEW q \in Pods, Filled(q)
        PROVE  Filled(q)'
    <2>1. CASE WriteCert(p)
      <3>1. pod[p].pair.cert \in Keys
        BY <2>1 DEF WriteCert, HoldKeys, HoldsKeys, Storing, At
      <3> QED
        BY <1>0, <1>7, <2>1, <3>1 DEF WriteCert, Filled
    <2>2. CASE WriteKey(p)
      <3>1. pod[p].pair.key \in Keys
        BY <2>2 DEF WriteKey, HoldKeys, HoldsKeys, Storing, At
      <3> QED
        BY <1>0, <1>7, <2>2, <3>1 DEF WriteKey, Filled
    <2>3. CASE ~WriteCert(p) /\ ~WriteKey(p)
      <3>1. UNCHANGED files
        BY <1>7, <2>3 DEF Step, ReadSecret, ReadCA, Decide, CsrRead, CsrDelete, CsrCreate,
           CsrStatus, CsrApprove, CsrPoll, SecretCreate, SecretVerify, Wait
      <3> QED
        BY <1>7, <3>1 DEF Filled
    <2> QED
      BY <2>1, <2>2, <2>3
  <1> QED
    BY <1>1, <1>2, <1>3, <1>4, <1>5, <1>6, <1>7 DEF Next, At, Filled, SecretKept

(* A replica that is done has left a secret and both files behind.          *)
LEMMA DoneFilled ==
  ASSUME IInv, HoldKeys, NEW p \in Pods, At(p, "done")
  PROVE  secret # None /\ Filled(p)
  <1>1. Filled(p)
    BY DEF IInv, PodInv, Written, HoldKeys, HoldsKeys, Storing, At, Filled
  <1>2. secret # None
    BY DEF IInv, PodInv, ReadStored, HoldsStored, Rotates, At
  <1> QED
    BY <1>1, <1>2

-----------------------------------------------------------------------------
(* Approval *)

(* The request's approval is set by CsrApprove only, on the request that    *)
(* was read; the other steps delete it, put a new one in place of none, or  *)
(* sign it.                                                                 *)
LEMMA ApprovalStep ==
  ASSUME IInv, Next, csr # None, csr' # None, csr.approved # csr'.approved
  PROVE  \E p \in Pods : At(p, "csr_approve") /\ pod[p].req.key = csr'.key
  <1>0. csr \in CSRs
    BY DEF IInv, TypeOK
  <1>1. ASSUME NEW p \in Pods, CsrApprove(p)
        PROVE  At(p, "csr_approve") /\ pod[p].req.key = csr'.key
    BY <1>0, <1>1 DEF CsrApprove, CSRs
  <1>2. ~Sign
    BY <1>0 DEF Sign, CSRs
  <1>3. ASSUME NEW p \in Pods PROVE ~CsrDelete(p) /\ ~CsrCreate(p)
    BY DEF CsrDelete, CsrCreate
  <1>4. ASSUME NEW p \in Pods,
               \/ Step(p) /\ ~CsrDelete(p) /\ ~CsrCreate(p) /\ ~CsrApprove(p)
               \/ PollTimeout(p) \/ Restart(p) \/ Kill(p) \/ ApiError(p)
        PROVE  csr' = csr
    BY <1>4 DEF Step, ReadSecret, ReadCA, Decide, CsrRead, CsrStatus, CsrPoll, SecretCreate,
       SecretVerify, Wait, WriteCert, WriteKey, PollTimeout, Restart, Kill, ApiError
  <1>5. Age => csr' = csr
    BY DEF Age
  <1> QED
    BY <1>1, <1>2, <1>3, <1>4, <1>5 DEF Next

(* A replica approves only what it read, although the request's name is     *)
(* shared.                                                                  *)
THEOREM Approval == Spec => ApprovesWhatItRead
  <1>1. IInv /\ [Next]_vars =>
          [csr # None /\ csr' # None /\ csr.approved # csr'.approved =>
             \E p \in Pods : At(p, "csr_approve") /\ pod[p].req.key = csr'.key]_vars
    BY ApprovalStep
  <1> QED
    BY <1>1, Invariance, PTL DEF Spec, ApprovesWhatItRead

-----------------------------------------------------------------------------
(* One replica *)

(* The request of that name is the replica's own from its creation to the   *)
(* certificate.  This is what a second replica takes away.                  *)
OwnRequest(p) ==
    pod[p].pc \in {"csr_status", "csr_approve", "csr_poll"} /\ csr # None =>
        csr.key = pod[p].pair.key

Matched ==
    /\ secret # None => secret.cert = secret.key
    /\ \A p \in Pods : /\ OwnRequest(p)
                       /\ pod[p].pc \in Storing => pod[p].pair.cert = pod[p].pair.key

Alone        == \A p, q \in Pods : p = q
InitialMatch == \A s \in InitSecrets \ {None} : s.cert = s.key

LEMMA InitMatched == InitialMatch /\ Init => Matched
  BY DEF InitialMatch, Init, Matched, OwnRequest, Fresh, Proc, Storing

(* Only a replica that creates the secret or the request changes their keys. *)
LEMMA StepMatched ==
  ASSUME Alone, IInv, Matched, NEW p \in Pods, Step(p)
  PROVE  Matched'
  <1> DEFINE s == pod[p].seen
             own == {"csr_status", "csr_approve", "csr_poll"}
  <1>0. /\ PodsTyped /\ pod[p] \in Process /\ PodInv(p) /\ OwnRequest(p) /\ Pods = {p}
        /\ csr \in CSRs \cup {None} /\ (secret # None => secret.cert = secret.key)
        /\ pod[p].pc \in Storing => pod[p].pair.cert = pod[p].pair.key
    BY DEF Alone, IInv, TypeOK, PodsTyped, Matched
  <1> SUFFICES /\ secret' # None => secret'.cert = secret'.key
               /\ pod'[p].pc \in own /\ csr' # None => csr'.key = pod'[p].pair.key
               /\ pod'[p].pc \in Storing => pod'[p].pair.cert = pod'[p].pair.key
    BY <1>0 DEF Matched, OwnRequest
  <1>1. CASE Exit(p) /\ UNCHANGED secret
    BY <1>0, <1>1, ExitEffect DEF Fresh, Proc, Storing
  <1>2. ASSUME NEW l \in Labels, Goto(p, l)
        PROVE  pod'[p].pc = l /\ pod'[p].pair = pod[p].pair
    <2>1. pod'[p] = Proc(l, pod[p].seen, pod[p].pair, pod[p].req)
      BY <1>0, <1>2, GotoEffect
    <2> QED
      BY <2>1 DEF Proc
  <1>3. ASSUME NEW l, NEW seen, NEW pair, NEW req, Become(p, Proc(l, seen, pair, req))
        PROVE  pod'[p].pc = l /\ pod'[p].pair = pair
    BY <1>0, <1>3 DEF Become, Proc, PodsTyped
  <1>4. CASE ReadSecret(p) \/ ReadCA(p)
    BY <1>0, <1>1, <1>2, <1>3, <1>4 DEF ReadSecret, ReadCA, Labels, Storing
  <1>5. CASE Decide(p)
    <2>1. CASE GenerateKey(p)
      <3>1. pod'[p].pc = "csr_read" /\ UNCHANGED secret
        BY <1>3, <1>5, <2>1 DEF GenerateKey, Decide
      <3> QED
        BY <1>0, <3>1 DEF Storing
    <2>2. CASE Goto(p, WriteStage(s)) /\ IF Byoc(s) THEN ~IsBlank(s) ELSE ~ShouldUpdate(s)
      <3>1. At(p, "decide") /\ UNCHANGED secret
        BY <1>5 DEF Decide
      <3>2. s # None
        BY <2>2 DEF Byoc, ShouldUpdate
      <3>3. pod[p].pair = PairOf(secret) /\ secret # None
        BY <1>0, <3>1, <3>2 DEF PodInv, ReadStored, HoldsStored, At
      <3>4. WriteStage(s) \in Labels /\ WriteStage(s) \notin own
        BY DEF WriteStage, Labels
      <3>5. pod'[p].pc = WriteStage(s) /\ pod'[p].pair = pod[p].pair
        BY <1>2, <2>2, <3>4
      <3> QED
        BY <1>0, <3>1, <3>3, <3>4, <3>5 DEF PairOf
    <2> QED
      BY <1>1, <1>5, <2>1, <2>2 DEF Decide
  <1>6. CASE CsrRead(p) \/ CsrDelete(p)
    BY <1>0, <1>2, <1>6 DEF CsrRead, CsrDelete, Labels, CsrSteps, Storing
  <1>7. CASE CsrCreate(p)
    <2>1. CASE csr = None
      <3>1. pod'[p].pc = "csr_status" /\ pod'[p].pair = pod[p].pair /\ UNCHANGED secret
        BY <1>2, <1>7, <2>1 DEF CsrCreate, Labels, CsrSteps
      <3>2. csr'.key = pod[p].pair.key
        BY <1>7, <2>1 DEF CsrCreate
      <3> QED
        BY <1>0, <3>1, <3>2 DEF Storing
    <2> QED
      BY <1>1, <1>7, <2>1 DEF CsrCreate
  <1>8. CASE CsrStatus(p)
    BY <1>0, <1>1, <1>3, <1>8 DEF CsrStatus, OwnRequest, At, Storing
  <1>9. CASE CsrApprove(p)
    <2>1. csr' # None => csr # None /\ csr'.key = csr.key
      <3>1. At(p, "csr_approve") /\ pod[p].req \in CSRs
        BY <1>0, <1>9 DEF CsrApprove, PodInv, MakesOwn
      <3>2. csr' = csr \/ (csr \in CSRs /\ csr' = [csr EXCEPT !.approved = TRUE])
        BY <1>9, <3>1 DEF CsrApprove
      <3>3. csr \in CSRs => csr # None
        BY TlsAssumption
      <3> QED
        BY <3>2, <3>3 DEF CSRs
    <2>2. pod'[p].pc = "csr_poll" /\ pod'[p].pair = pod[p].pair /\ UNCHANGED secret
      BY <1>3, <1>9 DEF CsrApprove
    <2> QED
      BY <1>0, <1>9, <2>1, <2>2 DEF CsrApprove, OwnRequest, At, Storing
  <1>10. CASE CsrPoll(p)
    <2>1. CASE csr # None /\ Become(p, Proc(WriteStage(s), s, [cert |-> csr.key, key |-> pod[p].pair.key], None))
      <3>1. csr.key = pod[p].pair.key /\ UNCHANGED <<secret, csr>>
        BY <1>0, <1>10, <2>1 DEF CsrPoll, OwnRequest, At
      <3>2. pod'[p].pc = WriteStage(s) /\ pod'[p].pair = [cert |-> csr.key, key |-> pod[p].pair.key]
        BY <1>3, <2>1
      <3>3. WriteStage(s) \notin own
        BY DEF WriteStage
      <3> QED
        BY <1>0, <3>1, <3>2, <3>3
    <2>2. CASE csr # None /\ Become(p, Proc("csr_poll", s, pod[p].pair, csr))
      <3>1. pod'[p].pc = "csr_poll" /\ pod'[p].pair = pod[p].pair
        BY <1>3, <2>2
      <3> QED
        BY <1>0, <1>10, <3>1 DEF CsrPoll, OwnRequest, At, Storing
    <2> QED
      BY <1>1, <1>10, <2>1, <2>2 DEF CsrPoll
  <1>11. CASE SecretCreate(p)
    <2>1. CASE secret = None
      <3>1. /\ pod'[p].pc = "sec_verify" /\ pod'[p].pair = pod[p].pair
            /\ pod[p].pc = "sec_create" /\ UNCHANGED csr
        BY <1>2, <1>11, <2>1 DEF SecretCreate, At, Labels
      <3>2. secret'.cert = pod[p].pair.cert /\ secret'.key = pod[p].pair.key
        BY <1>11, <2>1 DEF SecretCreate
      <3> QED
        BY <1>0, <3>1, <3>2 DEF Storing
    <2> QED
      BY <1>1, <1>11, <2>1 DEF SecretCreate
  <1>12. CASE SecretVerify(p) \/ Wait(p) \/ WriteCert(p) \/ WriteKey(p)
    BY <1>0, <1>1, <1>2, <1>12 DEF SecretVerify, Wait, WriteCert, WriteKey, At, Labels, Storing
  <1> QED
    BY <1>4, <1>5, <1>6, <1>7, <1>8, <1>9, <1>10, <1>11, <1>12 DEF Step

LEMMA NextMatched ==
  ASSUME Alone, IInv, Matched, [Next]_vars
  PROVE  Matched'
  <1>0. PodsTyped /\ csr \in CSRs \cup {None} /\ secret \in Secrets \cup {None}
    BY DEF IInv, TypeOK, PodsTyped
  <1>1. CASE UNCHANGED vars
    BY <1>1 DEF vars, Matched, OwnRequest
  <1>2. ASSUME NEW p \in Pods, PollTimeout(p) \/ Restart(p) \/ Kill(p) \/ ApiError(p)
        PROVE  Matched'
    <2>1. UNCHANGED <<secret, csr>>
      BY <1>2 DEF PollTimeout, Restart, Kill, ApiError
    <2>2. PICK l \in {"crashed", "read_secret", "csr_poll"}, pair \in {pod[p].pair, NoPair} :
             /\ \E seen, req : Become(p, Proc(l, seen, pair, req))
             /\ l = "csr_poll" => pod[p].pc = "csr_approve" /\ pair = pod[p].pair
      BY <1>2 DEF PollTimeout, Restart, Kill, ApiError, Exit, Fresh, Goto, At
    <2>3. /\ pod'[p].pc = l /\ pod'[p].pair = pair
          /\ \A q \in Pods \ {p} : pod'[q] = pod[q]
      BY <1>0, <2>2 DEF Become, Proc, PodsTyped
    <2> QED
      BY <2>1, <2>2, <2>3 DEF Matched, OwnRequest, Storing
  <1>3. CASE Sign
    BY <1>0, <1>3 DEF Sign, Matched, OwnRequest, CSRs
  <1>4. CASE Age
    BY <1>0, <1>4 DEF Age, Matched, OwnRequest, Secrets
  <1> QED
    BY <1>1, <1>2, <1>3, <1>4, StepMatched DEF Next

LEMMA MatchedServe == IInv /\ Matched => PairMatches
  BY DEF IInv, PodInv, Written, Matched, PairMatches, At, Storing

(* A single replica, restarted as often as you like and whatever request an *)
(* earlier one has left, serves a certificate and a key that belong         *)
(* together: the mismatch that two replicas can bring about needs both.     *)
THEOREM MatchesAlone ==
  ASSUME Alone, InitialMatch
  PROVE  Spec => []PairMatches
  <1>1. IInv /\ Matched /\ [Next]_vars => Matched'
    BY NextMatched
  <1>2. Init => Matched
    BY InitMatched
  <1>3. Spec => [](IInv /\ Matched)
    BY <1>1, <1>2, InitIInv, NextIInv, PTL DEF Spec
  <1> QED
    BY <1>3, MatchedServe, PTL

-----------------------------------------------------------------------------
(* Waiting *)

(* A secret is the operator's or says which replica made it. *)
Attributed(s) == s # None => s.byoc \/ s.label \in Pods

WaitsForMaker(p) == Attributed(pod[p].seen) /\ (At(p, "wait") => ~Byoc(pod[p].seen))

Makers == Attributed(secret) /\ \A p \in Pods : WaitsForMaker(p)

(* A step takes over the secret, or keeps what was read and comes to wait   *)
(* only if that is no operator's.                                           *)
LEMMA StepMakers ==
  ASSUME IInv, Makers, NEW p \in Pods, Step(p)
  PROVE  Makers'
  <1>0. PodsTyped /\ Attributed(secret) /\ WaitsForMaker(p)
    BY DEF IInv, TypeOK, PodsTyped, Makers
  <1>1. \A q \in Pods \ {p} : pod'[q] = pod[q]
    BY <1>0, StepMovesOne
  <1>2. secret' = secret \/ (secret'.label \in Pods /\ ~secret'.byoc)
    BY DEF Step, ReadSecret, ReadCA, Decide, CsrRead, CsrDelete, CsrCreate, CsrStatus, CsrApprove,
       CsrPoll, SecretCreate, SecretVerify, Wait, WriteCert, WriteKey
  <1>3. \/ pod'[p].seen = None /\ pod'[p].pc # "wait"
        \/ pod'[p].seen = secret /\ pod'[p].pc # "wait"
        \/ /\ pod'[p].seen = pod[p].seen
           /\ pod'[p].pc = "wait" => ~Byoc(pod[p].seen)
    BY <1>0 DEF Step, ReadSecret, ReadCA, Decide, GenerateKey, CsrRead, CsrDelete, CsrCreate,
       CsrStatus, CsrApprove, CsrPoll, SecretCreate, SecretVerify, Wait, WriteCert, WriteKey,
       WriteStage, Byoc, At, Goto, Exit, Fresh, Become, Proc, PodsTyped
  <1>4. WaitsForMaker(p)'
    BY <1>0, <1>3 DEF WaitsForMaker, Attributed, At, Byoc
  <1> QED
    BY <1>0, <1>1, <1>2, <1>4 DEF Makers, WaitsForMaker, Attributed, At, Byoc

LEMMA NextMakers == IInv /\ Makers /\ [Next]_vars => Makers'
  <1> SUFFICES ASSUME IInv, Makers, [Next]_vars PROVE Makers'
    OBVIOUS
  <1>0. PodsTyped /\ secret \in Secrets \cup {None}
    BY DEF IInv, TypeOK, PodsTyped
  <1>1. ASSUME UNCHANGED pod, Attributed(secret)' PROVE Makers'
    BY <1>1 DEF Makers, WaitsForMaker, Attributed, At, Byoc
  <1>2. CASE UNCHANGED vars \/ Sign
    BY <1>1, <1>2 DEF vars, Sign, Makers, Attributed
  <1>3. CASE Age
    BY <1>0, <1>1, <1>3 DEF Age, Makers, Attributed, Secrets
  <1>4. ASSUME NEW p \in Pods, PollTimeout(p) \/ Restart(p) \/ Kill(p) \/ ApiError(p)
        PROVE  Makers'
    <2>1. UNCHANGED secret
      BY <1>4 DEF PollTimeout, Restart, Kill, ApiError
    <2>2. \A q \in Pods \ {p} : pod'[q] = pod[q]
      BY <1>4 DEF PollTimeout, Restart, Kill, ApiError, Goto, Exit, Become, PodsTyped, IInv, TypeOK
    <2>3. pod'[p].pc # "wait" /\ pod'[p].seen \in {None, pod[p].seen}
      BY <1>0, <1>4 DEF PollTimeout, Restart, Kill, ApiError, Goto, Exit, Become, Fresh, Proc,
         PodsTyped
    <2> QED
      BY <2>1, <2>2, <2>3 DEF Makers, WaitsForMaker, Attributed, At, Byoc
  <1> QED
    BY <1>2, <1>3, <1>4, StepMakers DEF Next

(* Where each secret at the start is the operator's or carries the label of *)
(* the replica that made it, a replica only waits for a maker it knows and  *)
(* can leave the loop; tls_wait shows that otherwise it may not.            *)
THEOREM WaitCanEnd ==
  ASSUME \A s \in InitSecrets : Attributed(s)
  PROVE  Spec => [](\A p \in Pods : At(p, "wait") => pod[p].seen # None /\ pod[p].seen.label \in Pods)
  <1>1. Init => Makers
    BY DEF Init, Makers, WaitsForMaker, Attributed, Byoc, At, Fresh, Proc
  <1>2. ASSUME IInv, Makers, NEW p \in Pods, At(p, "wait")
        PROVE  pod[p].seen # None /\ pod[p].seen.label \in Pods
    BY <1>2 DEF IInv, PodInv, HoldsStored, Makers, WaitsForMaker, Attributed, Byoc
  <1>3. IInv /\ Makers =>
          \A p \in Pods : At(p, "wait") => pod[p].seen # None /\ pod[p].seen.label \in Pods
    BY <1>2
  <1> QED
    BY <1>1, <1>3, InitIInv, NextIInv, NextMakers, PTL DEF Spec

-----------------------------------------------------------------------------
(* Refinement of PairElection *)

Chosen == IF secret = None THEN None ELSE PairOf(secret)
Serves == [p \in Pods |-> IF At(p, "done") /\ ~Rotates(pod[p].seen) THEN files[p] ELSE None]

(* A step in which p neither is nor becomes done changes nobody's service. *)
Unserving(p) ==
    /\ ~At(p, "done") /\ ~At(p, "done")'
    /\ \A q \in Pods \ {p} : pod'[q] = pod[q] /\ files'[q] = files[q]

LEMMA UnservingKeeps ==
  ASSUME NEW p \in Pods, Unserving(p)
  PROVE  Serves' = Serves
  BY DEF Unserving, Serves, At

LEMMA StepUnserving ==
  ASSUME TypeOK, NEW p \in Pods, \/ Step(p) /\ ~WriteKey(p)
                                 \/ PollTimeout(p) \/ Restart(p) \/ Kill(p) \/ ApiError(p)
  PROVE  Unserving(p)
  <1> USE DEF TypeOK, Unserving, At, Goto, Exit, Become, Fresh, Proc
  <1>1. CASE ReadSecret(p) \/ ReadCA(p)
    BY <1>1 DEF ReadSecret, ReadCA
  <1>2. CASE Decide(p)
    BY <1>2 DEF Decide, GenerateKey, WriteStage
  <1>3. CASE CsrRead(p) \/ CsrDelete(p) \/ CsrCreate(p) \/ CsrStatus(p) \/ CsrApprove(p)
    BY <1>3 DEF CsrRead, CsrDelete, CsrCreate, CsrStatus, CsrApprove
  <1>4. CASE CsrPoll(p)
    BY <1>4 DEF CsrPoll, WriteStage
  <1>5. CASE SecretCreate(p) \/ SecretVerify(p) \/ Wait(p)
    BY <1>5 DEF SecretCreate, SecretVerify, Wait
  <1>6. CASE WriteCert(p)
    BY <1>6 DEF WriteCert
  <1>7. CASE PollTimeout(p) \/ Restart(p) \/ Kill(p) \/ ApiError(p)
    BY <1>7 DEF PollTimeout, Restart, Kill, ApiError, ExitOnError
  <1> QED
    BY <1>1, <1>2, <1>3, <1>4, <1>5, <1>6, <1>7 DEF Step

LEMMA InitElects == Init => Election!Init
  <1> SUFFICES ASSUME Init PROVE Election!Init
    OBVIOUS
  <1>1. Chosen \in Pairs \cup {None}
    BY TlsAssumption DEF Init, Chosen, PairOf, Pairs, Secrets
  <1>2. Serves = [p \in Pods |-> None]
    BY DEF Init, Serves, At, Fresh, Proc
  <1> QED
    BY <1>1, <1>2 DEF Election!Init, Chosen, Serves

LEMMA NextElects == IInv /\ IInv' /\ [Next]_vars => [Election!Next]_(Election!vars)
  <1> SUFFICES ASSUME IInv, IInv', [Next]_vars
               PROVE  \/ Chosen' = Chosen /\ Serves' = Serves
                      \/ Chosen = None /\ Chosen' \in Pairs /\ Serves' = Serves
                      \/ \E p \in Pods : /\ Chosen # None /\ Chosen' = Chosen
                                         /\ Serves[p] = None
                                         /\ Serves' = [Serves EXCEPT ![p] = Chosen]
    BY DEF Election!Next, Election!Choose, Election!Adopt, Election!vars, Chosen, Serves
  <1>1. CASE UNCHANGED vars
    BY <1>1 DEF vars, Chosen, Serves, At
  <1>2. CASE Sign
    BY <1>2 DEF Sign, Chosen, Serves, At
  <1>3. CASE Age
    <2>1. PairOf(secret') = PairOf(secret) /\ secret' # None
      BY <1>3, TlsAssumption DEF Age, IInv, TypeOK, Secrets, PairOf
    <2> QED
      BY <1>3, <2>1 DEF Age, Chosen, Serves, At
  <1>4. ASSUME NEW p \in Pods, \/ Step(p) /\ ~WriteKey(p) /\ ~SecretCreate(p)
                               \/ PollTimeout(p) \/ Restart(p) \/ Kill(p) \/ ApiError(p)
        PROVE  Chosen' = Chosen /\ Serves' = Serves
    <2>1. Serves' = Serves
      BY <1>4, StepUnserving, UnservingKeeps DEF IInv
    <2>2. secret' = secret
      BY <1>4 DEF Step, ReadSecret, ReadCA, Decide, CsrRead, CsrDelete, CsrCreate, CsrStatus,
         CsrApprove, CsrPoll, SecretVerify, Wait, WriteCert, PollTimeout, Restart, Kill, ApiError
    <2> QED
      BY <2>1, <2>2 DEF Chosen
  <1>5. ASSUME NEW p \in Pods, SecretCreate(p)
        PROVE  \/ Chosen' = Chosen /\ Serves' = Serves
               \/ Chosen = None /\ Chosen' \in Pairs /\ Serves' = Serves
    <2>1. Serves' = Serves
      BY <1>5, StepUnserving, UnservingKeeps DEF Step, SecretCreate, WriteKey, At, IInv
    <2>2. secret' # None => Chosen' \in Pairs
      BY DEF Chosen, PairOf, Pairs, IInv, TypeOK, Secrets
    <2> QED
      BY <1>5, <2>1, <2>2 DEF SecretCreate, Chosen
  <1>6. ASSUME NEW p \in Pods, WriteKey(p)
        PROVE  \/ Chosen' = Chosen /\ Serves' = Serves
               \/ /\ Chosen # None /\ Chosen' = Chosen
                  /\ Serves[p] = None /\ Serves' = [Serves EXCEPT ![p] = Chosen]
    <2>1. /\ At(p, "write_key") /\ UNCHANGED secret /\ Chosen' = Chosen
          /\ pod'[p] = Proc("done", pod[p].seen, pod[p].pair, pod[p].req)
          /\ \A q \in Pods \ {p} : pod'[q] = pod[q] /\ files'[q] = files[q]
      BY <1>6, GotoEffect DEF WriteKey, Labels, IInv, TypeOK, PodsTyped, Chosen
    <2>2. Serves[p] = None
      BY <2>1 DEF Serves, At
    <2>3. CASE Rotates(pod[p].seen)
      BY <2>1, <2>3 DEF Serves, At, Proc
    <2>4. CASE ~Rotates(pod[p].seen)
      <3>1. ReplicasAgree'
        BY IInvAgree, PTL
      <3>2. At(p, "done")' /\ ~Rotates(pod'[p].seen)
        BY <2>1, <2>4 DEF At, Proc
      <3>3. secret # None /\ files'[p] = Chosen
        BY <2>1, <3>1, <3>2 DEF ReplicasAgree, Chosen
      <3>4. \A q \in Pods : Serves'[q] = IF q = p THEN Chosen ELSE Serves[q]
        BY <2>1, <3>2, <3>3 DEF Serves, At
      <3>5. Serves' = [Serves EXCEPT ![p] = Chosen]
        BY <3>4 DEF Serves
      <3>6. Chosen # None
        BY <3>3, TlsAssumption DEF Chosen, PairOf, Pairs, IInv, TypeOK, Secrets
      <3> QED
        BY <2>1, <2>2, <3>5, <3>6
    <2> QED
      BY <2>3, <2>4
  <1> QED
    BY <1>1, <1>2, <1>3, <1>4, <1>5, <1>6 DEF Next, Step

(* The replicas' protocol implements a single choice that all adopt. *)
THEOREM Refinement == Spec => ImplementsElection
  <1>1. Election!Init /\ [][Election!Next]_(Election!vars) => ImplementsElection
    BY DEF ImplementsElection, Election!Spec
  <1> QED
    BY <1>1, InitElects, NextElects, Invariance, PTL DEF Spec

=============================================================================
