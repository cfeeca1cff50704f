------------------------------ MODULE TlsInit ------------------------------
(***************************************************************************)
(* init_tls_pair of app/magtape-init/magtape-init.py, run by the init       *)
(* container of every replica of the MagTape deployment.  The replicas      *)
(* share two API objects whose names are fixed: the secret "magtape-tls"    *)
(* and the certificate signing request of the service.  Every call to the   *)
(* Kubernetes API is a step of its own, so that the calls of different      *)
(* replicas interleave; what a replica computes between two calls belongs   *)
(* to the step before it or to Decide.                                      *)
(*                                                                          *)
(* Abstraction.  A private key is an identifier <<p, n>>, the n-th key that *)
(* replica p generates (n = 0: generated by p before this history begins),  *)
(* or ExtKey, a key made by the operator.  A certificate is the key it      *)
(* certifies.  Of its dates only "180 days or less are left" is kept.       *)
(***************************************************************************)
EXTENDS Naturals

CONSTANTS
    Pods,         \* the replicas
    ExtKey,       \* the key of a pair the operator brings
    Blank,        \* the empty value of a secret's field
    None,         \* no secret, no request, no value
    InitSecrets,  \* what the secret may be when the deployment starts
    MaxGen,       \* bound: keys generated by one replica
    MaxFaults     \* bound: API errors, kills and slow signatures together

Keys  == (Pods \X Nat) \cup {ExtKey}

(* The data of the secret, and the metadata the code looks at.  ~readable: *)
(* a field is missing, is not base64 or is not a certificate.  label: the  *)
(* value of magtape/updated-by-pod, "other" if the secret has labels but   *)
(* not that one, "null" if it has none.                                    *)
Secrets == [cert : Keys \cup {Blank}, key : Keys \cup {Blank}, due : BOOLEAN,
            readable : BOOLEAN, byoc : BOOLEAN, label : Pods \cup {"other", "null"}]

CSRs  == [key : Keys, approved : BOOLEAN, signed : BOOLEAN]
Pairs == [cert : Keys \cup {Blank}, key : Keys \cup {Blank}]

ASSUME TlsAssumption ==
    /\ InitSecrets \subseteq Secrets \cup {None}
    /\ None \notin Keys \cup {Blank} /\ Blank \notin Keys
    /\ None \notin Secrets \cup CSRs \cup Pairs
    /\ MaxGen \in Nat /\ MaxFaults \in Nat

VARIABLES
    secret,  \* the secret magtape-tls
    ca,      \* the secret magtape-tls-ca: "ok", "blank" or "absent"
    csr,     \* the certificate signing request of the service
    pod,     \* pod[p]: the process of p's init container
    files,   \* files[p]: cert.pem and key.pem in p's emptyDir
    gen,     \* gen[p]: how many keys p has generated
    faults   \* faults so far

vars == <<secret, ca, csr, pod, files, gen, faults>>

NoPair    == [cert |-> None, key |-> None]
PairOf(s) == [cert |-> s.cert, key |-> s.key]

CsrSteps == {"csr_read", "csr_delete", "csr_create", "csr_status", "csr_approve", "csr_poll"}
Labels   == CsrSteps \cup
            {"read_secret", "read_ca", "decide", "sec_create", "sec_verify", "wait",
             "write_cert", "write_key", "done", "crashed"}

(* pc: the next call.  seen: tls_secret, as read (None: 404).  pair: the   *)
(* local tls_pair, or the part of it that build_tls_pair has made.  req:   *)
(* the request as last read.                                               *)
Process == [pc : Labels, seen : Secrets \cup {None},
            pair : [cert : Keys \cup {Blank, None}, key : Keys \cup {Blank, None}],
            req : CSRs \cup {None}]

Proc(l, seen, pair, req) == [pc |-> l, seen |-> seen, pair |-> pair, req |-> req]
Fresh(l) == Proc(l, None, NoPair, None)

Init ==
    /\ secret \in InitSecrets
    /\ ca \in {"ok", "blank", "absent"}
    /\ \/ csr = None
       \/ \E p \in Pods, a \in BOOLEAN : csr = [key |-> <<p, 0>>, approved |-> a, signed |-> a]
    /\ pod = [p \in Pods |-> Fresh("read_secret")]
    /\ files = [p \in Pods |-> NoPair]
    /\ gen = [p \in Pods |-> 0]
    /\ faults = 0

At(p, l)     == pod[p].pc = l
Become(p, r) == pod' = [pod EXCEPT ![p] = r]
Goto(p, l)   == Become(p, Proc(l, pod[p].seen, pod[p].pair, pod[p].req))

(* sys.exit(1) and an uncaught exception alike: the process is gone, the    *)
(* files in the emptyDir stay.                                              *)
Exit(p) == Become(p, Fresh("crashed"))

-----------------------------------------------------------------------------
(* Decisions *)

IsBlank(s) == s.cert = Blank \/ s.key = Blank

(* cert_should_update, on no secret or on one that can be read. *)
ShouldUpdate(s) == s # None => IsBlank(s) \/ s.due

Byoc(s)    == s # None /\ s.byoc
Rotates(s) == s # None /\ ShouldUpdate(s) /\ ~s.byoc

(* write_tls_pair's first branch: no secret was read, so create one; the   *)
(* operator's secret is used at once; any other is waited for.  The branch *)
(* that patches an existing secret needs secret_exists to be false after   *)
(* both arms made or found it true: it is never taken.                     *)
WriteStage(s) == IF s = None THEN "sec_create"
                 ELSE IF s.byoc THEN "write_cert" ELSE "wait"

Issued(r) == r.approved /\ r.signed

-----------------------------------------------------------------------------
(* Reading and judging the existing secret *)

(* read_tls_pair.  A 404 is the expected "no secret yet"; data that cannot  *)
(* be decoded raises.                                                       *)
ReadSecret(p) ==
    /\ At(p, "read_secret")
    /\ \/ /\ secret = None
          /\ Goto(p, "decide")
       \/ /\ secret # None /\ secret.readable
          /\ Become(p, Proc(IF secret.byoc THEN "read_ca" ELSE "decide",
                            secret, PairOf(secret), None))
       \/ /\ secret # None /\ ~secret.readable
          /\ Exit(p)
    /\ UNCHANGED <<secret, ca, csr, files, gen, faults>>

(* check_for_byoc, on a secret with the annotation: the CA's secret must be *)
(* there and hold a certificate.                                            *)
ReadCA(p) ==
    /\ At(p, "read_ca")
    /\ IF ca = "ok" THEN Goto(p, "decide") ELSE Exit(p)
    /\ UNCHANGED <<secret, ca, csr, files, gen, faults>>

(* A private key of the replica's own, for which a request is then built. *)
GenerateKey(p) ==
    /\ gen[p] < MaxGen
    /\ gen' = [gen EXCEPT ![p] = @ + 1]
    /\ Become(p, Proc("csr_read", pod[p].seen,
                      [cert |-> None, key |-> <<p, gen[p] + 1>>], None))

(* Faulty variant: blank fields are no reason to make a new pair. *)
DecideKeepingBlank(p) ==
    /\ At(p, "decide")
    /\ IF pod[p].seen = None \/ (pod[p].seen.due /\ ~Byoc(pod[p].seen))
       THEN GenerateKey(p)
       ELSE Goto(p, WriteStage(pod[p].seen)) /\ UNCHANGED gen
    /\ UNCHANGED <<secret, ca, csr, files, faults>>

(* Faulty variant: an operator's certificate is rotated like any other. *)
DecideRotatingByoc(p) ==
    /\ At(p, "decide")
    /\ IF ShouldUpdate(pod[p].seen)
       THEN GenerateKey(p)
       ELSE Goto(p, WriteStage(pod[p].seen)) /\ UNCHANGED gen
    /\ UNCHANGED <<secret, ca, csr, files, faults>>

(* cert_should_update and the branch of init_tls_pair on its answer. *)
Decide(p) ==
    LET s == pod[p].seen IN
    /\ At(p, "decide")
    /\ \/ /\ Byoc(s) /\ IsBlank(s)
          /\ Exit(p) /\ UNCHANGED gen
       \/ /\ ShouldUpdate(s) /\ ~Byoc(s)
          /\ GenerateKey(p)
       \/ /\ IF Byoc(s) THEN ~IsBlank(s) ELSE ~ShouldUpdate(s)
          /\ Goto(p, WriteStage(s)) /\ UNCHANGED gen
    /\ UNCHANGED <<secret, ca, csr, files, faults>>

-----------------------------------------------------------------------------
(* submit_and_approve_k8s_csr *)

(* Faulty variant: use the request that is found. *)
CsrReadKeeping(p) ==
    /\ At(p, "csr_read")
    /\ IF csr = None THEN Goto(p, "csr_create")
       ELSE Become(p, Proc("csr_approve", pod[p].seen, pod[p].pair, csr))
    /\ UNCHANGED <<secret, ca, csr, files, gen, faults>>

(* Look for a request of that name, whoever made it. *)
CsrRead(p) ==
    /\ At(p, "csr_read")
    /\ Goto(p, IF csr = None THEN "csr_create" ELSE "csr_delete")
    /\ UNCHANGED <<secret, ca, csr, files, gen, faults>>

(* Delete it by name; that it is gone already is fine. *)
CsrDelete(p) ==
    /\ At(p, "csr_delete")
    /\ csr' = None
    /\ Goto(p, "csr_create")
    /\ UNCHANGED <<secret, ca, files, gen, faults>>

(* Create one for the replica's own key; 409 when the name is taken. *)
CsrCreate(p) ==
    /\ At(p, "csr_create")
    /\ \/ /\ csr = None
          /\ csr' = [key |-> pod[p].pair.key, approved |-> FALSE, signed |-> FALSE]
          /\ Goto(p, "csr_status")
       \/ /\ csr # None
          /\ Exit(p) /\ UNCHANGED csr
    /\ UNCHANGED <<secret, ca, files, gen, faults>>

(* Read the request of that name back. *)
CsrStatus(p) ==
    /\ At(p, "csr_status")
    /\ IF csr = None THEN Exit(p)
       ELSE Become(p, Proc("csr_approve", pod[p].seen, pod[p].pair, csr))
    /\ UNCHANGED <<secret, ca, csr, files, gen, faults>>

(* Faulty variant: approve whatever has that name. *)
CsrApproveByName(p) ==
    /\ At(p, "csr_approve")
    /\ csr' = IF csr # None THEN [csr EXCEPT !.approved = TRUE] ELSE csr
    /\ Become(p, Proc("csr_poll", pod[p].seen, pod[p].pair, None))
    /\ UNCHANGED <<secret, ca, files, gen, faults>>

(* Replace its approval.  The body carries the resourceVersion that was     *)
(* read, so a request that changed or was recreated since conflicts, one    *)
(* that was deleted is a 404, and either failure is logged and passed over. *)
(* get_tls_cert_from_request then starts with k8s_csr unbound.              *)
CsrApprove(p) ==
    /\ At(p, "csr_approve")
    /\ csr' = IF csr = pod[p].req THEN [csr EXCEPT !.approved = TRUE] ELSE csr
    /\ Become(p, Proc("csr_poll", pod[p].seen, pod[p].pair, None))
    /\ UNCHANGED <<secret, ca, files, gen, faults>>

-----------------------------------------------------------------------------
(* get_tls_cert_from_request *)

CsrPoll(p) ==
    /\ At(p, "csr_poll")
    /\ \/ /\ csr = None /\ pod[p].req = None   \* k8s_csr is unbound when it is used
          /\ Exit(p)
       \/ /\ csr # None /\ ~Issued(csr)
          /\ Become(p, Proc("csr_poll", pod[p].seen, pod[p].pair, csr))
       \/ /\ csr # None /\ Issued(csr)         \* whichever key it certifies
          /\ Become(p, Proc(WriteStage(pod[p].seen), pod[p].seen,
                            [cert |-> csr.key, key |-> pod[p].pair.key], None))
    /\ UNCHANGED <<secret, ca, csr, files, gen, faults>>

(* Faulty variant: after the time-out, go on with what there is. *)
PollTimeoutPassing(p) ==
    /\ At(p, "csr_poll") /\ pod[p].req # None
    /\ Goto(p, WriteStage(pod[p].seen))
    /\ UNCHANGED <<secret, ca, csr, files, gen, faults>>

(* Five seconds have passed: the loop ends and decodes a certificate that   *)
(* is None.  When all that is missing is the signature, being this slow is  *)
(* one of the counted faults.                                               *)
PollTimeout(p) ==
    LET slow == csr # None /\ csr.approved IN
    /\ At(p, "csr_poll")
    /\ pod[p].req # None
    /\ slow => faults < MaxFaults
    /\ Exit(p)
    /\ faults' = IF slow THEN faults + 1 ELSE faults
    /\ UNCHANGED <<secret, ca, csr, files, gen>>

-----------------------------------------------------------------------------
(* write_tls_pair *)

(* Faulty variant: a secret that exists is replaced. *)
SecretCreateReplacing(p) ==
    /\ At(p, "sec_create")
    /\ secret' = [cert |-> pod[p].pair.cert, key |-> pod[p].pair.key, due |-> FALSE,
                  readable |-> TRUE, byoc |-> FALSE, label |-> p]
    /\ Goto(p, "sec_verify")
    /\ UNCHANGED <<ca, csr, files, gen, faults>>

(* Faulty variant: 409 is taken for success. *)
SecretCreateTolerant(p) ==
    /\ At(p, "sec_create")
    /\ secret' = IF secret # None THEN secret
                 ELSE [cert |-> pod[p].pair.cert, key |-> pod[p].pair.key, due |-> FALSE,
                       readable |-> TRUE, byoc |-> FALSE, label |-> p]
    /\ Goto(p, "sec_verify")
    /\ UNCHANGED <<ca, csr, files, gen, faults>>

(* Only one replica's create succeeds; the others get 409 and exit. *)
SecretCreate(p) ==
    /\ At(p, "sec_create")
    /\ \/ /\ secret = None
          /\ secret' = [cert |-> pod[p].pair.cert, key |-> pod[p].pair.key, due |-> FALSE,
                        readable |-> TRUE, byoc |-> FALSE, label |-> p]
          /\ Goto(p, "sec_verify")
       \/ /\ secret # None
          /\ Exit(p) /\ UNCHANGED secret
    /\ UNCHANGED <<ca, csr, files, gen, faults>>

(* Read the new secret back.  Nobody deletes it here, so only ApiError can  *)
(* make this read fail; what it returns is not looked at.                   *)
SecretVerify(p) ==
    /\ At(p, "sec_verify")
    /\ Goto(p, "write_cert")
    /\ UNCHANGED <<secret, ca, csr, files, gen, faults>>

(* The loop that waits for the replica that won the race.  It looks at the  *)
(* labels of the secret as it was read before the loop: if the label is not *)
(* among them it never will be, and the step is never enabled.              *)
Wait(p) ==
    LET label == pod[p].seen.label IN
    /\ At(p, "wait")
    /\ \/ label = "null" /\ Exit(p)             \* "in None" raises
       \/ label \in Pods /\ Goto(p, "write_cert")
    /\ UNCHANGED <<secret, ca, csr, files, gen, faults>>

WriteCert(p) ==
    /\ At(p, "write_cert")
    /\ files' = [files EXCEPT ![p].cert = pod[p].pair.cert]
    /\ Goto(p, "write_key")
    /\ UNCHANGED <<secret, ca, csr, gen, faults>>

(* With the second file written, main() goes on to init_vwc. *)
WriteKey(p) ==
    /\ At(p, "write_key")
    /\ files' = [files EXCEPT ![p].key = pod[p].pair.key]
    /\ Goto(p, "done")
    /\ UNCHANGED <<secret, ca, csr, gen, faults>>

-----------------------------------------------------------------------------
(* Environment *)

(* The cluster's signer issues the certificate of an approved request. *)
Sign ==
    /\ csr # None /\ csr.approved /\ ~csr.signed
    /\ csr' = [csr EXCEPT !.signed = TRUE]
    /\ UNCHANGED <<secret, ca, pod, files, gen, faults>>

(* The stored certificate comes within 180 days of its end. *)
Age ==
    /\ secret # None /\ ~secret.due
    /\ secret' = [secret EXCEPT !.due = TRUE]
    /\ UNCHANGED <<ca, csr, pod, files, gen, faults>>

(* The kubelet starts a failed init container again. *)
Restart(p) ==
    /\ At(p, "crashed")
    /\ Goto(p, "read_secret")
    /\ UNCHANGED <<secret, ca, csr, files, gen, faults>>

(* An init container is killed between two calls. *)
Kill(p) ==
    /\ pod[p].pc \notin {"crashed", "done"}
    /\ faults < MaxFaults
    /\ faults' = faults + 1
    /\ Exit(p)
    /\ UNCHANGED <<secret, ca, csr, files, gen>>

ExitOnError == {"read_secret", "read_ca", "csr_read", "csr_delete", "csr_create",
                "csr_status", "sec_create", "sec_verify"}

(* The API server answers a call with an ApiException other than the 404 or *)
(* 409 that the steps above model.  Most calls exit on it.  A failed        *)
(* approval is passed over, and so is a failed poll unless it is the first. *)
ApiError(p) ==
    /\ faults < MaxFaults
    /\ faults' = faults + 1
    /\ \/ /\ \/ pod[p].pc \in ExitOnError
             \/ At(p, "csr_poll") /\ pod[p].req = None
          /\ Exit(p)
       \/ /\ At(p, "csr_approve")
          /\ Become(p, Proc("csr_poll", pod[p].seen, pod[p].pair, None))
    /\ UNCHANGED <<secret, ca, csr, files, gen>>

-----------------------------------------------------------------------------
Step(p) ==
    \/ ReadSecret(p) \/ ReadCA(p) \/ Decide(p)
    \/ CsrRead(p) \/ CsrDelete(p) \/ CsrCreate(p) \/ CsrStatus(p) \/ CsrApprove(p)
    \/ CsrPoll(p)
    \/ SecretCreate(p) \/ SecretVerify(p) \/ Wait(p) \/ WriteCert(p) \/ WriteKey(p)

Next ==
    \/ \E p \in Pods : Step(p) \/ PollTimeout(p) \/ Restart(p) \/ Kill(p) \/ ApiError(p)
    \/ Sign
    \/ Age

Spec == Init /\ [][Next]_vars

(* A running container goes on, its clock moves, the kubelet restarts it,   *)
(* and the signer signs.  Faults are never owed.                            *)
Fairness ==
    /\ \A p \in Pods : WF_vars(Step(p)) /\ WF_vars(PollTimeout(p)) /\ WF_vars(Restart(p))
    /\ WF_vars(Sign)

FairSpec == Spec /\ Fairness

-----------------------------------------------------------------------------
(* Properties *)

(* Every variable keeps its type. *)
TypeOK ==
    /\ secret \in Secrets \cup {None}
    /\ ca \in {"ok", "blank", "absent"}
    /\ csr \in CSRs \cup {None}
    /\ pod \in [Pods -> Process]
    /\ files \in [Pods -> [cert : Keys \cup {Blank, None}, key : Keys \cup {Blank, None}]]
    /\ gen \in [Pods -> 0 .. MaxGen]
    /\ faults \in 0 .. MaxFaults

(* However the replicas race, crash and restart, one that finished without  *)
(* rotating serves exactly the pair of the shared secret, so that all of    *)
(* them present one certificate: the loser of the create exits on 409       *)
(* rather than serve the pair it made, and no file is left over from an     *)
(* earlier attempt.                                                         *)
ReplicasAgree ==
    \A p \in Pods : At(p, "done") /\ ~Rotates(pod[p].seen) =>
        secret # None /\ files[p] = PairOf(secret)

(* An operator's pair is served only with the CA's certificate in place and *)
(* no blank field, and is never replaced: a replica that has read it makes  *)
(* no request of its own, even when the certificate is due for rotation.    *)
ByocRespected ==
    \A p \in Pods : Byoc(pod[p].seen) =>
        /\ pod[p].pc \notin CsrSteps \cup {"sec_create"}
        /\ At(p, "done") => /\ ca = "ok"
                            /\ files[p] = [cert |-> pod[p].seen.cert, key |-> pod[p].seen.key]

(* No replica starts to serve with a missing or blank certificate or key,   *)
(* whatever the secret held and however often the container was restarted   *)
(* between the two writes.                                                  *)
ServesUsablePair ==
    \A p \in Pods : At(p, "done") => {files[p].cert, files[p].key} \cap {Blank, None} = {}

(* The certificate and the key that a replica serves belong together.       *)
(* docs/architecture.md: the init container "takes care of generating the   *)
(* required cert/key pair".                                                 *)
PairMatches ==
    \A p \in Pods : At(p, "done") => files[p].cert = files[p].key

(* A replica approves only the request it read, even when another replica   *)
(* deletes and recreates the request under the same name in between.        *)
ApprovesWhatItRead ==
    [][csr # None /\ csr' # None /\ csr.approved # csr'.approved =>
         \E p \in Pods : At(p, "csr_approve") /\ pod[p].req.key = csr'.key]_vars

(* The detailed protocol elects one pair for all replicas: the secret is    *)
(* the register that is written once, and finishing without rotating is     *)
(* adopting what it holds.                                                  *)
Election == INSTANCE PairElection WITH
    Replicas <- Pods,
    chosen   <- IF secret = None THEN None ELSE PairOf(secret),
    serves   <- [p \in Pods |-> IF At(p, "done") /\ ~Rotates(pod[p].seen)
                                THEN files[p] ELSE None]

ImplementsElection == Election!Spec

(* What can be recovered from: no secret at all, one that a replica made    *)
(* (also when it is due or blank), or an operator's complete pair with its  *)
(* CA.                                                                      *)
Recoverable(s) ==
    s = None \/ /\ s.readable
                /\ IF s.byoc THEN ca = "ok" /\ ~IsBlank(s) ELSE s.label \in Pods

(* Faults delay a replica but do not stop it: through kills at any step,    *)
(* API errors, a former replica's stale request and slow signatures it      *)
(* finishes in the end, and the pair it then serves belongs together.       *)
Recovers ==
    \A p \in Pods : Recoverable(secret) => <>(At(p, "done") /\ files[p].cert = files[p].key)

(* A replica that set out to rotate a certificate leaves a new one in the   *)
(* secret.  docs/install.md: MagTape handles creation and rotation of the   *)
(* certificate.                                                             *)
RotationPersisted ==
    \A p \in Pods : At(p, "done") /\ Rotates(pod[p].seen) =>
        secret # None /\ PairOf(secret) # PairOf(pod[p].seen)

(* The wait for the race winner comes to an end: its loop compares the time *)
(* passed with 30 seconds.                                                  *)
WaitEnds == \A p \in Pods : At(p, "wait") ~> ~At(p, "wait")

=============================================================================
