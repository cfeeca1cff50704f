------------------------------ MODULE InitMain ------------------------------
(***************************************************************************)
(* main() of app/magtape-init/magtape-init.py: TlsInit and VwcInit composed *)
(* into the whole init container.  Each replica runs init_tls_pair to its   *)
(* end and then init_vwc; if init_vwc exits, the kubelet restarts the       *)
(* container and both run again, on the files the first run left.           *)
(***************************************************************************)
EXTENDS Naturals, Sequences

CONSTANTS Pods, ExtKey, Blank, None, InitSecrets, MaxGen,              \* of TlsInit
          InitVwcs, Resources, Shipped, EditedRules, MaxEdits,         \* of VwcInit
          MaxFaults                                                    \* of both

VARIABLES secret, ca, csr, pod, files, gen,               \* of TlsInit
          vwc, version, platform, named, proc, edits,     \* of VwcInit
          faults                                          \* of both

tlsVars == <<secret, ca, csr, pod, files, gen>>
vwcVars == <<vwc, version, platform, named, proc, edits>>
vars    == <<tlsVars, vwcVars, faults>>

T == INSTANCE TlsInit
V == INSTANCE VwcInit

ASSUME InitMainAssumption == T!TlsAssumption /\ V!VwcAssumption

Init == T!Init /\ V!Init

(* Faulty variant: init_vwc does not wait for init_tls_pair. *)
RunVwcAtOnce(p) ==
    /\ V!Step(p) \/ V!Fail(p)
    /\ UNCHANGED tlsVars

(* init_vwc, once init_tls_pair has returned. *)
RunVwc(p) ==
    /\ T!At(p, "done")
    /\ V!Step(p) \/ V!Fail(p)
    /\ UNCHANGED tlsVars

(* The whole container starts again when init_vwc has exited. *)
RestartMain(p) ==
    /\ V!Restart(p)
    /\ pod' = [pod EXCEPT ![p] = T!Fresh("read_secret")]
    /\ UNCHANGED <<secret, ca, csr, files, gen>>

Next ==
    \/ T!Next /\ UNCHANGED vwcVars
    \/ \E p \in Pods : RunVwc(p) \/ RestartMain(p)
    \/ (V!Edit \/ V!Upgrade) /\ UNCHANGED tlsVars

Spec == Init /\ [][Next]_vars

-----------------------------------------------------------------------------
(* Properties *)

(* The init container has succeeded, so the webhook's server starts. *)
Serving(p) == V!At(p, "done")

(* Who signed the certificate of a key. *)
Issuer(key) ==
    IF key = ExtKey THEN "operator" ELSE IF platform = "plain" THEN "cluster" ELSE "pks"

(* The webhook is registered, with failurePolicy Fail, only after a pair is *)
(* stored for all replicas and one of them has both its files: until then   *)
(* no request of the cluster depends on MagTape.                            *)
RegisteredWhenServable ==
    vwc # None => /\ secret # None
                  /\ \E p \in Pods : {files[p].cert, files[p].key} \cap {None, Blank} = {}

(* Replicas agree on the pair they serve also when an exit of init_vwc, say *)
(* after a lost race, makes a replica run init_tls_pair once more.          *)
ServingAgree ==
    \A p \in Pods : Serving(p) /\ ~T!Rotates(pod[p].seen) => files[p] = T!PairOf(secret)

(* The servers elect their pair as init_tls_pair promises: the pair is      *)
(* chosen once for the deployment, and each server starts with it and keeps *)
(* it, through all the restarts of its init container before that.          *)
Election == INSTANCE PairElection WITH
    Replicas <- Pods, Pairs <- T!Pairs,
    chosen   <- IF secret = None THEN None ELSE T!PairOf(secret),
    serves   <- [p \in Pods |-> IF Serving(p) /\ ~T!Rotates(pod[p].seen)
                                THEN files[p] ELSE None]

ServersElect == Election!Spec

(* The API server trusts what a replica serves: the VWC's bundle is the CA  *)
(* that signed the certificate MagTape requested.                           *)
GeneratedPairTrusted ==
    \A p \in Pods : Serving(p) /\ edits = 0 /\ files[p].cert # ExtKey =>
        vwc.caBundle = Issuer(files[p].cert)

(* The same for a pair the operator brought.  docs/install.md: the VWC      *)
(* includes the CA that signed the certificate, from magtape-tls-ca.        *)
OperatorPairTrusted ==
    \A p \in Pods : Serving(p) /\ edits = 0 /\ files[p].cert = ExtKey =>
        vwc.caBundle = Issuer(files[p].cert)
=============================================================================
