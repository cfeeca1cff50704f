# A specification of MagTape

MagTape checks Kubernetes objects on admission. An API server sends an
`AdmissionReview` to the webhook (`app/magtape/magtape.py`), the webhook asks an
OPA beside it which of the policies (`policies/*.rego`) the object fails,
compares their severities with the deny level, reports by Kubernetes events,
Slack alerts and Prometheus counters, and answers. Before the webhook serves, an
init container (`app/magtape-init/magtape-init.py`) gets it a TLS pair and
registers it in a ValidatingWebhookConfiguration (VWC). The deployment runs
several replicas of this pod, and nothing coordinates them but the API objects
they share.

The modules here model that system in TLA+. TLC checks them on small instances,
TLAPS proves the central invariants for every value of the constants.

## The system's components

| component | state it keeps | operations | talks to | what is hard |
|---|---|---|---|---|
| TLS pair initialisation (`init_tls_pair`) | the secrets `magtape-tls` and `magtape-tls-ca`, the certificate signing request, `cert.pem` and `key.pem` in an emptyDir | read and judge the secret, check for an operator's pair, generate key and request, submit, approve and poll the request, create or patch the secret, wait for a race winner, write the files | API server, signer, other replicas through shared names | replicas race, are killed between calls, start over on the files of an earlier attempt; the signer is slow |
| VWC initialisation (`init_vwc`) | the VWC | find the root CA, read the template, compare, create or patch | API server, other replicas, an operator with kubectl | every decision rests on an earlier reading, of the VWC and of a template that may change |
| init container (`main`) | none of its own | the two above, in order; restarted as one | kubelet | the outcome of the first is an input of the second; a restart repeats both |
| admission webhook (`magtape()`) | Prometheus counters, per worker process | judge, report, count, answer | API server, OPA, Slack, Kubernetes API | threads and time-outs are few; effects precede the answer; workers die |
| OPA with its entrypoint, kube-mgmt | the loaded policies | evaluate; load policies from configmaps | the webhook | policies arrive one by one, and are gone after a restart |
| policies | none | twelve pure functions from an object to reasons | OPA | which kinds of object each one sees; numeric edges |
| comparison of VWC fields (`compare_vwc_fields`) | none | a recursive walk over nested values | VWC initialisation | lists are compared by position, a patch merges them by name |
| rollout of a workload | the workload, its ReplicaSet, its pods; the deny level, the label of the namespace and the VWC | apply, create pods, evict, change the configuration | API server, the replicas of MagTape, controllers | each replica judges by what it knows at the time; a ReplicaSet's pods are not judged; MagTape's own pods go the same way |
| deployment manifests | static | – | – | `failurePolicy`, `namespaceSelector`, emptyDir, restarts of containers |
| build and release scripts, dashboards, examples, tests | static | – | – | not part of the running system |

What makes each of them correct:

- TLS: all replicas serve one pair; it is complete, its halves belong together;
  an operator's pair is never replaced; an approval goes to the request that was
  read; faults only delay; a certificate that is due is renewed for all.
- VWC: when a replica has finished, a version of the template that was current
  since the start is in force, and the newest stays; nobody removes what is not
  MagTape's; drift is repaired by the next start; everyone finishes.
- `main`: no registration before a pair can be served; the VWC's CA bundle is the
  one that signed the served certificate.
- webhook: nothing is admitted that the deny level blocks, in no failure; what
  was announced comes true; a denial is reported to whoever it should be, and a
  warning only where it was asked for; counters count what happened; every request is
  decided, once, and its thread is freed unless a call to the Kubernetes API never
  returns.
- rollout: what runs is what was judged; an object is let in only if one ready
  replica finds nothing that it blocks, and refused by the policies only for a reason
  the documentation names; a workload that was let in gets its pods; without the
  label of the namespace everything does; MagTape itself can always come back.

The hazards behind these, each with its line, are in `PROJECT.json`.

## Modules

| module | models | state and actions |
|---|---|---|
| `PairElection` | the promise of TLS initialisation | `chosen` is written once; a replica that serves a stored pair serves the chosen one |
| `TlsInit` | `init_tls_pair` and everything it calls | below |
| `VwcInit` | `init_vwc` and everything it calls | below |
| `InitMain` | `main()`: instances of both on shared variables | `RunVwc` needs the replica's TLS process to be done, `RestartMain` resets both; `Election` is `PairElection` again, seen from the servers that start |
| `DenyLevel` | the deny level | the lists of the code and the ranking of the repository's README |
| `Admission` | the promise of the webhook | each request gets one verdict for good, only what passes is admitted, and nothing that an alert announced as denied |
| `Webhook` | `magtape()`, gunicorn's workers, the API server's side of the call | below |
| `Policies` | the twelve policies, and what `docs/policies.md` asks | predicates over abstract objects |
| `Rollout` | a workload on its way to its pods, the replicas of MagTape and their OPAs | below; uses `DenyLevel` and `Policies` |
| `TlsInitMC`, `VwcInitMC`, `InitMainMC`, `WebhookMC`, `RolloutMC` | instances for TLC | initial secrets and VWCs, template versions, environments, loads, specs |
| `TlsInitProofs`, `VwcInitProofs`, `DenyLevelProofs`, `WebhookProofs`, `WebhookReportProofs`, `RolloutProofs`, `InitMainProofs` | theorems | inductive invariants and their proofs |

**TlsInit.** The shared state is `secret` (`magtape-tls`: certificate, key,
whether it is due, readable, the operator's, and its `updated-by-pod` label),
`ca` (`magtape-tls-ca`) and `csr`. `pod[p]` is the process of a replica: the call
it makes next, `tls_secret` as it was read, its local pair, and the request as last
read. `files[p]` outlives a restart, the process does not. Every API call is one
action (`ReadSecret`, `ReadCA`, `CsrRead`, `CsrDelete`, `CsrCreate`, `CsrStatus`,
`CsrApprove`, `CsrPoll`, `SecretCreate`, `SecretVerify`), each file write too
(`WriteCert`, `WriteKey`); `Decide` is `cert_should_update` with the branch of
`init_tls_pair`, `Wait` the loop for the race winner, `PollTimeout` the end of
the five seconds. `Sign`, `Age`, `Restart`, `Kill` and `ApiError` are the environment.
A key is an identifier, a certificate is the key it certifies. The branch that
patches an existing secret is not an action, since no path makes its condition
true: `secret_exists` is true after either arm before it.

**VwcInit.** `vwc` has the fields on which the comparison and the patch can
disagree: the list of resources in the rule, the CA bundle, the fields that the
template does not name (as one value) and whether another webhook is listed before
or after MagTape's. `version` says which of the successive templates (`Shipped`)
the configmap holds. `proc[p]` has the next call, what `read_vwc` found and the
version that was read. `ReadVwc`, `ListNamespaces` (after the template's file is
read), `ReadConfigMap`, `FindWebhook`, `Reread`, `Patch` and `Create` are the calls
in the order of `init_vwc` and `write_vwc`. `Covers` is `compare_vwc_fields`: of two
lists each entry of the template's is compared with the one at the same position
(`Continues`), for the webhooks as for the rules. `RootCA` is `get_rootca`. `Patched`
and `Defaulted` are what the API server does with a patch (webhooks are merged by
name, rules replaced) and with a new object. `Edit` is an operator, `Upgrade` the
next release's template. `magtape_tls_byoc` is the constant FALSE, because the
assignment in `init_tls_pair` makes a local.

**Webhook.** `handler[r]` is the thread of a request: the next call out of the
process, its worker, the message (the severities that `[FAIL]` lines name), whether
the namespace has a Slack URL, and how many five-second time-outs it has spent.
`Accept` takes the request, `QueryOpa` is `build_response_message`, then
`CreateEvent`, `ReadSlackSecret`, `PostDefault`, `PostNamespace`, `Count` and
`Answer`; `AfterDecision`, `AfterEvent` and `AfterDefault` are the branches between
them. `Raise` is an exception nobody catches, `Die` and `Boot` are gunicorn's worker and
master, `ApiTimeout` the API server that stops waiting. In `DenyLevel`, `DenyList` is
the deny lists of the code; `Rank` and `Threshold`, which the properties use, are the
ranking of the repository's README, so that the two are compared and not one with
itself. `Promise` instantiates `Admission`: what passes is fixed when the request
arrives, what is announced are the alerts that say so, and the verdict is the API
server's. The calls to OPA and to Slack take at most five seconds; those to the
Kubernetes API (`Untimed`) have no time-out, so that their steps may never be taken,
the API server meanwhile gives up, and the thread is lost to other requests
(`Full`, `Backlog`).

**Policies.** An object is its kind, whether it has an owner, and a spec: sets of
containers and volumes for the workloads and for a Deployment's template alike (the
`find_containers` of the code), limits of a disruption budget, type and ports of a
service with the annotation of its namespace. The annotation is a list of entries,
an entry a list of parts, as `split` makes them, a part a number, empty, or made of
blanks; `WellFormed` is the regular expression of `check_annotation`, for which blanks
are as good as a number, `RangeMatches` is `range_matches`. `Denies` is the deny rule
of each policy, `Violates` the entrypoint's answer. `Meets` is written from
`docs/policies.md`, in other terms: what an allowance is, what survives the loss of a
zone. Where the code knowingly or not lets in more, the difference has a name:
`Tolerated` is an emptyDir of exactly the limit. `LeavesRoom` is the documentation's
rule about a workload's replicas, which is not one about a PDB by itself.

**Rollout.** `replica[m]` is a replica of MagTape: gone, starting or ready, the deny
level it read when it started, and what kube-mgmt has loaded into its OPA, the
entrypoint being one of the items. `Selected` and `Asked` are the rules and the
`namespaceSelector` of the VWC, `Skipped` the test of the first owner, `Messages` the
response messages that are possible: what the policies find (`Findings`), or that the
call to OPA failed (`Unanswered`), which can happen to any request. `Admits` is the
decision. `Admissible` and `Refusable` are the API server, which asks any ready
replica. A refusal is by the policies' answer, by that of a failed call to OPA, or
for want of an answer (`failurePolicy: Fail`): no replica, an exception, a worker
that dies, the time-out. Each can befall any request, as `Webhook` has it in detail.
What a user applies names its owner (`Request`), and a pod may say that a
ReplicaSet owns it. `Apply` creates or
updates the workload, `Sync` is the Deployment controller making a ReplicaSet (no
admission: the VWC does not list it), `CreatePod` asks about the pod. `Evict`,
`Recreate`, `Start`, `Load` and `RestartOpa` are the life of a replica; `Recreate` asks
about MagTape's own pod. `Change` is an operator with the configmap, the label or the
VWC. `stored`, `template` and `pod` remember with `held` the policies that were
enforced when the object was let in, which only properties read. `MoreRules` are
kinds that an operator adds to the VWC: as shipped it lists no services, so that the
two policies about services are never asked, and the instance adds them.

Operators whose comment starts with "Faulty variant" are not part of any
specification. Each stands for a plausible mistake in the definition that follows it,
and `PROJECT.json` names the property that notices it.

## Runs

| run | instance | shows |
|---|---|---|
| `tls_replicas` | 2 replicas, every kind of secret and CA, a stale request or none, 2 keys each, 2 faults | `ReplicasAgree`, `ByocRespected`, `ServesUsablePair`, `ApprovesWhatItRead`; TlsInit implements PairElection |
| `tls_single` | 1 replica, 4 keys, 3 faults, fairness | `PairMatches`: it serves no certificate with another key; `Recovers`: it ends with a pair that belongs together |
| `vwc_replicas` | 3 replicas, 4 kinds of VWC, 3 platforms, two versions of the template, a fault, an edit, fairness | `DoneMeansInstalled`, `KeepsOtherFields`, `Finishes`, `RepairsDrift` |
| `main_replicas` | 2 replicas, a fault, an edit | `RegisteredWhenServable`, `ServingAgree`, `GeneratedPairTrusted`; InitMain implements PairElection (`ServersElect`) |
| `webhook` | 2 requests, 2 workers of 1 thread, 7 environments, 3 loads, an exception or a worker's death, fairness | `FailsClosed`, `DenialAlertTruthful`, `DenialReported`, `AlertWarranted`, `OutcomesCounted`, `Decided`; Webhook implements Admission (`ImplementsAdmission`) |
| `rollout` | 2 replicas, a workload of each of five kinds, with policies and specs on both sides of their limits, 2 deny levels, 2 applications, a fault, a change, fairness | `PodsAsJudged`, `WeakestReplica`, `RefusedForCause`, `RolloutCompletes`, `BreakGlass`, `MagTapeReturns` |
| `tls_shared_csr` | 2 replicas, no fault | finds `PairMatches` violated |
| `tls_rotation` | 1 replica, a certificate that is due | finds `RotationPersisted` violated |
| `tls_wait` | 1 replica, fairness | finds `WaitEnds` violated |
| `main_byoc` | 2 replicas, an operator's pair | finds `OperatorPairTrusted` violated |
| `vwc_template` | 2 replicas, a template that shrinks | finds `TemplateApplied` violated |
| `vwc_upgrade` | 2 replicas, a VWC to patch, a template that grows | finds `UpgradeSticks` violated |

Each passing run with a `TypeOK` checks that too.

**Findings.** Six runs find a disagreement between the code and what its
documentation or its own text says; `PROJECT.json` quotes both.

1. Two replicas share the signing request's name. One deletes and recreates the
   other's; the first then polls by name, stores the other's certificate with its
   own key, and every replica gets that pair.
2. A pair that was rotated is never stored: the patch of the secret cannot be
   reached. Every replica that restarts makes a pair for itself.
3. The wait for the race winner looks at labels read before the loop, and its
   thirty seconds are joined to the condition by "or": with other labels it never
   ends.
4. With an operator's pair, the VWC gets the cluster's CA.
5. `compare_vwc_fields` stops at the end of the template's list, so that a resource
   that a new version of the template no longer lists stays in the VWC, though all
   replicas started with that version.
6. The decision to patch the VWC and the patch itself rest on earlier readings: a
   replica that read the older template puts it back after another one finished with
   the newer. `RepairLasts` says when this cannot happen: once no replica holds an
   older template.

More differences are part of what the modules state, and no run singles them out:

- With Slack enabled, a request that gives no alert is answered and not counted
  (`Skipped` in `OutcomesCounted`), where the repository's README says that the metrics
  track all requests. `AllCounted` proves it without Slack.
- `policy-emptydir` lets in a limit of exactly 100M. `docs/policies.md` says "less
  than", the policy's own message "greater than". `Meets` is the former, and the
  properties say where they make do with more (`Tolerated`).
- `policy-pdb` compares with fixed percentages. The documentation's rule that something
  is left of the workload's replicas (`LeavesRoom`) follows for three replicas or more,
  as `RoomLeft` proves; for two, 66% is let in and leaves no room.
- `policy-hostport` sees pods only and a ReplicaSet's pods are skipped, so that a
  Deployment with a hostPort runs at deny level HIGH, though the documentation says that
  the policy "will deny the workload". The same holds of emptyDir and hostPath volumes,
  and of a pod whose Deployment was let in while nobody was asked.
  `PodsAsJudged` holds a ReplicaSet's pod to what its Deployment was held to, no more,
  and so it does for a pod that only says that a ReplicaSet owns it: to nothing.
- Two five-second time-outs (OPA and Slack) use up the API server's ten seconds, and a
  call to the Kubernetes API may take any time, so that `failurePolicy: Fail` can refuse
  a request at deny level OFF; `Admission` and `Refusable` therefore allow a rejection
  for any reason.

**Bounds.** `MaxGen` keys per replica, `MaxFaults` and `MaxEdits` bound what would
be unbounded. Two replicas suffice for every race over the secret and the request:
each race is between one that writes and one that read before; three are used
for the VWC, where one replica can find, another create and a third patch. A fault
costs at most one key, so `MaxGen` is one more than `MaxFaults` where a replica has to
recover. Two faults allow one in the first attempt of a replica and one in its
next. Two requests on single-threaded workers let requests share a worker
(the second waits), use one each, and lose one and not the other; a worker with
more threads only interleaves what two workers interleave already, since
requests share nothing but the counters. `spent` stops at two time-outs, the
API server's patience. Environments and loads are chosen so that each deny
level meets failures on both sides of its threshold, each switch is on and off
with something to report, and a child of a ReplicaSet meets every environment.
Two versions of the template are enough for a replica with an older reading. In
`rollout` two replicas let one be behind the other in level and policies, or be the
only one left; two applications let a workload be updated between its ReplicaSet
and its pod; one workload is enough, since workloads share nothing but the
replicas; the levels OFF and HIGH are the two between which everything changes.
The five policies it installs are those with a number or a list to get wrong (`pdb`,
`emptydir`, `node_port_range`), one that sees Deployments and one that sees
pods only (`liveness_probe`, `host_port`); the theorems below cover the twelve.

`CHECK_DEADLOCK FALSE` is in every configuration because initialisation ends when
the replicas are done, and the webhook's history when its requests are answered.

**Fairness.** A running container goes on (`WF` of a replica's `Step`), its clock
moves (`PollTimeout`), the kubelet restarts a failed init container (`Restart`: the
pod's restart policy is the default, Always), and the signer signs an approved
request (`Sign`), for which the code waits. In the webhook a request that does not have
to wait is taken, and a handler goes on through the calls that have a time-out
(`Timed`); nothing is assumed of `CreateEvent` and `ReadSlackSecret`, whose calls
have none. While a thread may be lost, a request is owed a thread only when no running
worker is full; otherwise it may be queued behind one that never returns, and the API
server's clock, which moves, decides it. Gunicorn's master replaces a dead worker. In
the rollout the Deployment's controller goes on (`Sync`), a pod that is not evaluated
is created (`CreatePod` when not `Examined`; one that is may be refused time and again by
calls to OPA that fail), and for each replica so do MagTape's ReplicaSet, the
kubelet and kube-mgmt (`ComeUp`). Faults, kills, edits, changes, applications and
the ageing of a certificate are never owed. `Recovers` is claimed for one replica
only: two can keep deleting each other's request.

## Proofs

All theorems hold for every set of replicas, requests, workers and policies, and for every bound,
under the assumptions named in the modules: the initial secrets and VWCs are
well-typed, `None` and `Blank` are distinct from real values, bounds are naturals,
the sets of requests and policies are finite, severities are LOW, MED or HIGH, and what
is applied in a rollout is of its kind. `InitMainAssumption` asks of `InitMain` what
`TlsInit` and `VwcInit` ask. Four theorems say in their ASSUME what more they need.

- `TlsInitProofs`. `Typing`, `Agreement` (`ReplicasAgree`), `OperatorPairRespected`
  (`ByocRespected`) and `Refinement` (`ImplementsElection`). None of these is
  inductive: that the files of a finished replica are the secret's needs what the
  process knew on the way. `IInv` adds, for each replica, that what it read is still
  what the secret holds (`ReadStored`: nobody overwrites a secret), that past the
  decision a replica that does not rotate holds the stored pair (`HoldsStored`), that
  files hold what was written of the local pair (`Written`), that a pair being made
  is complete where it is stored (`MakesOwn`), and that an operator's pair has been
  checked (`ByocChecked`). One lemma per action; `Frame` does the other replicas.
  `ServesUsable` (`ServesUsablePair`) adds `HoldKeys`: from the stages where a replica
  stores or writes on, its pair has no hole. `Approval` (`ApprovesWhatItRead`) needs of
  `IInv` only the types. `MatchesAlone` proves `PairMatches` for one replica and initial
  secrets whose halves match (`Alone`, `InitialMatch`), with `OwnRequest`: the request
  of that name carries the replica's own key from its creation to the certificate. It is
  what a second replica destroys, as `tls_shared_csr` shows. `WaitCanEnd` is the
  condition under which the wait for the race winner can be left, with `Makers`: who
  made the secret is known of every secret there has been.
- `VwcInitProofs`. `Typing`; `Installation` (`DoneMeansInstalled`) from an invariant
  saying what each stage of a replica has checked, and that a version once in force
  is followed by another, whoever patches; `OthersKept`
  (`KeepsOtherFields`) from what a patch keeps, however old the decision to patch is.
  `RepairLasts` is the half of `RepairsDrift` that needs no fairness, and what is true of
  `UpgradeSticks`: in `Quiet` states, which last, a VWC with the current template in
  force keeps it.
- `InitMainProofs`. What is proved of the two parts is used, not proved again: `TP` and
  `VP` instantiate their proof modules, `SameTls` and `SameVwc` say that the steps are
  the same, `TlsFrame` and `VwcFrame` that the other part's steps do no harm. `MInv` is
  both invariants, `HoldKeys` and `InOrder`, the order of `main()`: past `read_vwc` a
  replica is done with `init_tls_pair`. `Agreement` (`ServingAgree`) and `Trust`
  (`GeneratedPairTrusted`) follow from the parts' own results at the time a server
  starts. `Registration` (`RegisteredWhenServable`) assumes that the cluster has no VWC
  yet, and rests on `InPlace`: neither the stored pair nor a replica's two files are
  ever taken away again. `Refinement` (`ServersElect`): only `RunVwc` starts a server,
  the pair it starts with is the chosen one, and no later step touches either.
- `DenyLevelProofs`. `DenyListIsRanking`: the code's lists are the documented ranking.
- `WebhookProofs`. `Closed` (`FailsClosed`), `Refinement` (`ImplementsAdmission`) and
  `TruthfulDenials` (`DenialAlertTruthful`). `IInv` says that past the decision a
  message names every severity the object fails with, or HIGH because OPA did not
  answer (`Evaluated`); that what is admitted was answered so (`AdmittedByAnswer`);
  and that an alert says what the message says, and is sent late enough for the
  message to be final (`AlertsAsDecided`). The refinement adds that what passes
  never changes (`PassingFixed`), what an alert adds to the announced denials
  (`DeniedGrows`), and what each action does to the verdicts: an answer admits only
  what passes and was not announced, since alert and answer come of one message.
- `WebhookReportProofs`. What the webhook tells others. `CInv` adds to `IInv` where a
  handler can be with what it knows (`OnCourse`: the Slack stages only where an alert is
  due) and what of a denial has been sent at each stage (`Reported`); `Reporting`
  (`DenialReported`) and `Warranted` (`AlertWarranted`) follow. `KInv` adds `Counted`: the
  counters of a worker are the cardinalities of the sets of requests it has tallied, so
  that each step needs the size of a set with one element more, or, when a worker dies,
  of the empty set. `Counting` (`OutcomesCounted`), `Typing` (`TypeOK`: a counter is
  bounded by the number of requests, which no type says) and, for configurations
  without Slack, `AllCounted` (`EveryAnswerCounted`), which no run checks, since with
  Slack it is false.
- `RolloutProofs`. First, for each policy, that an object it does not deny complies
  with it, and that one which has what the documentation asks is not denied
  (`PolicyMeets`; `Complies` is `Meets` or `Tolerated`, and `NodePortMeets` shows the
  one exception of the converse, a malformed annotation); then what a replica's
  verdict says of the policies it enforces (`Verdict`, `HeldMeets`); then that a
  pod has what its workload complied with (`ParentSuffices`), for a ReplicaSet's pods
  are held to no more. `IInv` adds to the types that the controller's template is a
  workload of some earlier moment, held to what that was. `Typing`, `Judged`
  (`PodsAsJudged`) and `Strength` (`WeakestReplica`) follow for any replicas, specs,
  owners and installed policies; `Causes` (`RefusedForCause`) needs the annotations to
  be well-formed, since a malformed one refuses every service of its namespace.
  `RoomLeft` is the arithmetic of a third of three replicas or more. It is
  about the cause of a refusal by the policies, and about level OFF for one by a
  failed call to OPA; a refusal for want of an answer needs no other cause.

Every invariant and every action property that a passing run checks is proved, each by
the theorem that names it. Only model-checked: liveness (`Recovers`, `Finishes`,
`RepairsDrift`, `Decided`, `RolloutCompletes`, `BreakGlass`, `MagTapeReturns`), since the
prover handles neither fairness nor ENABLED. What the six runs that expect a violation
state is false of the code; where a condition makes it true, a theorem says so
(`MatchesAlone`, `WaitCanEnd`, `RepairLasts`, and `Trust` for a
generated pair).

## Not modelled, and why

- `delete_vwc` and `verify_vwc_cert_bundle`: never called.
- `/healthz` and the metrics exporter: no state. `/healthz` runs on the same threads,
  so that a kubelet whose probe finds no thread restarts the container, and with it
  the threads that a call without a time-out holds. The model lets them be lost for
  good, which is the worse case.
- Counter labels, message wording, owner lookup beyond "its first owner is a
  ReplicaSet": no property is about them.
- Certificate contents other than the key and "180 days or less are left".
- The nesting of a VWC's fields: the walk is the same at every depth, and the fields
  that are modelled are the ones where it does not agree with the API server.
- Blanks inside a number of a nodePort annotation. Such a number alone passes
  `check_annotation`, but not the stricter expression of the single-number case, and
  is then neither invalid nor enforced.
- Dry-run requests: the handler does for them what it does for any other.
- The replication of namespaces and their annotations into OPA, which kube-mgmt does
  only where it is configured to; policies that change while they are loaded.
- A replica that serves keeps the TLS pair it started with; nothing reloads it.
- The threads of a replica, in `Rollout`: that none is left is a refusal for want of an
  answer there, and `RolloutCompletes` and `BreakGlass` are about pods that are not
  evaluated or not asked about. A pod of a ReplicaSet still needs a replica that
  answers; that all threads are lost for good is left out.
- A deny level that is none of the four, in `Rollout`: the `Webhook` module has it, and it
  denies everything.
- Grafana dashboards, RBAC, HPA, overlays, build scripts: no behaviour.

## Plan

In order of importance; all but part of the last are done.

1. `PairElection`, `TlsInit` with `TlsInitMC`, `TlsInitProofs`.
2. `VwcInit` with `VwcInitMC`, `VwcInitProofs`.
3. `InitMain` with `InitMainMC`, composing 1 and 2.
4. `DenyLevel`, `Admission`, `Webhook` with `WebhookMC`, `WebhookProofs`.
5. `Policies`, against what they are documented to require.
6. `Rollout` with `RolloutMC`, `RolloutProofs`, composing 4's decision and 5.
7. Policies loaded one by one, calls to OPA that fail, owners that a user writes,
   versions of the VWC's template, lists compared by position: parts of `Rollout` and
   `VwcInit`.
8. Proofs of the remaining safety properties of `TlsInit` and `Webhook`, and of `InitMain`
   from the invariants of its parts.
9. The safety core of the liveness properties, as theorems: `WaitCanEnd` and `RepairLasts`
   are done; that only live workers hold threads, and no more than they have
   (`Decided`), is left.

## Running the checks

    tlc -config TlsReplicas.cfg TlsInitMC      # and so on for every run of PROJECT.json
    tlapm TlsInitProofs.tla                    # and the other modules named ...Proofs
