# TLA+ specifications of the k1s Kubernetes operator

The operator mirrors Kubernetes custom resources into a k1s cluster. A user
writes a `K1sApp`, a `K1sInferenceEndpoint` or a `K1sResourceSet`; the operator
applies the manifests in it to the k1s controller over HTTP, reports in `status`
what came of it, and cleans up in k1s before the custom resource disappears. It
also exposes k1s apps inside Kubernetes (`K1sExposure`) and watches the clusters
(`K1sCluster`).

What is hard about it is not any single call. The reconcilers read from a cache
that lags behind the API server, patch objects by name with merge patches that
carry neither resourceVersion nor UID, and talk to a second system that shares
no transaction with the first. Users edit, delete and recreate meanwhile; calls
fail, or take effect and lose their reply; the manager restarts between two
calls.

## Inventory

| Component (source) | State | Operations | Right when |
| --- | --- | --- | --- |
| K1sApp reconciler (`internal/controller/capability_controller.go` 34-162) | finalizer, last-applied-hash annotation, status (appName, ready, conditions) of the object; the app in k1s | Reconcile: add finalizer, DeleteApp, AppStatus, Apply, patch hash, patch status, remove finalizer | the app is gone before the object; a live app is never deleted; k1s ends up with the manifest of the spec; Applied is true; deletions complete |
| K1sResourceSet reconciler (314-479, 613-694) | as above for a list of manifests, plus the inventory `status.managedResources` | policy, prune loop, apply loop, inventory, deletion loop | only allowed kinds are deployed; Ready is not early; nothing is left behind; the set converges |
| K1sInferenceEndpoint reconciler (178-297, 481-541, 592-611) | as K1sApp; cell or cell set | build manifest, Apply, status, delete cell or cell set | as K1sApp, also when the endpoint switches between cell and cell set |
| Patches and conditions (`patch.go`, `conditions.go`) | none of their own | merge patch of finalizers, annotation and status against the cached copy | a stale copy does no harm |
| Credentials (`auth.go`, `writeClient`) | K1sCluster, Secret | read tokens and CA | a missing token delays and is reported, and no longer than it is missing |
| k1s client (`internal/k1s/client.go`) | none across calls | every request goes to the Service URL, then to an advertised leader, then to the Service again, at most 12 times | carried out at most twice; an answer "gone" is true; the call returns |
| Status parsing (`internal/k1s/status.go`) | none | payload to AppStatus, InferenceStatus, NodeSummary | the same fact is read alike however k1s writes it; ready means all that was asked for |
| K1sExposure, K1sAppMirror (`exposure_controller.go`, `builders.go`, `proxy.go`, `traffic_probe.go`) | generated Service, EndpointSlice, Ingress and mirror; status | read app and proxies, create or update each object, probe, patch status | objects and status follow spec, app and proxies; Ready is not early; nothing stays after the exposure; objects of other controllers are left alone |
| K1sCluster (`cluster_controller.go`) | status of the cluster | read Secret, bootstrap ConfigMap, health, nodes, proxies; patch status | the conditions agree with each other and are of one generation; the status ends up true |
| Names (`names.go`), manager (`cmd/manager/main.go`), API types | flags | start-up | |

How they interact: every reconciler reads through the manager's cache and writes
to the API server; a write comes back as a watch event, updates the cache and
queues the object again. The capability reconcilers build a k1s client from
K1sCluster and Secret at each reconcile. The exposure reconciler reads the app
from k1s and the proxies from the API server, past the cache, at each poll; only
the objects it generated are watched. The cluster reconciler asks everything it
reports of at each poll and watches nothing but the K1sCluster itself. There is
one worker per controller, so two reconciles of one object never overlap; users,
other controllers, k1s and the informer act between any two calls of a
reconcile.

## Modules

| Module | Models |
| --- | --- |
| `KubeObject` | finalizer, deletion and patch rules for one object; conditions; hashes (pure operators) |
| `Controller` | what the reconcilers share: cache and watch, queue and timers, finalizer, hash and status patches, restart, users and other controllers |
| `K1sStatus` | `status.go` as operators on decoded JSON payloads: absent, boolean, number or string |
| `K1sApp` | the K1sApp reconciler on top of `Controller` |
| `FinalizerContract` | what the finalizer promises, without caches or retries; `K1sApp` and `K1sInferenceEndpoint` implement it |
| `K1sInferenceEndpoint` | the K1sInferenceEndpoint reconciler on top of `Controller`; k1s with the cells of a cell set that come up one by one |
| `K1sResourceSet` | the K1sResourceSet reconciler on top of `Controller` |
| `K1sExposure` | the K1sExposure reconciler with its mirror, on the cache and queue of `Controller`; proxy discovery, builders, garbage collector |
| `K1sCluster` | the K1sCluster reconciler on the cache and queue of `Controller`; the Secret, the ConfigMap, the controller and the proxies that change around it |
| `LeaderRetry` | `doJSONWithLeaderRetry` for one DeleteApp against controllers whose leadership changes |
| `K1sCall` | a DeleteApp as the reconcilers understand it; `LeaderRetry` implements it |
| `VersionLemmas` | facts about a sequence of versions (a write appends, a delivery drops the first, what is ordered stays ordered), shared by the proof modules |
| `K1sAppProofs`, `K1sResourceSetProofs`, `K1sInferenceEndpointProofs`, `K1sClusterProofs`, `K1sExposureProofs`, `LeaderRetryProofs` | theorems and proofs about the module of that name |
| `K1sResourceSetReady` | the argument that a ready set is deployed, on top of `K1sResourceSetProofs` |
| `MCK1sApp`, `MCK1sInferenceEndpoint`, `MCK1sResourceSet`, `MCK1sExposure`, `MCK1sCluster` | values of the constants for TLC |

### How the state corresponds to the code

`versions` is the custom resource over time: the first element is what the cache
returns, the last what the API server holds, the ones between are watch events
under way. A patch is computed from the first and applied to the last, which is
what `MergeFrom` does with an object read from the cache. `own` is the copy that
`Reconcile` read at its start and goes on using; `pc` names the remote call it is
about to make. A step is one remote call together with the local code up to the
next one. Every call can succeed, fail without effect (`callFails`), or take
effect and lose its reply (`replyLost`). An AppStatus that fails may also come
back as a 404, from the second spelling that the client tries after any error.

An object has generation, finalizers, deletion mark, hash annotation, spec and
status; names, payloads and messages are model values or left out. Status keeps
the fields that decide something. Two choices in the status patch stand for the
fields left out. `fresh`: one of them differs (LastSyncTime above all), so the
patch is a new version even if nothing else changed. `resent`: a reason, message
or time differs in the conditions, so their list, which is one field of the merge
patch, is sent although the statuses in it look unchanged. In `K1sResourceSet` an inventory entry (kind, namespace,
name, hash) is represented by the manifest it was computed from.

`k1s` maps a name (kind, namespace and name for sets) to the manifest that runs
under it. Apply and Delete are atomic there. In `K1sResourceSet` `todo` is what
the loop at hand has yet to do; entries of the inventory that the spec still
lists are passed over by the prune loop without a call (`skipDesired`).

In `K1sExposure` the generated objects are `children` (API server) and `seen`
(their informers), by kind and name. `CreateOrUpdate` decides on the cached copy:
nothing is sent if it is as wanted, an object of another controller is refused,
and the write fails unless the cached copy is the API server's, which is what
AlreadyExists and the resourceVersion amount to. Their informers are coarser
than the one of the exposure: a delivery (`DeliverChild`) brings the current
object at once, versions are compared by content, and an object may stay unseen
for any time. An owner is a UID, `Nobody` or
`Other`; a UID of an earlier exposure of the same name is taken over, as
SetControllerReference does. Here `k1s` is what the reconciler finds out there:
the app's state, the ready proxies, and whether URL and CA make a client. A
lookup of proxies that fails returns the addresses it had by then (`Static`).

In `K1sInferenceEndpoint` `k1s` has one entry for the cell and one for the cell
set of the endpoint's name: the revision that runs and how many cells are up. A
spec is a kind, a revision and a delete policy; `Normal` maps a revision to the
one with its defaults written out, as `buildInferenceManifest` does, so two specs
may have one manifest and one hash. What k1s answers is a payload in each of the
forms the parser knows (`ready` as a boolean, as a string, as a count, or a phase
that says so), and `ParseInferenceStatus` reads it. `removed` only remembers that
somebody took cells away behind the operator's back.

In `K1sCluster` `own.status` is the status under construction: every pass starts
from an empty one and each step adds what one call answered. `k1s` is the world
the status tells of: whether URL and CA make a client, the health paths that
answer, the answer to `/nodes`, the domain in the ConfigMap, the proxies. The
node summary is three fields of the merge patch, as it is in JSON. A total that
k1s reports is whatever number it sends; nothing in the parser bounds it.

What is assumed:

- sha256 does not collide;
- a manifest has a name, and k1s calls the app by the name in the manifest; the
  CRD requires `spec.manifest` to be an object, so the branch for an empty one
  (lines 72-79) is left out;
- objects are created without the operator's finalizer and annotation, and nobody
  removes the finalizer by hand;
- a call to k1s takes effect before the reconciler goes on or not at all.
  `LeaderRetry` shows what this leaves out: a request that the client gave up on
  may arrive later, and `K1sCall` allows it.

## Runs

| Run | Result | Shows |
| --- | --- | --- |
| `app_safety` | holds | cleanup before the object goes, live apps are kept, finalizers of others that the cache has seen are kept, the finalizer contract; two lives, cache up to two versions behind, every kind of disturbance |
| `app_liveness` | holds | Applied is the truth; k1s, status and deletions converge |
| `app_drift` | violated | restart after Apply, then a revert: the reverted revision stays |
| `endpoint` | holds | Ready means that k1s serves the spec; k1s and status converge; deletions complete; the finalizer contract |
| `endpoint_switch` | violated | an endpoint changed from cell to cell set leaves the cell in k1s |
| `set_policy` | holds | the kind cap, cleanup of the inventory, live sets are kept |
| `set_loops` | holds | Ready is not early; sets converge; deletions complete |
| `set_leak` | violated | deletion during a reconcile: the inventory read is too old |
| `exposure_follow` | holds | Ready is not early; objects, mirror and status follow spec, app and proxies |
| `exposure_owners` | holds | nothing generated stays; objects of other controllers are left alone |
| `leader_retry` | holds | at most twice, "gone" is true, the call returns, `K1sCall` |
| `cluster` | holds | the published conditions agree and are of one generation; the status ends up true, field by field |

The violated properties state what the documentation or a message says;
PROJECT.json quotes the line under "findings". More was observed that has no run
of its own:

- A manifest edited to name another app leaves the app of the earlier name in
  k1s, as `endpoint_switch` does for kinds: DeleteApp only gets the current name.
- A set that is edited while a reconcile is applying prunes against the inventory
  before it and then replaces it, so resources of the earlier spec stay.
- A set whose apply loop or hash patch failed half-way has resources that its
  inventory lacks; a deletion at that point leaves them behind even with a
  current cache. A restart between prune and hash patch followed by a revert
  leaves the pruned resource missing (`app_drift` for sets).
- A kind that `--resourceset-allowed-kinds` admits but `deleteManagedResource`
  does not know can be applied and never deleted.
- A 404 of the Service after a failed request to the advertised leader is hidden
  behind that error; DeleteApp then reports a failure and is retried.
- A status computed for a deleted object can be patched onto its successor of
  the same name. `AppliedMeansCurrent` is therefore checked with one life, and
  `ReadyMeansExposed`, `ReadyMeansServing` and `StatusOfOneGeneration` are stated
  for the first.
- Conditions that only some branches write stay behind: CredentialsValid=False is
  never reset on capabilities, an exposure whose client cannot be built keeps its
  last Ready.
- The fields of an exposure's status are merged one by one, each only if it
  differs from the cached copy. With a cache two versions behind, endpoint count
  and service name may lag behind a Ready of the current generation until the
  next reconcile. `ReadyMeansExposed` therefore speaks of conditions and objects.
- The node summary of a K1sCluster is zero while the controller is available but
  `/nodes` failed. Each pass starts from an empty status, so LastTransitionTime of
  its conditions moves with every pass and the patch wakes the reconciler again.
- A disabled Ingress is deleted by name whoever owns it; a renamed Service stays
  until the exposure is deleted.

### Bounds

Each has a name in the modules. `MaxFaults` is 1 in the runs of the reconcilers:
one disturbance at any point is enough for each known failure. The theorems hold
for any number of them; of the runs with liveness properties `set_loops` was also
checked with 2. `cluster` has 2: a change of the world and a failed call, or a
change and its undoing. `MaxLives` 2
gives a successor under the same name; `MaxGen` 2 or 3 gives edits before,
during and after a reconcile; `MaxLag` 2 lets the cache be behind both a
deletion and a recreation. `app_liveness` and `set_loops` use manifests in one
direction only (`Forward`, `Shrink`) and one life, because of `app_drift` and of
the status that a successor inherits; `app_safety` has the edits back and forth.
The conditions in `app_safety` hold for one app name and deletePolicy Delete
(`StableNames`), since a renamed app is left behind. `endpoint` has one edit
that changes the spec and not the manifest and one that changes both, a cell set
of two cells, two lives, and a cache one version behind; the delete policy is
Delete throughout. `cluster` has one edit that adds the Secret and the apishim
and drops the ConfigMap, a list of nodes with stale ones and an answer that has
only a count, two lives, and a cache one version behind. Numbers in payloads go
up to `MaxNumeral`. The set runs differ in their cap: `set_policy` allows
Deployment and Service, so that a manifest of the default cap is refused and one
of another kind is admitted; `set_loops` uses the default. `exposure_follow` has
one edit that changes Service name, port, Ingress and probe at once, and no
deletion; `exposure_owners` has deletion, recreation and every other kind of
disturbance, one spec without Ingress, and proxies with a static address. A pass
of the garbage collector is one step. The inductive invariants were checked on
larger instances before they were proved (`MaxLag` 2, `MaxGen` 3, three manifests
or two faults, an endpoint that changes its kind). `leader_retry` uses
the 12 attempts of the code, three controllers, three faults and two elections.

Deadlock is not checked: a behaviour ends when the last object is gone and no
creation is left, or when the call has returned.

### Fairness

`FairSpec` asks for weak fairness of the reconciler's steps (the worker runs and
every k1s and API call has a timeout), of the informer's deliveries and of timers
(controller-runtime does both), and of the owner of a foreign finalizer. The
periodic resync may happen at any time, but it is counted on only where the code
leaves nothing else: after a reconcile that lacked credentials
(`LackedCredentials`) and for an exposure that was given up (`GaveUp`), both of
which return without RequeueAfter. A cluster asks nothing of the resync.
Everything else has to come from the poll, so a reconciler that forgets it fails
to converge (mutant `Return_NoPoll`). Nothing is assumed of users, of k1s or of
the credentials: the liveness properties are conditioned on the credentials being
back for good. `K1sExposure` asks that some informer of the generated objects
delivers at a time; nothing is asked of the garbage collector. `K1sInferenceEndpoint` asks of k1s that the cells of a manifest that
stays come up. `leader_retry` assumes only that the client's goroutine runs.

## Theorems

Proved with TLAPS for all values of the constants: any number of manifests,
specs, edits, recreations, faults, restarts and undelivered watch events. Every
invariant and every action property of a passing run is stated by a theorem, and
so are the three refinements. Type correctness is proved for every reconciler and
used by everything after it.

### Guards (`K1sAppProofs`, `K1sResourceSetProofs`, `K1sInferenceEndpointProofs`)

`GuardsStayOrdered`, `SetGuardsStayOrdered` and `EndpointGuardsStayOrdered` are
the heart of the finalizer argument. Along `versions` the operator's finalizer is
either only gained (`OnlyGained`) or only lost (`OnlyLost`), so a cached copy that
shows a guarded object being deleted can only be followed by the same object or
by objects without the finalizer. It holds because only the operator adds and
removes its finalizer, and does so on what its cache shows: an object recreated
under the same name is not guarded until the cache has seen it. From it follow,
without any hypothesis,

- `LiveAppsAreKept` and `LiveSetsAreKept`: a deletion in k1s finds no live guarded
  object on the API server, since `OnlyLost` holds while Reconcile deletes;

and, where what a deletion names is what runs,

- `FinalizerInvariantHolds`, `CleanupBeforeGoneHolds`, `ContractImplemented` for
  apps under `StableNames` (one app name, deletePolicy Delete).
  `CleanupBeforeGone` is not inductive by itself; `GuardOrder`, `KnownNames` and
  `CleanedUp` make it so.
- `ShapeInvariantHolds`, `EndpointCleanupBeforeGone`, `EndpointContract` for
  endpoints under `StableShape` (an endpoint keeps its kind, deletePolicy Delete;
  a successor may be of the other kind). `endpoint_switch` shows what happens
  otherwise. `ShapeInvariant` says that the guarded versions, the copy at hand and
  what runs are of one kind.

`SeenFinalizersAreKept`: the finalizer patches, which send the whole list, drop
no finalizer of others that the copy at hand shows and the server still has.

For sets, `CapInvariantHolds` and `CapIsRespected`: nothing outside
`--resourceset-allowed-kinds` runs in k1s. The invariant carries the policy check
from where it is made, before pruning, to the last manifest of the apply loop.
`CleanupBeforeRelease`: the finalizer goes only after everything in the inventory
of the copy at hand was deleted, however often the loop failed and began again;
its invariant is that an inventory entry is still in `todo` or no longer runs.
(That the inventory itself may be too old is `set_leak`.)

### Ready and Applied are not early

One argument serves five reconcilers. A reconcile works on a copy that is old, and
its patches carry no resourceVersion, so what it writes lands on newer objects.
The invariants name a *floor*: the copy being reconciled, or the cached one
between two reconciles. Nothing that was recorded (hash), published (condition) or
deployed is newer than the floor, and the versions to come are not older. So a
condition of the current generation was computed from the current spec, and what
k1s runs since can only be the same.

| Theorems | Invariant | Hypothesis |
| --- | --- | --- |
| `AppliedInvariantHolds`, `AppliedIsCurrent` | `AppliedInvariant` | `ForwardUsers`: users do not go back to a manifest they left, and the object is created once |
| `ReadyInvariantHolds`, `ReadySetsAreDeployed` | `ReadyInvariant` | `SteadyUsers`: the same for lists of manifests, no list has two manifests for one resource, and nobody else deletes from k1s |
| `ServingInvariantHolds`, `ReadyIsServing` | `ServingInvariant` | `ForwardUsers`: manifests are not gone back to; kind and delete policy may change, removals by others and recreation are conditions of the property itself |
| `ExposedInvariantHolds`, `ReadyIsExposed` | `ExposedInvariant` | `ForwardUsers`: a Service name and port are not gone back to, and nobody else deletes what was generated |
| `GenerationInvariantHolds`, `StatusesAreOfOneGeneration` | `GenerationInvariant` | none; the property is about the first object of its name |

None of the hypotheses is for the provers' sake. "Not going back" is a rank on
manifests that edits never lower; the edits of the runs that check these
properties have one. Without it a hash recorded for an earlier visit to a
manifest makes the reconciler skip an Apply that is due: that is `app_drift`. A
list with two manifests for one resource is applied one after the other and only
the last can run. A set is never compared with k1s after it was applied, so what
others delete is not noticed. A recreated object may get the status computed for
its predecessor.

The endpoint's proof also shows (lemma `ReadyAnswer`) that in whatever form k1s
answers (boolean, string, count or phase) a payload read as ready means that all
cells asked for are up.

### Clusters and exposures

- `StatusInvariantHolds`, `ClusterTypeCorrect`, `VerdictsAreExplained`: Ready is
  not published without the conditions it rests on, of the same generation. The
  invariant is about the status under construction at each step (`Learnt`) as
  well as all published ones: the conditions are one list in the merge patch, so
  a published list is one that some pass had put together.
- `OthersAreUntouched`: no Service, EndpointSlice or mirror of another controller
  is changed. The refusal stands on a cached copy, and the write fails unless that
  copy is current. (An Ingress is deleted by name; the property leaves it out.)
- `NothingStays`: by `ContentOwned`, an object that an exposure filled refers to
  it, so the garbage collector finds it.

### The call

`LeaderRetryProofs`: `RetryTypeCorrect`, `AtMostTwiceHolds`, `GoneMeansGoneHolds`
and `DeleteCallImplemented`, for any number of controllers, attempts, faults and
elections. The invariant is `Budget` (executions done plus requests still under
way, at each point of the call) and `NotFoundIsTrue`.

### Assumptions, and what is left to TLC

The theorems rest on the named assumptions of the modules, which TLC evaluates in
every run: `ManifestAssumption`, `PolicyAssumption` and `BoundAssumption`
(`K1sApp`), `ResourceAssumption` and `SetBoundAssumption` (`K1sResourceSet`),
`SpecAssumption` and `EndpointBoundAssumption` (`K1sInferenceEndpoint`),
`ClusterAssumption`, `ExposureAssumption` and `ExposureBoundAssumption`,
`RetryAssumption`. They give the constants their types and the bounds their
ranges.

Only model-checked are the liveness properties: `Converges`, `StatusSettles` and
`DeletionCompletes` of apps, `EndpointConverges` and `DeletionCompletes` of
endpoints, `SetConverges` and `SetDeletionCompletes`, `ExposureConverges`,
`StatusSettles` of clusters, and `CallReturns`. Liveness under fairness and
ENABLED are beyond the prover, as are induction over data and RECURSIVE operators;
the modules use neither of the last two.

## Plan

1. The hypothesis `ForwardUsers` may be stronger than needed: edits back and
   forth should do no harm while no restart or failure falls between Apply and
   hash patch and the cache has seen the hash. To state it takes a history of what
   was applied.
2. Two exposures that want the same names; two sets, or a set and an app, on one
   k1s; foreground deletion of an exposure.

## Not modelled

Generated deep copies (a third of the lines), API type declarations beyond the
fields the modules name, metrics, health probes, logging and flag parsing; the
wording and the times of conditions; URL building and JSON decoding in the k1s
client; labels, annotations, TLS and name truncation in the builders; manual
removal of finalizers. None of it takes part in a decision of a reconciler. See
"components" in PROJECT.json.
