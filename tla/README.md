# Fleet Management Operator: TLA+ verification

This directory specifies the controllers of the Fleet Management Operator in TLA+,
checks them with TLC on small instances and proves their main invariants with
TLAPS. The operator mirrors Kubernetes custom resources into Grafana Fleet
Management; almost everything that is hard about it is the order in which the
user, the informer cache, the worker, the Fleet API and a crashing process take
their steps.

## 1. The system

| Component | Source | State | Operations |
|---|---|---|---|
| Pipeline controller | `internal/controller/pipeline_controller.go`, `errors.go` | `Pipeline.status` (id, syncedName, observedGeneration, conditions), finalizer | reconcile, name-scope migration, read-only import, delete, status writes |
| Pipeline naming | `api/v1alpha1/pipeline_naming.go` | none | desired Fleet name, read-only and discovered predicates |
| Collector controller | `internal/controller/collector_controller.go` | `Collector.status` (registered, attributeOwners, effectiveAttributes...), finalizer | merge three layers, diff, BulkUpdateCollectors, delete |
| Attribute algorithms | `internal/controller/attributes/` | none | Merge, Diff, Match, MatcherKeys |
| ExternalAttributeSync controller | `external_sync_controller.go` | `status.ownedKeys`, last sync times, truncation flag | scheduled fetch from HTTP or SQL, claims per Collector |
| RemoteAttributePolicy controller | `policy_controller.go` | `status.matchedCollectorIDs` | recompute the match set |
| CollectorDiscovery, PipelineDiscovery | `*_discovery_controller.go`, `discovery/naming.go` | mirror CRs, poll times, conflicts | poll Fleet, create, mark stale, delete or adopt CRs |
| TenantPolicy controller and checker | `tenant_policy_controller.go`, `internal/tenant/checker.go` | status (Valid, Ready, bound subject count) | report validity; decide whether a request is in its tenant's scope |
| Admission webhooks | `api/v1alpha1/*_webhook.go` | none | reject ill-formed objects |
| Fleet client | `pkg/fleetclient/` | rate limiter | RPCs, mapping of errors to HTTP classes |
| Sources, netguard | `pkg/sources/`, `pkg/netguard/` | none | HTTP and SQL fetch, SSRF guard |
| Manager | `cmd/main.go` | flags | start, leader election |

The components never call one another. They meet in three places: the stored
objects (a Collector reads the `ownedKeys` of every ExternalAttributeSync and the
spec of every RemoteAttributePolicy; PipelineDiscovery creates and deletes the
Pipelines that the Pipeline controller reconciles), the watches that turn a write
of one into a request to another, and Fleet, where pipelines and collector
attributes live.

What is hard, and where the hazard list of `PROJECT.json` comes from:

* `Get` reads a cache that lags behind the API server, including behind the
  controller's own writes; a status write is accepted only at the version read.
* A reconcile makes several calls (dry run, delete, upsert, status write) and may
  fail, be refused or die between any two; Fleet may have done what the lost
  answer would have reported.
* `observedGeneration` decides whether there is anything to do, but the name
  scope, the import mode and the Fleet ID change without a new generation.
* Ownership of a remote thing (a pipeline, an attribute key) is recorded in a
  status that is written after the remote thing.

What makes each component correct:

* Pipeline: the status tells the truth; finalizer before Fleet; clean-up before
  the finalizer goes; a migration never loses a pipeline; transient failures are
  retried; the system converges.
* Collector: keys of other writers are left alone; every key the operator wrote
  is removed when no layer wants it; the status shows what was applied.
* ExternalAttributeSync: an empty answer or a truncation never drops claims by
  accident; claims change only after a successful fetch and follow the Collectors.
* Policy: the recorded match set is that of the Collectors as they are.
* Discovery: polling never stops; CRs of items that vanished are kept, marked or
  deleted as the policy says and never otherwise; a read-only import never writes
  to Fleet; in the end the CRs mirror Fleet.
* TenantPolicy: a request under a policy stays within the required matchers, a
  request under none is let through, and the status is true of the spec.

## 2. Modules

* **ApiServer**: the API server with optimistic locking, the informer, the work
  queue and one worker. (`MaxConcurrentReconciles` is 1 by default for Pipelines, Collectors
  and the discoveries and 4 for policies and syncs, `cmd/main.go:176-187`. One worker says
  enough of those two: the queue never gives one request to two workers, and their reconciles
  share nothing but what they read, `policy_controller.go:90`,
  `external_sync_controller.go:112`. Pipeline and Collector "must stay at 1",
  `cmd/main.go:178-179`.) It is external to
  the repository and modelled from how the controllers use `client.Client`,
  `For()` and `ctrl.Result`. `obj` is what is stored, `watch[k]` the versions the
  informer has not seen, `cache` what `Get` returns, `mem` the worker's copy and
  `fresh` whether the resourceVersion of that copy is still current. A restart
  lists everything and empties the watch.
* **Controller**: what the reconcilers share. `pc` names the call the worker makes
  next, `Fault` is an answer other than the expected one, `shouldRetry` is that of
  `errors.go`, and `KubeWrite` is a write that ends the reconcile: accepted,
  refused because the copy is stale, failed, or made with its answer lost.
* **PipelineController**: `Reconcile` and all it calls. A Fleet name is a pair
  `<<namespace prefix or "", base>>`, which is how `DesiredFleetName` builds it.
  `contents` stands for the whole upsert payload.

| In the model | In the code |
|---|---|
| `obj[k].st` = `[id, name, og, ready, reason]` | `status.id`, `syncedName`, `observedGeneration`, status and reason of the Ready condition |
| `obj[k].ann` = `[scope, id, readOnly]` | the name-scope, fleet-pipeline-id and import-mode annotations |
| `scope` | `PipelineReconciler.NameScope` (`--pipeline-name-scope`), chosen anew by every process |
| `pc`, `retry` | the call the worker makes next; whether `Reconcile` returns an error after its status write |
| `ReconcileNothing/Finalizer/ReadOnly/Normal/Delete` | `Reconcile` up to its first call, one action per exit path |
| `MigrateDryRun`, `MigrateDelete`, `Upsert`, `GetPipeline`, `FinalDelete` | one Fleet call with the code that handles its answer |
| `AddFinalizer`, `RemoveFinalizer`, `UpdateStatus` | one write to the API server |
| `Restart` | a crash at any point, and a start that may have another flag value |
| `CreatePipeline`, `EditSpec`, `Annotate`, `DeletePipeline`, `ExternalDelete` | users, and other clients of Fleet |

  `ErrorStatus(o, reason, retryable)` advances `observedGeneration` only when the
  error is permanent, as `updateStatusError` does. `handleAPIError` has one
  disjunct per branch of the code, the recreation after a 404 among them.
* **Attributes**: `Merge`, `Diff`, `Match` and `ownedKeyEntriesEqual` as pure
  operators, and what Fleet does with the operations of a `Diff` (`Applied`). An
  attribute map gives every key a value or `Absent`; "" is a value, because the
  code that compares entries confuses the two. A path carries whether it was
  escaped; an unescaped path of a key in `Special`, the keys with "/" or "~", addresses the
  keys in `Misread`: none for "x/y", and "x/y" for "x~1y". A regular expression is the set of
  values it matches. `LayerOf` is the loop that
  `externalSyncLayerForCollector` and `policyLayerForCollector` have in common,
  the single owner name of the resulting layer included.
* **CollectorController**: `Reconcile` of the Collector controller and its watches.

| In the model | In the code |
|---|---|
| `obj[k].st` = `[og, registered, local, owners, ready, reason, msg]` | the status fields of the same meaning; `owners[a]` is the entry of `attributeOwners` for key `a`, and its values are `effectiveRemoteAttributes` |
| `syncs`, `policies` | ExternalAttributeSyncs and RemoteAttributePolicies as the cache has them |
| `fleet[i]` | collector `i` in Fleet: local and remote attributes |
| `plan` | the operations and the status `reconcileNormal` has computed and not yet sent |
| `ReconcileNothing/Finalizer/Normal/Delete` | `Reconcile` up to its first call |
| `GetCollector`, `BulkUpdate`, `FinalUpdate` | one Fleet call with the code that handles its answer |
| `AddFinalizer`, `RemoveFinalizer`, `UpdateStatus` | one write to the API server |
| `ChangeSync`, `ChangePolicy` | a change of a layer together with the requests its watch makes (`SyncWatched`, `collectorsTouchedBySync`, `collectorsMatchedByPolicy`) |
| `Report`, `Deregister`, `OtherWrite` | collectors, and other clients of Fleet |

  A cached change of a layer and its requests are one step, because the informer
  makes them so; what the reconciler sees is always the cache. Syncs and policies
  are numbers in the alphabetical order of their names. `WriteStatus` skips a
  write that would change nothing, as all three status functions do. The layers
  are read in the step that receives the answer of `GetCollector`: they come from
  the cache and no other call lies between.
* **Claims**: how records become claims, as pure operators: `hasAllRequired`,
  `FieldString` (a field is absent, has no string form, or is a value),
  `projectRecords` (the last applicable record of a collector wins) and the cap.
* **Handoff**: the abstract specification of an ExternalAttributeSync, in terms of
  the spec, `status.ownedKeys`, `status.recordsSeen` and the Truncated condition
  only: what the Collector controller relies on when it treats `ownedKeys` as
  authoritative.
* **ExternalSync**: `Reconcile` of the ExternalAttributeSync controller and its
  watches; it implements `Handoff` under the mapping `HO`.

| In the model | In the code |
|---|---|
| `obj[k].st` | the status: `og`, `seen`, `applied`, `owned`, the Truncated, Stalled and Ready conditions, the reason, and `time` for `lastSyncTime` (two values: all that counts is whether a write changed it) |
| `spec` = `[sel, mapping, allowEmpty, schedule, ref]` | selector, mapping, `allowEmptyResults`, a schedule that parses or not, and the secretRef: none, own namespace, other namespace |
| `timer` | requests waiting for `RequeueAfter: durationUntil(nextRun)` |
| `source`, `answer` | what the source would answer; what it answered in this reconcile |
| `ReconcileNothing/Error/Fetch` | `Reconcile` up to the call to the source |
| `FetchSource`, `Project`, `UpdateStatus` | the fetch; listing, guard, projection, cap and no-op checks; the status write |
| `ChangeSecret`, `ChangeCollector` | a change together with the requests its watch makes |

* **PolicyController**: `Reconcile` of the RemoteAttributePolicy controller: `Get`,
  `List` with the no-op check, status write. The index and the watch of Collectors
  (`indexKeys`, `collectorKeys`, `Affected` in Attributes) are shared with
  ExternalSync, as `attributes.MatcherKeys` is in the code. IDs are numbers in
  alphabetical order, so the capped sample is the lowest of them.
* **CollectorDiscovery**: `Reconcile` of the CollectorDiscovery controller. It writes
  objects of another kind, so there are two caches: that of discoveries (ApiServer)
  and that of the Collector CRs of the target namespace.

| In the model | In the code |
|---|---|
| `recent[k]`, `later` | `now.Before(status.lastSyncTime + pollInterval)`; requests that wait for a `RequeueAfter` of an interval. `Elapse` lets the interval pass |
| `crs`, `crWatch`, `crCache` | the Collector CRs: stored, on their way to the cache, cached |
| `CRName` | `chooseCRName`; two IDs may have one name, as hashed names may |
| `poll` | `surviving` (`seen`, `todo`), `currentIDs`, `conflicts`, the listed CRs that `processStale` has still to look at, and its results |
| `ReconcileNothing/Invalid/Skip/Poll` | `Reconcile` up to its first call, one action per exit path |
| `ListCollectors`, `Upsert`, `ListManaged`, `ProcessStale` | one call, or one round of a loop, with the code that handles its answer |
| `UpdateStatusSuccess`, `UpdateStatusError` | the status writes |
| `AddFinalizer`, `RemoveFinalizer` | the Collector controller |
| `CreateCR`, `DeleteCR`, `TakeOver`, `ChangeFleet`, ... | users, discoveries of other namespaces, Fleet |

* **PipelineDiscovery**: `Reconcile` of the PipelineDiscovery controller, composed
  with PipelineController, which it extends: the Pipelines it creates, marks and
  deletes are those of PipelineController, read from the same cache, and both act on
  one Fleet. Its own objects live in a second instance of ApiServer (`D`). A selector
  is the set of contents it lists, since `enabled` and `configType` are part of
  what `contents` stands for.
* **TenantPolicy**: the reconciler, both validations of a TenantPolicy
  (`validateTenantPolicy` of the webhook, `validateTenantPolicySpec` of the reconciler) and
  the decision on a request, look by look: `Receive` is the first `List`,
  `CheckPolicy(k)` the `Get` of the namespace for policy `k`, `ListAgain` and
  `MatchPolicy` the second pass that `runTenantChecks` makes when the request names
  collector IDs. `throughout`, `known` and `labelled` are history variables: what
  has governed the request at every moment and at some moment.
* **MCPipeline**, **MCCollector**, **MCExternal**, **MCPolicy**,
  **MCCollectorDiscovery**, **MCPipelineDiscovery**, **MCTenantPolicy**: instances for TLC.
* **PipelineProofs**, **CollectorProofs**, **ExternalProofs**, **PolicyProofs**,
  **CollectorDiscoveryProofs**, **TenantPolicyProofs**: the theorems about the
  reconcilers; those about PipelineDiscovery are in **PipelineProofs**, next to the
  reconciler it runs with. They share **ControllerProofs** (what a write, a delivery and a
  status write do to the versions of any kind of object) and **AttributesProofs**
  (the attribute algorithms).

Operators commented "Faulty variant" are mutations of the definition after them;
they are used by no specification and document which mistake each property
catches.

## 3. Runs

| Run | Question |
|---|---|
| `pipeline_spec` | One Pipeline whose spec changes (rename, other, rejected or paused contents, Grafana source), transient faults, a crash: do cached copies, finalizer, status and migration stay consistent, and does it end up in sync? |
| `pipeline_modes` | Changes that leave the generation alone (import mode, Fleet ID, name scope, operator flag), calls refused for good or lost, a foreign pipeline in Fleet and pipelines deleted behind the operator's back: finalizer, clean-up and record |
| `pipeline_migration` | A statement of the repository that the code does not keep (section 6) |
| `collector_safety` | One Collector whose spec, sync, policy, local attributes and foreign remote attributes change, a fault of each kind, a crash: whose keys does the operator touch, and is the ownership record true? |
| `collector_live` | Does it settle on the wanted attributes although the watches miss changes and collectors come and go? |
| `collector_leak` | Another statement that is not kept |
| `external_sync` | An ExternalAttributeSync whose spec, source, Secret and Collectors change, a fault or a crash: does what it publishes change only as `Handoff` allows, does it follow the Collectors, and does it settle? |
| `policy` | A policy by ID, by a positive and by a negated matcher, Collectors that come and go, a fault or a crash: is a wake-up ever lost, and does the status settle? |
| `collector_discovery` | Two collectors with a CR name each, a same-named discovery of another namespace, a change of spec, Fleet or CRs, caches as late as they like, a fault or a crash: does it go on polling, is a status that claims to be of the stored spec, and are polls that wrote some of the CRs and failed made good? |
| `collector_prune` | A third statement that is not kept |
| `pipeline_discovery` | A read-only import beside the Pipeline controller, with changes of Fleet, CRs and selector, a lost answer or a crash: do the two leave Fleet alone, and do the CRs end up mirroring it? |
| `tenancy` | Two TenantPolicies and a namespace that change while requests are decided, with and without the webhook: are decisions those of policies in force, and are statuses true? |

Bounds. Three user changes are enough for create, change and delete, or create
and two changes, with every interleaving of the controller between them. One
fault of any class and one crash, at any call, cover each failure path and the
recovery from it; a failure during the recovery of another one is not covered.
The fault classes of a Pipeline are divided: what the code retries (429, 5xx, a lost answer,
a failed or lost write) is in `pipeline_spec`, what it does not (400, 404, other 4xx) in
`pipeline_modes`. So are the scopes: `pipeline_spec` has plain names only, changes of scope
are in `pipeline_modes` and `pipeline_migration`. `SyncedMeansApplied` and
`NeverDeleteUnrebuildable` are proved for all faults and both scopes (section 5).
Faults and edits may meet in any order. `watch` is unbounded but at most as long
as the number of writes. For the Collector there are two or three keys, one of them
foreign, the values "" and "1", one sync that may claim one key or the other or be
truncated, and one policy whose match depends on the local attributes: every key
can be claimed by every pair of layers, and the two claims of the sync are the
pair that `ownedKeyEntriesEqual` cannot tell apart. `collector_safety` lets no
collector leave Fleet, since a key that is gone with its collector says nothing
about the record; `collector_live` does.

For the sync, everything around it is arbitrary at the start (Collectors, source, a
sync of any spec or none), so that two changes suffice to get from any situation to
any other; there are three specs (by ID; by a negated matcher with required fields,
`allowEmptyResults` and a Secret; an unusable one), three answers (none; two records of one
collector of which the later is incomplete; two collectors and a record without a
value) and a cap of one claim, which two collectors exceed. The value "" is left out
of the sync's runs because of the confusion described in section 6. For the policy
the cap is one of two Collectors, three changes, one fault or crash.

For the discoveries a crash is one of the faults. No bound is put on how far a cache is
behind: nobody waits for it, and what is on its way is as many versions as there are
writes. `collector_discovery` has one change before, after or during any call, and the
operator's own writes come on top. The two collectors have a CR name each, so that a poll
can fail or die with one CR written; that a name is taken is left to CRs that users or
the other discovery create. At the start Fleet is empty or full, and the discovery may or may
not exist yet, and so may a CR with the finalizer of the Collector controller, which saves
the change that would add it. `collector_prune` has one collector, two changes, any
CR of an earlier installation, and no fault: what it shows needs none.
`pipeline_discovery` has one content, a selector that lists it (removed ones are kept), one
that does not and an invalid one (removed ones are deleted), one change, and a lost answer or a crash: liveness of the two reconcilers is costly to
check, and it is the lost answers that can leave a CR behind unnoticed.
`tenancy` starts with policies reconciled before, or with a new
one, and has one change; the invariants were also checked once with two (8.9 million
states).

`CHECK_DEADLOCK FALSE` is needed because the system really may
come to rest: everything synced, nothing queued, no further change.

Two properties are not asked of `pipeline_modes`, because they are false there
for reasons the repository accepts: after somebody else deletes a Fleet pipeline
its status is stale until the next change (there is no periodic resync of
Pipelines), and a Pipeline whose mode changes loses its pipeline without a
worker.

Fairness (the same for all controllers). `WF(Worker)`: a reconcile in progress makes its next call. `SF` of
`Reconcile(k)`: the work queue hands out every waiting request, also when other
requests keep the worker busy; strong, because the worker is in between busy and
idle. `WF(Inform(k))`: the watch delivers. No fairness is assumed of users,
faults or crashes, whose number is bounded by `MaxEdits`, `MaxFaults` and
`MaxCrashes` (for sync and policy a crash is one of the faults): the liveness
statements read "once these stop". `external_sync` adds `WF(ScheduledRun(k))`: a
`RequeueAfter` comes back. For the discoveries `SF(Elapse(k))` says the same of the
poll interval. It and `Inform(k)` are strong there because they are modelled as steps
taken while the worker is idle; a busy worker looks neither at the clock nor at the
cache of discoveries, so nothing is lost by that. `SF(CatchUp)` says that the cache of the
Collector CRs is, time and again, up to date when a poll begins: polls are at least a
minute apart (`api/v1alpha1/collector_discovery_webhook.go:34-38`) and an informer is not that
late for ever. Between such moments it may be as late as it likes, also during a poll.
Without it a cache that is always behind in the right way could make the discovery
create and delete a CR for ever, as `collector_prune` shows once. `WF(RemoveFinalizer(n))` is what
the Collector controller owes. Requests to webhooks need no fairness to come in, only to
be decided.

## 4. Properties

* `FinalizerBeforeFleet`, `TrackedIsCleanedUp`: however stale the cache is, a
  live Pipeline reaches Fleet only with its finalizer stored, and the finalizer
  goes only when the pipeline its status names is gone. The second is an action
  property about the stored object and Fleet, not about the worker's copy.
* `SyncedMeansApplied`: Ready=True/Synced at the current generation and name
  means Fleet holds that pipeline under that ID with those contents.
* `NeverDeleteUnrebuildable`: the claim of `migratePipelineName`.
* `ObservedGenerationAdvances`: an older reconcile never overwrites the record
  of a newer one.
* `Converges`: liveness, after a transient fault and a crash.
* `CopiesAgree`: the inductive core, section 5.

Of the Collector controller (`TypeOK` and `FinalizerBeforeFleet` as above):

* `OthersUntouched`: no step of the operator changes a key of another client,
  through any history of claims, records, faults and restarts.
* `RecordedIsWritten`: when a status with Ready=True is stored, Fleet holds the
  values it records and none of the keys it has stopped recording. It relates the
  two writes of a reconcile, between which anything may happen.
* `RecordedIsCleanedUp`: when the finalizer goes, the recorded keys are gone. This holds of
  keys without "/" and "~" only (`Special = {}` in the runs, section 6).
* `Converges`: liveness; it depends on the periodic resync.
* `StaleKeysGo`: a statement of the repository that is not kept (section 6).

Of the ExternalAttributeSync controller:

* `ImplementsHandoff`: what is published is the projection of one whole answer
  under the stored spec, an empty answer withdraws nothing unless allowed to, and
  too many claims withdraw all of them visibly. The guard against empty answers
  reads a cached `recordsApplied` long before the write.
* `ClaimsAreSelected`: a Ready sync that is not about to run claims nothing for a
  Collector it no longer selects. It depends on the index finding the sync.
* `Settles`: every sync ends up reporting what is the case; a stall, an error and a
  truncation end with their causes.

Of the RemoteAttributePolicy controller:

* `MatchedIsCurrent`: no wake-up is lost. There is no resync that would make up for
  one, so a policy that nobody is about to look at must have a right status.
* `Settles`: the controller's own status writes wake it up, but not for ever.

Of the CollectorDiscovery controller:

* `PollScheduled`: no way out of `Reconcile` leaves a discovery that nothing will
  wake up again. There is no watch and no resync: polling is a chain of requeues.
* `SyncedIsOfSpec`: a poll takes its spec from a cached discovery and then makes many
  calls, during which the discovery may be edited; a status that is Synced and current by
  its `observedGeneration` is nonetheless of the stored spec. It speaks of what a user sees:
  nothing is stale where vanished collectors are deleted, no conflict is over a collector
  that was not asked for.
* `PresentIsNotPruned`: a statement of the repository (section 6): a CR is deleted or marked
  only if its collector was not among those the poll found. It is not kept, as
  `collector_prune` shows; the wrong deletion is made good by the next poll (`Converges`).
* `Converges`: the CRs and the status end up mirroring Fleet, whatever polls failed
  half-way.

Of PipelineDiscovery with the Pipeline controller:

* `ReadOnlyImportIsPassive`: while all imports are read-only, no step of either
  reconciler changes Fleet, whatever is created, marked, deleted and created again:
  the finalizer of a pruned CR included.
* `ImportConverges`: as `Converges`.

Of TenantPolicy:

* `GovernedIsScoped`: a request that some policy governs from the first look to the
  last is admitted only with a matcher required by a policy in force, and never
  with collector IDs. A failed look must not open the gate.
* `UngovernedIsAdmitted`: a denial is due to a policy that was in force at some moment and
  requires none of the request's matchers, or to any policy in force if the request names
  collector IDs.
* `StatusIsTrue`: a status that claims to be current is that of the stored spec,
  although it was computed from a cached one. `StatusSettles`: every status becomes so.
* `WebhookIsStricter`: what the webhook admits the reconciler accepts, so that with
  the webhook enabled Ready is never False.

## 5. Proofs

`PipelineProofs` proves, for every set of Pipelines, specs, annotations, faults
and every bound, from the assumptions of the modules only:

| Theorem | Statement |
|---|---|
| `TypeCorrect` | `Spec => []TypeOK` |
| `CopiesAreHarmless` | `Spec => []CopiesAgree` |
| `FinalizerFirst` | `Spec => []FinalizerBeforeFleet` |
| `DeleteCleansUp` | `Spec => TrackedIsCleanedUp` |
| `ObservedGenerationIsMonotone` | `Spec => ObservedGenerationAdvances` |

The inductive invariant is `IInv == TypeOK /\ CopiesAgree`. `FinalizerBeforeFleet`
is not inductive: the worker acts on a cached version, so one has to know that
every version in the cache or on its way there that reads "finalized and live"
is right about the stored object (`VersionsPinned`). That in turn holds because
only the worker removes finalizers, and only from an object that is being
deleted and that its copy still equals (`WorkerCopy`, `FreshCopy`): were an older
"finalized and live" version still undelivered, the copy would not be current.
`CacheCatchesUp` says that the newest undelivered version is the stored one,
which is what makes a copy read with an empty watch current. For
`TrackedIsCleanedUp` the invariant carries the fact that at `removeFinalizer` the
ID of a managed Pipeline is not in Fleet; it stays out because IDs in Fleet only
appear by upsert and the worker is the only one to upsert. `VersionsNotAhead` and
the last line of `FreshCopy` do the same for `observedGeneration`. The
invariants were checked with TLC first, on the instances of the runs.

The same module proves that a Synced status is true:

| Theorem | Statement |
|---|---|
| `SyncedIsApplied` | `OneNaming` and no `ExternalDeletes` imply `Spec /\ NothingToGuess /\ []NamesApart => []SyncedMeansApplied` |
| `DeletedIsRebuildable` | under the same conditions, `NeverDeleteUnrebuildable` |
| `NamespacesKeepNamesApart` | `OneNaming`, `OwnNamespaces` and no `ExternalDeletes` imply `Spec => []NamesApart` |
| `NamespacedSyncIsTrue` | so they imply `Spec => []SyncedMeansApplied /\ NeverDeleteUnrebuildable` |

The conditions are what the code needs, and each is needed:

* No `ExternalDeletes`: nobody else deletes pipelines; Pipelines are not resynced.
* `OneNaming`: neither the flag nor an annotation changes the name or the mode by ID. A
  flag that is changed back while a migration is interrupted after its delete leaves a
  status that looks right again (section 6).
* `NamesApart`: no two Pipelines use, or remember, one Fleet name. Upserts are keyed by
  name, so a second Pipeline of that name takes the pipeline over. With one Pipeline it is
  trivially true; with names scoped by namespace and one Pipeline to a namespace
  (`OwnNamespaces`) it is a theorem, whatever names users choose, and then nothing is assumed
  of the behaviour. Several Pipelines of one namespace,
  or of scope "none", have to be given different names by their users.
* `NothingToGuess`: the names are scoped, or no Pipeline was synced by a release without
  `syncedName`. `backfillSyncedName` guesses such a name from the spec as it is now
  (section 6).

The inductive invariant is `IInv /\ SInv`. `SyncedMeansApplied` speaks of the stored
object, but what makes it false is a call on a copy, of this or of another Pipeline, that
may be many versions old. `SInv` therefore speaks of all `Versions(k)` that something may
still act on. Each names the Fleet pipeline its ID belongs to by the name Fleet has for it
(`Traced`), no two Pipelines share an ID (`IdsApart`), and a finalized, live version is no
older than the last generation whose outcome was recorded and equals the stored spec if it
has its generation (`Current`): an upsert from an old copy then cannot undo what a Synced
status at a later generation claims, because there is no such copy left. A version under
deletion whose object is gone points at nothing (`Lingering`), so the late delete of a
Pipeline that was created anew hits nobody. `WorkerOK` follows one reconcile: at the status
write of a success Fleet holds what the copy says, which no other step can change, as there is
one worker. `DeletedIsRebuildable` adds that a delete by ID takes the pipeline of a live
Pipeline only in its own migration (`DeletedByOwner`). For `NamespacesKeepNamesApart` the
lemma is `NextDescends`: every version a step makes has its ID and name from an earlier version
of the same Pipeline, or its own name from its own upsert.

Of PipelineDiscovery beside the Pipeline reconciler, for any discoveries, import modes, selectors
and CR names:

| Theorem | Statement |
|---|---|
| `DiscoveryTypes` | `DSpec => []DTypeOK` |
| `ReadOnlyImportsArePassive` | `DSpec => ReadOnlyImportIsPassive` |

The invariant `ImportInv` types both reconcilers and what a poll has gathered. Its point is
`Flags`: if all discoveries import read-only, every version of every Pipeline, wherever it
waits, is read-only, also the copies that `processStaleP` holds and the objects a write
whose answer was lost has stored. The Pipeline reconciler then gets only to `get`, the
status and the finalizer, and a pruned Pipeline goes without a call to Fleet. What users edit of a CR is
its spec; the annotation that makes it read-only is the discovery's.

`AttributesProofs` proves that applying the operations of `Diff` leads exactly to
`Reconciled(desired, observed, owned)`, the reference definition (`DiffIsExact`),
and that a second `Diff` is then empty (`DiffIsIdempotent`). The lemma under both,
`DiffHits`, says that at most one operation of a `Diff` addresses a key, which is
why the order of operations does not matter.

`IndexFindsServed` in the same module says which selectors the index is good for: those with
IDs or matchers but not both, whose positive matchers reject a missing key
(`Served`). A selector that matches a Collector is then found through a key the
Collector has, through its ID or through one of the two synthetic buckets.

`PolicyProofs` proves `Spec => []TypeOK` (`TypeCorrect`) and, if every selector is
`Served`, `Spec => []MatchedIsCurrent` (`NoLostWakeUp`), for any number of policies
and Collectors, any cap, faults and bounds. `MatchedIsCurrent` is not inductive:
a status may be right or wrong while somebody is about to look at it. The
invariant adds, for a worker at work that will not be called again (`cur` not in the
queue), that it looks at the version in the cache (`Looked`), and that the status it is
about to write is right for the Collectors as they are and was computed from the
selector the index has (`Found`); a Collector's change in between either leaves the
selection alone or puts the request back into the queue (`SelectionStays`). `Copies` and
`Held` relate cache, undelivered versions and the worker's copy to what is stored.

`TenantPolicyProofs` proves, for any policies, subjects, matchers, labels and requests:

| Theorem | Statement |
|---|---|
| `TypeCorrect` | `Spec => []TypeOK` |
| `CurrentStatusIsTrue` | `Spec => []StatusIsTrue` |
| `AdmittedIsValid` | `Spec => []WebhookIsStricter` |
| `TenantsAreScoped` | `Spec => []GovernedIsScoped` |
| `DenialHasGrounds` | `Spec => []UngovernedIsAdmitted` |

There are two invariants, since a decision and the reconciler share the policies only.
`KInv`: a status is computed from a cached spec, and is stored only if the copy still
has the stored generation (`Held`), so what is stored with the current generation is
right (`Stored`). `DInv`: what has governed a request throughout is, at every look, either
still listed and to be looked at or already among the matched policies, and what a
decision goes by is on record in the history variables. A failed look leaves no third
possibility, which is the point of `GovernedIsScoped`.

`CollectorProofs`, for any Collectors, layers, keys and values:

| Theorem | Statement |
|---|---|
| `TypeCorrect` | `Spec => []TypeOK` |
| `FinalizerFirst` | `Spec => []FinalizerBeforeFleet` |
| `OthersKeepTheirKeys` | `Misread[s] \cap OtherKeys = {}` for every `s` in `Special` implies `Spec => OthersUntouched` |
| `DeletionCleansUp` | `Special = {}` implies `Spec => RecordedIsCleanedUp` |
| `StatusIsWritten` | `~Deregisters` implies `Spec => RecordedIsWritten` |

`KInv` is the argument of `PipelineProofs` (`Pinned`, `FreshCopy`) with one addition: no
version of a Collector, wherever it waits, records a key of another client
(`HonestVersion`). Without it `OthersUntouched` is not inductive, because a `Diff` removes
what an old record owns. `FInv` follows the two writes of a reconcile: the planned
operations are the `Diff` of the attributes that were observed and, but for the keys of
others, are still there (`Planned`); once sent, Fleet holds what the status about to be
written records (`Recorded`, by `DiffIsExact`); once the final update is sent, none of the
recorded keys is left (`Removed`). The premises are those of the properties: an unescaped path
may be read as that of another client's key, a key that
needs escaping outlives its Collector (section 6), and a record says nothing about a
collector that has left Fleet. `CollectorAssumption` bounds a priority by that of an
`int32`, on which the merge order of policies rests.

`ExternalProofs`, for any syncs, records and Collectors:

| Theorem | Statement |
|---|---|
| `TypeCorrect` | `Spec => []TypeOK`, the cap on claims included |
| `HandoffIsImplemented` | `Spec => ImplementsHandoff` |
| `NoClaimOutlivesSelection` | selectors that are `Served` imply `Spec => []ClaimsAreSelected` |

The refinement is proved step by step: a user's write is `Handoff`'s write of a spec, an
accepted status write is one of its outcomes, everything else stutters. For the status
write one has to know what the status in the worker's hands is: that of a failure, a stall,
an overflow or a projection of one answer, *of the stored sync* (`Outcome` in `Held`), which
holds although the guard against empty answers read a cached `recordsApplied` before the
fetch, because a copy that is still fresh at the write equals the stored sync apart from
the status. `NoClaimOutlivesSelection` uses the argument of `NoLostWakeUp` (`Looked`,
`Found`) with `IndexFindsServed`.

`CollectorDiscoveryProofs`, for any discoveries, collectors and CR names:

| Theorem | Statement |
|---|---|
| `TypeCorrect` | `Spec => []TypeOK` |
| `AlwaysPolledAgain` | `Spec => []PollScheduled` |
| `StatusIsOfSpec` | `Spec => []SyncedIsOfSpec` |

`PollScheduled` needs `Copies`: `Reconcile` drops a request for good only if its cached
copy does not exist, and then either the stored discovery does not exist or a newer version is
on its way. `SyncedIsOfSpec` is not inductive: a status in the worker's hands is of the spec it
has read, not of the stored one. The invariant `SInv` adds that no stored status is ahead of
its spec (`Honest`), that a copy which is still fresh has the stored spec and generation
(`HeldCopy`), and that what a poll has gathered is of the spec of the copy it began with
(`PollOfSpec`): conflicts are over collectors that spec asks for, and nothing is stale where it
says Delete. The status write compares the resourceVersion, and a status from an older spec
is refused or has the older generation.

The inductive invariants were checked with TLC before they were proved, on the instances
of the runs.

The theorems rest on the `ASSUME`s of the modules only, which every run evaluates: besides
the types of the constants that the key "" is no object's, that `NoObject` is no spec,
that discoveries elsewhere are not among those of the model, that no namespace is called "",
and the range of priorities.

Only model-checked: the liveness properties (`Converges`, `Settles`, `StatusSettles`,
`ImportConverges`), which are out of the reach of the prover.
Every invariant and every action property of the passing runs is stated by a theorem, some
under the premises given above.

## 6. What the code does not keep

1. `pipeline_migration`: a migration whose final upsert meets one 5xx never
   completes. `migratePipelineName` has cleared `status.id`, `updateStatusError`
   stores that with an unchanged `observedGeneration`, and since a scope change
   does not bump the generation the retry finds nothing to do.
   (`pipeline_controller.go:310-312`: "an interrupted migration converges on the
   next reconcile".)
2. `collector_leak`: a key is written to Fleet before `attributeOwners` records
   it. If the Collector is edited in between so that the key is no longer wanted,
   the status write conflicts, and no later `Diff` knows that the key was ours
   (`collector_controller.go:76`: "ensures stale remote attributes are eventually
   removed").

3. `collector_prune`: `processStale` prunes what is not in `currentIDs`, from which
   `upsertCollectorCRs` has left out the conflicts, and `Get` and `List` read a cache that moves
   on in between. Somebody creates and deletes a CR of the name while the cache shows
   neither, and the discovery creates its own; a later poll gets the foreign version,
   reports a conflict, then lists its own CR and prunes it, although Fleet lists its
   collector (`collector_discovery_controller.go:498`; lines 467-469: "whose collector ID is
   not in the current Fleet result"). The poll after that creates the CR anew. It takes
   two changes and an informer that is three versions and, unless something else wakes the
   discovery up, a poll interval behind.

Met while modelling, without a run of their own:

* A Pipeline deleted between its first upsert and its status write leaves its Fleet
  pipeline behind: that write conflicts, and `reconcileDelete` finds `status.id` empty
  (`pipeline_controller.go:393`), although `docs/runbooks/finalizer-stuck.md:12-14` says
  that the finalizer ensures the external resource is deleted first. A second rename
  while the status write of the first is lost, and a 404 from the dry run of a
  migration, leave a pipeline behind too.
* What the premises of `SyncedIsApplied` exclude. A crash after the delete of a migration,
  and a restart with the flag it had before: name, ID and generation of the status look
  right, so `Reconcile` has nothing to do, and the pipeline is missing. A Pipeline from a
  release without `syncedName`, scope "none": renamed before it is reconciled, it gets the
  new name as the guess of `backfillSyncedName` (`pipeline_controller.go:294`; TLC needs two
  faults), so its old pipeline is left and a status may be Synced that is not. Two Pipelines
  of one Fleet name overwrite each other, and deleting one deletes the pipeline of both.
* `reconcileDelete` of the Collector controller does not escape the key in the path of a
  REMOVE (`collector_controller.go:406`), `Diff` does (`attributes/diff.go:96-104`), and no
  webhook forbids "/" or "~" in a key. The finalizer goes and the key stays
  (`collector_controller.go:386-387`: "reconcileDelete removes every attribute this
  Collector CR caused to be written"): TLC finds `RecordedIsCleanedUp` violated as soon as a
  key of `collector_safety` is in `Special`. The path of "x~1y" is read as that of
  "x/y", which may be another client's; hence the premises of `DeletionCleansUp` and
  `OthersKeepTheirKeys`.
* The stall path of a sync writes `lastSyncTime` on every run. The write is an event
  of the watched object, so the controller runs again at once, fetches, stalls and
  writes: the source is asked as often as once a second (the resolution of the
  timestamp) and not "at the schedule" (`external_sync_controller.go:329-330`).
  `updateStatusError` does the same, which bypasses the backoff.
* A policy with both IDs and matchers is indexed under the keys of its matchers only. A
  Collector that it selects by ID and that has none of those keys comes and goes
  unnoticed, and nothing resyncs (`policy_controller.go:449`; line 434: "when collectors
  come and go, the set of matched IDs may shift"). `Served`, the premise of
  `NoLostWakeUp`, excludes such selectors. The index of the syncs has the same gap, but
  their schedule makes up for it.
* A failed poll of a discovery stamps `lastSyncTime` (`collector_discovery_controller.go:658`,
  `pipeline_discovery_controller.go:565`), so the retry meets the schedule gate and waits
  for a whole interval. The gate is described as "a recent successful sync"
  (line 206) and the 30 s after an error as "faster than the steady-state poll cadence"
  (lines 66-69); they apply only after a conflict of the status write.
* `processStale` deletes by name what a lagging cache showed it: a CR that a user has
  taken over by removing the labels is still deleted.
* `status.collectorsManaged` counts CRs in the cache: right after a poll that created
  some it is too low until the next poll.
* The doc of the selector of a CollectorDiscovery says that matchers and IDs are
  "OR'd"; `filterCollectors` intersects them.
* An adopted Pipeline that leaves the listing of its discovery, because `enabled` or
  `configType` no longer match the selector or because it was recreated under another
  ID, is pruned under `onPipelineRemoved: Delete`, and its finalizer then deletes the
  pipeline from Fleet by `status.id` (`pipeline_discovery_controller.go:435`). Read-only
  imports are safe from that (`ReadOnlyImportIsPassive`).
* The reconciler calls a TenantPolicy valid that the webhook rejects: it looks at
  neither the kinds of subjects nor the length of matchers. With the webhook disabled
  such a policy is Ready and governs nobody.
* A tenant decision gets the namespace once per policy. If its labels change in
  between, one decision may go by policies that were never in force together;
  `InForce` allows for that.
* The failure of `pipeline_migration` has a second form: a 5xx after an import-mode change leaves
  `SyncFailed` for good, since the mode does not bump the generation either.
* When the status write that reports a permanent error fails other than by
  conflict, `updateStatusError` returns nil and nothing reports the error later
  (`pipeline_controller.go:816`); a collector that leaves Fleet between
  `GetCollector` and `BulkUpdateCollectors` can thus be forgotten.
* All keys of the policy layer are recorded under the first matching policy, the
  keys only another one claims included (`collector_controller.go:377`); likewise
  for syncs. Nothing reads that name.
* `ownedKeyEntriesEqual` reads a missing key as "": a source whose record changes
  from `{x: ""}` to `{y: ""}` changes nothing in the status, and the watch of the
  Collectors would not see it (`external_sync_controller.go:1034`).
* After a failed list a policy's Ready stays False although the next list succeeds,
  if the match set is as before: the no-op check does not look at Ready
  (`policy_controller.go:190`).
* A positive matcher that accepts "" (`env=~".*"`) matches a Collector without the
  key and is not indexed for it, like the mixed selectors above.
* A source error returns the error (backoff); the 30 s of
  `defaultExternalSyncRequeueOnError` apply only after a conflict, the one case in
  which `updateStatusError` returns no error.

## 7. Abstractions and what is left out

* A call that times out has either taken effect or not when the controller goes
  on; an effect that arrives even later is not modelled.
* An annotation is absent or not empty.
* Events, metrics, messages, timestamps and the revision ID are left out.
* The backoff delay is not modelled: a returned error, `Requeue` and
  `RequeueAfter` put the request back.
* Webhooks are represented by the sets of specs and annotations the constants
  range over.
* Fleet is one store with unique names and IDs that are never reused.
  BulkUpdateCollectors is all or nothing, and removing an absent key does nothing:
  the repository does not say what Fleet answers to that.
* A List from the cache does not fail in the Collector controller and in the watch
  handlers.
* Of the sync: the rate limiter that syncs of one target share, a missing factory,
  and an empty `collectorIDField` (the schema forbids it) are left out. The two kinds
  of source are what they answer.
* Of a Collector's status the display name, type, enabled flag and timestamps are
  left out; they decide nothing. Two Collectors of one `spec.id` are not modelled.
* A delayed and an immediate request of the same object are one entry of the
  queue. In the discoveries only a wait for the poll interval is kept apart, in
  `later`; the 30 s after an error count as at once.
* Of the discoveries: all have one target namespace, a poll lists all it finds at
  once, counts are sets, the cap of the conflict list is not reached, CR names are valid
  (`discovery/naming.go` makes them so), and a Get or List from the cache fails only where
  the code handles a failed List. Import mode Adopt is in the module and the theorems but not in the run.
* Of tenancy: requests are for one namespace and decided one at a time, which loses
  nothing as decisions share no state. Lists of subjects and matchers are sets.

Not modelled: the other validations of the admission webhooks (stateless predicates on one
object), the Fleet client's conversions, tracing and rate limiter, the HTTP and SQL
sources and netguard (I/O), the manager (wiring), `hack/docgen` (documentation).

## 8. Plan

1. Done: every reconciler checked and proved about; attribute algorithms, checked through
   the Collector controller and proved; ExternalAttributeSync shown to implement `Handoff`,
   by TLC and by proof; all safety properties of the passing runs proved.
2. Composition of `Handoff` with the Collector controller through `status.ownedKeys`.
3. `discovery/naming.go` and the integer formatting of `pkg/sources/source.go` as pure
   algorithms.
