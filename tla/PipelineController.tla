-------------------------- MODULE PipelineController --------------------------
(***************************************************************************)
(* The Pipeline reconciler (internal/controller/pipeline_controller.go),   *)
(* the naming rules of api/v1alpha1/pipeline_naming.go and the Fleet       *)
(* Management pipeline store it drives.  Every call the reconciler makes   *)
(* to Fleet or to the API server is a step of its own; the code between    *)
(* two calls belongs to the step before it.                                *)
(*                                                                         *)
(* Abstractions: spec.contents stands for everything an upsert sends       *)
(* (contents, matchers, enabled, configType, source); a Fleet name is the  *)
(* pair <<namespace prefix or "", base name>>; HTTP statuses are the       *)
(* classes the code tells apart; events, metrics and messages are left     *)
(* out; backoff is a requeue.                                              *)
(***************************************************************************)
EXTENDS Controller

CONSTANTS
    Namespace,      \* Namespace[k]: the namespace of Pipeline k
    Specs,          \* specs a user may write: [contents, base, grafana, paused]
    Annots,         \* labels and annotations a Pipeline may have:
                    \* [scope, id, readOnly, by, stale]
    Scopes,         \* values --pipeline-name-scope may have, one per process start
    Invalid,        \* contents that Fleet answers with 400
    Foreign,        \* Fleet names that may be taken before the operator starts
    ExternalDeletes,\* may somebody else delete Fleet pipelines?
    MaxEdits,       \* bound on user edits and external deletions
    MaxCrashes      \* bound on restarts of the operator

VARIABLES
    fleet,    \* fleet[n]: the Fleet pipeline named n, or Vacant
    nextId,   \* the ID Fleet assigns next; IDs are never reused
    scope,    \* PipelineReconciler.NameScope
    edits, crashes    \* how much of each bound is used

vars == <<kubeVars, pc, retry, fleet, nextId, scope, edits, faults, crashes>>

-----------------------------------------------------------------------------
(* Types.                                                                  *)

NoId == 0
NoName == <<"", "">>

ScopeValues == {"none", "namespace"}
Bases == {s.base : s \in Specs}
Contents == {s.contents : s \in Specs}
Names == ({""} \cup {Namespace[k] : k \in Keys}) \X Bases

Reasons == {"", "Synced", "SyncFailed", "ValidationError", "DeleteFailed", "ReadOnly"}

Status == [id : Nat, name : Names \cup {NoName}, og : Nat,
           ready : {"Unknown", "True", "False"}, reason : Reasons]

Pipeline == [exists : {TRUE}, spec : Specs, ann : Annots, gen : Nat,
             fin : BOOLEAN, del : BOOLEAN, st : Status]

Version == Pipeline \cup {NoObject}

Vacant == [id |-> NoId]
FleetPipeline == [id : Nat \ {NoId}, contents : Contents]

Steps == {"idle", "addFinalizer", "dryRun", "migrateDelete", "upsert", "get",
          "updateStatus", "finalDelete", "removeFinalizer"}

ASSUME SpecsAssumption ==
    /\ Specs \subseteq [contents : STRING, base : STRING, grafana : BOOLEAN, paused : BOOLEAN]
    /\ "" \notin {s.base : s \in Specs}

ASSUME AnnotsAssumption ==
    Annots \subseteq [scope : ScopeValues \cup {""}, id : Nat, readOnly : BOOLEAN,
                      by : STRING, stale : BOOLEAN]

ASSUME NamespaceAssumption == \A k \in Keys : Namespace[k] # ""

ASSUME ScopesAssumption == Scopes \subseteq ScopeValues

ASSUME BoundsAssumption ==
    {MaxEdits, MaxCrashes} \subseteq Nat /\ ExternalDeletes \in BOOLEAN

-----------------------------------------------------------------------------
(* Naming and mode (api/v1alpha1/pipeline_naming.go).                      *)

\* The fleet-pipeline-id annotation is either absent or not empty.
IsDiscovered(o) == o.ann.id # NoId

IsReadOnly(o) == o.spec.grafana \/ o.ann.readOnly

EffectiveNameScope(o) == IF o.ann.scope = "" THEN scope ELSE o.ann.scope

\* Name of Pipeline k, holding o, in Fleet.
DesiredFleetName(k, o) ==
    IF EffectiveNameScope(o) = "namespace" /\ ~IsDiscovered(o) /\ ~IsReadOnly(o)
    THEN <<Namespace[k], o.spec.base>>
    ELSE <<"", o.spec.base>>

-----------------------------------------------------------------------------
(* What Reconcile decides from its copy of the object.                     *)

readOnlyPipelineID(o) == IF o.ann.id # NoId THEN o.ann.id ELSE o.st.id

backfillSyncedName(o) ==
    IF o.st.id # NoId /\ o.st.name = NoName
    THEN [o EXCEPT !.st.name = <<"", o.spec.base>>]
    ELSE o

namePending(k, o) ==
    /\ o.st.id # NoId
    /\ o.st.name # NoName
    /\ DesiredFleetName(k, o) # o.st.name

pipelineReconcileModeObserved(o) ==
    LET readOnly == IsReadOnly(o)
        id == readOnlyPipelineID(o)
    IN  /\ o.st.ready # "Unknown"
        /\ ~(readOnly /\ id # NoId /\ o.st.id # NoId /\ o.st.id # id)
        /\ \/ o.st.reason = "ReadOnly" /\ readOnly
           \/ o.st.reason = "ValidationError" /\ (~readOnly \/ id = NoId)
           \/ o.st.reason \notin {"ReadOnly", "ValidationError"} /\ ~readOnly

\* The observedGeneration guard.
alreadyReconciled(k, o) ==
    /\ IsReadOnly(o) \/ ~namePending(k, o)
    /\ o.st.og = o.gen
    /\ pipelineReconcileModeObserved(o)

\* contents stands for matchers, enabled, configType and source too.
buildUpsertRequest(k, o) ==
    [name |-> DesiredFleetName(k, o), contents |-> o.spec.contents]

-----------------------------------------------------------------------------
(* The statuses the code writes.                                           *)

SyncedStatus(o, id, name) ==
    [o EXCEPT !.st = [id |-> id, name |-> name, og |-> o.gen,
                      ready |-> "True", reason |-> "Synced"]]

ReadOnlyStatus(o, id) ==
    [o EXCEPT !.st.id = id, !.st.og = o.gen, !.st.ready = "True", !.st.reason = "ReadOnly"]

\* Faulty variant: observedGeneration advances on transient errors too.
ErrorStatusAlwaysObserved(o, reason, retryable) ==
    [o EXCEPT !.st.og = o.gen, !.st.ready = "False", !.st.reason = reason]

ErrorStatus(o, reason, retryable) ==
    [o EXCEPT !.st.og = IF retryable THEN @ ELSE o.gen,
              !.st.ready = "False", !.st.reason = reason]

-----------------------------------------------------------------------------
(* Fleet Management.  Upsert is keyed by name, Get and Delete by ID.       *)

FleetIds == {fleet[n].id : n \in Names} \ {NoId}

Upserted(n, c) ==
    [fleet EXCEPT ![n] = [id |-> IF @.id = NoId THEN nextId ELSE @.id, contents |-> c]]

Removed(id) == [n \in Names |-> IF fleet[n].id = id THEN Vacant ELSE fleet[n]]

UpsertEffect(n, c) ==
    /\ fleet' = Upserted(n, c)
    /\ nextId' = IF fleet[n].id = NoId THEN nextId + 1 ELSE nextId

DeleteEffect(id) ==
    /\ fleet' = Removed(id)
    /\ UNCHANGED nextId

NoEffect == UNCHANGED <<fleet, nextId>>

-----------------------------------------------------------------------------
Init ==
    /\ \/ \* Nothing synced yet; one name of Fleet may belong to somebody else.
          /\ KubeInit([k \in Keys |-> NoObject])
          /\ \E N \in SUBSET Foreign, c \in Contents \ Invalid :
                /\ \A m, n \in N : m = n
                /\ fleet = [n \in Names |->
                              IF n \in N THEN [id |-> 1, contents |-> c] ELSE Vacant]
       \/ \* One Pipeline synced by a release that did not record syncedName.
          \E k \in Keys, s \in Specs, a \in Annots :
             /\ s.contents \notin Invalid /\ ~s.grafana /\ ~s.paused
             /\ ~a.readOnly /\ a.id = NoId
             /\ KubeInit([j \in Keys |->
                   IF j = k
                   THEN [exists |-> TRUE, spec |-> s, ann |-> a, gen |-> 1,
                         fin |-> TRUE, del |-> FALSE,
                         st |-> [id |-> 1, name |-> NoName, og |-> 1,
                                 ready |-> "True", reason |-> "Synced"]]
                   ELSE NoObject])
             /\ fleet = [n \in Names |-> IF n = <<"", s.base>>
                                         THEN [id |-> 1, contents |-> s.contents]
                                         ELSE Vacant]
    /\ nextId = 2
    /\ scope \in Scopes
    /\ pc = "idle"
    /\ retry = FALSE
    /\ edits = 0 /\ faults = 0 /\ crashes = 0

-----------------------------------------------------------------------------
(* Users, and clients of Fleet other than the operator.                    *)

Edit == edits < MaxEdits /\ edits' = edits + 1

NotOperator == UNCHANGED <<pc, retry, nextId, scope, faults, crashes>>

CreatePipeline(k, s, a) ==
    /\ Edit
    /\ ~obj[k].exists
    /\ UserWrite(k, [exists |-> TRUE, spec |-> s, ann |-> a, gen |-> 1,
                     fin |-> FALSE, del |-> FALSE,
                     st |-> [id |-> NoId, name |-> NoName, og |-> 0,
                             ready |-> "Unknown", reason |-> ""]])
    /\ NotOperator /\ UNCHANGED fleet

EditSpec(k, s) ==
    /\ Edit
    /\ obj[k].exists
    /\ s # obj[k].spec
    /\ UserWrite(k, [obj[k] EXCEPT !.spec = s, !.gen = @ + 1])
    /\ NotOperator /\ UNCHANGED fleet

\* Annotations are metadata: the generation stays.
Annotate(k, a) ==
    /\ Edit
    /\ obj[k].exists
    /\ a # obj[k].ann
    /\ UserWrite(k, [obj[k] EXCEPT !.ann = a])
    /\ NotOperator /\ UNCHANGED fleet

DeletePipeline(k) ==
    /\ Edit
    /\ obj[k].exists
    /\ ~obj[k].del
    /\ UserWrite(k, IF obj[k].fin THEN [obj[k] EXCEPT !.del = TRUE, !.gen = @ + 1]
                                  ELSE NoObject)
    /\ NotOperator /\ UNCHANGED fleet

ExternalDelete(n) ==
    /\ ExternalDeletes
    /\ Edit
    /\ fleet[n].id # NoId
    /\ fleet' = [fleet EXCEPT ![n] = Vacant]
    /\ NotOperator /\ UNCHANGED kubeVars

-----------------------------------------------------------------------------
(* Reconcile, up to the first call.                                        *)

OperatorOnly == UNCHANGED <<scope, edits, crashes>>

\* NotFound, finalizer already gone, paused, or already reconciled.
ReconcileNothing(k) ==
    /\ \/ ~cache[k].exists
       \/ cache[k].exists /\ cache[k].del /\ ~cache[k].fin
       \/ /\ cache[k].exists /\ ~cache[k].del /\ cache[k].fin
          /\ \/ cache[k].spec.paused
             \/ alreadyReconciled(k, backfillSyncedName(cache[k]))
    /\ FetchAndReturn(k)
    /\ NoEffect /\ NoFault /\ OperatorOnly /\ UNCHANGED <<pc, retry>>

ReconcileFinalizer(k) ==
    /\ cache[k].exists /\ ~cache[k].del /\ ~cache[k].fin
    /\ Fetch(k, [cache[k] EXCEPT !.fin = TRUE])
    /\ pc' = "addFinalizer"
    /\ NoEffect /\ NoFault /\ OperatorOnly /\ UNCHANGED retry

\* Faulty variant: syncs a Pipeline whose finalizer is not stored yet.
ToSyncUnfinalized(k, o) ==
    /\ cache[k].exists /\ ~cache[k].del
    /\ ~cache[k].spec.paused
    /\ ~alreadyReconciled(k, o)

\* Past steps 1 to 5 of Reconcile, with its copy o of the object to be synced.
ToSync(k, o) ==
    /\ cache[k].exists /\ ~cache[k].del /\ cache[k].fin
    /\ ~cache[k].spec.paused
    /\ ~alreadyReconciled(k, o)

ReconcileReadOnly(k) ==
    LET o == backfillSyncedName(cache[k]) IN
    /\ ToSync(k, o)
    /\ IsReadOnly(o)
    /\ \/ /\ readOnlyPipelineID(o) # NoId
          /\ Fetch(k, o)
          /\ pc' = "get"
       \/ /\ readOnlyPipelineID(o) = NoId
          /\ Fetch(k, ErrorStatus(o, "ValidationError", FALSE))
          /\ pc' = "updateStatus"
    /\ NoEffect /\ NoFault /\ OperatorOnly /\ UNCHANGED retry

ReconcileNormal(k) ==
    LET o == backfillSyncedName(cache[k]) IN
    /\ ToSync(k, o)
    /\ ~IsReadOnly(o)
    /\ Fetch(k, o)
    /\ pc' = IF namePending(k, o) THEN "dryRun" ELSE "upsert"
    /\ NoEffect /\ NoFault /\ OperatorOnly /\ UNCHANGED retry

ReconcileDelete(k) ==
    /\ cache[k].exists /\ cache[k].del /\ cache[k].fin
    /\ Fetch(k, cache[k])
    /\ pc' = IF IsReadOnly(cache[k]) \/ cache[k].st.id = NoId
             THEN "removeFinalizer" ELSE "finalDelete"
    /\ NoEffect /\ NoFault /\ OperatorOnly /\ UNCHANGED retry

Reconcile(k) ==
    \/ ReconcileNothing(k)
    \/ ReconcileFinalizer(k)
    \/ ReconcileReadOnly(k)
    \/ ReconcileNormal(k)
    \/ ReconcileDelete(k)

-----------------------------------------------------------------------------
(* Where a failed call leads.                                              *)

updateStatusError(reason, retryable) ==
    /\ Continue(ErrorStatus(mem, reason, retryable))
    /\ pc' = "updateStatus"
    /\ retry' = retryable

handleAPIError(code) ==
    \/ code = "400" /\ updateStatusError("ValidationError", FALSE)
    \/ /\ code = "404" /\ mem.st.id # NoId
       /\ Continue([mem EXCEPT !.st.id = NoId])
       /\ pc' = "upsert"
       /\ UNCHANGED retry
    \/ code = "429" /\ RequeueAfter
    \/ /\ code \notin {"400", "429"}
       /\ code = "404" => mem.st.id = NoId
       /\ updateStatusError("SyncFailed", shouldRetry(code, "SyncFailed"))

handleReadOnlyAPIError(code) ==
    \/ code = "429" /\ RequeueAfter
    \/ code = "400" /\ updateStatusError("ValidationError", FALSE)
    \/ /\ code \notin {"400", "429"}
       /\ updateStatusError("ReadOnly", shouldRetry(code, "ReadOnly"))

-----------------------------------------------------------------------------
(* The calls of the worker, one step each.                                 *)

\* Faulty variant: the answer to the dry run is not looked at.
MigrateDryRunIgnored ==
    /\ pc = "dryRun"
    /\ Continue(mem)
    /\ pc' = "migrateDelete"
    /\ NoFault /\ UNCHANGED retry
    /\ NoEffect /\ OperatorOnly

\* UpsertPipeline with ValidateOnly, the first step of migratePipelineName.
MigrateDryRun ==
    /\ pc = "dryRun"
    /\ \/ /\ buildUpsertRequest(cur, mem).contents \notin Invalid
          /\ Continue(mem)
          /\ pc' = "migrateDelete"
          /\ NoFault /\ UNCHANGED retry
       \/ /\ buildUpsertRequest(cur, mem).contents \in Invalid
          /\ handleAPIError("400")
          /\ NoFault
       \/ \E code \in FleetFault : Fault(code) /\ handleAPIError(code)
    /\ NoEffect /\ OperatorOnly

\* DeletePipeline of the old name; the client turns a 404 into success.
MigrateDelete ==
    /\ pc = "migrateDelete"
    /\ \/ /\ DeleteEffect(mem.st.id)
          /\ Continue([mem EXCEPT !.st.id = NoId])
          /\ pc' = "upsert"
          /\ NoFault /\ UNCHANGED retry
       \/ \E code \in FleetFault \ {"404"} :
             /\ Fault(code)
             /\ IF code = "lost" THEN DeleteEffect(mem.st.id) ELSE NoEffect
             /\ handleAPIError(code)
    /\ OperatorOnly

\* UpsertPipeline, in reconcileNormal and in the recreation after a 404.
Upsert ==
    LET n == buildUpsertRequest(cur, mem).name
        c == buildUpsertRequest(cur, mem).contents
    IN  /\ pc = "upsert"
        /\ \/ /\ c \notin Invalid
              /\ UpsertEffect(n, c)
              /\ Continue(SyncedStatus(mem, Upserted(n, c)[n].id, n))
              /\ pc' = "updateStatus"
              /\ NoFault /\ UNCHANGED retry
           \/ /\ c \in Invalid
              /\ handleAPIError("400")
              /\ NoEffect /\ NoFault
           \/ \E code \in FleetFault :
                 /\ Fault(code)
                 /\ IF code = "lost" /\ c \notin Invalid THEN UpsertEffect(n, c) ELSE NoEffect
                 /\ handleAPIError(code)
        /\ OperatorOnly

GetPipeline ==
    LET id == readOnlyPipelineID(mem) IN
    /\ pc = "get"
    /\ \/ /\ id \in FleetIds
          /\ Continue(ReadOnlyStatus(mem, id))
          /\ pc' = "updateStatus"
          /\ NoFault /\ UNCHANGED retry
       \/ /\ id \notin FleetIds
          /\ handleReadOnlyAPIError("404")
          /\ NoFault
       \/ \E code \in FleetFault : Fault(code) /\ handleReadOnlyAPIError(code)
    /\ NoEffect /\ OperatorOnly

\* Faulty variant: any error of the delete counts as "already deleted".
FinalDeleteBestEffort ==
    /\ pc = "finalDelete"
    /\ \/ DeleteEffect(mem.st.id) /\ NoFault
       \/ \E code \in FleetFault : Fault(code) /\ NoEffect
    /\ Continue(mem)
    /\ pc' = "removeFinalizer"
    /\ OperatorOnly /\ UNCHANGED retry

\* DeletePipeline in reconcileDelete.
FinalDelete ==
    /\ pc = "finalDelete"
    /\ \/ /\ DeleteEffect(mem.st.id)
          /\ Continue(mem)
          /\ pc' = "removeFinalizer"
          /\ NoFault /\ UNCHANGED retry
       \/ \E code \in FleetFault \ {"404"} :
             /\ Fault(code)
             /\ IF code = "lost" THEN DeleteEffect(mem.st.id) ELSE NoEffect
             /\ updateStatusError("DeleteFailed", shouldRetry(code, "DeleteFailed"))
    /\ OperatorOnly

\* A write to the API server that ends the reconcile.
PipelineWrite(o, requeue, onError) ==
    /\ KubeWrite(o, requeue, onError)
    /\ NoEffect /\ OperatorOnly

AddFinalizer ==
    /\ pc = "addFinalizer"
    /\ PipelineWrite(mem, FALSE, TRUE)

\* Removing the last finalizer of an object being deleted removes the object.
RemoveFinalizer ==
    /\ pc = "removeFinalizer"
    /\ PipelineWrite(NoObject, FALSE, TRUE)

\* Faulty variant: on a conflict the status goes onto the latest object, with that
\* object's generation.
UpdateStatusOnLatest ==
    /\ pc = "updateStatus"
    /\ Store(cur, [obj[cur] EXCEPT !.st = [mem.st EXCEPT !.og = obj[cur].gen]])
    /\ Return(retry)
    /\ pc' = "idle" /\ retry' = FALSE
    /\ NoEffect /\ NoFault /\ OperatorOnly /\ UNCHANGED cache

\* Faulty variant: the status is patched without a resourceVersion.
UpdateStatusUnlocked ==
    /\ pc = "updateStatus"
    /\ Store(cur, [obj[cur] EXCEPT !.st = mem.st])
    /\ Return(retry)
    /\ pc' = "idle" /\ retry' = FALSE
    /\ NoEffect /\ NoFault /\ OperatorOnly /\ UNCHANGED cache

\* Status().Update in updateStatusSuccess, updateStatusReadOnly and
\* updateStatusError: a success whose write fails is retried, a permanent error
\* whose write fails is not.
UpdateStatus ==
    /\ pc = "updateStatus"
    /\ PipelineWrite([obj[cur] EXCEPT !.st = mem.st], retry, retry \/ mem.st.ready = "True")

Worker ==
    \/ MigrateDryRun \/ MigrateDelete \/ Upsert \/ GetPipeline \/ FinalDelete
    \/ AddFinalizer \/ RemoveFinalizer \/ UpdateStatus

-----------------------------------------------------------------------------
(* The operator process.                                                   *)

Inform(k) ==
    /\ Deliver(k)
    /\ NoEffect /\ UNCHANGED <<pc, retry, scope, edits, faults, crashes>>

\* A crash at any point of Reconcile and a restart, maybe with another flag.
Restart ==
    /\ crashes < MaxCrashes
    /\ crashes' = crashes + 1
    /\ KubeRestart
    /\ pc' = "idle"
    /\ retry' = FALSE
    /\ scope' \in Scopes
    /\ NoEffect /\ UNCHANGED <<edits, faults>>

User ==
    \/ \E k \in Keys :
          \/ \E s \in Specs : EditSpec(k, s) \/ \E a \in Annots : CreatePipeline(k, s, a)
          \/ \E a \in Annots : Annotate(k, a)
          \/ DeletePipeline(k)
    \/ \E n \in Names : ExternalDelete(n)

Next ==
    \/ User
    \/ \E k \in Keys : Reconcile(k) \/ Inform(k)
    \/ Worker
    \/ Restart

Spec == Init /\ [][Next]_vars

\* The work queue serves every request in turn, the worker goes on, and the watch
\* delivers.  Fleet and the API server answer as expected once MaxFaults is used up.
Fairness ==
    /\ WF_vars(Worker)
    /\ \A k \in Keys : SF_vars(Reconcile(k)) /\ WF_vars(Inform(k))

FairSpec == Spec /\ Fairness

-----------------------------------------------------------------------------
(* Properties.                                                             *)

\* Every variable keeps its type, and an idle worker holds no copy.
TypeOK ==
    /\ obj \in [Keys -> Version]
    /\ cache \in [Keys -> Version]
    /\ watch \in [Keys -> Seq(Version)]
    /\ queue \subseteq Keys
    /\ fresh \in BOOLEAN
    /\ pc \in Steps
    /\ \/ pc = "idle" /\ cur = "" /\ mem = NoObject
       \/ pc # "idle" /\ cur \in Keys /\ mem \in Pipeline
    /\ retry \in BOOLEAN
    /\ fleet \in [Names -> FleetPipeline \cup {Vacant}]
    /\ nextId \in Nat \ {NoId}
    /\ scope \in ScopeValues
    /\ edits \in 0..MaxEdits
    /\ faults \in 0..MaxFaults
    /\ crashes \in 0..MaxCrashes

\* reconcileNormal and reconcileReadOnly call Fleet only for a Pipeline that is
\* stored with the finalizer, however stale the cache they read: "Finalizer must
\* be persisted before any Fleet Management API call".
FinalizerBeforeFleet ==
    pc \in {"dryRun", "migrateDelete", "upsert", "get"} => obj[cur].exists /\ obj[cur].fin

\* A version of Pipeline k that reads as finalized and live tells no lie about the
\* stored object.
Pinned(k, o) == (o.exists /\ o.fin /\ ~o.del) => (obj[k].exists /\ obj[k].fin)

NotAhead(o) == o.exists => o.st.og <= o.gen

\* A copy whose resourceVersion is current was read from a cache that had caught up.
FreshCopy ==
    fresh => /\ pc # "idle"
             /\ obj[cur].exists
             /\ cache[cur] = obj[cur]
             /\ watch[cur] = <<>>
             /\ mem.gen = obj[cur].gen
             /\ obj[cur].st.og <= mem.st.og

\* The newest version on its way to the cache, or else in it, is the stored one.
CacheCatchesUp ==
    \A k \in Keys :
        obj[k] = IF watch[k] = <<>> THEN cache[k] ELSE watch[k][Len(watch[k])]

VersionsPinned ==
    \A k \in Keys :
        /\ Pinned(k, cache[k])
        /\ \A i \in 1..Len(watch[k]) : Pinned(k, watch[k][i])

VersionsNotAhead ==
    \A k \in Keys :
        /\ NotAhead(obj[k]) /\ NotAhead(cache[k])
        /\ \A i \in 1..Len(watch[k]) : NotAhead(watch[k][i])

WorkerCopy ==
    /\ pc # "idle" => mem.st.og <= mem.gen
    /\ pc = "addFinalizer" => mem.fin
    /\ pc \in {"finalDelete", "removeFinalizer"} => mem.del /\ (fresh => mem = obj[cur])
    /\ (pc = "removeFinalizer" /\ ~IsReadOnly(mem)) => mem.st.id \notin FleetIds

\* Every copy of a Pipeline, in the cache, on its way there and in the hands of the
\* worker, is related to the stored object in a way that makes acting on it
\* harmless.  This is the part of the inductive invariant that the types leave out.
CopiesAgree ==
    /\ FreshCopy /\ CacheCatchesUp /\ VersionsPinned /\ VersionsNotAhead
    /\ WorkerCopy /\ FinalizerBeforeFleet

Managed(o) == o.exists /\ ~o.del /\ ~IsReadOnly(o)

\* updateStatusSuccess tells the truth: a managed Pipeline that reports Synced at
\* its current generation and name is in Fleet, under that name and ID, with the
\* contents of its spec.
SyncedMeansApplied ==
    \A k \in Keys :
        LET o == obj[k] IN
        (/\ Managed(o)
         /\ o.st.reason = "Synced" /\ o.st.og = o.gen
         /\ DesiredFleetName(k, o) = o.st.name)
        => fleet[o.st.name] = [id |-> o.st.id, contents |-> o.spec.contents]

\* reconcileDelete: when the finalizer of a managed Pipeline goes, the Fleet
\* pipeline its status.id names is gone already.
TrackedIsCleanedUp ==
    [][\A k \in Keys :
        (/\ obj[k].exists /\ obj[k].fin /\ ~obj'[k].exists
         /\ ~IsReadOnly(obj[k]))
        => obj[k].st.id \notin FleetIds']_vars

\* migratePipelineName: "we never delete a pipeline we cannot rebuild".  The
\* Fleet pipeline a live Pipeline points at is taken away only while the worker
\* holds contents for it that Fleet accepts.
NeverDeleteUnrebuildable ==
    [][\A k \in Keys, n \in Names :
        (/\ Managed(obj[k])
         /\ fleet[n].id # NoId /\ fleet[n].id = obj[k].st.id
         /\ fleet'[n].id = NoId)
        => cur = k /\ mem.spec.contents \notin Invalid]_vars

\* Optimistic locking of status writes: within the life of an object
\* status.observedGeneration never passes metadata.generation and never goes
\* back.
ObservedGenerationAdvances ==
    [][\A k \in Keys :
        obj[k].exists /\ obj'[k].exists
        => obj[k].st.og <= obj'[k].st.og /\ obj'[k].st.og <= obj'[k].gen]_vars

\* Pipeline k needs no further work.
InSync(k) ==
    LET o == obj[k] IN
    \/ ~o.exists
    \/ /\ ~o.del
       /\ \/ o.spec.paused
          \/ /\ IsReadOnly(o)
             /\ \/ readOnlyPipelineID(o) \notin FleetIds
                \/ o.st.reason = "ReadOnly" /\ o.st.id = readOnlyPipelineID(o)
          \/ ~IsReadOnly(o) /\ o.spec.contents \in Invalid
          \/ /\ ~IsReadOnly(o)
             /\ o.st.id # NoId
             /\ fleet[DesiredFleetName(k, o)] = [id |-> o.st.id, contents |-> o.spec.contents]

\* Once users, faults and crashes stop, every Pipeline gets in sync and stays:
\* "an interrupted migration converges on the next reconcile", and a Pipeline
\* being deleted goes away.
Converges == <>[](\A k \in Keys : InSync(k))

=============================================================================
