------------------------- MODULE PipelineDiscovery --------------------------
(***************************************************************************)
(* The PipelineDiscovery reconciler                                        *)
(* (internal/controller/pipeline_discovery_controller.go) running beside   *)
(* the Pipeline reconciler: it creates Pipeline CRs for the pipelines it   *)
(* lists in Fleet and marks or deletes them when they are listed no more,  *)
(* and the Pipeline reconciler takes those CRs for its own work, finalizer *)
(* included.  The two share the store, the cache of Pipelines and Fleet.   *)
(*                                                                         *)
(* Abstractions as in CollectorDiscovery.  The Fleet name <<"", b>> is the *)
(* string b: the operator runs with name scope none, so there is no other. *)
(* contents stands for enabled, configType and source as well: a selector  *)
(* is the set of contents it lists.                                        *)
(***************************************************************************)
EXTENDS PipelineController

CONSTANTS
    Discoveries,   \* namespaced names of the PipelineDiscovery objects
    CRName,        \* CRName[b]: choosePipelineCRName(b)
    FromGrafana,   \* contents whose source is Grafana
    DSpecs         \* specs a user may write: [sel, mode, onRemoved, valid]

VARIABLES
    dobj, dwatch, dcache, dqueue, dcur, dmem, dfresh,   \* as obj, ... of ApiServer
    dpc,       \* the call the discovery's worker makes next
    poll,      \* what it has gathered since ListPipelines
    recent,    \* recent[d]: now < status.lastSyncTime + pollInterval
    later      \* requests that come back a pollInterval from now

D == INSTANCE ApiServer WITH
        Keys <- Discoveries, obj <- dobj, watch <- dwatch, cache <- dcache,
        queue <- dqueue, cur <- dcur, mem <- dmem, fresh <- dfresh

dKube == <<dobj, dwatch, dcache, dqueue, dcur, dmem, dfresh>>

dvars == <<dKube, dpc, poll, recent, later>>

allVars == <<vars, dvars>>

-----------------------------------------------------------------------------
(* Types.                                                                  *)

DReasons == {"", "Synced", "ListPipelinesFailed", "UpsertFailed", "StaleProcessingFailed",
             "InvalidConfig"}

\* sync stands for lastSyncTime: 0 never set, and otherwise changed by every write.
DStatus == [og : Nat, sync : 0..2, ready : {"", "True", "False"}, reason : DReasons,
            managed : SUBSET Keys, stale : SUBSET Bases, conflicts : SUBSET Bases]

Discovery == [exists : {TRUE}, spec : DSpecs, gen : Nat, st : DStatus]

NewDiscovery(s) ==
    [exists |-> TRUE, spec |-> s, gen |-> 1,
     st |-> [og |-> 0, sync |-> 0, ready |-> "", reason |-> "",
             managed |-> {}, stale |-> {}, conflicts |-> {}]]

\* todo holds what ListPipelines returned and has not been looked at.
Listing == [name : Bases, id : Nat, contents : Contents]

NoItems == [k \in Keys |-> NoObject]

NoPoll == [todo |-> {}, current |-> {}, conflicts |-> {}, items |-> NoItems,
           managed |-> {}, stale |-> {}]

DSteps == {"idle", "list", "upsert", "stale", "updateStatus"}

ASSUME PipelineDiscoveryAssumption ==
    /\ DSpecs \subseteq [sel : SUBSET Contents, mode : {"Adopt", "ReadOnly"},
                         onRemoved : {"Keep", "Delete"}, valid : BOOLEAN]
    /\ CRName \in [Bases -> Keys]
    /\ "" \notin Discoveries

\* The operator starts with its discoveries and without Pipelines; Fleet may hold one.
DInit ==
    /\ KubeInit([k \in Keys |-> NoObject])
    /\ \E B \in SUBSET Bases, c \in Contents :
          /\ \A a, b \in B : a = b
          /\ fleet = [n \in Names |-> IF n[2] \in B /\ n[1] = ""
                                      THEN [id |-> 1, contents |-> c] ELSE Vacant]
    /\ nextId = 2 /\ scope = "none"
    /\ pc = "idle" /\ retry = FALSE
    /\ edits = 0 /\ faults = 0 /\ crashes = 0
    /\ \E s \in DSpecs : D!KubeInit([d \in Discoveries |-> NewDiscovery(s)])
    /\ dpc = "idle" /\ poll = NoPoll
    /\ recent = [d \in Discoveries |-> FALSE] /\ later = {}

-----------------------------------------------------------------------------
(* Users, and other clients of Fleet.                                      *)

OthersUnchanged == UNCHANGED <<pc, retry, scope, faults, crashes, dpc, poll, recent, later>>

WriteDiscovery(d, o) ==
    /\ Edit
    /\ D!UserWrite(d, o)
    /\ OthersUnchanged /\ NoEffect /\ UNCHANGED kubeVars

EditDiscovery(d, s) ==
    /\ dobj[d].exists /\ s # dobj[d].spec
    /\ WriteDiscovery(d, [dobj[d] EXCEPT !.spec = s, !.gen = @ + 1])

DeleteDiscovery(d) == dobj[d].exists /\ WriteDiscovery(d, D!NoObject)

\* Somebody else creates or changes a pipeline.
ExternalUpsert(b, c) ==
    /\ Edit
    /\ UpsertEffect(<<"", b>>, c)
    /\ OthersUnchanged /\ UNCHANGED <<kubeVars, dKube>>

\* Somebody else deletes a pipeline and creates one with its name: it has another ID.
ExternalRecreate(b) ==
    /\ Edit
    /\ fleet[<<"", b>>].id # NoId
    /\ fleet' = [fleet EXCEPT ![<<"", b>>].id = nextId]
    /\ nextId' = nextId + 1
    /\ OthersUnchanged /\ UNCHANGED <<kubeVars, dKube>>

-----------------------------------------------------------------------------
(* Reconcile, up to the first call.                                        *)

\* A step of the discovery's worker that leaves Pipelines, or Fleet, alone.
NotPipelines == UNCHANGED kubeVars

DiscoveryOnly == NoEffect /\ UNCHANGED <<pc, retry, scope, edits, crashes>>

pipelineIsOwnedByDiscovery(o, d) == o.ann.by = d

Later(sync) == IF sync = 1 THEN 2 ELSE 1

DErrorStatus(o, reason) ==
    [o EXCEPT !.st.og = o.gen, !.st.sync = Later(@),
              !.st.ready = "False", !.st.reason = reason]

DSuccessStatus(o, p) ==
    [o EXCEPT !.st = [og |-> o.gen, sync |-> Later(@.sync), ready |-> "True",
                      reason |-> "Synced", managed |-> p.managed, stale |-> p.stale,
                      conflicts |-> p.conflicts]]

DReconcileNothing(d) ==
    /\ ~dcache[d].exists
    /\ D!FetchAndReturn(d)
    /\ NoFault /\ DiscoveryOnly /\ NotPipelines /\ UNCHANGED <<dpc, poll, recent, later>>

DReconcileInvalid(d) ==
    /\ dcache[d].exists /\ ~dcache[d].spec.valid
    /\ D!Fetch(d, DErrorStatus(dcache[d], "InvalidConfig"))
    /\ dpc' = "updateStatus"
    /\ NoFault /\ DiscoveryOnly /\ NotPipelines /\ UNCHANGED <<poll, recent, later>>

\* Faulty variant: the time is not looked at.
NotDueOnce(d) == dcache[d].st.sync # 0 /\ dcache[d].st.og = dcache[d].gen

NotDue(d) == dcache[d].st.sync # 0 /\ dcache[d].st.og = dcache[d].gen /\ recent[d]

\* Faulty variant: the return after asking for a requeue is missing.
DReconcileSkipAndGoOn(d) ==
    /\ dcache[d].exists /\ dcache[d].spec.valid
    /\ NotDue(d)
    /\ D!FetchAndReturn(d)
    /\ later' = later \cup {d}
    /\ dpc' = "list"
    /\ NoFault /\ DiscoveryOnly /\ NotPipelines /\ UNCHANGED <<poll, recent>>

DReconcileSkip(d) ==
    /\ dcache[d].exists /\ dcache[d].spec.valid
    /\ NotDue(d)
    /\ D!FetchAndReturn(d)
    /\ later' = later \cup {d}
    /\ NoFault /\ DiscoveryOnly /\ NotPipelines /\ UNCHANGED <<dpc, poll, recent>>

DReconcilePoll(d) ==
    /\ dcache[d].exists /\ dcache[d].spec.valid
    /\ ~NotDue(d) \/ dwatch[d] # <<>>
    /\ D!Fetch(d, dcache[d])
    /\ dpc' = "list"
    /\ NoFault /\ DiscoveryOnly /\ NotPipelines /\ UNCHANGED <<poll, recent, later>>

DReconcile(d) ==
    \/ DReconcileNothing(d) \/ DReconcileInvalid(d) \/ DReconcileSkip(d) \/ DReconcilePoll(d)

-----------------------------------------------------------------------------
(* The calls of the discovery's worker, one step each.                     *)

Fail(reason) ==
    /\ D!Continue(DErrorStatus(dmem, reason))
    /\ poll' = NoPoll
    /\ dpc' = "updateStatus"

GoOn(p, step) ==
    /\ D!Continue(dmem)
    /\ poll' = p
    /\ dpc' = step

\* ListPipelines with the filters of buildListRequest.
Listed(s) ==
    {p \in {[name |-> n[2], id |-> fleet[n].id, contents |-> fleet[n].contents] :
               n \in {m \in Names : fleet[m].id # NoId}} : p.contents \in s.sel}

ListPipelines ==
    /\ dpc = "list"
    /\ \/ GoOn([NoPoll EXCEPT !.todo = Listed(dmem.spec)], "upsert") /\ NoFault
       \/ Fault("5xx") /\ Fail("ListPipelinesFailed")
    /\ DiscoveryOnly /\ NotPipelines /\ UNCHANGED <<recent, later>>

Claimed(p) == [poll EXCEPT !.todo = @ \ {p}, !.current = @ \cup {p.id}]

Conflicting(p) == [poll EXCEPT !.todo = @ \ {p}, !.conflicts = @ \cup {p.name}]

\* Faulty variant: the import mode is not looked at.
ImportedWritable(p) ==
    [exists |-> TRUE,
     spec |-> [contents |-> p.contents, base |-> p.name,
               grafana |-> p.contents \in FromGrafana, paused |-> FALSE],
     ann |-> [scope |-> "", id |-> p.id, readOnly |-> p.contents \in FromGrafana,
              by |-> dcur, stale |-> FALSE],
     gen |-> 1, fin |-> FALSE, del |-> FALSE,
     st |-> [id |-> NoId, name |-> NoName, og |-> 0, ready |-> "Unknown", reason |-> ""]]

\* The Pipeline CR that upsertPipelineCRs creates for p.
Imported(p) ==
    LET grafana == p.contents \in FromGrafana IN
    [exists |-> TRUE,
     spec |-> [contents |-> p.contents, base |-> p.name, grafana |-> grafana, paused |-> FALSE],
     ann |-> [scope |-> "", id |-> p.id, readOnly |-> dmem.spec.mode = "ReadOnly" \/ grafana,
              by |-> dcur, stale |-> FALSE],
     gen |-> 1, fin |-> FALSE, del |-> FALSE,
     st |-> [id |-> NoId, name |-> NoName, og |-> 0, ready |-> "Unknown", reason |-> ""]]

\* A write of Pipeline k by the discovery.
WriteCR(k, o) ==
    \/ o = obj[k] /\ NotPipelines
    \/ o # obj[k] /\ UserWrite(k, o)

\* Get found nothing; AlreadyExists counts as success.
CreatePipelineCR(p) ==
    LET k == CRName[p.name]
        stored == IF obj[k].exists THEN obj[k] ELSE Imported(p)
    IN  \/ WriteCR(k, stored) /\ GoOn(Claimed(p), "upsert") /\ NoFault
        \/ Fault("k8s") /\ Fail("UpsertFailed") /\ NotPipelines
        \/ Fault("k8sLost") /\ Fail("UpsertFailed") /\ WriteCR(k, stored)

\* setPipelineStaleAnnotation and clearPipelineStaleAnnotation on the copy o.
PatchStale(k, o, v, p, step, reason) ==
    \/ o.ann.stale = v /\ GoOn(p, step) /\ NoFault /\ NotPipelines
    \/ /\ o.ann.stale # v /\ obj[k].exists
       /\ WriteCR(k, [obj[k] EXCEPT !.ann.stale = v])
       /\ GoOn(p, step) /\ NoFault
    \/ o.ann.stale # v /\ ~obj[k].exists /\ Fail(reason) /\ NoFault /\ NotPipelines
    \/ o.ann.stale # v /\ Fault("k8s") /\ Fail(reason) /\ NotPipelines
    \/ /\ o.ann.stale # v /\ obj[k].exists /\ Fault("k8sLost")
       /\ WriteCR(k, [obj[k] EXCEPT !.ann.stale = v])
       /\ Fail(reason)

\* One round of upsertPipelineCRs.
UpsertCR(p) ==
    LET o == cache[CRName[p.name]]
        ours == o.exists /\ pipelineIsOwnedByDiscovery(o, dcur) /\ o.ann.id = p.id
    IN  /\ dpc = "upsert" /\ p \in poll.todo
        /\ \/ ~o.exists /\ CreatePipelineCR(p)
           \/ ours /\ PatchStale(CRName[p.name], o, FALSE, Claimed(p), "upsert", "UpsertFailed")
           \/ o.exists /\ ~ours /\ GoOn(Conflicting(p), "upsert") /\ NoFault /\ NotPipelines
        /\ DiscoveryOnly /\ UNCHANGED <<recent, later>>

\* List, and the ownership check at the head of the loop of processStaleP.
ListManaged ==
    /\ dpc = "upsert" /\ poll.todo = {}
    /\ \/ /\ GoOn([poll EXCEPT !.items = [k \in Keys |->
                      IF cache[k].exists /\ pipelineIsOwnedByDiscovery(cache[k], dcur)
                      THEN cache[k] ELSE NoObject]], "stale")
          /\ NoFault
       \/ Fault("k8s") /\ Fail("StaleProcessingFailed")
    /\ DiscoveryOnly /\ NotPipelines /\ UNCHANGED <<recent, later>>

Kept(k) == [poll EXCEPT !.items[k] = NoObject, !.managed = @ \cup {k}]

Deleted(o) ==
    IF o.exists /\ o.fin
    THEN IF o.del THEN o ELSE [o EXCEPT !.del = TRUE, !.gen = @ + 1]
    ELSE NoObject

\* One round of processStaleP, with the copy that List returned.
ProcessStaleP(k) ==
    LET o == poll.items[k] IN
    /\ dpc = "stale" /\ o.exists
    /\ \/ /\ o.ann.id \in poll.current
          /\ PatchStale(k, o, FALSE, Kept(k), "stale", "StaleProcessingFailed")
       \/ /\ o.ann.id \notin poll.current /\ dmem.spec.onRemoved = "Delete"
          /\ \/ /\ WriteCR(k, Deleted(obj[k]))
                /\ GoOn([poll EXCEPT !.items[k] = NoObject], "stale") /\ NoFault
             \/ Fault("k8s") /\ Fail("StaleProcessingFailed") /\ NotPipelines
             \/ Fault("k8sLost") /\ Fail("StaleProcessingFailed") /\ WriteCR(k, Deleted(obj[k]))
       \/ /\ o.ann.id \notin poll.current /\ dmem.spec.onRemoved = "Keep"
          /\ PatchStale(k, o, TRUE, [Kept(k) EXCEPT !.stale = @ \cup {o.spec.base}],
                        "stale", "StaleProcessingFailed")
    /\ DiscoveryOnly /\ UNCHANGED <<recent, later>>

Stamp == recent' = [recent EXCEPT ![dcur] = TRUE]

DUpdateStatusSuccess ==
    LET o == [dobj[dcur] EXCEPT !.st = DSuccessStatus(dmem, poll).st] IN
    /\ dpc = "stale" /\ poll.items = NoItems
    /\ \/ D!WriteAndReturn(o, FALSE) /\ later' = later \cup {dcur} /\ Stamp /\ NoFault
       \/ /\ ~dfresh /\ dobj[dcur].exists
          /\ D!JustReturn(FALSE)
          /\ later' = later \cup {dcur} /\ NoFault /\ UNCHANGED recent
       \/ ~dfresh /\ ~dobj[dcur].exists /\ D!JustReturn(TRUE) /\ NoFault /\ UNCHANGED <<later, recent>>
       \/ Fault("k8s") /\ D!JustReturn(TRUE) /\ UNCHANGED <<later, recent>>
       \/ Fault("k8sLost") /\ D!WriteAndReturn(o, TRUE) /\ Stamp /\ UNCHANGED later
    /\ dpc' = "idle" /\ poll' = NoPoll
    /\ DiscoveryOnly /\ NotPipelines

\* After updateStatusError Reconcile always returns an error or asks for a requeue.
DUpdateStatusError ==
    LET o == [dobj[dcur] EXCEPT !.st = dmem.st] IN
    /\ dpc = "updateStatus"
    /\ \/ D!WriteAndReturn(o, TRUE) /\ Stamp /\ NoFault
       \/ ~dfresh /\ D!JustReturn(TRUE) /\ NoFault /\ UNCHANGED recent
       \/ Fault("k8s") /\ D!JustReturn(TRUE) /\ UNCHANGED recent
       \/ Fault("k8sLost") /\ D!WriteAndReturn(o, TRUE) /\ Stamp
    /\ dpc' = "idle"
    /\ DiscoveryOnly /\ NotPipelines /\ UNCHANGED <<poll, later>>

DWorker ==
    \/ ListPipelines
    \/ \E p \in poll.todo : UpsertCR(p)
    \/ ListManaged
    \/ \E k \in Keys : ProcessStaleP(k)
    \/ DUpdateStatusSuccess
    \/ DUpdateStatusError

-----------------------------------------------------------------------------
(* Time, the informers and the operator process.                           *)

\* Only while the worker is idle, as in CollectorDiscovery.
Elapse(d) ==
    /\ dcur = ""
    /\ recent[d] \/ d \in later
    /\ recent' = [recent EXCEPT ![d] = FALSE]
    /\ later' = later \ {d}
    /\ dqueue' = IF d \in later THEN dqueue \cup {d} ELSE dqueue
    /\ UNCHANGED <<vars, dobj, dwatch, dcache, dcur, dmem, dfresh, dpc, poll>>

DInform(d) ==
    /\ dcur = ""
    /\ D!Deliver(d)
    /\ UNCHANGED <<vars, dpc, poll, recent, later>>

\* The two reconcilers live in one process.  A crash counts as a fault.
DRestart ==
    /\ faults < MaxFaults
    /\ faults' = faults + 1
    /\ KubeRestart /\ D!KubeRestart
    /\ pc' = "idle" /\ retry' = FALSE
    /\ dpc' = "idle" /\ poll' = NoPoll /\ later' = {}
    /\ NoEffect /\ UNCHANGED <<scope, edits, crashes, recent>>

DUser ==
    \/ \E d \in Discoveries : DeleteDiscovery(d) \/ \E s \in DSpecs : EditDiscovery(d, s)
    \/ \E b \in Bases : ExternalRecreate(b) \/ \E c \in Contents : ExternalUpsert(b, c)
    \/ /\ \/ \E k \in Keys : DeletePipeline(k) \/ \E s \in Specs : EditSpec(k, s)
          \/ \E n \in Names : ExternalDelete(n)
       /\ UNCHANGED dvars

PipelineStep ==
    /\ Worker \/ \E k \in Keys : Reconcile(k) \/ Inform(k)
    /\ UNCHANGED dvars

DNext ==
    \/ DUser
    \/ PipelineStep
    \/ DWorker
    \/ \E d \in Discoveries : DReconcile(d) \/ DInform(d) \/ Elapse(d)
    \/ DRestart

DSpec == DInit /\ [][DNext]_allVars

DFairness ==
    /\ WF_allVars(Worker /\ UNCHANGED dvars) /\ WF_allVars(DWorker)
    /\ \A k \in Keys : /\ SF_allVars(Reconcile(k) /\ UNCHANGED dvars)
                       /\ WF_allVars(Inform(k) /\ UNCHANGED dvars)
    /\ \A d \in Discoveries :
          SF_allVars(DReconcile(d)) /\ SF_allVars(DInform(d)) /\ SF_allVars(Elapse(d))

DFairSpec == DSpec /\ DFairness

-----------------------------------------------------------------------------
(* Properties.                                                             *)

\* The variables of the discovery keep their types; those of the Pipeline reconciler
\* have their own invariant.
DTypeOK ==
    /\ dobj \in [Discoveries -> Discovery \cup {NoObject}]
    /\ dcache \in [Discoveries -> Discovery \cup {NoObject}]
    /\ dwatch \in [Discoveries -> Seq(Discovery \cup {NoObject})]
    /\ dqueue \subseteq Discoveries /\ later \subseteq Discoveries
    /\ dfresh \in BOOLEAN
    /\ \/ dpc = "idle" /\ dcur = "" /\ dmem = NoObject
       \/ dpc \in DSteps \ {"idle"} /\ dcur \in Discoveries /\ dmem \in Discovery
    /\ poll.todo \subseteq Listing /\ poll.current \subseteq Nat
    /\ poll.conflicts \subseteq Bases /\ poll.stale \subseteq Bases
    /\ poll.managed \subseteq Keys
    /\ \A k \in Keys : poll.items[k].exists => dpc = "stale"
    /\ recent \in [Discoveries -> BOOLEAN]

OperatorMoved == <<pc, dpc, poll>>' # <<pc, dpc, poll>>

\* "The Pipeline controller observes Fleet state without creating or updating the
\* pipeline": while discoveries import read-only, whatever they create, mark, delete
\* and create again, the two reconcilers together never change Fleet.
ReadOnlyImportIsPassive ==
    [][((\A s \in DSpecs : s.mode = "ReadOnly") /\ OperatorMoved) => fleet' = fleet]_allVars

Mirrored(d) ==
    LET listed == Listed(dobj[d].spec)
        ids == {p.id : p \in listed}
        mine == {k \in Keys : obj[k].exists /\ obj[k].ann.by = d}
        gone == {k \in mine : obj[k].ann.id \notin ids}
    IN  /\ \A p \in listed : obj[CRName[p.name]].exists
        /\ gone # {} => dobj[d].spec.onRemoved = "Keep"
        /\ \A k \in mine : obj[k].ann.stale = (k \in gone)
        /\ dobj[d].st.ready = "True" /\ dobj[d].st.og = dobj[d].gen
        /\ dobj[d].st.managed = mine
        /\ dobj[d].st.stale = {obj[k].spec.base : k \in gone}

\* Once nothing else changes the Pipelines mirror Fleet.
ImportConverges ==
    <>[](\A d \in Discoveries : dobj[d].exists /\ dobj[d].spec.valid => Mirrored(d))

=============================================================================
